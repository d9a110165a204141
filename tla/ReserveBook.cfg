CONSTANTS
  Base = Base
  Meta = Meta
  x = x
  y = y
  BaseAssets <- MCBaseAssets
  Native = n
  Users = {u}
  Zero = Zero
  Treasury = Treasury
  Factory = Factory
  None = None
  Oracle = Oracle
  One = 4
  Prices = {3}
  Scale <- MCScale
  Amounts = {2}
  Baskets <- MCBaskets
  Setups <- MCSetups
  MaxOps = 3
  MaxDay = 2
SPECIFICATION Spec
INVARIANTS TypeOK HoldingsExact SupplyConserved IouMirrored LpReconciles IouReconciles
  LegIsLpBalance BaseSnapshotCurrent HistoriesAgree  AverageIsBetween
CHECK_DEADLOCK FALSE
