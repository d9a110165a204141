CONSTANTS
  Base = Base
  Meta = Meta
  x = x
  y = y
  BaseAssets <- MCBaseAssets
  Native = n
  Users = {u}
  Zero = Zero
  Treasury = Treasury
  Factory = Factory
  None = None
  Oracle = Oracle
  One = 4
  Prices = {3}
  Scale <- MCScale
  Amounts = {2}
  Baskets <- MCBaskets
  Setups <- AllIndexed
  MaxOps = 2
  MaxDay = 2
SPECIFICATION Spec
INVARIANT LatestRowHasSupply
CHECK_DEADLOCK FALSE
