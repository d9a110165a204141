CONSTANTS
  BaseReserves = {b}
  MetaReserves = {m}
  Factories = {f}
  Deployers = {d}
  Values = {v, zero}
  ZeroAddr = zero
  Null = Null
  MaxLogs = 3
SPECIFICATION Spec
INVARIANTS TypeOK ColumnsAreLatest ReserveIsIdentified
CHECK_DEADLOCK FALSE
