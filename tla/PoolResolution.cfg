CONSTANTS
  Pools = {p1, p2}
  Factory = Factory
  Others = {o}
  Zero = Zero
  NoPool = NoPool
  FirstIndex = 7
  MaxLogs = 6
SPECIFICATION Spec
INVARIANT ResolvesToItsPool
CHECK_DEADLOCK FALSE
