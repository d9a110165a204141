CONSTANTS
  b = b
  m = m
  s = s
  o = o
  r = r
  d = d
  x = x
  y = y
  i = i
  stranger = stranger
  h1 = h1
  h2 = h2
  Holders = {h1, h2, CurveFactory}
  Pools = {b, m, s, o}
  Truth <- MCTruth
  Unresolvable = {o}
  Streams <- MCStreams
  CurveFactory = CurveFactory
  NoAddr = NoAddr
  AbiId = 7
  MaxFaults = 3
SPECIFICATION FairSpec
INVARIANTS TypeOK RowKeepsBoth DiscoveredIsSourced NoOwnLogLost LpAgreesWithPool BlankWasAnswered DirectoryComplete
PROPERTIES SourceGetsItsRow
CHECK_DEADLOCK FALSE
