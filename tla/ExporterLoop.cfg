CONSTANTS
  N = 3
  MaxFaults = 2
  f = f
  r = r
  i = i
  c = c
  p = p
  Addr = {f, r, i, c, p}
  NoAddr = NoAddr
  LogRecord <- Records
  Config <- Configs
SPECIFICATION FairSpec
INVARIANTS TypeOK ExactlyOnce NoGap RefusedStaysPending MemoryCoversTable
PROPERTIES EventsKeepRows RoutedAsTabled ImplementsLogConsumption EventuallyConsumed
CHECK_DEADLOCK FALSE
