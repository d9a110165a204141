CONSTANTS
  N = 2
  MaxFaults = 2
  f = f
  r = r
  i = i
  c = c
  p = p
  Addr = {f, r, i, c, p}
  NoAddr = NoAddr
  LogRecord <- Records
  Config <- DisagreeingConfigs
SPECIFICATION Spec
INVARIANT ConfigWins
CHECK_DEADLOCK FALSE
