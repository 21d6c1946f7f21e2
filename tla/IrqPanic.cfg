CONSTANTS
  Lines = {0}
  Faults <- MCFaults
  RIP = RIP
  CS = CS
  RFLAGS = RFLAGS
  RSP = RSP
  SS = SS
  TICK_WRAP = 4
  NULL = NULL
SPECIFICATION Spec
CHECK_DEADLOCK FALSE
INVARIANT PanicNamesFault
