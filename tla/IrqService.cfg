CONSTANTS
  Lines = {0, 1, 4, 8, 14}
  Faults <- MCFaults
  RIP = RIP
  CS = CS
  RFLAGS = RFLAGS
  RSP = RSP
  SS = SS
  TICK_WRAP = 4
  NULL = NULL
SPECIFICATION Spec
CHECK_DEADLOCK FALSE
INVARIANTS TypeOK EntersItsStub NothingLeftInService ReturnsToInterrupted
PROPERTY TimerServed
