CONSTANTS
  Moments <- MCMoments
  MAX_TICKS = 2
SPECIFICATION Spec
INVARIANT TypeOK
PROPERTIES NeverBehind ReadExact
