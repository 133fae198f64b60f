SPECIFICATION AuditsSpec
CONSTANTS
  Detectors <- MCDetectors
  Case <- MCCase
  MaxSteps = 3
INVARIANT PassIsEarned
PROPERTY FailuresStick
PROPERTY OverdueOnlyHolds
CHECK_DEADLOCK FALSE
