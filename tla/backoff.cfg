SPECIFICATION Spec
CONSTANTS
  MaxDelay = 6
  MaxDelayMax = 40
  MaxAttempts = 45
INVARIANT WaitBounded
PROPERTIES DelayGrows
