\* Determinants of four rows.
SPECIFICATION Spec
CONSTANTS
  Calls <- DetCalls
  Roots <- MCRoots
  Vectors <- MCVectors
  MaxUpdates = 2
  Passes = 6
  Turns = 6
  Sweeps = 2
  Residuals = {0, 1}
  Infinite = Infinite
  NotANumber = NotANumber
  RandomIterations = 4
  TimesUntilBreak = 2
  GradientsLen = 3
INVARIANT
  DetIsDeterminant
CHECK_DEADLOCK FALSE
