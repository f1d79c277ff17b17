SPECIFICATION Spec
CONSTANTS
  Calls <- MCCalls
  Roots <- MCRoots
  Vectors <- MCVectors
  MaxUpdates = 2
  Passes = 6
  Turns = 6
  Sweeps = 2
  Residuals = {0, 1}
  Infinite = Infinite
  NotANumber = NotANumber
  RandomIterations = 4
  TimesUntilBreak = 2
  GradientsLen = 3
INVARIANTS
  SolversSolve
  AnswersWhereItCan
  InverseInverts
  FactorFollowsUpdates
  QrFactors
  SpectrumKept
  ColumnsFollowValues
  BlocksMove
  ExponentialIsSeries
  ReturnsBestPointMet
CHECK_DEADLOCK FALSE
