\* The integrator's state array against what the headers say of a reset.
SPECIFICATION Spec
CONSTANTS
  Edge = {"in", "out"}
  InEdge = "in"
  OutEdge = "out"
  Buffer = {"b2", "b4"}
  BufferLen <- MCBufferLen
  NULL = NULL
  MaxDim = 2
  CountMod = 64
  MaxSlots = 1
  OpType = {"GAIN", "INTEGRATOR", "DIFF_EQ", "PID"}
  K <- MCK
  Dt <- MCDt
  Num <- MCNum
  Den <- MCDen
  NumOrder = 3
  DenOrder = 3
  StateLen = 4
  VectorLen = {1, 2}
  Shapes <- MCShapes
  Signals <- MCSignals
  MaxChanges = 2
  MaxSteps = 3
INVARIANT
  ResetStartsAnew
CHECK_DEADLOCK FALSE
