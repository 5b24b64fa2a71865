SPECIFICATION FormatsSpec
CONSTANTS
  Radix = 16
  Block = 3
  PortNumbers <- MCPortNumbers
  Samples <- MCSamples
  Trees <- MCTrees
INVARIANTS
  FillsBuffer
  ReadBack
  CutNeverInvents
  TreeFillsBuffer
  TreeReadBack
  CutTreeNeverInvents
CHECK_DEADLOCK FALSE
