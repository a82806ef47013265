SPECIFICATION Spec
CONSTANTS
  MAX_CID_LEN = 2
  VarintLens = {1, 2, 4, 8}
  Values = {0, 1, 2, 3, 9, 30}
  MaxLen = 27
INVARIANTS
  ReadingStaysInside
  ReadingAdvances
  KindsDecide
