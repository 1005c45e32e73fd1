SPECIFICATION Spec
CONSTANTS
  Mems = {m1, m2, m3, m4}
  Configs <- MCConfigs
  DefaultMax = 2
  MaxBlocks = 3
  MaxStarts = 3
  None = None
INVARIANTS BlockLedger LookupSound
SYMMETRY MemSymmetry
CHECK_DEADLOCK FALSE
