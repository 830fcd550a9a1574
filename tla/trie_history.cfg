SPECIFICATION Spec
CONSTANTS
  NumKeys = 5
  Vals = {v1, v2}
  Nil = nil
  Slices = {0, 1}
  Levels = 3
  BucketSize = 3
SYMMETRY ValSymmetry
INVARIANTS
  HistoryIndependent
  LookupsAgree
