SPECIFICATION Spec
CONSTANTS
  Tasks = {a1, a2}
  Joins = {j}
  Slots = {s1, s2}
  Forwards = {f}
  Executions = 2
  JoinConfigs <- MCJoinConfigs
  MaxAdvances = 4
  MaxInstalls = 2
  Untagged = untagged
  Nothing = nothing
SYMMETRY Symmetry
CHECK_DEADLOCK FALSE
INVARIANTS TypeOK OneGeneration FiresAsInstalled AgedOncePerDispatch
