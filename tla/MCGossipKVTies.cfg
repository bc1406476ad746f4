SPECIFICATION Spec
CONSTANTS
  Node = {n1, n2}
  Key = {k1}
  Value = {v1, v2}
  MaxTime = 1
  ClockMayRepeat = TRUE
  Absent = Absent
  Garbled = Garbled
INVARIANT OrderIndependent
