SPECIFICATION Spec
CONSTANTS
  Node = {n1, n2}
  Key = {k1, k2}
  Value = {v1, v2}
  MaxTime = 1
  ClockMayRepeat = FALSE
  Absent = Absent
  Garbled = Garbled
SYMMETRY Interchangeable
INVARIANTS StoreIsNewest OrderIndependent Authentic
PROPERTY NeverBackwards
