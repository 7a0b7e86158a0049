CONSTANTS
  Proc = {p1, p2, p3}
  Key = {k1}
  Val = {v1}
  None = None
SPECIFICATION Spec
INVARIANTS TypeOK Exclusion
PROPERTIES SelfBlockIsForever CallsReturn AtomicSpec
CHECK_DEADLOCK FALSE
