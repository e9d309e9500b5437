SPECIFICATION ClientSpec
CONSTANTS
  Tasks = {t1, t2, t3}
  Workers = {w1, w2}
  DispatchKeys = {k1}
  NoOwner = NoOwner
SYMMETRY Symmetry
INVARIANTS KeysConsistent HeadIsClaimable
PROPERTIES OwnerKeepsWork WorkIsConserved NoOvertaking ImplementsContract
CHECK_DEADLOCK FALSE
