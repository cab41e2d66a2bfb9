CONSTANTS
  Session = {s1, s2}
  NoSession = none
  MaxFiled = 2
  MaxEnds = 1
SPECIFICATION Spec
SYMMETRY Symmetry
INVARIANTS ChatIsWhole NoDeadHandle WipedStaysWiped
CHECK_DEADLOCK FALSE
