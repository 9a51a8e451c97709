SPECIFICATION Spec

CONSTANTS
  None = None
  SignIns = {r1, r2}
  Writers = {w1, w2}
  MaxWrites = 3

SYMMETRY SlotSymmetry

INVARIANTS
  NoOldPasswordSession
  NeverStranded
