SPECIFICATION Spec

CONSTANTS
  None = None
  a1 = a1
  a2 = a2
  b1 = b1
  A = A
  B = B
  Requests = {r1, r2, r3}
  Animals = {a1, a2, b1}
  Shelters = {A, B}
  ShelterOf <- TwoShelters
  MaxShelters = 1
  Window = 2
  MaxClock = 3

SYMMETRY RequestSymmetry

INVARIANTS
  ChargedWithinBudget
  OneRevealTold

CHECK_DEADLOCK FALSE
