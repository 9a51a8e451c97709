SPECIFICATION Spec

CONSTANTS
  None = None
  UndoWindow = 1
  Period = 1
  MaxPeriods = 2
  MaxEvidence = 5
  Cards = {c1}
  Fostered = {}
  Cities <- OneCity
  Requests = {r1, r2}
  OpTypes = {"listing", "move"}
  Moves <- ReviewMoves
  ListingMoves <- CardMoves
  StartShelters <- AnyShelter
  StartCards <- AnyCard
  MaxAttempts = 3
  MaxRequests = 4
  MaxClock = 2
  c1 = c1
  c2 = c2
  kyiv = kyiv
  dnipro = dnipro

SYMMETRY CardSymmetry

INVARIANTS
  EveryShownIsStamped
