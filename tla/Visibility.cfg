SPECIFICATION Spec

CONSTANTS
  None = None
  UndoWindow = 1
  Period = 1
  MaxPeriods = 2
  MaxEvidence = 5
  Cards = {c1}
  Fostered = {}
  Cities <- TwoCities
  Requests = {r1, r2}
  OpTypes = {"create", "listing", "move", "allow", "revoke", "address"}
  Moves <- AllMoves
  ListingMoves <- CardMoves
  StartShelters <- AnyShelter
  StartCards <- AnyCardOrNone
  MaxAttempts = 3
  MaxRequests = 4
  MaxClock = 1
  c1 = c1
  c2 = c2
  kyiv = kyiv
  dnipro = dnipro

SYMMETRY CardSymmetry

INVARIANTS
  ShownIsStamped
  CityMirrors

PROPERTIES
  StampHasGrounds
