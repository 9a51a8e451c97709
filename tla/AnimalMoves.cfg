SPECIFICATION Spec

CONSTANTS
  None = None
  UndoWindow = 1
  Requests = {r1, r2}
  PhotoKeys = {k1, k2, k3}
  OpTypes = {"tap", "add", "remove", "reorder", "delete"}
  Events <- MoveEvents
  Patches <- NoPatches
  StartCards <- DraftOrCard
  MaxPhotos = 2
  MaxTapAttempts = 3
  MaxPhotoAttempts = 3
  LostAnswers = TRUE
  MaxRequests = 4
  MaxClock = 2
  k1 = k1
  k2 = k2
  k3 = k3

SYMMETRY FreshSymmetry

INVARIANTS
  InstantsInOrder
  DeletedNeverPublic
  HistoryChains
  PhotoLimit

PROPERTIES
  ConfirmationFallsOnlyByUndo
  WaitClockKept
  PhotoLeavesOnlyByRemoval
