SPECIFICATION FairSpec

CONSTANTS
  None = None
  UndoWindow = 1
  Requests = {r1, r2}
  PhotoKeys = {k1, k2, k3}
  OpTypes = {"tap", "edit", "add", "remove", "delete"}
  Events <- EditEvents
  Patches <- FormPatches
  StartCards <- NearlyReady
  MaxPhotos = 2
  MaxTapAttempts = 3
  MaxPhotoAttempts = 3
  LostAnswers = FALSE
  MaxRequests = 4
  MaxClock = 0
  k1 = k1
  k2 = k2
  k3 = k3


INVARIANTS
  ListedHasFacts
  VisibleHasPhoto
  EditsSerial

PROPERTIES
  ImplementsCardLife
  UploadsSettled
  EveryRequestAnswered
