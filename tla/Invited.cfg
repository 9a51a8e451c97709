SPECIFICATION Spec

CONSTANTS
  None = None
  Shelters = {s1, s2}
  Lifetime = 0
  Requests = {r1, r2}
  OpTypes = {"invite", "resend", "remove", "accept", "grant", "revoke", "clean_up"}
  Crashes = TRUE
  StartAccounts <- NewOrKnown
  MaxRequests = 4
  MaxClock = 2

SYMMETRY ShelterSymmetry

INVARIANTS
  OneRoleUnlessCrossed
  OneShelterUnlessCrossed
  NonePendingUnlessCrossed
  HistoryUnlessCrossed

PROPERTIES
  ErasureUnlessCrossed
  ImplementsAdminLife
