SPECIFICATION Spec

CONSTANTS
  None = None
  Shelters = {s1, s2}
  Lifetime = 1
  Requests = {r1}
  OpTypes = {"invite", "resend"}
  Crashes = FALSE
  StartAccounts <- Nobody
  MaxRequests = 2
  MaxClock = 2

PROPERTIES
  ResendKeepsInvited
