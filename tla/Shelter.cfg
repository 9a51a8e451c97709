SPECIFICATION Spec

CONSTANTS
  None = None
  Period = 1
  MaxPeriods = 2
  MaxEvidence = 5
  Requests = {r1, r2}
  OpTypes = {"move", "resubmit", "allow", "revoke", "add_evidence", "edit", "set_logo", "propose", "cancel", "decide"}
  Moves <- AllMoves
  Sent <- SentBack
  Texts = {t1}
  Logos = {l1}
  Links = {l1}
  StartRows <- AnyRows
  MaxAttempts = 2
  MaxRequests = 4
  MaxClock = 2
  t1 = t1
  l1 = l1

CONSTRAINT OneWorkload

SYMMETRY SlotSymmetry

INVARIANTS
  VerificationChains
  ApprovalKept
  PauseEndsOnlyByResume
  EarlyOnlyWhileOpen
  PermissionsAccounted
  PreviousIsReplaced

PROPERTIES
  ImplementsShelterLife
  ApprovedOnEvidence
  DecisionOnSeenProposal
