--------------------------- MODULE KabinetShelter ---------------------------
(***************************************************************************)
(* One shelter's row and the requests of its admins and of the operator    *)
(* that race to change it: apps/web/src/kabinet/handlers/profile.ts and    *)
(* registry-writes.ts over packages/db/src/repos/kabinet-shelter-repo.ts.  *)
(*                                                                         *)
(* Every write is one statement that compares the row's version, sets the  *)
(* columns its plan names, bumps the version and inserts one history line  *)
(* per entry.  A form carries the version it was read at and is refused on *)
(* any other; a tap that loses its race reads and plans again, with the    *)
(* instant it arrived at.                                                  *)
(*                                                                         *)
(* The animals' columns that the same statements write are in              *)
(* CardVisibility; who may call what, and the files behind a logo, are     *)
(* elsewhere.                                                              *)
(***************************************************************************)
EXTENDS Verification, Log, Sequences

CONSTANTS
  Requests,      \* the slots in which the server runs requests
  OpTypes,       \* the procedures called, of those in AllOpTypes
  Moves,         \* the verification events called for
  Sent,          \* the evidence lists an operator sends
  Texts,         \* what a contact and a display name can be
  Logos,         \* the logos an admin can upload
  Links,         \* the donation links an admin can propose
  StartRows,     \* the rows the model can start from
  MaxAttempts,   \* MAX_ATTEMPTS of both handlers
  MaxRequests,   \* bound on the requests of a behaviour
  MaxClock       \* bound on the clock

AllOpTypes ==
  {"move", "resubmit", "allow", "revoke", "add_evidence", "edit", "set_logo",
   "propose", "cancel", "decide"}

(* The recorded fields of the profile.  The display name, the description, *)
(* the freshness sentence, the address and the contact depend on nothing   *)
(* else in the row: two of them stand for all.                             *)
Profiles ==
  [contact : Texts, display_name : Texts, legal_entity : LegalForms,
   logo : Logos \cup {None}]

Proposals == [link : Links, proposedAt : Nat]

Rows ==
  [verification : Verifications, evidence : SUBSET EvidenceItems,
   early : Nat \cup {None}, profile : Profiles,
   pending : Proposals \cup {None}, live : Links \cup {None}, version : Nat]

(* What one save of a form sets: some of the profile, or one locked field. *)
Patches == [contact : Texts] \cup [display_name : Texts]
             \cup [contact : Texts, display_name : Texts]
             \cup [legal_entity : LegalForms]

ASSUME KabinetShelterAssumption ==
  /\ OpTypes \subseteq AllOpTypes
  /\ Moves \subseteq VerificationEvents \ {"resubmit"}
  /\ Sent \subseteq SentEvidence
  /\ StartRows \subseteq Rows
  /\ MaxAttempts \in Nat \ {0}
  /\ MaxRequests \in Nat
  /\ MaxClock \in Nat
  /\ None \notin Logos \cup Links \cup Proposals \cup Nat

(* A row as it was created or onboarded: no permission, nothing proposed.  *)
ASSUME StartRowsAssumption ==
  \A r \in StartRows : r.early = None /\ r.pending = None /\ r.version = 0

-----------------------------------------------------------------------------
(* Requests.                                                               *)

MoveOps     == [type : {"move"}, event : Moves]
ResubmitOps == [type : {"resubmit"}, sent : Sent \cup {None}]
AllowOps    == [type : {"allow"}, note : BOOLEAN]
AddOps      == [type : {"add_evidence"}, items : Sent]
EditOps     == [type : {"edit"}, version : Nat, patch : Patches,
                recordsUnchanged : BOOLEAN]
LogoOps     == [type : {"set_logo"}, logo : Logos \cup {None}]
ProposeOps  == [type : {"propose"}, link : Links]
DecideOps   == [type : {"decide"}, version : Nat, approve : BOOLEAN,
                shown : Proposals]
PlainOps    == [type : {"revoke", "cancel"}]

Ops == MoveOps \cup ResubmitOps \cup AllowOps \cup AddOps \cup EditOps
         \cup LogoOps \cup ProposeOps \cup DecideOps \cup PlainOps

FormTypes == {"edit", "decide"}

RequestStates ==
  [pc : {"idle", "read", "count", "write"}, op : Ops \cup {None}, now : Nat,
   attempt : Nat, seen : Rows \cup {None}, periods : Nat]

Idle == [pc |-> "idle", op |-> None, now |-> 0, attempt |-> 0, seen |-> None,
         periods |-> 0]

Lines ==
  [kind : {"verification"}, event : VerificationEvents, at : Nat,
   from : Statuses, to : Statuses]
    \cup [kind : {"allowed"}, at : Nat, period : Nat]
    \cup [kind : {"revoked", "lapsed", "evidence_added", "cancelled"}, at : Nat]
    \cup [kind : {"field"}, field : {"contact", "display_name"},
          previous : Texts, next : Texts]
    \cup [kind : {"field"}, field : {"legal_entity"}, previous : LegalForms,
          next : LegalForms]
    \cup [kind : {"field"}, field : {"logo"}, previous : Logos \cup {None},
          next : Logos \cup {None}]
    \cup [kind : {"proposed"}, link : Links]
    \cup [kind : {"decided"}, link : Links, approve : BOOLEAN]

VARIABLES
  row,      \* the shelter's row
  history,  \* its history, in the order the lines were written
  req,      \* the request in each slot
  clock,    \* the servers' clock
  started   \* requests begun so far

vars == <<row, history, req, clock, started>>

Init ==
  /\ row \in StartRows
  /\ history = <<>>
  /\ req = [r \in Requests |-> Idle]
  /\ clock = 0
  /\ started = 0

-----------------------------------------------------------------------------
(* Plans: the columns a write sets and the lines it records, from the row  *)
(* as read.  A plan without lines writes nothing.                          *)

NoPlan == [columns |-> <<>>, lines |-> <<>>]

Plan(columns, lines) == [columns |-> columns, lines |-> lines]

LapseLines(seen, now) ==
  IF Lapsed(seen.early, now)
  THEN <<[kind |-> "lapsed", at |-> seen.early + Period]>>
  ELSE <<>>

MayApprove(seen) ==
  MeetsRequirements(seen.profile.legal_entity, seen.evidence)

(* A move, and the lapse of a permission that it clears.                   *)
MovePlan(seen, event, evidence, now) ==
  LET from == seen.verification
      next == NextVerification(from, event, now)
  IN  IF \/ MoveVerdict(from, event, now) # "ok"
         \/ event = "approve" /\ ~MayApprove(seen)
      THEN NoPlan
      ELSE Plan([verification |-> next, evidence |-> evidence],
                <<[kind |-> "verification", event |-> event, at |-> now,
                   from |-> from.status, to |-> next.status]>>
                  \o IF KeepsEarlyListing(from.status, next.status)
                     THEN <<>> ELSE LapseLines(seen, now))

(* The operator sends a list; the shelter asks again with what is on file. *)
ResubmitPlan(seen, sent, now) ==
  LET evidence == IF sent = None THEN seen.evidence
                  ELSE WithEvidenceOnFile(seen.evidence, sent)
  IN  IF sent # None /\ Cardinality(evidence) > MaxEvidence THEN NoPlan
      ELSE MovePlan(seen, "resubmit", evidence, now)

AllowPlan(seen, note, periods, now) ==
  IF AllowVerdict(seen.verification, seen.evidence, seen.early, periods,
                  note, now) # "ok"
  THEN NoPlan
  ELSE Plan([early |-> now],
            LapseLines(seen, now)
              \o <<[kind |-> "allowed", at |-> now, period |-> periods + 1]>>)

RevokePlan(seen, now) ==
  IF ~EarlyRuns(seen.verification, seen.early, now) THEN NoPlan
  ELSE Plan([early |-> None], <<[kind |-> "revoked", at |-> now]>>)

AddPlan(seen, items, now) ==
  IF AddEvidenceVerdict(seen.verification, seen.evidence, items) # "write"
  THEN NoPlan
  ELSE Plan([verification |-> seen.verification,
             evidence |-> seen.evidence \cup items],
            <<[kind |-> "evidence_added", at |-> now]>>)

FieldLine(seen, patch, field) ==
  [kind |-> "field", field |-> field, previous |-> seen.profile[field],
   next |-> patch[field]]

(* A line for each field the save sets; of an operator's save, for each it *)
(* changes.                                                                *)
ProfilePlan(seen, patch, recordsUnchanged) ==
  LET set == {field \in DOMAIN patch :
                recordsUnchanged \/ patch[field] # seen.profile[field]}
      LineOf(field) == IF field \in set
                       THEN <<FieldLine(seen, patch, field)>> ELSE <<>>
  IN  Plan([profile |-> [field \in DOMAIN seen.profile |->
                           IF field \in set THEN patch[field]
                                            ELSE seen.profile[field]]],
           LineOf("display_name") \o LineOf("contact")
             \o LineOf("legal_entity") \o LineOf("logo"))

(* Setting a logo is recorded even when it is the one there; removing none *)
(* is not.                                                                 *)
LogoPlan(seen, logo) ==
  IF logo = None /\ seen.profile.logo = None THEN NoPlan
  ELSE ProfilePlan(seen, [logo |-> logo], TRUE)

ProposePlan(link, now) ==
  Plan([pending |-> [link |-> link, proposedAt |-> now]],
       <<[kind |-> "proposed", link |-> link]>>)

CancelPlan(seen, now) ==
  IF seen.pending = None THEN NoPlan
  ELSE Plan([pending |-> None], <<[kind |-> "cancelled", at |-> now]>>)

DecidePlan(seen, approve) ==
  IF seen.pending = None THEN NoPlan
  ELSE LET link == seen.pending.link
           line == [kind |-> "decided", link |-> link, approve |-> approve]
       IN  IF approve
           THEN Plan([live |-> link, pending |-> None], <<line>>)
           ELSE Plan([pending |-> None], <<line>>)

PlanOf(seen, op, now, periods) ==
  CASE op.type = "move"     -> MovePlan(seen, op.event, seen.evidence, now)
    [] op.type = "resubmit" -> ResubmitPlan(seen, op.sent, now)
    [] op.type = "allow"    -> AllowPlan(seen, op.note, periods, now)
    [] op.type = "revoke"   -> RevokePlan(seen, now)
    [] op.type = "add_evidence" -> AddPlan(seen, op.items, now)
    [] op.type = "edit"     -> ProfilePlan(seen, op.patch, op.recordsUnchanged)
    [] op.type = "set_logo" -> LogoPlan(seen, op.logo)
    [] op.type = "propose"  -> ProposePlan(op.link, now)
    [] op.type = "cancel"   -> CancelPlan(seen, now)
    [] op.type = "decide"   -> DecidePlan(seen, op.approve)

-----------------------------------------------------------------------------
(* Steps.                                                                  *)

Tick ==
  /\ clock < MaxClock
  /\ clock' = clock + 1
  /\ UNCHANGED <<row, history, req, started>>

Arrives(r, op) ==
  /\ req[r].pc = "idle"
  /\ op.type \in OpTypes
  /\ started < MaxRequests
  /\ started' = started + 1
  /\ req' = [req EXCEPT ![r] = [Idle EXCEPT !.pc = "read", !.op = op,
                                            !.now = clock, !.attempt = 1]]
  /\ UNCHANGED <<row, history, clock>>

(* An operator's or a shelter's tap.                                       *)
TapArrives(r) ==
  \E op \in MoveOps \cup ResubmitOps \cup AllowOps \cup AddOps \cup LogoOps
              \cup ProposeOps \cup PlainOps :
    Arrives(r, op)

(* A form as its page showed the row.  A shelter's own save of its contact *)
(* records a line even when nothing changed.                               *)
EditArrives(r) ==
  \E patch \in Patches, recordsUnchanged \in BOOLEAN :
    /\ recordsUnchanged => DOMAIN patch = {"contact"}
    /\ Arrives(r, [type |-> "edit", version |-> row.version, patch |-> patch,
                   recordsUnchanged |-> recordsUnchanged])

DecideArrives(r) ==
  /\ row.pending # None
  /\ \E approve \in BOOLEAN :
       Arrives(r, [type |-> "decide", version |-> row.version,
                   approve |-> approve, shown |-> row.pending])

(* The request in slot r ends; its answer is left out.                     *)
Ends(r) == req' = [req EXCEPT ![r] = Idle]

(* The read is planned on at once, but for an allowance, which first       *)
(* counts the earlier ones.                                                *)
Reads(r) ==
  /\ req[r].pc = "read"
  /\ LET op == req[r].op
     IN  \/ /\ op.type \in FormTypes
            /\ op.version # row.version
            /\ Ends(r)
         \/ /\ op.type \in FormTypes => op.version = row.version
            /\ op.type # "allow"
            /\ PlanOf(row, op, req[r].now, 0).lines = <<>>
            /\ Ends(r)
         \/ /\ op.type \in FormTypes => op.version = row.version
            /\ op.type # "allow"
            /\ PlanOf(row, op, req[r].now, 0).lines # <<>>
            /\ req' = [req EXCEPT ![r].pc = "write", ![r].seen = row]
         \/ /\ op.type = "allow"
            /\ req' = [req EXCEPT ![r].pc = "count", ![r].seen = row]
  /\ UNCHANGED <<row, history, clock, started>>

PeriodsUsed ==
  Cardinality({i \in DOMAIN history : history[i].kind = "allowed"})

Counts(r) ==
  /\ req[r].pc = "count"
  /\ LET q == req[r]
     IN  IF PlanOf(q.seen, q.op, q.now, PeriodsUsed).lines = <<>>
         THEN Ends(r)
         ELSE req' = [req EXCEPT ![r].pc = "write",
                                 ![r].periods = PeriodsUsed]
  /\ UNCHANGED <<row, history, clock, started>>

(* Mutant: a write that compares no version.                               *)
MatchesAnyVersion(seen) == TRUE

Matches(seen) == row.version = seen.version

(* Mutant: the permission outlives the open statuses.                      *)
EarlyAfterKept(columns) ==
  IF "early" \in DOMAIN columns THEN columns.early ELSE row.early

(* The statement decides on the permission by the row's own status.        *)
EarlyAfter(columns) ==
  IF "early" \in DOMAIN columns THEN columns.early
  ELSE IF "verification" \in DOMAIN columns
            /\ ~KeepsEarlyListing(row.verification.status,
                                  columns.verification.status)
  THEN None
  ELSE row.early

Writes(r) ==
  /\ req[r].pc = "write"
  /\ Matches(req[r].seen)
  /\ LET q    == req[r]
         plan == PlanOf(q.seen, q.op, q.now, q.periods)
     IN  /\ row' = [column \in DOMAIN row |->
                      CASE column = "version" -> row.version + 1
                        [] column = "early"   -> EarlyAfter(plan.columns)
                        [] column \notin {"version", "early"} ->
                             IF column \in DOMAIN plan.columns
                             THEN plan.columns[column] ELSE row[column]]
         /\ history' = history \o plan.lines
  /\ Ends(r)
  /\ UNCHANGED <<clock, started>>

(* A form is told of the conflict; a tap reads again, until it gives up.   *)
LosesRace(r) ==
  /\ req[r].pc = "write"
  /\ ~Matches(req[r].seen)
  /\ IF req[r].op.type \in FormTypes \/ req[r].attempt >= MaxAttempts
     THEN Ends(r)
     ELSE req' = [req EXCEPT ![r].pc = "read", ![r].attempt = @ + 1,
                             ![r].seen = None, ![r].periods = 0]
  /\ UNCHANGED <<row, history, clock, started>>

-----------------------------------------------------------------------------

ArriveSome(r) == TapArrives(r) \/ EditArrives(r) \/ DecideArrives(r)

Serve(r) == Reads(r) \/ Counts(r) \/ Writes(r) \/ LosesRace(r)

Finished ==
  /\ started = MaxRequests
  /\ \A r \in Requests : req[r].pc = "idle"
  /\ UNCHANGED vars

Next == Tick \/ (\E r \in Requests : ArriveSome(r) \/ Serve(r)) \/ Finished

Spec == Init /\ [][Next]_vars

TypeOK ==
  /\ row \in Rows
  /\ history \in Seq(Lines)
  /\ req \in [Requests -> RequestStates]
  /\ clock \in Nat
  /\ started \in Nat

-----------------------------------------------------------------------------
(* Safety.                                                                 *)

MovesOf(events) ==
  {i \in DOMAIN history : /\ history[i].kind = "verification"
                          /\ history[i].event \in events}

(* A permission to be listed early never outlives the open statuses: none  *)
(* is left by an approval, a rejection or an allowance that lost the race  *)
(* to one ("the single invariant" of columnsOf).                           *)
EarlyOnlyWhileOpen == row.early # None => row.verification.status \in OpenStatuses

(* Whether the line ends the permission that ran before it.                *)
EndsPermission(line) ==
  \/ line.kind = "revoked"
  \/ line.kind = "verification" /\ ~KeepsEarlyListing(line.from, line.to)

PermissionLines ==
  {i \in DOMAIN history : \/ history[i].kind \in {"allowed", "lapsed"}
                          \/ EndsPermission(history[i])}

(* The history accounts for every permission: the row holds one exactly    *)
(* when no line ended the last one allowed, and an allowance that follows  *)
(* one nobody ended has that one's lapse just before it.                   *)
PermissionsAccounted ==
  LET lines == PermissionLines
  IN  /\ row.early # None => lines # {}
      /\ \A i \in lines :
           IsLast(lines, i) =>
             row.early = IF history[i].kind = "allowed" THEN history[i].at
                         ELSE None
      /\ \A i, j \in lines :
           Follows(lines, i, j) =>
             ~(history[i].kind = "allowed" /\ history[j].kind = "allowed")

(* The recorded moves chain from status to status and end at the row's.    *)
VerificationChains ==
  LET moves == MovesOf(VerificationEvents)
  IN  /\ \A i, j \in moves :
           Follows(moves, i, j) => history[i].to = history[j].from
      /\ \A i \in moves :
           IsLast(moves, i) => history[i].to = row.verification.status

(* A shelter that was approved shows the instant of that approval, however *)
(* often it was paused, suspended and put back since.                      *)
ApprovalKept ==
  LET approvals == MovesOf({"approve"})
      v == row.verification
      verifiedAt == IF v.status = "suspended" THEN v.priorState.verifiedAt
                                              ELSE v.verifiedAt
  IN  v.status \in {"verified", "paused", "suspended"} =>
        \A i \in approvals :
          IsLast(approvals, i) => verifiedAt = history[i].at

(* A shelter that closed itself is open again only by its own resume (or a *)
(* new approval): no suspension lifted in between reopens it.              *)
PauseEndsOnlyByResume ==
  LET turns == MovesOf({"pause", "resume", "approve"})
  IN  row.verification.status = "verified" =>
        \A i \in turns : IsLast(turns, i) => history[i].event # "pause"

FieldLines(field) ==
  {i \in DOMAIN history : /\ history[i].kind = "field"
                          /\ history[i].field = field}

(* Each field's recorded changes chain from value to value and end at the  *)
(* row's: "the history entry's previous is always the value the write      *)
(* actually replaced".                                                     *)
PreviousIsReplaced ==
  \A field \in DOMAIN row.profile :
    LET lines == FieldLines(field)
    IN  /\ \A i, j \in lines :
             Follows(lines, i, j) => history[i].next = history[j].previous
        /\ \A i \in lines :
             IsLast(lines, i) => history[i].next = row.profile[field]

-----------------------------------------------------------------------------
(* What a step may never do.                                               *)

(* The operator's decision lands on the proposal the operator saw, not on  *)
(* one made since (RG-Q12).                                                *)
DecisionOnSeenProposal ==
  [][ row'.live # row.live
      => \E r \in Requests :
           /\ req[r].pc = "write"
           /\ req[r].op.type = "decide" /\ req[r].op.approve
           /\ req[r].op.shown = row.pending
           /\ row'.live = row.pending.link ]_vars

(* An approval lands only on evidence and a legal form that still meet the *)
(* policy when it lands, whatever was changed since the read.              *)
ApprovedOnEvidence ==
  [][ /\ row.verification.status = "under_review"
      /\ row'.verification.status = "verified"
      => MayApprove(row) ]_vars

-----------------------------------------------------------------------------
(* What the row promises, one step at a time.                              *)

Life == INSTANCE ShelterLife WITH
  status      <- row.verification.status,
  interrupted <- IF row.verification.status = "suspended"
                 THEN row.verification.priorState.status ELSE None,
  eligible    <- MayApprove(row),
  since       <- row.early,
  allowances  <- PeriodsUsed,
  live        <- row.live,
  proposed    <- IF row.pending = None THEN None ELSE row.pending.link

(* Whatever requests overlap, each statement that lands is one step of the *)
(* shelter's life or none: the lifecycle's edges, an approval only on      *)
(* enough evidence, no more permissions than the policy grants ("a third   *)
(* is refused") and none that overlaps the one before, and no link shown   *)
(* that was not proposed.                                                  *)
ImplementsShelterLife == Life!Spec

=============================================================================
