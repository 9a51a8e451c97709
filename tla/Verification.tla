---------------------------- MODULE Verification ----------------------------
(***************************************************************************)
(* The rules a shelter's verification moves by, with no rows and no        *)
(* requests: packages/domain/src/shelters/verification.  The lifecycle     *)
(* (transition.ts, state.ts), the permission to be listed before           *)
(* verification (early-listing.ts), and what the evidence on file must     *)
(* hold (policy.ts, evidence-add.ts, and the kabinet's                     *)
(* evidence-on-file.ts).                                                   *)
(*                                                                         *)
(* Of a state the model keeps the instants; who acted and why travel with  *)
(* them.  The evidence, which every state carries unchanged, is a field of *)
(* the row instead, and an evidence list is the set of its items.          *)
(***************************************************************************)
EXTENDS Integers, FiniteSets

CONSTANTS
  None,            \* null
  Period,          \* EARLY_LISTING_DAYS
  MaxPeriods,      \* EARLY_LISTING_MAX_PERIODS
  MaxEvidence      \* MAX_EVIDENCE_ITEMS

ASSUME VerificationAssumption ==
  /\ Period \in Nat \ {0}
  /\ MaxPeriods \in Nat
  /\ MaxEvidence \in Nat

-----------------------------------------------------------------------------
(* The states.                                                             *)

(* What a suspension keeps of the state it interrupted.                    *)
InterruptedStates ==
  [status : {"verified"}, verifiedAt : Nat]
    \cup [status : {"paused"}, verifiedAt : Nat, pausedAt : Nat]

Verifications ==
  [status : {"pending"}, submittedAt : Nat]
    \cup [status : {"under_review"}, startedAt : Nat]
    \cup [status : {"rejected"}, rejectedAt : Nat]
    \cup [status : {"suspended"}, suspendedAt : Nat,
          priorState : InterruptedStates]
    \cup InterruptedStates

Statuses ==
  {"pending", "under_review", "verified", "rejected", "paused", "suspended"}

(* A shelter resumed or reinstated is back at its first approval, so its   *)
(* state is as old as that.                                                *)
EnteredAt(v) ==
  CASE v.status = "pending"      -> v.submittedAt
    [] v.status = "under_review" -> v.startedAt
    [] v.status = "verified"     -> v.verifiedAt
    [] v.status = "rejected"     -> v.rejectedAt
    [] v.status = "paused"       -> v.pausedAt
    [] v.status = "suspended"    -> v.suspendedAt

-----------------------------------------------------------------------------
(* The moves.                                                              *)

VerificationEvents ==
  {"start_review", "approve", "reject", "suspend", "reinstate", "pause",
   "resume", "resubmit"}

LegalMoves(status) ==
  CASE status = "pending"      -> {"start_review", "reject"}
    [] status = "under_review" -> {"approve", "reject"}
    [] status = "verified"     -> {"suspend", "pause"}
    [] status = "paused"       -> {"resume", "suspend"}
    [] status = "rejected"     -> {"resubmit"}
    [] status = "suspended"    -> {"reinstate", "reject"}

(* Mutant: lifting a suspension always reopens the shelter.                *)
NextVerificationReopens(v, event, at) ==
  CASE event = "start_review" -> [status |-> "under_review", startedAt |-> at]
    [] event = "approve" -> [status |-> "verified", verifiedAt |-> at]
    [] event = "reject"  -> [status |-> "rejected", rejectedAt |-> at]
    [] event = "suspend" -> [status |-> "suspended", suspendedAt |-> at,
                             priorState |-> v]
    [] event = "pause"   -> [status |-> "paused", verifiedAt |-> v.verifiedAt,
                             pausedAt |-> at]
    [] event = "resume"  -> [status |-> "verified",
                             verifiedAt |-> v.verifiedAt]
    [] event = "resubmit"  -> [status |-> "pending", submittedAt |-> at]
    [] event = "reinstate" -> [status |-> "verified",
                               verifiedAt |-> v.priorState.verifiedAt]

(* Mutant: a resumed shelter counts as approved when it resumed.           *)
NextVerificationResumesAnew(v, event, at) ==
  CASE event = "start_review" -> [status |-> "under_review", startedAt |-> at]
    [] event = "approve" -> [status |-> "verified", verifiedAt |-> at]
    [] event = "reject"  -> [status |-> "rejected", rejectedAt |-> at]
    [] event = "suspend" -> [status |-> "suspended", suspendedAt |-> at,
                             priorState |-> v]
    [] event = "pause"   -> [status |-> "paused", verifiedAt |-> v.verifiedAt,
                             pausedAt |-> at]
    [] event = "resume"  -> [status |-> "verified", verifiedAt |-> at]
    [] event = "resubmit"  -> [status |-> "pending", submittedAt |-> at]
    [] event = "reinstate" -> v.priorState

(* The state an event leads to, for an event transition accepts.           *)
NextVerification(v, event, at) ==
  CASE event = "start_review" -> [status |-> "under_review", startedAt |-> at]
    [] event = "approve" -> [status |-> "verified", verifiedAt |-> at]
    [] event = "reject"  -> [status |-> "rejected", rejectedAt |-> at]
    [] event = "suspend" -> [status |-> "suspended", suspendedAt |-> at,
                             priorState |-> v]
    [] event = "pause"   -> [status |-> "paused", verifiedAt |-> v.verifiedAt,
                             pausedAt |-> at]
    [] event = "resume"  -> [status |-> "verified",
                             verifiedAt |-> v.verifiedAt]
    [] event = "resubmit"  -> [status |-> "pending", submittedAt |-> at]
    [] event = "reinstate" -> v.priorState

(* Legality before ordering.                                               *)
MoveVerdict(v, event, at) ==
  IF event \notin LegalMoves(v.status) THEN "illegal"
  ELSE IF at < EnteredAt(v) THEN "non_monotonic"
  ELSE "ok"

-----------------------------------------------------------------------------
(* Listing before verification.                                            *)

OpenStatuses == {"pending", "under_review"}

KeepsEarlyListing(from, to) == from \in OpenStatuses /\ to \in OpenStatuses

(* A permission acts in the open statuses, and not at its last instant.    *)
EarlyRuns(v, since, now) ==
  /\ v.status \in OpenStatuses
  /\ since # None
  /\ now < since + Period

(* Mutant: a permission still running at its last instant.                 *)
LapsedAfterwards(since, now) == since # None /\ now > since + Period

Lapsed(since, now) == since # None /\ now >= since + Period

EarlyListingEvidence == {"visit", "reference", "reference2"}

(* Mutant: one period more than the policy grants.                         *)
AllowVerdictOneMore(v, evidence, since, periodsUsed, note, now) ==
  IF v.status \notin OpenStatuses THEN "wrong_status"
  ELSE IF EarlyRuns(v, since, now) THEN "already_running"
  ELSE IF evidence \cap EarlyListingEvidence = {}
  THEN "evidence_below_minimum"
  ELSE IF periodsUsed > MaxPeriods THEN "limit_reached"
  ELSE IF periodsUsed >= 1 /\ ~note THEN "note_required"
  ELSE "ok"

AllowVerdict(v, evidence, since, periodsUsed, note, now) ==
  IF v.status \notin OpenStatuses THEN "wrong_status"
  ELSE IF EarlyRuns(v, since, now) THEN "already_running"
  ELSE IF evidence \cap EarlyListingEvidence = {}
  THEN "evidence_below_minimum"
  ELSE IF periodsUsed >= MaxPeriods THEN "limit_reached"
  ELSE IF periodsUsed >= 1 /\ ~note THEN "note_required"
  ELSE "ok"

-----------------------------------------------------------------------------
(* Evidence.  Two references differ in their channel.                      *)

EvidenceItems ==
  {"registration", "bank", "reference", "reference2", "visit", "document"}

(* The items that hold a document key, which no input may carry.           *)
Documents == {"document"}

SentEvidence == SUBSET (EvidenceItems \ Documents)

LegalForms == {"registered", "unregistered"}

(* A registered shelter shows its papers; a volunteer group cannot, and is *)
(* visited and vouched for twice instead.                                  *)
MeetsRequirements(form, evidence) ==
  CASE form = "registered" ->
         /\ {"registration", "bank"} \subseteq evidence
         /\ evidence \cap {"reference", "reference2"} # {}
    [] form = "unregistered" ->
         {"visit", "reference", "reference2"} \subseteq evidence

AddEvidenceVerdict(v, evidence, items) ==
  IF v.status \notin OpenStatuses THEN "not_open"
  ELSE IF items \subseteq evidence THEN "ok"
  ELSE IF Cardinality(evidence \cup items) > MaxEvidence THEN "too_many"
  ELSE "write"

WithEvidenceOnFile(onFile, sent) == sent \cup (onFile \cap Documents)

=============================================================================
