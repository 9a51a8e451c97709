-------------------------- MODULE MCKabinetShelter --------------------------
(* Small instances of KabinetShelter for TLC.                              *)
EXTENDS KabinetShelter, TLC

CONSTANTS t1, l1

RowAt(verification, evidence, form) ==
  [verification |-> verification, evidence |-> evidence, early |-> None,
   profile |-> [contact |-> t1, display_name |-> t1, legal_entity |-> form,
                logo |-> None],
   pending |-> None, live |-> None, version |-> 0]

Pending  == [status |-> "pending", submittedAt |-> 0]
Reviewed == [status |-> "under_review", startedAt |-> 0]
Verified == [status |-> "verified", verifiedAt |-> 0]
Refused  == [status |-> "rejected", rejectedAt |-> 0]

Vouched == {"visit", "reference", "reference2"}
Papers  == {"registration", "bank", "reference"}

(* Onboarded by the script: a document is on file.                         *)
OnboardedRows == {RowAt(Verified, Vouched \cup {"document"}, "unregistered"),
                  RowAt(Reviewed, Vouched, "unregistered")}
NewRows       == {RowAt(Pending, {"visit"}, "registered")}
ReviewedRows  == {RowAt(Reviewed, Papers, "registered"),
                  RowAt(Refused, Papers \cup {"document"}, "registered")}

AllMoves   == VerificationEvents \ {"resubmit"}

SentBack    == {{"registration", "bank"}, {"reference2"}}

AnyRows == NewRows \cup ReviewedRows \cup OnboardedRows

(* Any two requests meet in the first instants; a third and a fourth, and  *)
(* what happens at the last instant, join requests that write the same     *)
(* part of the row.  Evidence needs no clock.                              *)
Workloads ==
  {[ops |-> {"move", "resubmit", "add_evidence", "edit"},
    lines |-> {"verification", "evidence_added", "field"}, last |-> 0],
   [ops |-> {"move", "allow", "revoke"},
    lines |-> {"verification", "allowed", "revoked", "lapsed"}, last |-> 2],
   [ops |-> {"edit", "set_logo", "propose", "cancel", "decide"},
    lines |-> {"field", "proposed", "cancelled", "decided"}, last |-> 1]}

InFlight == {r \in Requests : req[r].pc # "idle"}

OneWorkload ==
  \/ started < MaxRequests - 1 /\ clock < MaxClock
  \/ \E w \in Workloads :
       /\ clock <= w.last
       /\ \A r \in InFlight : req[r].op.type \in w.ops
       /\ \A i \in DOMAIN history : history[i].kind \in w.lines

SlotSymmetry == Permutations(Requests)

=============================================================================
