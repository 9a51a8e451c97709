----------------------------- MODULE ShelterLife -----------------------------
(***************************************************************************)
(* What a shelter's record promises whoever reads it, with no requests,    *)
(* races or retries in sight: how its verification moves, what an approval *)
(* stands on, how often and when it may be listed before one, and which    *)
(* donation link it shows.  KabinetShelter is shown to implement it.       *)
(***************************************************************************)
EXTENDS Naturals

CONSTANTS None, Period, MaxPeriods, Links

VARIABLES
  status,       \* where its verification stands
  interrupted,  \* the status a suspension will give back, or None
  eligible,     \* its evidence and legal form meet the policy
  since,        \* the instant it was last allowed to be listed early, or None
  allowances,   \* how often it was
  live,         \* the donation link it shows, or None
  proposed      \* the link that awaits a decision, or None

life == <<status, interrupted, eligible, since, allowances, live, proposed>>

Open == {"pending", "under_review"}

Init ==
  /\ \/ /\ status \in Open \cup {"verified", "rejected", "paused"}
        /\ interrupted = None
     \/ status = "suspended" /\ interrupted \in {"verified", "paused"}
  /\ eligible \in BOOLEAN
  /\ since = None /\ allowances = 0
  /\ live \in Links \cup {None} /\ proposed = None

(* A move ends the permission unless the shelter stays open, and keeps     *)
(* what a suspension interrupts.                                           *)
Move(from, to) ==
  /\ status \in from
  /\ status' = to
  /\ interrupted' = IF to = "suspended" THEN status ELSE None
  /\ since' = IF to \in Open THEN since ELSE None
  /\ UNCHANGED <<allowances, live, proposed>>

Judge(from, to) == Move(from, to) /\ UNCHANGED eligible

StartReview == Judge({"pending"}, "under_review")
Approve     == eligible /\ Judge({"under_review"}, "verified")
Reject      == Judge({"pending", "under_review", "suspended"}, "rejected")
Suspend     == Judge({"verified", "paused"}, "suspended")
Reinstate   == Judge({"suspended"}, interrupted)
Pause       == Judge({"verified"}, "paused")
Resume      == Judge({"paused"}, "verified")

(* Asking again may bring other evidence.                                  *)
Resubmit == Move({"rejected"}, "pending") /\ eligible' \in BOOLEAN

(* Evidence is added or the legal form corrected.                          *)
FileChanges ==
  /\ eligible' \in BOOLEAN
  /\ UNCHANGED <<status, interrupted, since, allowances, live, proposed>>

(* No period overlaps the one before it, and no shelter gets more than it  *)
(* may.                                                                    *)
Allow ==
  /\ status \in Open
  /\ allowances < MaxPeriods /\ allowances' = allowances + 1
  /\ since' \in Nat
  /\ since # None => since' >= since + Period
  /\ UNCHANGED <<status, interrupted, eligible, live, proposed>>

Revoke ==
  /\ since # None
  /\ since' = None
  /\ UNCHANGED <<status, interrupted, eligible, allowances, live, proposed>>

Donations(link, awaiting) ==
  /\ live' = link
  /\ proposed' = awaiting
  /\ UNCHANGED <<status, interrupted, eligible, since, allowances>>

(* A proposal replaces one not yet decided; only one that awaits a         *)
(* decision becomes the link shown.                                        *)
Propose == \E link \in Links : Donations(live, link)
Drop    == proposed # None /\ Donations(live, None)
Accept  == proposed # None /\ Donations(proposed, None)

Next ==
  \/ StartReview \/ Approve \/ Reject \/ Suspend \/ Reinstate \/ Pause
  \/ Resume \/ Resubmit \/ FileChanges \/ Allow \/ Revoke \/ Propose \/ Drop
  \/ Accept

Spec == Init /\ [][Next]_life

=============================================================================
