-------------------------- MODULE MCCardVisibility --------------------------
(* Small instances of CardVisibility for TLC.                              *)
EXTENDS CardVisibility, TLC

CONSTANTS c1, c2, kyiv, dnipro

ShelterAt(verification) ==
  [verification |-> verification, early |-> None, city |-> kyiv,
   version |-> 0]

Reviewed == ShelterAt([status |-> "under_review", startedAt |-> 0])
Verified == ShelterAt([status |-> "verified", verifiedAt |-> 0])
Paused   == ShelterAt([status |-> "paused", verifiedAt |-> 0, pausedAt |-> 0])

Draft == [listing |-> L!DraftListing, city |-> kyiv, servedAt |-> None]

OnDisplay(servedAt) ==
  [listing |-> [kind |-> "published", publishedAt |-> 0, confirmedAt |-> 0,
                undoable |-> None],
   city |-> kyiv, servedAt |-> servedAt]

AnyShelter   == {Reviewed, Verified, Paused}
AnyCard      == {Draft, OnDisplay(None), OnDisplay(0)}
AnyCardOrNone == AnyCard \cup {NoCard}

OneCity  == {kyiv}
TwoCities == {kyiv, dnipro}

ReviewMoves  == {"approve", "pause", "resume"}
AllMoves     == VerificationEvents
CardMoves    == {"publish", "confirm", "withdraw", "restore_to_draft"}

CardSymmetry == Permutations(Requests) \cup Permutations(Cards \ Fostered)

=============================================================================
