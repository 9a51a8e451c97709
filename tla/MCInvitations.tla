--------------------------- MODULE MCInvitations ---------------------------
(* Small instances of Invitations for TLC.                                 *)
EXTENDS Invitations, TLC

(* An account no invitation created: an operator's, or a former one's.     *)
Bootstrapped == [id |-> 0, verified |-> TRUE, createdFor |-> None]

NewOrKnown == {None, Bootstrapped}
Nobody     == {None}

ShelterSymmetry == Permutations(Shelters) \cup Permutations(Requests)

=============================================================================
