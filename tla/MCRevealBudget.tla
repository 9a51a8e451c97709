--------------------------- MODULE MCRevealBudget ---------------------------
(* A small instance of RevealBudget for TLC.                               *)
EXTENDS RevealBudget, TLC

CONSTANTS a1, a2, b1, A, B

(* Two animals of one shelter, and one of another.                         *)
TwoShelters == a1 :> A @@ a2 :> A @@ b1 :> B

RequestSymmetry == Permutations(Requests)

=============================================================================
