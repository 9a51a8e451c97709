--------------------------- MODULE MCPhotoCleanup ---------------------------
(***************************************************************************)
(* PhotoCleanup on a small instance.                                       *)
(***************************************************************************)
EXTENDS PhotoCleanup, TLC

Symmetric == Permutations(Photos) \cup Permutations(Variants)

(* One photo is in snapshots, the other in none: they differ only there.   *)
OneTold == Cardinality(snapshots) <= 1

=============================================================================
