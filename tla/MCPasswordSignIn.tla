-------------------------- MODULE MCPasswordSignIn --------------------------
(* Small instances of PasswordSignIn for TLC.                              *)
EXTENDS PasswordSignIn, TLC

SlotSymmetry == Permutations(SignIns) \cup Permutations(Writers)

=============================================================================
