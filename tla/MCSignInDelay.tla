--------------------------- MODULE MCSignInDelay ---------------------------
(* A small instance of SignInDelay for TLC.                                *)
EXTENDS SignInDelay

TwoDelays == <<2, 3>>

=============================================================================
