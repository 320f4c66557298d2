----------------------------- MODULE MCLanding ------------------------------
(* The instance of Landing for TLC.                                         *)
EXTENDS Landing

=============================================================================
