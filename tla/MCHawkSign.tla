------------------------------ MODULE MCHawkSign ------------------------------
(* Instances of HawkSign for TLC. *)
EXTENDS HawkSign
=============================================================================
