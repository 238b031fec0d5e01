------------------------------ MODULE MCCmnRng ------------------------------
(* Instances of CmnRng for TLC.                                             *)
EXTENDS CmnRng
=============================================================================
