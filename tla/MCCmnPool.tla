------------------------------ MODULE MCCmnPool ------------------------------
(* Instances of CmnPool for TLC.  The generation wraps after a few bumps,   *)
(* so that every run goes through the wrap-around.                          *)
EXTENDS CmnPool
=============================================================================
