----------------------------- MODULE MCE8Sampler -----------------------------
(* Instances of E8Sampler for TLC. *)
EXTENDS E8Sampler
=============================================================================
