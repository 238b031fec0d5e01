------------------------------ MODULE MCE8Sign ------------------------------
(* Instances of E8Sign for TLC: two messages, and an RNG that may repeat    *)
(* itself in every draw.                                                    *)
EXTENDS E8Sign, TLC

\* Messages and random strings are only compared.
Symmetry == Permutations(Messages) \cup Permutations(Rand)
=============================================================================
