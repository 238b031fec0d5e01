--------------------------- MODULE MCRuntimeCache ---------------------------
(* Instances of RuntimeCache for TLC. *)
EXTENDS RuntimeCache

CONSTANTS Values, MaxWeight, Slips

\* Every row of so many values and weights, and its mirror image as the second
\* row of the same sigma; the weights of the other sigmas are fixed.
MCPlatforms ==
    LET sigma1 == CHOOSE s \in Sigmas : TRUE
        other == [weights |-> [v \in 1 .. Values |-> v], slip |-> 0]
    IN  {[s \in Sigmas |->
            IF s # sigma1 THEN [j \in 1 .. Classes |-> other]
            ELSE [j \in 1 .. Classes |->
                    [weights |-> IF j = 1 THEN w ELSE Reverse(w),
                     slip |-> d]]] :
           w \in [1 .. Values -> 0 .. MaxWeight], d \in Slips}
=============================================================================
