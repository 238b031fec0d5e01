------------------------------ MODULE TableMap ------------------------------
(***************************************************************************)
(* What the runtime table cache promises the threads that ask it for the   *)
(* table of a sigma: each is given the same table whenever it is given     *)
(* one, and a sigma that has a table is never refused it.                  *)
(***************************************************************************)
CONSTANTS Threads, Sigmas, NoSigma, Handles, NULL

VARIABLES
    table,    \* the table of each sigma, once there is one
    asking,   \* the sigma each thread asks for
    answer    \* what it was last given

vars == <<table, asking, answer>>

Init ==
    /\ table = [s \in Sigmas |-> NULL]
    /\ asking = [t \in Threads |-> NoSigma]
    /\ answer = [t \in Threads |-> NULL]

Refuse(t) ==
    /\ asking[t] = NoSigma
    /\ answer' = [answer EXCEPT ![t] = NULL]
    /\ UNCHANGED <<table, asking>>

Ask(t, s) ==
    /\ asking[t] = NoSigma
    /\ asking' = [asking EXCEPT ![t] = s]
    /\ UNCHANGED <<table, answer>>

\* A table is made, of no other sigma.
Make(s, h) ==
    /\ \E t \in Threads : asking[t] = s
    /\ table[s] = NULL
    /\ \A r \in Sigmas : table[r] # h
    /\ table' = [table EXCEPT ![s] = h]
    /\ UNCHANGED <<asking, answer>>

\* The thread is given the table, or NULL if there is none.
Answer(t) ==
    /\ asking[t] # NoSigma
    /\ answer' = [answer EXCEPT ![t] = table[asking[t]]]
    /\ asking' = [asking EXCEPT ![t] = NoSigma]
    /\ UNCHANGED table

Next ==
    \/ \E t \in Threads : Refuse(t) \/ Answer(t)
    \/ \E t \in Threads, s \in Sigmas : Ask(t, s)
    \/ \E s \in Sigmas, h \in Handles : Make(s, h)

Spec == Init /\ [][Next]_vars
=============================================================================
