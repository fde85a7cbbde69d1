--------------------------- MODULE ExclusiveLease ---------------------------
(***************************************************************************)
(* What the program promises of the things only one process may work on:   *)
(* a client gets hold of a resource only when nobody has it, and may lose  *)
(* it at any time (it gives it back, dies, or its time runs out).          *)
(*                                                                         *)
(* RunQueue (leases on runs) and ExecutionLock (the lock file of the host  *)
(* executor) are compared with it.                                         *)
(***************************************************************************)
CONSTANTS Resources, Clients

VARIABLE holders    \* for each resource, the clients that hold it

Init == holders = [r \in Resources |-> {}]

Acquire(r, c) ==
    /\ holders[r] = {}
    /\ holders' = [holders EXCEPT ![r] = {c}]

\* Several holdings may end at once, when time passes.
Lose == holders' \in [Resources -> SUBSET Clients] /\ \A r \in Resources : holders'[r] \subseteq holders[r]

Next == Lose \/ \E r \in Resources, c \in Clients : Acquire(r, c)

Spec == Init /\ [][Next]_holders

=============================================================================
