------------------------------ MODULE AbsLock ------------------------------
(***************************************************************************)
(* What the lockfile API promises its callers: a file is replaced only by  *)
(* the one process that is inside the critical section of that file, and   *)
(* every replacement is built on the version that was current when it      *)
(* entered, so that no update is lost.                                     *)
(***************************************************************************)
EXTENDS Naturals

CONSTANTS Proc,     \* processes
          Path      \* files that are replaced under a lock

VARIABLES inside,   \* inside[p]: the files whose critical section p is in
          version   \* version[x]: how many times file x was replaced

vars == <<inside, version>>

Init == /\ inside = [p \in Proc |-> {}]
        /\ version = [x \in Path |-> 0]

Enter(p, x) == /\ \A q \in Proc : x \notin inside[q]
               /\ inside' = [inside EXCEPT ![p] = @ \cup {x}]
               /\ UNCHANGED version

\* The new content becomes the file and the critical section ends, at once.
Replace(p, x) == /\ x \in inside[p]
                 /\ inside' = [inside EXCEPT ![p] = @ \ {x}]
                 /\ version' = [version EXCEPT ![x] = @ + 1]

\* Giving up: one file (rollback) or all of them (the process ends).
Leave(p, X) == /\ X # {} /\ X \subseteq inside[p]
               /\ inside' = [inside EXCEPT ![p] = @ \ X]
               /\ UNCHANGED version

Next == \E p \in Proc : \/ \E x \in Path : Enter(p, x) \/ Replace(p, x)
                        \/ \E X \in SUBSET Path : Leave(p, X)

Spec == Init /\ [][Next]_vars
=============================================================================
