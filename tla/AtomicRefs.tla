---------------------------- MODULE AtomicRefs ----------------------------
(***************************************************************************)
(* What updating refs promises: every ref is one register, and an update   *)
(* replaces its value in one step, if the caller named the old value only  *)
(* when the register holds it.  Where the value is stored does not show.   *)
(***************************************************************************)
CONSTANTS Ref,        \* names of refs
          Any,        \* the old value of an update that does not name one
          InitValue,  \* InitValue[r]: the value of r at the start
          Requests    \* the updates somebody may ask for: records of ref, old, new

VARIABLE value        \* value[r]: the object name r holds, or none

Init == value = InitValue

Update(r, old, new) == /\ old \in {value[r], Any}
                       /\ value' = [value EXCEPT ![r] = new]

Next == \E q \in Requests : Update(q.ref, q.old, q.new)

Spec == Init /\ [][Next]_value
=============================================================================
