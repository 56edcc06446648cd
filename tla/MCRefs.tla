------------------------------ MODULE MCRefs ------------------------------
(***************************************************************************)
(* Refs for TLC: two branches, three commits, three processes.  A run has  *)
(* several casts, and what is asked of the processes is the part that they *)
(* have in one of them.  History variables hold what refs have been while  *)
(* a lookup ran, and which refs were moved by others since a process read  *)
(* packed-refs or began its operation.                                     *)
(***************************************************************************)
EXTENDS Refs

CONSTANTS X, Y, v1, v2, v3, A, B, C,
          Casts       \* the casts of the run

MCSha == {v1, v2, v3}

\* Requests
Request(kind, r, old, new, all, prune) ==
  [kind |-> kind, ref |-> r, old |-> old, new |-> new, all |-> all, prune |-> prune]
Update(r, old, new) == Request("update", r, old, new, FALSE, FALSE)
Delete(r, old) == Request("delete", r, old, v1, FALSE, FALSE)
Read(r) == Request("read", r, Any, v1, FALSE, FALSE)
List == Request("list", X, Any, v1, FALSE, FALSE)
Pack(all, prune) == Request("pack", X, Any, v1, all, prune)

\* The repository at the start: all packed at v1, X perhaps loose as well.
PackedV1 == [r \in Ref |-> v1]
LooseNone == [r \in Ref |-> None]
LooseX == [r \in Ref |-> IF r = X THEN v1 ELSE None]

\* What A, B and C may be asked to do in each cast
Part == [
  \* Updates of X that name the old value, those of Y need not; packing keeps
  \* the loose files.
  update |-> [A |-> {Update(X, v1, v2), Update(X, v2, v3), Update(Y, v1, v3)},
              B |-> {Update(X, v1, v3), Update(X, v3, v2), Update(Y, Any, v2)},
              C |-> {Pack(TRUE, FALSE), Pack(FALSE, FALSE)}],
  \* Lookups and listings while refs are updated, packed, pruned and deleted
  read   |-> [A |-> {Read(X), Read(Y), List},
              B |-> {Update(X, v1, v2), Pack(FALSE, TRUE)},
              C |-> {Pack(TRUE, TRUE), Delete(X, Any)}],
  \* pack-refs in three of its forms, updates that only move forward
  pack   |-> [A |-> {Update(X, v1, v2), Update(Y, v1, v2)},
              B |-> {Update(X, v2, v3)},
              C |-> {Pack(TRUE, TRUE), Pack(FALSE, TRUE), Pack(TRUE, FALSE)}],
  \* Deletions, perhaps after a lookup, while others update, make loose what was
  \* packed, create again, pack, prune and delete
  delete |-> [A |-> {Read(Y), Delete(X, v1), Delete(Y, Any)},
              B |-> {Update(Y, v1, v2), Pack(FALSE, TRUE)},
              C |-> {Pack(TRUE, TRUE), Delete(Y, v1)}],
  \* The smallest casts in which an operation meets one it does not expect
  cas    |-> [A |-> {Update(X, v1, v3)}, B |-> {Update(X, v1, v2)}, C |-> {Pack(TRUE, TRUE)}],
  del    |-> [A |-> {Delete(X, v1)}, B |-> {Delete(Y, v1)}, C |-> {}],
  list   |-> [A |-> {List}, B |-> {}, C |-> {Pack(TRUE, TRUE)}]]

\* How many operations each process starts
Often == [update |-> [A |-> 2, B |-> 1, C |-> 1], read |-> [A |-> 2, B |-> 1, C |-> 1],
          pack |-> [A |-> 1, B |-> 1, C |-> 2], delete |-> [A |-> 2, B |-> 1, C |-> 1],
          cas |-> [A |-> 1, B |-> 1, C |-> 1],
          del |-> [A |-> 1, B |-> 1, C |-> 1], list |-> [A |-> 1, B |-> 1, C |-> 1]]

As(p) == CASE p = A -> "A" [] p = B -> "B" [] OTHER -> "C"
MCMenu == [p \in Proc |-> UNION {Part[c][As(p)] : c \in Casts}]
MCMaxOps == [p \in Proc |-> 3]

VARIABLES cast,   \* the cast that was chosen
          been,   \* been[p][r]: the values of r since p began to look up or to list
          gone,   \* gone[p]: refs that lost their loose file or their line to others,
                  \* or whose line a deletion changed, since p's operation began
          behind  \* behind[p]: refs that lost their loose file to others, or whose
                  \* line was changed by them while it was all there is, since p
                  \* read packed-refs

mcvars == <<vars, cast, been, gone, behind>>

Looking(p) == op[p].kind \in {"read", "list"} /\ pc[p] \notin Between
Now == [r \in Ref |-> {RefValue(r)}]
Nothing == [r \in Ref |-> {}]

MCInit == /\ Init
          /\ cast \in Casts
          /\ been = [p \in Proc |-> Nothing]
          /\ gone = [p \in Proc |-> {}]
          /\ behind = [p \in Proc |-> {}]

Began(p, kind) == left[p] < MCMaxOps[p] /\ op[p].kind = kind
Packing == \E p \in Proc : Began(p, "pack") /\ pc[p] \notin Between
LookedUp == Began(A, "read") \/ left[A] + 1 < MCMaxOps[A]

\* In the cast "delete" A deletes one ref, and if it looks one up before, then
\* while neither of the others does anything; if both of them pack and it does,
\* B does so first.
InOrder(p) ==
  IF p = A
    THEN IF op'[A].kind = "read"
           THEN left[A] = MCMaxOps[A] /\ left[C] = MCMaxOps[C] /\ pc[B] \in Between
           ELSE left[A] = MCMaxOps[A] \/ op[A].kind = "read"
    ELSE /\ ~Looking(A)
         /\ LookedUp /\ op'[p].kind = "pack" => ~Packing /\ ~Began(C, "pack")

\* In the cast "read" no two processes pack at the same time.
MCStart(p) == /\ MCMaxOps[p] - left[p] < Often[cast][As(p)]
              /\ Start(p)
              /\ op'[p] \in Part[cast][As(p)]
              /\ cast = "delete" => InOrder(p)
              /\ cast = "read" /\ op'[p].kind = "pack" => ~Packing

\* What a step does to the places where refs are.
LooseGoes(r) == loose[r] # None /\ loose'[r] = None
LineGoes(r) ==
  /\ packed[r] # None
  /\ packed'[r] # packed[r]
  /\ packed'[r] = None \/ \E q \in Proc : Moves(q) /\ act[q] = "delete"
LineChanges(r) == loose[r] = None /\ packed'[r] # packed[r]

\* `gone' is kept for lookups and for packing, `behind' for lookups, listings and
\* deletions: no process does anything else besides.
History ==
  /\ been' = [p \in Proc |->
                CASE Looking(p) -> [r \in Ref |-> been[p][r] \cup {RefValue(r)'}]
                  [] ~Looking(p) /\ Looking(p)' -> Now'
                  [] ~Looking(p) /\ ~Looking(p)' -> IF Moves(p) THEN Nothing ELSE been[p]]
  /\ gone' = [p \in Proc |->
                CASE Moves(p) -> IF pc[p] \in Between THEN {} ELSE gone[p]
                  [] ~Moves(p) /\ (pc[p] \in Between \/ op[p].kind \notin {"read", "pack"}) -> gone[p]
                  [] OTHER -> gone[p] \cup {r \in Ref : LooseGoes(r) \/ LineGoes(r)}]
  /\ behind' = [p \in Proc |->
                CASE cache'[p] = NoCache -> {}
                  [] cache'[p] # NoCache /\ (Moves(p) \/ op[p].kind \in {"update", "pack"}) -> behind[p]
                  [] OTHER -> behind[p] \cup {r \in Ref : LooseGoes(r) \/ LineChanges(r)}]
  /\ UNCHANGED cast

\* What goes wrong: in "delete" the operations of A may fail, in "pack" those of C; in
\* "read" and "delete" only a deletion is killed, when it is half done.
Fails(p) == \/ WriteFails(p) \/ LogFails(p) \/ CommitFails(p) \/ UnlinkFails(p)
            \/ RepackCommitFails(p) \/ RepackDies(p) \/ PackFails(p)
MayFail(p) == CASE cast = "read" -> FALSE
                [] cast = "delete" -> p = A
                [] cast = "pack" -> p = C
                [] OTHER -> TRUE
MCKill(p) == /\ Kill(p)
             /\ cast \in {"read", "delete"} =>
                  /\ p = IF cast = "read" THEN C ELSE A
                  /\ pc[p] \in {"repack", "repackcommit"}

\* Who will do nothing more need not end.
MCExit(p) == /\ Exit(p)
             /\ cast \in {"read", "delete"} => p = A
             /\ cast = "pack" => p = C

MCStep(p) == Step(p) /\ (Fails(p) => MayFail(p)) /\ History
MCNext == \/ \E p \in Proc : \/ MCStep(p)
                             \/ (MCStart(p) \/ MCExit(p) \/ MCKill(p)) /\ History
          \/ RemoveStaleLocks /\ History

MCSpec == MCInit /\ [][MCNext]_mcvars
MCFairSpec == MCSpec /\ \A p \in Proc : WF_vars(Step(p))

\* What resolve_ref_unsafe() finds, and what do_for_each_ref() shows, is a value
\* that the ref had while the call ran, though the loose files and packed-refs
\* are read one after the other, and packed-refs perhaps long before.  Only a
\* ref that was pruned or deleted since the process read packed-refs may be
\* shown as it was; and one may pass for missing if its loose file or its line
\* went while the lookup was between the two.
ReadsWhatWas ==
  \A p \in Proc :
    /\ op[p].kind = "read" /\ pc[p] = "ok" /\ ref[p] \notin behind[p]
         => got[p] \in been[p][ref[p]]
    /\ op[p].kind = "read" /\ pc[p] = "fail" /\ ref[p] \notin behind[p] \cup gone[p]
         => None \in been[p][ref[p]]
    /\ op[p].kind = "list" /\ pc[p] = "ok"
         => \A r \in Ref \ behind[p] : scan[p][r] \in been[p][r]

\* Packing moves refs around and changes the value of none: neither by the new
\* packed-refs, made from what was seen before others updated, nor by pruning.
\* Only of a ref that was pruned, deleted or brought back by others since
\* pack-refs began the value may change.
PackPreservesValue ==
  [][\A p \in Proc : op[p].kind = "pack" /\ Moves(p)
       => \A r \in Ref \ gone[p] : RefValue(r)' = RefValue(r)]_mcvars

\* delete_ref() changes the value of no other ref, though it rewrites the file
\* that they are in from a copy which it read before it had the lock.  Updates,
\* pack-refs --no-prune and failures of others do not matter; only a ref whose
\* loose file went, or whose line changed in sight, since then may be put back.
DeleteOnlyItsRef ==
  [][\A p \in Proc : op[p].kind = "delete" /\ Moves(p)
       => \A r \in Ref \ ({ref[p]} \cup behind[p]) : RefValue(r)' = RefValue(r)]_mcvars

\* When delete_ref() reports success the ref is gone.  A loose file is left only
\* of a ref that was found packed and made loose before it was locked, and only
\* if the caller named no other value.  A line is left only if pack-refs wrote it
\* after the process read packed-refs, or another deletion brought it back.
DeleteTakesEffect ==
  [][\A p \in Proc : op[p].kind = "delete" /\ Moves(p) /\ pc'[p] = "ok"
       => LET r == ref[p] IN
          /\ loose[r] # None => isp[p] /\ op[p].old \in {loose[r], Any}
          /\ packed[r] # None => \/ loose[r] # None
                                 \/ cache[p] # NoCache /\ cache[p][r] = None
                                 \/ r \in behind[p]]_mcvars
=============================================================================
