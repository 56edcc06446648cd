---------------------------- MODULE RefsProofs ----------------------------
(***************************************************************************)
(* Refs, for every number of processes, refs and object names.             *)
(***************************************************************************)
EXTENDS Refs, TLAPS

USE RefsAssumption

\* Whoever is about to write its copy of packed-refs out has one.
CacheLoaded == \A p \in Proc : pc[p] \in {"repacklock", "repackcommit"} => cache[p] # NoCache

\* All variables have their types at the start ...
LEMMA InitTypeOK == Init => TypeOK
<1> SUFFICES ASSUME Init PROVE TypeOK
  OBVIOUS
<1>1. op \in [Proc -> Op] /\ ref \in [Proc -> Ref]
  <2>1. \E o \in Op : TRUE
    <3>1. PICK r \in Ref, s \in Sha : TRUE
      OBVIOUS
    <3>2. [kind |-> "read", ref |-> r, old |-> Any, new |-> s, all |-> FALSE, prune |-> FALSE] \in Op
      BY DEF Op
    <3> QED
      BY <3>2
  <2>2. (CHOOSE o \in Op : TRUE) \in Op
    BY <2>1
  <2>3. (CHOOSE r \in Ref : TRUE) \in Ref
    OBVIOUS
  <2> QED
    BY <2>2, <2>3 DEF Init
<1> QED
  BY <1>1 DEF Init, TypeOK, Refs, Value, PC, Between

\* A process's view of packed-refs is a map of refs.
LEMMA PackedRefsType == ASSUME TypeOK, NEW p \in Proc PROVE PackedRefs(p) \in Refs
  BY DEF TypeOK, PackedRefs

\* What a successful lookup stores is of the right type.
LEMMA ResolvedTypeOK ==
  ASSUME TypeOK, NEW p \in Proc, NEW v \in Value, NEW b \in BOOLEAN, Resolved(p, v, b)
  PROVE  /\ got' \in [Proc -> Value] /\ isp' \in [Proc -> BOOLEAN]
         /\ scan' \in [Proc -> Refs] /\ scanloose' \in [Proc -> SUBSET Ref]
         /\ pc' \in [Proc -> PC]
<1>1. pc' \in [Proc -> PC]
  BY DEF Resolved, TypeOK, Goto, PC, Between
<1>2. scan' \in [Proc -> Refs]
  <2>1. CASE act[p] = "scan"
    <3>1. scan[p] \in [Ref -> Value] /\ ref[p] \in Ref
      BY DEF TypeOK, Refs
    <3>2. [scan[p] EXCEPT ![ref[p]] = v] \in [Ref -> Value]
      BY <3>1
    <3>3. scan' = [scan EXCEPT ![p] = [scan[p] EXCEPT ![ref[p]] = v]]
      BY <2>1 DEF Resolved
    <3> QED
      BY <3>2, <3>3 DEF TypeOK, Refs
  <2>2. CASE act[p] # "scan"
    BY <2>2 DEF Resolved, TypeOK
  <2> QED
    BY <2>1, <2>2
<1>3. scanloose' \in [Proc -> SUBSET Ref]
  <2>1. /\ scanloose \in [Proc -> SUBSET Ref]
        /\ scanloose[p] \cup {ref[p]} \in SUBSET Ref
    BY DEF TypeOK
  <2>2. CASE act[p] = "scan"
    <3>1. scanloose' = [scanloose EXCEPT ![p] = IF b THEN scanloose[p]
                                                     ELSE scanloose[p] \cup {ref[p]}]
      BY <2>2 DEF Resolved
    <3>2. (IF b THEN scanloose[p] ELSE scanloose[p] \cup {ref[p]}) \in SUBSET Ref
      BY <2>1
    <3> QED
      BY <2>1, <3>1, <3>2
  <2>3. CASE act[p] # "scan"
    BY <2>1, <2>3 DEF Resolved
  <2> QED
    BY <2>2, <2>3
<1> QED
  BY <1>1, <1>2, <1>3 DEF Resolved, TypeOK

\* ... and keep them.
LEMMA StepTypeOK == ASSUME TypeOK, CacheLoaded, [Next]_vars PROVE TypeOK'
<1> USE DEF TypeOK
<1>1. ASSUME NEW p \in Proc, Start(p) PROVE TypeOK'
  <2>1. PICK o \in Menu[p] :
          /\ op' = [op EXCEPT ![p] = o]
          /\ ref' = [ref EXCEPT ![p] = o.ref]
          /\ act' = [act EXCEPT ![p] = IF o.kind \in {"list", "pack"} THEN "scan" ELSE o.kind]
          /\ Goto(p, CASE o.kind = "pack" -> "packlock"
                       [] o.kind = "list" -> "load"
                       [] OTHER -> "lstat")
    BY <1>1 DEF Start
  <2>2. o \in Op
    OBVIOUS
  <2>3. o.ref \in Ref /\ o.kind \in {"update", "delete", "read", "list", "pack"}
    BY <2>2 DEF Op
  <2>4. pc' \in [Proc -> PC]
    BY <2>1 DEF Goto, PC, Between
  <2>5. op' \in [Proc -> Op] /\ ref' \in [Proc -> Ref]
    BY <2>1, <2>2, <2>3
  <2>6. act' \in [Proc -> {"update", "delete", "read", "scan", "prune"}]
    BY <2>1, <2>3
  <2>7. left' \in [Proc -> Nat]
    BY <1>1 DEF Start
  <2>8. got' \in [Proc -> Value] /\ isp' \in [Proc -> BOOLEAN]
    BY <1>1 DEF Start, Value
  <2> QED
    BY <1>1, <2>4, <2>5, <2>6, <2>7, <2>8 DEF Start, repo
<1>2. ASSUME NEW p \in Proc, Exit(p) PROVE TypeOK'
  BY <1>2 DEF Exit, End, Gone, Goto, PC, Between, Refs, Value
<1>3. ASSUME NEW p \in Proc, Kill(p) PROVE TypeOK'
  BY <1>3 DEF Kill, Gone, Goto, PC, Between, Refs, Value
<1>4. CASE RemoveStaleLocks
  BY <1>4 DEF RemoveStaleLocks
<1>5. ASSUME NEW p \in Proc, Lstat(p) PROVE TypeOK'
  BY <1>5 DEF Lstat, Goto, PC, Between, repo
<1>6. ASSUME NEW p \in Proc, Open(p) PROVE TypeOK'
  <2>1. loose[ref[p]] \in Value
    BY DEF Refs
  <2>2. CASE Resolved(p, loose[ref[p]], FALSE)
    BY <1>6, <2>1, <2>2, ResolvedTypeOK DEF Open, repo
  <2>3. CASE Unresolved(p)
    BY <1>6, <2>3 DEF Open, Unresolved, Goto, PC, Between, repo
  <2> QED
    BY <1>6, <2>2, <2>3 DEF Open
<1>7. ASSUME NEW p \in Proc, LookupPacked(p) PROVE TypeOK'
  <2>1. PackedRefs(p) \in Refs
    BY PackedRefsType
  <2>2. PackedRefs(p)[ref[p]] \in Value
    BY <2>1 DEF Refs
  <2>3. cache' \in [Proc -> Refs \cup {NoCache}]
    BY <1>7, <2>1 DEF LookupPacked
  <2>4. CASE Resolved(p, PackedRefs(p)[ref[p]], PackedRefs(p)[ref[p]] # None)
    BY <1>7, <2>2, <2>3, <2>4, ResolvedTypeOK DEF LookupPacked, repo
  <2>5. CASE Unresolved(p)
    BY <1>7, <2>3, <2>5 DEF LookupPacked, Unresolved, Goto, PC, Between, repo
  <2> QED
    BY <1>7, <2>4, <2>5 DEF LookupPacked
<1>8. ASSUME NEW p \in Proc, LockRef(p) PROVE TypeOK'
  BY <1>8 DEF LockRef, AfterLock, Goto, PC, Between
<1>9. ASSUME NEW p \in Proc, LockTaken(p) PROVE TypeOK'
  BY <1>9 DEF LockTaken, End, Gone, Goto, PC, Between, Refs, Value
<1>10. ASSUME NEW p \in Proc, Verify(p) PROVE TypeOK'
  <2>1. PackedRefs(p) \in Refs
    BY PackedRefsType
  <2>2. cache' \in [Proc -> Refs \cup {NoCache}]
    BY <1>10, <2>1 DEF Verify
  <2>3. got' \in [Proc -> Value]
    BY <1>10, <2>1 DEF Verify, Refs
  <2>4. pc' \in [Proc -> PC] /\ reflock' \in [Ref -> Proc \cup {Free, Stale}]
    BY <1>10 DEF Verify, AfterLock, Unlock, Goto, PC, Between
  <2> QED
    BY <1>10, <2>2, <2>3, <2>4 DEF Verify
<1>11. ASSUME NEW p \in Proc, AlreadyThere(p) \/ WriteFails(p) \/ LogFails(p) \/ CommitFails(p) \/ PruneUnlock(p) PROVE TypeOK'
  BY <1>11 DEF AlreadyThere, WriteFails, LogFails, CommitFails, PruneUnlock, NotWritten, Unlock, Goto, PC, Between
<1>12. ASSUME NEW p \in Proc, Write(p) PROVE TypeOK'
  BY <1>12 DEF Write, Goto, PC, Between, repo
<1>13. ASSUME NEW p \in Proc, Log(p) PROVE TypeOK'
  <2>1. op[p].new \in Sha
    BY DEF Op
  <2>2. [old |-> got[p], new |-> op[p].new] \in [old : Value, new : Sha]
    BY <2>1
  <2> DEFINE Line == [old : Value, new : Sha]
  <2>a. reflog[ref[p]] \in Seq(Line) /\ [old |-> got[p], new |-> op[p].new] \in Line
    BY <2>2
  <2>3. Append(reflog[ref[p]], [old |-> got[p], new |-> op[p].new]) \in Seq(Line)
    <3> HIDE DEF Line
    <3> QED
      BY <2>a
  <2>4. reflog' \in [Ref -> Seq([old : Value, new : Sha])]
    BY <1>13, <2>3 DEF Log
  <2> QED
    BY <1>13, <2>4 DEF Log, Goto, PC, Between
<1>14. ASSUME NEW p \in Proc, Commit(p) PROVE TypeOK'
  BY <1>14 DEF Commit, Unlock, Goto, PC, Between, Op, Refs, Value
<1>15. ASSUME NEW p \in Proc, Unlink(p) PROVE TypeOK'
  BY <1>15 DEF Unlink, Goto, PC, Between, Refs, Value
<1>16. ASSUME NEW p \in Proc, Repack(p) \/ RepackLock(p) PROVE TypeOK'
  <2>1. CASE Repack(p)
    BY <2>1 DEF Repack, PackedRefs, Goto, PC, Between, repo
  <2>2. CASE RepackLock(p)
    <3>1. pc' \in [Proc -> PC]
      BY <2>2 DEF RepackLock, Goto, PC
    <3>2. packlock' \in Proc \cup {Free, Stale}
      BY <2>2 DEF RepackLock
    <3>3. ret' \in [Proc -> BOOLEAN]
      BY <2>2 DEF RepackLock
    <3> QED
      BY <2>2, <3>1, <3>2, <3>3 DEF RepackLock
  <2> QED
    BY <1>16, <2>1, <2>2
<1>17. ASSUME NEW p \in Proc, UnlinkFails(p) \/ RepackCommitFails(p) PROVE TypeOK'
  BY <1>17 DEF UnlinkFails, RepackCommitFails, Goto, PC, Between, repo
<1>18. ASSUME NEW p \in Proc, Unlog(p) PROVE TypeOK'
  <2>1. << >> \in Seq([old : Value, new : Sha])
    OBVIOUS
  <2>2. reflog' \in [Ref -> Seq([old : Value, new : Sha])]
    BY <1>18, <2>1 DEF Unlog
  <2>3. pc' \in [Proc -> PC] /\ reflock' \in [Ref -> Proc \cup {Free, Stale}]
    BY <1>18 DEF Unlog, Unlock, Goto, PC, Between
  <2>4. cache' \in [Proc -> Refs \cup {NoCache}]
    BY <1>18 DEF Unlog
  <2> QED
    BY <1>18, <2>2, <2>3, <2>4 DEF Unlog
<1>19. ASSUME NEW p \in Proc, LockPacked(p) PROVE TypeOK'
  BY <1>19 DEF LockPacked, Goto, PC, Between
<1>20. ASSUME NEW p \in Proc, PackedTaken(p) \/ RepackDies(p) \/ PackFails(p) PROVE TypeOK'
  <2>1. End(p)
    BY <1>20 DEF PackedTaken, RepackDies, PackFails
  <2> QED
    BY <2>1 DEF End, Gone, Goto, PC, Between, Refs, Value
<1>21. ASSUME NEW p \in Proc, LoadPacked(p) PROVE TypeOK'
  BY <1>21 DEF LoadPacked, PackedRefs, Goto, PC, Between, repo, Refs, Value
<1>22. ASSUME NEW p \in Proc, NextRef(p) PROVE TypeOK'
  <2>1. PICK r \in todo[p] : /\ ref' = [ref EXCEPT ![p] = r]
                             /\ todo' = [todo EXCEPT ![p] = todo[p] \ {r}]
    BY <1>22 DEF NextRef
  <2>2. r \in Ref /\ todo[p] \ {r} \in SUBSET Ref
    OBVIOUS
  <2>3. ref' \in [Proc -> Ref] /\ todo' \in [Proc -> SUBSET Ref]
    BY <2>1, <2>2
  <2> QED
    BY <1>22, <2>3 DEF NextRef, Goto, PC, Between, repo
<1>23. ASSUME NEW p \in Proc, Finish(p) PROVE TypeOK'
  BY <1>23 DEF Finish, Goto, PC, Between, repo
<1>24. ASSUME NEW p \in Proc, PackCommit(p) PROVE TypeOK'
  <2>1. packed' \in Refs
    BY <1>24 DEF PackCommit, Refs, Value
  <2>2. Prunable(p) \in SUBSET Ref
    BY DEF Prunable, Kept
  <2>3. todo' \in [Proc -> SUBSET Ref]
    BY <1>24, <2>2 DEF PackCommit
  <2> QED
    BY <1>24, <2>1, <2>3 DEF PackCommit, Goto, PC, Between
<1>25. CASE UNCHANGED vars
  BY <1>25 DEF vars
<1>26. ASSUME NEW p \in Proc, RepackCommit(p) PROVE TypeOK'
  <2>1. cache[p] \in [Ref -> Value]
    BY <1>26 DEF RepackCommit, CacheLoaded, Refs
  <2>2. packed' \in Refs
    BY <1>26, <2>1 DEF RepackCommit, Refs, Value
  <2> QED
    BY <1>26, <2>2 DEF RepackCommit, Goto, PC, Between
<1> QED
  BY <1>1, <1>2, <1>3, <1>4, <1>5, <1>6, <1>7, <1>8, <1>9, <1>10, <1>11, <1>12, <1>13,
     <1>14, <1>15, <1>16, <1>17, <1>18, <1>19, <1>20, <1>21, <1>22, <1>23, <1>24, <1>25, <1>26
     DEF Next, Step

LEMMA StepCacheLoaded == ASSUME TypeOK, CacheLoaded, [Next]_vars PROVE CacheLoaded'
<1> USE DEF TypeOK, CacheLoaded
<1>1. ASSUME NEW p \in Proc, Repack(p) \/ RepackLock(p) PROVE CacheLoaded'
  <2>1. PackedRefs(p) \in Refs
    BY PackedRefsType
  <2>2. PackedRefs(p) # NoCache
    BY <2>1
  <2> QED
    BY <1>1, <2>2 DEF Repack, RepackLock, Goto
<1>2. ASSUME NEW p \in Proc, Start(p) \/ Exit(p) \/ Kill(p) PROVE CacheLoaded'
  BY <1>2 DEF Start, Exit, End, Kill, Gone, Goto
<1>3. ASSUME NEW p \in Proc,
             \/ Lstat(p) \/ Open(p) \/ LookupPacked(p) \/ LockRef(p) \/ LockTaken(p) \/ Verify(p)
             \/ Unlog(p) \/ PackedTaken(p) \/ RepackDies(p) \/ PackFails(p) \/ LoadPacked(p)
      PROVE  CacheLoaded'
  BY <1>3, PackedRefsType DEF Lstat, Open, LookupPacked, Resolved, Unresolved, LockRef, LockTaken,
     End, Gone, Verify, AfterLock, Unlog, PackedTaken, RepackDies, PackFails, LoadPacked, Goto
<1>4. ASSUME NEW p \in Proc,
             \/ AlreadyThere(p) \/ Write(p) \/ WriteFails(p) \/ Log(p) \/ LogFails(p)
             \/ Commit(p) \/ CommitFails(p) \/ Unlink(p) \/ PruneUnlock(p) \/ RepackCommit(p)
             \/ UnlinkFails(p) \/ RepackCommitFails(p)
             \/ LockPacked(p) \/ NextRef(p) \/ Finish(p) \/ PackCommit(p)
      PROVE  CacheLoaded'
  BY <1>4 DEF AlreadyThere, Write, WriteFails, Log, LogFails, Commit, CommitFails, Unlink,
     UnlinkFails, RepackCommitFails, PruneUnlock, RepackCommit, LockPacked, NextRef, Finish,
     PackCommit, NotWritten, Goto
<1>5. CASE RemoveStaleLocks \/ UNCHANGED vars
  BY <1>5 DEF RemoveStaleLocks, vars
<1> QED
  BY <1>1, <1>2, <1>3, <1>4, <1>5 DEF Next, Step

\* Types, for whatever the processes are asked to do and whatever fails.
THEOREM TypesHold == Spec => []TypeOK
<1>1. Init => CacheLoaded
  BY DEF Init, CacheLoaded
<1>2. TypeOK /\ CacheLoaded /\ [Next]_vars => TypeOK' /\ CacheLoaded'
  BY StepTypeOK, StepCacheLoaded
<1> QED
  BY InitTypeOK, <1>1, <1>2, PTL DEF Spec

-----------------------------------------------------------------------------
(***************************************************************************)
(* Where nothing is removed -- no ref is deleted and no loose file pruned  *)
(* -- a ref that once was loose stays loose, so a process's copy of        *)
(* packed-refs is never too old for the refs it is consulted for.  This is *)
(* why a compare-and-swap is atomic there.                                 *)
(***************************************************************************)
NothingRemoved == \A p \in Proc : \A o \in Menu[p] :
                    o.kind # "delete" /\ (o.kind = "pack" => ~o.prune)

Working(p) == pc[p] \notin Between
Resolving == {"lstat", "open", "packed"}
Holding == {"verify", "write", "log", "commit"}

\* What a process works on is what it was asked to do, and it is where that
\* takes it.
Active(p) ==
  /\ op[p] \in Menu[p]
  /\ \/ act[p] = "read" /\ pc[p] \in Resolving
     \/ /\ act[p] = "update" /\ op[p].kind = "update" /\ ref[p] = op[p].ref
        /\ pc[p] \in Resolving \cup {"lock"} \cup Holding
     \/ /\ act[p] = "scan" /\ op[p].kind \in {"list", "pack"}
        /\ pc[p] \in Resolving \cup {"packlock", "load", "next"}
        /\ pc[p] \in Resolving => ref[p] \notin todo[p]
     \/ act[p] = "scan" /\ op[p].kind = "pack" /\ pc[p] = "packcommit" /\ todo[p] = {}
     \/ act[p] = "prune" /\ pc[p] = "next" /\ todo[p] = {}
Activity == \A p \in Proc : Working(p) => Active(p)

\* Steps after the lock is taken have it.
LockHeld == \A p \in Proc : pc[p] \in Holding => reflock[ref[p]] = p

\* A loose file that lstat() saw is there for open().
LooseStays == \A p \in Proc : pc[p] = "open" => loose[ref[p]] # None

\* The packed value of a ref that has never been loose is the first one, in the
\* file and in every copy of it ...
PackedStays == \A r \in Ref : loose[r] = None => packed[r] = InitPacked[r]
CachesStay == \A p \in Proc, r \in Ref :
                loose[r] = None /\ cache[p] # NoCache => cache[p][r] = InitPacked[r]

\* ... and in what an iteration has collected so far.
ToVisit(p, r) == r \in todo[p] \/ (pc[p] \in Resolving /\ ref[p] = r)
ScanStays == \A p \in Proc, r \in Ref :
  act[p] = "scan" /\ pc[p] \in Resolving \cup {"next", "packcommit"} =>
    /\ ToVisit(p, r) => scan[p][r] = None /\ r \notin scanloose[p]
    /\ ~ToVisit(p, r) /\ loose[r] = None
         => scan[p][r] = InitPacked[r] /\ r \notin scanloose[p]

\* Between the verification and the rename the ref is at the value the caller
\* named.
ValueHeld == \A p \in Proc :
  pc[p] \in Holding \ {"verify"} /\ op[p].old # Any => RefValue(ref[p]) = op[p].old

Inv == /\ TypeOK /\ Activity /\ LockHeld /\ LooseStays
       /\ PackedStays /\ CachesStay /\ ScanStays /\ ValueHeld

LEMMA InitInv == Init => Inv
<1> SUFFICES ASSUME Init PROVE Inv
  OBVIOUS
<1>1. TypeOK
  BY InitTypeOK
<1>2. Activity /\ LockHeld /\ LooseStays /\ ScanStays /\ ValueHeld
  BY DEF Init, Activity, Active, LockHeld, LooseStays, ScanStays, ValueHeld, Working, Between, Resolving, Holding
<1>3. PackedStays /\ CachesStay
  BY DEF Init, PackedStays, CachesStay
<1> QED
  BY <1>1, <1>2, <1>3 DEF Inv

\* A process's view of a ref without a loose file is the packed value.
LEMMA ViewIsCurrent ==
  ASSUME Inv, NEW p \in Proc, NEW r \in Ref, loose[r] = None
  PROVE  PackedRefs(p)[r] = InitPacked[r] /\ packed[r] = InitPacked[r]
  BY DEF Inv, PackedStays, CachesStay, PackedRefs

\* A step of p leaves what other processes know and do alone.
LEMMA Frame ==
  ASSUME TypeOK, NEW p \in Proc, Start(p) \/ Step(p) \/ Exit(p) \/ Kill(p),
         NEW q \in Proc, q # p
  PROVE  /\ pc'[q] = pc[q] /\ op'[q] = op[q] /\ act'[q] = act[q] /\ ref'[q] = ref[q]
         /\ cache'[q] = cache[q] /\ todo'[q] = todo[q]
         /\ scan'[q] = scan[q] /\ scanloose'[q] = scanloose[q]
<1> USE DEF TypeOK, Goto
<1>1. CASE Start(p) \/ Exit(p) \/ Kill(p)
  BY <1>1 DEF Start, Exit, End, Kill, Gone
<1>2. CASE \/ Lstat(p) \/ Open(p) \/ LookupPacked(p) \/ LockRef(p) \/ LockTaken(p) \/ Verify(p)
  BY <1>2 DEF Lstat, Open, LookupPacked, Resolved, Unresolved, LockRef, LockTaken, End, Gone,
     Verify
<1>3. CASE \/ AlreadyThere(p) \/ Write(p) \/ WriteFails(p) \/ Log(p) \/ LogFails(p)
           \/ Commit(p) \/ CommitFails(p)
  BY <1>3 DEF AlreadyThere, Write, WriteFails, Log, LogFails, Commit, CommitFails, NotWritten
<1>4. CASE \/ Unlink(p) \/ UnlinkFails(p) \/ PruneUnlock(p) \/ Repack(p) \/ RepackLock(p)
          \/ RepackCommit(p) \/ RepackCommitFails(p) \/ Unlog(p)
  BY <1>4 DEF Unlink, UnlinkFails, PruneUnlock, NotWritten, Repack, RepackLock, RepackCommit,
              RepackCommitFails, Unlog
<1>5. CASE \/ LockPacked(p) \/ PackedTaken(p) \/ RepackDies(p) \/ LoadPacked(p) \/ NextRef(p)
          \/ Finish(p) \/ PackCommit(p) \/ PackFails(p)
  BY <1>5 DEF LockPacked, PackedTaken, RepackDies, PackFails, End, Gone,
              LoadPacked, NextRef, Finish, PackCommit
<1> QED
  BY <1>1, <1>2, <1>3, <1>4, <1>5 DEF Step

LEMMA StepActivity == ASSUME NothingRemoved, Inv, [Next]_vars PROVE Activity'
<1> USE DEF Inv, TypeOK, Working, Between, Resolving, Holding, Goto
<1>0. CASE RemoveStaleLocks \/ UNCHANGED vars
  <2>1. UNCHANGED <<op, act, ref, pc, todo>>
    BY <1>0 DEF RemoveStaleLocks, vars
  <2>2. SUFFICES ASSUME NEW p \in Proc, Working(p)' PROVE Active(p)'
    BY DEF Activity
  <2>3. Active(p)
    BY <2>1, <2>2 DEF Activity
  <2> QED
    BY <2>1, <2>3 DEF Active
<1>a. SUFFICES ASSUME NEW p \in Proc, Start(p) \/ Step(p) \/ Exit(p) \/ Kill(p) PROVE Activity'
  BY <1>0, <1>a DEF Next
<1>b. SUFFICES ASSUME Working(p)' PROVE Active(p)'
  <2>1. ASSUME NEW q \in Proc, q # p, Working(q)' PROVE Active(q)'
    <3>1. /\ pc'[q] = pc[q] /\ op'[q] = op[q] /\ act'[q] = act[q] /\ ref'[q] = ref[q]
          /\ todo'[q] = todo[q]
      BY <1>a, <2>1, Frame
    <3>2. Active(q)
      BY <2>1, <3>1 DEF Activity
    <3> QED
      BY <3>1, <3>2 DEF Active
  <2> QED
    BY <1>b, <2>1 DEF Activity
<1>c. Working(p) => Active(p)
  BY DEF Activity
<1> USE DEF Active
<1>1. CASE Start(p)
  <2>1. PICK o \in Menu[p] :
          /\ op'[p] = o /\ ref'[p] = o.ref
          /\ act'[p] = IF o.kind \in {"list", "pack"} THEN "scan" ELSE o.kind
          /\ pc'[p] = CASE o.kind = "pack" -> "packlock"
                        [] o.kind = "list" -> "load"
                        [] OTHER -> "lstat"
    BY <1>1 DEF Start
  <2>2. o \in Op /\ o.kind # "delete"
    BY DEF NothingRemoved
  <2>3. o.kind \in {"update", "read", "list", "pack"}
    BY <2>2 DEF Op
  <2> QED
    BY <2>1, <2>3
<1>2. CASE Exit(p) \/ Kill(p) \/ LockTaken(p) \/ PackedTaken(p) \/ RepackDies(p) \/ PackFails(p)
  BY <1>b, <1>2 DEF Exit, LockTaken, PackedTaken, RepackDies, PackFails, End, Kill, Gone
<1>3. CASE Lstat(p)
  BY <1>c, <1>3 DEF Lstat
<1>4. CASE Open(p)
  BY <1>b, <1>c, <1>4 DEF Open, Resolved, Unresolved
<1>5. CASE LookupPacked(p)
  BY <1>b, <1>c, <1>5 DEF LookupPacked, Resolved, Unresolved
<1>6. CASE LockRef(p)
  <2>1. act[p] = "update" /\ act'[p] = "update"
    BY <1>c, <1>6 DEF LockRef
  <2>2. pc'[p] \in {"verify", "write"}
    BY <1>6, <2>1 DEF LockRef, AfterLock
  <2> QED
    BY <1>c, <1>6, <2>1, <2>2 DEF LockRef
<1>7. CASE Verify(p)
  BY <1>b, <1>c, <1>7 DEF Verify, AfterLock
<1>8. CASE \/ AlreadyThere(p) \/ Write(p) \/ WriteFails(p) \/ Log(p) \/ LogFails(p)
           \/ Commit(p) \/ CommitFails(p)
  BY <1>b, <1>c, <1>8 DEF AlreadyThere, Write, WriteFails, Log, LogFails, Commit, CommitFails, NotWritten
<1>9. CASE \/ Unlink(p) \/ UnlinkFails(p) \/ PruneUnlock(p) \/ Repack(p) \/ RepackLock(p)
          \/ RepackCommit(p) \/ RepackCommitFails(p) \/ Unlog(p)
  BY <1>c, <1>9 DEF Unlink, UnlinkFails, PruneUnlock, Repack, RepackLock, RepackCommit,
                      RepackCommitFails, Unlog
<1>10. CASE LockPacked(p) \/ LoadPacked(p)
  BY <1>c, <1>10 DEF LockPacked, LoadPacked
<1>11. CASE NextRef(p)
  BY <1>c, <1>11 DEF NextRef
<1>12. CASE Finish(p)
  BY <1>b, <1>c, <1>12 DEF Finish
<1>13. CASE PackCommit(p)
  BY <1>c, <1>13 DEF PackCommit, Prunable, NothingRemoved
<1> QED
  BY <1>a, <1>1, <1>2, <1>3, <1>4, <1>5, <1>6, <1>7, <1>8, <1>9, <1>10, <1>11, <1>12, <1>13
     DEF Step

\* Deletions and prunes do not happen.
LEMMA NoRemoval ==
  ASSUME Inv, NEW p \in Proc
  PROVE  /\ ~Unlink(p) /\ ~UnlinkFails(p) /\ ~PruneUnlock(p)
         /\ ~Repack(p) /\ ~RepackLock(p) /\ ~RepackCommit(p)
         /\ ~RepackCommitFails(p) /\ ~RepackDies(p) /\ ~Unlog(p)
BY DEF Inv, Activity, Active, Working, Between, Resolving, Holding, Unlink, UnlinkFails,
       PruneUnlock, Repack, RepackLock, RepackCommit, RepackCommitFails, RepackDies, Unlog

LEMMA StepLockHeld == ASSUME NothingRemoved, Inv, [Next]_vars PROVE LockHeld'
<1> USE DEF Inv, TypeOK, LockHeld, Holding
<1>0. CASE RemoveStaleLocks \/ UNCHANGED vars
  BY <1>0 DEF RemoveStaleLocks, vars
<1>a. SUFFICES ASSUME NEW p \in Proc, Start(p) \/ Step(p) \/ Exit(p) \/ Kill(p),
                      NEW q \in Proc, pc'[q] \in Holding
               PROVE  reflock'[ref'[q]] = q
  BY <1>0, <1>a DEF Next
<1>b. q # p => /\ pc[q] \in Holding /\ ref'[q] = ref[q] /\ reflock[ref[q]] = q
  <2>1. ASSUME q # p PROVE pc'[q] = pc[q] /\ ref'[q] = ref[q]
    <3> HIDE DEF TypeOK, Goto, Holding, LockHeld
    <3>1. TypeOK
      OBVIOUS
    <3> HIDE DEF Inv
    <3> QED
      BY <1>a, <2>1, <3>1, Frame
  <2> QED
    BY <1>a, <2>1
<1>1. CASE Exit(p) \/ Kill(p) \/ LockTaken(p) \/ PackedTaken(p) \/ RepackDies(p) \/ PackFails(p)
  BY <1>a, <1>b, <1>1 DEF Exit, LockTaken, PackedTaken, RepackDies, PackFails, End, Kill, Gone,
     Goto, Between
<1>2. CASE LockRef(p)
  BY <1>b, <1>2 DEF LockRef, Goto
<1>3. CASE Verify(p)
  BY <1>a, <1>b, <1>3 DEF Verify, AfterLock, Unlock, Goto
<1>4. CASE AlreadyThere(p) \/ WriteFails(p) \/ LogFails(p) \/ Commit(p) \/ CommitFails(p)
  BY <1>a, <1>b, <1>4 DEF AlreadyThere, WriteFails, LogFails, Commit, CommitFails, NotWritten,
     Unlock, Goto
<1>5. CASE Write(p) \/ Log(p)
  BY <1>a, <1>b, <1>5 DEF Write, Log, Goto, repo
<1>6. CASE Start(p)
  <2>1. pc'[p] \in {"packlock", "load", "lstat"} /\ reflock' = reflock
    BY <1>6 DEF Start, Goto, repo
  <2> QED
    BY <1>a, <1>b, <2>1
<1>7. CASE Lstat(p) \/ Open(p) \/ LookupPacked(p)
  BY <1>a, <1>b, <1>7 DEF Lstat, Open, LookupPacked, Resolved, Unresolved, Goto, repo
<1>8. CASE LockPacked(p) \/ LoadPacked(p) \/ NextRef(p) \/ Finish(p) \/ PackCommit(p)
  BY <1>a, <1>b, <1>8 DEF LockPacked, LoadPacked, NextRef, Finish, PackCommit, Goto, repo
<1> QED
  BY <1>a, <1>1, <1>2, <1>3, <1>4, <1>5, <1>6, <1>7, <1>8, NoRemoval DEF Step

\* No loose file goes away.
LEMMA LooseGrows ==
  ASSUME Inv, [Next]_vars, NEW r \in Ref, loose[r] # None
  PROVE  loose'[r] # None
<1>1. ASSUME NEW p \in Proc, Commit(p) PROVE loose'[r] # None
  <2>1. op[p].new \in Sha /\ op[p].new # None
    BY DEF Inv, TypeOK, Op
  <2> QED
    BY <1>1, <2>1 DEF Commit, Inv, TypeOK, Refs
<1>2. ASSUME NEW p \in Proc, Step(p), ~Commit(p) PROVE loose' = loose
  BY <1>2, NoRemoval DEF Step, Lstat, Open, LookupPacked, LockRef, LockTaken, PackedTaken, PackFails, End,
     Gone, Verify, AlreadyThere, Write, WriteFails, Log, LogFails, CommitFails, NotWritten,
     LockPacked, LoadPacked, NextRef, Finish, PackCommit, repo
<1>3. CASE \/ RemoveStaleLocks \/ UNCHANGED vars
           \/ \E p \in Proc : Start(p) \/ Exit(p) \/ Kill(p)
  BY <1>3 DEF RemoveStaleLocks, vars, Start, Exit, End, Kill, Gone, repo
<1> QED
  BY <1>1, <1>2, <1>3 DEF Next

\* pack-refs writes out the packed value of a ref that has no loose file.
LEMMA PackKeepsPacked ==
  ASSUME Inv, NEW p \in Proc, PackCommit(p), NEW r \in Ref, loose[r] = None
  PROVE  packed'[r] = packed[r]
<1>1. act[p] = "scan" /\ pc[p] = "packcommit" /\ todo[p] = {}
  BY DEF PackCommit, Inv, Activity, Active, Working, Between, Resolving, Holding
<1>2. scan[p][r] = InitPacked[r] /\ r \notin scanloose[p]
  BY <1>1 DEF Inv, ScanStays, ToVisit, Resolving
<1>3. packed'[r] = IF r \in Kept(p) THEN scan[p][r] ELSE None
  BY DEF PackCommit
<1>4. r \in Kept(p) <=> scan[p][r] # None
  BY <1>2 DEF Kept
<1> QED
  BY <1>2, <1>3, <1>4 DEF Inv, PackedStays

LEMMA StepPackedStays == ASSUME Inv, [Next]_vars PROVE PackedStays'
<1>1. SUFFICES ASSUME NEW r \in Ref, loose'[r] = None PROVE packed'[r] = InitPacked[r]
  BY DEF PackedStays
<1>2. loose[r] = None /\ packed[r] = InitPacked[r]
  BY <1>1, LooseGrows DEF Inv, PackedStays
<1>3. ASSUME NEW p \in Proc, PackCommit(p) PROVE packed'[r] = packed[r]
  BY <1>2, <1>3, PackKeepsPacked
<1>4. ASSUME NEW p \in Proc, Step(p), ~PackCommit(p) PROVE packed' = packed
  BY <1>4, NoRemoval DEF Step, Lstat, Open, LookupPacked, LockRef, LockTaken, PackedTaken, PackFails, End,
     Gone, Verify, AlreadyThere, Write, WriteFails, Log, LogFails, Commit, CommitFails, NotWritten,
     LockPacked, LoadPacked, NextRef, Finish, repo
<1>5. CASE \/ RemoveStaleLocks \/ UNCHANGED vars
           \/ \E p \in Proc : Start(p) \/ Exit(p) \/ Kill(p)
  BY <1>2, <1>5 DEF RemoveStaleLocks, vars, Start, Exit, End, Kill, Gone, repo
<1> QED
  BY <1>2, <1>3, <1>4, <1>5 DEF Next

LEMMA StepLooseStays == ASSUME Inv, [Next]_vars PROVE LooseStays'
<1> USE DEF Inv, TypeOK, Goto
<1>0. CASE RemoveStaleLocks \/ UNCHANGED vars
  BY <1>0 DEF RemoveStaleLocks, vars, LooseStays
<1>a. SUFFICES ASSUME NEW p \in Proc, Start(p) \/ Step(p) \/ Exit(p) \/ Kill(p),
                      NEW q \in Proc, pc'[q] = "open"
               PROVE  loose'[ref'[q]] # None
  BY <1>0, <1>a DEF Next, LooseStays
<1>b. CASE q # p
  <2>1. pc'[q] = pc[q] /\ ref'[q] = ref[q]
    <3> HIDE DEF TypeOK, Goto
    <3>1. TypeOK
      OBVIOUS
    <3> HIDE DEF Inv
    <3> QED
      BY <1>a, <1>b, <3>1, Frame
  <2>2. loose[ref[q]] # None
    BY <1>a, <2>1 DEF LooseStays
  <2> QED
    BY <2>1, <2>2, LooseGrows
<1>c. CASE q = p
  <2>1. CASE Lstat(p)
    BY <1>a, <1>c, <2>1 DEF Lstat, repo
  <2>2. CASE Start(p) \/ Exit(p) \/ Kill(p)
    BY <1>a, <1>c, <2>2 DEF Start, Exit, End, Kill, Gone
  <2>3. CASE Open(p) \/ LookupPacked(p) \/ LockRef(p) \/ LockTaken(p) \/ Verify(p)
    BY <1>a, <1>c, <2>3 DEF Open, LookupPacked, Resolved, Unresolved, LockRef, LockTaken, End, Gone,
       Verify, AfterLock
  <2>4. CASE \/ AlreadyThere(p) \/ Write(p) \/ WriteFails(p) \/ Log(p) \/ LogFails(p)
             \/ Commit(p) \/ CommitFails(p)
    BY <1>a, <1>c, <2>4 DEF AlreadyThere, Write, WriteFails, Log, LogFails, Commit, CommitFails,
       NotWritten
  <2>5. CASE \/ LockPacked(p) \/ PackedTaken(p) \/ RepackDies(p) \/ LoadPacked(p) \/ NextRef(p)
             \/ Finish(p) \/ PackCommit(p) \/ PackFails(p)
    BY <1>a, <1>c, <2>5 DEF LockPacked, PackedTaken, RepackDies, PackFails, End, Gone,
              LoadPacked, NextRef, Finish, PackCommit
  <2> QED
    BY <1>a, <2>1, <2>2, <2>3, <2>4, <2>5, NoRemoval DEF Step
<1> QED
  BY <1>b, <1>c

\* A process either reads packed-refs now or keeps the copy it has.
LEMMA StepCache ==
  ASSUME TypeOK, NEW p \in Proc, Start(p) \/ Step(p) \/ Exit(p) \/ Kill(p)
  PROVE  cache'[p] \in {cache[p], NoCache, PackedRefs(p)}
<1> USE DEF TypeOK
<1>1. CASE Start(p) \/ Exit(p) \/ Kill(p)
  BY <1>1 DEF Start, Exit, End, Kill, Gone
<1>2. CASE Lstat(p) \/ Open(p) \/ LookupPacked(p) \/ LockRef(p) \/ LockTaken(p) \/ Verify(p)
  BY <1>2 DEF Lstat, Open, LookupPacked, LockRef, LockTaken, End, Gone, Verify
<1>3. CASE \/ AlreadyThere(p) \/ Write(p) \/ WriteFails(p) \/ Log(p) \/ LogFails(p)
           \/ Commit(p) \/ CommitFails(p)
  BY <1>3 DEF AlreadyThere, Write, WriteFails, Log, LogFails, Commit, CommitFails, NotWritten
<1>4. CASE \/ Unlink(p) \/ UnlinkFails(p) \/ PruneUnlock(p) \/ Repack(p) \/ RepackLock(p)
          \/ RepackCommit(p) \/ RepackCommitFails(p) \/ Unlog(p)
  BY <1>4 DEF Unlink, UnlinkFails, PruneUnlock, NotWritten, Repack, RepackLock, RepackCommit,
              RepackCommitFails, Unlog
<1>5. CASE \/ LockPacked(p) \/ PackedTaken(p) \/ RepackDies(p) \/ LoadPacked(p) \/ NextRef(p)
          \/ Finish(p) \/ PackCommit(p) \/ PackFails(p)
  BY <1>5 DEF LockPacked, PackedTaken, RepackDies, PackFails, End, Gone,
              LoadPacked, NextRef, Finish, PackCommit
<1> QED
  BY <1>1, <1>2, <1>3, <1>4, <1>5 DEF Step

LEMMA StepCachesStay == ASSUME Inv, [Next]_vars PROVE CachesStay'
<1>0. CASE RemoveStaleLocks \/ UNCHANGED vars
  BY <1>0 DEF RemoveStaleLocks, vars, CachesStay, Inv
<1>a. SUFFICES ASSUME NEW p \in Proc, Start(p) \/ Step(p) \/ Exit(p) \/ Kill(p),
                      NEW q \in Proc, NEW r \in Ref, loose'[r] = None, cache'[q] # NoCache
               PROVE  cache'[q][r] = InitPacked[r]
  BY <1>0, <1>a DEF Next, CachesStay
<1>1. loose[r] = None
  BY <1>a, LooseGrows
<1>2. CASE q # p
  <2>1. cache'[q] = cache[q]
    BY <1>a, <1>2, Frame DEF Inv
  <2> QED
    BY <1>a, <1>1, <2>1 DEF Inv, CachesStay
<1>3. CASE q = p
  BY <1>a, <1>1, <1>3, StepCache, ViewIsCurrent DEF Inv, CachesStay
<1> QED
  BY <1>2, <1>3

\* A lookup returns the value of a loose file or, where there is none, the packed
\* value: with nothing removed, the value of the ref.
LEMMA ScanNext ==
  ASSUME Inv, NEW p \in Proc, act[p] = "scan", Open(p) \/ LookupPacked(p), NEW r \in Ref
  PROVE  /\ r # ref[p] => scan'[p][r] = scan[p][r] /\ (r \in scanloose'[p] <=> r \in scanloose[p])
         /\ loose[ref[p]] = None => /\ scan'[p][ref[p]] = InitPacked[ref[p]]
                                    /\ ref[p] \notin scanloose'[p]
         /\ pc'[p] = "next" /\ todo' = todo /\ ref' = ref /\ act' = act /\ loose' = loose
<1>1. ref[p] \in Ref /\ pc \in [Proc -> PC] /\ scan \in [Proc -> [Ref -> Value]]
      /\ scanloose \in [Proc -> SUBSET Ref]
  BY DEF Inv, TypeOK, Refs
<1>2. ToVisit(p, ref[p])
  BY DEF ToVisit, Resolving, Open, LookupPacked
<1>3. scan[p][ref[p]] = None /\ ref[p] \notin scanloose[p]
  BY <1>1, <1>2 DEF Inv, ScanStays, Resolving, Open, LookupPacked
<1>4. todo' = todo /\ ref' = ref /\ act' = act /\ loose' = loose
  BY DEF Open, LookupPacked, repo
<1>5. pc'[p] = "next"
  BY <1>1 DEF Open, LookupPacked, Resolved, Unresolved, Goto
<1>6. CASE Open(p)
  <2>1. loose[ref[p]] # None /\ Resolved(p, loose[ref[p]], FALSE)
    BY <1>6 DEF Open, Inv, LooseStays
  <2>2. scan'[p] = [scan[p] EXCEPT ![ref[p]] = loose[ref[p]]]
    BY <1>1, <2>1 DEF Resolved
  <2>3. scanloose'[p] = scanloose[p] \cup {ref[p]}
    BY <1>1, <2>1 DEF Resolved
  <2> QED
    BY <1>1, <1>4, <1>5, <2>1, <2>2, <2>3
<1>7. CASE LookupPacked(p)
  <2> DEFINE v == PackedRefs(p)[ref[p]]
  <2>1. loose[ref[p]] = None => v = InitPacked[ref[p]]
    BY <1>1, ViewIsCurrent
  <2>2. CASE v # None
    <3>a. Resolved(p, v, TRUE)
      BY <1>7, <2>2 DEF LookupPacked
    <3>1. scan'[p] = [scan[p] EXCEPT ![ref[p]] = v]
      BY <1>1, <3>a DEF Resolved
    <3>2. scanloose'[p] = scanloose[p]
      BY <1>1, <3>a DEF Resolved
    <3> QED
      BY <1>1, <1>3, <1>4, <1>5, <2>1, <3>1, <3>2
  <2>3. CASE v = None
    <3>1. Unresolved(p)
      BY <1>7, <2>3 DEF LookupPacked, MustExist
    <3> QED
      BY <1>1, <1>3, <1>4, <1>5, <2>1, <2>3, <3>1 DEF Unresolved
  <2> QED
    BY <2>2, <2>3
<1> QED
  BY <1>6, <1>7

LEMMA StepScanStays == ASSUME NothingRemoved, Inv, [Next]_vars PROVE ScanStays'
<1>t. /\ TypeOK /\ pc \in [Proc -> PC] /\ ref \in [Proc -> Ref] /\ todo \in [Proc -> SUBSET Ref]
      /\ scan \in [Proc -> [Ref -> Value]] /\ scanloose \in [Proc -> SUBSET Ref]
      /\ act \in [Proc -> {"update", "delete", "read", "scan", "prune"}]
  BY DEF Inv, TypeOK, Refs
<1>0. CASE RemoveStaleLocks \/ UNCHANGED vars
  BY <1>0 DEF RemoveStaleLocks, vars, ScanStays, ToVisit, Inv
<1>a. SUFFICES ASSUME NEW p \in Proc, Start(p) \/ Step(p) \/ Exit(p) \/ Kill(p),
                      NEW q \in Proc, NEW r \in Ref,
                      act'[q] = "scan", pc'[q] \in Resolving \cup {"next", "packcommit"}
               PROVE  /\ ToVisit(q, r)' => scan'[q][r] = None /\ r \notin scanloose'[q]
                      /\ ~ToVisit(q, r)' /\ loose'[r] = None
                           => scan'[q][r] = InitPacked[r] /\ r \notin scanloose'[q]
  BY <1>0, <1>a DEF Next, ScanStays
<1>b. loose'[r] = None => loose[r] = None
  BY <1>a, LooseGrows
<1>c. act[q] = "scan" /\ pc[q] \in Resolving \cup {"next", "packcommit"} =>
        /\ ToVisit(q, r) => scan[q][r] = None /\ r \notin scanloose[q]
        /\ ~ToVisit(q, r) /\ loose[r] = None => scan[q][r] = InitPacked[r] /\ r \notin scanloose[q]
  BY DEF Inv, ScanStays
<1>d. CASE q # p
  <2>1. /\ pc'[q] = pc[q] /\ act'[q] = act[q] /\ ref'[q] = ref[q] /\ todo'[q] = todo[q]
        /\ scan'[q] = scan[q] /\ scanloose'[q] = scanloose[q]
    BY <1>t, <1>a, <1>d, Frame
  <2> QED
    BY <1>a, <1>b, <1>c, <2>1 DEF ToVisit
<1>e. CASE q = p
  <2> USE DEF Resolving
  <2>1. CASE Start(p)
    <3>1. pc'[p] \in {"packlock", "load", "lstat"} /\ (act'[p] = "scan" => pc'[p] \in {"packlock", "load"})
      <4>1. PICK o \in Menu[p] :
              /\ act'[p] = IF o.kind \in {"list", "pack"} THEN "scan" ELSE o.kind
              /\ pc'[p] = CASE o.kind = "pack" -> "packlock"
                            [] o.kind = "list" -> "load"
                            [] OTHER -> "lstat"
        BY <1>t, <2>1 DEF Start, Goto
      <4>2. o \in Op
        OBVIOUS
      <4>3. o.kind \in {"update", "delete", "read", "list", "pack"}
        BY <4>2 DEF Op
      <4> QED
        BY <4>1, <4>3
    <3> QED
      BY <1>a, <1>e, <3>1
  <2>2. CASE Exit(p) \/ Kill(p) \/ LockTaken(p) \/ PackedTaken(p) \/ RepackDies(p) \/ PackFails(p)
    BY <1>t, <1>a, <1>e, <2>2 DEF Exit, LockTaken, PackedTaken, RepackDies, PackFails, End, Kill, Gone, Goto
  <2>3. CASE Lstat(p)
    BY <1>t, <1>a, <1>b, <1>c, <1>e, <2>3 DEF Lstat, Goto, ToVisit
  <2>4. CASE Open(p) \/ LookupPacked(p)
    <3>1. act[p] = "scan"
      BY <1>a, <1>e, <2>4 DEF Open, LookupPacked
    <3>2. pc[p] \in {"open", "packed"}
      BY <2>4 DEF Open, LookupPacked
    <3>3. CASE r # ref[p]
      BY <1>a, <1>b, <1>c, <1>e, <2>4, <3>1, <3>2, <3>3, ScanNext DEF ToVisit
    <3>4. CASE r = ref[p]
      <4>1. r \notin todo[p]
        BY <3>1, <3>2, <3>4 DEF Inv, Activity, Active, Working, Between
      <4> QED
        BY <1>a, <1>b, <1>e, <2>4, <3>1, <3>4, <4>1, ScanNext DEF ToVisit
    <3> QED
      BY <3>3, <3>4
  <2>5. CASE LockRef(p) \/ Verify(p) \/ AlreadyThere(p) \/ Write(p) \/ WriteFails(p) \/ Log(p)
             \/ LogFails(p) \/ Commit(p) \/ CommitFails(p)
    <3>1. pc[p] \in {"lock"} \cup Holding
      BY <2>5 DEF LockRef, Verify, AlreadyThere, Write, WriteFails, Log, LogFails, Commit,
         CommitFails, Holding
    <3>2. act[p] = "update"
      BY <3>1 DEF Inv, Activity, Active, Working, Between, Holding
    <3>3. act' = act
      BY <2>5 DEF LockRef, Verify, AlreadyThere, Write, WriteFails, Log, LogFails, Commit,
         CommitFails, NotWritten
    <3> QED
      BY <1>a, <1>e, <3>2, <3>3
  <2>6. CASE LockPacked(p)
    BY <1>t, <1>a, <1>e, <2>6 DEF LockPacked, Goto
  <2>7. CASE LoadPacked(p)
    BY <1>t, <1>e, <2>7 DEF LoadPacked, Goto, ToVisit
  <2>8. CASE NextRef(p)
    <3>1. PICK s \in todo[p] : ref'[p] = s /\ todo'[p] = todo[p] \ {s}
      BY <1>t, <2>8 DEF NextRef
    <3>2. /\ pc[p] = "next" /\ pc'[p] = "lstat" /\ act' = act /\ scan' = scan
          /\ scanloose' = scanloose /\ loose' = loose
      BY <1>t, <2>8 DEF NextRef, Goto, repo
    <3>3. ToVisit(p, r)' <=> ToVisit(p, r)
      BY <3>1, <3>2 DEF ToVisit
    <3> QED
      BY <1>a, <1>c, <1>e, <3>2, <3>3
  <2>9. CASE Finish(p)
    BY <1>t, <1>a, <1>b, <1>c, <1>e, <2>9 DEF Finish, Goto, ToVisit, repo
  <2>10. CASE PackCommit(p)
    BY <1>t, <1>a, <1>e, <2>10 DEF PackCommit
  <2> QED
    BY <1>a, <2>1, <2>2, <2>3, <2>4, <2>5, <2>6, <2>7, <2>8, <2>9, <2>10, NoRemoval DEF Step
<1> QED
  BY <1>d, <1>e

\* No step changes the value of a ref but the commit of an update, and that only
\* the one of its ref.
LEMMA ValueKept ==
  ASSUME Inv, [Next]_vars, NEW r \in Ref,
         \A p \in Proc : Commit(p) => ref[p] # r
  PROVE  RefValue(r)' = RefValue(r)
<1>1. loose'[r] = loose[r]
  <2>1. ASSUME NEW p \in Proc, Commit(p) PROVE loose'[r] = loose[r]
    BY <2>1 DEF Commit, Inv, TypeOK, Refs
  <2>2. ASSUME NEW p \in Proc, Step(p), ~Commit(p) PROVE loose' = loose
    BY <2>2, NoRemoval DEF Step, Lstat, Open, LookupPacked, LockRef, LockTaken, PackedTaken, PackFails, End,
       Gone, Verify, AlreadyThere, Write, WriteFails, Log, LogFails, CommitFails, NotWritten,
       LockPacked, LoadPacked, NextRef, Finish, PackCommit, repo
  <2>3. CASE \/ RemoveStaleLocks \/ UNCHANGED vars
             \/ \E p \in Proc : Start(p) \/ Exit(p) \/ Kill(p)
    BY <2>3 DEF RemoveStaleLocks, vars, Start, Exit, End, Kill, Gone, repo
  <2> QED
    BY <2>1, <2>2, <2>3 DEF Next
<1>2. loose[r] = None => packed'[r] = packed[r]
  BY <1>1, StepPackedStays DEF PackedStays, Inv
<1> QED
  BY <1>1, <1>2 DEF RefValue

\* Two processes are never at the commit of one ref, and only the holder of its
\* lock is between verification and rename.
LEMMA StepValueHeld == ASSUME NothingRemoved, Inv, [Next]_vars PROVE ValueHeld'
<1>t. TypeOK /\ pc \in [Proc -> PC] /\ ref \in [Proc -> Ref] /\ op \in [Proc -> Op]
  BY DEF Inv, TypeOK
<1> USE DEF Holding
<1> DEFINE NewValue(r) == IF loose'[r] # None THEN loose'[r] ELSE packed'[r]
<1>0. CASE RemoveStaleLocks \/ UNCHANGED vars
  BY <1>0 DEF RemoveStaleLocks, vars, ValueHeld, RefValue, Inv
<1>a. SUFFICES ASSUME NEW p \in Proc, Start(p) \/ Step(p) \/ Exit(p) \/ Kill(p),
                      NEW q \in Proc, pc'[q] \in Holding \ {"verify"}, op'[q].old # Any
               PROVE  NewValue(ref'[q]) = op'[q].old
  BY <1>0, <1>a DEF Next, ValueHeld, RefValue
<1>k. ASSUME NEW r \in Ref, ~(Commit(p) /\ ref[p] = r) PROVE NewValue(r) = RefValue(r)
  <2>1. ASSUME NEW s \in Proc, Commit(s), s # p PROVE FALSE
    <3>1. pc'[s] # pc[s]
      BY <1>t, <2>1 DEF Commit, Goto
    <3> QED
      BY <1>t, <1>a, <2>1, <3>1, Frame
  <2> QED
    BY <1>a, <1>k, <2>1, ValueKept DEF RefValue
<1>1. CASE q # p
  <2>1. pc'[q] = pc[q] /\ ref'[q] = ref[q] /\ op'[q] = op[q]
    BY <1>t, <1>a, <1>1, Frame
  <2>2. RefValue(ref[q]) = op[q].old /\ reflock[ref[q]] = q
    BY <1>a, <2>1 DEF Inv, ValueHeld, LockHeld
  <2>3. Commit(p) => ref[p] # ref[q]
    BY <1>1, <2>2 DEF Commit, Inv, LockHeld
  <2>4. NewValue(ref[q]) = RefValue(ref[q])
    BY <1>t, <1>k, <2>3
  <2> QED
    BY <2>1, <2>2, <2>4
<1>2. CASE q = p
  <2>1. CASE Write(p) \/ Log(p)
    <3>1. /\ pc[p] \in {"write", "log"} /\ ref' = ref /\ op' = op /\ ~Commit(p)
      BY <2>1 DEF Write, Log, Commit
    <3>2. RefValue(ref[p]) = op[p].old
      BY <1>a, <1>2, <3>1 DEF Inv, ValueHeld
    <3>3. NewValue(ref[p]) = RefValue(ref[p])
      BY <1>t, <1>k, <3>1
    <3> QED
      BY <1>2, <3>1, <3>2, <3>3
  <2>2. CASE LockRef(p)
    <3>1. act[p] = "update"
      BY <2>2 DEF LockRef, Inv, Activity, Active, Working, Between, Resolving
    <3>2. pc'[p] = "verify" \/ op[p].old = Any
      BY <1>t, <2>2, <3>1 DEF LockRef, Want, Goto
    <3> QED
      BY <1>a, <1>2, <2>2, <3>2 DEF LockRef
  <2>3. CASE Verify(p)
    <3>1. act[p] = "update"
      BY <2>3 DEF Verify, Inv, Activity, Active, Working, Between, Resolving
    <3>2. /\ IF loose[ref[p]] # None THEN loose[ref[p]] = op[p].old
                                     ELSE PackedRefs(p)[ref[p]] = op[p].old
          /\ loose' = loose /\ packed' = packed /\ ref' = ref /\ op' = op
      BY <1>t, <1>a, <1>2, <2>3, <3>1 DEF Verify, Want, Goto
    <3>3. loose[ref[p]] = None => PackedRefs(p)[ref[p]] = packed[ref[p]]
      BY <1>t, ViewIsCurrent
    <3>4. RefValue(ref[p]) = op[p].old
      BY <3>2, <3>3 DEF RefValue
    <3> QED
      BY <1>2, <3>2, <3>4 DEF RefValue
  <2>4. CASE Start(p)
    <3>1. pc'[p] \in {"packlock", "load", "lstat"}
      BY <1>t, <2>4 DEF Start, Goto
    <3> QED
      BY <1>a, <1>2, <3>1
  <2>5. CASE Exit(p) \/ Kill(p) \/ LockTaken(p) \/ PackedTaken(p) \/ RepackDies(p) \/ PackFails(p)
    BY <1>t, <1>a, <1>2, <2>5 DEF Exit, LockTaken, PackedTaken, RepackDies, PackFails, End, Kill, Gone, Goto
  <2>6. CASE Lstat(p) \/ Open(p) \/ LookupPacked(p)
    BY <1>t, <1>a, <1>2, <2>6 DEF Lstat, Open, LookupPacked, Resolved, Unresolved, Goto
  <2>7. CASE AlreadyThere(p) \/ WriteFails(p) \/ LogFails(p) \/ Commit(p) \/ CommitFails(p)
    BY <1>t, <1>a, <1>2, <2>7 DEF AlreadyThere, WriteFails, LogFails, Commit, CommitFails,
       NotWritten, Goto
  <2>8. CASE LockPacked(p) \/ LoadPacked(p) \/ NextRef(p) \/ Finish(p) \/ PackCommit(p)
    BY <1>t, <1>a, <1>2, <2>8 DEF LockPacked, LoadPacked, NextRef, Finish, PackCommit, Goto
  <2> QED
    BY <1>a, <2>1, <2>2, <2>3, <2>4, <2>5, <2>6, <2>7, <2>8, NoRemoval DEF Step
<1> QED
  BY <1>1, <1>2

LEMMA StepInv == ASSUME NothingRemoved, Inv, [Next]_vars PROVE Inv'
<1>1. TypeOK'
  <2>1. CacheLoaded
    BY DEF Inv, Activity, Active, Working, Between, Resolving, Holding, CacheLoaded
  <2> QED
    BY <2>1, StepTypeOK DEF Inv
<1> QED
  BY <1>1, StepActivity, StepLockHeld, StepLooseStays, StepPackedStays, StepCachesStay,
     StepScanStays, StepValueHeld DEF Inv

\* Where nothing is removed, an update that names an old value replaces that
\* value: verify_lock() under the lock is enough, though it may look at an old
\* copy of packed-refs.
THEOREM CasIsAtomic == ASSUME NothingRemoved PROVE Spec => CasAtomic
<1>1. Inv => [\A p \in Proc : pc[p] = "commit" /\ pc'[p] = "ok"
                               => op[p].old \in {RefValue(ref[p]), Any}]_vars
  BY DEF Inv, ValueHeld, Holding
<1> QED
  BY InitInv, StepInv, <1>1, PTL DEF Spec, CasAtomic

\* Where nothing is removed, the refs are atomic registers: the rename of an
\* update is its step, everything else (packing, failing, being killed) changes
\* the value of no ref.
THEOREM RefsAreRegisters == ASSUME NothingRemoved PROVE Spec => ImplementsAtomicRefs
<1>1. Init => Atomic!Init
  BY DEF Init, Atomic!Init, RefValue, InitRefValue
<1>2. Inv /\ [Next]_vars => [Atomic!Next]_([r \in Ref |-> RefValue(r)])
  <2> SUFFICES ASSUME Inv, [Next]_vars
               PROVE  [Atomic!Next]_([r \in Ref |-> RefValue(r)])
    OBVIOUS
  <2> DEFINE value == [r \in Ref |-> RefValue(r)]
  <2>1. CASE \E p \in Proc : Commit(p)
    <3>1. PICK p \in Proc : Commit(p)
      BY <2>1
    <3>2. /\ act[p] = "update" /\ op[p] \in Menu[p] /\ op[p].kind = "update"
          /\ ref[p] = op[p].ref /\ ref[p] \in Ref
      BY <3>1 DEF Commit, Inv, TypeOK, Activity, Active, Working, Between, Resolving, Holding
    <3> DEFINE request == [ref |-> op[p].ref, old |-> op[p].old, new |-> op[p].new]
    <3>3. request \in Requests
      BY <3>2 DEF Requests
    <3>4. op[p].old \in {value[ref[p]], Any}
      BY <3>1, <3>2 DEF Commit, Inv, ValueHeld, Holding
    <3>5. op[p].new \in Sha /\ op[p].new # None
      BY DEF Inv, TypeOK, Op
    <3>6. /\ loose' = [loose EXCEPT ![ref[p]] = op[p].new] /\ packed' = packed
      BY <3>1 DEF Commit
    <3>7. loose \in [Ref -> Value]
      BY DEF Inv, TypeOK, Refs
    <3>8. value' = [value EXCEPT ![ref[p]] = op[p].new]
      BY <3>2, <3>5, <3>6, <3>7 DEF RefValue
    <3>9. Atomic!Update(request.ref, request.old, request.new)
      BY <3>2, <3>4, <3>8 DEF Atomic!Update
    <3> QED
      BY <3>3, <3>9 DEF Atomic!Next
  <2>2. CASE ~ \E p \in Proc : Commit(p)
    <3>1. ASSUME NEW r \in Ref PROVE RefValue(r)' = RefValue(r)
      BY <2>2, ValueKept
    <3>2. value' = value
      BY <3>1
    <3> QED
      BY <3>2
  <2> QED
    BY <2>1, <2>2
<1> QED
  BY InitInv, StepInv, <1>1, <1>2, PTL DEF Spec, ImplementsAtomicRefs, Atomic!Spec

-----------------------------------------------------------------------------
(***************************************************************************)
(* The logs, where nothing is removed and the updates of logged refs name  *)
(* an old value.  (Without one the log gets what the ref was before it was *)
(* locked.)  The last line of a log is where the ref is or is about to go. *)
(***************************************************************************)
LoggedUpdatesNameOld == \A p \in Proc : \A o \in Menu[p] :
                          o.kind = "update" /\ o.ref \in LogRefs => o.old # Any

Updating == {"write", "log", "commit"}

\* lock->old_sha1 is what the caller named, once it has been verified.
GotOld == \A p \in Proc : pc[p] \in Updating /\ op[p].old # Any => got[p] = op[p].old

LastLine(r) == reflog[r][Len(reflog[r])]

\* A logged ref is at one end of the last line.
AtLastLine == \A r \in Ref :
  /\ r \notin LogRefs => reflog[r] = << >>
  /\ r \in LogRefs => IF reflog[r] = << >> THEN RefValue(r) = InitRefValue[r]
                      ELSE RefValue(r) \in {LastLine(r).old, LastLine(r).new}

\* The line of an update that is about to commit is the last one.
LineWritten == \A p \in Proc : pc[p] = "commit" /\ ref[p] \in LogRefs
                 => reflog[ref[p]] # << >> /\ LastLine(ref[p]).new = op[p].new

LogInv == Inv /\ GotOld /\ AtLastLine /\ LineWritten /\ LogChain

LEMMA GotFrame ==
  ASSUME TypeOK, NEW p \in Proc, Start(p) \/ Step(p) \/ Exit(p) \/ Kill(p),
         NEW q \in Proc, q # p
  PROVE  got'[q] = got[q]
<1> USE DEF TypeOK
<1>1. CASE Start(p) \/ Exit(p) \/ Kill(p)
  BY <1>1 DEF Start, Exit, End, Kill, Gone
<1>2. CASE Lstat(p) \/ Open(p) \/ LookupPacked(p) \/ LockRef(p) \/ LockTaken(p) \/ Verify(p)
  BY <1>2 DEF Lstat, Open, LookupPacked, Resolved, Unresolved, LockRef, LockTaken, End, Gone,
     Verify
<1>3. CASE \/ AlreadyThere(p) \/ Write(p) \/ WriteFails(p) \/ Log(p) \/ LogFails(p)
           \/ Commit(p) \/ CommitFails(p)
  BY <1>3 DEF AlreadyThere, Write, WriteFails, Log, LogFails, Commit, CommitFails, NotWritten
<1>4. CASE \/ Unlink(p) \/ UnlinkFails(p) \/ PruneUnlock(p) \/ Repack(p) \/ RepackLock(p)
          \/ RepackCommit(p) \/ RepackCommitFails(p) \/ Unlog(p)
  BY <1>4 DEF Unlink, UnlinkFails, PruneUnlock, NotWritten, Repack, RepackLock, RepackCommit,
              RepackCommitFails, Unlog
<1>5. CASE \/ LockPacked(p) \/ PackedTaken(p) \/ RepackDies(p) \/ LoadPacked(p) \/ NextRef(p)
          \/ Finish(p) \/ PackCommit(p) \/ PackFails(p)
  BY <1>5 DEF LockPacked, PackedTaken, RepackDies, PackFails, End, Gone,
              LoadPacked, NextRef, Finish, PackCommit
<1> QED
  BY <1>1, <1>2, <1>3, <1>4, <1>5 DEF Step

\* Who holds the lock of a ref is at an update of it.
LEMMA HoldingUpdates ==
  ASSUME Inv, NEW p \in Proc, pc[p] \in Holding
  PROVE  /\ act[p] = "update" /\ op[p] \in Menu[p] /\ op[p].kind = "update"
         /\ ref[p] = op[p].ref /\ ref[p] \in Ref /\ op[p].new \in Sha
<1>1. Active(p)
  BY DEF Inv, Activity, Working, Between, Holding
<1> QED
  BY <1>1 DEF Inv, TypeOK, Op, Active, Holding, Resolving

\* Where the steps of an update come from
LEMMA IntoUpdating ==
  ASSUME Inv, NEW p \in Proc, Start(p) \/ Step(p) \/ Exit(p) \/ Kill(p), pc'[p] \in Updating
  PROVE  LockRef(p) \/ Verify(p) \/ Write(p) \/ Log(p)
<1>t. pc \in [Proc -> PC]
  BY DEF Inv, TypeOK
<1> USE DEF Updating, Goto
<1>1. CASE Start(p)
  <2>1. pc'[p] \in {"packlock", "load", "lstat"}
    BY <1>t, <1>1 DEF Start
  <2> QED
    BY <2>1
<1>2. CASE Exit(p) \/ Kill(p) \/ LockTaken(p) \/ PackedTaken(p) \/ RepackDies(p) \/ PackFails(p)
  BY <1>t, <1>2 DEF Exit, LockTaken, PackedTaken, RepackDies, PackFails, End, Kill, Gone
<1>3. CASE Lstat(p) \/ Open(p) \/ LookupPacked(p)
  BY <1>t, <1>3 DEF Lstat, Open, LookupPacked, Resolved, Unresolved
<1>4. CASE AlreadyThere(p) \/ WriteFails(p) \/ LogFails(p) \/ Commit(p) \/ CommitFails(p)
  BY <1>t, <1>4 DEF AlreadyThere, WriteFails, LogFails, Commit, CommitFails, NotWritten
<1>5. CASE LockPacked(p) \/ LoadPacked(p) \/ NextRef(p) \/ Finish(p) \/ PackCommit(p)
  BY <1>t, <1>5 DEF LockPacked, LoadPacked, NextRef, Finish, PackCommit
<1> QED
  BY <1>1, <1>2, <1>3, <1>4, <1>5, NoRemoval DEF Step

LEMMA StepGotOld ==
  ASSUME Inv, GotOld, [Next]_vars
  PROVE  GotOld'
<1>t. TypeOK /\ pc \in [Proc -> PC] /\ got \in [Proc -> Value]
  BY DEF Inv, TypeOK
<1>0. CASE RemoveStaleLocks \/ UNCHANGED vars
  BY <1>0 DEF RemoveStaleLocks, vars, GotOld
<1>a. SUFFICES ASSUME NEW p \in Proc, Start(p) \/ Step(p) \/ Exit(p) \/ Kill(p),
                      NEW q \in Proc, pc'[q] \in Updating, op'[q].old # Any
               PROVE  got'[q] = op'[q].old
  BY <1>0, <1>a DEF Next, GotOld
<1>1. CASE q # p
  BY <1>t, <1>a, <1>1, Frame, GotFrame DEF GotOld
<1>2. CASE q = p
  <2>0. LockRef(p) \/ Verify(p) \/ Write(p) \/ Log(p)
    BY <1>a, <1>2, IntoUpdating
  <2>1. CASE LockRef(p)
    <3>1. act[p] = "update"
      BY <2>1 DEF LockRef, Inv, Activity, Active, Working, Between, Resolving
    <3>2. pc'[p] = "verify" \/ op[p].old = Any
      BY <1>t, <2>1, <3>1 DEF LockRef, Want, Goto
    <3> QED
      BY <1>a, <1>2, <2>1, <3>2 DEF LockRef, Updating
  <2>2. CASE Verify(p)
    <3>1. act[p] = "update"
      BY <2>2, HoldingUpdates DEF Verify, Holding
    <3> DEFINE v == IF loose[ref[p]] # None THEN loose[ref[p]] ELSE PackedRefs(p)[ref[p]]
    <3>2. got'[p] = v /\ op' = op
      BY <1>t, <2>2 DEF Verify
    <3>3. v = Want(p)
      BY <1>t, <1>a, <1>2, <2>2, <3>1 DEF Verify, Goto, Updating
    <3> QED
      BY <1>2, <3>1, <3>2, <3>3 DEF Want
  <2>3. CASE Write(p) \/ Log(p)
    <3>1. pc[p] \in Updating /\ got' = got /\ op' = op
      BY <2>3 DEF Write, Log, Updating
    <3> QED
      BY <1>a, <1>2, <3>1 DEF GotOld
  <2> QED
    BY <2>0, <2>1, <2>2, <2>3
<1> QED
  BY <1>1, <1>2

\* No step writes to a log but log_ref_write().
LEMMA ReflogKept ==
  ASSUME Inv, [Next]_vars, \A p \in Proc : ~Log(p)
  PROVE  reflog' = reflog
<1>1. ASSUME NEW p \in Proc, Step(p) PROVE reflog' = reflog
  BY <1>1, NoRemoval DEF Step, Lstat, Open, LookupPacked, LockRef, LockTaken, PackedTaken, PackFails, End,
     Gone, Verify, AlreadyThere, Write, WriteFails, LogFails, Commit, CommitFails, NotWritten,
     LockPacked, LoadPacked, NextRef, Finish, PackCommit, repo
<1>2. CASE \/ RemoveStaleLocks \/ UNCHANGED vars
           \/ \E p \in Proc : Start(p) \/ Exit(p) \/ Kill(p)
  BY <1>2 DEF RemoveStaleLocks, vars, Start, Exit, End, Kill, Gone, repo
<1> QED
  BY <1>1, <1>2 DEF Next

\* A log or commit step is the only one that is taken.
LEMMA OneStep ==
  ASSUME Inv, NEW p \in Proc, Start(p) \/ Step(p) \/ Exit(p) \/ Kill(p),
         NEW q \in Proc, Log(q) \/ Commit(q)
  PROVE  q = p
<1>1. TypeOK /\ pc \in [Proc -> PC]
  BY DEF Inv, TypeOK
<1>2. pc'[q] # pc[q]
  BY <1>1 DEF Log, Commit, Goto
<1> QED
  BY <1>1, <1>2, Frame

\* What an entry in a log does to it
LEMMA Logged ==
  ASSUME Inv, GotOld, AtLastLine, LoggedUpdatesNameOld, [Next]_vars, NEW p \in Proc, Log(p)
  PROVE  /\ \A r \in Ref : RefValue(r)' = RefValue(r)
         /\ \A r \in Ref : r # ref[p] \/ r \notin LogRefs => reflog'[r] = reflog[r]
         /\ ref[p] \in LogRefs =>
              LET s == reflog[ref[p]]
                  t == reflog'[ref[p]]
              IN  /\ Len(s) \in Nat /\ Len(t) = Len(s) + 1
                  /\ \A i \in 1..Len(s) : t[i] = s[i]
                  /\ t[Len(t)].old = RefValue(ref[p]) /\ t[Len(t)].new = op[p].new
                  /\ t # << >>
<1>1. /\ pc[p] = "log" /\ op[p] \in Menu[p] /\ op[p].kind = "update" /\ ref[p] = op[p].ref
      /\ ref[p] \in Ref /\ op[p].new \in Sha
  BY HoldingUpdates DEF Log, Holding
<1>2. \A q \in Proc : ~Commit(q)
  <2>1. Step(p)
    BY DEF Step
  <2>2. ~Commit(p)
    BY <1>1 DEF Commit
  <2> QED
    BY <2>1, <2>2, OneStep
<1>3. \A r \in Ref : RefValue(r)' = RefValue(r)
  BY <1>2, ValueKept
<1>4. reflog \in [Ref -> Seq([old : Value, new : Sha])] /\ got[p] \in Value
  BY DEF Inv, TypeOK
<1>5. reflog' = IF ref[p] \in LogRefs \/ reflog[ref[p]] # << >>
                  THEN [reflog EXCEPT ![ref[p]] = Append(@, [old |-> got[p], new |-> op[p].new])]
                  ELSE reflog
  BY DEF Log
<1>6. \A r \in Ref : r # ref[p] \/ r \notin LogRefs => reflog'[r] = reflog[r]
  BY <1>1, <1>4, <1>5 DEF AtLastLine
<1>7. ASSUME ref[p] \in LogRefs
      PROVE  LET s == reflog[ref[p]]
                 t == reflog'[ref[p]]
             IN  /\ Len(s) \in Nat /\ Len(t) = Len(s) + 1
                 /\ \A i \in 1..Len(s) : t[i] = s[i]
                 /\ t[Len(t)].old = RefValue(ref[p]) /\ t[Len(t)].new = op[p].new
                 /\ t # << >>
  <2>1. op[p].old # Any
    BY <1>1, <1>7 DEF LoggedUpdatesNameOld
  <2>2. got[p] = RefValue(ref[p])
    BY <1>1, <2>1 DEF GotOld, Inv, ValueHeld, Updating, Holding
  <2> DEFINE Line == [old : Value, new : Sha]
             s == reflog[ref[p]]
             t == reflog'[ref[p]]
             e == [old |-> got[p], new |-> op[p].new]
  <2>3. s \in Seq(Line) /\ e \in Line /\ t = Append(s, e)
    BY <1>1, <1>4, <1>5, <1>7
  <2>4. e.old = RefValue(ref[p]) /\ e.new = op[p].new
    BY <2>2
  <2> HIDE DEF Line, s, t, e
  <2>5. Len(s) \in Nat /\ Len(t) = Len(s) + 1 /\ (\A i \in 1..Len(s) : t[i] = s[i]) /\ t[Len(s) + 1] = e
    BY <2>3
  <2>6. t # << >>
    BY <2>5
  <2> QED
    BY <2>4, <2>5, <2>6 DEF s, t
<1> QED
  BY <1>3, <1>6, <1>7

LEMMA StepLineWritten ==
  ASSUME LoggedUpdatesNameOld, LogInv, [Next]_vars
  PROVE  LineWritten'
<1> USE DEF LogInv
<1>t. TypeOK /\ pc \in [Proc -> PC]
  BY DEF Inv, TypeOK
<1>0. CASE RemoveStaleLocks \/ UNCHANGED vars
  BY <1>0 DEF RemoveStaleLocks, vars, LineWritten, LastLine
<1>a. SUFFICES ASSUME NEW p \in Proc, Start(p) \/ Step(p) \/ Exit(p) \/ Kill(p),
                      NEW q \in Proc, pc'[q] = "commit", ref'[q] \in LogRefs
               PROVE  /\ reflog'[ref'[q]] # << >>
                      /\ reflog'[ref'[q]][Len(reflog'[ref'[q]])].new = op'[q].new
  BY <1>0, <1>a DEF Next, LineWritten, LastLine
<1>1. CASE q # p
  <2>1. pc[q] = "commit" /\ ref'[q] = ref[q] /\ op'[q] = op[q]
    BY <1>t, <1>a, <1>1, Frame
  <2>2. ref[q] \in Ref /\ reflock[ref[q]] = q
    BY <2>1, HoldingUpdates DEF Holding, Inv, LockHeld
  <2>3. reflog'[ref[q]] = reflog[ref[q]]
    <3>1. CASE Log(p)
      <4>1. reflock[ref[p]] = p
        BY <3>1 DEF Log, Inv, LockHeld, Holding
      <4> QED
        BY <1>1, <2>2, <3>1, <4>1, Logged
    <3>2. CASE ~Log(p)
      BY <1>a, <3>2, OneStep, ReflogKept
    <3> QED
      BY <3>1, <3>2
  <2> QED
    BY <1>a, <2>1, <2>3 DEF LineWritten, LastLine
<1>2. CASE q = p
  <2>1. LockRef(p) \/ Verify(p) \/ Write(p) \/ Log(p)
    BY <1>a, <1>2, IntoUpdating DEF Updating
  <2>2. ~Write(p)
    BY <1>t, <1>a, <1>2 DEF Write, Goto
  <2>3. ~LockRef(p) /\ ~Verify(p)
    BY <1>t, <1>a, <1>2 DEF LockRef, Verify, AfterLock, Goto
  <2>4. Log(p) /\ ref' = ref /\ op' = op
    BY <2>1, <2>2, <2>3 DEF Log
  <2> QED
    BY <1>a, <1>2, <2>4, Logged
<1> QED
  BY <1>1, <1>2

\* Appending a line that starts where the ref is, at an end of the last line, keeps the chain.
LEMMA StepLog ==
  ASSUME LoggedUpdatesNameOld, LogInv, [Next]_vars, NEW p \in Proc, Log(p)
  PROVE  AtLastLine' /\ LogChain'
<1> USE DEF LogInv
<1>1. /\ \A r \in Ref : RefValue(r)' = RefValue(r)
      /\ \A r \in Ref : r # ref[p] \/ r \notin LogRefs => reflog'[r] = reflog[r]
  BY Logged
<1>2. ASSUME NEW r \in Ref, r # ref[p] \/ r \notin LogRefs
      PROVE  /\ reflog'[r] = reflog[r] /\ RefValue(r)' = RefValue(r)
  BY <1>1, <1>2
<1>3. ref[p] \in Ref
  BY DEF Inv, TypeOK
<1> DEFINE s == reflog[ref[p]]
           t == reflog'[ref[p]]
<1>4. ASSUME ref[p] \in LogRefs
      PROVE  /\ Len(s) \in Nat /\ Len(t) = Len(s) + 1 /\ t # << >>
             /\ \A i \in 1..Len(s) : t[i] = s[i]
             /\ t[Len(t)].old = RefValue(ref[p])
  BY <1>4, Logged
<1>5. ASSUME NEW r \in Ref, r = ref[p], r \in LogRefs
      PROVE  /\ t # << >> /\ RefValue(r)' \in {t[Len(t)].old, t[Len(t)].new}
             /\ \A i \in 2..Len(t) : t[i].old \in {t[i - 1].new, t[i - 1].old}
             /\ RefValue(r)' # InitRefValue[r] => \E i \in DOMAIN t : t[i].new = RefValue(r)'
  <2>1. /\ Len(s) \in Nat /\ Len(t) = Len(s) + 1 /\ t # << >>
        /\ \A i \in 1..Len(s) : t[i] = s[i]
        /\ t[Len(t)].old = RefValue(r) /\ RefValue(r)' = RefValue(r)
    BY <1>1, <1>4, <1>5
  <2>2. s # << >> => RefValue(r) \in {s[Len(s)].old, s[Len(s)].new}
    BY <1>5 DEF AtLastLine, LastLine
  <2>3. \A i \in 2..Len(s) : s[i].old \in {s[i - 1].new, s[i - 1].old}
    BY <1>5 DEF LogChain
  <2>4. RefValue(r) # InitRefValue[r] => \E i \in DOMAIN s : s[i].new = RefValue(r)
    BY <1>5 DEF LogChain
  <2>5. s \in Seq([old : Value, new : Sha]) /\ t \in Seq([old : Value, new : Sha])
    <3>1. reflog \in [Ref -> Seq([old : Value, new : Sha])]
      BY DEF Inv, TypeOK
    <3>2. reflog' \in [Ref -> Seq([old : Value, new : Sha])]
      <4>1. CacheLoaded
        BY DEF Inv, Activity, Active, Working, Between, Resolving, Holding, CacheLoaded
      <4> QED
        BY <4>1, StepTypeOK DEF Inv, TypeOK
    <3> QED
      BY <1>3, <3>1, <3>2
  <2> HIDE DEF s, t
  <2>6. DOMAIN s = 1..Len(s) /\ DOMAIN t = 1..Len(t) /\ (s = << >> <=> Len(s) = 0)
    BY <2>5
  <2>7. ASSUME NEW i \in 2..Len(t) PROVE t[i].old \in {t[i - 1].new, t[i - 1].old}
    <3>1. CASE i = Len(t)
      <4>1. s # << >> /\ i - 1 = Len(s) /\ Len(s) \in 1..Len(s)
        BY <2>1, <2>6, <3>1
      <4>2. t[i - 1] = s[Len(s)] /\ t[i].old = RefValue(r)
        BY <2>1, <3>1, <4>1
      <4> QED
        BY <2>2, <4>1, <4>2
    <3>2. CASE i # Len(t)
      <4>1. i \in 2..Len(s) /\ i \in 1..Len(s) /\ i - 1 \in 1..Len(s)
        BY <2>1, <3>2
      <4>2. t[i] = s[i] /\ t[i - 1] = s[i - 1]
        BY <2>1, <4>1
      <4> QED
        BY <2>3, <4>1, <4>2
    <3> QED
      BY <3>1, <3>2
  <2>8. RefValue(r)' # InitRefValue[r] => \E i \in DOMAIN t : t[i].new = RefValue(r)'
    <3> SUFFICES ASSUME RefValue(r) # InitRefValue[r]
                 PROVE  \E i \in DOMAIN t : t[i].new = RefValue(r)
      BY <2>1
    <3>1. PICK i \in 1..Len(s) : s[i].new = RefValue(r)
      BY <2>4, <2>6
    <3>2. t[i].new = RefValue(r) /\ i \in 1..Len(t)
      BY <2>1, <3>1
    <3> QED
      BY <2>6, <3>2
  <2> QED
    BY <2>1, <2>7, <2>8
<1>6. AtLastLine'
  <2>1. ASSUME NEW r \in Ref
        PROVE  /\ r \notin LogRefs => reflog'[r] = << >>
               /\ r \in LogRefs => IF reflog'[r] = << >> THEN RefValue(r)' = InitRefValue[r]
                                   ELSE RefValue(r)' \in {LastLine(r)'.old, LastLine(r)'.new}
    <3>1. CASE r # ref[p] \/ r \notin LogRefs
      BY <1>2, <3>1 DEF AtLastLine, LastLine
    <3>2. CASE r = ref[p] /\ r \in LogRefs
      BY <1>5, <3>2 DEF LastLine
    <3> QED
      BY <3>1, <3>2
  <2> QED
    BY <2>1 DEF AtLastLine, InitRefValue
<1>7. LogChain'
  <2>1. ASSUME NEW r \in Ref
        PROVE  /\ \A i \in 2..Len(reflog'[r]) :
                    reflog'[r][i].old \in {reflog'[r][i - 1].new, reflog'[r][i - 1].old}
               /\ r \in LogRefs /\ RefValue(r)' # InitRefValue[r]
                    => \E i \in DOMAIN reflog'[r] : reflog'[r][i].new = RefValue(r)'
    <3>1. CASE r # ref[p] \/ r \notin LogRefs
      BY <1>2, <3>1 DEF LogChain
    <3>2. CASE r = ref[p] /\ r \in LogRefs
      BY <1>5, <3>2
    <3> QED
      BY <3>1, <3>2
  <2> QED
    BY <2>1 DEF LogChain, InitRefValue
<1> QED
  BY <1>6, <1>7

\* A commit takes the ref to where its last line ends.
LEMMA StepNoLog ==
  ASSUME LogInv, [Next]_vars, \A p \in Proc : ~Log(p)
  PROVE  AtLastLine' /\ LogChain'
<1> USE DEF LogInv
<1>1. reflog' = reflog
  BY ReflogKept
<1>2. ASSUME NEW r \in Ref, r \in LogRefs
      PROVE  \/ RefValue(r)' = RefValue(r)
             \/ reflog[r] # << >> /\ RefValue(r)' = LastLine(r).new
  <2>1. CASE \E p \in Proc : Commit(p) /\ ref[p] = r
    <3>1. PICK p \in Proc : Commit(p) /\ ref[p] = r
      BY <2>1
    <3>2. reflog[r] # << >> /\ LastLine(r).new = op[p].new
      BY <1>2, <3>1 DEF LineWritten, Commit
    <3>3. op[p].new # None /\ op[p].new \in Sha
      BY <3>1, HoldingUpdates DEF Commit, Holding
    <3>4. loose'[r] = op[p].new
      BY <3>1 DEF Commit, Inv, TypeOK, Refs
    <3> QED
      BY <3>2, <3>3, <3>4 DEF RefValue
  <2>2. CASE ~ \E p \in Proc : Commit(p) /\ ref[p] = r
    BY <2>2, ValueKept
  <2> QED
    BY <2>1, <2>2
<1>3. ASSUME NEW r \in Ref, reflog[r] # << >>
      PROVE  Len(reflog[r]) \in DOMAIN reflog[r]
  <2>1. reflog[r] \in Seq([old : Value, new : Sha])
    BY DEF Inv, TypeOK
  <2> QED
    BY <1>3, <2>1
<1>4. AtLastLine'
  <2>1. ASSUME NEW r \in Ref
        PROVE  /\ r \notin LogRefs => reflog'[r] = << >>
               /\ r \in LogRefs => IF reflog'[r] = << >> THEN RefValue(r)' = InitRefValue[r]
                                   ELSE RefValue(r)' \in {LastLine(r)'.old, LastLine(r)'.new}
    BY <1>1, <1>2 DEF AtLastLine, LastLine
  <2> QED
    BY <2>1 DEF AtLastLine, InitRefValue
<1>5. LogChain'
  <2>1. ASSUME NEW r \in Ref, r \in LogRefs, RefValue(r)' # InitRefValue[r]
        PROVE  \E i \in DOMAIN reflog[r] : reflog[r][i].new = RefValue(r)'
    BY <1>2, <1>3, <2>1 DEF LogChain, LastLine
  <2> QED
    BY <1>1, <2>1 DEF LogChain, InitRefValue
<1> QED
  BY <1>4, <1>5

LEMMA InitLogInv == Init => LogInv
<1> SUFFICES ASSUME Init PROVE LogInv
  OBVIOUS
<1>1. GotOld /\ LineWritten
  BY DEF Init, GotOld, LineWritten, Updating
<1>2. AtLastLine /\ LogChain
  <2>1. \A r \in Ref : reflog[r] = << >> /\ RefValue(r) = InitRefValue[r]
    BY DEF Init, RefValue, InitRefValue
  <2> QED
    BY <2>1 DEF AtLastLine, LogChain
<1> QED
  BY <1>1, <1>2, InitInv DEF LogInv

LEMMA StepLogInv == ASSUME NothingRemoved, LoggedUpdatesNameOld, LogInv, [Next]_vars PROVE LogInv'
<1>1. Inv' /\ GotOld' /\ LineWritten'
  BY StepInv, StepGotOld, StepLineWritten DEF LogInv
<1>2. AtLastLine' /\ LogChain'
  BY StepLog, StepNoLog
<1> QED
  BY <1>1, <1>2 DEF LogInv

\* Where nothing is removed and the updates of logged refs name an old value, the log of a ref is
\* a chain that leads to its value, whatever fails or is killed between log_ref_write() and
\* commit_ref().
THEOREM LogIsChain == ASSUME NothingRemoved, LoggedUpdatesNameOld PROVE Spec => []LogChain
<1>1. LogInv => LogChain
  BY DEF LogInv
<1> QED
  BY InitLogInv, StepLogInv, <1>1, PTL DEF Spec
=============================================================================
