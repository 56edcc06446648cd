------------------------------- MODULE Refs -------------------------------
(***************************************************************************)
(* refs.c and pack-refs.c: the refs of a repository and the commands that  *)
(* read, update, delete and pack them, each a process of its own.          *)
(*                                                                         *)
(* A ref is stored loose, in a file of its own, or packed, as a line of    *)
(* packed-refs; a loose file hides the line.  A process reads packed-refs  *)
(* at most once and keeps what it read (get_packed_refs).  Loose files are *)
(* read when they are needed.  A ref is changed under <ref>.lock, the      *)
(* packed-refs file under packed-refs.lock; nobody waits for a lock: a     *)
(* command that finds one taken dies or gives up.                          *)
(*                                                                         *)
(* A step is one system call that other processes can see the effect of,   *)
(* or whose result they can change.  Modelled are refs that are not        *)
(* symbolic, in one directory (no conflict between "a" and "a/b").         *)
(***************************************************************************)
EXTENDS Naturals, Sequences

CONSTANTS Proc,        \* processes
          Ref,         \* names of refs
          Tags,        \* those under refs/tags/
          Sha,         \* object names
          None,        \* no such file, line or ref; the null object name
          Any,         \* old_sha1 == NULL: the caller does not name an old value
          Free,        \* a lock file that does not exist
          Stale,       \* a lock file whose process was killed
          NoCache,     \* packed-refs not read yet
          InitLoose, InitPacked,  \* the refs at the start
          LogRefs,     \* refs whose updates are logged (log_all_ref_updates)
          Menu,        \* Menu[p]: what p may be asked to do
          MaxOps,      \* bound: MaxOps[p] operations for p
          Faults       \* what may fail: subset of {"write", "log", "commit", "unlink", "kill"}

Value == Sha \cup {None}
Refs == [Ref -> Value]

\* A request.  Fields that do not matter for its kind are ignored.
Op == [kind  : {"update", "delete", "read", "list", "pack"},
       ref   : Ref,
       old   : Value \cup {Any},   \* the value the ref must have
       new   : Sha,
       all   : BOOLEAN,            \* pack-refs --all
       prune : BOOLEAN]            \* not pack-refs --no-prune

ASSUME RefsAssumption ==
  /\ None \notin Sha /\ Any \notin Value
  /\ {Free, Stale} \cap Proc = {} /\ Free # Stale
  /\ NoCache \notin Refs
  /\ Ref # {} /\ Sha # {}
  /\ Tags \subseteq Ref /\ LogRefs \subseteq Ref
  /\ InitLoose \in Refs /\ InitPacked \in Refs
  /\ Menu \in [Proc -> SUBSET Op]
  /\ MaxOps \in [Proc -> Nat]
  /\ Faults \subseteq {"write", "log", "commit", "unlink", "kill"}

VARIABLES
  \* the repository
  loose,     \* loose[r]: content of the file r
  packed,    \* packed[r]: value in the packed-refs file
  reflock,   \* reflock[r]: who created r.lock
  packlock,  \* who created packed-refs.lock
  reflog,    \* reflog[r]: the lines of logs/r; << >> if there is no such file
  \* each process
  pc,        \* what it does next
  op,        \* what it was asked to do
  act,       \* the part of it that it is at
  ref,       \* the ref that part is about
  cache,     \* its copy of packed-refs
  got,       \* lock->old_sha1, or what a read found
  isp,       \* REF_ISPACKED: did the value come from packed-refs?
  ret,       \* delete_ref()'s result: has anything failed?
  todo,      \* refs still to be visited (for_each_ref, prune_refs)
  scan,      \* scan[p][r]: the value for_each_ref shows for r
  scanloose, \* refs for_each_ref found loose
  left       \* operations it may still start (bound)

repo == <<loose, packed, reflock, packlock, reflog>>
vars == <<loose, packed, reflock, packlock, reflog, pc, op, act, ref, cache, got,
          isp, ret, todo, scan, scanloose, left>>

\* Between two operations a process is new or gone ("idle"), or the call has
\* returned to its command.
Between == {"idle", "ok", "fail"}
PC == Between \cup
      {"lstat", "open", "packed", "lock", "verify", "write", "log", "commit",
       "unlink", "repack", "repacklock", "repackcommit", "unlog", "unlock",
       "packlock", "load", "next", "packcommit"}

\* The value of a ref: what resolving it finds when nothing moves.
RefValue(r) == IF loose[r] # None THEN loose[r] ELSE packed[r]

Goto(p, l) == pc' = [pc EXCEPT ![p] = l]

Init ==
  /\ loose = InitLoose
  /\ packed = InitPacked
  /\ reflock = [r \in Ref |-> Free]
  /\ packlock = Free
  /\ reflog = [r \in Ref |-> << >>]
  /\ pc = [p \in Proc |-> "idle"]
  /\ op = [p \in Proc |-> CHOOSE o \in Op : TRUE]
  /\ act = [p \in Proc |-> "read"]
  /\ ref = [p \in Proc |-> CHOOSE r \in Ref : TRUE]
  /\ cache = [p \in Proc |-> NoCache]
  /\ got = [p \in Proc |-> None]
  /\ isp = [p \in Proc |-> FALSE]
  /\ ret = [p \in Proc |-> FALSE]
  /\ todo = [p \in Proc |-> {}]
  /\ scan = [p \in Proc |-> [r \in Ref |-> None]]
  /\ scanloose = [p \in Proc |-> {}]
  /\ left = MaxOps

TypeOK ==
  /\ loose \in Refs /\ packed \in Refs
  /\ reflock \in [Ref -> Proc \cup {Free, Stale}]
  /\ packlock \in Proc \cup {Free, Stale}
  /\ reflog \in [Ref -> Seq([old : Value, new : Sha])]
  /\ pc \in [Proc -> PC]
  /\ op \in [Proc -> Op]
  /\ act \in [Proc -> {"update", "delete", "read", "scan", "prune"}]
  /\ ref \in [Proc -> Ref]
  /\ cache \in [Proc -> Refs \cup {NoCache}]
  /\ got \in [Proc -> Value]
  /\ isp \in [Proc -> BOOLEAN]
  /\ ret \in [Proc -> BOOLEAN]
  /\ todo \in [Proc -> SUBSET Ref]
  /\ scan \in [Proc -> Refs]
  /\ scanloose \in [Proc -> SUBSET Ref]
  /\ left \in [Proc -> Nat]

-----------------------------------------------------------------------------
(* Commands start, go on to the next operation, and end. *)

\* One process may do several updates, deletions and lookups and keeps its
\* cache (a fetch, a received push).  pack-refs and a listing are all that
\* their process does.
Start(p) ==
  /\ left[p] > 0
  /\ \E o \in Menu[p] :
       /\ \/ pc[p] = "idle"
          \/ pc[p] \in {"ok", "fail"} /\ {o.kind, op[p].kind} \cap {"list", "pack"} = {}
       /\ op' = [op EXCEPT ![p] = o]
       /\ ref' = [ref EXCEPT ![p] = o.ref]
       /\ act' = [act EXCEPT ![p] = IF o.kind \in {"list", "pack"} THEN "scan" ELSE o.kind]
       /\ Goto(p, CASE o.kind = "pack" -> "packlock"
                    [] o.kind = "list" -> "load"
                    [] OTHER -> "lstat")
  /\ left' = [left EXCEPT ![p] = @ - 1]
  /\ got' = [got EXCEPT ![p] = None]
  /\ isp' = [isp EXCEPT ![p] = FALSE]
  /\ ret' = [ret EXCEPT ![p] = FALSE]
  /\ UNCHANGED <<repo, cache, todo, scan, scanloose>>

\* The process is gone, and what it knew.
Gone(p) ==
  /\ Goto(p, "idle")
  /\ cache' = [cache EXCEPT ![p] = NoCache]
  /\ got' = [got EXCEPT ![p] = None]
  /\ isp' = [isp EXCEPT ![p] = FALSE]
  /\ ret' = [ret EXCEPT ![p] = FALSE]
  /\ todo' = [todo EXCEPT ![p] = {}]
  /\ scan' = [scan EXCEPT ![p] = [r \in Ref |-> None]]
  /\ scanloose' = [scanloose EXCEPT ![p] = {}]
  /\ UNCHANGED <<loose, packed, reflog, op, act, ref, left>>

\* exit() or die(); the exit handler has removed the locks p held (LockFile).
End(p) == /\ Gone(p)
          /\ reflock' = [r \in Ref |-> IF reflock[r] = p THEN Free ELSE reflock[r]]
          /\ packlock' = IF packlock = p THEN Free ELSE packlock

Exit(p) == pc[p] \in {"ok", "fail"} /\ End(p)

\* SIGKILL or a power failure in the middle of an operation: locks stay.
Kill(p) == /\ "kill" \in Faults /\ pc[p] \notin Between
           /\ Gone(p)
           /\ reflock' = [r \in Ref |-> IF reflock[r] = p THEN Stale ELSE reflock[r]]
           /\ packlock' = IF packlock = p THEN Stale ELSE packlock

\* "Make sure no other git process is running and remove the file manually"
RemoveStaleLocks ==
  /\ \A p \in Proc : pc[p] = "idle"
  /\ Stale \in {packlock} \cup {reflock[r] : r \in Ref}
  /\ reflock' = [r \in Ref |-> IF reflock[r] = Stale THEN Free ELSE reflock[r]]
  /\ packlock' = IF packlock = Stale THEN Free ELSE packlock
  /\ UNCHANGED <<loose, packed, reflog, pc, op, act, ref, cache, got, isp, ret, todo,
                 scan, scanloose, left>>

-----------------------------------------------------------------------------
(* resolve_ref_unsafe(): lstat() the loose file, then open and read it, or *)
(* look the ref up in packed-refs.                                         *)

\* Faulty variant: prune_ref() does not name the value that it packed.
WantPruneAny(p) == IF act[p] = "prune" THEN Any ELSE op[p].old

\* The value the caller wants the ref to have (old_sha1; r->sha1 in prune_ref).
Want(p) == IF act[p] = "prune" THEN scan[p][ref[p]] ELSE op[p].old

\* Its argument `reading': is it an error that the ref does not exist?
MustExist(p) == act[p] \in {"read", "scan", "prune"} \/ op[p].old \notin {None, Any}

\* get_packed_refs(): reads the file the first time.
PackedRefs(p) == IF cache[p] = NoCache THEN packed ELSE cache[p]

\* Faulty variant: packed-refs is looked at first.
LstatPackedFirst(p) ==
  /\ pc[p] = "lstat"
  /\ Goto(p, IF PackedRefs(p)[ref[p]] # None THEN "packed" ELSE "open")
  /\ UNCHANGED <<repo, op, act, ref, cache, got, isp, ret, todo, scan, scanloose, left>>

Lstat(p) ==
  /\ pc[p] = "lstat"
  /\ Goto(p, IF loose[ref[p]] # None THEN "open" ELSE "packed")
  /\ UNCHANGED <<repo, op, act, ref, cache, got, isp, ret, todo, scan, scanloose, left>>

\* It returns the value v.  A lookup is done; the iteration notes what it saw;
\* lock_ref_sha1_basic() goes on to the lock.
Resolved(p, v, ispacked) ==
  /\ got' = [got EXCEPT ![p] = v]
  /\ isp' = [isp EXCEPT ![p] = ispacked]
  /\ IF act[p] = "scan"
       THEN /\ scan' = [scan EXCEPT ![p][ref[p]] = v]
            /\ scanloose' = [scanloose EXCEPT ![p] = IF ispacked THEN @ ELSE @ \cup {ref[p]}]
       ELSE UNCHANGED <<scan, scanloose>>
  /\ Goto(p, CASE act[p] = "read" -> "ok"
               [] act[p] = "scan" -> "next"
               [] OTHER -> "lock")

\* It returns NULL: the lookup fails, the iteration skips a broken ref (one it
\* has no value for, even if it is packed), the update or deletion fails,
\* prune_ref() leaves the ref alone.
Unresolved(p) ==
  /\ Goto(p, IF act[p] \in {"scan", "prune"} THEN "next" ELSE "fail")
  /\ UNCHANGED <<got, isp, scan, scanloose>>

Open(p) ==
  /\ pc[p] = "open"
  /\ \/ loose[ref[p]] # None /\ Resolved(p, loose[ref[p]], FALSE)
     \/ loose[ref[p]] = None /\ Unresolved(p)
  /\ UNCHANGED <<repo, op, act, ref, ret, cache, todo, left>>

LookupPacked(p) ==
  /\ pc[p] = "packed"
  /\ cache' = [cache EXCEPT ![p] = PackedRefs(p)]
  /\ LET v == PackedRefs(p)[ref[p]] IN
       \/ (v # None \/ ~MustExist(p)) /\ Resolved(p, v, v # None)
       \/ (v = None /\ MustExist(p)) /\ Unresolved(p)
  /\ UNCHANGED <<repo, op, act, ref, ret, todo, left>>

-----------------------------------------------------------------------------
(* lock_ref_sha1_basic() after resolving, verify_lock() and unlock_ref()   *)

\* What the caller does with the lock: delete_ref() unlinks the loose file
\* unless its first look, before the lock, found the ref packed; prune_ref()
\* always does.
AfterLock(p) == CASE act[p] = "update" -> "write"
                  [] act[p] = "delete" /\ isp[p] -> "repack"
                  [] OTHER -> "unlink"

\* Faulty variant: no verify_lock().
LockRefUnverified(p) ==
  /\ pc[p] = "lock" /\ reflock[ref[p]] = Free
  /\ reflock' = [reflock EXCEPT ![ref[p]] = p]
  /\ Goto(p, AfterLock(p))
  /\ UNCHANGED <<loose, packed, packlock, reflog, op, act, ref, cache, got, isp, ret, todo,
                 scan, scanloose, left>>

\* <ref>.lock is taken with LOCK_DIE_ON_ERROR.
LockRef(p) ==
  /\ pc[p] = "lock" /\ reflock[ref[p]] = Free
  /\ reflock' = [reflock EXCEPT ![ref[p]] = p]
  /\ Goto(p, IF Want(p) # Any THEN "verify" ELSE AfterLock(p))
  /\ UNCHANGED <<loose, packed, packlock, reflog, op, act, ref, cache, got, isp, ret, todo,
                 scan, scanloose, left>>

\* Faulty variant: a taken lock is waited for.
LockTakenWaits(p) == pc[p] = "lock" /\ reflock[ref[p]] # Free /\ UNCHANGED vars

LockTaken(p) == pc[p] = "lock" /\ reflock[ref[p]] # Free /\ End(p)

Unlock(p) == reflock' = [reflock EXCEPT ![ref[p]] = Free]

\* Faulty variant: lock->old_sha1 keeps what was read before the lock.
VerifyKeepsOld(p) ==
  /\ pc[p] = "verify"
  /\ LET r == ref[p]
         v == IF loose[r] # None THEN loose[r] ELSE PackedRefs(p)[r]
     IN \/ v = Want(p) /\ Goto(p, AfterLock(p)) /\ UNCHANGED reflock
        \/ v # Want(p) /\ Goto(p, IF act[p] = "prune" THEN "next" ELSE "fail") /\ Unlock(p)
  /\ UNCHANGED <<loose, packed, packlock, reflog, op, act, ref, cache, got, isp, ret, todo, scan,
                 scanloose, left>>

\* read_ref_full() again, now under the lock: loose[ref[p]] cannot change, so
\* its lstat() and open() are one step.  A ref that is not at the wanted value,
\* or that is gone, fails the caller.
Verify(p) ==
  /\ pc[p] = "verify"
  /\ LET r == ref[p]
         v == IF loose[r] # None THEN loose[r] ELSE PackedRefs(p)[r]
     IN  /\ got' = [got EXCEPT ![p] = v]
         /\ \/ /\ v = Want(p)
               /\ Goto(p, AfterLock(p))
               /\ UNCHANGED reflock
            \/ /\ v # Want(p)
               /\ Goto(p, IF act[p] = "prune" THEN "next" ELSE "fail")
               /\ Unlock(p)
         /\ cache' = [cache EXCEPT ![p] = IF loose[r] # None THEN @ ELSE PackedRefs(p)]
  /\ UNCHANGED <<loose, packed, packlock, reflog, op, act, ref, isp, ret, todo, scan,
                 scanloose, left>>

-----------------------------------------------------------------------------
(* write_ref_sha1() *)

\* The update returns without having moved the ref, for lack of need or with an
\* error, and gives the lock back.
NotWritten(p, l) ==
  /\ Unlock(p)
  /\ Goto(p, l)
  /\ UNCHANGED <<loose, packed, packlock, reflog, op, act, ref, cache, got, isp, ret, todo,
                 scan, scanloose, left>>

\* !lock->force_write && !hashcmp(lock->old_sha1, sha1).  (force_write is set
\* for a ref that did not exist; no new value is the null object name.)
AlreadyThere(p) == pc[p] = "write" /\ got[p] = op[p].new /\ NotWritten(p, "ok")

\* The new value is written to <ref>.lock, which nobody reads.
Write(p) ==
  /\ pc[p] = "write" /\ got[p] # op[p].new
  /\ Goto(p, "log")
  /\ UNCHANGED <<repo, op, act, ref, cache, got, isp, ret, todo, scan, scanloose, left>>

\* No such object, no commit for a branch, disk full: all before the log.
WriteFails(p) == /\ pc[p] = "write" /\ "write" \in Faults /\ got[p] # op[p].new
                 /\ NotWritten(p, "fail")

\* log_ref_write()
Log(p) ==
  /\ pc[p] = "log"
  /\ reflog' = IF ref[p] \in LogRefs \/ reflog[ref[p]] # << >>
                 THEN [reflog EXCEPT ![ref[p]] = Append(@, [old |-> got[p], new |-> op[p].new])]
                 ELSE reflog
  /\ Goto(p, "commit")
  /\ UNCHANGED <<loose, packed, reflock, packlock, op, act, ref, cache, got, isp, ret, todo,
                 scan, scanloose, left>>

LogFails(p) == pc[p] = "log" /\ "log" \in Faults /\ NotWritten(p, "fail")

\* commit_ref(): <ref>.lock becomes the loose file.
Commit(p) ==
  /\ pc[p] = "commit"
  /\ loose' = [loose EXCEPT ![ref[p]] = op[p].new]
  /\ Unlock(p)
  /\ Goto(p, "ok")
  /\ UNCHANGED <<packed, packlock, reflog, op, act, ref, cache, got, isp, ret, todo, scan,
                 scanloose, left>>

CommitFails(p) == pc[p] = "commit" /\ "commit" \in Faults /\ NotWritten(p, "fail")

-----------------------------------------------------------------------------
(* delete_ref() and prune_ref() *)

\* The loose file goes.
Unlink(p) ==
  /\ pc[p] = "unlink"
  /\ loose' = [loose EXCEPT ![ref[p]] = None]
  /\ Goto(p, IF act[p] = "prune" THEN "unlock" ELSE "repack")
  /\ UNCHANGED <<packed, reflock, packlock, reflog, op, act, ref, cache, got, isp, ret, todo,
                 scan, scanloose, left>>

\* It does not: a warning, and delete_ref() will return 1.
UnlinkFails(p) ==
  /\ pc[p] = "unlink" /\ "unlink" \in Faults /\ loose[ref[p]] # None
  /\ \/ act[p] = "prune" /\ Goto(p, "unlock") /\ UNCHANGED ret
     \/ act[p] # "prune" /\ Goto(p, "repack") /\ ret' = [ret EXCEPT ![p] = TRUE]
  /\ UNCHANGED <<repo, op, act, ref, cache, got, isp, todo, scan, scanloose, left>>

\* unlock_ref() in prune_ref()
PruneUnlock(p) == pc[p] = "unlock" /\ NotWritten(p, "next")

\* repack_without_ref(): nothing to do for a ref that p's copy does not have.
Repack(p) ==
  /\ pc[p] = "repack"
  /\ cache' = [cache EXCEPT ![p] = PackedRefs(p)]
  /\ Goto(p, IF PackedRefs(p)[ref[p]] = None THEN "unlog" ELSE "repacklock")
  /\ UNCHANGED <<repo, op, act, ref, got, isp, ret, todo, scan, scanloose, left>>

\* Faulty variant: nobody is told that packed-refs was locked.
RepackLockSilent(p) ==
  /\ pc[p] = "repacklock"
  /\ IF packlock = Free THEN packlock' = p /\ Goto(p, "repackcommit")
                        ELSE UNCHANGED packlock /\ Goto(p, "unlog")
  /\ UNCHANGED <<loose, packed, reflock, reflog, op, act, ref, cache, got, isp, ret, todo,
                 scan, scanloose, left>>

\* If packed-refs is locked that is an error, not the end of p.  Should the lock
\* be one that p itself could not commit, its name is forgotten (LockFile).
RepackLock(p) ==
  /\ pc[p] = "repacklock"
  /\ \/ /\ packlock = Free
        /\ packlock' = p /\ Goto(p, "repackcommit") /\ UNCHANGED ret
     \/ /\ packlock # Free
        /\ packlock' = IF packlock = p THEN Stale ELSE packlock
        /\ Goto(p, "unlog") /\ ret' = [ret EXCEPT ![p] = TRUE]
  /\ UNCHANGED <<loose, packed, reflock, reflog, op, act, ref, cache, got, isp, todo, scan,
                 scanloose, left>>

\* Faulty variant: the test in repack_without_ref_fn() is the wrong way round.
RepackCommitInverted(p) ==
  /\ pc[p] = "repackcommit"
  /\ packed' = [r \in Ref |-> IF r = ref[p] THEN cache[p][r] ELSE None]
  /\ packlock' = Free
  /\ Goto(p, "unlog")
  /\ UNCHANGED <<loose, reflock, reflog, op, act, ref, cache, got, isp, ret, todo, scan,
                 scanloose, left>>

\* p's copy of packed-refs, without the ref, becomes packed-refs.
RepackCommit(p) ==
  /\ pc[p] = "repackcommit"
  /\ packed' = [cache[p] EXCEPT ![ref[p]] = None]
  /\ packlock' = Free
  /\ Goto(p, "unlog")
  /\ UNCHANGED <<loose, reflock, reflog, op, act, ref, cache, got, isp, ret, todo, scan,
                 scanloose, left>>

\* commit_lock_file() fails: an error, and packed-refs.lock stays until p ends.
RepackCommitFails(p) ==
  /\ pc[p] = "repackcommit" /\ "commit" \in Faults
  /\ ret' = [ret EXCEPT ![p] = TRUE]
  /\ Goto(p, "unlog")
  /\ UNCHANGED <<repo, op, act, ref, cache, got, isp, todo, scan, scanloose, left>>

\* write_or_die()
RepackDies(p) == pc[p] = "repackcommit" /\ "write" \in Faults /\ End(p)

\* The log goes, p forgets its copy (invalidate_ref_cache) and unlocks.
Unlog(p) ==
  /\ pc[p] = "unlog"
  /\ reflog' = [reflog EXCEPT ![ref[p]] = << >>]
  /\ cache' = [cache EXCEPT ![p] = NoCache]
  /\ Unlock(p)
  /\ Goto(p, IF ret[p] THEN "fail" ELSE "ok")
  /\ UNCHANGED <<loose, packed, packlock, op, act, ref, got, isp, ret, todo, scan, scanloose,
                 left>>

-----------------------------------------------------------------------------
(* do_for_each_ref(), pack_refs() and prune_refs() *)

\* pack_refs() locks packed-refs with LOCK_DIE_ON_ERROR before it looks.
LockPacked(p) ==
  /\ pc[p] = "packlock" /\ packlock = Free
  /\ packlock' = p
  /\ Goto(p, "load")
  /\ UNCHANGED <<loose, packed, reflock, reflog, op, act, ref, cache, got, isp, ret, todo,
                 scan, scanloose, left>>

PackedTaken(p) == pc[p] = "packlock" /\ packlock # Free /\ End(p)

\* The packed refs are read first, then the loose ones.
LoadPacked(p) ==
  /\ pc[p] = "load"
  /\ cache' = [cache EXCEPT ![p] = PackedRefs(p)]
  /\ todo' = [todo EXCEPT ![p] = Ref]
  /\ scan' = [scan EXCEPT ![p] = [r \in Ref |-> None]]
  /\ scanloose' = [scanloose EXCEPT ![p] = {}]
  /\ Goto(p, "next")
  /\ UNCHANGED <<repo, op, act, ref, got, isp, ret, left>>

NextRef(p) ==
  /\ pc[p] = "next"
  /\ \E r \in todo[p] : /\ ref' = [ref EXCEPT ![p] = r]
                        /\ todo' = [todo EXCEPT ![p] = @ \ {r}]
  /\ Goto(p, "lstat")
  /\ UNCHANGED <<repo, op, act, cache, got, isp, ret, scan, scanloose, left>>

Finish(p) ==
  /\ pc[p] = "next" /\ todo[p] = {}
  /\ Goto(p, IF op[p].kind = "pack" /\ act[p] = "scan" THEN "packcommit" ELSE "ok")
  /\ UNCHANGED <<repo, op, act, ref, cache, got, isp, ret, todo, scan, scanloose, left>>

\* Faulty variant: without --all, only tags are kept.
KeptTags(p) == {r \in Ref : scan[p][r] # None /\ (op[p].all \/ r \in Tags)}

\* handle_one_ref(): which refs go to the new packed-refs ...
Kept(p) == {r \in Ref : /\ scan[p][r] # None
                        /\ op[p].all \/ r \in Tags \/ r \notin scanloose[p]}

\* ... and which loose files are no longer needed then.
Prunable(p) == IF op[p].prune THEN Kept(p) \cap scanloose[p] ELSE {}

PackCommit(p) ==
  /\ pc[p] = "packcommit"
  /\ packed' = [r \in Ref |-> IF r \in Kept(p) THEN scan[p][r] ELSE None]
  /\ packlock' = Free
  /\ act' = [act EXCEPT ![p] = "prune"]
  /\ todo' = [todo EXCEPT ![p] = Prunable(p)]
  /\ Goto(p, "next")
  /\ UNCHANGED <<loose, reflock, reflog, op, ref, cache, got, isp, ret, scan, scanloose, left>>

\* The new file cannot be written, or not renamed: die().
PackFails(p) == pc[p] = "packcommit" /\ {"write", "commit"} \cap Faults # {} /\ End(p)

-----------------------------------------------------------------------------

Step(p) ==
  \/ Lstat(p) \/ Open(p) \/ LookupPacked(p)
  \/ LockRef(p) \/ LockTaken(p) \/ Verify(p)
  \/ AlreadyThere(p) \/ Write(p) \/ WriteFails(p) \/ Log(p) \/ LogFails(p)
  \/ Commit(p) \/ CommitFails(p)
  \/ Unlink(p) \/ UnlinkFails(p) \/ PruneUnlock(p)
  \/ Repack(p) \/ RepackLock(p) \/ RepackCommit(p) \/ RepackCommitFails(p) \/ RepackDies(p)
  \/ Unlog(p)
  \/ LockPacked(p) \/ PackedTaken(p) \/ LoadPacked(p) \/ NextRef(p) \/ Finish(p)
  \/ PackCommit(p) \/ PackFails(p)

Next == \/ \E p \in Proc : Start(p) \/ Step(p) \/ Exit(p) \/ Kill(p)
        \/ RemoveStaleLocks

Spec == Init /\ [][Next]_vars

\* A running git command is scheduled; nobody has to start one, to kill one or
\* to clean up.
FairSpec == Spec /\ \A p \in Proc : WF_vars(Step(p))

-----------------------------------------------------------------------------
(* Properties.  Each step of a process changes its pc. *)

Moves(p) == pc'[p] # pc[p]

\* Somebody who resolves the refs, with nobody else about, sees them as atomic
\* registers: lock_ref_sha1_basic, verify_lock and commit_ref together are one
\* compare-and-swap, whatever fails or is killed on the way.
InitRefValue == [r \in Ref |-> IF InitLoose[r] # None THEN InitLoose[r] ELSE InitPacked[r]]
Requests == {[ref |-> o.ref, old |-> o.old, new |-> o.new] :
               o \in {m \in UNION {Menu[p] : p \in Proc} : m.kind = "update"}}
Atomic == INSTANCE AtomicRefs WITH value <- [r \in Ref |-> RefValue(r)],
                                   InitValue <- InitRefValue
ImplementsAtomicRefs == Atomic!Spec

\* An update that names the old value replaces that value and no other
\* (git-update-ref: "only if its current value is <oldvalue>").
CasAtomic == [][\A p \in Proc : pc[p] = "commit" /\ pc'[p] = "ok"
                                  => op[p].old \in {RefValue(ref[p]), Any}]_vars

\* The log of a ref is a chain: each line starts from the value that the one
\* before it ended at ("the value previously stored in <ref>"), or from where
\* that one started, if its commit failed or was cut off by a kill.  And no value
\* gets into a logged ref past its log, because write_ref_sha1() logs before it
\* commits.
LogChain ==
  \A r \in Ref :
    /\ \A i \in 2..Len(reflog[r]) :
         reflog[r][i].old \in {reflog[r][i - 1].new, reflog[r][i - 1].old}
    /\ r \in LogRefs /\ RefValue(r) # InitRefValue[r]
         => \E i \in DOMAIN reflog[r] : reflog[r][i].new = RefValue(r)

\* for_each_ref() does not miss a ref that exists (git-pack-refs: "When a ref is
\* missing from the traditional `$GIT_DIR/refs` hierarchy, it is looked up in
\* this file and used if found").
ListFindsRefs == \A p \in Proc : op[p].kind = "list" /\ pc[p] = "ok"
                   => \A r \in Ref : scan[p][r] = None => RefValue(r) = None

\* No command waits for another, not even for one that was killed with locks.
OpsReturn == \A p \in Proc : pc[p] \notin Between ~> pc[p] \in Between
=============================================================================
