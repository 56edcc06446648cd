----------------------------- MODULE LockFile -----------------------------
(***************************************************************************)
(* lockfile.c: replacing a file X by creating X.lock with O_EXCL, writing  *)
(* it and renaming it over X.  Each process has one struct lock_file per   *)
(* path (git's are static or never freed, because the exit handler walks   *)
(* them), remembers those it used on a list, and removes what is left of   *)
(* them from an atexit handler and from a signal handler.  A struct that   *)
(* is used again is still on the list.                                     *)
(*                                                                         *)
(* A step is what runs between two points where another process, or a      *)
(* signal, can see the difference: the system calls on X.lock and the      *)
(* stores to lk->filename and to the list.                                 *)
(***************************************************************************)
EXTENDS Naturals, FiniteSets

CONSTANTS Proc,       \* process ids
          First,      \* the processes that exist at the start; fork makes the others
          Path,       \* the files replaced under a lock
          Free,       \* no X.lock exists
          Signals,    \* where SIGINT, SIGTERM, ... may arrive: values of pc
          PermFails,  \* where a caller goes on when adjust_shared_perm() fails
          MaxUse      \* bound: how often the locks are taken in all

ASSUME LockFileAssumption ==
  /\ First \subseteq Proc
  /\ Free \notin Proc
  /\ Signals \subseteq {"run", "dying", "open", "refused", "register", "renamed", "unlinked"}
  /\ PermFails \subseteq {"run", "dying"}
  /\ MaxUse \in Nat

VARIABLES
  version,    \* version[x]: the content of x, numbered by the updates it contains
  lockf,      \* lockf[x]: the process that created the X.lock on disk, or Free
  filename,   \* filename[p]: paths x whose struct has a non-empty lk->filename
  owner,      \* owner[p][x]: lk->owner of p's struct for x
  listed,     \* listed[p]: paths whose struct is on p's lock_file_list
  pc,         \* where p is; "run" is in the caller, "dying" in its die()
  cur,        \* cur[p]: the path the call p is in was given
  holds,      \* holds[p]: paths that p, its caller, may write now
  base,       \* base[p][x]: the version p read after it locked x
  uses        \* locks taken so far (bound)

vars == <<version, lockf, filename, owner, listed, pc, cur, holds, base, uses>>

Dead == {"exited", "signalled", "killed"}
PC == Dead \cup {"unborn", "run", "dying", "open", "refused", "register", "renamed", "unlinked"}

Alive(p) == pc[p] \notin Dead \cup {"unborn"}

TypeOK ==
  /\ version \in [Path -> Nat]
  /\ lockf \in [Path -> Proc \cup {Free}]
  /\ filename \in [Proc -> SUBSET Path]
  /\ owner \in [Proc -> [Path -> Proc]]
  /\ listed \in [Proc -> SUBSET Path]
  /\ pc \in [Proc -> PC]
  /\ cur \in [Proc -> Path]
  /\ holds \in [Proc -> SUBSET Path]
  /\ base \in [Proc -> [Path -> Nat]]
  /\ uses \in Nat

Init ==
  /\ version = [x \in Path |-> 0]
  /\ lockf = [x \in Path |-> Free]
  /\ filename = [p \in Proc |-> {}]
  /\ owner = [p \in Proc |-> [x \in Path |-> p]]
  /\ listed = [p \in Proc |-> {}]
  /\ pc = [p \in Proc |-> IF p \in First THEN "run" ELSE "unborn"]
  /\ \E x \in Path : cur = [p \in Proc |-> x]
  /\ holds = [p \in Proc |-> {}]
  /\ base = [p \in Proc |-> [x \in Path |-> 0]]
  /\ uses = 0

-----------------------------------------------------------------------------
(* lock_file() *)

\* The caller asks for x, which as far as it knows it has not locked; the name
\* is stored.
LockName(p, x) ==
  /\ pc[p] = "run" /\ x \notin holds[p] /\ uses < MaxUse
  /\ filename' = [filename EXCEPT ![p] = @ \cup {x}]
  /\ cur' = [cur EXCEPT ![p] = x]
  /\ pc' = [pc EXCEPT ![p] = "open"]
  /\ uses' = uses + 1
  /\ UNCHANGED <<version, lockf, owner, listed, holds, base>>

\* Faulty variant: open() without O_EXCL.
LockOpenNoExcl(p) ==
  /\ pc[p] = "open"
  /\ lockf' = [lockf EXCEPT ![cur[p]] = p]
  /\ pc' = [pc EXCEPT ![p] = "register"]
  /\ UNCHANGED <<version, filename, owner, listed, cur, holds, base, uses>>

\* open(O_CREAT | O_EXCL)
LockOpen(p) ==
  /\ pc[p] = "open" /\ lockf[cur[p]] = Free
  /\ lockf' = [lockf EXCEPT ![cur[p]] = p]
  /\ pc' = [pc EXCEPT ![p] = "register"]
  /\ UNCHANGED <<version, filename, owner, listed, cur, holds, base, uses>>

\* X.lock is there: open() fails with EEXIST ...
LockExists(p) ==
  /\ pc[p] = "open" /\ lockf[cur[p]] # Free
  /\ pc' = [pc EXCEPT ![p] = "refused"]
  /\ UNCHANGED <<version, lockf, filename, owner, listed, cur, holds, base, uses>>

\* ... and the name is forgotten.
LockRefused(p) ==
  /\ pc[p] = "refused"
  /\ filename' = [filename EXCEPT ![p] = @ \ {cur[p]}]
  /\ pc' = [pc EXCEPT ![p] = "run"]
  /\ UNCHANGED <<version, lockf, owner, listed, cur, holds, base, uses>>

\* Faulty variant: the struct does not get on the list.
LockRegisterNotListed(p) ==
  /\ pc[p] = "register"
  /\ owner' = [owner EXCEPT ![p][cur[p]] = p]
  /\ holds' = [holds EXCEPT ![p] = @ \cup {cur[p]}]
  /\ base' = [base EXCEPT ![p][cur[p]] = version[cur[p]]]
  /\ pc' = [pc EXCEPT ![p] = "run"]
  /\ UNCHANGED <<version, lockf, filename, listed, cur, uses>>

\* The struct is put on the list.  Then adjust_shared_perm() may fail: the
\* caller is told that it has no lock and dies (LOCK_DIE_ON_ERROR) or goes on
\* without it (repack_without_ref); X.lock stays until the process ends.
LockRegister(p) ==
  /\ pc[p] = "register"
  /\ owner' = [owner EXCEPT ![p][cur[p]] = p]
  /\ listed' = [listed EXCEPT ![p] = @ \cup {cur[p]}]
  /\ \/ /\ holds' = [holds EXCEPT ![p] = @ \cup {cur[p]}]
        /\ base' = [base EXCEPT ![p][cur[p]] = version[cur[p]]]
        /\ pc' = [pc EXCEPT ![p] = "run"]
     \/ /\ \E next \in PermFails : pc' = [pc EXCEPT ![p] = next]
        /\ UNCHANGED <<holds, base>>
  /\ UNCHANGED <<version, lockf, filename, cur, uses>>

-----------------------------------------------------------------------------
(* commit_lock_file() and rollback_lock_file().  A commit that fails (close *)
(* or rename returns an error) changes nothing that is modelled: its caller *)
(* rolls back or ends.                                                      *)

CommitRename(p, x) ==
  /\ pc[p] = "run" /\ x \in holds[p] /\ lockf[x] # Free
  /\ version' = [version EXCEPT ![x] = base[lockf[x]][x] + 1]
  /\ lockf' = [lockf EXCEPT ![x] = Free]
  /\ holds' = [holds EXCEPT ![p] = @ \ {x}]
  /\ cur' = [cur EXCEPT ![p] = x]
  /\ pc' = [pc EXCEPT ![p] = "renamed"]
  /\ UNCHANGED <<filename, owner, listed, base, uses>>

RollbackUnlink(p, x) ==
  /\ pc[p] = "run" /\ x \in holds[p]
  /\ lockf' = [lockf EXCEPT ![x] = Free]
  /\ holds' = [holds EXCEPT ![p] = @ \ {x}]
  /\ cur' = [cur EXCEPT ![p] = x]
  /\ pc' = [pc EXCEPT ![p] = "unlinked"]
  /\ UNCHANGED <<version, filename, owner, listed, base, uses>>

\* lk->filename[0] = 0, the last store of both
ClearName(p) ==
  /\ pc[p] \in {"renamed", "unlinked"}
  /\ filename' = [filename EXCEPT ![p] = @ \ {cur[p]}]
  /\ pc' = [pc EXCEPT ![p] = "run"]
  /\ UNCHANGED <<version, lockf, owner, listed, cur, holds, base, uses>>

-----------------------------------------------------------------------------
(* The ends of a process *)

\* Faulty variant: without the comparison of lk->owner with getpid().
RemovedAnyOwner(p) == listed[p] \cap filename[p]

\* The files remove_lock_file() unlinks: a forked child has inherited the
\* list, but the locks on it belong to its parent.
Removed(p) == {x \in listed[p] : owner[p][x] = p /\ x \in filename[p]}

RemoveLockFile(p, how) ==
  /\ lockf' = [x \in Path |-> IF x \in Removed(p) THEN Free ELSE lockf[x]]
  /\ holds' = [holds EXCEPT ![p] = {}]
  /\ pc' = [pc EXCEPT ![p] = how]
  /\ UNCHANGED <<version, filename, owner, listed, cur, base, uses>>

\* exit() or die() in the caller; atexit() runs remove_lock_file.
Exit(p) == pc[p] \in {"run", "dying"} /\ RemoveLockFile(p, "exited")

\* A signal that git handles.  Before the first lock is registered the default
\* action ends the process; the list is empty then.
Signal(p) == pc[p] \in Signals /\ RemoveLockFile(p, "signalled")

\* SIGKILL or a machine crash: nobody cleans up.
Kill(p) ==
  /\ Alive(p)
  /\ pc' = [pc EXCEPT ![p] = "killed"]
  /\ holds' = [holds EXCEPT ![p] = {}]
  /\ UNCHANGED <<version, lockf, filename, owner, listed, cur, base, uses>>

\* "Make sure no other git process is running and remove the file manually"
RemoveManually(x) ==
  /\ lockf[x] # Free /\ pc[lockf[x]] \in Dead
  /\ lockf' = [lockf EXCEPT ![x] = Free]
  /\ UNCHANGED <<version, filename, owner, listed, pc, cur, holds, base, uses>>

\* fork() in run_command and start_async: the child starts with a copy of the
\* parent's structs and list.
Fork(p, c) ==
  /\ pc[p] = "run" /\ pc[c] = "unborn"
  /\ filename' = [filename EXCEPT ![c] = filename[p]]
  /\ owner' = [owner EXCEPT ![c] = owner[p]]
  /\ listed' = [listed EXCEPT ![c] = listed[p]]
  /\ pc' = [pc EXCEPT ![c] = "run"]
  /\ UNCHANGED <<version, lockf, cur, holds, base, uses>>

Step(p) ==
  \/ \E x \in Path : LockName(p, x) \/ CommitRename(p, x) \/ RollbackUnlink(p, x)
  \/ LockOpen(p) \/ LockExists(p) \/ LockRefused(p) \/ LockRegister(p)
  \/ ClearName(p) \/ Exit(p)

Next ==
  \/ \E p \in Proc : \/ Step(p) \/ Signal(p) \/ Kill(p)
                     \/ \E c \in Proc : Fork(p, c)
  \/ \E x \in Path : RemoveManually(x)

Spec == Init /\ [][Next]_vars
-----------------------------------------------------------------------------
(* Properties *)

\* Mutual exclusion: whoever was told that it has the lock on x is the process
\* that created the X.lock on disk, so nobody else can be told so.  It rests on
\* O_EXCL and on remove_lock_file() sparing what another process owns, be it
\* the parent a child was forked from.
HolderOwnsLock == \A p \in Proc : \A x \in holds[p] : lockf[x] = p

\* A process that ends by exit(), die() or a signal leaves no lock behind
\* (api-lockfile.txt: "Automatic cruft removal", "Outstanding lockfiles are also
\* removed when the program dies on a signal").
NoCruft == \A x \in Path : lockf[x] # Free => pc[lockf[x]] \notin {"exited", "signalled"}

\* The callers of the API are in critical sections of the files they lock, and
\* each commit builds on the version that was current: no update is lost.
Abs == INSTANCE AbsLock WITH inside <- holds
ImplementsAbsLock == Abs!Spec
=============================================================================
