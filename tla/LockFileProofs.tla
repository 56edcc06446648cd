-------------------------- MODULE LockFileProofs --------------------------
(***************************************************************************)
(* As long as signals spare the stores to lk->filename, for every number   *)
(* of processes, forks, files and crashes: the lock excludes, the callers  *)
(* of lockfile.c behave like AbsLock, and processes that end by themselves *)
(* leave no lock behind.                                                   *)
(***************************************************************************)
EXTENDS LockFile, Integers, TLAPS

\* Signals arrive outside the calls, or between open() and their return.
HarmlessSignals == Signals \subseteq {"run", "dying", "register"}

\* Between lk->filename's store and its outcome, and between X.lock's end and
\* the store that forgets it, the struct of cur[p] names a lock p does not have.
InWindow(p, x) == cur[p] = x /\ pc[p] \in {"open", "refused", "renamed", "unlinked"}

\* A lock that has been created but not yet registered belongs to its creator.
Registering == \A p \in Proc : pc[p] = "register" => lockf[cur[p]] = p

\* What the exit handler of p would unlink is p's.
RemovesOwn == \A p \in Proc, x \in Path :
                /\ x \in listed[p] /\ owner[p][x] = p /\ x \in filename[p]
                /\ Alive(p) /\ ~InWindow(p, x)
                => lockf[x] = p

\* Only a process that exists holds locks, and not the one it is asking for.
HoldersAlive == \A p \in Proc : /\ holds[p] # {} => Alive(p)
                                /\ pc[p] \in {"open", "register"} => cur[p] \notin holds[p]

\* A pid that is not in use owns no inherited struct.
UnbornOwnNothing == \A p, c \in Proc : \A x \in Path :
                       pc[c] = "unborn" /\ owner[p][x] = c => p = c

\* What a process read under its lock is still the current version.
BaseCurrent == \A p \in Proc : \A x \in holds[p] : base[p][x] = version[x]

IInv == /\ TypeOK /\ HolderOwnsLock /\ Registering /\ RemovesOwn
        /\ HoldersAlive /\ UnbornOwnNothing /\ BaseCurrent

USE LockFileAssumption

\* The initial states satisfy the inductive invariant.
LEMMA InitIInv == Init => IInv
  BY DEF Init, IInv, TypeOK, HolderOwnsLock, Registering, RemovesOwn, HoldersAlive,
         UnbornOwnNothing, BaseCurrent, Removed, Alive, InWindow, PC, Dead

\* Every step of a process, of fork, of a kill and of the user keeps it.
LEMMA NextIInv == ASSUME HarmlessSignals, IInv, [Next]_vars PROVE IInv'
<1> USE DEF IInv, TypeOK
<1>1. ASSUME NEW p \in Proc, NEW x \in Path, LockName(p, x) PROVE IInv'
  <2>1. TypeOK'
    <3>1. filename' \in [Proc -> SUBSET Path]
      BY <1>1 DEF LockName
    <3>2. cur' \in [Proc -> Path] /\ uses' \in Nat
      BY <1>1 DEF LockName
    <3>3. pc' \in [Proc -> PC]
      BY <1>1 DEF LockName, PC, Dead
    <3> QED
      BY <1>1, <3>1, <3>2, <3>3 DEF LockName
  <2>2. HolderOwnsLock'
    BY <1>1 DEF LockName, HolderOwnsLock
  <2>3. Registering'
    BY <1>1 DEF LockName, Registering
  <2>4. RemovesOwn'
    <3>1. SUFFICES ASSUME NEW q \in Proc, NEW y \in Path,
                          y \in listed'[q], owner'[q][y] = q, y \in filename'[q],
                          Alive(q)', ~InWindow(q, y)'
                   PROVE  lockf'[y] = q
      BY DEF RemovesOwn
    <3> QED
      BY <1>1, <3>1 DEF LockName, RemovesOwn, Alive, InWindow, Dead
  <2>5. HoldersAlive'
    BY <1>1 DEF LockName, HoldersAlive, Alive, Dead
  <2>6. UnbornOwnNothing'
    BY <1>1 DEF LockName, UnbornOwnNothing, Alive, Dead
  <2>7. BaseCurrent'
    BY <1>1 DEF LockName, BaseCurrent, HolderOwnsLock, HoldersAlive, Alive, Dead
  <2> QED
    BY <2>1, <2>2, <2>3, <2>4, <2>5, <2>6, <2>7
<1>2. ASSUME NEW p \in Proc, LockOpen(p) PROVE IInv'
  <2>1. TypeOK'
    BY <1>2 DEF LockOpen, TypeOK, PC, Dead
  <2>2. HolderOwnsLock'
    BY <1>2 DEF LockOpen, HolderOwnsLock
  <2>3. Registering'
    BY <1>2 DEF LockOpen, Registering
  <2>4. RemovesOwn'
    <3>1. SUFFICES ASSUME NEW q \in Proc, NEW y \in Path,
                          y \in listed'[q], owner'[q][y] = q, y \in filename'[q],
                          Alive(q)', ~InWindow(q, y)'
                   PROVE  lockf'[y] = q
      BY DEF RemovesOwn
    <3> QED
      BY <1>2, <3>1 DEF LockOpen, RemovesOwn, Alive, InWindow, Dead
  <2>5. HoldersAlive'
    BY <1>2 DEF LockOpen, HoldersAlive, Alive, Dead
  <2>6. UnbornOwnNothing'
    BY <1>2 DEF LockOpen, UnbornOwnNothing, Alive, Dead
  <2>7. BaseCurrent'
    BY <1>2 DEF LockOpen, BaseCurrent, HolderOwnsLock, HoldersAlive, Alive, Dead
  <2> QED
    BY <2>1, <2>2, <2>3, <2>4, <2>5, <2>6, <2>7
<1>3. ASSUME NEW p \in Proc, LockRefused(p) PROVE IInv'
  <2>1. TypeOK'
    BY <1>3 DEF LockRefused, TypeOK, PC, Dead
  <2>2. HolderOwnsLock'
    BY <1>3 DEF LockRefused, HolderOwnsLock
  <2>3. Registering'
    BY <1>3 DEF LockRefused, Registering
  <2>4. RemovesOwn'
    <3>1. SUFFICES ASSUME NEW q \in Proc, NEW y \in Path,
                          y \in listed'[q], owner'[q][y] = q, y \in filename'[q],
                          Alive(q)', ~InWindow(q, y)'
                   PROVE  lockf'[y] = q
      BY DEF RemovesOwn
    <3> QED
      BY <1>3, <3>1 DEF LockRefused, RemovesOwn, Alive, InWindow, Dead
  <2>5. HoldersAlive'
    BY <1>3 DEF LockRefused, HoldersAlive, Alive, Dead
  <2>6. UnbornOwnNothing'
    BY <1>3 DEF LockRefused, UnbornOwnNothing, Alive, Dead
  <2>7. BaseCurrent'
    BY <1>3 DEF LockRefused, BaseCurrent, HolderOwnsLock, HoldersAlive, Alive, Dead
  <2> QED
    BY <2>1, <2>2, <2>3, <2>4, <2>5, <2>6, <2>7
<1>13. ASSUME NEW p \in Proc, LockExists(p) PROVE IInv'
  <2>1. TypeOK'
    BY <1>13 DEF LockExists, TypeOK, PC, Dead
  <2>2. HolderOwnsLock'
    BY <1>13 DEF LockExists, HolderOwnsLock
  <2>3. Registering'
    BY <1>13 DEF LockExists, Registering
  <2>4. RemovesOwn'
    <3>1. SUFFICES ASSUME NEW q \in Proc, NEW y \in Path,
                          y \in listed'[q], owner'[q][y] = q, y \in filename'[q],
                          Alive(q)', ~InWindow(q, y)'
                   PROVE  lockf'[y] = q
      BY DEF RemovesOwn
    <3> QED
      BY <1>13, <3>1 DEF LockExists, RemovesOwn, Alive, InWindow, Dead
  <2>5. HoldersAlive'
    BY <1>13 DEF LockExists, HoldersAlive, Alive, Dead
  <2>6. UnbornOwnNothing'
    BY <1>13 DEF LockExists, UnbornOwnNothing, Alive, Dead
  <2>7. BaseCurrent'
    BY <1>13 DEF LockExists, BaseCurrent, HolderOwnsLock, HoldersAlive, Alive, Dead
  <2> QED
    BY <2>1, <2>2, <2>3, <2>4, <2>5, <2>6, <2>7
<1>4. ASSUME NEW p \in Proc, LockRegister(p) PROVE IInv'
  <2> DEFINE x == cur[p]
  <2>a. x \in Path /\ lockf[x] = p /\ x \notin holds[p]
    BY <1>4 DEF LockRegister, Registering, HoldersAlive
  <2>b. /\ owner' = [owner EXCEPT ![p] = [owner[p] EXCEPT ![x] = p]]
        /\ listed' = [listed EXCEPT ![p] = listed[p] \cup {x}]
        /\ \E next \in {"run", "dying"} : pc' = [pc EXCEPT ![p] = next]
        /\ UNCHANGED <<version, lockf, filename, cur, uses>>
    BY <1>4 DEF LockRegister
  <2>c. \/ /\ holds' = [holds EXCEPT ![p] = holds[p] \cup {x}]
           /\ base' = [base EXCEPT ![p] = [base[p] EXCEPT ![x] = version[x]]]
        \/ UNCHANGED <<holds, base>>
    BY <1>4 DEF LockRegister
  <2>d. pc'[p] \in {"run", "dying"} /\ \A q \in Proc : q # p => pc'[q] = pc[q]
    BY <2>b
  <2> HIDE DEF x
  <2>1. TypeOK'
    <3>1. owner' \in [Proc -> [Path -> Proc]]
      BY <2>a, <2>b
    <3>2. listed' \in [Proc -> SUBSET Path]
      BY <2>a, <2>b
    <3>3. pc' \in [Proc -> PC]
      BY <2>b DEF PC, Dead
    <3>4. holds' \in [Proc -> SUBSET Path]
      <4>1. holds[p] \cup {x} \in SUBSET Path
        BY <2>a
      <4>2. CASE holds' = holds
        BY <4>2
      <4>3. CASE holds' = [holds EXCEPT ![p] = holds[p] \cup {x}]
        BY <4>1, <4>3
      <4> QED
        BY <2>c, <4>2, <4>3
    <3>5. base' \in [Proc -> [Path -> Nat]]
      <4>1. [base[p] EXCEPT ![x] = version[x]] \in [Path -> Nat]
        BY <2>a
      <4>2. CASE base' = base
        BY <4>2
      <4>3. CASE base' = [base EXCEPT ![p] = [base[p] EXCEPT ![x] = version[x]]]
        BY <4>1, <4>3
      <4> QED
        BY <2>c, <4>2, <4>3
    <3> QED
      BY <2>b, <3>1, <3>2, <3>3, <3>4, <3>5
  <2>2. HolderOwnsLock'
    <3>1. CASE UNCHANGED holds
      BY <2>b, <3>1 DEF HolderOwnsLock
    <3>2. CASE holds' = [holds EXCEPT ![p] = holds[p] \cup {x}]
      BY <2>a, <2>b, <3>2 DEF HolderOwnsLock
    <3> QED
      BY <2>c, <3>1, <3>2
  <2>3. Registering'
    BY <2>b DEF Registering
  <2>4. RemovesOwn'
    <3>1. SUFFICES ASSUME NEW q \in Proc, NEW y \in Path,
                          y \in listed'[q], owner'[q][y] = q, y \in filename'[q],
                          Alive(q)', ~InWindow(q, y)'
                   PROVE  lockf'[y] = q
      BY DEF RemovesOwn
    <3>2. CASE q = p /\ y = x
      BY <2>a, <2>b, <3>2
    <3>3. CASE ~(q = p /\ y = x)
      <4>1. y \in listed[q] /\ owner[q][y] = q /\ y \in filename[q]
        <5>1. CASE q # p
          BY <2>b, <3>1, <5>1
        <5>2. CASE q = p
          <6>1. y # x
            BY <3>3, <5>2
          <6>2. owner'[p][y] = owner[p][y] /\ listed'[p] = listed[p] \cup {x}
            BY <2>a, <2>b, <6>1
          <6> QED
            BY <2>b, <3>1, <5>2, <6>1, <6>2
        <5> QED
          BY <5>1, <5>2
      <4>2. Alive(q) /\ ~InWindow(q, y)
        BY <1>4, <2>b, <3>1 DEF LockRegister, Alive, InWindow, Dead
      <4> QED
        BY <2>b, <4>1, <4>2 DEF RemovesOwn
    <3> QED
      BY <3>2, <3>3
  <2>5. HoldersAlive'
    BY <2>b, <2>c DEF HoldersAlive, Alive, Dead
  <2>6. UnbornOwnNothing'
    <3>1. SUFFICES ASSUME NEW q \in Proc, NEW c \in Proc, NEW y \in Path,
                          pc'[c] = "unborn", owner'[q][y] = c
                   PROVE  q = c
      BY DEF UnbornOwnNothing
    <3>2. pc[c] = "unborn" /\ c # p
      BY <2>d, <3>1
    <3>3. owner[q][y] = c
      BY <2>a, <2>b, <3>1, <3>2
    <3> QED
      BY <3>2, <3>3 DEF UnbornOwnNothing
  <2>7. BaseCurrent'
    <3>1. CASE UNCHANGED <<holds, base>>
      BY <2>b, <3>1 DEF BaseCurrent
    <3>2. CASE /\ holds' = [holds EXCEPT ![p] = holds[p] \cup {x}]
               /\ base' = [base EXCEPT ![p] = [base[p] EXCEPT ![x] = version[x]]]
      <4>1. SUFFICES ASSUME NEW q \in Proc, NEW y \in holds'[q] PROVE base'[q][y] = version[y]
        BY <2>b DEF BaseCurrent
      <4>2. CASE q = p /\ y = x
        BY <2>a, <3>2, <4>2
      <4>3. CASE ~(q = p /\ y = x)
        <5>1. y \in holds[q] /\ y \in Path
          BY <2>a, <3>2, <4>1, <4>3
        <5>2. base'[q][y] = base[q][y]
          BY <2>a, <3>2, <4>3, <5>1
        <5> QED
          BY <5>1, <5>2 DEF BaseCurrent
      <4> QED
        BY <4>2, <4>3
    <3> QED
      BY <2>c, <3>1, <3>2
  <2> QED
    BY <2>1, <2>2, <2>3, <2>4, <2>5, <2>6, <2>7
<1>5. ASSUME NEW p \in Proc, NEW x \in Path, CommitRename(p, x) PROVE IInv'
  <2>1. TypeOK'
    <3>1. version' \in [Path -> Nat]
      <4>1. lockf[x] = p /\ base[p][x] \in Nat
        BY <1>5 DEF CommitRename, HolderOwnsLock
      <4>2. version' = [version EXCEPT ![x] = base[p][x] + 1]
        BY <1>5, <4>1 DEF CommitRename
      <4>3. \A n \in Nat : n + 1 \in Nat
        OBVIOUS
      <4> QED
        BY <4>1, <4>2, <4>3
    <3>2. holds' \in [Proc -> SUBSET Path]
      BY <1>5 DEF CommitRename
    <3>3. pc' \in [Proc -> PC]
      BY <1>5 DEF CommitRename, PC, Dead
    <3> QED
      BY <1>5, <3>1, <3>2, <3>3 DEF CommitRename
  <2>2. HolderOwnsLock'
    <3>1. SUFFICES ASSUME NEW q \in Proc, NEW y \in holds'[q] PROVE lockf'[y] = q
      BY DEF HolderOwnsLock
    <3>2. y \in holds[q] /\ lockf[y] = q /\ lockf[x] = p
      BY <1>5, <3>1 DEF CommitRename, HolderOwnsLock
    <3>3. y # x
      BY <1>5, <3>1, <3>2 DEF CommitRename
    <3> QED
      BY <1>5, <3>2, <3>3 DEF CommitRename
  <2>3. Registering'
    BY <1>5 DEF CommitRename, Registering, HolderOwnsLock
  <2>4. RemovesOwn'
    <3>1. SUFFICES ASSUME NEW q \in Proc, NEW y \in Path,
                          y \in listed'[q], owner'[q][y] = q, y \in filename'[q],
                          Alive(q)', ~InWindow(q, y)'
                   PROVE  lockf'[y] = q
      BY DEF RemovesOwn
    <3> QED
      <4>1. CASE q = p
        BY <1>5, <3>1, <4>1 DEF CommitRename, RemovesOwn, Alive, InWindow, Dead
      <4>2. CASE q # p
        <5>1. lockf[y] = q
          BY <1>5, <3>1, <4>2 DEF CommitRename, RemovesOwn, Alive, InWindow, Dead
        <5>2. lockf[x] = p
          BY <1>5 DEF CommitRename, HolderOwnsLock
        <5> QED
          BY <1>5, <4>2, <5>1, <5>2 DEF CommitRename
      <4> QED
        BY <4>1, <4>2
  <2>5. HoldersAlive'
    BY <1>5 DEF CommitRename, HoldersAlive, Alive, Dead
  <2>6. UnbornOwnNothing'
    BY <1>5 DEF CommitRename, UnbornOwnNothing, Alive, Dead
  <2>7. BaseCurrent'
    <3>1. SUFFICES ASSUME NEW q \in Proc, NEW y \in holds'[q] PROVE base[q][y] = version'[y]
      <4>1. UNCHANGED base
        BY <1>5 DEF CommitRename
      <4> QED
        BY <4>1 DEF BaseCurrent
    <3>2. lockf[x] = p /\ y \in holds[q] /\ lockf[y] = q
      BY <1>5, <3>1 DEF CommitRename, HolderOwnsLock
    <3>3. y # x
      BY <1>5, <3>1, <3>2 DEF CommitRename
    <3> QED
      BY <1>5, <3>2, <3>3 DEF CommitRename, BaseCurrent
  <2> QED
    BY <2>1, <2>2, <2>3, <2>4, <2>5, <2>6, <2>7
<1>6. ASSUME NEW p \in Proc, NEW x \in Path, RollbackUnlink(p, x) PROVE IInv'
  <2>1. TypeOK'
    BY <1>6 DEF RollbackUnlink, TypeOK, PC, Dead
  <2>2. HolderOwnsLock'
    <3>1. SUFFICES ASSUME NEW q \in Proc, NEW y \in holds'[q] PROVE lockf'[y] = q
      BY DEF HolderOwnsLock
    <3>2. y \in holds[q] /\ lockf[y] = q /\ lockf[x] = p
      BY <1>6, <3>1 DEF RollbackUnlink, HolderOwnsLock
    <3>3. y # x
      BY <1>6, <3>1, <3>2 DEF RollbackUnlink
    <3> QED
      BY <1>6, <3>2, <3>3 DEF RollbackUnlink
  <2>3. Registering'
    BY <1>6 DEF RollbackUnlink, Registering, HolderOwnsLock
  <2>4. RemovesOwn'
    <3>1. SUFFICES ASSUME NEW q \in Proc, NEW y \in Path,
                          y \in listed'[q], owner'[q][y] = q, y \in filename'[q],
                          Alive(q)', ~InWindow(q, y)'
                   PROVE  lockf'[y] = q
      BY DEF RemovesOwn
    <3> QED
      <4>1. CASE q = p
        BY <1>6, <3>1, <4>1 DEF RollbackUnlink, RemovesOwn, Alive, InWindow, Dead
      <4>2. CASE q # p
        <5>1. lockf[y] = q
          BY <1>6, <3>1, <4>2 DEF RollbackUnlink, RemovesOwn, Alive, InWindow, Dead
        <5>2. lockf[x] = p
          BY <1>6 DEF RollbackUnlink, HolderOwnsLock
        <5> QED
          BY <1>6, <4>2, <5>1, <5>2 DEF RollbackUnlink
      <4> QED
        BY <4>1, <4>2
  <2>5. HoldersAlive'
    BY <1>6 DEF RollbackUnlink, HoldersAlive, Alive, Dead
  <2>6. UnbornOwnNothing'
    BY <1>6 DEF RollbackUnlink, UnbornOwnNothing, Alive, Dead
  <2>7. BaseCurrent'
    BY <1>6 DEF RollbackUnlink, BaseCurrent, HolderOwnsLock, HoldersAlive, Alive, Dead
  <2> QED
    BY <2>1, <2>2, <2>3, <2>4, <2>5, <2>6, <2>7
<1>7. ASSUME NEW p \in Proc, ClearName(p) PROVE IInv'
  <2>1. TypeOK'
    BY <1>7 DEF ClearName, TypeOK, PC, Dead
  <2>2. HolderOwnsLock'
    BY <1>7 DEF ClearName, HolderOwnsLock
  <2>3. Registering'
    BY <1>7 DEF ClearName, Registering
  <2>4. RemovesOwn'
    <3>1. SUFFICES ASSUME NEW q \in Proc, NEW y \in Path,
                          y \in listed'[q], owner'[q][y] = q, y \in filename'[q],
                          Alive(q)', ~InWindow(q, y)'
                   PROVE  lockf'[y] = q
      BY DEF RemovesOwn
    <3> QED
      BY <1>7, <3>1 DEF ClearName, RemovesOwn, Alive, InWindow, Dead
  <2>5. HoldersAlive'
    BY <1>7 DEF ClearName, HoldersAlive, Alive, Dead
  <2>6. UnbornOwnNothing'
    BY <1>7 DEF ClearName, UnbornOwnNothing, Alive, Dead
  <2>7. BaseCurrent'
    BY <1>7 DEF ClearName, BaseCurrent, HolderOwnsLock, HoldersAlive, Alive, Dead
  <2> QED
    BY <2>1, <2>2, <2>3, <2>4, <2>5, <2>6, <2>7
<1>8. ASSUME NEW p \in Proc, NEW how \in {"exited", "signalled"},
             pc[p] \in {"run", "dying", "register"}, RemoveLockFile(p, how)
      PROVE  IInv'
  <2>1. TypeOK'
    BY <1>8 DEF RemoveLockFile, TypeOK, PC, Dead
  <2>a. \A y \in Removed(p) : lockf[y] = p
    BY <1>8 DEF Removed, RemovesOwn, Alive, InWindow, Dead
  <2>b. \A q \in Proc, y \in Path : q # p /\ lockf[y] = q => lockf'[y] = q
    BY <1>8, <2>a DEF RemoveLockFile
  <2>2. HolderOwnsLock'
    BY <1>8, <2>b DEF RemoveLockFile, HolderOwnsLock
  <2>3. Registering'
    <3>1. SUFFICES ASSUME NEW q \in Proc, pc'[q] = "register" PROVE lockf'[cur'[q]] = q
      BY DEF Registering
    <3>2. q # p /\ pc[q] = "register" /\ cur'[q] = cur[q]
      BY <1>8, <3>1 DEF RemoveLockFile
    <3>3. lockf[cur[q]] = q
      BY <3>2 DEF Registering
    <3> QED
      BY <2>b, <3>2, <3>3
  <2>4. RemovesOwn'
    <3>1. SUFFICES ASSUME NEW q \in Proc, NEW y \in Path,
                          y \in listed'[q], owner'[q][y] = q, y \in filename'[q],
                          Alive(q)', ~InWindow(q, y)'
                   PROVE  lockf'[y] = q
      BY DEF RemovesOwn
    <3>2. q # p /\ Alive(q) /\ ~InWindow(q, y)
      BY <1>8, <3>1 DEF RemoveLockFile, Alive, InWindow, Dead
    <3>3. lockf[y] = q
      BY <1>8, <3>1, <3>2 DEF RemoveLockFile, RemovesOwn
    <3> QED
      BY <2>b, <3>2, <3>3
  <2>5. HoldersAlive'
    BY <1>8 DEF RemoveLockFile, HoldersAlive, Alive, Dead
  <2>6. UnbornOwnNothing'
    BY <1>8 DEF RemoveLockFile, UnbornOwnNothing, Alive, Dead
  <2>7. BaseCurrent'
    BY <1>8 DEF RemoveLockFile, BaseCurrent, HolderOwnsLock, HoldersAlive, Alive, Dead
  <2> QED
    BY <2>1, <2>2, <2>3, <2>4, <2>5, <2>6, <2>7
<1>9. ASSUME NEW p \in Proc, Kill(p) PROVE IInv'
  <2>1. TypeOK'
    BY <1>9 DEF Kill, TypeOK, PC, Dead
  <2>2. HolderOwnsLock'
    BY <1>9 DEF Kill, HolderOwnsLock, Dead
  <2>3. Registering'
    BY <1>9 DEF Kill, Registering, Dead
  <2>4. RemovesOwn'
    <3>1. SUFFICES ASSUME NEW q \in Proc, NEW y \in Path,
                          y \in listed'[q], owner'[q][y] = q, y \in filename'[q],
                          Alive(q)', ~InWindow(q, y)'
                   PROVE  lockf'[y] = q
      BY DEF RemovesOwn
    <3> QED
      BY <1>9, <3>1 DEF Kill, RemovesOwn, Alive, InWindow, Dead
  <2>5. HoldersAlive'
    BY <1>9 DEF Kill, HoldersAlive, Alive, Dead
  <2>6. UnbornOwnNothing'
    BY <1>9 DEF Kill, UnbornOwnNothing, Alive, Dead
  <2>7. BaseCurrent'
    BY <1>9 DEF Kill, BaseCurrent, HolderOwnsLock, HoldersAlive, Alive, Dead
  <2> QED
    BY <2>1, <2>2, <2>3, <2>4, <2>5, <2>6, <2>7
<1>10. ASSUME NEW p \in Proc, NEW c \in Proc, Fork(p, c) PROVE IInv'
  <2>1. TypeOK'
    BY <1>10 DEF Fork, TypeOK, PC, Dead
  <2>2. HolderOwnsLock'
    BY <1>10 DEF Fork, HolderOwnsLock
  <2>3. Registering'
    BY <1>10 DEF Fork, Registering
  <2>4. RemovesOwn'
    <3>1. SUFFICES ASSUME NEW q \in Proc, NEW y \in Path,
                          y \in listed'[q], owner'[q][y] = q, y \in filename'[q],
                          Alive(q)', ~InWindow(q, y)'
                   PROVE  lockf'[y] = q
      BY DEF RemovesOwn
    <3> QED
      <4>1. q # c
        BY <1>10, <3>1 DEF Fork, UnbornOwnNothing
      <4> QED
        BY <1>10, <3>1, <4>1 DEF Fork, RemovesOwn, Alive, InWindow, Dead
  <2>5. HoldersAlive'
    BY <1>10 DEF Fork, HoldersAlive, Alive, Dead
  <2>6. UnbornOwnNothing'
    BY <1>10 DEF Fork, UnbornOwnNothing, Alive, Dead
  <2>7. BaseCurrent'
    BY <1>10 DEF Fork, BaseCurrent, HolderOwnsLock, HoldersAlive, Alive, Dead
  <2> QED
    BY <2>1, <2>2, <2>3, <2>4, <2>5, <2>6, <2>7
<1>11. ASSUME NEW x \in Path, RemoveManually(x) PROVE IInv'
  <2>1. TypeOK'
    BY <1>11 DEF RemoveManually, TypeOK, PC, Dead
  <2>2. HolderOwnsLock'
    BY <1>11 DEF RemoveManually, HolderOwnsLock, HoldersAlive, Alive, Dead
  <2>3. Registering'
    BY <1>11 DEF RemoveManually, Registering, Dead
  <2>4. RemovesOwn'
    <3>1. SUFFICES ASSUME NEW q \in Proc, NEW y \in Path,
                          y \in listed'[q], owner'[q][y] = q, y \in filename'[q],
                          Alive(q)', ~InWindow(q, y)'
                   PROVE  lockf'[y] = q
      BY DEF RemovesOwn
    <3> QED
      BY <1>11, <3>1 DEF RemoveManually, RemovesOwn, Alive, InWindow, Dead
  <2>5. HoldersAlive'
    BY <1>11 DEF RemoveManually, HoldersAlive, Alive, Dead
  <2>6. UnbornOwnNothing'
    BY <1>11 DEF RemoveManually, UnbornOwnNothing, Alive, Dead
  <2>7. BaseCurrent'
    BY <1>11 DEF RemoveManually, BaseCurrent, HolderOwnsLock, HoldersAlive, Alive, Dead
  <2> QED
    BY <2>1, <2>2, <2>3, <2>4, <2>5, <2>6, <2>7
<1>12. CASE UNCHANGED vars
  BY <1>12 DEF vars, HolderOwnsLock, Registering, RemovesOwn, HoldersAlive, UnbornOwnNothing,
               BaseCurrent, Removed, Alive, InWindow
<1> QED
  BY <1>1, <1>2, <1>3, <1>4, <1>5, <1>6, <1>7, <1>8, <1>9, <1>10, <1>11, <1>12, <1>13
     DEF Next, Step, Exit, Signal, HarmlessSignals

\* With harmless signals the invariant holds throughout.
LEMMA InvariantHolds == ASSUME HarmlessSignals PROVE Spec => []IInv
  BY InitIInv, NextIInv, PTL DEF Spec

\* Mutual exclusion: whoever was told that it has the lock is the creator of
\* the X.lock on disk, whatever was forked, has exited or was killed meanwhile.
THEOREM MutualExclusion == ASSUME HarmlessSignals PROVE Spec => []HolderOwnsLock
<1>1. IInv => HolderOwnsLock
  BY DEF IInv
<1> QED
  BY <1>1, InvariantHolds, PTL

-----------------------------------------------------------------------------
(***************************************************************************)
(* What a process leaves behind.  A lock file that a process has created   *)
(* is one it holds, one it is registering, or one it is dying of; in all   *)
(* cases but the second its exit handler knows it.                         *)
(***************************************************************************)
Clean == Signals \subseteq {"run", "dying"} /\ PermFails \subseteq {"dying"}

Known(p, x) ==
  \/ pc[p] = "register" /\ cur[p] = x
  \/ /\ x \in listed[p] /\ owner[p][x] = p /\ x \in filename[p]
     /\ x \in holds[p] \/ pc[p] = "dying"
OwnKnown == \A p \in Proc, x \in Path :
              lockf[x] = p => pc[p] = "killed" \/ (Alive(p) /\ Known(p, x))

\* The path of a call is not one p holds.
CurNotHeld == \A p \in Proc : pc[p] \in {"refused", "renamed", "unlinked"} => cur[p] \notin holds[p]

\* While a lock is being taken the struct has its name.
NameSet == \A p \in Proc : pc[p] \in {"open", "register"} => cur[p] \in filename[p]

CInv == IInv /\ OwnKnown /\ CurNotHeld /\ NameSet

LEMMA StepNameSet == ASSUME IInv, NameSet, [Next]_vars PROVE NameSet'
<1> USE DEF IInv, TypeOK, NameSet
<1>1. ASSUME NEW p \in Proc, NEW x \in Path, LockName(p, x) PROVE NameSet'
  <2>1. /\ cur' = [cur EXCEPT ![p] = x] /\ pc' = [pc EXCEPT ![p] = "open"]
        /\ filename' = [filename EXCEPT ![p] = filename[p] \cup {x}]
    BY <1>1 DEF LockName
  <2>2. x \in filename'[p] /\ cur'[p] = x
    BY <2>1
  <2>3. \A q \in Proc : q # p => pc'[q] = pc[q] /\ cur'[q] = cur[q] /\ filename'[q] = filename[q]
    BY <2>1
  <2> QED
    BY <2>2, <2>3
<1>7. ASSUME NEW p \in Proc, NEW x \in Path, CommitRename(p, x) PROVE NameSet'
  BY <1>7 DEF CommitRename
<1>8. ASSUME NEW p \in Proc, NEW x \in Path, RollbackUnlink(p, x) PROVE NameSet'
  BY <1>8 DEF RollbackUnlink
<1>2. ASSUME NEW p \in Proc, LockOpen(p) \/ LockExists(p) \/ LockRefused(p) \/ ClearName(p)
      PROVE  NameSet'
  BY <1>2 DEF LockOpen, LockExists, LockRefused, ClearName
<1>3. ASSUME NEW p \in Proc, LockRegister(p) PROVE NameSet'
  <2>1. /\ cur' = cur /\ filename' = filename /\ pc'[p] \in {"run", "dying"}
        /\ \A q \in Proc : q # p => pc'[q] = pc[q]
    BY <1>3 DEF LockRegister
  <2> QED
    BY <2>1
<1>4. ASSUME NEW p \in Proc, Exit(p) \/ Signal(p) \/ Kill(p) PROVE NameSet'
  BY <1>4 DEF Exit, Signal, Kill, RemoveLockFile
<1>5. ASSUME NEW p \in Proc, NEW c \in Proc, Fork(p, c) PROVE NameSet'
  BY <1>5 DEF Fork
<1>6. CASE UNCHANGED vars \/ \E x \in Path : RemoveManually(x)
  BY <1>6 DEF vars, RemoveManually
<1> QED
  BY <1>1, <1>2, <1>3, <1>4, <1>5, <1>6, <1>7, <1>8 DEF Next, Step

LEMMA StepCurNotHeld == ASSUME IInv, CurNotHeld, [Next]_vars PROVE CurNotHeld'
<1> USE DEF IInv, TypeOK, CurNotHeld
<1>1. ASSUME NEW p \in Proc, NEW x \in Path, LockName(p, x) PROVE CurNotHeld'
  BY <1>1 DEF LockName
<1>7. ASSUME NEW p \in Proc, NEW x \in Path, CommitRename(p, x) PROVE CurNotHeld'
  <2>1. /\ holds' = [holds EXCEPT ![p] = holds[p] \ {x}] /\ cur' = [cur EXCEPT ![p] = x]
        /\ \A q \in Proc : q # p => pc'[q] = pc[q]
    BY <1>7 DEF CommitRename
  <2> QED
    BY <2>1
<1>8. ASSUME NEW p \in Proc, NEW x \in Path, RollbackUnlink(p, x) PROVE CurNotHeld'
  <2>1. /\ holds' = [holds EXCEPT ![p] = holds[p] \ {x}] /\ cur' = [cur EXCEPT ![p] = x]
        /\ \A q \in Proc : q # p => pc'[q] = pc[q]
    BY <1>8 DEF RollbackUnlink
  <2> QED
    BY <2>1
<1>2. ASSUME NEW p \in Proc, LockOpen(p) \/ LockExists(p) \/ LockRefused(p) \/ ClearName(p)
      PROVE  CurNotHeld'
  BY <1>2 DEF LockOpen, LockExists, LockRefused, ClearName, HoldersAlive
<1>3. ASSUME NEW p \in Proc, LockRegister(p) PROVE CurNotHeld'
  <2>1. /\ cur' = cur /\ pc'[p] \in {"run", "dying"}
        /\ \A q \in Proc : q # p => pc'[q] = pc[q] /\ holds'[q] = holds[q]
    BY <1>3 DEF LockRegister
  <2> QED
    BY <2>1
<1>4. ASSUME NEW p \in Proc, Exit(p) \/ Signal(p) \/ Kill(p) PROVE CurNotHeld'
  BY <1>4 DEF Exit, Signal, Kill, RemoveLockFile
<1>5. ASSUME NEW p \in Proc, NEW c \in Proc, Fork(p, c) PROVE CurNotHeld'
  BY <1>5 DEF Fork
<1>6. CASE UNCHANGED vars \/ \E x \in Path : RemoveManually(x)
  BY <1>6 DEF vars, RemoveManually
<1> QED
  BY <1>1, <1>2, <1>3, <1>4, <1>5, <1>6, <1>7, <1>8 DEF Next, Step

\* The steps of a call keep what the exit handler knows ...
LEMMA StepOwnKnown == ASSUME Clean, CInv, [Next]_vars PROVE OwnKnown'
<1> USE DEF CInv, IInv, TypeOK
<1>a. SUFFICES ASSUME NEW q \in Proc, NEW y \in Path, lockf'[y] = q
               PROVE  pc'[q] = "killed" \/ (Alive(q)' /\ Known(q, y)')
  BY DEF OwnKnown
<1>b. lockf[y] = q => pc[q] = "killed" \/ (Alive(q) /\ Known(q, y))
  BY DEF OwnKnown
<1>1. ASSUME NEW p \in Proc, NEW x \in Path, LockName(p, x)
      PROVE  pc'[q] = "killed" \/ (Alive(q)' /\ Known(q, y)')
  <2>1. lockf[y] = q /\ holds' = holds /\ listed' = listed /\ owner' = owner /\ (q # p => pc'[q] = pc[q] /\ cur'[q] = cur[q])
    BY <1>a, <1>1 DEF LockName
  <2>2. CASE q = p
    BY <1>b, <1>1, <2>1, <2>2 DEF LockName, Known, Alive, Dead
  <2>3. CASE q # p
    BY <1>b, <1>1, <2>1, <2>3 DEF LockName, Known, Alive, Dead
  <2> QED
    BY <2>2, <2>3
<1>2. ASSUME NEW p \in Proc, LockOpen(p)
      PROVE  pc'[q] = "killed" \/ (Alive(q)' /\ Known(q, y)')
  BY <1>a, <1>b, <1>2 DEF LockOpen, Known, Alive, Dead, HoldersAlive
<1>3. ASSUME NEW p \in Proc, LockExists(p)
      PROVE  pc'[q] = "killed" \/ (Alive(q)' /\ Known(q, y)')
  BY <1>a, <1>b, <1>3 DEF LockExists, Known, Alive, Dead
<1>4. ASSUME NEW p \in Proc, LockRefused(p) \/ ClearName(p)
      PROVE  pc'[q] = "killed" \/ (Alive(q)' /\ Known(q, y)')
  <2>1. /\ pc[p] \in {"refused", "renamed", "unlinked"} /\ pc' = [pc EXCEPT ![p] = "run"]
        /\ filename' = [filename EXCEPT ![p] = filename[p] \ {cur[p]}]
        /\ UNCHANGED <<lockf, owner, listed, cur, holds>>
    BY <1>4 DEF LockRefused, ClearName
  <2>2. CASE q # p
    BY <1>a, <1>b, <2>1, <2>2 DEF Known, Alive
  <2>3. CASE q = p
    <3>1. Known(p, y) /\ y \in holds[p]
      BY <1>a, <1>b, <2>1, <2>3 DEF Known
    <3>2. y # cur[p]
      BY <2>1, <3>1 DEF CurNotHeld
    <3> QED
      BY <2>1, <2>3, <3>1, <3>2 DEF Known, Alive, Dead
  <2> QED
    BY <2>2, <2>3
<1>5. ASSUME NEW p \in Proc, LockRegister(p)
      PROVE  pc'[q] = "killed" \/ (Alive(q)' /\ Known(q, y)')
  <2>1. /\ owner' = [owner EXCEPT ![p] = [owner[p] EXCEPT ![cur[p]] = p]]
        /\ listed' = [listed EXCEPT ![p] = listed[p] \cup {cur[p]}]
        /\ lockf' = lockf /\ filename' = filename /\ cur' = cur
    BY <1>5 DEF LockRegister
  <2>2. CASE q # p
    <3>1. pc'[q] = pc[q] /\ holds'[q] = holds[q]
      BY <1>5, <2>2 DEF LockRegister
    <3>2. owner'[q] = owner[q] /\ listed'[q] = listed[q]
      BY <2>1, <2>2
    <3> QED
      BY <1>a, <1>b, <2>1, <3>1, <3>2 DEF Known, Alive
  <2>3. CASE q = p
    <3>1. \/ pc'[p] = "run" /\ holds'[p] = holds[p] \cup {cur[p]}
          \/ pc'[p] = "dying" /\ holds'[p] = holds[p]
      BY <1>5 DEF LockRegister, Clean
    <3>2. y = cur[p] => y \in filename[p]
      BY <1>5 DEF LockRegister, NameSet
    <3>3. Known(p, y)
      BY <1>a, <1>b, <1>5, <2>1, <2>3 DEF LockRegister
    <3>4. y \in listed'[p] /\ owner'[p][y] = p /\ y \in filename'[p]
      <4>1. CASE y = cur[p]
        <5>1. y \in listed[p] \cup {cur[p]} /\ [owner[p] EXCEPT ![cur[p]] = p][y] = p
          BY <4>1
        <5> QED
          BY <2>1, <3>2, <4>1, <5>1
      <4>2. CASE y # cur[p]
        <5>1. y \in listed[p] /\ owner[p][y] = p /\ y \in filename[p]
          BY <3>3, <4>2 DEF Known
        <5>2. y \in listed[p] \cup {cur[p]} /\ [owner[p] EXCEPT ![cur[p]] = p][y] = p
          BY <4>2, <5>1
        <5> QED
          BY <2>1, <5>1, <5>2
      <4> QED
        BY <4>1, <4>2
    <3>5. y \in holds'[p] \/ pc'[p] = "dying"
      BY <1>5, <3>1, <3>3 DEF Known, LockRegister
    <3> QED
      BY <2>3, <3>1, <3>4, <3>5 DEF Known, Alive, Dead
  <2> QED
    BY <2>2, <2>3
<1>6. ASSUME NEW p \in Proc, NEW x \in Path, CommitRename(p, x) \/ RollbackUnlink(p, x)
      PROVE  pc'[q] = "killed" \/ (Alive(q)' /\ Known(q, y)')
  <2>1. /\ pc[p] = "run" /\ pc'[p] \in {"renamed", "unlinked"}
        /\ \A r \in Proc : r # p => pc'[r] = pc[r] /\ cur'[r] = cur[r]
        /\ lockf' = [lockf EXCEPT ![x] = Free] /\ holds' = [holds EXCEPT ![p] = holds[p] \ {x}]
        /\ UNCHANGED <<filename, owner, listed>>
    <3>1. CASE CommitRename(p, x)
      BY <3>1 DEF CommitRename
    <3>2. CASE RollbackUnlink(p, x)
      BY <3>2 DEF RollbackUnlink
    <3> QED
      BY <1>6, <3>1, <3>2
  <2>2. y # x /\ lockf[y] = q
    BY <1>a, <2>1
  <2>3. CASE q # p
    BY <1>b, <2>1, <2>2, <2>3 DEF Known, Alive
  <2>4. CASE q = p
    <3>1. Known(p, y) /\ y \in holds[p]
      BY <1>b, <2>1, <2>2, <2>4 DEF Known
    <3>2. y \in holds'[p]
      BY <2>1, <2>2, <3>1
    <3> QED
      BY <2>1, <2>4, <3>1, <3>2 DEF Known, Alive, Dead
  <2> QED
    BY <2>3, <2>4
<1>7. ASSUME NEW p \in Proc, NEW how \in {"exited", "signalled"}, pc[p] \in {"run", "dying"},
             RemoveLockFile(p, how)
      PROVE  pc'[q] = "killed" \/ (Alive(q)' /\ Known(q, y)')
  <2>1. q # p
    BY <1>a, <1>b, <1>7 DEF RemoveLockFile, Removed, Known
  <2> QED
    BY <1>a, <1>b, <1>7, <2>1 DEF RemoveLockFile, Known, Alive
<1>8. ASSUME NEW p \in Proc, Kill(p)
      PROVE  pc'[q] = "killed" \/ (Alive(q)' /\ Known(q, y)')
  BY <1>a, <1>b, <1>8 DEF Kill, Known, Alive
<1>9. ASSUME NEW p \in Proc, NEW c \in Proc, Fork(p, c)
      PROVE  pc'[q] = "killed" \/ (Alive(q)' /\ Known(q, y)')
  BY <1>a, <1>b, <1>9 DEF Fork, Known, Alive, Dead
<1>10. CASE UNCHANGED vars \/ \E x \in Path : RemoveManually(x)
  BY <1>a, <1>b, <1>10 DEF vars, RemoveManually, Known, Alive
<1> QED
  BY <1>1, <1>2, <1>3, <1>4, <1>5, <1>6, <1>7, <1>8, <1>9, <1>10
     DEF Next, Step, Exit, Signal, Clean

\* ... so that a process which ends by itself removes all its lock files.
THEOREM CruftRemoved == ASSUME Clean PROVE Spec => []NoCruft
<1>1. Init => CInv
  BY InitIInv DEF CInv, OwnKnown, CurNotHeld, NameSet, Init, LockFileAssumption
<1>2. CInv /\ [Next]_vars => CInv'
  BY NextIInv, StepCurNotHeld, StepNameSet, StepOwnKnown DEF CInv, Clean, HarmlessSignals
<1>3. CInv => NoCruft
  BY DEF CInv, IInv, TypeOK, OwnKnown, NoCruft, Alive, Dead
<1> QED
  BY <1>1, <1>2, <1>3, PTL DEF Spec

-----------------------------------------------------------------------------

\* lockfile.c starts like AbsLock.
LEMMA InitImplements == Init => Abs!Init
  BY DEF Init, Abs!Init

\* Every step is a step of AbsLock, or changes nothing its users see.
LEMMA StepImplements == ASSUME HarmlessSignals, IInv, [Next]_vars PROVE [Abs!Next]_(Abs!vars)
<1> USE DEF IInv, TypeOK, Abs!vars
<1>1. ASSUME NEW p \in Proc, NEW x \in Path, CommitRename(p, x) PROVE Abs!Next
  <2>1. Abs!Replace(p, x)
    <3>1. x \in holds[p] /\ lockf[x] = p /\ base[p][x] = version[x]
      BY <1>1 DEF CommitRename, HolderOwnsLock, BaseCurrent
    <3>2. version' = [version EXCEPT ![x] = version[x] + 1]
      BY <1>1, <3>1 DEF CommitRename
    <3> QED
      BY <1>1, <3>1, <3>2 DEF CommitRename, Abs!Replace
  <2> QED
    BY <2>1 DEF Abs!Next
<1>2. ASSUME NEW p \in Proc, LockRegister(p) PROVE [Abs!Next]_(Abs!vars)
  <2>1. CASE UNCHANGED <<holds, base>>
    BY <1>2, <2>1 DEF LockRegister
  <2>2. CASE holds' = [holds EXCEPT ![p] = @ \cup {cur[p]}]
    <3>1. \A q \in Proc : cur[p] \notin holds[q]
      BY <1>2 DEF LockRegister, Registering, HolderOwnsLock, HoldersAlive
    <3>2. Abs!Enter(p, cur[p])
      BY <1>2, <2>2, <3>1 DEF LockRegister, Abs!Enter
    <3> QED
      BY <3>2 DEF Abs!Next
  <2> QED
    BY <1>2, <2>1, <2>2 DEF LockRegister
<1>3. ASSUME NEW p \in Proc, NEW x \in Path, RollbackUnlink(p, x) PROVE Abs!Next
  <2>1. Abs!Leave(p, {x})
    BY <1>3 DEF RollbackUnlink, Abs!Leave
  <2> QED
    BY <2>1 DEF Abs!Next
<1>4. ASSUME NEW p \in Proc, Exit(p) \/ Signal(p) \/ Kill(p) PROVE [Abs!Next]_(Abs!vars)
  <2>1. holds' = [holds EXCEPT ![p] = {}] /\ version' = version
    BY <1>4 DEF Exit, Signal, Kill, RemoveLockFile
  <2>2. CASE holds[p] = {}
    BY <2>1, <2>2
  <2>3. CASE holds[p] # {}
    <3>1. Abs!Leave(p, holds[p])
      BY <2>1, <2>3 DEF Abs!Leave
    <3> QED
      BY <3>1 DEF Abs!Next
  <2> QED
    BY <2>2, <2>3
<1>5. ASSUME NEW p \in Proc,
             \/ \E x \in Path : LockName(p, x)
             \/ LockOpen(p) \/ LockExists(p) \/ LockRefused(p) \/ ClearName(p)
             \/ \E c \in Proc : Fork(p, c)
      PROVE  UNCHANGED Abs!vars
  BY <1>5 DEF LockName, LockOpen, LockExists, LockRefused, ClearName, Fork
<1>6. ASSUME NEW x \in Path, RemoveManually(x) PROVE UNCHANGED Abs!vars
  BY <1>6 DEF RemoveManually
<1>7. CASE UNCHANGED vars
  BY <1>7 DEF vars
<1> QED
  BY <1>1, <1>2, <1>3, <1>4, <1>5, <1>6, <1>7 DEF Next, Step

\* Refinement: callers of the lockfile API lose no update and exclude each
\* other.
THEOREM Refinement == ASSUME HarmlessSignals PROVE Spec => ImplementsAbsLock
  BY InitImplements, StepImplements, InvariantHolds, PTL DEF Spec, ImplementsAbsLock, Abs!Spec
=============================================================================
