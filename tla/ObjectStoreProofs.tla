------------------------- MODULE ObjectStoreProofs -------------------------
(***************************************************************************)
(* ObjectStore, for every number of processes and objects: its types, that *)
(* nothing in use is lost, and that nothing young is.                      *)
(*                                                                         *)
(* The disk is shared and nobody locks it, so the argument is about what   *)
(* each gc knows of it: a pack is on the list of those to be removed       *)
(* because it was there without a .keep file when the gc began, and what   *)
(* is in it is in the new pack, or elsewhere, or not reachable by then.    *)
(* What becomes reachable after the gc looked is in no pack on its list,   *)
(* or it is loose and too young.                                           *)
(***************************************************************************)
EXTENDS ObjectStore, NaturalsInduction, WellFoundedInduction, TLAPS

-----------------------------------------------------------------------------
(* The inductive invariant *)

\* A writer or pusher that has not made its objects reachable yet
Before == {"absent", "new", "ready", "packed", "loose", "write", "install"}

\* git-repack.sh: after the traversal of pack-objects; while packs are replaced; all
\* the time that it has a list of existing packs
RepackPhase == {"loosen", "moveold", "move", "rmold", "redundant"}
Replacing == {"moveold", "move", "rmold", "redundant"}
Sorting == {"pack-objects", "count"} \cup RepackPhase

\* Each kind of process is at places of its own ...
PlaceOf(p) ==
  /\ p \in Writer =>
      /\ pc[p] \in {"absent", "new", "ready", "packed", "loose", "write", "publish", "end", "killed"}
      /\ todo[p] \subseteq Job[p]
      /\ pc[p] \in {"packed", "loose", "write"} => cur[p] \in todo[p]
      /\ pc[p] = "publish" => todo[p] = {}
  /\ p \in Pusher =>
      pc[p] \in {"absent", "new", "ready", "install", "publish", "unkeep", "end", "killed"}
  /\ p \in Reader =>
      pc[p] \in {"absent", "new", "ready", "packed", "loose", "again", "packed2", "failed"}
  /\ p \in Gc =>
      /\ pc[p] \in {"absent", "new", "existing", "prune-packed", "unlinkpacked", "prune", "mark",
                     "unlink", "unlinkpacked2", "end", "failed", "killed"} \cup Sorting
      /\ pc[p] \in {"moveold", "move"} => new[p] # {}
  /\ pc[p] = "new" => opened[p] = {}
Places == \A p \in Proc : PlaceOf(p)

\* ... and there is one gc.
Alone == \A g, h \in Gc : pc[g] # "absent" /\ pc[h] # "absent" => g = h

\* Whoever brings objects in started less than the grace period ago, and an expiry is
\* at least that long ago.
Dates ==
  /\ \A p \in Writer \cup Pusher : Running(p) => clock < began[p] + Grace
  /\ \A g \in Gc : pc[g] \in {"count", "loosen", "mark", "unlink"} => expire[g] <= clock - Grace
  /\ \A p \in Proc : began[p] <= clock

\* What is brought in is not reachable, for refs or for a gc, before it is published.
Published ==
  /\ Lasting \subseteq refs
  /\ \A p \in Pusher : pc[p] = "unkeep" => Result(p) \subseteq refs
  /\ \A p \in Writer \cup Pusher : pc[p] \in Before \cup {"publish"} => Own(p) \cap refs = {}
  /\ \A p \in Writer \cup Pusher, g \in Gc : Own(p) \cap (reach[g] \cup new[g]) \subseteq refs

\* What a writer has written and not published is in no pack, and young ...
Written == \A p \in Writer : \A o \in Own(p) \ refs :
  /\ \A S \in Packs \cup old \cup listed[p] : o \notin S
  /\ loose[o] # None => pc[p] \notin {"absent", "new"} /\ began[p] <= loose[o]
  /\ Running(p) /\ o \notin todo[p] => loose[o] # None

\* ... and what a pusher has received is in one pack, which is kept and on no gc's list.
Received == \A p \in Pusher :
  /\ pc[p] = "publish" => Pushed[p] \in Packs
  /\ pc[p] = "install" => Pushed[p] \in keep
  /\ \A o \in Own(p) \ refs :
       /\ pc[p] \in Before => loose[o] = None
       /\ \A S \in Packs : o \in S => S = Pushed[p] /\ S \in keep /\ pc[p] \notin Before
       /\ \A g \in Gc : pc[g] \in Sorting => \A S \in existing[g] : o \notin S

\* The lists that a gc has of the packs are right, for nobody else removes any.
ListsOf(g) ==
  /\ pc[g] \in Sorting => /\ mode[g] = "incremental" => existing[g] = {}
                          /\ existing[g] \subseteq Packs \cup {new[g]}
  /\ pc[g] = "pack-objects" => existing[g] \cap keep = {}
  /\ pc[g] \in {"pack-objects", "count", "loosen"} => existing[g] \subseteq Packs
  /\ pc[g] \in {"count", "loosen"} => /\ existing[g] \subseteq listed[g]
                                      /\ existing[g] \cap kept[g] = {} /\ kept[g] \subseteq Packs
                                      /\ opened[g] \subseteq Packs
  /\ pc[g] \in {"unlinkpacked", "unlinkpacked2", "mark", "unlink"} => opened[g] \subseteq Packs
  /\ pc[g] \in Replacing => new[g] \subseteq reach[g]
  /\ pc[g] = "rmold" => new[g] \in Packs
  /\ pc[g] = "redundant" => new[g] \in Packs \cup {{}}
Lists == \A g \in Gc : ListsOf(g)

\* In a pack that g is not going to remove
Elsewhere(g, o) == \E T \in Packs \ existing[g] : o \in T

\* The packs on the list are redundant: what was reachable is in the new pack or elsewhere ...
Covered == \A g \in Gc : pc[g] \in Replacing => \A o \in reach[g] : o \in new[g] \/ Elsewhere(g, o)

\* ... and what has become reachable since is loose or elsewhere.  As long as prune
\* unlinks, that is: too young or in a pack.
Late == \A g \in Gc :
  /\ pc[g] \in RepackPhase => \A o \in refs \ reach[g] : loose[o] # None \/ Elsewhere(g, o)
  /\ pc[g] = "unlink" => \A o \in refs \ reach[g] :
        (loose[o] # None /\ expire[g] < loose[o]) \/ \E S \in Packs : o \in S

RefsOnDisk == \A o \in refs : OnDisk(o)

IInv == /\ TypeOK /\ Places /\ Alone /\ Dates /\ Published /\ Written /\ Received /\ Lists
        /\ Covered /\ Late /\ RefsOnDisk

\* For GraceKept: no copy of an object is older than the object ...
Aged == \A o \in Obj :
  o \notin Lasting =>
      /\ born[o] <= clock
      /\ loose[o] # None => born[o] <= loose[o]
      /\ \A S \in Packs : o \in S => born[o] <= packs[S]

\* ... and what a full repack leaves out has been made loose or is old.
Dropped == \A g \in Gc : pc[g] \in Replacing /\ mode[g] = "A" =>
   \A S \in existing[g] : \A o \in S \ (reach[g] \cup Lasting) :
      loose[o] # None \/ Elsewhere(g, o) \/ Grace <= clock - born[o]
GInv == IInv /\ Aged /\ Dropped

-----------------------------------------------------------------------------
(* Types *)

USE ObjectStoreAssumption

DiskTypes ==
  /\ clock \in Time
  /\ loose \in [Obj -> Time \cup {None}]
  /\ packs \in [DOMAIN packs -> Time] /\ DOMAIN packs \subseteq Pack
  /\ keep \subseteq Pack /\ old \subseteq Pack
  /\ refs \subseteq Obj
  /\ born \in [Obj -> Time]
ProcTypes ==
  /\ pc \in [Proc -> PC]
  /\ began \in [Proc -> Time]
  /\ cur \in [Proc -> Obj]
  /\ todo \in [Proc -> SUBSET Obj]
  /\ reads \in [Proc -> 0..MaxReads]
ListTypes ==
  /\ {listed, kept, opened} \subseteq [Proc -> SUBSET Pack]
  /\ \A p \in Proc : opened[p] \cup kept[p] \subseteq listed[p]
GcTypes ==
  /\ mode \in [Gc -> Mode]
  /\ runs \in [Gc -> Nat] /\ \A p \in Gc : runs[p] <= MaxGc[p]
  /\ existing \in [Gc -> SUBSET Pack]
  /\ expire \in [Gc -> Int]
  /\ reach \in [Gc -> SUBSET Obj] /\ new \in [Gc -> SUBSET Obj]

\* A set of numbers that is not empty has a least one ...
LEMMA Smallest ==
  ASSUME NEW X, X \subseteq Nat, X # {}
  PROVE  \E m \in X : \A k \in X : m <= k
<1> DEFINE R == OpToRel(<, Nat)
<1>1. IsWellFoundedOn(R, Nat)
  BY NatLessThanWellFounded
<1>2. \A k, m \in Nat : k < m => <<k, m>> \in R
  BY DEF OpToRel
<1> HIDE DEF R
<1>3. PICK m \in X : \A k \in X : ~(<<k, m>> \in R)
  BY <1>1, WFMin
<1>4. ASSUME NEW k \in X PROVE m <= k
  <2>1. k \in Nat /\ m \in Nat
    OBVIOUS
  <2>2. ~(k < m)
    BY <2>1, <1>2, <1>3
  <2> QED
    BY <2>1, <2>2
<1> QED
  BY <1>4

\* The type invariant, in parts: the disk, what each process knows, what a gc decides
LEMMA TypeParts == TypeOK <=> DiskTypes /\ ProcTypes /\ ListTypes /\ GcTypes
  BY DEF TypeOK, DiskTypes, ProcTypes, ListTypes, GcTypes

Looking(p) == FirstList(p) \/ Read(p) \/ NextObject(p) \/ LookPacked(p) \/ LookLoose(p) \/ ListAgain(p)
Deciding(p) == \/ StartGc(p) \/ FindExisting(p) \/ StartPackObjects(p) \/ CountObjects(p)
               \/ StartPrunePacked(p) \/ StartPrune(p) \/ Mark(p)

\* Looking objects up changes nothing but what the process itself knows ...
LEMMA LookingQuiet == ASSUME NEW p \in Proc, Looking(p)
                      PROVE UNCHANGED <<clock, loose, packs, keep, old, refs, born,
                                         mode, runs, existing, expire, reach, new>>
  BY DEF Looking, FirstList, Read, NextObject, LookPacked, LookLoose, ListAgain, disk, gcvars

\* ... and so does what a gc decides, and a kill.
LEMMA DecidingQuiet == ASSUME NEW p \in Proc, Deciding(p) \/ Kill(p)
                       PROVE UNCHANGED <<clock, loose, packs, keep, old, refs, born, began, cur, reads>>
  BY
  DEF Deciding, Kill, StartGc, FindExisting, StartPackObjects, CountObjects, StartPrunePacked,
      StartPrune, Mark, disk, gcvars


\* ... and a set of times has a maximum that is a time.
LEMMA MaxOfTimes ==
  ASSUME NEW X, X \subseteq Time, X # {}
  PROVE  Max(X) \in X /\ \A x \in X : x <= Max(X)
<1> DEFINE Y == {MaxTime - x : x \in X}
<1>1. Y \subseteq Nat /\ Y # {}
  BY DEF Time
<1>2. PICK m \in Y : \A y \in Y : m <= y
  BY <1>1, Smallest
<1>3. PICK x \in X : m = MaxTime - x
  BY <1>2
<1>4. \A z \in X : MaxTime - z \in Y
  OBVIOUS
<1> HIDE DEF Y
<1>5. \A z \in X : z <= x
  BY <1>2, <1>3, <1>4 DEF Time
<1> QED
  BY <1>5 DEF Max, Time

\* Each place belongs to one kind of process.
LEMMA WhoIsWhere ==
  ASSUME Places, NEW p \in Proc
  PROVE  /\ pc[p] = "write" => p \in Writer
         /\ pc[p] = "publish" => p \in Writer \cup Pusher
         /\ pc[p] \in {"install", "unkeep"} => p \in Pusher
         /\ pc[p] \in {"again", "packed2"} => p \in Reader
         /\ pc[p] \in {"existing", "prune-packed", "unlinkpacked", "prune", "mark", "unlink",
                      "unlinkpacked2"} \cup Sorting => p \in Gc
<1>1. p \in Writer \cup Pusher \cup Reader \cup Gc
  BY DEF Proc
<1>2. CASE p \in Writer
  BY <1>2 DEF Places, PlaceOf, Sorting, RepackPhase
<1>3. CASE p \in Pusher
  BY <1>3 DEF Places, PlaceOf, Sorting, RepackPhase
<1>4. CASE p \in Reader
  BY <1>4 DEF Places, PlaceOf, Sorting, RepackPhase
<1>5. CASE p \in Gc
  BY <1>5 DEF Places, PlaceOf, Sorting, RepackPhase
<1> QED
  BY <1>1, <1>2, <1>3, <1>4, <1>5

\* Every step keeps the types of the disk ...
LEMMA NextDisk == TypeOK /\ Places /\ [Next]_vars => DiskTypes'
<1> SUFFICES ASSUME TypeOK, Places, [Next]_vars PROVE DiskTypes'
  OBVIOUS
<1> USE TypeParts
<1>1. ASSUME NEW p \in Proc, WriteLoose(p) PROVE DiskTypes'
  BY <1>1 DEF DiskTypes, WriteLoose, Proc, ProcTypes
<1>2. ASSUME NEW p \in Proc, WriteKeep(p) PROVE DiskTypes'
  BY <1>2 DEF DiskTypes, WriteKeep, Proc
<1>3. ASSUME NEW p \in Proc, InstallPack(p) PROVE DiskTypes'
  <2>1. p \in Pusher
    BY <1>3, WhoIsWhere DEF InstallPack
  <2> QED
    BY <1>3, <2>1 DEF DiskTypes, InstallPack, With, Packs
<1>4. ASSUME NEW p \in Proc, Publish(p) PROVE DiskTypes'
  <2>1. Result(p) \subseteq Obj
    BY <1>4, WhoIsWhere DEF Publish, Result, Pack
  <2> QED
    BY <1>4, <2>1 DEF DiskTypes, Publish
<1>5. ASSUME NEW p \in Proc, RemoveKeep(p) PROVE DiskTypes'
  BY <1>5 DEF DiskTypes, RemoveKeep, Proc
<1>6. ASSUME NEW p \in Proc, Loosen(p) PROVE DiskTypes'
  <2>1. ASSUME NEW o \in Loosened(p) PROVE PackTime(p, o) \in Time
    <3>1. {packs[S] : S \in {T \in (listed[p] \ kept[p]) \cap Packs : o \in T}} \subseteq Time
      BY DEF DiskTypes, Packs
    <3>2. \E S \in (listed[p] \ kept[p]) \cap Packs : o \in S
      BY <2>1 DEF Loosened
    <3> QED
      BY <3>1, <3>2, MaxOfTimes DEF PackTime
  <2> QED
    BY <1>6, <2>1 DEF DiskTypes, Loosen
<1>7. ASSUME NEW p \in Proc, MoveOld(p) PROVE DiskTypes'
  <2>1. p \in Gc /\ new[p] \in Pack
    <3>1. p \in Gc
      BY <1>7, WhoIsWhere DEF MoveOld, Sorting, RepackPhase
    <3>2. new[p] # {}
      BY <1>7, <3>1 DEF MoveOld, Places, PlaceOf
    <3> QED
      BY <3>1, <3>2 DEF GcTypes, Pack
  <2> QED
    BY <1>7, <2>1 DEF DiskTypes, MoveOld, Without, Packs
<1>8. ASSUME NEW p \in Proc, MoveNew(p) PROVE DiskTypes'
  <2>1. p \in Gc /\ new[p] \in Pack
    <3>1. p \in Gc
      BY <1>8, WhoIsWhere DEF MoveNew, Sorting, RepackPhase
    <3>2. new[p] # {}
      BY <1>8, <3>1 DEF MoveNew, Places, PlaceOf
    <3> QED
      BY <3>1, <3>2 DEF GcTypes, Pack
  <2> QED
    BY <1>8, <2>1 DEF DiskTypes, MoveNew, With, Packs
<1>9. ASSUME NEW p \in Proc, RemoveOld(p) PROVE DiskTypes'
  BY <1>9 DEF DiskTypes, RemoveOld, Proc
<1>10. ASSUME NEW p \in Proc, RemoveRedundant(p) PROVE DiskTypes'
  <2>1. ASSUME NEW S, packs' = Without(S), keep' = keep \ {S} PROVE DiskTypes'
    <3>1. DOMAIN packs' = Packs \ {S} /\ packs' \in [Packs \ {S} -> Time]
      BY <2>1 DEF Without, DiskTypes, Packs
    <3>2. UNCHANGED <<clock, loose, old, refs, born>>
      BY <1>10 DEF RemoveRedundant
    <3> QED
      BY <2>1, <3>1, <3>2 DEF DiskTypes, Packs
  <2>2. ASSUME UNCHANGED <<packs, keep>> PROVE DiskTypes'
    <3>1. UNCHANGED <<clock, loose, old, refs, born>>
      BY <1>10 DEF RemoveRedundant
    <3> QED
      BY <2>2, <3>1 DEF DiskTypes
  <2> QED
    BY <1>10, <2>1, <2>2 DEF RemoveRedundant
<1>11. ASSUME NEW p \in Proc, UnlinkPacked(p) PROVE DiskTypes'
  BY <1>11 DEF DiskTypes, UnlinkPacked, Proc
<1>12. ASSUME NEW p \in Proc, Unlink(p) PROVE DiskTypes'
  BY <1>12 DEF DiskTypes, Unlink, Proc
<1>13. ASSUME NEW p \in Proc, Looking(p) \/ Deciding(p) \/ Kill(p) PROVE DiskTypes'
  BY <1>13, LookingQuiet, DecidingQuiet DEF DiskTypes
<1>14. ASSUME DeleteRef PROVE DiskTypes'
  BY <1>14 DEF DiskTypes, DeleteRef
<1>15. ASSUME Tick PROVE DiskTypes'
  BY <1>15 DEF DiskTypes, Tick, Time, disk
<1>16. CASE UNCHANGED vars
  BY <1>16 DEF DiskTypes, vars, disk
<1> QED
  BY <1>1, <1>2, <1>3, <1>4, <1>5, <1>6, <1>7, <1>8, <1>9, <1>10, <1>11, <1>12, <1>13, <1>14,
     <1>15, <1>16
  DEF Next, Step, Looking, Deciding

\* A process goes to a place that there is.
LEMMA GotoTypes == ASSUME NEW p \in Proc, NEW l \in PC, ProcTypes, Goto(p, l)
                   PROVE  pc' \in [Proc -> PC]
  BY DEF ProcTypes, Goto

\* ... of the processes ...
LEMMA NextProc == TypeOK /\ Places /\ [Next]_vars => ProcTypes'
<1> SUFFICES ASSUME TypeOK, Places, [Next]_vars PROVE ProcTypes'
  OBVIOUS
<1> USE TypeParts
<1>1. ASSUME NEW p \in Proc, FirstList(p) PROVE ProcTypes'
  <2>1. pc' \in [Proc -> PC]
    BY <1>1, GotoTypes DEF FirstList, PC
  <2>2. todo' \in [Proc -> SUBSET Obj]
    BY <1>1 DEF FirstList, ProcTypes
  <2> QED
    BY <1>1, <2>1, <2>2 DEF FirstList, ProcTypes, DiskTypes
<1>2. ASSUME NEW p \in Proc, Read(p) PROVE ProcTypes'
  <2>1. pc' \in [Proc -> PC]
    BY <1>2, GotoTypes DEF Read, PC
  <2> QED
    <3>1. cur' \in [Proc -> Obj]
      BY <1>2 DEF Read, ProcTypes, DiskTypes
    <3>2. reads' \in [Proc -> 0..MaxReads]
      BY <1>2 DEF Read, ProcTypes
    <3> QED
      BY <1>2, <2>1, <3>1, <3>2 DEF Read, ProcTypes
<1>3. ASSUME NEW p \in Proc, NextObject(p) PROVE ProcTypes'
  <2>1. pc' \in [Proc -> PC]
    BY <1>3, GotoTypes DEF NextObject, PC
  <2> QED
    <3>1. cur' \in [Proc -> Obj]
      BY <1>3 DEF NextObject, ProcTypes
    <3> QED
      BY <1>3, <2>1, <3>1 DEF NextObject, ProcTypes
<1>4. ASSUME NEW p \in Proc, LookPacked(p) PROVE ProcTypes'
  <2>1. pc' \in [Proc -> PC]
    BY <1>4, GotoTypes DEF LookPacked, Done, PC
  <2> QED
    BY <1>4, <2>1 DEF LookPacked, Done, ProcTypes
<1>5. ASSUME NEW p \in Proc, LookLoose(p) PROVE ProcTypes'
  <2>1. pc' \in [Proc -> PC]
    BY <1>5, GotoTypes DEF LookLoose, Done, Missed, PC
  <2> QED
    BY <1>5, <2>1 DEF LookLoose, Done, ProcTypes
<1>6. ASSUME NEW p \in Proc, ListAgain(p) PROVE ProcTypes'
  <2>1. pc' \in [Proc -> PC]
    BY <1>6, GotoTypes DEF ListAgain, PC
  <2> QED
    BY <1>6, <2>1 DEF ListAgain, ProcTypes
<1>7. ASSUME NEW p \in Proc, WriteLoose(p) PROVE ProcTypes'
  <2>1. pc' \in [Proc -> PC]
    BY <1>7, GotoTypes DEF WriteLoose, Done, PC
  <2> QED
    BY <1>7, <2>1 DEF WriteLoose, Done, ProcTypes
<1>8. ASSUME NEW p \in Proc,
             \/ WriteKeep(p) \/ InstallPack(p) \/ Publish(p) \/ RemoveKeep(p) \/ StartGc(p)
             \/ FindExisting(p) \/ StartPackObjects(p) \/ CountObjects(p) \/ Loosen(p)
             \/ MoveOld(p) \/ MoveNew(p) \/ RemoveOld(p) \/ StartPrune(p) 
      PROVE ProcTypes'
  <2>1. \E l \in PC : Goto(p, l)
    BY <1>8 DEF PC, WriteKeep, InstallPack, Publish, RemoveKeep, StartGc, FindExisting,
                StartPackObjects, CountObjects, Loosen, MoveOld, MoveNew, RemoveOld, StartPrune
  <2>2. pc' \in [Proc -> PC]
    BY <2>1, GotoTypes
  <2>3. UNCHANGED <<began, cur, todo, reads>>
    BY <1>8 DEF WriteKeep, InstallPack, Publish, RemoveKeep, StartGc, FindExisting,
                StartPackObjects, CountObjects, Loosen, MoveOld, MoveNew, RemoveOld, StartPrune
  <2> QED
    BY <2>2, <2>3 DEF ProcTypes
<1>9. ASSUME NEW p \in Proc, RemoveRedundant(p) PROVE ProcTypes'
  <2>1. pc' \in [Proc -> PC]
    BY <1>9, GotoTypes DEF RemoveRedundant, PC, ProcTypes
  <2> QED
    BY <1>9, <2>1 DEF RemoveRedundant, ProcTypes
<1>10. ASSUME NEW p \in Proc, StartPrunePacked(p) \/ Mark(p) \/ Kill(p) PROVE ProcTypes'
  <2>1. pc' \in [Proc -> PC]
    BY <1>10, GotoTypes DEF StartPrunePacked, Mark, Kill, PC
  <2>2. UNCHANGED <<began, cur, reads>>
    BY <1>10 DEF StartPrunePacked, Mark, Kill
  <2>3. \E X \in SUBSET Obj : todo' = [todo EXCEPT ![p] = X]
    BY <1>10 DEF StartPrunePacked, Mark, Kill, LooseObjects
  <2> QED
    BY <2>1, <2>2, <2>3 DEF ProcTypes
<1>11. ASSUME NEW p \in Proc, UnlinkPacked(p) \/ Unlink(p) PROVE ProcTypes'
  <2>1. pc' \in [Proc -> PC]
    <3>1. pc' = pc \/ \E l \in PC : Goto(p, l)
      BY <1>11 DEF UnlinkPacked, Unlink, PC
    <3> QED
      BY <3>1, GotoTypes DEF ProcTypes
  <2>2. UNCHANGED <<began, cur, reads>>
    BY <1>11 DEF UnlinkPacked, Unlink
  <2>3. \E X \in SUBSET Obj : todo' = [todo EXCEPT ![p] = X] \/ todo' = todo
    <3>1. CASE UnlinkPacked(p)
      BY <3>1 DEF UnlinkPacked, ProcTypes
    <3>2. CASE Unlink(p)
      BY <3>2 DEF Unlink, LooseObjects, ProcTypes
    <3> QED
      BY <1>11, <3>1, <3>2
  <2> QED
    BY <2>1, <2>2, <2>3 DEF ProcTypes
<1>12. ASSUME DeleteRef \/ Tick PROVE ProcTypes'
  BY <1>12 DEF ProcTypes, DeleteRef, Tick
<1>13. CASE UNCHANGED vars
  BY <1>13 DEF ProcTypes, vars
<1> QED
  BY <1>1, <1>2, <1>3, <1>4, <1>5, <1>6, <1>7, <1>8, <1>9, <1>10, <1>11, <1>12, <1>13 DEF Next, Step

\* ... of their lists of packs ...
LEMMA NextLists == TypeOK /\ Places /\ [Next]_vars => ListTypes'
<1> SUFFICES ASSUME TypeOK, Places, [Next]_vars PROVE ListTypes'
  OBVIOUS
<1> USE TypeParts
<1>1. ASSUME NEW p \in Proc, List(p, {}, {}), opened' = [opened EXCEPT ![p] = {}] \/ FirstList(p)
      PROVE  ListTypes'
  <2>1. {listed', kept'} \subseteq [Proc -> SUBSET Pack]
    BY <1>1 DEF ListTypes, List, DiskTypes, Packs
  <2>2. opened' \in [Proc -> SUBSET Pack] /\ opened'[p] = {}
    BY <1>1 DEF ListTypes, FirstList, Places, PlaceOf
  <2>3. \A x \in Proc : kept'[x] \subseteq listed'[x] /\ opened'[x] \subseteq listed'[x]
    <3>1. \A x \in Proc \ {p} : listed'[x] = listed[x] /\ kept'[x] = kept[x] /\ opened'[x] = opened[x]
      BY <1>1 DEF ListTypes, List, FirstList
    <3>2. kept'[p] \subseteq listed'[p]
      BY <1>1 DEF ListTypes, List
    <3> QED
      BY <2>2, <3>1, <3>2 DEF ListTypes
  <2> QED
    BY <2>1, <2>2, <2>3 DEF ListTypes
<1>2. ASSUME NEW p \in Proc, NEW o, OpenOne(p, o), UNCHANGED <<listed, kept>> PROVE ListTypes'
  <2>1. PICK S \in Holding(p, o) : opened' = [opened EXCEPT ![p] = @ \cup {S}]
    BY <1>2 DEF OpenOne
  <2>2. S \in listed[p]
    BY DEF Holding
  <2>3. opened' \in [Proc -> SUBSET Pack]
    BY <2>1, <2>2 DEF ListTypes
  <2> QED
    BY <1>2, <2>1, <2>2, <2>3 DEF ListTypes
<1>3. ASSUME NEW p \in Proc, Forget(p) PROVE ListTypes'
  BY <1>3 DEF ListTypes, Forget
<1>4. ASSUME NEW p \in Proc, NEW X, UNCHANGED <<listed, kept>> \/ List(p, listed[p], kept[p]),
             Traverse(p, listed'[p]) \/ UNCHANGED opened
      PROVE  ListTypes'
  <2>1. \E L, K \in SUBSET Pack : /\ listed[p] \subseteq L /\ kept[p] \subseteq K /\ K \subseteq L
                                  /\ listed' = [listed EXCEPT ![p] = L]
                                  /\ kept' = [kept EXCEPT ![p] = K]
    <3>1. CASE UNCHANGED <<listed, kept>>
      BY <3>1 DEF ListTypes
    <3>2. CASE List(p, listed[p], kept[p])
      <4>1. kept[p] \cup ((Packs \ listed[p]) \cap keep) \subseteq listed[p] \cup Packs
        BY DEF ListTypes
      <4>2. /\ listed[p] \cup Packs \in SUBSET Pack
            /\ kept[p] \cup ((Packs \ listed[p]) \cap keep) \in SUBSET Pack
        BY DEF ListTypes, DiskTypes, Packs
      <4> QED
        BY <3>2, <4>1, <4>2 DEF List
    <3> QED
      BY <1>4, <3>1, <3>2
  <2>2. {listed', kept'} \subseteq [Proc -> SUBSET Pack]
    BY <2>1 DEF ListTypes
  <2>3. opened' \in [Proc -> SUBSET Pack] /\ opened'[p] \subseteq opened[p] \cup listed'[p]
    BY <1>4, <2>2 DEF ListTypes, Traverse
  <2>4. \A x \in Proc \ {p} : opened'[x] = opened[x]
    BY <1>4 DEF ListTypes, Traverse
  <2>5. listed[p] \subseteq listed'[p] /\ kept'[p] \subseteq listed'[p]
    BY <2>1 DEF ListTypes
  <2>6. \A x \in Proc \ {p} : listed'[x] = listed[x] /\ kept'[x] = kept[x]
    BY <2>1 DEF ListTypes
  <2> QED
    BY <2>2, <2>3, <2>4, <2>5, <2>6 DEF ListTypes
<1>5. ASSUME UNCHANGED <<listed, kept, opened>> PROVE ListTypes'
  BY <1>5 DEF ListTypes
<1>6. ASSUME NEW p \in Proc, FirstList(p) \/ StartPackObjects(p) \/ StartPrunePacked(p) \/ StartPrune(p)
      PROVE  ListTypes'
  BY <1>6, <1>1 DEF FirstList, StartPackObjects, StartPrunePacked, StartPrune
<1>7. ASSUME NEW p \in Proc, LookPacked(p) \/ UnlinkPacked(p) PROVE ListTypes'
  BY <1>7, <1>2, <1>3, <1>5 DEF LookPacked, UnlinkPacked
<1>8. ASSUME NEW p \in Proc, Publish(p) \/ Loosen(p) \/ Kill(p) PROVE ListTypes'
  BY <1>8, <1>3 DEF Publish, Loosen, Kill
<1>9. ASSUME NEW p \in Proc, ListAgain(p) \/ CountObjects(p) \/ Mark(p) PROVE ListTypes'
  <2>1. UNCHANGED <<listed, kept>> \/ List(p, listed[p], kept[p])
    BY <1>9 DEF ListAgain, CountObjects, Mark
  <2>2. Traverse(p, listed'[p]) \/ UNCHANGED opened
    BY <1>9 DEF ListAgain, CountObjects, Mark
  <2> QED
    BY <2>1, <2>2, <1>4
<1>10. ASSUME NEW p \in Proc,
              \/ Read(p) \/ NextObject(p) \/ LookLoose(p) \/ WriteLoose(p) \/ WriteKeep(p)
              \/ InstallPack(p) \/ RemoveKeep(p) \/ StartGc(p) \/ FindExisting(p) \/ MoveOld(p)
              \/ MoveNew(p) \/ RemoveOld(p) \/ RemoveRedundant(p) \/ Unlink(p)
       PROVE  ListTypes'
  BY <1>10, <1>5 DEF Read, NextObject, LookLoose, WriteLoose, WriteKeep, InstallPack, RemoveKeep,
    StartGc, FindExisting, MoveOld, MoveNew, RemoveOld, RemoveRedundant, Unlink
<1>11. CASE UNCHANGED vars
  BY <1>11, <1>5 DEF vars
<1>12. ASSUME DeleteRef \/ Tick PROVE ListTypes'
  BY <1>12, <1>5 DEF DeleteRef, Tick
<1> QED
  BY <1>6, <1>7, <1>8, <1>9, <1>10, <1>11, <1>12 DEF Next, Step

\* ... and of what the gcs decide.
LEMMA NextGcTypes == TypeOK /\ Places /\ [Next]_vars => GcTypes'
<1> SUFFICES ASSUME TypeOK, Places, [Next]_vars PROVE GcTypes'
  OBVIOUS
<1> USE TypeParts
<1>1. ASSUME UNCHANGED gcvars PROVE GcTypes'
  BY <1>1 DEF GcTypes, gcvars
<1>2. ASSUME NEW p \in Proc, StartGc(p) PROVE GcTypes'
  <2>1. mode' \in [Gc -> Mode]
    BY <1>2 DEF GcTypes, StartGc
  <2>2. runs' \in [Gc -> Nat] /\ \A x \in Gc : runs'[x] <= MaxGc[x]
    BY <1>2 DEF GcTypes, StartGc
  <2> QED
    BY <1>2, <2>1, <2>2 DEF GcTypes, StartGc
<1>3. ASSUME NEW p \in Proc, FindExisting(p) PROVE GcTypes'
  BY <1>3 DEF GcTypes, FindExisting, Existing, DiskTypes, Packs
<1>4. ASSUME NEW p \in Proc, StartPackObjects(p) \/ StartPrune(p) PROVE GcTypes'
  <2>1. clock - Grace \in Int
    BY DEF DiskTypes, Time
  <2> QED
    BY <1>4, <2>1 DEF GcTypes, StartPackObjects, StartPrune
<1>5. ASSUME NEW p \in Proc, CountObjects(p) \/ Mark(p) PROVE GcTypes'
  BY <1>5 DEF GcTypes, CountObjects, Mark, DiskTypes
<1>6. ASSUME NEW p \in Proc, Loosen(p) PROVE GcTypes'
  <2>1. p \in Gc
    BY <1>6, WhoIsWhere DEF Loosen, Sorting, RepackPhase
  <2>2. {o \in reach[p] : ~LeftOut(p, o)} \in SUBSET Obj
    BY <2>1 DEF GcTypes
  <2> QED
    BY <1>6, <2>1, <2>2 DEF GcTypes, Loosen
<1>7. ASSUME NEW p \in Proc, RemoveRedundant(p) PROVE GcTypes'
  BY <1>7 DEF GcTypes, RemoveRedundant
<1>8. ASSUME NEW p \in Proc,
             \/ Looking(p) \/ WriteLoose(p) \/ WriteKeep(p) \/ InstallPack(p) \/ Publish(p)
             \/ RemoveKeep(p) \/ MoveOld(p) \/ MoveNew(p) \/ RemoveOld(p) \/ StartPrunePacked(p)
             \/ UnlinkPacked(p) \/ Unlink(p) \/ Kill(p)
      PROVE  GcTypes'
  BY <1>8, <1>1, LookingQuiet
  DEF gcvars, WriteLoose, WriteKeep, InstallPack, Publish, RemoveKeep, MoveOld,
    MoveNew, RemoveOld, StartPrunePacked, UnlinkPacked, Unlink, Kill
<1>9. ASSUME DeleteRef \/ Tick PROVE GcTypes'
  BY <1>9, <1>1 DEF DeleteRef, Tick
<1>10. CASE UNCHANGED vars
  BY <1>10, <1>1 DEF vars
<1> QED
  BY <1>2, <1>3, <1>4, <1>5, <1>6, <1>7, <1>8, <1>9, <1>10 DEF Next, Step, Looking

-----------------------------------------------------------------------------
(* What a step touches *)

\* Every step changes only what belongs to the process that takes it ...
LEMMA StepShape ==
  ASSUME NEW p \in Proc, Step(p) \/ Kill(p)
  PROVE  /\ pc' = pc \/ \E v : pc' = [pc EXCEPT ![p] = v]
         /\ began' = began \/ \E v : began' = [began EXCEPT ![p] = v]
         /\ cur' = cur \/ \E v : cur' = [cur EXCEPT ![p] = v]
         /\ todo' = todo \/ \E v : todo' = [todo EXCEPT ![p] = v]
         /\ listed' = listed \/ \E v : listed' = [listed EXCEPT ![p] = v]
         /\ kept' = kept \/ \E v : kept' = [kept EXCEPT ![p] = v]
         /\ opened' = opened \/ \E v : opened' = [opened EXCEPT ![p] = v]
         /\ mode' = mode \/ \E v : mode' = [mode EXCEPT ![p] = v]
         /\ existing' = existing \/ \E v : existing' = [existing EXCEPT ![p] = v]
         /\ expire' = expire \/ \E v : expire' = [expire EXCEPT ![p] = v]
         /\ reach' = reach \/ \E v : reach' = [reach EXCEPT ![p] = v]
         /\ new' = new \/ \E v : new' = [new EXCEPT ![p] = v]
<1> USE DEF Step, Kill, FirstList, Read, NextObject, LookPacked, LookLoose, ListAgain, WriteLoose,
            WriteKeep, InstallPack, Publish, RemoveKeep, StartGc, FindExisting, StartPackObjects,
            CountObjects, Loosen, MoveOld, MoveNew, RemoveOld, RemoveRedundant, StartPrunePacked,
            UnlinkPacked, StartPrune, Mark, Unlink, gcvars
<1>1. pc' = pc \/ \E v : pc' = [pc EXCEPT ![p] = v]
  BY DEF Goto, Done
<1>2. began' = began \/ \E v : began' = [began EXCEPT ![p] = v]
  OBVIOUS
<1>3. cur' = cur \/ \E v : cur' = [cur EXCEPT ![p] = v]
  OBVIOUS
<1>4. todo' = todo \/ \E v : todo' = [todo EXCEPT ![p] = v]
  BY DEF Done
<1>5. listed' = listed \/ \E v : listed' = [listed EXCEPT ![p] = v]
  BY DEF List, Forget
<1>6. kept' = kept \/ \E v : kept' = [kept EXCEPT ![p] = v]
  BY DEF List, Forget
<1>7. opened' = opened \/ \E v : opened' = [opened EXCEPT ![p] = v]
  BY DEF OpenOne, Traverse, Forget
<1>8. mode' = mode \/ \E v : mode' = [mode EXCEPT ![p] = v]
  OBVIOUS
<1>9. existing' = existing \/ \E v : existing' = [existing EXCEPT ![p] = v]
  OBVIOUS
<1>10. expire' = expire \/ \E v : expire' = [expire EXCEPT ![p] = v]
  OBVIOUS
<1>11. reach' = reach \/ \E v : reach' = [reach EXCEPT ![p] = v]
  OBVIOUS
<1>12. new' = new \/ \E v : new' = [new EXCEPT ![p] = v]
  OBVIOUS
<1> QED
  BY <1>1, <1>2, <1>3, <1>4, <1>5, <1>6, <1>7, <1>8, <1>9, <1>10, <1>11, <1>12

\* ... so the others know and want what they did.
LEMMA Others ==
  ASSUME TypeOK, NEW p \in Proc, Step(p) \/ Kill(p), NEW x \in Proc, x # p
  PROVE  /\ pc'[x] = pc[x] /\ began'[x] = began[x] /\ todo'[x] = todo[x] /\ cur'[x] = cur[x]
         /\ listed'[x] = listed[x] /\ kept'[x] = kept[x] /\ opened'[x] = opened[x]
  BY StepShape, TypeParts DEF ProcTypes, ListTypes

\* Nor does a step touch what other gcs have decided.
LEMMA OtherGcs ==
  ASSUME TypeOK, NEW p \in Proc, Step(p) \/ Kill(p), NEW g \in Gc, g # p
  PROVE  /\ mode'[g] = mode[g] /\ existing'[g] = existing[g] /\ expire'[g] = expire[g]
         /\ reach'[g] = reach[g] /\ new'[g] = new[g]
  BY StepShape, TypeParts DEF GcTypes

\* The first states
LEMMA Initially == Init => TypeOK /\ Places
<1> SUFFICES ASSUME Init PROVE TypeOK /\ Places
  OBVIOUS
<1>1. ASSUME NEW o \in Obj PROVE InitBorn(o) \in Time
  <2> DEFINE X == {0} \cup ({InitLoose[o]} \ {None})
                   \cup {InitPacks[S] : S \in {T \in DOMAIN InitPacks : o \in T}}
  <2>1. /\ X \subseteq Time
        /\ X # {}
    BY DEF Time
  <2> QED
    BY <2>1, MaxOfTimes DEF InitBorn
<1>2. DiskTypes
  BY <1>1 DEF Init, DiskTypes
<1>3. ProcTypes
  BY DEF Init, ProcTypes, PC
<1>4. ListTypes
  BY DEF Init, ListTypes
<1>5. GcTypes
  BY DEF Init, GcTypes, Mode
<1>6. Places
  BY DEF Init, Places, PlaceOf, Proc
<1> QED
  BY <1>2, <1>3, <1>4, <1>5, <1>6, TypeParts

\* What a step does to the disk, and at which place of which process.
LEMMA Effects ==
  ASSUME TypeOK, Places, NEW p \in Proc, Step(p) \/ Kill(p)
  PROVE  /\ \/ refs' = refs
            \/ /\ Publish(p) /\ p \in Writer \cup Pusher
               /\ refs' = refs \cup Result(p)
         /\ \/ packs' = packs
            \/ InstallPack(p) /\ p \in Pusher /\ Packs' = Packs \cup {Pushed[p]}
            \/ MoveNew(p) /\ p \in Gc /\ Packs' = Packs \cup {new[p]}
            \/ MoveOld(p) /\ p \in Gc /\ Packs' = Packs \ {new[p]} /\ old' = old \cup {new[p]}
            \/ /\ RemoveRedundant(p) /\ p \in Gc
               /\ \E S \in existing[p] \ {new[p]} :
                     Packs' = Packs \ {S} /\ keep' = keep \ {S} /\ existing'[p] = existing[p] \ {S}
         /\ \/ keep' = keep
            \/ WriteKeep(p) /\ p \in Pusher /\ keep' = keep \cup {Pushed[p]}
            \/ RemoveKeep(p) /\ p \in Pusher /\ keep' = keep \ {Pushed[p]}
            \/ RemoveRedundant(p) /\ p \in Gc
         /\ \/ old' = old
            \/ MoveOld(p) /\ p \in Gc
            \/ RemoveOld(p) /\ p \in Gc /\ old' = old \ {new[p]}
         /\ \A o \in Obj :
            \/ loose'[o] = loose[o]
            \/ /\ WriteLoose(p) /\ p \in Writer /\ o = cur[p]
               /\ loose[o] = None /\ loose'[o] = clock
            \/ /\ Loosen(p) /\ p \in Gc /\ o \in Loosened(p)
               /\ loose[o] = None /\ loose'[o] = PackTime(p, o) /\ loose'[o] # None
            \/ /\ UnlinkPacked(p) /\ p \in Gc
               /\ loose'[o] = None /\ Holding(p, o) # {}
            \/ /\ Unlink(p) /\ p \in Gc
               /\ loose'[o] = None /\ loose[o] # None /\ Expired(p, o)
<1> USE TypeParts
<1>1. CASE Looking(p) \/ Deciding(p) \/ Kill(p)
  BY <1>1, LookingQuiet, DecidingQuiet
<1>2. CASE WriteLoose(p)
  <2>1. p \in Writer
    BY <1>2, WhoIsWhere DEF WriteLoose
  <2>2. UNCHANGED <<refs, packs, keep, old>>
    BY <1>2 DEF WriteLoose
  <2>3. \A o \in Obj : loose'[o] = loose[o] \/ (o = cur[p] /\ loose[o] = None /\ loose'[o] = clock)
    <3>1. loose' = [loose EXCEPT ![cur[p]] = IF @ = None THEN clock ELSE @]
      BY <1>2 DEF WriteLoose
    <3>2. loose \in [Obj -> Time \cup {None}]
      BY DEF DiskTypes
    <3>3. TAKE o \in Obj
    <3>4. loose'[o] = IF o = cur[p] /\ loose[o] = None THEN clock ELSE loose[o]
      BY <3>1, <3>2
    <3> QED
      BY <3>4
  <2> QED
    BY <1>2, <2>1, <2>2, <2>3
<1>3. CASE WriteKeep(p) \/ RemoveKeep(p)
  <2>1. p \in Pusher
    BY <1>3, WhoIsWhere DEF WriteKeep, RemoveKeep
  <2> QED
    BY <1>3, <2>1 DEF WriteKeep, RemoveKeep
<1>4. CASE InstallPack(p)
  <2>1. p \in Pusher
    BY <1>4, WhoIsWhere DEF InstallPack
  <2>2. UNCHANGED <<refs, loose, keep, old>>
    BY <1>4 DEF InstallPack
  <2>3. Packs' = Packs \cup {Pushed[p]}
    BY <1>4 DEF InstallPack, With, Packs
  <2> QED
    BY <1>4, <2>1, <2>2, <2>3
<1>5. CASE Publish(p)
  <2>1. p \in Writer \cup Pusher
    BY <1>5, WhoIsWhere DEF Publish
  <2> QED
    BY <1>5, <2>1 DEF Publish
<1>6. CASE Loosen(p)
  <2>1. p \in Gc
    BY <1>6, WhoIsWhere DEF Loosen, Sorting, RepackPhase
  <2>2. UNCHANGED <<refs, packs, keep, old>>
    BY <1>6 DEF Loosen
  <2>3. ASSUME NEW o \in Obj PROVE \/ loose'[o] = loose[o]
                                   \/ /\ o \in Loosened(p) /\ loose[o] = None
                                      /\ loose'[o] = PackTime(p, o) /\ loose'[o] # None
    <3>1. CASE o \notin Loosened(p)
      BY <1>6, <3>1 DEF Loosen
    <3>2. CASE o \in Loosened(p)
      <4>1. loose[o] = None /\ \E S \in (listed[p] \ kept[p]) \cap Packs : o \in S
        BY <3>2 DEF Loosened
      <4>2. PackTime(p, o) \in Time
        <5>1. {packs[S] : S \in {T \in (listed[p] \ kept[p]) \cap Packs : o \in T}} \subseteq Time
          BY DEF DiskTypes, Packs
        <5> QED
          BY <4>1, <5>1, MaxOfTimes DEF PackTime
      <4>3. loose'[o] = PackTime(p, o)
        BY <1>6, <3>2 DEF Loosen
      <4> QED
        BY <3>2, <4>1, <4>2, <4>3
    <3> QED
      BY <3>1, <3>2
  <2> QED
    BY <1>6, <2>1, <2>2, <2>3
<1>7. CASE MoveOld(p)
  <2>1. p \in Gc
    BY <1>7, WhoIsWhere DEF MoveOld, Sorting, RepackPhase
  <2> QED
    BY <1>7, <2>1 DEF MoveOld, Without, Packs
<1>8. CASE MoveNew(p)
  <2>1. p \in Gc
    BY <1>8, WhoIsWhere DEF MoveNew, Sorting, RepackPhase
  <2> QED
    BY <1>8, <2>1 DEF MoveNew, With, Packs
<1>9. CASE RemoveOld(p)
  <2>1. p \in Gc
    BY <1>9, WhoIsWhere DEF RemoveOld, Sorting, RepackPhase
  <2> QED
    BY <1>9, <2>1 DEF RemoveOld
<1>10. CASE RemoveRedundant(p)
  <2>1. p \in Gc
    BY <1>10, WhoIsWhere DEF RemoveRedundant, Sorting, RepackPhase
  <2>2. UNCHANGED <<refs, loose, old>>
    BY <1>10 DEF RemoveRedundant
  <2>3. \/ UNCHANGED <<packs, keep>>
        \/ \E S \in existing[p] \ {new[p]} :
              Packs' = Packs \ {S} /\ keep' = keep \ {S} /\ existing'[p] = existing[p] \ {S}
    BY <1>10, <2>1 DEF RemoveRedundant, Without, Packs, GcTypes
  <2> QED
    BY <1>10, <2>1, <2>2, <2>3
<1>11. CASE UnlinkPacked(p)
  <2>1. p \in Gc
    BY <1>11, WhoIsWhere DEF UnlinkPacked
  <2>2. UNCHANGED <<refs, packs, keep, old>>
    BY <1>11 DEF UnlinkPacked
  <2>3. \A o \in Obj : loose'[o] = loose[o] \/ (loose'[o] = None /\ Holding(p, o) # {})
    <3>1. \/ UNCHANGED loose
          \/ \E o \in todo[p] : Holding(p, o) # {} /\ loose' = [loose EXCEPT ![o] = None]
      BY <1>11 DEF UnlinkPacked, OpenOne
    <3>2. loose \in [Obj -> Time \cup {None}]
      BY DEF DiskTypes
    <3>3. TAKE o \in Obj
    <3>4. CASE UNCHANGED loose
      BY <3>4
    <3>5. CASE \E x \in todo[p] : Holding(p, x) # {} /\ loose' = [loose EXCEPT ![x] = None]
      <4>1. PICK x \in todo[p] : Holding(p, x) # {} /\ loose' = [loose EXCEPT ![x] = None]
        BY <3>5
      <4>2. CASE o = x
        BY <3>2, <4>1, <4>2
      <4>3. CASE o # x
        BY <3>2, <4>1, <4>3
      <4> QED
        BY <4>2, <4>3
    <3> QED
      BY <3>1, <3>4, <3>5
  <2> QED
    BY <1>11, <2>1, <2>2, <2>3
<1>12. CASE Unlink(p)
  <2>1. p \in Gc
    BY <1>12, WhoIsWhere DEF Unlink
  <2>2. UNCHANGED <<refs, packs, keep, old>>
    BY <1>12 DEF Unlink
  <2>3. \A o \in Obj : \/ loose'[o] = loose[o]
                       \/ loose'[o] = None /\ loose[o] # None /\ Expired(p, o)
    BY <1>12 DEF Unlink, DiskTypes
  <2> QED
    BY <1>12, <2>1, <2>2, <2>3
<1> QED
  BY <1>1, <1>2, <1>3, <1>4, <1>5, <1>6, <1>7, <1>8, <1>9, <1>10, <1>11, <1>12
  DEF Step, Looking, Deciding

\* A process is of one kind.
LEMMA Kinds == ASSUME NEW x \in Proc
               PROVE  /\ x \in Writer => x \notin Pusher \cup Reader \cup Gc
                      /\ x \in Pusher => x \notin Writer \cup Reader \cup Gc
                      /\ x \in Reader => x \notin Writer \cup Pusher \cup Gc
                      /\ x \in Gc => x \notin Writer \cup Pusher \cup Reader
                      /\ x \in Writer => Job[x] \in SUBSET Obj
  OBVIOUS

\* Every process stays at places of its kind.
LEMMA NextPlaces == TypeOK /\ Places /\ [Next]_vars => Places'
<1> SUFFICES ASSUME TypeOK, Places, [Next]_vars, NEW x \in Proc PROVE PlaceOf(x)'
  BY DEF Places
<1> USE TypeParts
<1>1. PlaceOf(x)
  BY DEF Places
<1>2. ASSUME NEW p \in Proc, Step(p) \/ Kill(p), x # p PROVE PlaceOf(x)'
  <2>1. UNCHANGED <<pc[x], todo[x], cur[x], opened[x]>>
    BY <1>2, Others
  <2>2. x \in Gc => UNCHANGED new[x]
    BY <1>2, OtherGcs
  <2> QED
    BY <1>1, <2>1, <2>2 DEF PlaceOf
<1> USE DEF PlaceOf, ProcTypes, Goto
<1>3. ASSUME FirstList(x) PROVE PlaceOf(x)'
  <2>1. pc'[x] = "ready" /\ x \notin Gc /\ todo'[x] = IF x \in Writer THEN Job[x] ELSE {}
    BY <1>3 DEF FirstList
  <2> QED
    BY <1>1, <2>1, <1>3 DEF FirstList
<1>4. ASSUME Read(x) PROVE PlaceOf(x)'
  BY <1>1, <1>4, Kinds DEF Read
<1>5. ASSUME NextObject(x) PROVE PlaceOf(x)'
  <2>1. pc'[x] = "packed" /\ x \in Writer /\ cur'[x] \in todo[x] /\ todo'[x] = todo[x]
    BY <1>5 DEF NextObject
  <2> QED
    BY <1>1, <2>1, Kinds
<1>6. ASSUME LookPacked(x) PROVE PlaceOf(x)'
  <2>1. x \in Writer \/ x \in Reader
    BY <1>1, <1>6 DEF LookPacked, Sorting, RepackPhase, Proc
  <2>2. CASE Done(x)
    BY <1>1, <1>6, <2>1, <2>2, Kinds DEF LookPacked, Done
  <2>3. CASE ~Done(x)
    <3>1. todo'[x] = todo[x] /\ cur'[x] = cur[x] /\ pc'[x] = IF pc[x] = "packed" THEN "loose" ELSE "failed"
      BY <1>6, <2>3 DEF LookPacked
    <3>2. pc[x] \in {"packed", "packed2"}
      BY <1>6 DEF LookPacked
    <3> QED
      BY <1>1, <2>1, <3>1, <3>2, Kinds
  <2> QED
    BY <2>2, <2>3
<1>7. ASSUME LookLoose(x) PROVE PlaceOf(x)'
  <2>1. x \in Writer \/ x \in Reader
    BY <1>1, <1>7 DEF LookLoose, Sorting, RepackPhase, Proc
  <2>2. CASE Done(x)
    BY <1>1, <1>7, <2>1, <2>2, Kinds DEF LookLoose, Done
  <2>3. CASE ~Done(x)
    <3>1. todo'[x] = todo[x] /\ cur'[x] = cur[x] /\ pc'[x] = IF x \in Reader THEN "again" ELSE "write"
      BY <1>7, <2>3 DEF LookLoose, Missed
    <3>2. pc[x] = "loose"
      BY <1>7 DEF LookLoose
    <3> QED
      BY <1>1, <2>1, <3>1, <3>2, Kinds
  <2> QED
    BY <2>2, <2>3
<1>8. ASSUME ListAgain(x) PROVE PlaceOf(x)'
  BY <1>1, <1>8, WhoIsWhere, Kinds DEF ListAgain
<1>9. ASSUME WriteLoose(x) PROVE PlaceOf(x)'
  <2>1. x \in Writer
    BY <1>9, WhoIsWhere DEF WriteLoose
  <2> QED
    BY <1>1, <1>9, <2>1, Kinds DEF WriteLoose, Done
<1>10. ASSUME WriteKeep(x) \/ InstallPack(x) \/ RemoveKeep(x) PROVE PlaceOf(x)'
  <2>1. x \in Pusher /\ pc'[x] \in {"install", "publish", "end"}
    BY <1>10, WhoIsWhere DEF WriteKeep, InstallPack, RemoveKeep
  <2> QED
    BY <2>1, Kinds
<1>11. ASSUME Publish(x) PROVE PlaceOf(x)'
  <2>1. x \in Writer \cup Pusher /\ todo'[x] = todo[x] /\ pc'[x] = IF x \in Pusher THEN "unkeep" ELSE "end"
    BY <1>11, WhoIsWhere DEF Publish
  <2> QED
    BY <1>1, <2>1, Kinds
<1>12. ASSUME \/ StartGc(x) \/ FindExisting(x) \/ StartPackObjects(x) \/ CountObjects(x) \/ MoveNew(x)
              \/ RemoveOld(x) \/ RemoveRedundant(x) \/ StartPrunePacked(x) \/ UnlinkPacked(x)
              \/ StartPrune(x) \/ Mark(x) \/ Unlink(x)
       PROVE  PlaceOf(x)'
  <2>1. x \in Gc
    BY <1>12, WhoIsWhere
    DEF StartGc, FindExisting, StartPackObjects, CountObjects, MoveNew, RemoveOld,
      RemoveRedundant, StartPrunePacked, UnlinkPacked, StartPrune, Mark, Unlink, Sorting, RepackPhase
  <2>2. pc'[x] = pc[x] \/ pc'[x] \in
                           {"existing", "pack-objects", "count", "loosen", "failed", "rmold", "redundant",
            "prune-packed", "unlinkpacked", "prune", "end", "mark", "unlink", "unlinkpacked2"}
    BY <1>12 DEF StartGc, FindExisting, StartPackObjects, CountObjects, MoveNew, RemoveOld,
      RemoveRedundant, StartPrunePacked, UnlinkPacked, StartPrune, Mark, Unlink
  <2>3. pc[x] \notin {"moveold", "new"} \/ pc'[x] # pc[x]
    BY <1>12 DEF StartGc, FindExisting, StartPackObjects, CountObjects, MoveNew, RemoveOld,
      RemoveRedundant, StartPrunePacked, UnlinkPacked, StartPrune, Mark, Unlink
  <2>4. pc[x] # "move" \/ pc'[x] # pc[x]
    BY <1>12 DEF StartGc, FindExisting, StartPackObjects, CountObjects, MoveNew, RemoveOld,
      RemoveRedundant, StartPrunePacked, UnlinkPacked, StartPrune, Mark, Unlink
  <2> QED
    BY <1>1, <2>1, <2>2, <2>3, <2>4, Kinds DEF Sorting, RepackPhase
<1>13. ASSUME Loosen(x) PROVE PlaceOf(x)'
  <2>1. x \in Gc
    BY <1>13, WhoIsWhere DEF Loosen, Sorting, RepackPhase
  <2>2. pc'[x] = IF new'[x] = {} THEN "redundant" ELSE IF new'[x] \in Packs THEN "moveold" ELSE "move"
    BY <1>13 DEF Loosen
  <2> QED
    BY <2>1, <2>2, Kinds DEF Sorting, RepackPhase
<1>14. ASSUME MoveOld(x) PROVE PlaceOf(x)'
  <2>1. x \in Gc /\ pc[x] = "moveold" /\ pc'[x] = "move" /\ new' = new
    BY <1>14, WhoIsWhere DEF MoveOld, Sorting, RepackPhase, gcvars
  <2> QED
    BY <1>1, <2>1, Kinds DEF Sorting, RepackPhase
<1>15. ASSUME Kill(x) PROVE PlaceOf(x)'
  <2>1. pc'[x] = "killed" /\ x \notin Reader /\ todo'[x] = {}
    BY <1>15 DEF Kill
  <2> QED
    BY <2>1
<1>16. CASE DeleteRef \/ Tick \/ UNCHANGED vars
  <2>1. UNCHANGED <<pc, todo, cur, opened, new>>
    BY <1>16 DEF DeleteRef, Tick, vars, gcvars
  <2> QED
    BY <1>1, <2>1
<1> QED
  BY <1>2, <1>3, <1>4, <1>5, <1>6, <1>7, <1>8, <1>9, <1>10, <1>11, <1>12, <1>13, <1>14, <1>15, <1>16
  DEF Next, Step

-----------------------------------------------------------------------------
(* Who runs, and when *)

\* Nobody comes or goes: gc is run again by the same process.
LEMMA NoneComes == ASSUME TypeOK, Places, [Next]_vars, NEW x \in Proc
                   PROVE  pc'[x] = "absent" <=> pc[x] = "absent"
<1>1. ASSUME NEW p \in Proc, Step(p) \/ Kill(p) PROVE pc[p] # "absent"
  BY <1>1
  DEF Step, Kill, Running, FirstList, Read, NextObject, LookPacked, LookLoose, ListAgain,
      WriteLoose,
            WriteKeep, InstallPack, Publish, RemoveKeep, StartGc, FindExisting, StartPackObjects,
            CountObjects, Loosen, MoveOld, MoveNew, RemoveOld, RemoveRedundant, StartPrunePacked,
            UnlinkPacked, StartPrune, Mark, Unlink
<1>2. ASSUME NEW p \in Proc, Step(p) \/ Kill(p) PROVE pc'[p] # "absent"
  <2>1. pc' = pc \/ \E l \in PC \ {"absent"} : Goto(p, l)
    BY <1>2
    DEF Step, Kill, Done, PC, FirstList, Read, NextObject, LookPacked, LookLoose, ListAgain,
        WriteLoose,
            WriteKeep, InstallPack, Publish, RemoveKeep, StartGc, FindExisting, StartPackObjects, Missed,
            CountObjects, Loosen, MoveOld, MoveNew, RemoveOld, RemoveRedundant, StartPrunePacked,
            UnlinkPacked, StartPrune, Mark, Unlink
  <2> QED
    BY <1>1, <1>2, <2>1, TypeParts DEF Goto, ProcTypes
<1>3. CASE DeleteRef \/ Tick \/ UNCHANGED vars
  BY <1>3 DEF DeleteRef, Tick, vars
<1> QED
  BY <1>1, <1>2, <1>3, Others DEF Next

\* There is one gc from the start on.
LEMMA InitAlone == ASSUME OneGc PROVE Init => Alone
  BY DEF Init, Alone, OneGc, Proc

\* And there is no second one later.
LEMMA NextAlone == TypeOK /\ Places /\ Alone /\ [Next]_vars => Alone'
  BY NoneComes DEF Alone, Proc

\* At the start nobody runs.
LEMMA InitDates == Init => Dates
<1> SUFFICES ASSUME Init PROVE Dates
  OBVIOUS
<1>1. \A p \in Proc : ~Running(p) /\ began[p] = clock /\ clock \in Time
  BY DEF Init, Running
<1> QED
  BY <1>1 DEF Dates, Proc, Time, Init

\* The clock only goes on ...
LEMMA Later == ASSUME TypeOK, [Next]_vars
               PROVE  /\ clock \in Nat /\ clock' \in Nat
                      /\ (clock' = clock) \/ (Tick /\ clock' = clock + 1)
<1>1. clock \in Nat
  BY TypeParts DEF DiskTypes, Time
<1>2. ASSUME NEW p \in Proc, Step(p) \/ Kill(p) PROVE clock' = clock
  BY <1>2 DEF Step, Kill, FirstList, Read, NextObject, LookPacked, LookLoose, ListAgain, WriteLoose,
            WriteKeep, InstallPack, Publish, RemoveKeep, StartGc, FindExisting, StartPackObjects,
            CountObjects, Loosen, MoveOld, MoveNew, RemoveOld, RemoveRedundant, StartPrunePacked,
            UnlinkPacked, StartPrune, Mark, Unlink
<1>3. (clock' = clock) \/ (Tick /\ clock' = clock + 1)
  BY <1>2 DEF Next, DeleteRef, Tick, vars
<1> QED
  BY <1>1, <1>3

\* ... and a process remembers when it started.
LEMMA Starts == ASSUME TypeOK, Places, [Next]_vars, NEW x \in Proc
                PROVE  \/ FirstList(x) /\ began'[x] = clock /\ clock' = clock
                       \/ began'[x] = began[x] /\ (Running(x)' => Running(x) \/ x \in Gc)
<1>1. ASSUME NEW p \in Proc, Step(p) \/ Kill(p), p # x PROVE began'[x] = began[x] /\ pc'[x] = pc[x]
  BY <1>1, Others
<1>2. ASSUME FirstList(x) PROVE began'[x] = clock /\ clock' = clock
  BY <1>2, TypeParts DEF FirstList, ProcTypes
<1>3. ASSUME Step(x) \/ Kill(x), ~FirstList(x) PROVE began'[x] = began[x] /\ (Running(x) \/ x \in Gc)
  BY <1>3, TypeParts
  DEF ProcTypes, Step, Kill, Running, Read, NextObject, LookPacked, LookLoose, ListAgain,
      WriteLoose,
            WriteKeep, InstallPack, Publish, RemoveKeep, StartGc, FindExisting, StartPackObjects,
            CountObjects, Loosen, MoveOld, MoveNew, RemoveOld, RemoveRedundant, StartPrunePacked,
            UnlinkPacked, StartPrune, Mark, Unlink
<1>4. CASE DeleteRef \/ Tick \/ UNCHANGED vars
  BY <1>4 DEF DeleteRef, Tick, vars, Running
<1> QED
  BY <1>1, <1>2, <1>3, <1>4 DEF Next, Running

\* An expiry is set by the clock.
LEMMA Expiries == ASSUME TypeOK, Places, [Next]_vars, NEW g \in Gc,
                         pc'[g] \in {"count", "loosen", "mark", "unlink"}
                  PROVE  \/ expire'[g] = clock - Grace
                         \/ expire'[g] = expire[g] /\ pc[g] \in {"count", "loosen", "mark", "unlink"}
<1>1. ASSUME NEW p \in Proc, Step(p) \/ Kill(p), p # g PROVE expire'[g] = expire[g] /\ pc'[g] = pc[g]
  BY <1>1, Others, OtherGcs DEF Proc
<1>2. CASE StartPackObjects(g) \/ StartPrune(g)
  BY <1>2, TypeParts DEF GcTypes, StartPackObjects, StartPrune
<1>3. ASSUME Step(g) \/ Kill(g), ~(StartPackObjects(g) \/ StartPrune(g))
      PROVE expire'[g] = expire[g] /\ pc[g] \in {"count", "loosen", "mark", "unlink"}
  <2>1. expire' = expire
    BY <1>3
    DEF Step, Kill, FirstList, Read, NextObject, LookPacked, LookLoose, ListAgain, WriteLoose,
            WriteKeep, InstallPack, Publish, RemoveKeep, StartGc, FindExisting, gcvars,
            CountObjects, Loosen, MoveOld, MoveNew, RemoveOld, RemoveRedundant, StartPrunePacked,
            UnlinkPacked, Mark, Unlink
  <2>2. \/ pc[g] \in {"count", "loosen", "mark", "unlink"} 
        \/ \E l \in PC \ {"count", "loosen", "mark", "unlink"} : Goto(g, l)
        \/ pc' = pc
    BY <1>3
    DEF Step, Kill, Done, PC, FirstList, Read, NextObject, LookPacked, LookLoose, ListAgain,
        WriteLoose,
            WriteKeep, InstallPack, Publish, RemoveKeep, StartGc, FindExisting, Missed,
            CountObjects, Loosen, MoveOld, MoveNew, RemoveOld, RemoveRedundant, StartPrunePacked,
            UnlinkPacked, Mark, Unlink
  <2>3. pc \in [Proc -> PC] /\ g \in Proc
    BY TypeParts DEF ProcTypes, Proc
  <2> QED
    BY <2>1, <2>2, <2>3 DEF Goto
<1>4. CASE DeleteRef \/ Tick \/ UNCHANGED vars
  BY <1>4 DEF DeleteRef, Tick, vars, gcvars
<1> QED
  BY <1>1, <1>2, <1>3, <1>4 DEF Next

\* Nobody is overtaken by the grace period.
LEMMA NextDates == TypeOK /\ Places /\ Dates /\ [Next]_vars => Dates'
<1> SUFFICES ASSUME TypeOK, Places, Dates, [Next]_vars PROVE Dates'
  OBVIOUS
<1>1. \A p \in Proc : began[p] \in Nat
  BY TypeParts DEF ProcTypes, Time
<1>2. \A g \in Gc : expire[g] \in Int
  BY TypeParts DEF GcTypes
<1>3. Grace \in Nat \ {0}
  OBVIOUS
<1>4. ASSUME NEW p \in Writer \cup Pusher, Running(p)' PROVE clock' < began'[p] + Grace
  <2>0. p \in Proc /\ p \notin Gc
    BY Kinds DEF Proc
  <2>1. CASE began'[p] = clock /\ clock' = clock
    BY <2>1, <1>3, Later
  <2>2. CASE began'[p] = began[p] /\ Running(p)
    <3>1. CASE clock' = clock
      BY <2>2, <3>1 DEF Dates
    <3>2. CASE Tick /\ clock' = clock + 1
      BY <2>2, <3>2 DEF Tick
    <3> QED
      BY <3>1, <3>2, Later
  <2> QED
    BY <1>4, <2>0, <2>1, <2>2, Starts
<1>5. ASSUME NEW g \in Gc, pc'[g] \in {"count", "loosen", "mark", "unlink"}
      PROVE  expire'[g] <= clock' - Grace
  <2>1. clock' >= clock /\ clock \in Nat /\ clock' \in Nat
    BY Later
  <2>2. expire'[g] <= clock - Grace /\ expire'[g] \in Int
    BY <1>2, <1>3, <1>5, <2>1, Expiries DEF Dates
  <2> QED
    BY <1>3, <2>1, <2>2
<1>6. ASSUME NEW p \in Proc PROVE began'[p] <= clock'
  BY <1>1, Later, Starts DEF Dates
<1> QED
  BY <1>4, <1>5, <1>6 DEF Dates

-----------------------------------------------------------------------------
(* What is published *)

\* What is own: p brings it in, nobody else does, and it is on no disk at the start.
LEMMA OwnFacts ==
  ASSUME NEW p \in Writer \cup Pusher
  PROVE  /\ Own(p) \subseteq Result(p) /\ Result(p) \subseteq Obj
         /\ p \in Writer => Result(p) = Job[p]
         /\ p \in Pusher => Result(p) = Pushed[p] /\ p \notin Writer
         /\ Own(p) \cap (InitRefs \cup Deletable) = {}
         /\ \A o \in Own(p) : InitLoose[o] = None /\ \A S \in DOMAIN InitPacks : o \notin S
         /\ \A x \in Writer \cup Pusher : x # p => Own(p) \cap Result(x) = {}
<1>1. Pushed \in [Pusher -> SUBSET Obj]
  BY DEF Pack
<1> QED
  BY <1>1 DEF Own, Result

\* Refs grow by what is published, and shrink by what may be deleted.
LEMMA RefsStep ==
  ASSUME TypeOK, Places, [Next]_vars
  PROVE  /\ \A o \in refs' \ refs : \E p \in Writer \cup Pusher : Publish(p) /\ o \in Result(p)
         /\ refs \ refs' \subseteq Deletable
<1>1. ASSUME NEW p \in Proc, Step(p) \/ Kill(p)
      PROVE  \/ refs' = refs
             \/ Publish(p) /\ p \in Writer \cup Pusher /\ refs' = refs \cup Result(p)
  BY <1>1, Effects
<1>2. CASE DeleteRef
  BY <1>2 DEF DeleteRef
<1>3. CASE Tick \/ UNCHANGED vars
  BY <1>3 DEF Tick, vars, disk
<1> QED
  BY <1>1, <1>2, <1>3 DEF Next

\* What a gc sees is what refs reach.
LEMMA ReachStep ==
  ASSUME TypeOK, Places, [Next]_vars, NEW g \in Gc
  PROVE  /\ reach'[g] = reach[g] \/ (reach'[g] = refs /\ refs' = refs)
         /\ new'[g] = new[g] \/ (Loosen(g) /\ new'[g] \subseteq reach[g])
<1>1. ASSUME NEW p \in Proc, Step(p) \/ Kill(p), p # g PROVE reach'[g] = reach[g] /\ new'[g] = new[g]
  BY <1>1, OtherGcs
<1>2. CASE CountObjects(g) \/ Mark(g)
  BY <1>2, TypeParts DEF CountObjects, Mark, GcTypes, disk
<1>3. CASE Loosen(g)
  BY <1>3, TypeParts DEF Loosen, GcTypes
<1>4. ASSUME Step(g) \/ Kill(g), ~(CountObjects(g) \/ Mark(g) \/ Loosen(g))
      PROVE UNCHANGED <<reach, new>>
  BY <1>4 DEF Step, Kill, FirstList, Read, NextObject, LookPacked, LookLoose, ListAgain, WriteLoose,
            WriteKeep, InstallPack, Publish, RemoveKeep, StartGc, FindExisting, gcvars, StartPackObjects,
            MoveOld, MoveNew, RemoveOld, RemoveRedundant, StartPrunePacked,
            UnlinkPacked, Unlink, StartPrune
<1>5. CASE DeleteRef \/ Tick \/ UNCHANGED vars
  BY <1>5 DEF DeleteRef, Tick, vars, gcvars
<1> QED
  BY <1>1, <1>2, <1>3, <1>4, <1>5 DEF Next

\* The places before publication are left for good.
LEMMA PlaceStep ==
  ASSUME TypeOK, Places, [Next]_vars, NEW p \in Writer \cup Pusher
  PROVE  /\ pc'[p] \in Before => pc[p] \in Before
         /\ pc'[p] = "publish" => pc[p] \in Before \cup {"publish"}
         /\ pc'[p] = "publish" => ~Publish(p)
         /\ pc'[p] \in Before => ~Publish(p)
         /\ pc'[p] = "unkeep" => pc[p] = "unkeep" \/ Publish(p)
         /\ pc'[p] \in {"absent", "new"} => pc'[p] = pc[p]
<1>0. p \in Proc /\ p \notin Gc /\ p \notin Reader
  BY Kinds DEF Proc
<1>1. ASSUME NEW x \in Proc, Step(x) \/ Kill(x), x # p PROVE pc'[p] = pc[p] /\ ~Publish(p)
  <2>1. pc'[p] = pc[p]
    BY <1>0, <1>1, Others
  <2> QED
    BY <2>1, <1>0, TypeParts DEF Publish, ProcTypes, Goto
<1>2. CASE Publish(p)
  BY <1>0, <1>2, TypeParts DEF Publish, Goto, ProcTypes, Before
<1>3. CASE Kill(p)
  BY <1>0, <1>3, TypeParts DEF Kill, Goto, ProcTypes, Before, Publish
<1>4. ASSUME Step(p), ~Publish(p)
      PROVE  /\ pc[p] \in Before \cup {"publish", "unkeep"} 
             /\ pc'[p] \notin {"absent", "new", "unkeep"} 
             /\ pc[p] \in Before \/ pc'[p] = "end"
  <2>1. pc[p] \in Before \cup {"unkeep"} /\ (pc[p] = "unkeep" => RemoveKeep(p))
    BY <1>4, <1>0, WhoIsWhere
    DEF Step, FirstList, Read, NextObject, LookPacked, LookLoose, ListAgain, WriteLoose,
      WriteKeep, InstallPack, RemoveKeep, StartGc, FindExisting, StartPackObjects,
      CountObjects, Loosen, MoveOld, MoveNew, RemoveOld, RemoveRedundant, StartPrunePacked,
      UnlinkPacked, StartPrune, Mark, Unlink, Before, Sorting, RepackPhase
  <2>2. \E l \in {"ready", "packed", "loose", "again", "write", "publish", "install", "end",
                   "failed"} : Goto(p, l)
    BY <1>4, <1>0, <2>1, WhoIsWhere
    DEF Step, FirstList, Read, NextObject, LookPacked, LookLoose, ListAgain, WriteLoose,
      Missed, Done, WriteKeep, InstallPack, RemoveKeep, StartGc, FindExisting, StartPackObjects,
      CountObjects, Loosen, MoveOld, MoveNew, RemoveOld, RemoveRedundant, StartPrunePacked,
      UnlinkPacked, StartPrune, Mark, Unlink, Before, Sorting, RepackPhase
  <2>3. RemoveKeep(p) => pc'[p] = "end"
    BY <1>0, TypeParts DEF RemoveKeep, Goto, ProcTypes
  <2> QED
    BY <1>0, <2>1, <2>2, <2>3, TypeParts DEF Goto, ProcTypes
<1>5. CASE DeleteRef \/ Tick \/ UNCHANGED vars
  <2>1. pc' = pc
    BY <1>5 DEF DeleteRef, Tick, vars
  <2> QED
    BY <1>0, <2>1, TypeParts DEF Publish, Goto, ProcTypes
<1> QED
  <2>1. CASE Publish(p)
    BY <1>2, <2>1
  <2>2. ASSUME Step(p), ~Publish(p)
        PROVE /\ pc'[p] \in Before => pc[p] \in Before
              /\ pc'[p] = "publish" => pc[p] \in Before \cup {"publish"}
              /\ pc'[p] = "unkeep" => pc[p] = "unkeep"
              /\ pc'[p] \in {"absent", "new"} => pc'[p] = pc[p]
    BY <1>4, <2>2 DEF Before
  <2> QED
    BY <1>0, <1>1, <1>3, <1>5, <2>1, <2>2 DEF Next

\* At the start refs reach nothing that is to be brought in.
LEMMA InitPublished == Init => Published
<1> SUFFICES ASSUME Init PROVE Published
  OBVIOUS
<1>1. refs = InitRefs /\ \A g \in Gc : reach[g] = {} /\ new[g] = {}
  BY DEF Init
<1>2. \A p \in Pusher : pc[p] # "unkeep"
  BY DEF Init, Proc
<1> QED
  BY <1>1, <1>2, OwnFacts DEF Published, Lasting

\* Only Publish makes own objects reachable.
LEMMA NextPublished == ASSUME BringsNew
                       PROVE  TypeOK /\ Places /\ Published /\ [Next]_vars => Published'
<1> SUFFICES ASSUME TypeOK, Places, Published, [Next]_vars PROVE Published'
  OBVIOUS
<1>1. Lasting \subseteq refs'
  BY RefsStep DEF Published, Lasting
<1>2. ASSUME NEW p \in Pusher, pc'[p] = "unkeep" PROVE Result(p) \subseteq refs'
  <2>1. CASE pc[p] = "unkeep"
    <3>1. Result(p) \subseteq refs
      BY <2>1 DEF Published
    <3>2. Result(p) \cap Deletable = {}
      BY OwnFacts DEF BringsNew, Lasting
    <3> QED
      BY <3>1, <3>2, RefsStep
  <2>2. CASE Publish(p)
    BY <2>2 DEF Publish
  <2> QED
    BY <1>2, <2>1, <2>2, PlaceStep
<1>3. ASSUME NEW p \in Writer \cup Pusher, pc'[p] \in Before \cup {"publish"}
      PROVE  Own(p) \cap refs' = {}
  <2>1. Own(p) \cap refs = {}
    BY <1>3, PlaceStep DEF Published
  <2>2. \A o \in refs' \ refs : \E x \in Writer \cup Pusher : x # p /\ o \in Result(x)
    BY <1>3, RefsStep, PlaceStep
  <2> QED
    BY <2>1, <2>2, OwnFacts
<1>4. ASSUME NEW p \in Writer \cup Pusher, NEW g \in Gc
      PROVE  Own(p) \cap (reach'[g] \cup new'[g]) \subseteq refs'
  <2>1. Own(p) \cap (reach[g] \cup new[g]) \subseteq refs
    BY DEF Published
  <2>2. Own(p) \cap (reach'[g] \cup new'[g]) \subseteq refs
    BY <2>1, ReachStep
  <2>3. Own(p) \cap refs \subseteq refs'
    BY RefsStep, OwnFacts
  <2> QED
    BY <2>2, <2>3
<1> QED
  BY <1>1, <1>2, <1>3, <1>4 DEF Published

-----------------------------------------------------------------------------
(* What writers have written *)

\* A writer lists the packs once ...
LEMMA WriterLists ==
  ASSUME TypeOK, Places, [Next]_vars, NEW p \in Writer
  PROVE  listed'[p] = listed[p] \/ listed'[p] \subseteq Packs
<1>0. p \in Proc /\ p \notin Gc /\ p \notin Reader
  BY Kinds DEF Proc
<1>1. ASSUME NEW x \in Proc, Step(x) \/ Kill(x), x # p PROVE listed'[p] = listed[p]
  BY <1>0, <1>1, Others
<1>2. ASSUME Step(p) \/ Kill(p) PROVE listed'[p] = listed[p] \/ listed'[p] \subseteq Packs
  <2>1. UNCHANGED listed \/ List(p, {}, {}) \/ Forget(p)
    BY <1>0, <1>2, WhoIsWhere
    DEF Step, Kill, FirstList, Read, NextObject, LookPacked, LookLoose, ListAgain, WriteLoose,
      WriteKeep, InstallPack, Publish, RemoveKeep, StartGc, FindExisting, StartPackObjects,
      CountObjects, Loosen, MoveOld, MoveNew, RemoveOld, RemoveRedundant, StartPrunePacked,
      UnlinkPacked, StartPrune, Mark, Unlink, Sorting, RepackPhase
  <2> QED
    BY <1>0, <2>1, TypeParts DEF List, Forget, ListTypes
<1>3. CASE DeleteRef \/ Tick \/ UNCHANGED vars
  BY <1>3 DEF DeleteRef, Tick, vars
<1> QED
  BY <1>1, <1>2, <1>3 DEF Next

\* ... and is done with an object that it has found or written.
LEMMA WriterWork ==
  ASSUME TypeOK, Places, [Next]_vars, NEW p \in Writer, Running(p)', NEW o \in Job[p], o \notin todo'[p]
  PROVE  \/ Running(p) /\ o \notin todo[p]
         \/ LookPacked(p) /\ Holding(p, o) # {}
         \/ LookLoose(p) /\ loose[o] # None
         \/ WriteLoose(p) /\ o = cur[p]
<1>0. p \in Proc /\ p \notin Gc /\ p \notin Reader /\ p \notin Pusher
  BY Kinds DEF Proc
<1> USE TypeParts
<1>1. ASSUME NEW x \in Proc, Step(x) \/ Kill(x), x # p PROVE Running(p) /\ o \notin todo[p]
  BY <1>0, <1>1, Others DEF Running
<1>2. CASE FirstList(p)
  BY <1>0, <1>2 DEF FirstList, ProcTypes
<1>3. CASE Kill(p)
  BY <1>0, <1>3 DEF Kill, Running, Goto, ProcTypes
<1>4. ASSUME LookPacked(p) PROVE \/ Running(p) /\ o \notin todo[p]
                                 \/ LookPacked(p) /\ Holding(p, o) # {}
  <2>1. Running(p)
    BY <1>4 DEF LookPacked, Running
  <2>2. UNCHANGED todo \/ (Holding(p, cur[p]) # {} /\ todo' = [todo EXCEPT ![p] = @ \ {cur[p]}])
    BY <1>4 DEF LookPacked, OpenOne, Done
  <2> QED
    BY <1>0, <1>4, <2>1, <2>2 DEF ProcTypes
<1>5. ASSUME LookLoose(p) PROVE \/ Running(p) /\ o \notin todo[p]
                                \/ LookLoose(p) /\ loose[o] # None
  <2>1. Running(p)
    BY <1>5 DEF LookLoose, Running
  <2>2. UNCHANGED todo \/ (loose[cur[p]] # None /\ todo' = [todo EXCEPT ![p] = @ \ {cur[p]}])
    BY <1>5 DEF LookLoose, Done
  <2> QED
    BY <1>0, <1>5, <2>1, <2>2 DEF ProcTypes
<1>6. ASSUME WriteLoose(p) PROVE \/ Running(p) /\ o \notin todo[p]
                                 \/ WriteLoose(p) /\ o = cur[p]
  <2>1. Running(p)
    BY <1>6 DEF WriteLoose, Running
  <2>2. todo' = [todo EXCEPT ![p] = @ \ {cur[p]}]
    BY <1>6 DEF WriteLoose, Done
  <2> QED
    BY <1>0, <1>6, <2>1, <2>2 DEF ProcTypes
<1>7. ASSUME Step(p), ~FirstList(p), ~LookPacked(p), ~LookLoose(p), ~WriteLoose(p)
      PROVE  Running(p) /\ UNCHANGED todo
  BY <1>0, <1>7, WhoIsWhere DEF Running, Step, Read, NextObject, ListAgain,
      WriteKeep, InstallPack, Publish, RemoveKeep, StartGc, FindExisting, StartPackObjects,
      CountObjects, Loosen, MoveOld, MoveNew, RemoveOld, RemoveRedundant, StartPrunePacked,
      UnlinkPacked, StartPrune, Mark, Unlink, Sorting, RepackPhase
<1>8. CASE DeleteRef \/ Tick \/ UNCHANGED vars
  BY <1>8 DEF DeleteRef, Tick, vars, Running
<1> QED
  BY <1>1, <1>2, <1>3, <1>4, <1>5, <1>6, <1>7, <1>8 DEF Next

\* Steps of nobody in particular.
LEMMA QuietSteps == ASSUME DeleteRef \/ Tick \/ UNCHANGED vars
                    PROVE  UNCHANGED <<loose, packs, keep, old, pc, began, listed, kept, opened, cur, todo,
                                       mode, existing, expire, reach, new>>
  BY DEF DeleteRef, Tick, vars, disk, gcvars

\* A pack appears where a pusher installs it or a gc moves it to.
LEMMA NewPacks ==
  ASSUME TypeOK, Places, NEW p \in Proc, Step(p) \/ Kill(p), NEW S \in Packs' \ Packs
  PROVE  \/ InstallPack(p) /\ p \in Pusher /\ S = Pushed[p]
         \/ MoveNew(p) /\ p \in Gc /\ S = new[p]
<1>1. CASE packs' = packs
  BY <1>1 DEF Packs
<1>2. CASE packs' # packs
  BY <1>2, Effects
<1> QED
  BY <1>1, <1>2

\* Nothing is written at the start.
LEMMA InitWritten == Init => Written
<1> SUFFICES ASSUME Init, NEW p \in Writer, NEW o \in Own(p)
             PROVE  /\ \A S \in Packs \cup old \cup listed[p] : o \notin S
                    /\ loose[o] = None /\ ~Running(p)
  BY DEF Written
<1>1. p \in Proc /\ old = {} /\ packs = InitPacks /\ loose = InitLoose /\ listed[p] = {}
  BY DEF Init, Proc
<1>2. ~Running(p)
  BY <1>1 DEF Init, Running
<1> QED
  BY <1>1, <1>2, OwnFacts DEF Packs

\* What a writer has written waits in a young loose file.
LEMMA NextWritten ==
  TypeOK /\ Places /\ Dates /\ Published /\ Written /\ Lists /\ [Next]_vars => Written'
<1> SUFFICES ASSUME TypeOK, Places, Dates, Published, Written, Lists, [Next]_vars,
                    NEW p \in Writer, NEW o \in Own(p), o \notin refs'
             PROVE  /\ \A S \in Packs' \cup old' \cup listed'[p] : o \notin S
                    /\ loose'[o] # None => pc'[p] \notin {"absent", "new"} /\ began'[p] <= loose'[o]
                    /\ Running(p)' /\ o \notin todo'[p] => loose'[o] # None
  BY DEF Written
<1>1. /\ o \in Obj /\ p \in Proc /\ o \in Job[p]
      /\ \A x \in Writer \cup Pusher : x # p => o \notin Result(x)
      /\ o \notin refs
  BY RefsStep, OwnFacts DEF Proc
<1>2. /\ \A S \in Packs \cup old \cup listed[p] : o \notin S
      /\ loose[o] # None => pc[p] \notin {"absent", "new"} /\ began[p] <= loose[o]
      /\ Running(p) /\ o \notin todo[p] => loose[o] # None
  BY <1>1 DEF Written
<1>3. \A g \in Gc : o \notin new[g]
  BY <1>1 DEF Published
<1>4. \A S \in Packs' \cup old' : o \notin S
  <2>1. ASSUME NEW x \in Proc, Step(x) \/ Kill(x) PROVE \A S \in Packs' \cup old' : o \notin S
    <3>1. \A S \in Packs' \ Packs : o \notin S
      <4>1. \A y \in Pusher : o \notin Pushed[y]
        BY <1>1, OwnFacts
      <4>2. \A S \in Packs' \ Packs : (\E y \in Pusher : S = Pushed[y]) \/ (\E g \in Gc : S = new[g])
        BY <2>1, NewPacks
      <4> QED
        BY <1>3, <4>1, <4>2
    <3>2. \A S \in old' \ old : o \notin S
      <4>1. CASE MoveOld(x) /\ x \in Gc
        BY <4>1, <1>3 DEF MoveOld
      <4> QED
        BY <2>1, <4>1, Effects
    <3> QED
      BY <3>1, <3>2, <1>2
  <2> QED
    BY <2>1, <1>2, QuietSteps DEF Next, Packs
<1>5. \A S \in listed'[p] : o \notin S
  BY <1>2, WriterLists
<1>6. ASSUME loose'[o] # None PROVE pc'[p] \notin {"absent", "new"} /\ began'[p] <= loose'[o]
  <2>1. CASE loose'[o] = loose[o]
    <3>1. pc[p] \notin {"absent", "new"} /\ began[p] <= loose[o]
      BY <1>2, <1>6, <2>1
    <3>2. began'[p] = began[p]
      BY <1>1, <3>1, Starts DEF FirstList
    <3>3. pc'[p] \notin {"absent", "new"}
      BY <3>1, PlaceStep
    <3> QED
      BY <2>1, <3>1, <3>2, <3>3
  <2>2. CASE WriteLoose(p) /\ loose'[o] = clock
    <3>1. pc[p] = "write"
      BY <2>2 DEF WriteLoose
    <3>2. began'[p] = began[p]
      BY <1>1, <3>1, Starts DEF FirstList
    <3>3. pc'[p] \notin {"absent", "new"}
      BY <3>1, PlaceStep
    <3> QED
      BY <1>1, <2>2, <3>2, <3>3 DEF Dates
  <2>3. ASSUME NEW x \in Proc, Step(x) \/ Kill(x), loose'[o] # loose[o] PROVE WriteLoose(p) /\ loose'[o] = clock
    <3>1. CASE WriteLoose(x) /\ x \in Writer /\ o = cur[x] /\ loose'[o] = clock
      <4>1. pc[x] = "write"
        BY <3>1 DEF WriteLoose
      <4>2. cur[x] \in todo[x] /\ todo[x] \subseteq Job[x]
        BY <3>1, <4>1 DEF Places, PlaceOf
      <4>3. Job[x] = Result(x)
        BY <3>1 DEF Result
      <4> QED
        BY <1>1, <3>1, <4>2, <4>3
    <3>2. o \notin Loosened(x)
      BY <1>2 DEF Loosened
    <3> QED
      BY <1>1, <1>6, <2>3, <3>1, <3>2, Effects
  <2> QED
    BY <2>1, <2>2, <2>3, QuietSteps DEF Next
<1>7. ASSUME Running(p)', o \notin todo'[p] PROVE loose'[o] # None
  <2>1. ASSUME loose[o] # None PROVE loose'[o] # None
    <3>1. ASSUME NEW x \in Gc, UnlinkPacked(x), Holding(x, o) # {} PROVE FALSE
      <4>1. opened[x] \subseteq Packs
        BY <3>1 DEF UnlinkPacked, Lists, ListsOf
      <4> QED
        BY <3>1, <4>1, <1>2 DEF Holding
    <3>2. ASSUME NEW x \in Gc, Unlink(x), Expired(x, o) PROVE FALSE
      <4>1. pc'[p] = pc[p]
        BY <1>1, <3>2, Kinds, Others DEF Step, Proc
      <4>2. clock < began[p] + Grace
        BY <1>7, <4>1 DEF Dates, Running
      <4>3. expire[x] <= clock - Grace
        BY <3>2 DEF Dates, Unlink
      <4>4. began[p] <= loose[o] /\ loose[o] <= expire[x]
        BY <1>2, <2>1, <3>2 DEF Expired
      <4>5. clock \in Int /\ began[p] \in Int /\ expire[x] \in Int /\ loose[o] \in Int /\ Grace \in Int
        BY <1>1, <2>1, TypeParts DEF DiskTypes, ProcTypes, GcTypes, Time
      <4> QED
        BY <4>2, <4>3, <4>4, <4>5
    <3>3. ASSUME NEW x \in Proc, Step(x) \/ Kill(x) PROVE loose'[o] # None
      <4>1. clock # None
        BY TypeParts DEF DiskTypes
      <4> QED
        BY <1>1, <2>1, <3>1, <3>2, <3>3, <4>1, Effects
    <3> QED
      BY <2>1, <3>3, QuietSteps DEF Next
  <2>2. CASE loose[o] = None
    <3>1. ~(LookPacked(p) /\ Holding(p, o) # {})
      BY <1>2 DEF Holding
    <3>2. WriteLoose(p) /\ o = cur[p]
      BY <1>1, <1>2, <1>7, <2>2, <3>1, WriterWork
    <3>3. loose'[o] = clock /\ clock # None
      BY <1>1, <2>2, <3>2, TypeParts DEF WriteLoose, DiskTypes
    <3> QED
      BY <3>3
  <2> QED
    BY <2>1, <2>2
<1> QED
  BY <1>4, <1>5, <1>6, <1>7

-----------------------------------------------------------------------------
(* What pushers have received *)

\* A pack disappears where a gc moves it away or removes it as redundant ...
LEMMA GonePacks ==
  ASSUME TypeOK, Places, NEW p \in Proc, Step(p) \/ Kill(p), NEW S \in Packs \ Packs'
  PROVE  /\ p \in Gc
         /\ \/ MoveOld(p) /\ S = new[p] /\ S \in old'
            \/ /\ RemoveRedundant(p) /\ S \in existing[p] \ {new[p]}
               /\ Packs' = Packs \ {S} /\ existing'[p] = existing[p] \ {S}
<1>1. packs' # packs
  BY DEF Packs
<1> QED
  BY <1>1, Effects

\* ... and a .keep file where its pusher, or a gc with the pack, removes it.
LEMMA GoneKeeps ==
  ASSUME TypeOK, Places, NEW p \in Proc, Step(p) \/ Kill(p), NEW S \in keep \ keep'
  PROVE  \/ RemoveKeep(p) /\ p \in Pusher /\ S = Pushed[p]
         \/ RemoveRedundant(p) /\ p \in Gc /\ S \in existing[p] /\ S \notin Packs'
<1>1. ASSUME RemoveRedundant(p) PROVE S \in existing[p] /\ S \notin Packs'
  <2>1. PICK T \in existing[p] : packs' = Without(T) /\ keep' = keep \ {T}
    BY <1>1 DEF RemoveRedundant
  <2>2. S = T
    BY <2>1
  <2> QED
    BY <2>1, <2>2 DEF Without, Packs
<1> QED
  BY <1>1, Effects

\* The steps of a pusher that matter
LEMMA PusherStep ==
  ASSUME TypeOK, Places, [Next]_vars, NEW p \in Pusher
  PROVE  /\ pc'[p] = "publish" => pc[p] = "publish" \/ InstallPack(p)
         /\ pc'[p] = "install" => pc[p] = "install" \/ WriteKeep(p)
<1>0. p \in Proc /\ p \notin Gc /\ p \notin Reader /\ p \notin Writer
  BY Kinds DEF Proc
<1> USE TypeParts
<1>1. ASSUME NEW x \in Proc, Step(x) \/ Kill(x), x # p PROVE pc'[p] = pc[p]
  BY <1>0, <1>1, Others
<1>2. ASSUME Step(p) \/ Kill(p), ~InstallPack(p), ~WriteKeep(p) PROVE pc'[p] \notin {"publish", "install"}
  <2>1. \/ FirstList(p) \/ Publish(p) \/ RemoveKeep(p) \/ Kill(p)
    BY <1>0, <1>2, WhoIsWhere
    DEF Step, Read, NextObject, LookPacked, LookLoose, ListAgain, WriteLoose,
      StartGc, FindExisting, StartPackObjects, Places, PlaceOf,
      CountObjects, Loosen, MoveOld, MoveNew, RemoveOld, RemoveRedundant, StartPrunePacked,
      UnlinkPacked, StartPrune, Mark, Unlink, Sorting, RepackPhase
  <2> QED
    BY <1>0, <2>1 DEF FirstList, Publish, RemoveKeep, Kill, Goto, ProcTypes
<1>3. CASE InstallPack(p)
  BY <1>0, <1>3 DEF InstallPack, Goto, ProcTypes
<1>4. CASE WriteKeep(p)
  BY <1>0, <1>4 DEF WriteKeep, Goto, ProcTypes
<1> QED
  BY <1>1, <1>2, <1>3, <1>4, QuietSteps DEF Next

\* What is to be removed is decided once.
LEMMA ExistingStep ==
  ASSUME TypeOK, Places, [Next]_vars, NEW g \in Gc, pc'[g] \in Sorting
  PROVE  \/ FindExisting(g) /\ existing'[g] = Existing(g)
         \/ pc[g] \in Sorting /\ existing'[g] = existing[g]
         \/ RemoveRedundant(g) /\ existing'[g] \subseteq existing[g]
<1>0. g \in Proc /\ g \notin Writer /\ g \notin Reader /\ g \notin Pusher
  BY Kinds DEF Proc
<1> USE TypeParts
<1>1. ASSUME NEW x \in Proc, Step(x) \/ Kill(x), x # g PROVE pc'[g] = pc[g] /\ existing'[g] = existing[g]
  BY <1>0, <1>1, Others, OtherGcs
<1>2. CASE FindExisting(g)
  BY <1>2 DEF FindExisting, GcTypes
<1>3. CASE RemoveRedundant(g)
  BY <1>3 DEF RemoveRedundant, GcTypes
<1>4. ASSUME Step(g) \/ Kill(g), ~FindExisting(g), ~RemoveRedundant(g)
      PROVE  pc[g] \in Sorting /\ existing'[g] = existing[g]
  <2>1. existing' = existing
    BY <1>4
    DEF Step, Kill, FirstList, Read, NextObject, LookPacked, LookLoose, ListAgain, WriteLoose,
            WriteKeep, InstallPack, Publish, RemoveKeep, StartGc, StartPackObjects, gcvars,
            CountObjects, Loosen, MoveOld, MoveNew, RemoveOld, StartPrunePacked,
            UnlinkPacked, StartPrune, Mark, Unlink
  <2>2. pc' = pc \/ pc[g] \in Sorting \/ \E l \in PC \ Sorting : Goto(g, l)
    BY <1>0, <1>4, WhoIsWhere
    DEF Step, Kill, Places, PlaceOf, FirstList, Read, NextObject, LookPacked,
            LookLoose, ListAgain, WriteLoose, WriteKeep, InstallPack, Publish, RemoveKeep, StartGc,
            StartPackObjects, CountObjects, Loosen, MoveOld, MoveNew, RemoveOld, StartPrunePacked,
            UnlinkPacked, StartPrune, Mark, Unlink, PC, Sorting, RepackPhase
  <2> QED
    BY <1>0, <2>1, <2>2 DEF Goto, ProcTypes
<1> QED
  BY <1>1, <1>2, <1>3, <1>4, QuietSteps DEF Next

\* Nothing is received at the start.
LEMMA InitReceived == Init => Received
<1> SUFFICES ASSUME Init, NEW p \in Pusher
             PROVE  /\ pc[p] \notin {"publish", "install"}
                    /\ \A o \in Own(p) : /\ loose[o] = None /\ \A S \in Packs : o \notin S
                                         /\ \A g \in Gc : existing[g] = {}
  BY DEF Received
<1>1. p \in Proc /\ packs = InitPacks /\ loose = InitLoose
  BY DEF Init, Proc
<1> QED
  BY <1>1, OwnFacts DEF Packs, Init

\* What a pusher has received waits in its kept pack.
LEMMA NextReceived ==
  ASSUME BringsNew
  PROVE  TypeOK /\ Places /\ Published /\ Received /\ [Next]_vars => Received'
<1> SUFFICES ASSUME TypeOK, Places, Published, Received, [Next]_vars, NEW p \in Pusher
             PROVE  /\ pc'[p] = "publish" => Pushed[p] \in Packs'
                    /\ pc'[p] = "install" => Pushed[p] \in keep'
                    /\ \A o \in Own(p) \ refs' :
                         /\ pc'[p] \in Before => loose'[o] = None
                         /\ \A S \in Packs' : o \in S => S = Pushed[p] /\ S \in keep' /\ pc'[p] \notin Before
                         /\ \A g \in Gc : pc'[g] \in Sorting => \A S \in existing'[g] : o \notin S
  BY DEF Received
<1>0. p \in Proc /\ p \notin Gc /\ p \notin Reader /\ p \notin Writer
  BY Kinds DEF Proc
<1>1. \A x \in Writer \cup Pusher : x # p => Own(p) \cap Result(x) = {}
  BY OwnFacts
<1>2. Own(p) \subseteq Pushed[p] /\ Own(p) # {}
  BY OwnFacts DEF BringsNew
<1>3. ASSUME pc[p] \in Before \cup {"publish"}
      PROVE  /\ \A g \in Gc : Pushed[p] # new[g]
             /\ \A g \in Gc : pc[g] \in Sorting => Pushed[p] \notin existing[g]
  <2>1. PICK o : o \in Own(p) \ refs
    BY <1>2, <1>3 DEF Published
  <2> QED
    BY <1>2, <2>1 DEF Published, Received
<1>4. ASSUME pc'[p] = "publish" PROVE Pushed[p] \in Packs'
  <2>1. CASE InstallPack(p)
    BY <2>1 DEF InstallPack, With, Packs
  <2>2. CASE pc[p] = "publish"
    <3>1. Pushed[p] \in Packs
      BY <2>2 DEF Received
    <3>2. ASSUME NEW x \in Proc, Step(x) \/ Kill(x), Pushed[p] \notin Packs' PROVE FALSE
      BY <1>3, <2>2, <3>1, <3>2, GonePacks DEF RemoveRedundant, Sorting, RepackPhase
    <3> QED
      BY <3>1, <3>2, QuietSteps DEF Next, Packs
  <2> QED
    BY <1>4, <2>1, <2>2, PusherStep
<1>5. ASSUME pc'[p] = "install" PROVE Pushed[p] \in keep'
  <2>1. CASE WriteKeep(p)
    BY <2>1 DEF WriteKeep
  <2>2. CASE pc[p] = "install"
    <3>1. Pushed[p] \in keep
      BY <2>2 DEF Received
    <3>2. ASSUME NEW x \in Proc, Step(x) \/ Kill(x), Pushed[p] \notin keep' PROVE FALSE
      <4>1. ~(RemoveKeep(x) /\ x \in Pusher /\ Pushed[p] = Pushed[x])
        BY <2>2 DEF RemoveKeep
      <4> QED
        BY <1>3, <2>2, <3>1, <3>2, <4>1, GoneKeeps DEF RemoveRedundant, Sorting, RepackPhase, Before
    <3> QED
      BY <3>1, <3>2, QuietSteps DEF Next
  <2> QED
    BY <1>5, <2>1, <2>2, PusherStep
<1>6. ASSUME NEW o \in Own(p) \ refs'
      PROVE  /\ pc'[p] \in Before => loose'[o] = None
             /\ \A S \in Packs' : o \in S => S = Pushed[p] /\ S \in keep' /\ pc'[p] \notin Before
             /\ \A g \in Gc : pc'[g] \in Sorting => \A S \in existing'[g] : o \notin S
  <2>1. /\ o \in Obj /\ o \notin refs
        /\ \A x \in Writer \cup Pusher : x # p => o \notin Result(x)
        /\ \A g \in Gc : o \notin new[g]
    BY <1>1, RefsStep, OwnFacts DEF Published
  <2>2. /\ pc[p] \in Before => loose[o] = None
        /\ \A S \in Packs : o \in S => S = Pushed[p] /\ S \in keep /\ pc[p] \notin Before
        /\ \A g \in Gc : pc[g] \in Sorting => \A S \in existing[g] : o \notin S
    BY <2>1 DEF Received
  <2>3. ASSUME pc'[p] \in Before PROVE loose'[o] = None
    <3>1. loose[o] = None /\ pc[p] \in Before
      BY <2>2, <2>3, PlaceStep
    <3>2. ASSUME NEW x \in Proc, Step(x) \/ Kill(x) PROVE loose'[o] = None
      <4>1. ~(WriteLoose(x) /\ x \in Writer /\ o = cur[x])
        <5>1. SUFFICES ASSUME WriteLoose(x), x \in Writer PROVE o # cur[x]
          OBVIOUS
        <5>2. cur[x] \in todo[x] /\ todo[x] \subseteq Job[x]
          BY <5>1 DEF Places, PlaceOf, WriteLoose
        <5> QED
          BY <1>0, <2>1, <5>1, <5>2 DEF Result
      <4>2. o \notin Loosened(x)
        BY <2>2, <3>1 DEF Loosened
      <4> QED
        BY <2>1, <3>1, <3>2, <4>1, <4>2, Effects
    <3> QED
      BY <3>1, <3>2, QuietSteps DEF Next
  <2>4. ASSUME NEW S \in Packs', o \in S PROVE S = Pushed[p] /\ S \in keep' /\ pc'[p] \notin Before
    <3>1. ASSUME S \in Packs PROVE S = Pushed[p] /\ S \in keep' /\ pc'[p] \notin Before
      <4>1. S = Pushed[p] /\ S \in keep /\ pc[p] \notin Before
        BY <2>2, <2>4, <3>1
      <4>2. ASSUME NEW x \in Proc, Step(x) \/ Kill(x), S \notin keep' PROVE FALSE
        <5>1. RemoveKeep(x) /\ x \in Pusher /\ S = Pushed[x]
          BY <4>1, <4>2, GoneKeeps
        <5>2. x = p
          BY <4>1, <5>1
        <5>3. Pushed[p] \subseteq refs
          BY <5>1, <5>2, OwnFacts DEF Published, RemoveKeep
        <5> QED
          BY <1>2, <2>1, <5>3
      <4>3. S \in keep'
        BY <4>1, <4>2, QuietSteps DEF Next
      <4> QED
        BY <4>1, <4>3, PlaceStep
    <3>2. ASSUME NEW x \in Proc, Step(x) \/ Kill(x), S \notin Packs
          PROVE  S = Pushed[p] /\ S \in keep' /\ pc'[p] \notin Before
      <4>1. InstallPack(x) /\ x \in Pusher /\ S = Pushed[x]
        BY <2>1, <2>4, <3>2, NewPacks
      <4>2. x = p
        BY <2>1, <2>4, <4>1, OwnFacts
      <4>3. pc[p] = "install" /\ pc'[p] = "publish" /\ keep' = keep
        BY <1>0, <4>1, <4>2, TypeParts DEF InstallPack, Goto, ProcTypes
      <4> QED
        BY <4>1, <4>2, <4>3 DEF Received, Before
    <3> QED
      BY <3>1, <3>2, QuietSteps DEF Next, Packs
  <2>5. ASSUME NEW g \in Gc, pc'[g] \in Sorting, NEW S \in existing'[g] PROVE o \notin S
    <3>1. CASE FindExisting(g) /\ existing'[g] = Existing(g)
      BY <2>2, <2>5, <3>1 DEF Existing
    <3>2. CASE pc[g] \in Sorting /\ existing'[g] = existing[g]
      BY <2>2, <2>5, <3>2
    <3>3. CASE RemoveRedundant(g) /\ existing'[g] \subseteq existing[g]
      BY <2>2, <2>5, <3>3 DEF RemoveRedundant, Sorting, RepackPhase
    <3> QED
      BY <2>5, <3>1, <3>2, <3>3, ExistingStep
  <2> QED
    BY <2>3, <2>4, <2>5
<1> QED
  BY <1>4, <1>5, <1>6

-----------------------------------------------------------------------------
(* What a gc knows of the packs *)

\* The steps of a gc
LEMMA GcSteps ==
  ASSUME Places, NEW g \in Gc, Step(g)
  PROVE  \/ StartGc(g) \/ FindExisting(g) \/ StartPackObjects(g) \/ CountObjects(g) \/ Loosen(g)
         \/ MoveOld(g) \/ MoveNew(g) \/ RemoveOld(g) \/ RemoveRedundant(g) \/ StartPrunePacked(g)
         \/ UnlinkPacked(g) \/ StartPrune(g) \/ Mark(g) \/ Unlink(g)
<1>1. g \in Proc /\ g \notin Writer /\ g \notin Reader /\ g \notin Pusher
  BY Kinds DEF Proc
<1> QED
  BY <1>1, WhoIsWhere DEF Step, Places, PlaceOf, FirstList, Read, NextObject, LookPacked, LookLoose,
     ListAgain, WriteLoose, WriteKeep, InstallPack, Publish, RemoveKeep, Sorting, RepackPhase

\* While a gc is there, nobody else removes packs or loose files.
LEMMA NotMine ==
  ASSUME TypeOK, Places, Alone, [Next]_vars, NEW g \in Gc, pc'[g] # "absent", ~(Step(g) \/ Kill(g))
  PROVE  /\ Packs \subseteq Packs' /\ old' = old
         /\ \A o \in Obj : loose[o] # None => loose'[o] = loose[o]
         /\ pc'[g] = pc[g] /\ listed'[g] = listed[g] /\ kept'[g] = kept[g] /\ opened'[g] = opened[g]
         /\ mode'[g] = mode[g] /\ existing'[g] = existing[g] /\ expire'[g] = expire[g]
         /\ reach'[g] = reach[g] /\ new'[g] = new[g] /\ todo'[g] = todo[g]
<1>0. g \in Proc
  BY DEF Proc
<1>1. ASSUME NEW x \in Proc, Step(x) \/ Kill(x)
      PROVE  x # g /\ x \notin Gc
  <2>1. pc[x] # "absent"
    BY <1>1
    DEF Step, Kill, Running, FirstList, Read, NextObject, LookPacked, LookLoose, ListAgain,
        WriteLoose,
            WriteKeep, InstallPack, Publish, RemoveKeep, StartGc, FindExisting, StartPackObjects,
            CountObjects, Loosen, MoveOld, MoveNew, RemoveOld, RemoveRedundant, StartPrunePacked,
            UnlinkPacked, StartPrune, Mark, Unlink
  <2>2. pc[g] # "absent"
    BY <1>0, NoneComes
  <2> QED
    BY <1>1, <2>1, <2>2 DEF Alone
<1>2. ASSUME NEW x \in Proc, Step(x) \/ Kill(x)
      PROVE  /\ Packs \subseteq Packs' /\ old' = old
             /\ \A o \in Obj : loose[o] # None => loose'[o] = loose[o]
  <2>1. Packs \subseteq Packs'
    BY <1>1, <1>2, GonePacks
  <2> QED
    BY <1>1, <1>2, <2>1, Effects
<1>3. ASSUME NEW x \in Proc, Step(x) \/ Kill(x)
      PROVE  /\ pc'[g] = pc[g] /\ listed'[g] = listed[g] /\ kept'[g] = kept[g] /\ opened'[g] = opened[g]
             /\ mode'[g] = mode[g] /\ existing'[g] = existing[g] /\ expire'[g] = expire[g]
             /\ reach'[g] = reach[g] /\ new'[g] = new[g] /\ todo'[g] = todo[g]
  BY <1>0, <1>1, <1>3, Others, OtherGcs
<1> QED
  BY <1>2, <1>3, QuietSteps DEF Next, Packs

\* No gc has a list at the start.
LEMMA InitLists == Init => Lists
<1> SUFFICES ASSUME Init, NEW g \in Gc PROVE pc[g] \in {"absent", "new"}
  BY DEF Lists, ListsOf, Sorting, RepackPhase, Replacing
<1> QED
  BY DEF Init, Proc

\* The steps of a gc, and of the others beside it, keep its lists right.
LEMMA NextListsOf ==
  ASSUME BringsNew
  PROVE  TypeOK /\ Places /\ Alone /\ Published /\ Received /\ Lists /\ [Next]_vars => Lists'
<1> SUFFICES ASSUME TypeOK, Places, Alone, Published, Received, Lists, [Next]_vars, NEW g \in Gc
             PROVE  ListsOf(g)'
  BY DEF Lists
<1>0. g \in Proc /\ g \notin Writer /\ g \notin Reader /\ g \notin Pusher
  BY Kinds DEF Proc
<1>1. ListsOf(g)
  BY DEF Lists
<1> USE TypeParts
<1>2. /\ pc \in [Proc -> PC] /\ listed \in [Proc -> SUBSET Pack] /\ kept \in [Proc -> SUBSET Pack]
      /\ opened \in [Proc -> SUBSET Pack]
      /\ mode \in [Gc -> Mode] /\ existing \in [Gc -> SUBSET Pack] /\ new \in [Gc -> SUBSET Obj]
      /\ reach \in [Gc -> SUBSET Obj]
  BY DEF ProcTypes, GcTypes, ListTypes
<1>3. ASSUME pc'[g] # "absent", ~(Step(g) \/ Kill(g)) PROVE ListsOf(g)'
  <2>1. ASSUME pc[g] = "pack-objects", NEW S \in existing[g], S \in keep' PROVE S \in keep
    <3>1. ASSUME NEW x \in Proc, WriteKeep(x), x \in Pusher, S = Pushed[x] PROVE FALSE
      <4>1. PICK o : o \in Own(x) \ refs
        BY <3>1 DEF BringsNew, Published, WriteKeep, Before
      <4>2. o \notin S
        BY <2>1, <3>1, <4>1 DEF Received, Sorting
      <4> QED
        BY <3>1, <4>1, <4>2, OwnFacts
    <3>2. ASSUME NEW x \in Proc, Step(x) \/ Kill(x), S \notin keep PROVE FALSE
      <4>1. keep' \subseteq keep \/ (WriteKeep(x) /\ x \in Pusher /\ keep' = keep \cup {Pushed[x]})
        <5>1. RemoveRedundant(x) => keep' \subseteq keep
          BY DEF RemoveRedundant
        <5> QED
          BY <3>2, <5>1, Effects
      <4> QED
        BY <2>1, <3>1, <3>2, <4>1
    <3> QED
      BY <2>1, <3>2, QuietSteps DEF Next
  <2>2. /\ Packs \subseteq Packs'
        /\ pc'[g] = pc[g] /\ listed'[g] = listed[g] /\ kept'[g] = kept[g] /\ opened'[g] = opened[g]
        /\ mode'[g] = mode[g] /\ existing'[g] = existing[g] /\ reach'[g] = reach[g] /\ new'[g] = new[g]
    BY <1>3, NotMine
  <2>3. pc'[g] = "pack-objects" => existing'[g] \cap keep' = {}
    BY <1>1, <2>1, <2>2 DEF ListsOf
  <2> HIDE DEF Packs
  <2> QED
    BY <1>1, <2>2, <2>3 DEF ListsOf
<1>4. ASSUME pc'[g] \in PC \ ({"unlinkpacked", "unlinkpacked2", "mark", "unlink"} \cup Sorting)
      PROVE  ListsOf(g)'
  BY <1>4 DEF ListsOf, Sorting, RepackPhase, Replacing
<1>5. CASE StartGc(g) \/ Kill(g) \/ StartPrunePacked(g) \/ StartPrune(g)
  <2>1. CASE StartGc(g) \/ Kill(g)
    <3>1. pc'[g] \in {"existing", "killed"}
      BY <1>0, <1>2, <2>1 DEF StartGc, Kill, Goto
    <3> QED
      BY <1>4, <3>1 DEF PC, Sorting, RepackPhase
  <2>2. CASE StartPrunePacked(g) \/ StartPrune(g)
    <3>1. pc'[g] \in {"unlinkpacked", "mark"} /\ opened'[g] = {}
      BY <1>0, <1>2, <2>2 DEF StartPrunePacked, StartPrune, Goto
    <3> QED
      BY <3>1 DEF ListsOf, Sorting, RepackPhase, Replacing
  <2> QED
    BY <1>5, <2>1, <2>2
<1>6. CASE FindExisting(g)
  <2>1. /\ pc'[g] = "pack-objects" /\ existing'[g] = Existing(g) /\ mode'[g] = mode[g]
        /\ Packs' = Packs /\ keep' = keep
    BY <1>0, <1>2, <1>6 DEF FindExisting, Goto, disk, Packs
  <2> QED
    BY <2>1 DEF ListsOf, Sorting, RepackPhase, Replacing, Existing
<1>7. CASE StartPackObjects(g)
  <2>1. /\ pc[g] = "pack-objects" /\ pc'[g] = "count" /\ existing'[g] = existing[g] /\ mode'[g] = mode[g]
        /\ Packs' = Packs /\ new'[g] = new[g]
        /\ listed'[g] = Packs /\ kept'[g] = Packs \cap keep /\ opened'[g] = {}
    BY <1>0, <1>2, <1>7 DEF StartPackObjects, Goto, disk, Packs, List
  <2> HIDE DEF Packs
  <2> QED
    BY <1>1, <2>1 DEF ListsOf, Sorting, RepackPhase, Replacing
<1>8. CASE CountObjects(g)
  <2>1. /\ pc[g] = "count" /\ pc'[g] \in {"failed", "loosen"} /\ existing'[g] = existing[g] /\ mode'[g] = mode[g]
        /\ Packs' = Packs /\ new'[g] = new[g]
    BY <1>0, <1>2, <1>8 DEF CountObjects, Goto, disk, Packs
  <2>2. \/ listed'[g] = listed[g] /\ kept'[g] = kept[g]
        \/ listed'[g] = listed[g] \cup Packs /\ kept'[g] = kept[g] \cup ((Packs \ listed[g]) \cap keep)
    BY <1>0, <1>2, <1>8 DEF CountObjects, List
  <2>3. opened'[g] \subseteq Packs
    BY <1>0, <1>2, <1>8 DEF CountObjects, Traverse
  <2>4. /\ existing[g] \subseteq listed[g] /\ existing[g] \cap kept[g] = {} /\ kept[g] \subseteq Packs
        /\ existing[g] \subseteq Packs /\ (mode[g] = "incremental" => existing[g] = {})
    BY <1>1, <2>1 DEF ListsOf, Sorting
  <2>5. existing[g] \subseteq listed'[g] /\ existing[g] \cap kept'[g] = {} /\ kept'[g] \subseteq Packs
    BY <2>2, <2>4
  <2> QED
    BY <2>1, <2>3, <2>4, <2>5 DEF ListsOf, Sorting, RepackPhase, Replacing
<1>9. CASE Loosen(g)
  <2>1. /\ pc[g] = "loosen" /\ existing'[g] = existing[g] /\ mode'[g] = mode[g] /\ Packs' = Packs
        /\ pc'[g] = IF new'[g] = {} THEN "redundant" ELSE IF new'[g] \in Packs THEN "moveold" ELSE "move"
        /\ reach'[g] = reach[g]
    BY <1>0, <1>2, <1>9 DEF Loosen, Goto, Packs
  <2>2. new'[g] \subseteq reach[g]
    BY <1>2, <1>9 DEF Loosen
  <2>3. existing[g] \subseteq Packs /\ (mode[g] = "incremental" => existing[g] = {})
    BY <1>1, <2>1 DEF ListsOf, Sorting, RepackPhase
  <2> QED
    BY <2>1, <2>2, <2>3 DEF ListsOf, Sorting, RepackPhase, Replacing
<1>10. CASE MoveOld(g) \/ MoveNew(g) \/ RemoveOld(g)
  <2>1. /\ pc[g] \in {"moveold", "move", "rmold"} /\ pc'[g] \in {"move", "rmold", "redundant"}
        /\ existing'[g] = existing[g] /\ mode'[g] = mode[g] /\ new'[g] = new[g] /\ reach'[g] = reach[g]
    BY <1>0, <1>2, <1>10 DEF MoveOld, MoveNew, RemoveOld, Goto, gcvars
  <2>2. Packs \subseteq Packs' \cup {new[g]}
    BY <1>10 DEF MoveOld, MoveNew, RemoveOld, Packs, With, Without
  <2>3. pc'[g] \in {"rmold", "redundant"} => new[g] \in Packs'
    <3>1. CASE MoveOld(g)
      BY <1>0, <1>2, <3>1 DEF MoveOld, Goto
    <3>2. CASE MoveNew(g)
      BY <3>2 DEF MoveNew, With, Packs
    <3>3. CASE RemoveOld(g)
      BY <1>1, <3>3 DEF RemoveOld, ListsOf, Packs
    <3> QED
      BY <1>10, <3>1, <3>2, <3>3
  <2>4. /\ mode[g] = "incremental" => existing[g] = {}
        /\ existing[g] \subseteq Packs \cup {new[g]} /\ new[g] \subseteq reach[g]
    BY <1>1, <2>1 DEF ListsOf, Sorting, RepackPhase, Replacing
  <2> HIDE DEF Packs
  <2>5. existing[g] \subseteq Packs' \cup {new[g]}
    BY <2>2, <2>4
  <2> QED
    BY <2>1, <2>3, <2>4, <2>5 DEF ListsOf, Sorting, RepackPhase, Replacing
<1>11. CASE RemoveRedundant(g)
  <2>1. /\ pc[g] = "redundant" /\ pc'[g] \in {"redundant", "prune-packed"}
        /\ mode'[g] = mode[g] /\ new'[g] = new[g] /\ reach'[g] = reach[g]
    BY <1>0, <1>2, <1>11 DEF RemoveRedundant, Goto
  <2>2. \/ Packs' = Packs /\ existing'[g] = existing[g]
        \/ \E S \in existing[g] \ {new[g]} : Packs' = Packs \ {S} /\ existing'[g] = existing[g] \ {S}
    BY <1>2, <1>11 DEF RemoveRedundant, Packs, Without
  <2>3. /\ mode[g] = "incremental" => existing[g] = {}
        /\ existing[g] \subseteq Packs \cup {new[g]} /\ new[g] \subseteq reach[g]
        /\ new[g] \in Packs \cup {{}}
    BY <1>1, <2>1 DEF ListsOf, Sorting, RepackPhase, Replacing
  <2>4. /\ mode[g] = "incremental" => existing'[g] = {}
        /\ existing'[g] \subseteq Packs' \cup {new[g]} /\ new[g] \in Packs' \cup {{}}
    BY <2>2, <2>3
  <2> QED
    BY <2>1, <2>3, <2>4 DEF ListsOf, Sorting, RepackPhase, Replacing
<1>12. CASE UnlinkPacked(g)
  <2>1. opened[g] \subseteq Packs /\ Packs' = Packs
    BY <1>1, <1>12 DEF ListsOf, UnlinkPacked, Packs
  <2>2. opened'[g] = opened[g] \/ opened'[g] = {}
        \/ \E o : \E S \in Holding(g, o) : opened'[g] = opened[g] \cup {S}
    BY <1>0, <1>2, <1>12 DEF UnlinkPacked, OpenOne, Forget
  <2>3. opened'[g] \subseteq Packs'
    BY <2>1, <2>2 DEF Holding
  <2>4. pc'[g] \in {"unlinkpacked", "unlinkpacked2", "prune", "end"}
    BY <1>0, <1>2, <1>12 DEF UnlinkPacked, Goto
  <2> QED
    BY <2>3, <2>4 DEF ListsOf, Sorting, RepackPhase, Replacing
<1>13. CASE Mark(g)
  <2>1. opened'[g] \subseteq Packs'
    BY <1>0, <1>2, <1>13 DEF Mark, Traverse, disk, Packs
  <2>2. pc'[g] \in {"failed", "unlink"}
    BY <1>0, <1>2, <1>13 DEF Mark, Goto
  <2> QED
    BY <2>1, <2>2 DEF ListsOf, Sorting, RepackPhase, Replacing
<1>14. CASE Unlink(g)
  <2>1. opened'[g] \subseteq Packs'
    BY <1>1, <1>14 DEF Unlink, ListsOf, Packs
  <2>2. pc'[g] \in {"unlinkpacked2", "unlink"}
    BY <1>0, <1>2, <1>14 DEF Unlink, Goto
  <2> QED
    BY <2>1, <2>2 DEF ListsOf, Sorting, RepackPhase, Replacing
<1>15. CASE pc'[g] = "absent"
  BY <1>4, <1>15 DEF PC, Sorting, RepackPhase
<1> QED
  BY <1>3, <1>5, <1>6, <1>7, <1>8, <1>9, <1>10, <1>11, <1>12, <1>13, <1>14, <1>15, GcSteps

-----------------------------------------------------------------------------
(* What is redundant, and what comes late *)

\* How a gc gets to where it removes something
LEMMA PhaseStep ==
  ASSUME TypeOK, Places, Alone, [Next]_vars, NEW g \in Gc
  PROVE  /\ pc'[g] \in RepackPhase =>
              \/ pc[g] \in RepackPhase /\ reach'[g] = reach[g] /\ expire'[g] = expire[g]
              \/ CountObjects(g) /\ reach'[g] = refs /\ refs' = refs
         /\ pc'[g] \in Replacing =>
              \/ pc[g] \in Replacing /\ reach'[g] = reach[g] /\ new'[g] = new[g] /\ mode'[g] = mode[g]
              \/ Loosen(g)
         /\ pc'[g] = "unlink" =>
              \/ pc[g] = "unlink" /\ reach'[g] = reach[g] /\ expire'[g] = expire[g]
              \/ Mark(g) /\ reach'[g] = refs /\ refs' = refs
<1>0. g \in Proc
  BY DEF Proc
<1> USE TypeParts
<1>1. pc \in [Proc -> PC] /\ reach \in [Gc -> SUBSET Obj]
  BY DEF ProcTypes, GcTypes
<1>2. ASSUME pc'[g] # "absent", ~(Step(g) \/ Kill(g))
      PROVE  /\ pc'[g] = pc[g] /\ reach'[g] = reach[g] /\ new'[g] = new[g] /\ expire'[g] = expire[g]
             /\ mode'[g] = mode[g]
  BY <1>2, NotMine
<1>3. CASE CountObjects(g)
  BY <1>0, <1>1, <1>3 DEF CountObjects, Goto, disk, Replacing
<1>4. CASE Mark(g)
  BY <1>0, <1>1, <1>4 DEF Mark, Goto, disk, Replacing, RepackPhase
<1>5. CASE Loosen(g)
  BY <1>0, <1>1, <1>5 DEF Loosen, Goto, Replacing, RepackPhase
<1>6. CASE MoveOld(g) \/ MoveNew(g) \/ RemoveOld(g)
  BY <1>0, <1>1, <1>6 DEF MoveOld, MoveNew, RemoveOld, Goto, gcvars, Replacing, RepackPhase
<1>7. CASE RemoveRedundant(g)
  BY <1>0, <1>1, <1>7 DEF RemoveRedundant, Goto, Replacing, RepackPhase
<1>8. CASE Unlink(g)
  BY <1>0, <1>1, <1>8 DEF Unlink, Goto, gcvars, Replacing, RepackPhase
<1>9. ASSUME \/ StartGc(g) \/ FindExisting(g) \/ StartPackObjects(g) \/ StartPrunePacked(g)
             \/ UnlinkPacked(g) \/ StartPrune(g) \/ Kill(g)
      PROVE pc'[g] \notin RepackPhase \cup {"unlink"}
  <2>1. \/ \E l \in PC \ (RepackPhase \cup {"unlink"}) : Goto(g, l)
        \/ pc' = pc /\ pc[g] \in {"unlinkpacked", "unlinkpacked2"}
    BY <1>9 DEF StartGc, FindExisting, StartPackObjects, StartPrunePacked, UnlinkPacked, StartPrune,
                Kill, PC, RepackPhase
  <2> QED
    BY <1>0, <1>1, <2>1 DEF Goto, RepackPhase
<1> HIDE TypeParts
<1>10. CASE Step(g) \/ Kill(g)
  BY <1>3, <1>4, <1>5, <1>6, <1>7, <1>8, <1>9, <1>10, GcSteps DEF Replacing, RepackPhase
<1>11. CASE ~(Step(g) \/ Kill(g))
  BY <1>2, <1>11 DEF Replacing, RepackPhase
<1> QED
  BY <1>10, <1>11

\* What is in a pack that stays is in a pack that stays, or in the one that is replaced.
LEMMA ElsewhereStep ==
  ASSUME TypeOK, Places, Alone, [Next]_vars, NEW g \in Gc, pc[g] \in RepackPhase, pc'[g] \in RepackPhase,
         NEW o, Elsewhere(g, o)
  PROVE  Elsewhere(g, o)' \/ (MoveOld(g) /\ o \in new[g])
<1>0. g \in Proc
  BY DEF Proc
<1>1. PICK T \in Packs : T \notin existing[g] /\ o \in T
  BY DEF Elsewhere
<1>2. pc \in [Proc -> PC] /\ existing \in [Gc -> SUBSET Pack]
  BY TypeParts DEF ProcTypes, GcTypes
<1>3. existing'[g] \subseteq existing[g]
  <2>1. ~FindExisting(g)
    BY DEF FindExisting, RepackPhase
  <2> QED
    BY <2>1, ExistingStep DEF Sorting
<1>4. CASE T \in Packs'
  BY <1>1, <1>3, <1>4 DEF Elsewhere
<1>5. CASE T \notin Packs'
  <2>1. Step(g) \/ Kill(g)
    BY <1>1, <1>5, NotMine DEF RepackPhase
  <2>2. MoveOld(g) /\ T = new[g]
    BY <1>0, <1>1, <1>5, <2>1, GonePacks
  <2> QED
    BY <1>1, <2>2
<1> QED
  BY <1>4, <1>5

\* What becomes reachable is there, and no gc is going to remove it.
LEMMA Arrived ==
  ASSUME BringsNew, TypeOK, Places, Dates, Published, Written, Received,
         NEW x \in Writer \cup Pusher, Publish(x), NEW o \in Result(x) \ refs
  PROVE  /\ loose' = loose /\ packs' = packs
         /\ \/ loose[o] # None /\ clock - Grace < loose[o]
            \/ \E S \in Packs : o \in S /\ \A g \in Gc : pc[g] \in Sorting => S \notin existing[g]
<1>1. o \in Own(x) /\ x \in Proc /\ o \in Obj
  BY OwnFacts DEF BringsNew, Published, Proc
<1>2. loose' = loose /\ packs' = packs /\ pc[x] = "publish"
  BY DEF Publish
<1>3. CASE x \in Writer
  <2>1. todo[x] = {} /\ Running(x)
    BY <1>1, <1>2, <1>3 DEF Places, PlaceOf, Running
  <2>2. loose[o] # None /\ began[x] <= loose[o] /\ clock < began[x] + Grace
    BY <1>1, <1>3, <2>1 DEF Written, Dates
  <2>3. clock \in Int /\ began[x] \in Int /\ loose[o] \in Int /\ Grace \in Int
    BY <1>1, <2>2, TypeParts DEF DiskTypes, ProcTypes, Time
  <2> QED
    BY <1>2, <2>2, <2>3
<1>4. CASE x \in Pusher
  <2>1. Pushed[x] \in Packs /\ o \in Pushed[x]
    BY <1>1, <1>2, <1>4, OwnFacts DEF Received
  <2>2. \A g \in Gc : pc[g] \in Sorting => Pushed[x] \notin existing[g]
    BY <1>1, <1>4, <2>1 DEF Received
  <2> QED
    BY <1>2, <2>1, <2>2
<1> QED
  BY <1>3, <1>4

\* What goes from the list of redundant packs is in the new one or elsewhere.
LEMMA NextCovered ==
  TypeOK /\ Places /\ Alone /\ Lists /\ Covered /\ [Next]_vars => Covered'
<1> SUFFICES ASSUME TypeOK, Places, Alone, Lists, Covered, [Next]_vars,
                    NEW g \in Gc, pc'[g] \in Replacing, NEW o \in reach'[g]
             PROVE  o \in new'[g] \/ Elsewhere(g, o)'
  BY DEF Covered, Elsewhere
<1>1. CASE pc[g] \in Replacing /\ reach'[g] = reach[g] /\ new'[g] = new[g]
  <2>1. o \in new[g] \/ Elsewhere(g, o)
    BY <1>1 DEF Covered
  <2> QED
    BY <1>1, <2>1, ElsewhereStep DEF Replacing, RepackPhase
<1>2. CASE Loosen(g)
  <2>1. /\ new'[g] = {i \in reach[g] : ~LeftOut(g, i)} /\ reach'[g] = reach[g] /\ pc[g] = "loosen"
        /\ existing'[g] = existing[g] /\ Packs' = Packs
    BY <1>2, TypeParts DEF Loosen, GcTypes, Packs
  <2>2. ListsOf(g)
    BY DEF Lists
  <2>3. ASSUME LeftOut(g, o) PROVE \E T \in Packs \ existing[g] : o \in T
    <3>1. CASE mode[g] = "incremental"
      <4>1. existing[g] = {} /\ opened[g] \subseteq Packs
        BY <2>1, <2>2, <3>1 DEF ListsOf, Sorting, RepackPhase
      <4> QED
        BY <2>3, <4>1 DEF LeftOut, Holding
    <3>2. CASE Kept(g, o)
      <4>1. existing[g] \cap kept[g] = {} /\ kept[g] \subseteq Packs
        BY <2>1, <2>2 DEF ListsOf
      <4> QED
        BY <3>2, <4>1 DEF Kept
    <3> QED
      BY <2>3, <3>1, <3>2 DEF LeftOut
  <2> QED
    BY <2>1, <2>3 DEF Elsewhere
<1> QED
  BY <1>1, <1>2, PhaseStep

\* What is published while a gc runs is not what the gc removes.
LEMMA NextLate ==
  ASSUME BringsNew
  PROVE  /\ TypeOK /\ Places /\ Alone /\ Dates /\ Published /\ Written /\ Received /\ Lists /\ Late
         /\ [Next]_vars
         => Late'
<1> SUFFICES ASSUME TypeOK, Places, Alone, Dates, Published, Written, Received, Lists, Late, [Next]_vars,
                    NEW g \in Gc, NEW o \in refs' \ reach'[g]
             PROVE  /\ pc'[g] \in RepackPhase => loose'[o] # None \/ Elsewhere(g, o)'
                    /\ pc'[g] = "unlink" => \/ loose'[o] # None /\ expire'[g] < loose'[o]
                                            \/ \E S \in Packs' : o \in S
  BY DEF Late, Elsewhere
<1>0. g \in Proc /\ o \in Obj /\ ListsOf(g)
  <2>1. refs' \subseteq Obj
    BY NextDisk DEF DiskTypes
  <2> QED
    BY <2>1 DEF Proc, Lists
<1>1. ASSUME pc'[g] \in RepackPhase PROVE loose'[o] # None \/ Elsewhere(g, o)'
  <2>1. pc[g] \in RepackPhase /\ reach'[g] = reach[g]
    BY <1>1, PhaseStep
  <2>2. CASE o \in refs
    <3>1. loose[o] # None \/ Elsewhere(g, o)
      BY <2>1, <2>2 DEF Late
    <3>2. ASSUME loose[o] # None PROVE loose'[o] # None
      <4>1. CASE Step(g) \/ Kill(g)
        <5>1. ~UnlinkPacked(g) /\ ~Unlink(g) /\ clock # None
          BY <2>1, TypeParts DEF UnlinkPacked, Unlink, RepackPhase, DiskTypes
        <5> QED
          BY <1>0, <3>2, <4>1, <5>1, Effects
      <4>2. CASE ~(Step(g) \/ Kill(g))
        BY <1>0, <1>1, <3>2, <4>2, NotMine DEF RepackPhase
      <4> QED
        BY <4>1, <4>2
    <3>3. ASSUME Elsewhere(g, o) PROVE Elsewhere(g, o)'
      <4>1. ASSUME MoveOld(g) PROVE o \notin new[g]
        <5>1. new[g] \subseteq reach[g]
          BY <1>0, <4>1 DEF ListsOf, MoveOld, Replacing
        <5> QED
          BY <2>1, <5>1
      <4> QED
        BY <1>1, <2>1, <3>3, <4>1, ElsewhereStep
    <3> QED
      BY <3>1, <3>2, <3>3
  <2>3. CASE o \notin refs
    <3>1. PICK x \in Writer \cup Pusher : Publish(x) /\ o \in Result(x)
      BY <2>3, RefsStep
    <3>2. existing' = existing
      BY <3>1 DEF Publish, gcvars
    <3> QED
      BY <2>1, <2>3, <3>1, <3>2, Arrived DEF Elsewhere, Sorting, Packs
  <2> QED
    BY <2>2, <2>3
<1>2. ASSUME pc'[g] = "unlink"
      PROVE  \/ loose'[o] # None /\ expire'[g] < loose'[o]
             \/ \E S \in Packs' : o \in S
  <2>1. pc[g] = "unlink" /\ reach'[g] = reach[g] /\ expire'[g] = expire[g]
    BY <1>2, PhaseStep
  <2>2. CASE o \in refs
    <3>1. \/ loose[o] # None /\ expire[g] < loose[o]
          \/ \E S \in Packs : o \in S
      BY <2>1, <2>2 DEF Late
    <3>2. Packs \subseteq Packs'
      <4>1. CASE Step(g) \/ Kill(g)
        BY <1>0, <2>1, <4>1, GonePacks DEF MoveOld, RemoveRedundant
      <4>2. CASE ~(Step(g) \/ Kill(g))
        BY <1>2, <4>2, NotMine
      <4> QED
        BY <4>1, <4>2
    <3>3. ASSUME loose[o] # None, expire[g] < loose[o] PROVE loose'[o] = loose[o]
      <4>1. CASE Step(g) \/ Kill(g)
        <5>1. ~UnlinkPacked(g)
          BY <2>1 DEF UnlinkPacked
        <5>2. ~Expired(g, o)
          <6>1. loose[o] \in Int /\ expire[g] \in Int
            BY <1>0, <3>3, TypeParts DEF DiskTypes, GcTypes, Time
          <6> QED
            BY <3>3, <6>1 DEF Expired
        <5> QED
          BY <1>0, <3>3, <4>1, <5>1, <5>2, Effects
      <4>2. CASE ~(Step(g) \/ Kill(g))
        BY <1>0, <1>2, <3>3, <4>2, NotMine
      <4> QED
        BY <4>1, <4>2
    <3> QED
      BY <2>1, <3>1, <3>2, <3>3
  <2>3. CASE o \notin refs
    <3>1. PICK x \in Writer \cup Pusher : Publish(x) /\ o \in Result(x)
      BY <2>3, RefsStep
    <3>2. /\ loose' = loose /\ packs' = packs
          /\ \/ loose[o] # None /\ clock - Grace < loose[o]
             \/ \E S \in Packs : o \in S
      BY <2>3, <3>1, Arrived
    <3>3. expire[g] <= clock - Grace
      BY <2>1 DEF Dates
    <3>4. loose[o] # None => loose[o] \in Int
      BY <1>0, TypeParts DEF DiskTypes, Time
    <3>5. clock - Grace \in Int /\ expire[g] \in Int
      BY TypeParts DEF DiskTypes, GcTypes, Time
    <3>6. loose[o] # None /\ clock - Grace < loose[o] => expire[g] < loose[o]
      BY <3>3, <3>4, <3>5
    <3> QED
      BY <2>1, <3>2, <3>6 DEF Packs
  <2> QED
    BY <2>2, <2>3
<1> QED
  BY <1>1, <1>2

-----------------------------------------------------------------------------
(* Nothing reachable is lost *)

\* What is not reachable from the new pack's point of view is loose or elsewhere, so
\* that nothing is lost with a redundant pack.
LEMMA NextRefsOnDisk ==
  ASSUME BringsNew
  PROVE  /\ TypeOK /\ Places /\ Dates /\ Published /\ Written /\ Received /\ Lists /\ Covered /\ Late
         /\ RefsOnDisk /\ [Next]_vars
         => RefsOnDisk'
<1> SUFFICES ASSUME TypeOK, Places, Dates, Published, Written, Received, Lists, Covered, Late,
                    RefsOnDisk, [Next]_vars, NEW o \in refs'
             PROVE  loose'[o] # None \/ \E S \in Packs' \cup old' : o \in S
  BY DEF RefsOnDisk, OnDisk
<1>0. o \in Obj
  BY NextDisk DEF DiskTypes
<1>1. CASE o \notin refs
  <2>1. PICK x \in Writer \cup Pusher : Publish(x) /\ o \in Result(x)
    BY <1>1, RefsStep
  <2> QED
    BY <1>1, <2>1, Arrived DEF Packs
<1>2. ASSUME o \in refs, NEW x \in Proc, Step(x) \/ Kill(x)
      PROVE  loose'[o] # None \/ \E S \in Packs' \cup old' : o \in S
  <2>1. CASE loose[o] # None /\ loose'[o] = None
    <3>1. CASE UnlinkPacked(x) /\ x \in Gc /\ Holding(x, o) # {}
      <4>1. opened[x] \subseteq Packs /\ Packs' = Packs
        BY <3>1 DEF UnlinkPacked, Lists, ListsOf, Packs
      <4> QED
        BY <3>1, <4>1 DEF Holding
    <3>2. CASE Unlink(x) /\ x \in Gc /\ Expired(x, o)
      <4>1. o \notin reach[x] /\ loose[o] <= expire[x] /\ Packs' = Packs /\ pc[x] = "unlink"
        BY <3>2 DEF Expired, Unlink, Packs
      <4>2. loose[o] \in Int /\ expire[x] \in Int
        BY <1>0, <2>1, <3>2, TypeParts DEF DiskTypes, GcTypes, Time
      <4>3. \E S \in Packs : o \in S
        BY <1>2, <3>2, <4>1, <4>2 DEF Late
      <4> QED
        BY <4>1, <4>3
    <3>3. clock # None
      BY TypeParts DEF DiskTypes
    <3> QED
      BY <1>0, <1>2, <2>1, <3>1, <3>2, <3>3, Effects
  <2>2. CASE \E S \in Packs : o \in S
    <3>1. PICK S \in Packs : o \in S
      BY <2>2
    <3>2. CASE S \in Packs' \cup old'
      BY <3>1, <3>2
    <3>3. CASE S \notin Packs' \cup old'
      <4>1. /\ RemoveRedundant(x) /\ x \in Gc /\ S \in existing[x] \ {new[x]}
            /\ Packs' = Packs \ {S}
        BY <1>2, <3>1, <3>3, GonePacks
      <4>2. pc[x] = "redundant" /\ loose' = loose
        BY <4>1 DEF RemoveRedundant
      <4>3. CASE Elsewhere(x, o)
        BY <4>1, <4>3 DEF Elsewhere
      <4>4. CASE o \in new[x]
        <5>1. new[x] \in Packs
          BY <4>1, <4>2, <4>4 DEF Lists, ListsOf
        <5> QED
          BY <4>1, <4>4, <5>1
      <4>5. CASE loose[o] # None
        BY <4>2, <4>5
      <4> QED
        BY <1>2, <4>1, <4>2, <4>3, <4>4, <4>5 DEF Covered, Late, Replacing, RepackPhase
    <3> QED
      BY <3>2, <3>3
  <2>3. CASE \E S \in old : o \in S
    <3>1. PICK S \in old : o \in S
      BY <2>3
    <3>2. CASE S \in old'
      BY <3>1, <3>2
    <3>3. CASE S \notin old'
      <4>1. RemoveOld(x) /\ x \in Gc /\ S = new[x]
        <5>1. MoveOld(x) => S \in old'
          BY <3>1 DEF MoveOld
        <5> QED
          BY <1>2, <3>1, <3>3, <5>1, Effects
      <4>2. S \in Packs /\ Packs' = Packs
        BY <4>1 DEF RemoveOld, Lists, ListsOf, Packs
      <4> QED
        BY <3>1, <4>2
    <3> QED
      BY <3>2, <3>3
  <2>4. loose[o] # None \/ \E S \in Packs \cup old : o \in S
    BY <1>2 DEF RefsOnDisk, OnDisk
  <2> QED
    BY <2>1, <2>2, <2>3, <2>4
<1>3. CASE o \in refs /\ (DeleteRef \/ Tick \/ UNCHANGED vars)
  BY <1>3, QuietSteps DEF RefsOnDisk, OnDisk, Packs
<1> QED
  BY <1>1, <1>2, <1>3 DEF Next

\* The first states have all that is reachable, and no gc.
LEMMA InitRest == ASSUME AllThere PROVE Init => Covered /\ Late /\ RefsOnDisk
<1> SUFFICES ASSUME Init PROVE Covered /\ Late /\ RefsOnDisk
  OBVIOUS
<1>1. \A g \in Gc : pc[g] \in {"absent", "new"}
  BY DEF Init, Proc
<1>2. RefsOnDisk
  BY DEF Init, RefsOnDisk, OnDisk, AllThere, Packs
<1> QED
  BY <1>1, <1>2 DEF Covered, Late, Replacing, RepackPhase

\* The initial states satisfy the inductive invariant ...
LEMMA InitIInv == ASSUME OneGc, AllThere PROVE Init => IInv
  BY Initially, InitAlone, InitDates, InitPublished, InitWritten, InitReceived, InitLists,
     InitRest
  DEF IInv

\* ... and every step keeps it.
LEMMA NextIInv == ASSUME BringsNew PROVE IInv /\ [Next]_vars => IInv'
<1> SUFFICES ASSUME IInv, [Next]_vars PROVE IInv'
  OBVIOUS
<1>1. TypeOK' /\ Places'
  BY NextDisk, NextProc, NextLists, NextGcTypes, NextPlaces, TypeParts
  DEF IInv, TypeOK, DiskTypes, ProcTypes, ListTypes, GcTypes
<1>2. Alone' /\ Dates'
  BY NextAlone, NextDates DEF IInv
<1>3. Published' /\ Written' /\ Received'
  BY NextPublished, NextWritten, NextReceived DEF IInv
<1>4. Lists' /\ Covered' /\ Late' /\ RefsOnDisk'
  BY NextListsOf, NextCovered, NextLate, NextRefsOnDisk DEF IInv
<1> QED
  BY <1>1, <1>2, <1>3, <1>4 DEF IInv

\* The variables of the object store keep their types, for every set of processes and
\* objects: a name without a file is None, whoever opens a pack has it on its list
\* (sha1_file.c), and gc counts its runs (builtin/gc.c).
THEOREM StoreTypes == Spec => []TypeOK
<1>1. Init => TypeOK /\ Places
  BY Initially
<1>2. TypeOK /\ Places /\ [Next]_vars => (TypeOK /\ Places)'
  BY NextDisk, NextProc, NextLists, NextGcTypes, NextPlaces, TypeParts
  DEF TypeOK, DiskTypes, ProcTypes, ListTypes, GcTypes
<1> QED
  BY <1>1, <1>2, PTL DEF Spec

\* The invariant says that nothing in use is lost.
LEMMA NothingLost == ASSUME BringsNew PROVE IInv => NothingInUseLost
<1> SUFFICES ASSUME IInv, NEW o \in Obj, InUse(o) PROVE OnDisk(o)
  BY DEF NothingInUseLost
<1>1. CASE o \in refs
  BY <1>1 DEF IInv, RefsOnDisk
<1>2. ASSUME NEW p \in Writer, Running(p), o \in Job[p] \ todo[p], o \notin refs PROVE OnDisk(o)
  <2>1. o \in Own(p)
    BY <1>2, OwnFacts DEF BringsNew, IInv, Published
  <2> QED
    BY <1>2, <2>1 DEF IInv, Written, OnDisk
<1>3. ASSUME NEW p \in Pusher, pc[p] = "publish", o \in Pushed[p] PROVE OnDisk(o)
  BY <1>3 DEF IInv, Received, OnDisk
<1> QED
  BY <1>1, <1>2, <1>3 DEF InUse

\* git gc (git-repack.sh, builtin/prune-packed.c, builtin/prune.c) never takes an object
\* that refs reach, or that a writer or pusher is about to publish, off the disk, wherever
\* it is when they write, install their pack, drop its .keep file or are killed.  It is not
\* about a writer of an object that is there already as garbage (BringsNew).
THEOREM NothingInUseIsLost == ASSUME BringsNew, OneGc, AllThere PROVE Spec => []NothingInUseLost
<1>1. Init => IInv
  BY InitIInv
<1>2. IInv /\ [Next]_vars => IInv'
  BY NextIInv
<1>3. IInv => NothingInUseLost
  BY NothingLost
<1> QED
  BY <1>1, <1>2, <1>3, PTL DEF Spec

-----------------------------------------------------------------------------
(* Nothing young is lost *)

\* When an object is written or received anew, there is no older copy of it.
LEMMA BornStep ==
  ASSUME BringsNew, IInv, NEW p \in Proc, Step(p) \/ Kill(p), NEW o \in Obj \ Lasting
  PROVE  \/ born'[o] = born[o]
         \/ /\ WriteLoose(p) /\ loose'[o] = clock /\ born'[o] = clock
            /\ \A S \in Packs : o \notin S
         \/ /\ InstallPack(p) /\ born'[o] = clock /\ p \in Pusher /\ o \in Own(p) \ refs
            /\ loose[o] = None /\ \A S \in Packs : o \notin S
            /\ packs' = With(Pushed[p], clock)
<1> USE TypeParts DEF IInv
<1>0. born \in [Obj -> Time]
  BY DEF DiskTypes
<1>1. CASE WriteLoose(p)
  <2>1. p \in Writer /\ pc[p] = "write"
    BY <1>1, WhoIsWhere DEF WriteLoose
  <2>2. CASE o = cur[p] /\ loose[o] = None
    <3>1. o \in Own(p)
      <4>1. o \in Job[p]
        BY <2>1, <2>2 DEF Places, PlaceOf
      <4> QED
        BY <2>1, <4>1, OwnFacts DEF BringsNew
    <3>2. o \notin refs
      BY <2>1, <3>1 DEF Published, Before
    <3>3. \A S \in Packs : o \notin S
      BY <2>1, <3>1, <3>2 DEF Written
    <3>4. loose'[o] = clock /\ born'[o] = clock
      BY <1>0, <1>1, <2>2 DEF WriteLoose, DiskTypes
    <3> QED
      BY <1>1, <3>3, <3>4
  <2>3. CASE ~(o = cur[p] /\ loose[o] = None)
    BY <1>0, <1>1, <2>3 DEF WriteLoose
  <2> QED
    BY <2>2, <2>3
<1>2. CASE InstallPack(p)
  <2>1. p \in Pusher /\ pc[p] = "install"
    BY <1>2, WhoIsWhere DEF InstallPack
  <2>2. CASE o \in Pushed[p] /\ Pushed[p] \notin Packs
    <3>1. o \in Own(p)
      BY <2>1, <2>2, OwnFacts DEF BringsNew
    <3>2. o \notin refs
      BY <2>1, <3>1 DEF Published, Before
    <3>3. loose[o] = None /\ \A S \in Packs : o \notin S
      BY <2>1, <3>1, <3>2 DEF Received, Before
    <3> QED
      BY <1>2, <2>1, <2>2, <3>1, <3>2, <3>3 DEF InstallPack
  <2>3. CASE ~(o \in Pushed[p] /\ Pushed[p] \notin Packs)
    BY <1>2, <2>3 DEF InstallPack
  <2> QED
    BY <2>2, <2>3
<1>3. ASSUME ~WriteLoose(p), ~InstallPack(p) PROVE born' = born
  BY <1>3 DEF Step, Kill, FirstList, Read, NextObject, LookPacked, LookLoose, ListAgain, disk,
            WriteKeep, Publish, RemoveKeep, StartGc, FindExisting, StartPackObjects,
            CountObjects, Loosen, MoveOld, MoveNew, RemoveOld, RemoveRedundant, StartPrunePacked,
            UnlinkPacked, StartPrune, Mark, Unlink
<1> QED
  BY <1>1, <1>2, <1>3

\* Packs keep their times, but for a new one.
LEMMA PackTimes ==
  ASSUME TypeOK, Places, NEW p \in Proc, Step(p) \/ Kill(p), NEW S \in Packs'
  PROVE  (S \in Packs /\ packs'[S] = packs[S]) \/ packs'[S] = clock
<1>1. CASE InstallPack(p)
  BY <1>1 DEF InstallPack, With, Packs
<1>2. CASE MoveNew(p)
  BY <1>2 DEF MoveNew, With, Packs
<1>3. CASE MoveOld(p)
  BY <1>3 DEF MoveOld, Without, Packs
<1>4. CASE RemoveRedundant(p)
  BY <1>4 DEF RemoveRedundant, Without, Packs
<1>5. CASE packs' = packs
  BY <1>5 DEF Packs
<1> QED
  BY <1>1, <1>2, <1>3, <1>4, <1>5, Effects

\* The ages of the first files
LEMMA InitAged == ASSUME OneAge PROVE Init => Aged
<1> SUFFICES ASSUME Init PROVE Aged
  OBVIOUS
<1>1. /\ clock = InitTime /\ loose = InitLoose /\ packs = InitPacks
      /\ \A o \in Obj : born[o] = InitBorn(o) /\ born[o] \in Time
  BY Initially, TypeParts DEF Init, DiskTypes
<1> QED
  BY <1>1 DEF Aged, OneAge, Packs, Time

\* No copy gets older than the object.
LEMMA NextAged == ASSUME BringsNew PROVE IInv /\ Aged /\ [Next]_vars => Aged'
<1> SUFFICES ASSUME IInv, Aged, [Next]_vars, NEW o \in Obj \ Lasting
             PROVE  /\ born'[o] <= clock'
                    /\ loose'[o] # None => born'[o] <= loose'[o]
                    /\ \A S \in Packs' : o \in S => born'[o] <= packs'[S]
  BY DEF Aged, Packs
<1> USE TypeParts DEF IInv
<1>1. /\ born[o] \in Nat /\ clock \in Nat
      /\ \A S \in Packs : packs[S] \in Nat
      /\ loose[o] # None => loose[o] \in Nat
  BY DEF DiskTypes, Time, Packs
<1>2. /\ born[o] <= clock
      /\ loose[o] # None => born[o] <= loose[o]
      /\ \A S \in Packs : o \in S => born[o] <= packs[S]
  BY DEF Aged
<1>3. clock' \in Nat /\ clock <= clock'
  BY Later
<1>4. ASSUME NEW p \in Proc, Step(p) \/ Kill(p), born'[o] = born[o]
      PROVE  /\ loose'[o] # None => born'[o] <= loose'[o]
             /\ \A S \in Packs' : o \in S => born'[o] <= packs'[S]
  <2>1. ASSUME NEW S \in Packs', o \in S PROVE born'[o] <= packs'[S]
    BY <1>1, <1>2, <1>4, <2>1, PackTimes
  <2>2. ASSUME loose'[o] # None PROVE born'[o] <= loose'[o]
    <3>1. ASSUME o \in Loosened(p) PROVE born[o] <= PackTime(p, o)
      <4>1. PICK S \in (listed[p] \ kept[p]) \cap Packs : o \in S
        BY <3>1 DEF Loosened
      <4>2. {packs[T] : T \in {T \in (listed[p] \ kept[p]) \cap Packs : o \in T}} \subseteq Time
        BY DEF DiskTypes, Packs
      <4>3. packs[S] \in {packs[T] : T \in {T \in (listed[p] \ kept[p]) \cap Packs : o \in T}}
        BY <4>1
      <4>4. PackTime(p, o) \in Time /\ packs[S] <= PackTime(p, o)
        BY <4>2, <4>3, MaxOfTimes DEF PackTime
      <4> QED
        BY <1>1, <1>2, <4>1, <4>4 DEF Time
    <3> QED
      BY <1>1, <1>2, <1>4, <2>2, <3>1, Effects
  <2> QED
    BY <2>1, <2>2
<1>5. ASSUME NEW p \in Proc, Step(p) \/ Kill(p), born'[o] # born[o]
      PROVE  /\ born'[o] <= clock'
             /\ loose'[o] # None => born'[o] <= loose'[o]
             /\ \A S \in Packs' : o \in S => born'[o] <= packs'[S]
  <2>1. CASE WriteLoose(p) /\ loose'[o] = clock /\ born'[o] = clock /\ \A S \in Packs : o \notin S
    <3>1. Packs' = Packs
      BY <2>1 DEF WriteLoose, Packs
    <3> QED
      BY <1>1, <1>3, <2>1, <3>1
  <2>2. CASE /\ InstallPack(p) /\ born'[o] = clock /\ loose[o] = None
             /\ \A S \in Packs : o \notin S
    <3>1. loose' = loose
      BY <2>2 DEF InstallPack
    <3>2. ASSUME NEW S \in Packs', o \in S PROVE packs'[S] = clock
      BY <1>5, <2>2, <3>2, PackTimes
    <3> QED
      BY <1>1, <1>3, <2>2, <3>1, <3>2
  <2> QED
    BY <1>5, <2>1, <2>2, BornStep
<1>6. CASE DeleteRef \/ Tick \/ UNCHANGED vars
  <2>1. UNCHANGED <<loose, packs, born>>
    BY <1>6 DEF DeleteRef, Tick, vars, disk
  <2> QED
    BY <1>1, <1>2, <1>3, <2>1 DEF Packs
<1>7. ASSUME born'[o] = born[o] PROVE born'[o] <= clock'
  BY <1>1, <1>2, <1>3, <1>7
<1> QED
  BY <1>4, <1>5, <1>6, <1>7 DEF Next

\* What a gc -A is going to drop is loose, elsewhere or old.
LEMMA NextDropped == ASSUME BringsNew PROVE IInv /\ Aged /\ Dropped /\ [Next]_vars => Dropped'
<1> SUFFICES ASSUME IInv, Aged, Dropped, [Next]_vars,
                    NEW g \in Gc, pc'[g] \in Replacing, mode'[g] = "A",
                    NEW S \in existing'[g], NEW o \in S, o \notin reach'[g], o \notin Lasting
             PROVE  loose'[o] # None \/ Elsewhere(g, o)' \/ Grace <= clock' - born'[o]
  BY DEF Dropped, Elsewhere
<1> USE TypeParts DEF IInv
<1>0. g \in Proc /\ o \in Obj /\ ListsOf(g)
  <2>1. existing' \in [Gc -> SUBSET Pack]
    BY NextGcTypes DEF GcTypes
  <2> QED
    BY <2>1 DEF Proc, Lists, Pack
<1>1. /\ born[o] \in Nat /\ clock \in Nat /\ clock' \in Nat /\ clock <= clock'
      /\ \A T \in Packs : packs[T] \in Nat
  BY <1>0, Later DEF DiskTypes, Time, Packs
<1>2. CASE Loosen(g)
  <2>1. /\ existing'[g] = existing[g] /\ mode'[g] = mode[g] /\ Packs' = Packs /\ pc[g] = "loosen"
        /\ reach'[g] = reach[g] /\ born' = born
        /\ loose' = [i \in Obj |-> IF i \in Loosened(g) THEN PackTime(g, i) ELSE loose[i]]
    BY <1>2 DEF Loosen, Packs
  <2>2. /\ existing[g] \subseteq listed[g] /\ existing[g] \subseteq Packs
        /\ existing[g] \cap kept[g] = {} /\ kept[g] \subseteq Packs
    BY <1>0, <2>1 DEF ListsOf
  <2>3. CASE Kept(g, o)
    BY <2>1, <2>2, <2>3 DEF Kept, Elsewhere
  <2>4. CASE loose[o] # None
    BY <1>0, <2>1, <2>4 DEF Loosened
  <2>5. CASE o \in Loosened(g)
    <3>1. loose'[o] # None
      <4>1. loose'[o] = PackTime(g, o)
        BY <1>0, <2>1, <2>5
      <4>2. {packs[T] : T \in {T \in (listed[g] \ kept[g]) \cap Packs : o \in T}} \subseteq Time
        BY DEF DiskTypes, Packs
      <4>3. S \in {T \in (listed[g] \ kept[g]) \cap Packs : o \in T}
        BY <2>1, <2>2
      <4> QED
        BY <4>1, <4>2, <4>3, MaxOfTimes DEF PackTime
    <3> QED
      BY <3>1
  <2>6. CASE ~Kept(g, o) /\ loose[o] = None /\ o \notin Loosened(g)
    <3>1. S \in (listed[g] \ kept[g]) \cap Packs
      BY <2>1, <2>2
    <3>2. ~(packs[S] >= expire[g])
      BY <1>0, <2>1, <2>6, <3>1 DEF Loosened
    <3>3. expire[g] <= clock - Grace /\ expire[g] \in Int
      BY <2>1 DEF Dates, GcTypes
    <3>4. born[o] <= packs[S]
      BY <1>0, <3>1 DEF Aged
    <3> QED
      BY <1>1, <2>1, <3>1, <3>2, <3>3, <3>4
  <2> QED
    BY <2>3, <2>4, <2>5, <2>6
<1>3. CASE ~Loosen(g)
  <2>1. pc[g] \in Replacing /\ reach'[g] = reach[g] /\ mode'[g] = mode[g]
    BY <1>3, PhaseStep
  <2>2. S \in existing[g]
    <3>1. ~FindExisting(g)
      BY <2>1 DEF FindExisting, Replacing
    <3> QED
      BY <3>1, ExistingStep DEF Sorting, RepackPhase, Replacing
  <2>3. loose[o] # None \/ Elsewhere(g, o) \/ Grace <= clock - born[o]
    BY <2>1, <2>2 DEF Dropped
  <2>4. ASSUME loose[o] # None PROVE loose'[o] # None
    <3>1. CASE Step(g) \/ Kill(g)
      <4>1. ~UnlinkPacked(g) /\ ~Unlink(g) /\ clock # None
        BY <2>1 DEF UnlinkPacked, Unlink, Replacing, DiskTypes
      <4> QED
        BY <1>0, <2>4, <3>1, <4>1, Effects
    <3>2. CASE ~(Step(g) \/ Kill(g))
      BY <1>0, <2>4, <3>2, NotMine DEF Replacing
    <3> QED
      BY <3>1, <3>2
  <2>5. ASSUME Elsewhere(g, o) PROVE Elsewhere(g, o)'
    <3>1. ASSUME MoveOld(g) PROVE o \notin new[g]
      <4>1. new[g] \subseteq reach[g]
        BY <1>0, <3>1 DEF ListsOf, MoveOld, Replacing
      <4> QED
        BY <2>1, <4>1
    <3> QED
      BY <2>1, <2>5, <3>1, ElsewhereStep DEF Replacing, RepackPhase
  <2>6. ASSUME Grace <= clock - born[o] PROVE loose'[o] # None \/ Grace <= clock' - born'[o]
    <3>1. ASSUME NEW p \in Proc, Step(p) \/ Kill(p), born'[o] # born[o] PROVE loose'[o] # None
      <4>1. ASSUME p \in Pusher, o \in Own(p) \ refs PROVE FALSE
        BY <2>1, <2>2, <4>1 DEF Received, Sorting, RepackPhase, Replacing
      <4>2. clock # None
        BY DEF DiskTypes
      <4> QED
        BY <1>0, <3>1, <4>1, <4>2, BornStep
    <3>2. ASSUME born'[o] = born[o] PROVE Grace <= clock' - born'[o]
      BY <1>1, <2>6, <3>2
    <3>3. ASSUME DeleteRef \/ Tick \/ UNCHANGED vars PROVE born' = born
      BY <3>3 DEF DeleteRef, Tick, vars, disk
    <3> QED
      BY <3>1, <3>2, <3>3 DEF Next
  <2> QED
    BY <2>3, <2>4, <2>5, <2>6
<1> QED
  BY <1>2, <1>3

\* No step takes a young object off the disk, but for repack -a.
LEMMA GraceStep ==
  ASSUME BringsNew, IInv, Aged, Dropped, IInv', [Next]_vars, NEW o \in Obj, OnDisk(o), ~OnDisk(o)'
  PROVE  \/ clock - born[o] >= Grace
         \/ \E p \in Gc : mode[p] = "a" /\ pc[p] = "redundant"
<1> USE TypeParts
<1>0. o \notin Lasting
  <2>1. RefsOnDisk' /\ Lasting \subseteq refs'
    BY DEF IInv, Published
  <2> QED
    BY <2>1 DEF RefsOnDisk
<1> USE DEF IInv
<1>1. born[o] \in Nat /\ clock \in Nat
  BY DEF DiskTypes, Time
<1>2. loose'[o] = None /\ \A S \in Packs' \cup old' : o \notin S
  BY DEF OnDisk
<1>3. ASSUME NEW x \in Proc, Step(x) \/ Kill(x), loose[o] # None PROVE clock - born[o] >= Grace
  <2>1. ~(UnlinkPacked(x) /\ x \in Gc /\ Holding(x, o) # {})
    <3>1. SUFFICES ASSUME UnlinkPacked(x), x \in Gc PROVE Holding(x, o) = {}
      OBVIOUS
    <3>2. opened[x] \subseteq Packs /\ Packs' = Packs
      BY <3>1 DEF UnlinkPacked, Lists, ListsOf, Packs
    <3> QED
      BY <1>2, <3>2 DEF Holding
  <2>2. clock # None
    BY DEF DiskTypes
  <2>3. Unlink(x) /\ x \in Gc /\ Expired(x, o)
    BY <1>2, <1>3, <2>1, <2>2, Effects
  <2>4. loose[o] <= expire[x] /\ expire[x] <= clock - Grace /\ born[o] <= loose[o]
    BY <1>0, <1>3, <2>3 DEF Expired, Unlink, Dates, Aged
  <2>5. loose[o] \in Int /\ expire[x] \in Int
    BY <1>3, <2>3 DEF DiskTypes, GcTypes, Time
  <2> QED
    BY <1>1, <2>4, <2>5
<1>4. ASSUME NEW x \in Proc, Step(x) \/ Kill(x), loose[o] = None, NEW S \in Packs, o \in S
      PROVE  clock - born[o] >= Grace \/ \E p \in Gc : mode[p] = "a" /\ pc[p] = "redundant"
  <2>1. /\ RemoveRedundant(x) /\ x \in Gc /\ S \in existing[x] \ {new[x]} /\ Packs' = Packs \ {S}
    BY <1>2, <1>4, GonePacks
  <2>2. pc[x] = "redundant" /\ ListsOf(x)
    BY <2>1 DEF RemoveRedundant, Lists
  <2>3. ~Elsewhere(x, o)
    BY <1>2, <2>1 DEF Elsewhere
  <2>4. o \notin new[x]
    BY <1>2, <2>1, <2>2 DEF ListsOf
  <2>5. o \notin reach[x]
    BY <2>1, <2>2, <2>3, <2>4 DEF Covered, Replacing
  <2>6. CASE mode[x] = "A"
    BY <1>0, <1>1, <1>4, <2>1, <2>2, <2>3, <2>5, <2>6 DEF Dropped, Replacing
  <2>7. mode[x] # "incremental"
    BY <2>1, <2>2 DEF ListsOf, Sorting, RepackPhase
  <2> QED
    BY <2>1, <2>2, <2>6, <2>7 DEF GcTypes, Mode
<1>5. ASSUME NEW x \in Proc, Step(x) \/ Kill(x), NEW S \in old, o \in S
      PROVE  FALSE
  <2>1. RemoveOld(x) /\ x \in Gc /\ S = new[x]
    <3>1. MoveOld(x) => S \in old'
      BY <1>5 DEF MoveOld
    <3> QED
      BY <1>2, <1>5, <3>1, Effects
  <2>2. S \in Packs /\ Packs' = Packs
    BY <2>1 DEF RemoveOld, Lists, ListsOf, Packs
  <2> QED
    BY <1>2, <1>5, <2>2
<1>6. ~(DeleteRef \/ Tick \/ UNCHANGED vars)
  BY QuietSteps DEF OnDisk, Packs
<1> QED
  BY <1>3, <1>4, <1>5, <1>6 DEF Next, OnDisk

\* Nor does it take one that was written or received less than the grace period ago: what
\* repack -A does not put into the new pack it makes loose with the time of its pack, and
\* prune looks at the time of each loose file.
THEOREM GraceIsKept == ASSUME BringsNew, OneGc, AllThere, OneAge PROVE Spec => GraceKept
<1> DEFINE A == \A o \in Obj : OnDisk(o) /\ ~OnDisk(o)' =>
                  \/ clock - born[o] >= Grace
                  \/ \E p \in Gc : mode[p] = "a" /\ pc[p] = "redundant"
<1>1. Init => GInv
  <2>1. Init => Dropped
    BY DEF Init, Dropped, Replacing, Proc
  <2> QED
    BY <2>1, InitIInv, InitAged DEF GInv
<1>2. GInv /\ [Next]_vars => GInv'
  BY NextIInv, NextAged, NextDropped DEF GInv
<1>3. GInv /\ GInv' /\ [Next]_vars => [A]_vars
  BY GraceStep DEF GInv
<1> HIDE DEF A
<1>4. Spec => [][A]_vars
  BY <1>1, <1>2, <1>3, PTL DEF Spec
<1> QED
  BY <1>4 DEF GraceKept, A

-----------------------------------------------------------------------------
(* Readers *)

\* Beside a reader there is no pusher, and a gc that is not run again.
Company == \A p \in Reader : pc[p] # "absent" =>
  /\ \A x \in Pusher : pc[x] = "absent"
  /\ \A g \in Gc : pc[g] # "absent" => MaxGc[g] <= 1 /\ (pc[g] = "new" \/ runs[g] = MaxGc[g])

\* No gc will remove S any more.
Stays(S) == \A g \in Gc : pc[g] # "absent" =>
  /\ pc[g] \notin {"new", "existing"}
  /\ pc[g] \in Sorting => S \notin existing[g] \/ (S = new[g] /\ pc[g] \in {"rmold", "redundant"})
Safe(o) == \E S \in Packs : o \in S /\ Stays(S)

\* The packs that a reader does not know have come to stay ...
Seen == {"ready", "packed", "loose", "again", "packed2", "failed"}
Unknown == \A p \in Reader : pc[p] \in Seen => \A S \in Packs \ listed[p] : Stays(S)

\* ... so one who has missed an object that is reachable will find it in one of them.
SoughtBy(p) ==
  /\ pc[p] \in Seen \ {"ready"} => cur[p] \in refs \cup Deletable
  /\ cur[p] \in refs =>
      /\ pc[p] = "loose" => loose[cur[p]] # None \/ Safe(cur[p])
      /\ pc[p] = "again" => Safe(cur[p])
      /\ pc[p] = "packed2" => \E S \in Packs \cap listed[p] : cur[p] \in S /\ Stays(S)
      /\ pc[p] # "failed"
Sought == \A p \in Reader : SoughtBy(p)

RInv == IInv /\ Company /\ Unknown /\ Sought

\* Nobody has listed anything at the start.
LEMMA InitRInv == ASSUME OneGc, AllThere, ReadersWithOneGc PROVE Init => RInv
<1> SUFFICES ASSUME Init PROVE RInv
  OBVIOUS
<1>1. IInv
  BY InitIInv
<1>2. \A p \in Proc : pc[p] \in {"absent", "new"}
  BY DEF Init
<1>3. Unknown /\ Sought
  BY <1>2 DEF Unknown, Sought, SoughtBy, Seen, Proc
<1>4. Company
  BY DEF Init, Company, ReadersWithOneGc, Proc
<1> QED
  BY <1>1, <1>3, <1>4 DEF RInv

\* Nobody comes to them, and no gc starts twice.
LEMMA NextCompany == TypeOK /\ Places /\ Company /\ [Next]_vars => Company'
<1> SUFFICES ASSUME TypeOK, Places, Company, [Next]_vars, NEW p \in Reader, pc'[p] # "absent"
             PROVE  /\ \A x \in Pusher : pc'[x] = "absent"
                    /\ \A g \in Gc : pc'[g] # "absent" =>
                          MaxGc[g] <= 1 /\ (pc'[g] = "new" \/ runs'[g] = MaxGc[g])
  BY DEF Company
<1>1. pc[p] # "absent"
  BY NoneComes DEF Proc
<1>2. \A x \in Pusher : pc'[x] = "absent"
  BY <1>1, NoneComes DEF Company, Proc
<1>3. ASSUME NEW g \in Gc, pc'[g] # "absent"
      PROVE  MaxGc[g] <= 1 /\ (pc'[g] = "new" \/ runs'[g] = MaxGc[g])
  <2>1. g \in Proc /\ runs \in [Gc -> Nat] /\ MaxGc \in [Gc -> Nat] /\ pc \in [Proc -> PC]
    BY TypeParts DEF GcTypes, ProcTypes, Proc
  <2>2. MaxGc[g] <= 1 /\ (pc[g] = "new" \/ runs[g] = MaxGc[g])
    BY <1>1, <1>3, <2>1, NoneComes DEF Company
  <2>3. runs'[g] = runs[g] \/ StartGc(g)
    <3>1. runs' = runs \/ \E h \in Gc : StartGc(h)
      BY DEF Next, Step, Kill, vars, gcvars, DeleteRef, Tick, FirstList, Read, NextObject, LookPacked,
             LookLoose, ListAgain, WriteLoose, WriteKeep, InstallPack, Publish, RemoveKeep, StartGc,
             FindExisting, StartPackObjects, CountObjects, Loosen, MoveOld, MoveNew, RemoveOld,
             RemoveRedundant, StartPrunePacked, UnlinkPacked, StartPrune, Mark, Unlink
    <3> QED
      BY <2>1, <3>1 DEF StartGc
  <2>4. CASE StartGc(g)
    <3>1. runs[g] < MaxGc[g] /\ runs'[g] = runs[g] + 1
      BY <2>1, <2>4 DEF StartGc
    <3> QED
      BY <2>1, <2>2, <3>1
  <2>5. CASE runs'[g] = runs[g] /\ runs[g] = MaxGc[g]
    BY <2>2, <2>5
  <2>6. CASE runs'[g] = runs[g] /\ pc[g] = "new" /\ ~StartGc(g)
    <3>1. ~(Step(g) \/ Kill(g))
      BY <2>6, GcSteps
      DEF FindExisting, StartPackObjects, CountObjects, Loosen, MoveOld, MoveNew, RemoveOld,
          RemoveRedundant, StartPrunePacked, UnlinkPacked, StartPrune, Mark, Unlink, Kill, Running
    <3>2. pc'[g] = pc[g]
      BY <2>1, <3>1, Others, QuietSteps DEF Next
    <3> QED
      BY <2>2, <2>6, <3>2
  <2> QED
    BY <2>2, <2>3, <2>4, <2>5, <2>6
<1> QED
  BY <1>2, <1>3

\* A pack that stays is there afterwards, and stays.
LEMMA StaysOn ==
  ASSUME TypeOK, Places, Alone, Company, [Next]_vars, old' = {}, NEW p \in Reader, pc[p] # "absent",
         NEW S \in Packs, Stays(S)
  PROVE  S \in Packs' /\ Stays(S)'
<1>1. S \in Packs'
  <2>1. ASSUME NEW x \in Proc, Step(x) \/ Kill(x), S \notin Packs' PROVE FALSE
    <3>1. RemoveRedundant(x) /\ x \in Gc /\ S \in existing[x] \ {new[x]}
      BY <2>1, GonePacks
    <3> QED
      BY <3>1 DEF RemoveRedundant, Stays, Sorting, RepackPhase
  <2> QED
    BY <2>1, QuietSteps DEF Next, Packs
<1>2. ASSUME NEW g \in Gc, pc'[g] # "absent"
      PROVE  /\ pc'[g] \notin {"new", "existing"}
             /\ pc'[g] \in Sorting => \/ S \notin existing'[g]
                                      \/ S = new'[g] /\ pc'[g] \in {"rmold", "redundant"}
  <2>0. /\ g \in Proc /\ pc \in [Proc -> PC] /\ existing \in [Gc -> SUBSET Pack]
        /\ runs \in [Gc -> Nat] /\ MaxGc \in [Gc -> Nat]
    BY TypeParts DEF ProcTypes, GcTypes, Proc
  <2>1. /\ pc[g] \notin {"absent", "new", "existing"}
        /\ pc[g] \in Sorting => S \notin existing[g] \/ (S = new[g] /\ pc[g] \in {"rmold", "redundant"})
    BY <1>2, <2>0, NoneComes DEF Stays
  <2>2. CASE ~(Step(g) \/ Kill(g))
    BY <1>2, <2>1, <2>2, NotMine
  <2>3. CASE Kill(g)
    BY <2>0, <2>3 DEF Kill, Goto, Sorting, RepackPhase
  <2>4. CASE Step(g)
    <3>1. ~StartGc(g) /\ ~FindExisting(g)
      BY <2>0, <2>1 DEF StartGc, FindExisting, Company
    <3>2. CASE StartPackObjects(g) \/ CountObjects(g) \/ Loosen(g) \/ MoveOld(g) \/ MoveNew(g)
      BY <2>0, <2>1, <3>2
      DEF StartPackObjects, CountObjects, Loosen, MoveOld, MoveNew, Goto, gcvars, Sorting, RepackPhase
    <3>3. CASE RemoveOld(g)
      BY <2>0, <2>1, <3>3 DEF RemoveOld, Goto, gcvars, Sorting, RepackPhase
    <3>4. CASE RemoveRedundant(g)
      BY <2>0, <2>1, <3>4 DEF RemoveRedundant, Goto, Sorting, RepackPhase
    <3>5. CASE StartPrunePacked(g) \/ UnlinkPacked(g) \/ StartPrune(g) \/ Mark(g) \/ Unlink(g)
      BY <2>0, <2>1, <3>5
      DEF StartPrunePacked, UnlinkPacked, StartPrune, Mark, Unlink, Goto, Sorting, RepackPhase
    <3> QED
      BY <2>4, <3>1, <3>2, <3>3, <3>4, <3>5, GcSteps
  <2> QED
    BY <2>2, <2>3, <2>4
<1> QED
  BY <1>1, <1>2 DEF Stays

\* When gc unlinks loose files it is done with packs.
LEMMA StaysInTheEnd ==
  ASSUME Alone, NEW g \in Gc, pc[g] \in {"unlinkpacked", "unlinkpacked2", "unlink"}, NEW S
  PROVE  Stays(S)
  BY DEF Alone, Stays, Sorting, RepackPhase

\* What a reader does, and that others leave it alone
LEMMA ReaderSteps ==
  ASSUME TypeOK, Places, [Next]_vars, NEW p \in Reader
  PROVE  \/ /\ pc[p] \in {"new"} /\ pc'[p] = "ready" /\ listed'[p] = Packs
            /\ UNCHANGED <<packs, loose, refs>>
         \/ /\ pc[p] = "ready" /\ pc'[p] = "packed" /\ cur'[p] \in refs /\ listed'[p] = listed[p]
            /\ UNCHANGED <<packs, loose, refs>>
         \/ /\ pc[p] \in {"packed", "packed2", "loose"} /\ pc'[p] = "ready"
            /\ cur'[p] = cur[p] /\ listed'[p] = listed[p] /\ UNCHANGED <<packs, loose, refs>>
         \/ /\ pc[p] = "packed" /\ pc'[p] = "loose" /\ Holding(p, cur[p]) = {}
            /\ cur'[p] = cur[p] /\ listed'[p] = listed[p] /\ UNCHANGED <<packs, loose, refs>>
         \/ /\ pc[p] = "packed2" /\ pc'[p] = "failed" /\ Holding(p, cur[p]) = {}
            /\ cur'[p] = cur[p] /\ listed'[p] = listed[p] /\ UNCHANGED <<packs, loose, refs>>
         \/ /\ pc[p] = "loose" /\ pc'[p] = "again" /\ loose[cur[p]] = None
            /\ cur'[p] = cur[p] /\ listed'[p] = listed[p] /\ UNCHANGED <<packs, loose, refs>>
         \/ /\ pc[p] = "again" /\ pc'[p] = "packed2" /\ listed'[p] = listed[p] \cup Packs
            /\ cur'[p] = cur[p] /\ UNCHANGED <<packs, loose, refs>>
         \/ pc'[p] = pc[p] /\ cur'[p] = cur[p] /\ listed'[p] = listed[p]
<1>0. /\ p \in Proc /\ p \notin Writer /\ p \notin Pusher /\ p \notin Gc
      /\ pc \in [Proc -> PC] /\ listed \in [Proc -> SUBSET Pack] /\ cur \in [Proc -> Obj]
  BY TypeParts DEF ProcTypes, ListTypes, Proc
<1>1. CASE ~(Step(p) \/ Kill(p))
  <2>1. cur' = cur \/ \E x \in Proc : Step(x) \/ Kill(x)
    BY DEF Next, DeleteRef, Tick, vars
  <2> QED
    BY <1>0, <1>1, <2>1, Others, QuietSteps DEF Next
<1>2. ~Kill(p)
  BY DEF Kill
<1>3. CASE Step(p)
  <2>1. Looking(p)
    BY <1>0, <1>3, WhoIsWhere
    DEF Step, Looking, WriteLoose, WriteKeep, InstallPack, Publish, RemoveKeep, StartGc,
        FindExisting, StartPackObjects, CountObjects, Loosen, MoveOld, MoveNew, RemoveOld,
        RemoveRedundant, StartPrunePacked, UnlinkPacked, StartPrune, Mark, Unlink, Sorting,
        RepackPhase
  <2>2. UNCHANGED <<packs, loose, refs>>
    BY <1>0, <2>1, LookingQuiet
  <2>3. ~NextObject(p)
    BY <1>0 DEF NextObject
  <2>4. CASE FirstList(p)
    BY <1>0, <2>2, <2>4 DEF FirstList, List, Goto
  <2>5. CASE Read(p)
    BY <1>0, <2>2, <2>5 DEF Read, Goto
  <2>6. CASE LookPacked(p)
    BY <1>0, <2>2, <2>6 DEF LookPacked, Done, Goto
  <2>7. CASE LookLoose(p)
    BY <1>0, <2>2, <2>7 DEF LookLoose, Done, Missed, Goto
  <2>8. CASE ListAgain(p)
    BY <1>0, <2>2, <2>8 DEF ListAgain, List, Goto
  <2> QED
    BY <2>1, <2>3, <2>4, <2>5, <2>6, <2>7, <2>8 DEF Looking
<1> QED
  BY <1>1, <1>2, <1>3

\* The packs that appear while somebody reads are those that a gc has made.
LEMMA NextUnknown ==
  TypeOK /\ Places /\ Alone /\ Alone' /\ Company /\ Unknown /\ old' = {} /\ [Next]_vars
    => Unknown'
<1> SUFFICES ASSUME TypeOK, Places, Alone, Alone', Company, Unknown, old' = {}, [Next]_vars,
                    NEW p \in Reader, pc'[p] \in Seen, NEW S \in Packs', S \notin listed'[p]
             PROVE  Stays(S)'
  BY DEF Unknown
<1>0. pc[p] # "absent"
  BY NoneComes DEF Seen, Proc
<1>1. CASE S \in Packs
  <2>1. pc[p] \in Seen /\ S \notin listed[p]
    BY <1>1, ReaderSteps DEF Seen, Packs
  <2> QED
    BY <1>0, <1>1, <2>1, StaysOn DEF Unknown
<1>2. ASSUME NEW x \in Proc, Step(x) \/ Kill(x), S \notin Packs PROVE Stays(S)'
  <2>1. CASE InstallPack(x) /\ x \in Pusher
    <3>1. pc[x] = "install"
      BY <2>1 DEF InstallPack
    <3> QED
      BY <1>0, <2>1, <3>1 DEF Company
  <2>2. CASE MoveNew(x) /\ x \in Gc /\ S = new[x]
    <3>1. pc'[x] = "rmold" /\ new'[x] = S
      BY <1>2, <2>2, TypeParts DEF MoveNew, Goto, gcvars, ProcTypes
    <3>2. \A h \in Gc : pc'[h] # "absent" => h = x
      BY <2>2, <3>1 DEF Alone
    <3> QED
      BY <3>1, <3>2 DEF Stays, Sorting
  <2> QED
    BY <1>2, <2>1, <2>2, NewPacks
<1>3. CASE S \notin Packs /\ (DeleteRef \/ Tick \/ UNCHANGED vars)
  BY <1>3, QuietSteps DEF Packs
<1> QED
  BY <1>1, <1>2, <1>3 DEF Next

\* What a reader wants was reachable, so that it does not become so later.
LEMMA StillThere ==
  ASSUME BringsNew, TypeOK, Places, Published, [Next]_vars, NEW o \in refs', o \in refs \cup Deletable
  PROVE  o \in refs
<1>1. ASSUME o \notin refs PROVE FALSE
  <2>1. PICK x \in Writer \cup Pusher : o \in Result(x)
    BY <1>1, RefsStep
  <2>2. o \in Own(x)
    BY <1>1, <2>1 DEF BringsNew, Published
  <2> QED
    BY <1>1, <2>2, OwnFacts
<1> QED
  BY <1>1

\* The object that a reader looks for is found at last.
LEMMA NextSought ==
  ASSUME BringsNew, IInv, IInv', Company, Unknown, Sought, old = {}, old' = {}, [Next]_vars
  PROVE  Sought'
<1> SUFFICES ASSUME NEW p \in Reader, pc'[p] # "absent" PROVE SoughtBy(p)'
  BY DEF Sought, SoughtBy, Seen
<1> USE DEF IInv
<1>10. pc[p] # "absent"
  BY NoneComes DEF Proc
<1>0. /\ p \in Proc /\ SoughtBy(p) /\ pc \in [Proc -> PC] /\ cur \in [Proc -> Obj]
      /\ RefsOnDisk /\ RefsOnDisk'
  BY TypeParts DEF ProcTypes, Proc, Sought
<1>1. ASSUME pc'[p] \in Seen \ {"ready"} PROVE cur'[p] \in refs' \cup Deletable
  <2>1. cur'[p] \in refs \cup Deletable
    BY <1>0, <1>1, ReaderSteps DEF SoughtBy, Seen
  <2> QED
    BY <2>1, RefsStep
<1>2. ASSUME cur'[p] \in refs', pc'[p] \in Seen \ {"ready", "packed"}
      PROVE  cur'[p] = cur[p] /\ cur[p] \in refs /\ pc[p] \in Seen \ {"ready"}
  <2>1. cur'[p] = cur[p] /\ pc[p] \in Seen \ {"ready"}
    BY <1>2, ReaderSteps DEF Seen
  <2>2. cur[p] \in refs \cup Deletable
    BY <1>0, <2>1 DEF SoughtBy
  <2> QED
    BY <1>2, <2>1, <2>2, StillThere
<1>3. ASSUME NEW o, Safe(o) PROVE Safe(o)'
  BY <1>3, <1>10, StaysOn DEF Safe
<1>4. ASSUME cur'[p] \in refs', pc'[p] = "loose"
      PROVE  loose'[cur'[p]] # None \/ Safe(cur[p])'
  <2>0. PICK o \in Obj : o = cur[p]
    BY <1>0
  <2>1. cur'[p] = o /\ cur[p] = o /\ o \in refs /\ o \in refs'
    BY <1>2, <1>4, <2>0 DEF Seen
  <2> SUFFICES loose'[o] # None \/ Safe(o)'
    BY <2>1 DEF Safe
  <2>2. CASE pc[p] = "packed"
    <3>1. Holding(p, o) = {} /\ UNCHANGED <<packs, loose>>
      <4>1. Holding(p, cur[p]) = {} /\ UNCHANGED <<packs, loose>>
        BY <1>4, <2>2, ReaderSteps
      <4> QED
        BY <2>1, <4>1
    <3>2. CASE \E S \in Packs : o \in S
      <4>1. PICK S \in Packs : o \in S
        BY <3>2
      <4>2. S \notin listed[p]
        BY <3>1, <4>1 DEF Holding
      <4>3. Safe(o)
        BY <2>2, <4>1, <4>2 DEF Unknown, Seen, Safe
      <4> QED
        BY <1>3, <2>1, <4>3
    <3> QED
      BY <2>1, <3>1, <3>2, <1>0 DEF RefsOnDisk, OnDisk
  <2>3. CASE pc[p] = "loose"
    <3>1. CASE Safe(o)
      BY <1>3, <2>1, <3>1
    <3>2. CASE loose'[o] # None
      BY <2>1, <3>2
    <3>3. ASSUME loose[o] # None, loose'[o] = None, NEW x \in Proc, Step(x) \/ Kill(x)
          PROVE  Safe(o)'
      <4>1. x \in Gc /\ pc[x] \in {"unlinkpacked", "unlinkpacked2", "unlink"} /\ Packs' = Packs
        <5>1. clock # None
          BY TypeParts DEF DiskTypes
        <5>2. x \in Gc /\ (UnlinkPacked(x) \/ Unlink(x))
          BY <2>1, <3>3, <5>1, Effects
        <5> QED
          BY <5>2 DEF UnlinkPacked, Unlink, Packs
      <4>2. PICK S \in Packs' : o \in S
        BY <1>0, <2>1, <3>3 DEF RefsOnDisk, OnDisk
      <4>3. Stays(S)
        BY <4>1, StaysInTheEnd
      <4> QED
        BY <4>1, <4>2, <4>3, <1>10, StaysOn DEF Safe
    <3> QED
      BY <1>0, <2>1, <2>3, <3>1, <3>2, <3>3, QuietSteps DEF Next, SoughtBy
  <2> QED
    BY <1>4, <2>2, <2>3, ReaderSteps
<1>5. ASSUME cur'[p] \in refs', pc'[p] = "again" PROVE Safe(cur[p])'
  <2>1. PICK o \in Obj : cur[p] = o /\ cur'[p] = o /\ o \in refs
    BY <1>0, <1>2, <1>5 DEF Seen
  <2>2. Safe(o)
    <3>1. pc[p] = "again" \/ (pc[p] = "loose" /\ loose[o] = None)
      BY <1>5, <2>1, ReaderSteps
    <3> QED
      BY <1>0, <2>1, <3>1 DEF SoughtBy, Safe
  <2> QED
    BY <1>3, <2>1, <2>2 DEF Safe
<1>6. ASSUME cur'[p] \in refs', pc'[p] = "packed2"
      PROVE  \E S \in Packs' \cap listed'[p] : cur'[p] \in S /\ Stays(S)'
  <2>1. cur'[p] = cur[p] /\ cur[p] \in refs
    BY <1>2, <1>6 DEF Seen
  <2>2. PICK S \in Packs : cur[p] \in S /\ Stays(S) /\ S \in listed'[p]
    <3>1. CASE pc[p] = "again" /\ listed'[p] = listed[p] \cup Packs
      BY <1>0, <2>1, <3>1 DEF SoughtBy, Safe
    <3>2. CASE pc[p] = "packed2" /\ listed'[p] = listed[p]
      BY <1>0, <2>1, <3>2 DEF SoughtBy
    <3> QED
      BY <1>6, <3>1, <3>2, ReaderSteps
  <2> QED
    BY <1>10, <2>1, <2>2, StaysOn
<1>7. ASSUME cur'[p] \in refs', pc'[p] = "failed" PROVE FALSE
  <2>1. cur'[p] = cur[p] /\ cur[p] \in refs
    BY <1>2, <1>7 DEF Seen
  <2>2. pc[p] = "packed2" /\ Holding(p, cur[p]) = {}
    BY <1>0, <1>7, <2>1, ReaderSteps DEF SoughtBy
  <2> QED
    BY <1>0, <2>1, <2>2 DEF SoughtBy, Holding
<1> QED
  BY <1>1, <1>4, <1>5, <1>6, <1>7 DEF SoughtBy

\* read_object() finds what is reachable beside a gc that runs once, as long as no pack has to
\* be renamed to old-pack-... for a new one of its name: what prepare_packed_git() did not
\* see is in a pack that stays, and reprepare_packed_git() sees that.
THEOREM ReadersFindWhatIsThere ==
  ASSUME BringsNew, OneGc, AllThere, ReadersWithOneGc
  PROVE  Spec /\ [](old = {}) => []ReadersFind
<1> DEFINE Here == old = {}
<1>1. Init => RInv
  BY InitRInv
<1>2. RInv /\ [Next]_vars /\ Here /\ Here' => RInv'
  <2> SUFFICES ASSUME RInv, [Next]_vars, old = {}, old' = {} PROVE RInv'
    OBVIOUS
  <2>1. IInv'
    BY NextIInv DEF RInv
  <2>2. Company'
    BY NextCompany DEF RInv, IInv
  <2>3. Unknown'
    BY <2>1, NextUnknown DEF RInv, IInv
  <2>4. Sought'
    BY <2>1, NextSought DEF RInv
  <2> QED
    BY <2>1, <2>2, <2>3, <2>4 DEF RInv
<1>3. RInv => ReadersFind
  BY DEF RInv, Sought, SoughtBy, ReadersFind
<1> HIDE DEF Here
<1>4. Spec /\ []Here => []ReadersFind
  BY <1>1, <1>2, <1>3, PTL DEF Spec
<1> QED
  BY <1>4 DEF Here

=============================================================================
