---------------------------- MODULE ObjectStore ----------------------------
(***************************************************************************)
(* Objects on disk and the processes that write, push, read, pack and      *)
(* prune them: sha1_file.c, builtin/prune.c, builtin/prune-packed.c,       *)
(* git-repack.sh, builtin/gc.c and the parts of pack-objects, index-pack   *)
(* and receive-pack that they rest on.                                     *)
(*                                                                         *)
(* An object is in a loose file, in packs, or in both; nothing is locked.  *)
(* What keeps it is that it is reachable when somebody who removes things  *)
(* looks, or too young, or in a pack with a .keep file.  A pack is named   *)
(* by the objects in it.  Each process lists the packs once, lists them    *)
(* again when it misses an object, and can read one that it has opened     *)
(* after it was removed.                                                   *)
(***************************************************************************)
EXTENDS Integers, FiniteSetsExt

CONSTANTS Obj,        \* object names
          Writer, Pusher, Reader, Gc,   \* processes: add or commit, receive-pack, ..., gc
          Job,        \* Job[p]: what writer p writes and then makes reachable
          Pushed,     \* Pushed[p]: what pusher p receives as a pack
          Wanted,     \* Wanted[p]: what reader p may read
          Modes,      \* what gc may run, see Mode
          Deletable,  \* objects that may become unreachable
          None,       \* no loose file
          InitLoose, InitPacks, InitRefs, InitTime,
          Grace,      \* gc.pruneExpire, in ticks
          MaxTime,    \* bound of the clock
          MaxReads,   \* bound: reads of one process
          MaxGc,      \* bound: MaxGc[p] is how often gc p is run
          Casts       \* sets of the processes that run together

Proc == Writer \cup Pusher \cup Reader \cup Gc
Pack == (SUBSET Obj) \ {{}}
Time == 0..MaxTime

\* "incremental": repack -d -l, then prune (gc --auto); "A": repack -A -d -l, then
\* prune (gc); "a": repack -a -d alone.
Mode == {"incremental", "A", "a"}

ASSUME ObjectStoreAssumption ==
  /\ None \notin Time /\ MaxTime \in Nat /\ Obj # {}
  /\ Writer \cap (Pusher \cup Reader \cup Gc) = {} /\ Pusher \cap (Reader \cup Gc) = {}
  /\ Reader \cap Gc = {}
  /\ Job \in [Writer -> SUBSET Obj] /\ Pushed \in [Pusher -> Pack] /\ Wanted \in [Reader -> SUBSET Obj]
  /\ \A p1, p2 \in Pusher : Pushed[p1] = Pushed[p2] => p1 = p2
  /\ Modes \subseteq Mode
  /\ InitLoose \in [Obj -> Time \cup {None}]
  /\ InitPacks \in [DOMAIN InitPacks -> Time] /\ DOMAIN InitPacks \subseteq Pack
  /\ InitRefs \cup Deletable \subseteq Obj
  /\ InitTime \in Time /\ Grace \in Nat \ {0} /\ MaxReads \in Nat /\ MaxGc \in [Gc -> Nat]
  /\ Casts \subseteq SUBSET Proc

VARIABLES
  clock,
  loose,      \* loose[o]: mtime of o's loose file, or None
  packs,      \* packs[S]: mtime of the pack of S; its domain are the packs there are
  keep,       \* packs with a .keep file
  old,        \* packs that were renamed to old-pack-...
  refs,       \* what refs, reflogs and the index reach
  born,       \* born[o]: when o was last written or received
  \* each process
  pc,
  began,      \* when it started
  listed,     \* packed_git
  kept,       \* those of listed with pack_keep set
  opened,     \* those of listed whose files are open
  cur,        \* the object it looks for
  todo,       \* objects still to be written, or loose files still to be looked at
  reads,
  \* gc
  mode, runs,
  existing,   \* $existing in git-repack.sh
  expire,     \* unpack_unreachable_expiration and, later, prune's expire
  reach,      \* reachable objects when it looked
  new         \* what goes into the new pack

disk == <<loose, packs, keep, old, refs, born>>
gcvars == <<mode, runs, existing, expire, reach, new>>
vars == <<clock, disk, pc, began, listed, kept, opened, cur, todo, reads, gcvars>>

PC == {"absent", "new", "ready", "packed", "loose", "again", "packed2", "write", "publish", "install",
       "unkeep", "end", "failed", "killed",
       "existing", "pack-objects", "count", "loosen", "moveold", "move", "rmold", "redundant",
       "prune-packed", "unlinkpacked", "prune", "mark", "unlink", "unlinkpacked2"}

TypeOK ==
  /\ clock \in Time
  /\ loose \in [Obj -> Time \cup {None}]
  /\ packs \in [DOMAIN packs -> Time] /\ DOMAIN packs \subseteq Pack
  /\ keep \subseteq Pack /\ old \subseteq Pack
  /\ refs \subseteq Obj
  /\ born \in [Obj -> Time]
  /\ pc \in [Proc -> PC]
  /\ began \in [Proc -> Time]
  /\ {listed, kept, opened} \subseteq [Proc -> SUBSET Pack]
  /\ \A p \in Proc : opened[p] \cup kept[p] \subseteq listed[p]
  /\ cur \in [Proc -> Obj]
  /\ todo \in [Proc -> SUBSET Obj]
  /\ reads \in [Proc -> 0..MaxReads]
  /\ mode \in [Gc -> Mode]
  /\ runs \in [Gc -> Nat] /\ \A p \in Gc : runs[p] <= MaxGc[p]
  /\ existing \in [Gc -> SUBSET Pack]
  /\ expire \in [Gc -> Int]
  /\ reach \in [Gc -> SUBSET Obj] /\ new \in [Gc -> SUBSET Obj]

\* Files that were there at the start are as old as they look.
InitBorn(o) ==
  Max({0} \cup ({InitLoose[o]} \ {None}) \cup {InitPacks[S] : S \in {T \in DOMAIN InitPacks : o \in T}})

Init ==
  /\ clock = InitTime
  /\ loose = InitLoose /\ packs = InitPacks
  /\ keep = {} /\ old = {}
  /\ refs = InitRefs
  /\ born = [o \in Obj |-> InitBorn(o)]
  /\ \E cast \in Casts : pc = [p \in Proc |-> IF p \in cast THEN "new" ELSE "absent"]
  /\ began = [p \in Proc |-> InitTime]
  /\ listed = [p \in Proc |-> {}] /\ kept = [p \in Proc |-> {}] /\ opened = [p \in Proc |-> {}]
  /\ cur = [p \in Proc |-> CHOOSE o \in Obj : TRUE]
  /\ todo = [p \in Proc |-> {}]
  /\ reads = [p \in Proc |-> 0]
  /\ mode \in [Gc -> {"A"}]
  /\ runs = [p \in Gc |-> 0]
  /\ existing = [p \in Gc |-> {}]
  /\ expire = [p \in Gc |-> 0]
  /\ reach = [p \in Gc |-> {}] /\ new = [p \in Gc |-> {}]

Goto(p, l) == pc' = [pc EXCEPT ![p] = l]

\* A process forgets what it knew of the packs when it ends.
Forget(p) == /\ listed' = [listed EXCEPT ![p] = {}]
             /\ kept' = [kept EXCEPT ![p] = {}]
             /\ opened' = [opened EXCEPT ![p] = {}]

-----------------------------------------------------------------------------
(* sha1_file.c: packs *)

Packs == DOMAIN packs

\* A pack file appears, or disappears.
With(S, time) == [T \in Packs \cup {S} |-> IF T = S THEN time ELSE packs[T]]
Without(S) == [T \in Packs \ {S} |-> packs[T]]

\* prepare_packed_git_one() in a process that has the packs L on its list: "Don't
\* reopen a pack we already have."  pack_keep is set when a pack gets on the list.
List(p, L, K) ==
  /\ listed' = [listed EXCEPT ![p] = L \cup Packs]
  /\ kept' = [kept EXCEPT ![p] = K \cup ((Packs \ L) \cap keep)]

\* Where find_pack_entry() finds o: "We better make sure the packfile is still
\* here", unless it is open.
Holding(p, o) == {S \in listed[p] : o \in S /\ S \in opened[p] \cup Packs}

\* It opens the first one.
OpenOne(p, o) == \E S \in Holding(p, o) : opened' = [opened EXCEPT ![p] = @ \cup {S}]

\* prepare_packed_git(), before the first lookup.
FirstList(p) ==
  /\ pc[p] = "new" /\ p \notin Gc
  /\ List(p, {}, {})
  /\ began' = [began EXCEPT ![p] = clock]
  /\ todo' = [todo EXCEPT ![p] = IF p \in Writer THEN Job[p] ELSE {}]
  /\ Goto(p, "ready")
  /\ UNCHANGED <<clock, disk, opened, cur, reads, gcvars>>

-----------------------------------------------------------------------------
(* read_object(); has_sha1_file() and write_sha1_file() *)

\* A reader looks for something that is reachable.
Read(p) ==
  /\ p \in Reader /\ pc[p] = "ready" /\ reads[p] < MaxReads
  /\ \E o \in Wanted[p] \cap refs : cur' = [cur EXCEPT ![p] = o]
  /\ reads' = [reads EXCEPT ![p] = @ + 1]
  /\ Goto(p, "packed")
  /\ UNCHANGED <<clock, disk, began, listed, kept, opened, todo, gcvars>>

NextObject(p) ==
  /\ p \in Writer /\ pc[p] = "ready"
  /\ \E o \in todo[p] : cur' = [cur EXCEPT ![p] = o]
  /\ Goto(p, "packed")
  /\ UNCHANGED <<clock, disk, began, listed, kept, opened, todo, reads, gcvars>>

\* Looked up, or written: the next one.
Done(p) ==
  /\ todo' = [todo EXCEPT ![p] = @ \ {cur[p]}]
  /\ Goto(p, IF p \in Writer /\ todo[p] = {cur[p]} THEN "publish" ELSE "ready")

LookPacked(p) ==
  /\ pc[p] \in {"packed", "packed2"}
  /\ \/ OpenOne(p, cur[p]) /\ Done(p)
     \/ /\ Holding(p, cur[p]) = {}
        /\ Goto(p, IF pc[p] = "packed" THEN "loose" ELSE "failed")
        /\ UNCHANGED <<opened, todo>>
  /\ UNCHANGED <<clock, disk, began, listed, kept, cur, reads, gcvars>>

\* Faulty variant: read_object() does not look for new packs.
MissedNoReprepare(p) == IF p \in Reader THEN "failed" ELSE "write"

\* What happens when there is no loose file either.
Missed(p) == IF p \in Reader THEN "again" ELSE "write"

LookLoose(p) ==
  /\ pc[p] = "loose"
  /\ \/ loose[cur[p]] # None /\ Done(p)
     \/ loose[cur[p]] = None /\ Goto(p, Missed(p)) /\ UNCHANGED todo
  /\ UNCHANGED <<clock, disk, began, listed, kept, opened, cur, reads, gcvars>>

\* reprepare_packed_git()
ListAgain(p) ==
  /\ pc[p] = "again"
  /\ List(p, listed[p], kept[p])
  /\ Goto(p, "packed2")
  /\ UNCHANGED <<clock, disk, began, opened, cur, todo, reads, gcvars>>

\* write_loose_object(): link() keeps a file that somebody else made meanwhile.
WriteLoose(p) ==
  /\ pc[p] = "write"
  /\ loose' = [loose EXCEPT ![cur[p]] = IF @ = None THEN clock ELSE @]
  /\ born' = [born EXCEPT ![cur[p]] = IF loose[cur[p]] = None THEN clock ELSE @]
  /\ Done(p)
  /\ UNCHANGED <<clock, packs, keep, old, refs, began, listed, kept, opened, cur, reads, gcvars>>

-----------------------------------------------------------------------------
(* index-pack --keep, and receive-pack around it *)

\* The .keep file comes first.
WriteKeep(p) ==
  /\ p \in Pusher /\ pc[p] = "ready"
  /\ keep' = keep \cup {Pushed[p]}
  /\ Goto(p, "install")
  /\ UNCHANGED <<clock, loose, packs, old, refs, born, began, listed, kept, opened, cur, todo,
                 reads, gcvars>>

\* move_temp_to_file() leaves a pack of this name, if there is one.
InstallPack(p) ==
  /\ pc[p] = "install"
  /\ packs' = IF Pushed[p] \in Packs THEN packs ELSE With(Pushed[p], clock)
  /\ born' = [o \in Obj |-> IF o \in Pushed[p] /\ Pushed[p] \notin Packs THEN clock ELSE born[o]]
  /\ Goto(p, "publish")
  /\ UNCHANGED <<clock, loose, keep, old, refs, began, listed, kept, opened, cur, todo, reads,
                 gcvars>>

Result(p) == IF p \in Writer THEN Job[p] ELSE Pushed[p]

\* The refs are updated: the objects are reachable.
Publish(p) ==
  /\ pc[p] = "publish"
  /\ refs' = refs \cup Result(p)
  /\ Goto(p, IF p \in Pusher THEN "unkeep" ELSE "end")
  /\ Forget(p)
  /\ UNCHANGED <<clock, loose, packs, keep, old, born, began, cur, todo, reads, gcvars>>

RemoveKeep(p) ==
  /\ pc[p] = "unkeep"
  /\ keep' = keep \ {Pushed[p]}
  /\ Goto(p, "end")
  /\ UNCHANGED <<clock, loose, packs, old, refs, born, began, listed, kept, opened, cur, todo,
                 reads, gcvars>>

-----------------------------------------------------------------------------
(* git repack *)

StartGc(p) ==
  /\ p \in Gc /\ pc[p] \in {"new", "end", "killed", "failed"} /\ runs[p] < MaxGc[p]
  /\ \E m \in Modes : mode' = [mode EXCEPT ![p] = m]
  /\ runs' = [runs EXCEPT ![p] = @ + 1]
  /\ Goto(p, "existing")
  /\ UNCHANGED <<clock, disk, began, listed, kept, opened, cur, todo, reads, existing, expire,
                 reach, new>>

\* Faulty variant: packs with a .keep file are not left out.
ExistingAll(p) == IF mode[p] = "incremental" THEN {} ELSE Packs

\* The packs that will be redundant
Existing(p) == IF mode[p] = "incremental" THEN {} ELSE Packs \ keep

FindExisting(p) ==
  /\ pc[p] = "existing"
  /\ existing' = [existing EXCEPT ![p] = Existing(p)]
  /\ Goto(p, "pack-objects")
  /\ UNCHANGED <<clock, disk, began, listed, kept, opened, cur, todo, reads, mode, runs, expire,
                 reach, new>>

\* pack-objects starts: it reads its options and lists the packs.
StartPackObjects(p) ==
  /\ pc[p] = "pack-objects"
  /\ expire' = [expire EXCEPT ![p] = clock - Grace]
  /\ List(p, {}, {})
  /\ opened' = [opened EXCEPT ![p] = {}]
  /\ Goto(p, "count")
  /\ UNCHANGED <<clock, disk, began, cur, todo, reads, mode, runs, existing, reach, new>>

\* add_object_entry() leaves out what is packed (--incremental), or in a pack
\* that is kept (--honor-pack-keep).
Kept(p, o) == \E S \in kept[p] : o \in S
LeftOut(p, o) == Holding(p, o) # {} /\ (mode[p] = "incremental" \/ Kept(p, o))

\* The traversal from the refs opens the packs with reachable objects, and lists
\* packs again if it misses something.
Traverse(p, L) == opened' = [opened EXCEPT ![p] = {S \in L \cap Packs : S \cap refs # {}}]
Missing(p) == {o \in refs : loose[o] = None /\ Holding(p, o) = {}}

\* It dies of an object that is not there either, and the rest of gc with it.
Lost(p) == \E o \in Missing(p) : \A S \in Packs : o \notin S

CountObjects(p) ==
  /\ pc[p] = "count"
  /\ reach' = [reach EXCEPT ![p] = refs]
  /\ IF Missing(p) # {} THEN List(p, listed[p], kept[p]) ELSE UNCHANGED <<listed, kept>>
  /\ Traverse(p, listed'[p])
  /\ Goto(p, IF Lost(p) THEN "failed" ELSE "loosen")
  /\ UNCHANGED <<clock, disk, began, cur, todo, reads, mode, runs, existing, expire, new>>

\* Faulty variant: nothing is made loose.
LoosenedNone(p) == {}

\* loosen_unused_packed_objects(): what is only in packs that will be removed, but
\* not in those that are older than the expiry.
Loosened(p) ==
  IF mode[p] # "A" \/ existing[p] = {} THEN {}
  ELSE {o \in Obj \ reach[p] :
          /\ ~Kept(p, o) /\ loose[o] = None
          /\ \E S \in (listed[p] \ kept[p]) \cap Packs : o \in S /\ packs[S] >= expire[p]}

\* force_object_loose() gives the file the time of the pack, the youngest that
\* the object is in.
PackTime(p, o) == Max({packs[S] : S \in {T \in (listed[p] \ kept[p]) \cap Packs : o \in T}})

\* The new pack is written under a temporary name.
Loosen(p) ==
  /\ pc[p] = "loosen"
  /\ loose' = [o \in Obj |-> IF o \in Loosened(p) THEN PackTime(p, o) ELSE loose[o]]
  /\ new' = [new EXCEPT ![p] = {o \in reach[p] : ~LeftOut(p, o)}]
  /\ Goto(p, IF new'[p] = {} THEN "redundant" ELSE IF new'[p] \in Packs THEN "moveold" ELSE "move")
  /\ Forget(p)
  /\ UNCHANGED <<clock, packs, keep, old, refs, born, began, cur, todo, reads, mode, runs,
                 existing, expire, reach>>

\* A pack of the same name gets out of the way ...
MoveOld(p) ==
  /\ pc[p] = "moveold"
  /\ packs' = Without(new[p])
  /\ old' = old \cup {new[p]}
  /\ Goto(p, "move")
  /\ UNCHANGED <<clock, loose, keep, refs, born, began, listed, kept, opened, cur, todo, reads,
                 gcvars>>

\* ... for the new one ...
MoveNew(p) ==
  /\ pc[p] = "move"
  /\ packs' = With(new[p], clock)
  /\ Goto(p, "rmold")
  /\ UNCHANGED <<clock, loose, keep, old, refs, born, began, listed, kept, opened, cur, todo,
                 reads, gcvars>>

\* ... and is removed.
RemoveOld(p) ==
  /\ pc[p] = "rmold"
  /\ old' = old \ {new[p]}
  /\ Goto(p, "redundant")
  /\ UNCHANGED <<clock, loose, packs, keep, refs, born, began, listed, kept, opened, cur, todo,
                 reads, gcvars>>

\* "We know $existing are all redundant."
RemoveRedundant(p) ==
  /\ pc[p] = "redundant"
  /\ \/ \E S \in existing[p] \ {new[p]} :
          /\ packs' = Without(S)
          /\ keep' = keep \ {S}
          /\ existing' = [existing EXCEPT ![p] = @ \ {S}]
          /\ UNCHANGED pc
     \/ /\ existing[p] \subseteq {new[p]}
        /\ Goto(p, "prune-packed")
        /\ UNCHANGED <<packs, keep, existing>>
  /\ UNCHANGED <<clock, loose, old, refs, born, began, listed, kept, opened, cur, todo, reads,
                 mode, runs, expire, reach, new>>

-----------------------------------------------------------------------------
(* git prune-packed and git prune *)

LooseObjects == {o \in Obj : loose[o] # None}

StartPrunePacked(p) ==
  /\ pc[p] = "prune-packed"
  /\ List(p, {}, {})
  /\ opened' = [opened EXCEPT ![p] = {}]
  /\ todo' = [todo EXCEPT ![p] = LooseObjects]
  /\ Goto(p, "unlinkpacked")
  /\ UNCHANGED <<clock, disk, began, cur, reads, gcvars>>

\* The loose files that are also in a pack
UnlinkPacked(p) ==
  /\ pc[p] \in {"unlinkpacked", "unlinkpacked2"}
  /\ \/ \E o \in todo[p] :
          /\ todo' = [todo EXCEPT ![p] = @ \ {o}]
          /\ \/ OpenOne(p, o) /\ loose' = [loose EXCEPT ![o] = None]
             \/ Holding(p, o) = {} /\ UNCHANGED <<loose, opened>>
          /\ UNCHANGED <<pc, listed, kept>>
     \/ /\ todo[p] = {}
        /\ Goto(p, IF pc[p] = "unlinkpacked" /\ mode[p] # "a" THEN "prune" ELSE "end")
        /\ Forget(p)
        /\ UNCHANGED <<loose, todo>>
  /\ UNCHANGED <<clock, packs, keep, old, refs, born, began, cur, reads, gcvars>>

\* git prune starts and reads --expire ...
StartPrune(p) ==
  /\ pc[p] = "prune"
  /\ expire' = [expire EXCEPT ![p] = clock - Grace]
  /\ List(p, {}, {})
  /\ opened' = [opened EXCEPT ![p] = {}]
  /\ Goto(p, "mark")
  /\ UNCHANGED <<clock, disk, began, cur, todo, reads, mode, runs, existing, reach, new>>

\* ... marks what is reachable, and looks at all loose files ...
Mark(p) ==
  /\ pc[p] = "mark"
  /\ reach' = [reach EXCEPT ![p] = refs]
  /\ IF Missing(p) # {} THEN List(p, listed[p], kept[p]) ELSE UNCHANGED <<listed, kept>>
  /\ Traverse(p, listed'[p])
  /\ todo' = [todo EXCEPT ![p] = LooseObjects]
  /\ Goto(p, IF Lost(p) THEN "failed" ELSE "unlink")
  /\ UNCHANGED <<clock, disk, began, cur, reads, mode, runs, existing, expire, new>>

\* Faulty variant: the time of the file is not looked at.
ExpiredAlways(p, o) == o \notin reach[p]

Expired(p, o) == o \notin reach[p] /\ loose[o] <= expire[p]

\* ... which go if they are neither reachable nor young, then those that are packed.
Unlink(p) ==
  /\ pc[p] = "unlink"
  /\ \/ \E o \in todo[p] :
          /\ todo' = [todo EXCEPT ![p] = @ \ {o}]
          /\ loose' = [loose EXCEPT ![o] = IF @ # None /\ Expired(p, o) THEN None ELSE @]
          /\ UNCHANGED pc
     \/ /\ todo[p] = {}
        /\ todo' = [todo EXCEPT ![p] = LooseObjects]
        /\ Goto(p, "unlinkpacked2")
        /\ UNCHANGED loose
  /\ UNCHANGED <<clock, packs, keep, old, refs, born, began, listed, kept, opened, cur, reads,
                 gcvars>>

-----------------------------------------------------------------------------
(* The rest of the world *)

Running(p) == pc[p] \notin {"absent", "new", "end", "failed", "killed"}

\* A branch is deleted, and with it its log.
DeleteRef ==
  /\ \E o \in Deletable \cap refs : refs' = refs \ {o}
  /\ UNCHANGED <<clock, loose, packs, keep, old, born, pc, began, listed, kept, opened, cur,
                 todo, reads, gcvars>>

\* Whoever brings objects in makes them reachable before they are due.
Tick ==
  /\ clock < MaxTime
  /\ \A p \in Writer \cup Pusher : Running(p) => clock + 1 < began[p] + Grace
  /\ clock' = clock + 1
  /\ UNCHANGED <<disk, pc, began, listed, kept, opened, cur, todo, reads, gcvars>>

Kill(p) ==
  /\ Running(p) /\ p \notin Reader
  /\ Goto(p, "killed")
  /\ Forget(p)
  /\ todo' = [todo EXCEPT ![p] = {}]
  /\ UNCHANGED <<clock, disk, began, cur, reads, gcvars>>

Step(p) ==
  \/ FirstList(p) \/ Read(p) \/ NextObject(p) \/ LookPacked(p) \/ LookLoose(p) \/ ListAgain(p)
  \/ WriteLoose(p) \/ WriteKeep(p) \/ InstallPack(p) \/ Publish(p) \/ RemoveKeep(p)
  \/ StartGc(p) \/ FindExisting(p) \/ StartPackObjects(p) \/ CountObjects(p) \/ Loosen(p)
  \/ MoveOld(p) \/ MoveNew(p) \/ RemoveOld(p) \/ RemoveRedundant(p)
  \/ StartPrunePacked(p) \/ UnlinkPacked(p) \/ StartPrune(p) \/ Mark(p) \/ Unlink(p)

Next == (\E p \in Proc : Step(p) \/ Kill(p)) \/ DeleteRef \/ Tick

Spec == Init /\ [][Next]_vars

-----------------------------------------------------------------------------
(* What the promises rest on.  git has no lock here: each of these is a     *)
(* thing the code leaves to whoever runs it.                                *)

\* What stays reachable
Lasting == InitRefs \ Deletable

\* What p alone brings in, and nobody has had before
Own(p) == {o \in Result(p) :
             /\ o \notin InitRefs \cup Deletable
             /\ InitLoose[o] = None /\ \A S \in DOMAIN InitPacks : o \notin S
             /\ \A x \in (Writer \cup Pusher) \ {p} : o \notin Result(x)}

\* What is written or pushed is new, or stays reachable: write_sha1_file() leaves an
\* old copy of an unreachable object as old as it is.  A push brings something new:
\* index-pack leaves a pack of the same name, and its .keep file comes too late.
BringsNew == /\ \A p \in Writer \cup Pusher : Result(p) \subseteq Lasting \cup Own(p)
             /\ \A p \in Pusher : Own(p) # {}

\* Nothing keeps two gcs apart: builtin/gc.c takes no lock.
OneGc == \A c \in Casts : \A g, h \in c \cap Gc : g = h

\* The repository is sound at the start.
AllThere == \A o \in InitRefs : InitLoose[o] # None \/ \E S \in DOMAIN InitPacks : o \in S

\* What may be dropped has been brought in once: all copies are of one age.
OneAge == \A o \in Obj \ Lasting :
            /\ InitBorn(o) <= InitTime
            /\ InitLoose[o] \in {None, InitBorn(o)}
            /\ \A S \in DOMAIN InitPacks : o \in S => InitPacks[S] = InitBorn(o)

\* A reader lists the packs again once, and what is on the list then must not be repacked
\* before it opens it: beside a reader, gc is not run twice, and nothing is pushed.
ReadersWithOneGc == \A c \in Casts : c \cap Reader # {} =>
                      /\ c \cap Pusher = {}
                      /\ \A g \in c \cap Gc : MaxGc[g] <= 1

-----------------------------------------------------------------------------
(* Properties *)

\* On disk, be it in a pack that git-repack.sh has moved away for a moment
OnDisk(o) == loose[o] # None \/ \E S \in Packs \cup old : o \in S

\* Reachable, or brought in by a process that is about to make it so
InUse(o) ==
  \/ o \in refs
  \/ \E p \in Writer : Running(p) /\ o \in Job[p] \ todo[p]
  \/ \E p \in Pusher : pc[p] = "publish" /\ o \in Pushed[p]

\* gc removes nothing that somebody needs ("'git gc' tries very hard to be safe
\* about the garbage it collects"), wherever it is when others write, push or are
\* killed.
NothingInUseLost == \A o \in Obj : InUse(o) => OnDisk(o)

\* Whoever reads an object finds it, unless it has become unreachable ("Not a loose
\* object; someone else may have just packed it").
ReadersFind == \A p \in Reader : pc[p] = "failed" => cur[p] \notin refs

\* What was written or received not long ago stays, reachable or not (--expire:
\* "Only expire loose objects older than <time>"; -A: "unreachable objects in a
\* previous pack become loose"), but for repack -a.
GraceKept == [][\A o \in Obj : OnDisk(o) /\ ~OnDisk(o)' =>
                  \/ clock - born[o] >= Grace
                  \/ \E p \in Gc : mode[p] = "a" /\ pc[p] = "redundant"]_vars
=============================================================================
