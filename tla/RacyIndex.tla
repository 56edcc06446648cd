----------------------------- MODULE RacyIndex -----------------------------
(***************************************************************************)
(* read-cache.c, preload-index.c, unpack-trees.c: the index remembers of   *)
(* each file what lstat() said when its content was hashed, and a file     *)
(* that lstat() describes in the same way is taken for unchanged.  Time    *)
(* stamps are coarse, so a file that changes twice in one tick can escape. *)
(* The index is safe against that by comparing contents where the index    *)
(* file is not younger than the entry ("racily clean"), and by smudging    *)
(* such entries when it is written again.                                  *)
(*                                                                         *)
(* A command is a process that holds index.lock from before it reads the   *)
(* index, or one like `git status` that takes it only to write.  A step is *)
(* what a command does with one file, a tick of the clock of the file      *)
(* system, or an edit by the user: in place, so that only time, size and   *)
(* content tell.                                                           *)
(***************************************************************************)
EXTENDS Integers, FiniteSets

CONSTANTS Proc,      \* commands that lock before they read
          Viewer,    \* commands that read before they lock
          File,      \* regular files, all in the index and all there
          Blob,      \* contents
          SizeOf,    \* SizeOf[c]: their sizes
          Empty,     \* the empty one
          Nobody,    \* who holds index.lock when it does not exist
          MaxClock, MaxRuns   \* bounds: ticks, and commands that each process runs

ASSUME RacyIndexAssumption ==
  /\ MaxClock \in Nat \ {0} /\ MaxRuns \in Nat
  /\ SizeOf \in [Blob -> Nat] /\ Empty \in Blob
  /\ \A c \in Blob : SizeOf[c] = 0 <=> c = Empty
  /\ Proc \cap Viewer = {} /\ Nobody \notin Proc \cup Viewer

Git == Proc \cup Viewer

VARIABLES clock,
          work,      \* work[f]: content and mtime of the file
          disk,      \* the index file: its mtime and its entries
          lock,      \* who holds index.lock
          pc,
          mem,       \* mem[p]: the_index, with istate->timestamp, CE_UPTODATE, cache_changed
          runs,      \* runs[p]: commands that p may still run
          looked,    \* looked[p][f]: mtime that the command of p saw last, or 0
          raced      \* raced[p]: files that were edited after the command had looked

vars == <<clock, work, disk, lock, pc, mem, runs, looked, raced>>

Time == 0..MaxClock
Size == {SizeOf[c] : c \in Blob}
Stat == [blob : Blob, mtime : Time]
Entry == [sha : Blob, mtime : Time, size : Size]

TypeOK ==
  /\ clock \in 1..MaxClock
  /\ work \in [File -> Stat]
  /\ disk \in [ts : Time, ent : [File -> Entry]]
  /\ lock \in Git \cup {Nobody}
  /\ pc \in [Git -> {"idle", "run", "flush", "commit"}]
  /\ mem \in [Git -> [ts : Time, ent : [File -> Entry], uptodate : SUBSET File, changed : BOOLEAN]]
  /\ runs \in [Git -> 0..MaxRuns]
  /\ looked \in [Git -> [File -> Time]]
  /\ raced \in [Git -> SUBSET File]
  /\ \A p \in Git : pc[p] \in {"flush", "commit"} => lock = p

----------------------------------------------------------------------------
\* What lstat() and the entry tell about each other.

\* Faulty variant: an entry of size 0 is compared like any other.
match_stat_zero(e, s) ==
  {k \in {"mtime", "data"} :
     \/ k = "mtime" /\ e.mtime # s.mtime
     \/ k = "data" /\ e.size # SizeOf[s.blob]}

\* ce_match_stat_basic(); an entry of size 0 that is not the empty blob was smudged,
\* or comes from a tree and has never seen its file.
match_stat_basic(e, s) ==
  {k \in {"mtime", "data"} :
     \/ k = "mtime" /\ e.mtime # s.mtime
     \/ k = "data" /\ \/ e.size # SizeOf[s.blob]
                      \/ e.size = 0 /\ e.sha # Empty}

is_racy_timestamp(ts, e) == ts # 0 /\ ts <= e.mtime

\* ce_modified_check_fs(): reads the file.
modified_check_fs(e, s) == IF s.blob = e.sha THEN {} ELSE {"data"}

\* Faulty variant: CE_MATCH_RACY_IS_DIRTY is ignored and nobody reads the file.
match_stat_only(ts, e, s, racyIsDirty) == match_stat_basic(e, s)

\* ie_match_stat(); racyIsDirty is CE_MATCH_RACY_IS_DIRTY.
match_stat(ts, e, s, racyIsDirty) ==
  LET changed == match_stat_basic(e, s)
  IN  IF changed # {} \/ ~is_racy_timestamp(ts, e) THEN changed
      ELSE IF racyIsDirty THEN {"data"}
      ELSE modified_check_fs(e, s)

\* ie_modified()
modified(ts, e, s) ==
  LET changed == match_stat(ts, e, s, FALSE)
  IN  /\ changed # {}
      /\ \/ "data" \in changed /\ e.size # 0
         \/ modified_check_fs(e, s) # {}

\* An entry as fill_stat_cache_info() leaves it, and one that comes from a tree.
Filled(c, s) == [sha |-> c, mtime |-> s.mtime, size |-> SizeOf[s.blob]]
FromTree(c) == [sha |-> c, mtime |-> 0, size |-> 0]

\* Faulty variant: entries are written as they are.
unsmudged(m, f) == m.ent[f]

\* ce_smudge_racily_clean_entry(), and the condition of write_index() for it.
smudged(m, f) ==
  LET e == m.ent[f]
  IN  IF /\ f \notin m.uptodate /\ is_racy_timestamp(m.ts, e)
         /\ match_stat_basic(e, work[f]) = {}
         /\ modified_check_fs(e, work[f]) # {}
      THEN [e EXCEPT !.size = 0]
      ELSE e

----------------------------------------------------------------------------
Unread == [ts |-> 0, ent |-> [f \in File |-> FromTree(Empty)], uptodate |-> {}, changed |-> FALSE]

\* The index as `git read-tree` leaves it, files from before.
Init ==
  /\ clock = 1
  /\ work \in [File -> [blob : Blob, mtime : {1}]]
  /\ disk \in [ts : {1}, ent : [File -> {FromTree(c) : c \in Blob}]]
  /\ lock = Nobody
  /\ pc = [p \in Git |-> "idle"]
  /\ mem = [p \in Git |-> Unread]
  /\ runs = [p \in Git |-> MaxRuns]
  /\ looked = [p \in Git |-> [f \in File |-> 0]]
  /\ raced = [p \in Git |-> {}]

Tick == /\ clock < MaxClock
        /\ clock' = clock + 1
        /\ UNCHANGED <<work, disk, lock, pc, mem, runs, looked, raced>>

\* The user.  A file is not edited in the very tick of the mtime that a running command has
\* seen: such an edit escapes the code, if that command writes the index in a later tick.
Edit(f, c) ==
  /\ c # work[f].blob
  /\ \A p \in Git : looked[p][f] # clock
  /\ work' = [work EXCEPT ![f] = [blob |-> c, mtime |-> clock]]
  /\ raced' = [p \in Git |-> IF looked[p][f] # 0 THEN raced[p] \cup {f} ELSE raced[p]]
  /\ UNCHANGED <<clock, disk, lock, pc, mem, runs, looked>>

\* hold_locked_index() and read_cache(); a viewer does without the lock.
Start(p) ==
  /\ pc[p] = "idle" /\ runs[p] > 0
  /\ IF p \in Viewer THEN UNCHANGED lock ELSE lock = Nobody /\ lock' = p
  /\ pc' = [pc EXCEPT ![p] = "run"]
  /\ runs' = [runs EXCEPT ![p] = @ - 1]
  /\ mem' = [mem EXCEPT ![p] = [ts |-> disk.ts, ent |-> disk.ent,
                                uptodate |-> {}, changed |-> FALSE]]
  /\ UNCHANGED <<clock, work, disk, looked, raced>>

Look(p, f) == /\ looked' = [looked EXCEPT ![p][f] = work[f].mtime]
              /\ raced' = [raced EXCEPT ![p] = @ \ {f}]

MarkUptodate(p, f) == mem' = [mem EXCEPT ![p].uptodate = @ \cup {f}]

Put(p, f, e, uptodate) ==
  LET m == mem[p]
  IN  mem' = [mem EXCEPT ![p] =
                [ts |-> m.ts, ent |-> [m.ent EXCEPT ![f] = e],
                 uptodate |-> IF uptodate THEN m.uptodate \cup {f} ELSE m.uptodate \ {f},
                 changed |-> TRUE]]

\* preload_thread(): one file.
Preload(p, f) ==
  /\ pc[p] = "run" /\ f \notin mem[p].uptodate
  /\ match_stat(mem[p].ts, mem[p].ent[f], work[f], TRUE) = {}
  /\ MarkUptodate(p, f)
  /\ Look(p, f)
  /\ UNCHANGED <<clock, work, disk, lock, pc, runs>>

\* refresh_cache_ent(): the file is as the entry says, or was touched only.
Refresh(p, f) ==
  LET m == mem[p]
  IN  /\ pc[p] = "run" /\ f \notin m.uptodate
      /\ \/ /\ match_stat(m.ts, m.ent[f], work[f], FALSE) = {}
            /\ MarkUptodate(p, f)
         \/ /\ match_stat(m.ts, m.ent[f], work[f], FALSE) # {}
            /\ ~modified(m.ts, m.ent[f], work[f])
            /\ Put(p, f, Filled(m.ent[f].sha, work[f]), TRUE)
         \/ /\ modified(m.ts, m.ent[f], work[f])
            /\ UNCHANGED mem
      /\ Look(p, f)
      /\ UNCHANGED <<clock, work, disk, lock, pc, runs>>

\* add_to_index(): a racily clean file is hashed again.
Add(p, f) ==
  LET m == mem[p]
  IN  /\ pc[p] = "run"
      /\ IF match_stat(m.ts, m.ent[f], work[f], TRUE) = {}
         THEN MarkUptodate(p, f)
         ELSE Put(p, f, Filled(work[f].blob, work[f]), TRUE)
      /\ Look(p, f)
      /\ UNCHANGED <<clock, work, disk, lock, pc, runs>>

\* Faulty variant: only the entry's flag counts, or else its time stamp.
verify_mtime(m, f, reset) ==
  reset \/ f \in m.uptodate \/ "mtime" \notin match_stat(m.ts, m.ent[f], work[f], FALSE)

\* verify_uptodate_1(): may the file be overwritten?
verify_uptodate(m, f, reset) ==
  \/ reset \/ f \in m.uptodate
  \/ match_stat(m.ts, m.ent[f], work[f], FALSE) = {}

\* oneway_merge(): does the entry get CE_UPDATE, when its content in the tree is c?
oneway_update(m, f, c, reset) ==
  \/ c # m.ent[f].sha
  \/ /\ reset /\ f \notin m.uptodate
     /\ match_stat(m.ts, m.ent[f], work[f], FALSE) # {}

\* write_entry(): the file gets content c.
write_entry(c) == [blob |-> c, mtime |-> clock]

\* unpack_trees() and check_updates() for one file: `git read-tree -m` or `--reset`, with `-u`
\* or without.  For other commands it is an edit, with the proviso of Edit.
Merge(p, f, c, reset, update) ==
  LET m == mem[p]
      checkout == update /\ oneway_update(m, f, c, reset)
      looks == checkout \/ (f \notin m.uptodate /\ (reset <=> c = m.ent[f].sha))
  IN  /\ pc[p] = "run"
      /\ c # m.ent[f].sha => verify_uptodate(m, f, reset)
      /\ checkout => \A q \in Git \ {p} : looked[q][f] # clock
      /\ work' = IF checkout THEN [work EXCEPT ![f] = write_entry(c)] ELSE work
      /\ \/ checkout /\ Put(p, f, Filled(c, write_entry(c)), TRUE)
         \/ ~checkout /\ c # m.ent[f].sha /\ Put(p, f, FromTree(c), FALSE)
         \/ ~checkout /\ c = m.ent[f].sha /\ mem' = [mem EXCEPT ![p].changed = TRUE]
      /\ looked' = [looked EXCEPT ![p][f] = IF looks THEN work'[f].mtime ELSE @]
      /\ raced' = [q \in Git |-> IF q = p /\ looks THEN raced[q] \ {f}
                                 ELSE IF q # p /\ checkout /\ looked[q][f] # 0
                                 THEN raced[q] \cup {f} ELSE raced[q]]
      /\ UNCHANGED <<clock, disk, lock, pc, runs>>

\* Is there something to write?  A viewer must get the lock for it, and writes the index too if it
\* holds racy entries (update_index_if_able()).
Writes(p) ==
  /\ p \in Viewer => lock = Nobody
  /\ \/ mem[p].changed
     \/ p \in Viewer /\ \E f \in File : is_racy_timestamp(mem[p].ts, mem[p].ent[f])

\* write_index(), before the last write(): racily clean entries are smudged.
WriteIndex(p) ==
  /\ pc[p] = "run"
  /\ Writes(p)
  /\ lock' = p
  /\ mem' = [mem EXCEPT ![p].ent = [f \in File |-> smudged(mem[p], f)]]
  /\ looked' = [looked EXCEPT ![p] =
                  [f \in File |-> IF f \notin mem[p].uptodate
                                     /\ is_racy_timestamp(mem[p].ts, mem[p].ent[f])
                                  THEN work[f].mtime ELSE @[f]]]
  /\ pc' = [pc EXCEPT ![p] = "flush"]
  /\ UNCHANGED <<clock, work, disk, runs, raced>>

\* ce_flush(): now the new index has its mtime.
Flush(p) ==
  /\ pc[p] = "flush"
  /\ mem' = [mem EXCEPT ![p].ts = clock]
  /\ pc' = [pc EXCEPT ![p] = "commit"]
  /\ UNCHANGED <<clock, work, disk, lock, runs, looked, raced>>

Ended(p) ==
  /\ pc' = [pc EXCEPT ![p] = "idle"]
  /\ mem' = [mem EXCEPT ![p] = Unread]
  /\ lock' = IF lock = p THEN Nobody ELSE lock
  /\ looked' = [looked EXCEPT ![p] = [f \in File |-> 0]]
  /\ raced' = [raced EXCEPT ![p] = {}]

\* commit_locked_index()
Commit(p) ==
  /\ pc[p] = "commit"
  /\ disk' = [ts |-> mem[p].ts, ent |-> mem[p].ent]
  /\ Ended(p)
  /\ UNCHANGED <<clock, work, runs>>

\* The command ends without writing: nothing changed, the lock is taken, a file would be
\* overwritten, or it is killed and its handler removes the lock.
Quit(p) ==
  /\ pc[p] # "idle"
  /\ Ended(p)
  /\ UNCHANGED <<clock, work, disk, runs>>

Next ==
  \/ Tick
  \/ \E f \in File, c \in Blob : Edit(f, c)
  \/ \E p \in Git : Start(p) \/ WriteIndex(p) \/ Flush(p) \/ Commit(p) \/ Quit(p)
  \/ \E p \in Git, f \in File : Preload(p, f) \/ Refresh(p, f)
  \/ \E p \in Proc, f \in File : Add(p, f)
  \/ \E p \in Proc, f \in File, c \in Blob, reset, update \in BOOLEAN :
       Merge(p, f, c, reset, update)

Spec == Init /\ [][Next]_vars

----------------------------------------------------------------------------
\* A file that is not what the index says is never taken for clean by a command that starts
\* now (ce_match_stat(), read-cache.c:249), however fast it was changed after the command that
\* recorded it, and whatever commands have written the index since.
NeverFalselyClean ==
  \A f \in File : match_stat(disk.ts, disk.ent[f], work[f], FALSE) = {}
                    => work[f].blob = disk.ent[f].sha

\* A refresh reports a file as modified exactly if it is (ie_modified(), read-cache.c:305):
\* neither a smudged entry nor one without stat data makes a clean file look dirty.
RefreshExact ==
  \A f \in File : modified(disk.ts, disk.ent[f], work[f]) <=> work[f].blob # disk.ent[f].sha

\* What a running command holds for up to date is so, unless it was edited since it looked.
UptodateTrue ==
  \A p \in Git : \A f \in mem[p].uptodate \ raced[p] : work[f].blob = mem[p].ent[f].sha

\* A merge that is no reset overwrites no local change (verify_uptodate(),
\* unpack-trees.c:1234): unless it was made after this command had looked, the content that
\* goes away is that of the index or of the tree.
LocalChangesKept ==
  [][\A p \in Proc, f \in File, c \in Blob :
       Merge(p, f, c, FALSE, TRUE) /\ work'[f].blob # work[f].blob
         => f \in raced[p] \/ work[f].blob = mem[p].ent[f].sha]_vars
=============================================================================
