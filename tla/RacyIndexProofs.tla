-------------------------- MODULE RacyIndexProofs --------------------------
(***************************************************************************)
(* Theorems about RacyIndex, for any number of files and commands, any     *)
(* contents and any run of the clock.  The invariant says of each entry    *)
(* why it does not pass for clean when the file has changed: on disk and   *)
(* in a command that has not written yet it is older than the index file   *)
(* it was read from, or is compared by content; once a command prepares    *)
(* its write, no file can get the time stamp of its entry any more.        *)
(***************************************************************************)
EXTENDS RacyIndex, TLAPS

\* An entry that match_stat_basic() finds unchanged.
Matches(e, s) == /\ e.mtime = s.mtime
                 /\ e.size = SizeOf[s.blob]
                 /\ e.size = 0 => e.sha = Empty

\* An entry is never younger than its file, and has its blob's size unless it was smudged or
\* comes from a tree.
Sane(e, s) == /\ e.mtime <= s.mtime
              /\ e.size \in {0, SizeOf[e.sha]}

\* An entry of an index of time ts: if the file has changed since, it shows or is racy.
Recorded(ts, e, s) == Matches(e, s) /\ e.mtime < ts => s.blob = e.sha

\* An entry that is about to be written: if the file changes now, it gets another time stamp.
Settled(p, f) == LET e == mem[p].ent[f] IN
  /\ Matches(e, work[f]) => work[f].blob = e.sha
  /\ e.mtime = work[f].mtime => looked[p][f] = e.mtime \/ e.mtime < mem[p].ts

\* A file that the command holds for up to date, and perhaps was edited since.
Known(p, f) == LET e == mem[p].ent[f] IN
  /\ looked[p][f] = e.mtime /\ e.mtime # 0
  /\ IF f \in raced[p] THEN e.mtime < work[f].mtime
                       ELSE e.mtime = work[f].mtime /\ e.sha = work[f].blob

\* What a command knows of a file.
FileInv(p, f) ==
  /\ Sane(mem[p].ent[f], work[f])
  /\ looked[p][f] <= work[f].mtime
  /\ IF f \in mem[p].uptodate THEN Known(p, f)
     ELSE IF pc[p] = "run" THEN Recorded(mem[p].ts, mem[p].ent[f], work[f])
     ELSE Settled(p, f)

CommandInv(p) ==
  IF pc[p] = "idle" THEN mem[p].uptodate = {} /\ \A f \in File : looked[p][f] = 0
  ELSE /\ mem[p].ts \in 1..clock
       /\ \A f \in File : FileInv(p, f)

Clocks == /\ disk.ts \in 1..clock
          /\ \A f \in File : work[f].mtime \in 1..clock

DiskInv == \A f \in File : /\ Sane(disk.ent[f], work[f])
                           /\ Recorded(disk.ts, disk.ent[f], work[f])

\* index.lock is held by a command that locked before it read, and by one that writes.
Locked == \A p \in Git : pc[p] # "idle" /\ (p \in Proc \/ pc[p] # "run") => lock = p

IInv == /\ TypeOK /\ Clocks /\ Locked /\ DiskInv
        /\ \A p \in Git : CommandInv(p)

USE RacyIndexAssumption DEF Time

-----------------------------------------------------------------------------
\* What the functions of read-cache.c return.

LEMMA MatchBasic == ASSUME NEW e \in Entry, NEW s \in Stat
                    PROVE  match_stat_basic(e, s) = {} <=> Matches(e, s)
  BY DEF match_stat_basic, Matches, Entry, Stat, Size

\* An entry that is found unchanged stands for the content of the file.
LEMMA MatchExact == ASSUME NEW ts \in Time, ts # 0, NEW e \in Entry, NEW s \in Stat,
                           NEW dirty \in BOOLEAN, Recorded(ts, e, s),
                           match_stat(ts, e, s, dirty) = {}
                    PROVE  Matches(e, s) /\ s.blob = e.sha
<1>1. Matches(e, s)
  BY MatchBasic DEF match_stat
<1>2. CASE e.mtime < ts
  BY <1>1, <1>2 DEF Recorded
<1>3. CASE ~(e.mtime < ts)
  BY <1>3, MatchBasic, <1>1 DEF match_stat, is_racy_timestamp, modified_check_fs, Entry, Stat
<1> QED BY <1>1, <1>2, <1>3

\* ie_modified() is exact.
LEMMA ModifiedExact == ASSUME NEW ts \in Time, ts # 0, NEW e \in Entry, NEW s \in Stat,
                              Recorded(ts, e, s), Sane(e, s)
                       PROVE  modified(ts, e, s) <=> s.blob # e.sha
<1>1. match_stat(ts, e, s, FALSE) = {} => s.blob = e.sha
  BY MatchExact
<1>2. ASSUME s.blob = e.sha, e.size # 0 PROVE "data" \notin match_stat(ts, e, s, FALSE)
  BY <1>2 DEF match_stat, match_stat_basic, modified_check_fs, Sane
<1> QED BY <1>1, <1>2 DEF modified, modified_check_fs

LEMMA ZeroSize == 0 \in Size
  BY DEF Size

LEMMA NewEntries == ASSUME NEW c \in Blob, NEW s \in Stat
                    PROVE  Filled(c, s) \in Entry /\ FromTree(c) \in Entry
  BY ZeroSize DEF Filled, FromTree, Entry, Stat, Size

\* Smudging changes the size at most, and what it leaves matches only the content of its blob.
LEMMA Smudge == ASSUME TypeOK, NEW p \in Git, NEW f \in File,
                       Sane(mem[p].ent[f], work[f]), f \notin mem[p].uptodate, mem[p].ts # 0,
                       Recorded(mem[p].ts, mem[p].ent[f], work[f])
                PROVE  LET e == smudged(mem[p], f) IN
                       /\ e.mtime = mem[p].ent[f].mtime
                       /\ Sane(e, work[f])
                       /\ Matches(e, work[f]) => work[f].blob = e.sha
<1> DEFINE e == mem[p].ent[f]
<1>0. e \in Entry /\ work[f] \in Stat /\ mem[p].ts \in Time
  BY DEF TypeOK
<1>1. CASE smudged(mem[p], f) = e
  <2>1. Matches(e, work[f]) /\ ~(e.mtime < mem[p].ts) => work[f].blob = e.sha
    <3> SUFFICES ASSUME Matches(e, work[f]), ~(e.mtime < mem[p].ts), work[f].blob # e.sha
                 PROVE  FALSE
      OBVIOUS
    <3>1. is_racy_timestamp(mem[p].ts, e)
      BY <1>0 DEF is_racy_timestamp, Entry
    <3>2. match_stat_basic(e, work[f]) = {} /\ modified_check_fs(e, work[f]) # {}
      BY <1>0, MatchBasic DEF modified_check_fs
    <3>3. e.size = 0
      BY <1>0, <1>1, <3>1, <3>2 DEF smudged, Entry
    <3> QED BY <1>0, <3>3 DEF Matches, Entry, Stat
  <2> QED BY <1>1, <2>1 DEF Recorded
<1>2. CASE smudged(mem[p], f) # e
  <2>1. /\ smudged(mem[p], f) = [e EXCEPT !.size = 0]
        /\ match_stat_basic(e, work[f]) = {}
        /\ work[f].blob # e.sha
    BY <1>2 DEF smudged, modified_check_fs
  <2>2. Matches(e, work[f])
    BY <1>0, <2>1, MatchBasic
  <2> QED BY <1>0, <2>1, <2>2 DEF Matches, Sane, Entry, Stat, Size
<1> QED BY <1>1, <1>2

-----------------------------------------------------------------------------
\* What one step leaves alone.

\* Put() as far as the entries go.
EntryPut(p, f, e) ==
  /\ mem' \in [Git -> [ts : Time, ent : [File -> Entry], uptodate : SUBSET File, changed : BOOLEAN]]
  /\ \A q \in Git \ {p} : mem'[q] = mem[q]
  /\ mem'[p].ts = mem[p].ts
  /\ mem'[p].ent[f] = e
  /\ \A g \in File \ {f} : /\ mem'[p].ent[g] = mem[p].ent[g]
                           /\ g \in mem'[p].uptodate <=> g \in mem[p].uptodate

LEMMA PutIs == ASSUME TypeOK, NEW p \in Git, NEW f \in File, NEW e \in Entry,
                      Put(p, f, e, TRUE)
               PROVE  EntryPut(p, f, e) /\ f \in mem'[p].uptodate
<1> DEFINE m == [ts |-> mem[p].ts, ent |-> [mem[p].ent EXCEPT ![f] = e],
                 uptodate |-> mem[p].uptodate \cup {f}, changed |-> TRUE]
<1>1. mem[p] \in [ts : Time, ent : [File -> Entry], uptodate : SUBSET File, changed : BOOLEAN]
  BY DEF TypeOK
<1>2. mem' = [mem EXCEPT ![p] = m]
  BY DEF Put
<1>3. m \in [ts : Time, ent : [File -> Entry], uptodate : SUBSET File, changed : BOOLEAN]
  BY <1>1
<1> QED BY <1>1, <1>2, <1>3 DEF TypeOK, EntryPut

LEMMA PutStaleIs == ASSUME TypeOK, NEW p \in Git, NEW f \in File, NEW e \in Entry,
                      Put(p, f, e, FALSE)
               PROVE  EntryPut(p, f, e) /\ f \notin mem'[p].uptodate
<1> DEFINE m == [ts |-> mem[p].ts, ent |-> [mem[p].ent EXCEPT ![f] = e],
                 uptodate |-> mem[p].uptodate \ {f}, changed |-> TRUE]
<1>1. mem[p] \in [ts : Time, ent : [File -> Entry], uptodate : SUBSET File, changed : BOOLEAN]
  BY DEF TypeOK
<1>2. mem' = [mem EXCEPT ![p] = m]
  BY DEF Put
<1>3. m \in [ts : Time, ent : [File -> Entry], uptodate : SUBSET File, changed : BOOLEAN]
  BY <1>1
<1> QED BY <1>1, <1>2, <1>3 DEF TypeOK, EntryPut

LEMMA MarkIs == ASSUME TypeOK, NEW p \in Git, NEW f \in File, MarkUptodate(p, f)
                PROVE  /\ mem' \in [Git -> [ts : Time, ent : [File -> Entry],
                                            uptodate : SUBSET File, changed : BOOLEAN]]
                       /\ \A q \in Git \ {p} : mem'[q] = mem[q]
                       /\ mem'[p].ts = mem[p].ts
                       /\ mem'[p].ent = mem[p].ent
                       /\ mem'[p].uptodate = mem[p].uptodate \cup {f}
<1>1. mem[p] \in [ts : Time, ent : [File -> Entry], uptodate : SUBSET File, changed : BOOLEAN]
  BY DEF TypeOK
<1> QED BY <1>1 DEF MarkUptodate, TypeOK

LEMMA LookIs == ASSUME TypeOK, NEW p \in Git, NEW f \in File, Look(p, f)
                PROVE  /\ looked' \in [Git -> [File -> Time]]
                       /\ raced' \in [Git -> SUBSET File]
                       /\ \A q \in Git \ {p} : looked'[q] = looked[q] /\ raced'[q] = raced[q]
                       /\ looked'[p][f] = work[f].mtime
                       /\ raced'[p] = raced[p] \ {f}
                       /\ \A g \in File \ {f} : looked'[p][g] = looked[p][g]
<1>1. work[f].mtime \in Time
  BY DEF TypeOK, Stat
<1> QED BY <1>1 DEF Look, TypeOK

\* A command that does nothing, while no file changes.
LEMMA Frame == ASSUME IInv, NEW q \in Git, UNCHANGED <<clock, work>>,
                      mem'[q] = mem[q], pc'[q] = pc[q], looked'[q] = looked[q], raced'[q] = raced[q]
               PROVE  CommandInv(q)'
  BY DEF IInv, CommandInv, FileInv, Known, Settled

\* A command that does something with one file.
LEMMA OneFile == ASSUME IInv, NEW p \in Git, NEW f \in File, pc[p] = "run", pc' = pc,
                        clock' = clock, mem'[p].ts = mem[p].ts,
                        \A g \in File \ {f} :
                          /\ work'[g] = work[g]
                          /\ mem'[p].ent[g] = mem[p].ent[g]
                          /\ g \in mem'[p].uptodate <=> g \in mem[p].uptodate
                          /\ looked'[p][g] = looked[p][g]
                          /\ g \in raced'[p] <=> g \in raced[p],
                        FileInv(p, f)'
                 PROVE  CommandInv(p)'
<1>1. ASSUME NEW g \in File \ {f} PROVE FileInv(p, g)'
  <2>1. FileInv(p, g)
    BY DEF IInv, CommandInv
  <2> QED BY <2>1 DEF FileInv, Known, Settled
<1>2. mem'[p].ts \in 1..clock'
  BY DEF IInv, CommandInv
<1> QED BY <1>1, <1>2 DEF CommandInv

\* A file gets new content, in a tick that no other command has seen in it.
LEMMA Rewritten == ASSUME IInv, NEW f \in File, NEW c \in Blob, NEW q \in Git,
                          work' = [work EXCEPT ![f] = [blob |-> c, mtime |-> clock]],
                          clock' = clock, mem'[q] = mem[q], pc'[q] = pc[q],
                          looked'[q] = looked[q], looked[q][f] # clock,
                          raced'[q] = IF looked[q][f] # 0 THEN raced[q] \cup {f} ELSE raced[q]
                   PROVE  CommandInv(q)'
<1>1. CASE pc[q] = "idle"
  BY <1>1 DEF IInv, CommandInv
<1>2. CASE pc[q] # "idle"
  <2>1. mem'[q].ts \in 1..clock'
    BY <1>2 DEF IInv, CommandInv
  <2>2. ASSUME NEW g \in File \ {f} PROVE FileInv(q, g)'
    <3>1. FileInv(q, g)
      BY <1>2 DEF IInv, CommandInv
    <3>2. work'[g] = work[g] /\ (g \in raced'[q] <=> g \in raced[q])
      BY DEF IInv, TypeOK
    <3> QED BY <3>1, <3>2 DEF FileInv, Known, Settled
  <2>3. FileInv(q, f)'
    <3>1. FileInv(q, f) /\ mem[q].ts <= clock
      BY <1>2 DEF IInv, CommandInv
    <3>2. /\ work'[f].mtime = clock /\ work[f].mtime \in 1..clock /\ clock \in Nat
          /\ looked[q][f] \in Nat /\ mem[q].ent[f].mtime \in Nat /\ mem[q].ts \in Nat
      BY DEF IInv, TypeOK, Clocks, Entry
    <3>3. looked[q][f] < clock /\ mem[q].ent[f].mtime <= clock
      BY <3>1, <3>2 DEF FileInv, Sane
    <3>4. Sane(mem[q].ent[f], work[f])' /\ (looked[q][f] <= work[f].mtime)'
      BY <3>1, <3>2, <3>3 DEF FileInv, Sane
    <3>5. CASE f \in mem[q].uptodate
      <4>1. looked[q][f] = mem[q].ent[f].mtime /\ looked[q][f] # 0
        BY <3>1, <3>5 DEF FileInv, Known
      <4> QED BY <4>1, <3>2, <3>3, <3>4, <3>5 DEF FileInv, Known, IInv, TypeOK
    <3>6. CASE f \notin mem[q].uptodate /\ pc[q] = "run"
      BY <3>1, <3>2, <3>4, <3>6 DEF FileInv, Recorded, Matches
    <3>7. CASE f \notin mem[q].uptodate /\ pc[q] # "run"
      <4>1. mem[q].ent[f].mtime < clock
        BY <3>1, <3>2, <3>3, <3>7 DEF FileInv, Settled, Sane
      <4> QED BY <4>1, <3>2, <3>4, <3>7 DEF FileInv, Settled, Matches
    <3> QED BY <3>5, <3>6, <3>7
  <2> QED BY <1>2, <2>1, <2>2, <2>3 DEF CommandInv
<1> QED BY <1>1, <1>2

\* The same for the index file.
LEMMA RewrittenDisk == ASSUME IInv, NEW f \in File, NEW c \in Blob, clock' = clock, disk' = disk,
                              work' = [work EXCEPT ![f] = [blob |-> c, mtime |-> clock]]
                       PROVE  DiskInv' /\ Clocks' /\ work' \in [File -> Stat]
<1>1. /\ disk.ts \in 1..clock /\ clock \in 1..MaxClock
      /\ disk.ent \in [File -> Entry] /\ work \in [File -> Stat]
  BY DEF IInv, Clocks, TypeOK
<1>2. work' \in [File -> Stat] /\ Clocks'
  BY <1>1 DEF Stat, IInv, Clocks
<1>3. ASSUME NEW g \in File PROVE Sane(disk.ent[g], work[g])' /\ Recorded(disk.ts, disk.ent[g], work[g])'
  <2>1. /\ Sane(disk.ent[g], work[g]) /\ Recorded(disk.ts, disk.ent[g], work[g])
        /\ work[g].mtime \in 1..clock /\ disk.ent[g].mtime \in Nat
    BY <1>1 DEF IInv, DiskInv, Clocks, Entry
  <2>2. CASE g # f
    BY <1>1, <2>1, <2>2
  <2>3. CASE g = f
    <3>1. work'[g].mtime = clock
      BY <1>1, <2>3
    <3> QED BY <1>1, <2>1, <2>3, <3>1 DEF Sane, Recorded, Matches
  <2> QED BY <2>2, <2>3
<1> QED BY <1>2, <1>3 DEF DiskInv

-----------------------------------------------------------------------------
\* The steps of a command that has read the index and not written it.

\* Whether or not it holds the file for up to date, the entry tells if it has changed.
LEMMA RunRecorded == ASSUME IInv, NEW p \in Git, pc[p] = "run", NEW f \in File
                     PROVE  /\ Sane(mem[p].ent[f], work[f])
                            /\ Recorded(mem[p].ts, mem[p].ent[f], work[f])
                            /\ mem[p].ts \in Time /\ mem[p].ts # 0
                            /\ mem[p].ent[f] \in Entry /\ work[f] \in Stat /\ work[f].mtime # 0
<1>1. FileInv(p, f) /\ mem[p].ts \in 1..clock
  BY DEF IInv, CommandInv
<1>2. /\ mem[p].ts \in Time /\ mem[p].ts # 0
      /\ mem[p].ent[f] \in Entry /\ work[f] \in Stat /\ work[f].mtime # 0
  BY <1>1 DEF IInv, TypeOK, Clocks
<1>3. Recorded(mem[p].ts, mem[p].ent[f], work[f])
  BY <1>1, <1>2 DEF FileInv, Known, Recorded, Matches, Entry, Stat
<1> QED BY <1>1, <1>2, <1>3 DEF FileInv

LEMMA RunStep == ASSUME IInv, NEW p \in Git, NEW f \in File, pc[p] = "run",
                        UNCHANGED <<clock, work, disk, lock, pc, runs>>,
                        mem' \in [Git -> [ts : Time, ent : [File -> Entry],
                                          uptodate : SUBSET File, changed : BOOLEAN]],
                        looked' \in [Git -> [File -> Time]], raced' \in [Git -> SUBSET File],
                        \A q \in Git \ {p} : /\ mem'[q] = mem[q]
                                             /\ looked'[q] = looked[q] /\ raced'[q] = raced[q],
                        mem'[p].ts = mem[p].ts,
                        \A g \in File \ {f} :
                          /\ mem'[p].ent[g] = mem[p].ent[g]
                          /\ g \in mem'[p].uptodate <=> g \in mem[p].uptodate
                          /\ looked'[p][g] = looked[p][g]
                          /\ g \in raced'[p] <=> g \in raced[p],
                        FileInv(p, f)'
                 PROVE  IInv'
<1>1. TypeOK'
  BY DEF IInv, TypeOK
<1>2. Clocks' /\ Locked' /\ DiskInv'
  BY DEF IInv, Clocks, Locked, DiskInv
<1>3. CommandInv(p)'
  BY OneFile
<1>4. ASSUME NEW q \in Git \ {p} PROVE CommandInv(q)'
  BY <1>4, Frame
<1> QED BY <1>1, <1>2, <1>3, <1>4 DEF IInv

\* The command has just looked, and the entry is that of the file.
LEMMA JustSeen == ASSUME NEW p \in Git, NEW f \in File,
                         work'[f] \in Stat, work'[f].mtime # 0,
                         mem'[p].ent[f].mtime = work'[f].mtime,
                         mem'[p].ent[f].sha = work'[f].blob,
                         mem'[p].ent[f].size \in {0, SizeOf[mem'[p].ent[f].sha]},
                         f \in mem'[p].uptodate,
                         looked'[p][f] = work'[f].mtime, f \notin raced'[p]
                  PROVE  FileInv(p, f)'
<1>1. work'[f].mtime <= work'[f].mtime
  BY DEF Stat
<1>2. Sane(mem[p].ent[f], work[f])'
  BY <1>1 DEF Sane
<1>3. Known(p, f)'
  BY DEF Known
<1> QED BY <1>1, <1>2, <1>3 DEF FileInv

LEMMA MarkSeen == ASSUME TypeOK, NEW p \in Git, NEW f \in File, MarkUptodate(p, f), Look(p, f),
                         work' = work, work[f].mtime # 0,
                         Sane(mem[p].ent[f], work[f]), Matches(mem[p].ent[f], work[f]),
                         work[f].blob = mem[p].ent[f].sha
                  PROVE  FileInv(p, f)'
<1>1. /\ mem'[p].ent[f] = mem[p].ent[f] /\ f \in mem'[p].uptodate
      /\ looked'[p][f] = work[f].mtime /\ f \notin raced'[p] /\ work[f] \in Stat
  BY MarkIs, LookIs DEF TypeOK
<1> QED BY <1>1, JustSeen DEF Matches, Sane

LEMMA PutSeen == ASSUME TypeOK, NEW p \in Git, NEW f \in File, work' = work, work[f].mtime # 0,
                        Put(p, f, Filled(work[f].blob, work[f]), TRUE), Look(p, f)
                 PROVE  FileInv(p, f)'
<1>1. work[f] \in Stat /\ Filled(work[f].blob, work[f]) \in Entry
  BY NewEntries DEF TypeOK, Stat
<1> DEFINE e == Filled(work[f].blob, work[f])
<1>2. mem'[p].ent[f] = e /\ f \in mem'[p].uptodate
  <2> HIDE DEF e
  <2>1. e \in Entry /\ Put(p, f, e, TRUE)
    BY <1>1 DEF e
  <2>2. EntryPut(p, f, e) /\ f \in mem'[p].uptodate
    BY <2>1, PutIs
  <2> QED BY <2>2 DEF EntryPut
<1>3. looked'[p][f] = work[f].mtime /\ f \notin raced'[p]
  BY LookIs
<1> QED BY <1>1, <1>2, <1>3, JustSeen DEF Filled

\* The command has looked at a file and takes it for up to date as it is.
LEMMA MarkStep == ASSUME IInv, NEW p \in Git, NEW f \in File, pc[p] = "run",
                         MarkUptodate(p, f), Look(p, f),
                         UNCHANGED <<clock, work, disk, lock, pc, runs>>,
                         Matches(mem[p].ent[f], work[f]), work[f].blob = mem[p].ent[f].sha
                  PROVE  IInv'
<1>0. TypeOK
  BY DEF IInv
<1>1. /\ mem' \in [Git -> [ts : Time, ent : [File -> Entry],
                          uptodate : SUBSET File, changed : BOOLEAN]]
      /\ mem'[p].ts = mem[p].ts
      /\ \A q \in Git \ {p} : mem'[q] = mem[q]
      /\ \A g \in File \ {f} : /\ mem'[p].ent[g] = mem[p].ent[g]
                               /\ g \in mem'[p].uptodate <=> g \in mem[p].uptodate
  BY <1>0, MarkIs
<1>2. /\ looked' \in [Git -> [File -> Time]] /\ raced' \in [Git -> SUBSET File]
      /\ \A q \in Git \ {p} : looked'[q] = looked[q] /\ raced'[q] = raced[q]
      /\ \A g \in File \ {f} : /\ looked'[p][g] = looked[p][g]
                               /\ g \in raced'[p] <=> g \in raced[p]
  BY <1>0, LookIs
<1>3. FileInv(p, f)'
  BY <1>0, RunRecorded, MarkSeen
<1> QED BY <1>1, <1>2, <1>3, RunStep

\* It makes a new entry for it.
LEMMA PutStep == ASSUME IInv, NEW p \in Git, NEW f \in File, pc[p] = "run",
                        Put(p, f, Filled(work[f].blob, work[f]), TRUE), Look(p, f),
                        UNCHANGED <<clock, work, disk, lock, pc, runs>>
                 PROVE  IInv'
<1>0. TypeOK
  BY DEF IInv
<1>1. Filled(work[f].blob, work[f]) \in Entry
  BY <1>0, NewEntries DEF TypeOK, Stat
<1>2. EntryPut(p, f, Filled(work[f].blob, work[f]))
  BY <1>0, <1>1, PutIs
<1>3. /\ looked' \in [Git -> [File -> Time]] /\ raced' \in [Git -> SUBSET File]
      /\ \A q \in Git \ {p} : looked'[q] = looked[q] /\ raced'[q] = raced[q]
      /\ \A g \in File \ {f} : /\ looked'[p][g] = looked[p][g]
                               /\ g \in raced'[p] <=> g \in raced[p]
  BY <1>0, LookIs
<1>4. FileInv(p, f)'
  BY <1>0, RunRecorded, PutSeen
<1> QED BY <1>2, <1>3, <1>4, RunStep DEF EntryPut

\* What a command that runs finds unchanged has not changed.
LEMMA RunMatch == ASSUME IInv, NEW p \in Git, pc[p] = "run", NEW f \in File, NEW dirty \in BOOLEAN,
                         match_stat(mem[p].ts, mem[p].ent[f], work[f], dirty) = {}
                  PROVE  Matches(mem[p].ent[f], work[f]) /\ work[f].blob = mem[p].ent[f].sha
<1>1. /\ Recorded(mem[p].ts, mem[p].ent[f], work[f])
      /\ mem[p].ts \in Time /\ mem[p].ts # 0
      /\ mem[p].ent[f] \in Entry /\ work[f] \in Stat
  BY RunRecorded
<1> QED BY <1>1, MatchExact

LEMMA PreloadInv == ASSUME IInv, NEW p \in Git, NEW f \in File, Preload(p, f) PROVE IInv'
<1>1. MarkUptodate(p, f) /\ Look(p, f) /\ pc[p] = "run"
      /\ UNCHANGED <<clock, work, disk, lock, pc, runs>>
  BY DEF Preload
<1>2. Matches(mem[p].ent[f], work[f]) /\ work[f].blob = mem[p].ent[f].sha
  BY <1>1, RunMatch DEF Preload
<1> QED BY <1>1, <1>2, MarkStep

LEMMA RefreshInv == ASSUME IInv, NEW p \in Git, NEW f \in File, Refresh(p, f) PROVE IInv'
<1> DEFINE e == mem[p].ent[f]
<1>1. /\ f \notin mem[p].uptodate /\ pc[p] = "run" /\ Look(p, f) /\ TypeOK
      /\ UNCHANGED <<clock, work, disk, lock, pc, runs>>
  BY DEF Refresh, IInv
<1>2. CASE match_stat(mem[p].ts, e, work[f], FALSE) = {} /\ MarkUptodate(p, f)
  <2>1. Matches(e, work[f]) /\ work[f].blob = e.sha
    BY <1>1, <1>2, RunMatch
  <2> QED BY <1>1, <1>2, <2>1, MarkStep
<1>3. CASE ~modified(mem[p].ts, e, work[f]) /\ Put(p, f, Filled(e.sha, work[f]), TRUE)
  <2>1. work[f].blob = e.sha
    BY <1>1, <1>3, RunRecorded, ModifiedExact
  <2> QED BY <1>1, <1>3, <2>1, PutStep
<1>4. CASE UNCHANGED mem
  <2>1. Sane(e, work[f]) /\ Recorded(mem[p].ts, e, work[f]) /\ work[f].mtime \in Nat
    BY <1>1, RunRecorded DEF Stat
  <2>2. looked'[p][f] = work[f].mtime
    BY <1>1, LookIs
  <2>3. FileInv(p, f)'
    BY <1>1, <1>4, <2>1, <2>2 DEF FileInv
  <2>4. mem \in [Git -> [ts : Time, ent : [File -> Entry],
                         uptodate : SUBSET File, changed : BOOLEAN]]
    BY <1>1 DEF TypeOK
  <2>5. /\ looked' \in [Git -> [File -> Time]] /\ raced' \in [Git -> SUBSET File]
        /\ \A q \in Git \ {p} : looked'[q] = looked[q] /\ raced'[q] = raced[q]
        /\ \A g \in File \ {f} : /\ looked'[p][g] = looked[p][g]
                                 /\ g \in raced'[p] <=> g \in raced[p]
    BY <1>1, LookIs
  <2> QED BY <1>1, <1>4, <2>3, <2>4, <2>5, RunStep
<1> QED BY <1>2, <1>3, <1>4 DEF Refresh

LEMMA AddInv == ASSUME IInv, NEW p \in Proc, NEW f \in File, Add(p, f) PROVE IInv'
<1> DEFINE e == mem[p].ent[f]
<1>0. p \in Git
  BY DEF Git
<1>1. /\ pc[p] = "run" /\ Look(p, f)
      /\ UNCHANGED <<clock, work, disk, lock, pc, runs>>
  BY DEF Add
<1>2. CASE match_stat(mem[p].ts, e, work[f], TRUE) = {} /\ MarkUptodate(p, f)
  <2>1. Matches(e, work[f]) /\ work[f].blob = e.sha
    BY <1>0, <1>1, <1>2, RunMatch
  <2> QED BY <1>0, <1>1, <1>2, <2>1, MarkStep
<1>3. CASE Put(p, f, Filled(work[f].blob, work[f]), TRUE)
  BY <1>0, <1>1, <1>3, PutStep
<1> QED BY <1>2, <1>3 DEF Add

-----------------------------------------------------------------------------
\* The clock and the user.

LEMMA TickInv == ASSUME IInv, Tick PROVE IInv'
<1>1. /\ clock' = clock + 1 /\ clock \in 1..MaxClock /\ clock' \in 1..MaxClock
      /\ UNCHANGED <<work, disk, lock, pc, mem, runs, looked, raced>>
  BY DEF Tick, IInv, TypeOK
<1>2. TypeOK'
  BY <1>1 DEF IInv, TypeOK
<1>3. Clocks'
  BY <1>1 DEF IInv, Clocks
<1>4. Locked' /\ DiskInv'
  BY <1>1 DEF IInv, Locked, DiskInv
<1>5. ASSUME NEW q \in Git PROVE CommandInv(q)'
  <2>1. pc[q] # "idle" => mem[q].ts \in 1..clock'
    BY <1>1 DEF IInv, CommandInv
  <2>2. ASSUME NEW g \in File, FileInv(q, g) PROVE FileInv(q, g)'
    BY <1>1, <2>2 DEF FileInv, Known, Settled
  <2> QED BY <1>1, <2>1, <2>2 DEF IInv, CommandInv
<1> QED BY <1>2, <1>3, <1>4, <1>5 DEF IInv

LEMMA EditInv == ASSUME IInv, NEW f \in File, NEW c \in Blob, Edit(f, c) PROVE IInv'
<1>1. /\ work' = [work EXCEPT ![f] = [blob |-> c, mtime |-> clock]]
      /\ UNCHANGED <<clock, disk, lock, pc, mem, runs, looked>>
      /\ \A q \in Git : /\ looked[q][f] # clock
                        /\ raced'[q] = IF looked[q][f] # 0 THEN raced[q] \cup {f} ELSE raced[q]
      /\ raced' = [q \in Git |-> IF looked[q][f] # 0 THEN raced[q] \cup {f} ELSE raced[q]]
  BY DEF Edit
<1>2. DiskInv' /\ Clocks' /\ work' \in [File -> Stat]
  BY <1>1, RewrittenDisk
<1>3. raced' \in [Git -> SUBSET File]
  BY <1>1 DEF IInv, TypeOK
<1>4. TypeOK' /\ Locked'
  BY <1>1, <1>2, <1>3 DEF IInv, TypeOK, Locked
<1>5. ASSUME NEW q \in Git PROVE CommandInv(q)'
  BY <1>1, Rewritten
<1> QED BY <1>2, <1>4, <1>5 DEF IInv

-----------------------------------------------------------------------------
\* A command begins, writes, ends.

LEMMA StartInv == ASSUME IInv, NEW p \in Git, Start(p) PROVE IInv'
<1> DEFINE m == [ts |-> disk.ts, ent |-> disk.ent, uptodate |-> {}, changed |-> FALSE]
<1>1. /\ pc[p] = "idle" /\ runs[p] > 0
      /\ IF p \in Viewer THEN lock' = lock ELSE lock = Nobody /\ lock' = p
      /\ pc' = [pc EXCEPT ![p] = "run"]
      /\ runs' = [runs EXCEPT ![p] = @ - 1]
      /\ mem' = [mem EXCEPT ![p] = m]
      /\ UNCHANGED <<clock, work, disk, looked, raced>>
  BY DEF Start
<1>2. disk \in [ts : Time, ent : [File -> Entry]]
  BY DEF IInv, TypeOK
<1>3. mem' \in [Git -> [ts : Time, ent : [File -> Entry],
                       uptodate : SUBSET File, changed : BOOLEAN]]
  BY <1>1, <1>2 DEF IInv, TypeOK
<1>4. runs' \in [Git -> 0..MaxRuns] /\ lock' \in Git \cup {Nobody}
      /\ pc' \in [Git -> {"idle", "run", "flush", "commit"}]
  BY <1>1 DEF IInv, TypeOK
<1>5. Locked' /\ \A q \in Git : pc'[q] \in {"flush", "commit"} => lock' = q
  BY <1>1 DEF IInv, TypeOK, Locked, Git
<1>6. TypeOK' /\ Clocks' /\ DiskInv'
  BY <1>1, <1>3, <1>4, <1>5 DEF IInv, TypeOK, Clocks, DiskInv
<1>7. CommandInv(p)'
  <2>1. pc'[p] = "run" /\ mem'[p] = m
    BY <1>1 DEF IInv, TypeOK
  <2>2. mem'[p].ts \in 1..clock'
    BY <1>1, <2>1 DEF IInv, Clocks
  <2>3. ASSUME NEW f \in File PROVE FileInv(p, f)'
    <3>1. looked'[p][f] <= work'[f].mtime
      BY <1>1 DEF IInv, CommandInv, Clocks
    <3>2. Sane(disk.ent[f], work[f]) /\ Recorded(disk.ts, disk.ent[f], work[f])
      BY DEF IInv, DiskInv
    <3> QED BY <1>1, <2>1, <3>1, <3>2 DEF FileInv
  <2> QED BY <2>1, <2>2, <2>3 DEF CommandInv
<1>8. ASSUME NEW q \in Git \ {p} PROVE CommandInv(q)'
  <2>1. mem'[q] = mem[q] /\ pc'[q] = pc[q]
    BY <1>1 DEF IInv, TypeOK
  <2> QED BY <1>1, <2>1, Frame
<1> QED BY <1>5, <1>6, <1>7, <1>8 DEF IInv

LEMMA WriteIndexInv == ASSUME IInv, NEW p \in Git, WriteIndex(p) PROVE IInv'
<1> DEFINE ent == [f \in File |-> smudged(mem[p], f)]
           seen == [f \in File |-> IF f \notin mem[p].uptodate
                                       /\ is_racy_timestamp(mem[p].ts, mem[p].ent[f])
                                    THEN work[f].mtime ELSE looked[p][f]]
<1>0. mem[p] \in [ts : Time, ent : [File -> Entry], uptodate : SUBSET File, changed : BOOLEAN]
      /\ looked[p] \in [File -> Time] /\ work \in [File -> Stat]
  BY DEF IInv, TypeOK
<1>1. /\ pc[p] = "run" /\ (p \in Viewer => lock = Nobody) /\ lock' = p
      /\ mem' = [mem EXCEPT ![p].ent = ent]
      /\ looked' = [looked EXCEPT ![p] = seen]
      /\ pc' = [pc EXCEPT ![p] = "flush"]
      /\ UNCHANGED <<clock, work, disk, runs, raced>>
  BY DEF WriteIndex, Writes
<1>2. ent \in [File -> Entry]
  BY <1>0, ZeroSize DEF smudged, Entry
<1>3. /\ mem'[p].ent = ent /\ mem'[p].ts = mem[p].ts /\ mem'[p].uptodate = mem[p].uptodate
      /\ mem' \in [Git -> [ts : Time, ent : [File -> Entry],
                          uptodate : SUBSET File, changed : BOOLEAN]]
      /\ \A q \in Git \ {p} : mem'[q] = mem[q]
  BY <1>0, <1>1, <1>2 DEF IInv, TypeOK
<1>4. seen \in [File -> Time]
  BY <1>0 DEF Stat
<1>5. /\ looked' \in [Git -> [File -> Time]] /\ looked'[p] = seen
      /\ \A q \in Git \ {p} : looked'[q] = looked[q]
  BY <1>1, <1>4 DEF IInv, TypeOK
<1>6. Locked' /\ \A q \in Git : pc'[q] \in {"flush", "commit"} => lock' = q
  BY <1>1 DEF IInv, TypeOK, Locked, Git
<1>7. TypeOK' /\ Clocks' /\ DiskInv'
  BY <1>1, <1>3, <1>5, <1>6 DEF IInv, TypeOK, Clocks, DiskInv
<1>8. CommandInv(p)'
  <2>1. pc'[p] = "flush" /\ mem[p].ts \in 1..clock
    BY <1>1 DEF IInv, TypeOK, CommandInv
  <2>2. ASSUME NEW f \in File PROVE FileInv(p, f)'
    <3>1. /\ FileInv(p, f) /\ mem'[p].ent[f] = smudged(mem[p], f)
          /\ looked'[p][f] = seen[f] /\ work' = work /\ raced' = raced
      BY <1>1, <1>3, <1>5 DEF IInv, CommandInv
    <3>2. CASE f \in mem[p].uptodate
      <4>1. smudged(mem[p], f) = mem[p].ent[f] /\ seen[f] = looked[p][f]
        BY <3>2 DEF smudged
      <4> QED BY <1>3, <3>1, <3>2, <4>1 DEF FileInv, Known
    <3>3. CASE f \notin mem[p].uptodate
      <4> DEFINE e == smudged(mem[p], f)
      <4> HIDE DEF e
      <4>1. /\ Sane(mem[p].ent[f], work[f]) /\ mem[p].ts # 0
            /\ Recorded(mem[p].ts, mem[p].ent[f], work[f])
        BY <1>1, <2>1, RunRecorded
      <4>2. /\ e.mtime = mem[p].ent[f].mtime /\ Sane(e, work[f])
            /\ Matches(e, work[f]) => work[f].blob = e.sha
        BY <3>3, <4>1, Smudge DEF IInv, e
      <4>3. seen[f] <= work[f].mtime
        BY <1>0, <3>1 DEF FileInv, Stat
      <4>4. ASSUME e.mtime = work[f].mtime PROVE seen[f] = e.mtime \/ e.mtime < mem[p].ts
        <5>1. mem[p].ts \in Int /\ mem[p].ent[f].mtime \in Int
          BY <1>0 DEF Entry
        <5>2. CASE is_racy_timestamp(mem[p].ts, mem[p].ent[f])
          BY <3>3, <4>4, <5>2
        <5>3. CASE ~is_racy_timestamp(mem[p].ts, mem[p].ent[f])
          BY <4>1, <4>2, <5>1, <5>3 DEF is_racy_timestamp
        <5> QED BY <5>2, <5>3
      <4>5. mem'[p].ent[f] = e
        BY <3>1 DEF e
      <4> QED BY <1>3, <2>1, <3>1, <3>3, <4>2, <4>3, <4>4, <4>5 DEF FileInv, Settled
    <3> QED BY <3>2, <3>3
  <2> QED BY <1>1, <1>3, <2>1, <2>2 DEF CommandInv
<1>9. ASSUME NEW q \in Git \ {p} PROVE CommandInv(q)'
  <2>1. pc'[q] = pc[q]
    BY <1>1 DEF IInv, TypeOK
  <2> QED BY <1>1, <1>3, <1>5, <2>1, Frame
<1> QED BY <1>6, <1>7, <1>8, <1>9 DEF IInv

LEMMA FlushInv == ASSUME IInv, NEW p \in Git, Flush(p) PROVE IInv'
<1>0. /\ mem[p] \in [ts : Time, ent : [File -> Entry], uptodate : SUBSET File, changed : BOOLEAN]
      /\ clock \in 1..MaxClock
  BY DEF IInv, TypeOK
<1>1. /\ pc[p] = "flush"
      /\ mem' = [mem EXCEPT ![p].ts = clock]
      /\ pc' = [pc EXCEPT ![p] = "commit"]
      /\ UNCHANGED <<clock, work, disk, lock, runs, looked, raced>>
  BY DEF Flush
<1>2. /\ mem'[p].ent = mem[p].ent /\ mem'[p].ts = clock /\ mem'[p].uptodate = mem[p].uptodate
      /\ mem' \in [Git -> [ts : Time, ent : [File -> Entry],
                          uptodate : SUBSET File, changed : BOOLEAN]]
      /\ \A q \in Git \ {p} : mem'[q] = mem[q] /\ pc'[q] = pc[q]
  <2> DEFINE m == [mem[p] EXCEPT !.ts = clock]
  <2>1. m \in [ts : Time, ent : [File -> Entry], uptodate : SUBSET File, changed : BOOLEAN]
        /\ m.ent = mem[p].ent /\ m.ts = clock /\ m.uptodate = mem[p].uptodate
    BY <1>0
  <2>2. mem' = [mem EXCEPT ![p] = m]
    BY <1>1
  <2> HIDE DEF m
  <2>3. mem'[p] = m /\ \A q \in Git \ {p} : mem'[q] = mem[q]
    BY <2>2 DEF IInv, TypeOK
  <2>4. \A q \in Git \ {p} : pc'[q] = pc[q]
    BY <1>1 DEF IInv, TypeOK
  <2>5. mem' \in [Git -> [ts : Time, ent : [File -> Entry],
                         uptodate : SUBSET File, changed : BOOLEAN]]
    BY <2>1, <2>2 DEF IInv, TypeOK
  <2> QED BY <2>1, <2>3, <2>4, <2>5
<1>3. Locked' /\ \A q \in Git : pc'[q] \in {"flush", "commit"} => lock' = q
  BY <1>1 DEF IInv, TypeOK, Locked
<1>4. TypeOK' /\ Clocks' /\ DiskInv'
  BY <1>1, <1>2, <1>3 DEF IInv, TypeOK, Clocks, DiskInv
<1>5. CommandInv(p)'
  <2>1. pc'[p] = "commit" /\ mem[p].ts \in 1..clock /\ mem'[p].ts \in 1..clock'
    BY <1>0, <1>1, <1>2 DEF IInv, TypeOK, CommandInv
  <2>2. ASSUME NEW f \in File PROVE FileInv(p, f)'
    <3>1. FileInv(p, f) /\ mem[p].ent[f].mtime \in Int
      BY <1>0, <1>1 DEF IInv, CommandInv, Entry
    <3>2. CASE f \in mem[p].uptodate
      BY <1>1, <1>2, <3>1, <3>2 DEF FileInv, Known
    <3>3. CASE f \notin mem[p].uptodate
      <4>1. Settled(p, f)'
        BY <1>1, <1>2, <2>1, <3>1, <3>3 DEF FileInv, Settled
      <4> QED BY <1>1, <1>2, <2>1, <3>1, <3>3, <4>1 DEF FileInv
    <3> QED BY <3>2, <3>3
  <2> QED BY <2>1, <2>2 DEF CommandInv
<1>6. ASSUME NEW q \in Git \ {p} PROVE CommandInv(q)'
  BY <1>1, <1>2, Frame
<1> QED BY <1>3, <1>4, <1>5, <1>6 DEF IInv

\* A command ends; the index file is the old one, or the one that it has written.
LEMMA EndedInv == ASSUME IInv, NEW p \in Git, Ended(p), UNCHANGED <<clock, work, runs>>,
                         disk' \in [ts : Time, ent : [File -> Entry]],
                         disk'.ts \in 1..clock, DiskInv'
                  PROVE  IInv'
<1>1. /\ pc' = [pc EXCEPT ![p] = "idle"]
      /\ mem' = [mem EXCEPT ![p] = Unread]
      /\ lock' = IF lock = p THEN Nobody ELSE lock
      /\ looked' = [looked EXCEPT ![p] = [f \in File |-> 0]]
      /\ raced' = [raced EXCEPT ![p] = {}]
  BY DEF Ended
<1>2. Unread \in [ts : Time, ent : [File -> Entry], uptodate : SUBSET File, changed : BOOLEAN]
  BY ZeroSize DEF Unread, FromTree, Entry
<1>3. mem' \in [Git -> [ts : Time, ent : [File -> Entry],
                       uptodate : SUBSET File, changed : BOOLEAN]]
  BY <1>1, <1>2 DEF IInv, TypeOK
<1>4. /\ looked' \in [Git -> [File -> Time]] /\ raced' \in [Git -> SUBSET File]
      /\ lock' \in Git \cup {Nobody} /\ pc' \in [Git -> {"idle", "run", "flush", "commit"}]
  BY <1>1 DEF IInv, TypeOK
<1>5. Locked' /\ \A q \in Git : pc'[q] \in {"flush", "commit"} => lock' = q
  BY <1>1 DEF IInv, TypeOK, Locked
<1>6. TypeOK' /\ Clocks'
  BY <1>3, <1>4, <1>5 DEF IInv, TypeOK, Clocks
<1>7. CommandInv(p)'
  BY <1>1 DEF IInv, TypeOK, CommandInv, Unread
<1>8. ASSUME NEW q \in Git \ {p} PROVE CommandInv(q)'
  <2>1. mem'[q] = mem[q] /\ pc'[q] = pc[q] /\ looked'[q] = looked[q] /\ raced'[q] = raced[q]
    BY <1>1 DEF IInv, TypeOK
  <2> QED BY <2>1, Frame
<1> QED BY <1>5, <1>6, <1>7, <1>8 DEF IInv

LEMMA QuitInv == ASSUME IInv, NEW p \in Git, Quit(p) PROVE IInv'
<1>1. Ended(p) /\ UNCHANGED <<clock, work, disk, runs>>
  BY DEF Quit
<1>2. disk \in [ts : Time, ent : [File -> Entry]] /\ disk.ts \in 1..clock /\ DiskInv'
  BY <1>1 DEF IInv, TypeOK, Clocks, DiskInv
<1> QED BY <1>1, <1>2, EndedInv

LEMMA CommitInv == ASSUME IInv, NEW p \in Git, Commit(p) PROVE IInv'
<1>1. /\ pc[p] = "commit" /\ disk' = [ts |-> mem[p].ts, ent |-> mem[p].ent]
      /\ Ended(p) /\ UNCHANGED <<clock, work, runs>>
  BY DEF Commit
<1>2. mem[p] \in [ts : Time, ent : [File -> Entry], uptodate : SUBSET File, changed : BOOLEAN]
  BY DEF IInv, TypeOK
<1>3. disk' \in [ts : Time, ent : [File -> Entry]] /\ disk'.ts \in 1..clock
  BY <1>1, <1>2 DEF IInv, CommandInv
<1>4. ASSUME NEW f \in File
      PROVE  Sane(mem[p].ent[f], work[f]) /\ Recorded(mem[p].ts, mem[p].ent[f], work[f])
  <2>1. FileInv(p, f) /\ mem[p].ent[f].mtime \in Int
    BY <1>1, <1>2 DEF IInv, CommandInv, Entry
  <2>2. work[f].mtime \in Int
    BY DEF IInv, TypeOK, Stat
  <2> QED BY <1>1, <2>1, <2>2 DEF FileInv, Known, Settled, Recorded, Matches
<1>5. DiskInv'
  BY <1>1, <1>4 DEF DiskInv
<1> QED BY <1>1, <1>3, <1>5, EndedInv

-----------------------------------------------------------------------------
\* A merge of one file.

\* It checks the file out.
LEMMA CheckoutInv == ASSUME IInv, NEW p \in Git, NEW f \in File, NEW c \in Blob, pc[p] = "run",
                            \A q \in Git \ {p} : looked[q][f] # clock,
                            work' = [work EXCEPT ![f] = write_entry(c)],
                            Put(p, f, Filled(c, write_entry(c)), TRUE),
                            looked' = [looked EXCEPT ![p][f] = work'[f].mtime],
                            raced' = [q \in Git |-> IF q = p THEN raced[q] \ {f}
                                                    ELSE IF looked[q][f] # 0
                                                    THEN raced[q] \cup {f} ELSE raced[q]],
                            UNCHANGED <<clock, disk, lock, pc, runs>>
                     PROVE  IInv'
<1> DEFINE s == [blob |-> c, mtime |-> clock]
           e == Filled(c, s)
<1>0. TypeOK /\ clock \in 1..MaxClock /\ work \in [File -> Stat]
  BY DEF IInv, TypeOK
<1>1. s \in Stat /\ work' = [work EXCEPT ![f] = s]
  BY <1>0 DEF Stat, write_entry
<1>2. e \in Entry /\ Put(p, f, e, TRUE)
  <2>1. e \in Entry
    BY <1>1, NewEntries
  <2> QED BY <2>1 DEF write_entry
<1>3. e.mtime = clock /\ e.sha = c /\ e.size = SizeOf[c] /\ work'[f] = s
  BY <1>0, <1>1 DEF Filled
<1>4. EntryPut(p, f, e) /\ f \in mem'[p].uptodate
  <2> HIDE DEF e
  <2> QED BY <1>0, <1>2, PutIs
<1>5. /\ looked' \in [Git -> [File -> Time]] /\ raced' \in [Git -> SUBSET File]
      /\ looked'[p][f] = clock /\ f \notin raced'[p]
      /\ \A g \in File \ {f} : /\ looked'[p][g] = looked[p][g]
                               /\ g \in raced'[p] <=> g \in raced[p]
      /\ \A q \in Git \ {p} :
           /\ looked'[q] = looked[q]
           /\ raced'[q] = IF looked[q][f] # 0 THEN raced[q] \cup {f} ELSE raced[q]
  BY <1>0, <1>3 DEF TypeOK
<1>6. DiskInv' /\ Clocks' /\ work' \in [File -> Stat]
  BY <1>1, RewrittenDisk
<1>7. TypeOK' /\ Locked'
  BY <1>0, <1>4, <1>5, <1>6 DEF IInv, TypeOK, Locked, EntryPut
<1>8. CommandInv(p)'
  <2>1. FileInv(p, f)'
    <3>1. work'[f] \in Stat /\ work'[f].mtime = clock /\ work'[f].blob = c /\ clock # 0
      BY <1>0, <1>1, <1>3
    <3> HIDE DEF e
    <3>2. /\ mem'[p].ent[f].mtime = work'[f].mtime /\ mem'[p].ent[f].sha = work'[f].blob
          /\ mem'[p].ent[f].size \in {0, SizeOf[mem'[p].ent[f].sha]}
          /\ looked'[p][f] = work'[f].mtime
      BY <1>3, <1>4, <1>5, <3>1 DEF EntryPut
    <3> QED BY <1>4, <1>5, <3>1, <3>2, JustSeen
  <2>2. \A g \in File \ {f} : work'[g] = work[g]
    BY <1>0, <1>1
  <2> HIDE DEF e
  <2> QED BY <1>4, <1>5, <2>1, <2>2, OneFile DEF EntryPut
<1>9. ASSUME NEW q \in Git \ {p} PROVE CommandInv(q)'
  <2>1. /\ mem'[q] = mem[q] /\ pc'[q] = pc[q] /\ looked'[q] = looked[q] /\ clock' = clock
        /\ looked[q][f] # clock
        /\ raced'[q] = IF looked[q][f] # 0 THEN raced[q] \cup {f} ELSE raced[q]
    BY <1>4, <1>5 DEF EntryPut
  <2> QED BY <1>1, <2>1, Rewritten
<1> QED BY <1>6, <1>7, <1>8, <1>9 DEF IInv

\* It takes an entry from a tree and leaves the file alone.
LEMMA TreeEntryInv == ASSUME IInv, NEW p \in Git, NEW f \in File, NEW c \in Blob, pc[p] = "run",
                             Put(p, f, FromTree(c), FALSE),
                             UNCHANGED <<clock, work, disk, lock, pc, runs>>,
                             looked' \in [Git -> [File -> Time]], raced' \in [Git -> SUBSET File],
                             looked'[p][f] <= work'[f].mtime,
                             \A q \in Git \ {p} : looked'[q] = looked[q] /\ raced'[q] = raced[q],
                             \A g \in File \ {f} : /\ looked'[p][g] = looked[p][g]
                                                   /\ g \in raced'[p] <=> g \in raced[p]
                      PROVE  IInv'
<1> DEFINE t == FromTree(c)
<1>0. TypeOK
  BY DEF IInv
<1>1. t \in Entry /\ Put(p, f, t, FALSE) /\ t.mtime = 0 /\ t.size = 0
  <2>1. t \in Entry
    BY <1>0, NewEntries DEF TypeOK
  <2> QED BY <2>1 DEF FromTree
<1> HIDE DEF t
<1>2. EntryPut(p, f, t) /\ f \notin mem'[p].uptodate
  BY <1>0, <1>1, PutStaleIs
<1>3. FileInv(p, f)'
  <2>1. work[f].mtime \in 1..clock /\ clock \in Nat
    BY DEF IInv, TypeOK, Clocks
  <2> QED BY <1>1, <1>2, <2>1 DEF EntryPut, FileInv, Sane, Recorded, Matches
<1> QED BY <1>2, <1>3, RunStep DEF EntryPut

LEMMA MergeInv == ASSUME IInv, NEW p \in Proc, NEW f \in File, NEW c \in Blob,
                         NEW reset \in BOOLEAN, NEW update \in BOOLEAN,
                         Merge(p, f, c, reset, update)
                  PROVE  IInv'
<1> DEFINE e == mem[p].ent[f]
           checkout == update /\ oneway_update(mem[p], f, c, reset)
           looks == checkout \/ (f \notin mem[p].uptodate /\ (reset <=> c = e.sha))
<1>0. p \in Git /\ TypeOK
  BY DEF Git, IInv
<1>1. /\ pc[p] = "run"
      /\ work' = IF checkout THEN [work EXCEPT ![f] = write_entry(c)] ELSE work
      /\ checkout => \A q \in Git \ {p} : looked[q][f] # clock
      /\ \/ checkout /\ Put(p, f, Filled(c, write_entry(c)), TRUE)
         \/ ~checkout /\ c # e.sha /\ Put(p, f, FromTree(c), FALSE)
         \/ ~checkout /\ c = e.sha /\ mem' = [mem EXCEPT ![p].changed = TRUE]
      /\ looked' = [looked EXCEPT ![p][f] = IF looks THEN work'[f].mtime ELSE @]
      /\ raced' = [q \in Git |-> IF q = p /\ looks THEN raced[q] \ {f}
                                ELSE IF q # p /\ checkout /\ looked[q][f] # 0
                                THEN raced[q] \cup {f} ELSE raced[q]]
      /\ UNCHANGED <<clock, disk, lock, pc, runs>>
  BY DEF Merge
<1>2. CASE checkout
  <2>1. Put(p, f, Filled(c, write_entry(c)), TRUE)
    BY <1>1, <1>2
  <2>2. /\ looked' = [looked EXCEPT ![p][f] = work'[f].mtime]
        /\ raced' = [q \in Git |-> IF q = p THEN raced[q] \ {f}
                                  ELSE IF looked[q][f] # 0
                                  THEN raced[q] \cup {f} ELSE raced[q]]
    BY <1>1, <1>2
  <2> HIDE DEF checkout
  <2> QED BY <1>0, <1>1, <1>2, <2>1, <2>2, CheckoutInv
<1>3. CASE ~checkout
  <2>1. /\ work' = work
        /\ looked' = [looked EXCEPT ![p][f] = IF looks THEN work[f].mtime ELSE looked[p][f]]
        /\ raced' = [q \in Git |-> IF q = p /\ looks THEN raced[q] \ {f} ELSE raced[q]]
    BY <1>1, <1>3
  <2> HIDE DEF checkout
  <2>2. work[f] \in Stat /\ work[f].mtime \in 1..clock
    BY DEF IInv, TypeOK, Clocks
  <2>3. /\ looked' \in [Git -> [File -> Time]] /\ raced' \in [Git -> SUBSET File]
        /\ looked'[p][f] = IF looks THEN work[f].mtime ELSE looked[p][f]
        /\ f \in raced'[p] <=> ~looks /\ f \in raced[p]
        /\ \A q \in Git \ {p} : looked'[q] = looked[q] /\ raced'[q] = raced[q]
        /\ \A g \in File \ {f} : /\ looked'[p][g] = looked[p][g]
                                 /\ g \in raced'[p] <=> g \in raced[p]
    <3> HIDE DEF looks
    <3> QED BY <1>0, <2>1, <2>2 DEF TypeOK, Stat
  <2>4. Sane(e, work[f]) /\ Recorded(mem[p].ts, e, work[f]) /\ FileInv(p, f)
    BY <1>0, <1>1, RunRecorded DEF IInv, CommandInv
  <2>5. looked'[p][f] <= work'[f].mtime
    BY <2>1, <2>2, <2>3, <2>4 DEF FileInv
  <2>6. CASE c # e.sha
    <3>1. Put(p, f, FromTree(c), FALSE)
      BY <1>1, <1>3, <2>6
    <3> QED BY <1>0, <1>1, <2>1, <2>3, <2>5, <3>1, TreeEntryInv
  <2>7. CASE c = e.sha
    <3>1. mem' = [mem EXCEPT ![p].changed = TRUE]
      BY <1>1, <1>3, <2>7
    <3>2. mem[p] \in [ts : Time, ent : [File -> Entry],
                      uptodate : SUBSET File, changed : BOOLEAN]
      BY <1>0 DEF TypeOK
    <3>3. /\ mem' \in [Git -> [ts : Time, ent : [File -> Entry],
                              uptodate : SUBSET File, changed : BOOLEAN]]
          /\ \A q \in Git \ {p} : mem'[q] = mem[q]
          /\ mem'[p].ts = mem[p].ts /\ mem'[p].ent = mem[p].ent
          /\ mem'[p].uptodate = mem[p].uptodate
      BY <1>0, <3>1, <3>2 DEF TypeOK
    <3>4. CASE f \in mem[p].uptodate
      <4>1. ~looks
        BY <1>3, <3>4
      <4>2. looked'[p][f] = looked[p][f] /\ (f \in raced'[p] <=> f \in raced[p])
        BY <2>3, <4>1
      <4>3. FileInv(p, f)'
        BY <2>1, <2>4, <3>3, <3>4, <4>2 DEF FileInv, Known
      <4> QED BY <1>0, <1>1, <2>1, <2>3, <3>3, <4>3, RunStep
    <3>5. CASE f \notin mem[p].uptodate
      <4>1. FileInv(p, f)'
        BY <1>1, <2>1, <2>4, <2>5, <3>3, <3>5 DEF FileInv
      <4> QED BY <1>0, <1>1, <2>1, <2>3, <3>3, <4>1, RunStep
    <3> QED BY <3>4, <3>5
  <2> QED BY <2>6, <2>7
<1> QED BY <1>2, <1>3

-----------------------------------------------------------------------------
\* Every state of the system.

LEMMA InitInv == ASSUME Init PROVE IInv
<1>1. /\ clock = 1 /\ 1 \in 1..MaxClock /\ 1 \in Time /\ 0 \in Time
      /\ work \in [File -> [blob : Blob, mtime : {1}]]
      /\ disk \in [ts : {1}, ent : [File -> {FromTree(c) : c \in Blob}]]
      /\ lock = Nobody
      /\ pc = [p \in Git |-> "idle"]
      /\ mem = [p \in Git |-> Unread]
      /\ runs = [p \in Git |-> MaxRuns]
      /\ looked = [p \in Git |-> [f \in File |-> 0]]
      /\ raced = [p \in Git |-> {}]
  BY DEF Init
<1>2. \A f \in File : work[f] \in Stat /\ work[f].mtime = 1
  BY <1>1 DEF Stat
<1>3. \A f \in File : \E c \in Blob : disk.ent[f] = FromTree(c)
  BY <1>1
<1>4. \A c \in Blob : FromTree(c) \in Entry /\ FromTree(c).mtime = 0 /\ FromTree(c).size = 0
  BY ZeroSize DEF FromTree, Entry
<1>5. work \in [File -> Stat]
  BY <1>1, <1>2
<1>6. disk \in [ts : Time, ent : [File -> Entry]] /\ disk.ts = 1
  BY <1>1, <1>4
<1>7. mem \in [Git -> [ts : Time, ent : [File -> Entry], uptodate : SUBSET File, changed : BOOLEAN]]
  <2>1. Unread \in [ts : Time, ent : [File -> Entry], uptodate : SUBSET File, changed : BOOLEAN]
    BY <1>1, <1>4 DEF Unread
  <2> QED BY <1>1, <2>1
<1>8. TypeOK
  BY <1>1, <1>5, <1>6, <1>7 DEF TypeOK
<1>9. Clocks /\ Locked
  BY <1>1, <1>2, <1>6 DEF Clocks, Locked
<1>10. DiskInv
  <2> SUFFICES ASSUME NEW f \in File
               PROVE  Sane(disk.ent[f], work[f]) /\ Recorded(disk.ts, disk.ent[f], work[f])
    BY DEF DiskInv
  <2>1. disk.ent[f].mtime = 0 /\ disk.ent[f].size = 0 /\ work[f].mtime = 1
    BY <1>2, <1>3, <1>4
  <2> QED BY <2>1 DEF Sane, Recorded, Matches
<1>11. \A p \in Git : CommandInv(p)
  BY <1>1 DEF CommandInv, Unread
<1> QED BY <1>8, <1>9, <1>10, <1>11 DEF IInv

LEMMA NextInv == IInv /\ [Next]_vars => IInv'
<1> SUFFICES ASSUME IInv, [Next]_vars PROVE IInv'
  OBVIOUS
<1>1. CASE Tick
  BY <1>1, TickInv
<1>2. ASSUME NEW f \in File, NEW c \in Blob, Edit(f, c) PROVE IInv'
  BY <1>2, EditInv
<1>3. ASSUME NEW p \in Git, Start(p) \/ WriteIndex(p) \/ Flush(p) \/ Commit(p) \/ Quit(p)
      PROVE  IInv'
  BY <1>3, StartInv, WriteIndexInv, FlushInv, CommitInv, QuitInv
<1>4. ASSUME NEW p \in Git, NEW f \in File, Preload(p, f) \/ Refresh(p, f) PROVE IInv'
  BY <1>4, PreloadInv, RefreshInv
<1>5. ASSUME NEW p \in Proc, NEW f \in File, Add(p, f) PROVE IInv'
  BY <1>5, AddInv
<1>6. ASSUME NEW p \in Proc, NEW f \in File, NEW c \in Blob, NEW reset \in BOOLEAN,
             NEW update \in BOOLEAN, Merge(p, f, c, reset, update)
      PROVE  IInv'
  BY <1>6, MergeInv
<1>7. CASE UNCHANGED vars
  <2>1. UNCHANGED <<clock, work, disk, lock, pc, mem, runs, looked, raced>>
    BY <1>7 DEF vars
  <2>2. TypeOK' /\ Clocks' /\ Locked' /\ DiskInv'
    BY <2>1 DEF IInv, TypeOK, Clocks, Locked, DiskInv
  <2>3. ASSUME NEW q \in Git PROVE CommandInv(q)'
    BY <2>1, Frame
  <2> QED BY <2>2, <2>3 DEF IInv
<1> QED BY <1>1, <1>2, <1>3, <1>4, <1>5, <1>6, <1>7 DEF Next

LEMMA IndexInvariant == Spec => []IInv
<1> QED BY InitInv, NextInv, PTL DEF Spec

\* The state of the index, of the files and of the commands is what the declarations say.
THEOREM IndexTypes == Spec => []TypeOK
<1>1. IInv => TypeOK
  BY DEF IInv
<1> QED BY <1>1, IndexInvariant, PTL

\* ce_match_stat() on the entries of the index file, read-cache.c:249: a file that it finds
\* clean has the content that the index records, for any number of files and commands.
THEOREM NoFalseClean == Spec => []NeverFalselyClean
<1>1. IInv => NeverFalselyClean
  <2> SUFFICES ASSUME IInv, NEW f \in File, match_stat(disk.ts, disk.ent[f], work[f], FALSE) = {}
               PROVE  work[f].blob = disk.ent[f].sha
    BY DEF NeverFalselyClean
  <2>1. /\ disk.ts \in Time /\ disk.ts # 0 /\ disk.ent[f] \in Entry /\ work[f] \in Stat
        /\ Recorded(disk.ts, disk.ent[f], work[f])
    BY DEF IInv, TypeOK, Clocks, DiskInv
  <2> QED BY <2>1, MatchExact
<1> QED BY <1>1, IndexInvariant, PTL

\* ie_modified(), read-cache.c:305: what a refresh reports is exactly what has changed.
THEOREM RefreshTellsTheTruth == Spec => []RefreshExact
<1>1. IInv => RefreshExact
  <2> SUFFICES ASSUME IInv, NEW f \in File
               PROVE  modified(disk.ts, disk.ent[f], work[f]) <=> work[f].blob # disk.ent[f].sha
    BY DEF RefreshExact
  <2>1. /\ disk.ts \in Time /\ disk.ts # 0 /\ disk.ent[f] \in Entry /\ work[f] \in Stat
        /\ Recorded(disk.ts, disk.ent[f], work[f]) /\ Sane(disk.ent[f], work[f])
    BY DEF IInv, TypeOK, Clocks, DiskInv
  <2> QED BY <2>1, ModifiedExact
<1> QED BY <1>1, IndexInvariant, PTL

\* CE_UPTODATE, which preload_thread() and refresh_cache_ent() set, is true unless the file was
\* edited since the command looked.
THEOREM UptodateIsTrue == Spec => []UptodateTrue
<1>1. IInv => UptodateTrue
  <2> SUFFICES ASSUME IInv, NEW p \in Git, NEW f \in mem[p].uptodate \ raced[p]
               PROVE  work[f].blob = mem[p].ent[f].sha
    BY DEF UptodateTrue
  <2>1. f \in File
    BY DEF IInv, TypeOK
  <2>2. FileInv(p, f)
    BY <2>1 DEF IInv, CommandInv
  <2> QED BY <2>2 DEF FileInv, Known
<1> QED BY <1>1, IndexInvariant, PTL

\* verify_uptodate_1(), unpack-trees.c:1234: a merge without --reset overwrites a file only if
\* its content is that of the index, or was edited after the command had looked.
THEOREM MergeKeepsEdits == Spec => LocalChangesKept
<1>1. ASSUME IInv, NEW p \in Proc, NEW f \in File, NEW c \in Blob,
             Merge(p, f, c, FALSE, TRUE), work'[f].blob # work[f].blob
      PROVE  f \in raced[p] \/ work[f].blob = mem[p].ent[f].sha
  <2>1. p \in Git /\ pc[p] = "run"
    BY <1>1 DEF Git, Merge
  <2>2. oneway_update(mem[p], f, c, FALSE)
    BY <1>1 DEF Merge
  <2>3. c # mem[p].ent[f].sha
    BY <2>2 DEF oneway_update
  <2>4. verify_uptodate(mem[p], f, FALSE)
    BY <1>1, <2>3 DEF Merge
  <2>5. CASE f \in mem[p].uptodate
    <3>1. FileInv(p, f)
      BY <1>1, <2>1 DEF IInv, CommandInv
    <3> QED BY <2>5, <3>1 DEF FileInv, Known
  <2>6. CASE match_stat(mem[p].ts, mem[p].ent[f], work[f], FALSE) = {}
    BY <1>1, <2>1, <2>6, RunRecorded, MatchExact
  <2> QED BY <2>4, <2>5, <2>6 DEF verify_uptodate
<1>2. IInv => [\A p \in Proc, f \in File, c \in Blob :
                 Merge(p, f, c, FALSE, TRUE) /\ work'[f].blob # work[f].blob
                   => f \in raced[p] \/ work[f].blob = mem[p].ent[f].sha]_vars
  BY <1>1
<1> QED BY <1>2, IndexInvariant, PTL DEF LocalChangesKept
=============================================================================
