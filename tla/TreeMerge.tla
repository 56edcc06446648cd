----------------------------- MODULE TreeMerge -----------------------------
(***************************************************************************)
(* unpack-trees.c: the index and the work tree go from one tree to another *)
(* (git checkout, checkout -f, reset --hard) or to the trivial merge of    *)
(* three (git read-tree -m -u).  unpack_trees() first decides on all paths *)
(* from what it sees of trees, index and work tree, then changes the files *)
(* one by one; the index and HEAD follow.  The command may be refused, may *)
(* fail to write a file, and may be killed between any two changes.        *)
(*                                                                         *)
(* There is one name, Top, which is a file or a directory with files in    *)
(* it: that is where the paths are not independent of each other.          *)
(***************************************************************************)
EXTENDS Naturals, Sequences, FiniteSets, SequencesExt

CONSTANTS Top,        \* a name
          Inside,     \* the paths below it, in the order of their names
          Blob,       \* contents that are in the repository
          Local,      \* a content that is in the work tree only
          Torn,       \* what is left of a file whose write was cut off
          Passed,     \* the same, recorded in the index as the file of the entry
          None,       \* no file, no entry
          Directory,  \* Top in the work tree, if it is a directory
          Heads, Targets, Bases, \* trees: of HEAD, of the other commit, of the merge base
          Indexes,    \* an index may hold, if nothing is unmerged, these trees
          Worktrees,  \* what may be in the work tree
          Ignores,    \* sets of paths that .gitignore may name
          Programs    \* the commands that are given, one after the other

Under == ToSet(Inside)
Path == {Top} \cup Under
Names == <<Top>> \o Inside

\* No name is both a file and a directory.
IsTree(t) == t \in [Path -> Blob \cup {None}] /\ (t[Top] = None \/ \A p \in Under : t[p] = None)
IsDir(t) == \E p \in Under : t[p] # None
IsFile(c) == c \notin {None, Directory}

ASSUME TreeMergeAssumption ==
  /\ Top \notin Under /\ IsInjective(Inside)
  /\ Cardinality({Local, Torn, Passed, None, Directory}) = 5
  /\ Blob \cap {Local, Torn, Passed, None, Directory} = {}
  /\ \A t \in Heads \cup Targets \cup Bases \cup Indexes : IsTree(t)
  /\ \A w \in Worktrees : /\ DOMAIN w = Path
                          /\ w[Top] # Directory => \A p \in Under : w[p] = None
                          /\ \A p \in Under : w[p] # Directory

VARIABLES head, base, target, \* the trees of HEAD, of the merge base and of the other commit
          ignored,            \* the ignored paths
          index,              \* its entries; is it an index that was never written?
          unborn,
          wt,                 \* the work tree
          program,            \* commands to come
          cmd,                \* the command that runs or was the last
          plan, next,         \* changes to the files still to be made, and the index to write
          emptied,            \* was a file removed from the directory?
          errs,               \* does check_updates() know of a file that was not written?
          cut,                \* the files cut off of which it does not
          stuck,              \* the files that were to go and stayed
          outcome,            \* what became of the last command
          was                 \* HEAD, index and work tree before it

trees == <<head, base, target, ignored>>
vars == <<trees, index, unborn, wt, program, cmd, plan, next, emptied, errs, cut, stuck, outcome, was>>

Entries == [path : Path, stage : 0..3, blob : Blob]

\* Nothing is in a directory that is not there.
IsWorktree(w) == /\ DOMAIN w = Path
                 /\ w[Top] \in Blob \cup {Local, Torn, Passed, None, Directory}
                 /\ \A p \in Under : /\ w[p] \in Blob \cup {Local, Torn, Passed, None}
                                    /\ w[Top] # Directory => w[p] = None

TypeOK ==
  /\ IsTree(head) /\ IsTree(base) /\ IsTree(target) /\ ignored \subseteq Path
  /\ index \subseteq Entries /\ next \subseteq Entries
  /\ {unborn, emptied, errs} \subseteq BOOLEAN /\ cut \subseteq Path /\ stuck \subseteq Path
  /\ IsWorktree(wt)
  /\ \A i \in DOMAIN plan : plan[i].path \in Path \cup {None} /\ plan[i].blob \in Blob \cup {None}
  /\ outcome \in {None, "ok", "refused", "incomplete", "failed", "killed"}

-----------------------------------------------------------------------------
(* Index entries *)

Entry(p, stage, blob) == [path |-> p, stage |-> stage, blob |-> blob]

\* The entries of a tree at a stage.
AtStage(t, stage) == {Entry(p, stage, t[p]) : p \in {q \in Path : t[q] # None}}

\* CE_CONFLICTED: the blob of an entry that marks an unmerged path.
Conflicted == Torn

\* Entries and the marks CE_UPDATE and CE_REMOVE of the result
Marked(e, mark) == [path |-> e.path, stage |-> e.stage, blob |-> e.blob, mark |-> mark]

Of(entries, p) == {e \in entries : e.path = p}
First(entries) == IF entries = {} THEN None
                  ELSE CHOOSE e \in entries : \A f \in entries : e.stage <= f.stage

Clash(p, q) == (p = Top) # (q = Top)

same(a, b) == IF a = None \/ b = None THEN a = b ELSE a.blob = b.blob /\ a.blob # Conflicted

\* add_index_entry() with ADD_CACHE_OK_TO_REPLACE
add(entries, e) ==
  IF \E f \in entries : f.path = e.path /\ f.stage = e.stage
  THEN {f \in entries : f.path # e.path \/ f.stage # e.stage} \cup {e}
  ELSE {e} \cup {f \in entries :
                   /\ ~(e.stage = 0 /\ f.path = e.path)
                   /\ ~(/\ e.mark # "remove" /\ f.mark # "remove"
                        /\ f.stage = e.stage /\ Clash(f.path, e.path))}

\* Faulty variant: the unmerged entries are left out.
read_index_merged == {e \in index : e.stage = 0}

\* read_index_unmerged(): each unmerged path becomes one marked entry.  The
\* entries of a path that is both a file and a directory go, and those that
\* follow it stay as they are.
read_index_unmerged ==
  LET Drop(s, p) ==
        LET rest == s.entries \ Of(s.entries, p)
        IN IF s.stop \/ \A e \in Of(s.entries, p) : e.stage = 0 THEN s
           ELSE IF \E f \in rest : f.stage = 0 /\ Clash(f.path, p)
           THEN [entries |-> rest, stop |-> TRUE]
           ELSE [entries |-> rest \cup {Entry(p, 0, Conflicted)}, stop |-> FALSE]
  IN FoldLeft(Drop, [entries |-> index, stop |-> FALSE], Names).entries

unmerged_cache == \E e \in index : e.stage # 0

-----------------------------------------------------------------------------
(* Deciding.  o holds the options and src_index, m the result so far, the  *)
(* entries of src_index that are done with, and whether nothing was        *)
(* refused yet.                                                            *)

Refuse(m) == [m EXCEPT !.ok = FALSE]
Put(m, e, mark) == [m EXCEPT !.result = add(m.result, Marked(e, mark))]

\* lstat() finds the file that the entry records ...
Recorded(e) == wt[e.path] = e.blob \/ (wt[e.path] = Passed /\ e.stage = 0)

\* ... or none.
Fresh(e) == \/ Recorded(e)
            \/ wt[e.path] = None /\ (e.path = Top \/ ~IsFile(wt[Top]))

verify_uptodate(o, m, e) == IF o.reset \/ Fresh(e) THEN m ELSE Refuse(m)

excluded(o, p) == o.dir /\ p \in ignored

\* Faulty variant: the entries that go are not marked as used.
verify_clean_unmarked(o, m) ==
  LET tracked == {e \in o.src : e.path \in Under /\ e.stage = 0}
  IN IF \E p \in Under : wt[p] # None /\ Of(o.src, p) = {} /\ ~excluded(o, p) THEN Refuse(m)
     ELSE FoldLeft(LAMBDA n, p : IF Of(tracked, p) = {} THEN n
                                 ELSE Put(n, First(Of(tracked, p)), "remove"), m, Inside)

\* The files in the directory, if they are all recorded or ignored, make room
\* for a file.
verify_clean_subdirectory(o, m) ==
  LET tracked == {e \in o.src : e.path \in Under /\ e.stage = 0}
      untracked == {p \in Under : wt[p] # None /\ Of(o.src, p) = {} /\ ~excluded(o, p)}
      Take(n, p) == IF Of(tracked, p) = {} THEN n
                      ELSE [Put(n, First(Of(tracked, p)), "remove") EXCEPT
                              !.used = n.used \cup Of(tracked, p)]
  IN IF untracked = {} /\ \A e \in tracked : Fresh(e)
     THEN FoldLeft(Take, m, Inside)
     ELSE Refuse(m)

\* Faulty variant: a directory is in nobody's way.
check_ok_unless_directory(o, m, p) ==
  IF excluded(o, p) \/ wt[p] = Directory THEN m ELSE Refuse(m)

check_ok_to_remove(o, m, p) ==
  CASE excluded(o, p) -> m
    [] ~excluded(o, p) /\ wt[p] = Directory -> verify_clean_subdirectory(o, m)
    [] OTHER -> IF \E e \in m.result : e.path = p /\ e.mark = "remove" THEN m ELSE Refuse(m)

verify_absent(o, m, p) ==
  CASE o.reset -> m
    [] ~o.reset /\ p # Top /\ IsFile(wt[Top]) -> check_ok_to_remove(o, m, Top)
    [] OTHER -> IF wt[p] = None THEN m ELSE check_ok_to_remove(o, m, p)

merged_entry(o, m, merge, old) ==
  LET e == Entry(merge.path, 0, merge.blob)
      v == CASE old = None -> verify_absent(o, m, e.path)
             [] old # None -> IF old.blob = Conflicted THEN m ELSE verify_uptodate(o, m, old)
  IN IF old # None /\ same(old, merge) THEN Put(m, e, "none")
     ELSE IF v.ok THEN Put(v, e, "update") ELSE v

deleted_entry(o, m, ce, old) ==
  IF old = None THEN verify_absent(o, m, ce.path)
  ELSE LET v == IF old.blob = Conflicted THEN m ELSE verify_uptodate(o, m, old)
       IN IF v.ok THEN Put(v, ce, "remove") ELSE v

keep_entry(m, ce) == Put(m, ce, "none")

-----------------------------------------------------------------------------
(* The merge functions: src is the entry of the index, t[i] that of tree i; *)
(* Directory stands for df_conflict_entry.                                 *)

NoDF(e) == IF e = Directory THEN None ELSE e

twoway_merge(o, m, current, t) ==
  LET oldtree == NoDF(t[1])
      newtree == NoDF(t[2])
  IN CASE current # None ->
            (CASE oldtree = None /\ newtree = None -> keep_entry(m, current)
               [] oldtree = None /\ newtree # None ->
                    IF same(current, newtree) THEN keep_entry(m, current) ELSE Refuse(m)
               [] oldtree # None /\ newtree = None ->
                    IF same(current, oldtree) THEN deleted_entry(o, m, oldtree, current)
                                              ELSE Refuse(m)
               [] OTHER ->
                    IF same(oldtree, newtree) \/ same(current, newtree) THEN keep_entry(m, current)
                    ELSE IF same(current, oldtree) THEN merged_entry(o, m, newtree, current)
                    ELSE Refuse(m))
       [] current = None /\ newtree # None ->
            IF oldtree # None /\ ~o.initial_checkout
            THEN IF same(oldtree, newtree) THEN m ELSE Refuse(m)
            ELSE merged_entry(o, m, newtree, None)
       [] OTHER -> IF oldtree = None THEN m ELSE deleted_entry(o, m, oldtree, None)

\* With o->reset; a file that is not what the entry says is written again.
oneway_merge(o, m, old, t) ==
  LET a == NoDF(t[1])
  IN IF a = None THEN deleted_entry(o, m, old, old)
     ELSE IF old # None /\ same(old, a)
     THEN Put(m, old, IF Recorded(old) /\ old.stage = 0 THEN "none" ELSE "update")
     ELSE merged_entry(o, m, a, old)

threeway_merge(o, m, entry, t) ==
  LET anc == NoDF(t[1])
      ours == NoDF(t[2])
      remote == NoDF(t[3])
      head_match == ~same(remote, ours) /\ t[1] # Directory /\ same(anc, ours)
      remote_match == ~same(remote, ours) /\ t[1] # Directory /\ same(anc, remote)
      Keep(n, e) == IF e = None THEN n ELSE keep_entry(n, e)
      Stages(n) == Keep(Keep(Keep(n, anc), ours), remote)
  IN CASE \* #14, #14ALT, #2ALT
          remote # None /\ t[2] # Directory /\ head_match /\ ~remote_match ->
            IF entry # None /\ ~same(entry, remote) /\ ~same(entry, ours)
            THEN Refuse(m) ELSE merged_entry(o, m, remote, entry)
       [] OTHER ->
            CASE entry # None /\ ~same(entry, ours) -> Refuse(m)
              [] ~(entry # None /\ ~same(entry, ours)) ->
                   \* #5ALT, #15; #13, #3ALT
                   IF ours # None /\ (\/ same(ours, remote)
                                      \/ t[3] # Directory /\ remote_match /\ ~head_match)
                   THEN merged_entry(o, m, ours, entry)
                   \* #1
                   ELSE IF ours = None /\ remote = None /\ anc = None THEN m
                   ELSE IF o.aggressive /\ (\/ ours = None /\ remote = None
                                            \/ ours = None /\ remote # None /\ remote_match
                                            \/ remote = None /\ ours # None /\ head_match)
                   THEN IF entry # None THEN deleted_entry(o, m, entry, entry)
                        ELSE IF ours # None THEN verify_absent(o, m, ours.path) ELSE m
                   ELSE IF entry = None THEN Stages(m)
                   ELSE LET v == verify_uptodate(o, m, entry)
                        IN IF v.ok THEN Stages(v) ELSE v

fn(o, m, src, t) == CASE o.fn = "twoway" -> twoway_merge(o, m, src, t)
                      [] o.fn = "oneway" -> oneway_merge(o, m, src, t)
                      [] o.fn = "threeway" -> threeway_merge(o, m, src, t)

-----------------------------------------------------------------------------
(* unpack_trees() *)

Unused(o, m, p) == First(Of(o.src \ m.used, p))
Use(o, m, p) == [m EXCEPT !.used = m.used \cup Of(o.src, p)]

\* Faulty variant: stages are counted from 0, as trees are.
TreeEntryFrom0(o, i, p) == IF o.t[i][p] = None THEN None
                           ELSE Entry(p, IF o.fn = "threeway" THEN i - 1 ELSE 3, o.t[i][p])

TreeEntry(o, i, p) == IF o.t[i][p] = None THEN None
                      ELSE Entry(p, IF o.fn = "threeway" THEN i ELSE 3, o.t[i][p])

\* Top in the trees, a directory being a conflict with a file
AtTop(o) == [i \in DOMAIN o.t |-> IF IsDir(o.t[i]) THEN Directory ELSE TreeEntry(o, i, Top)]
\* A path below it: a tree in which Top is a file conflicts.
AtPath(o, p) == [i \in DOMAIN o.t |-> IF o.t[i][Top] # None THEN Directory ELSE TreeEntry(o, i, p)]

unpack_callback(o, m, p) ==
  LET at == IF p = Top THEN AtTop(o) ELSE AtPath(o, p)
      seen == IF p = Top THEN \E i \in DOMAIN o.t : at[i] # None
                         ELSE \E i \in DOMAIN o.t : o.t[i][p] # None
      src == Unused(o, m, p)
      only_directories == p = Top /\ src = None /\ \A i \in DOMAIN o.t : at[i] \in {None, Directory}
  IN IF ~m.ok \/ ~seen \/ only_directories THEN m
     ELSE LET n == fn(o, m, src, at) IN IF src = None THEN n ELSE Use(o, n, p)

\* Faulty variant: what no tree has goes.
unpack_index_entry_dropped(o, m, p) ==
  IF ~m.ok \/ Unused(o, m, p) = None THEN m ELSE Use(o, m, p)

\* What is in the index only
unpack_index_entry(o, m, p) ==
  LET src == Unused(o, m, p)
  IN IF ~m.ok \/ src = None THEN m
     ELSE fn(o, Use(o, m, p), src, [i \in DOMAIN o.t |-> None])

unpack_trees(o) ==
  LET visit(m, p) == unpack_callback(o, m, p)
      left(m, p) == unpack_index_entry(o, m, p)
      start == [result |-> {}, used |-> {}, ok |-> TRUE]
  IN FoldLeft(left, FoldLeft(visit, start, Names), Names)

-----------------------------------------------------------------------------
(* The commands *)

Options(c) ==
  CASE c = "checkout" -> [fn |-> "twoway", reset |-> FALSE, dir |-> TRUE, aggressive |-> FALSE,
                          initial_checkout |-> unborn /\ index = {},
                          src |-> index, t |-> <<head, target>>]
    [] c \in {"force", "hard"} ->
                         [fn |-> "oneway", reset |-> TRUE, dir |-> FALSE, aggressive |-> FALSE,
                          initial_checkout |-> FALSE,
                          src |-> IF c = "hard" THEN read_index_unmerged ELSE index,
                          t |-> <<target>>]
    [] c \in {"merge", "aggressive"} ->
                         [fn |-> "threeway", reset |-> FALSE, dir |-> FALSE,
                          aggressive |-> c = "aggressive", initial_checkout |-> FALSE,
                          src |-> index, t |-> <<base, head, target>>]

Merges == {"merge", "aggressive"}
Forced == {"force", "hard"}

\* check_updates(): first the files that go, then the empty directory, then
\* the files that come.
Step(op, p, blob) == [op |-> op, path |-> p, blob |-> blob]
check_updates(result) ==
  LET marks(mark, p) == {e \in result : e.path = p /\ e.mark = mark}
      gone == SelectSeq(Names, LAMBDA p : marks("remove", p) # {})
      come == SelectSeq(Names, LAMBDA p : marks("update", p) # {})
      Blobs(p) == First(marks("update", p)).blob
  IN [i \in DOMAIN gone |-> Step("unlink", gone[i], None)]
     \o <<Step("rmdir", Top, None)>>
     \o [i \in 1..2 * Len(come) |->
           LET p == come[(i + 1) \div 2]
           IN Step(IF i % 2 = 1 THEN "make_room" ELSE "write", p, Blobs(p))]
     \o <<Step("index", None, None), Step("head", None, None)>>

Idle == plan = <<>>

Init ==
  /\ head \in Heads /\ base \in Bases /\ target \in Targets
  /\ ignored \in Ignores
  /\ \E t \in Indexes : index = AtStage(t, 0)
  /\ unborn \in (IF index = {} THEN BOOLEAN ELSE {FALSE})
  /\ wt \in Worktrees
  /\ program \in Programs
  /\ cmd = None /\ plan = <<>> /\ next = {} /\ emptied = FALSE /\ errs = FALSE /\ cut = {}
  /\ stuck = {} /\ outcome = None /\ was = None

\* A command locks and reads the index and decides.
Start ==
  /\ Idle /\ program # <<>>
  /\ cmd' = Head(program)
  /\ program' = Tail(program)
  /\ was' = [head |-> head, index |-> index, wt |-> wt, unborn |-> unborn]
  /\ LET m == unpack_trees(Options(cmd'))
     IN IF (cmd' \notin Forced /\ unmerged_cache) \/ ~m.ok
        THEN outcome' = "refused" /\ UNCHANGED <<plan, next>>
        ELSE /\ outcome' = None
             /\ plan' = check_updates(m.result)
             /\ next' = {Entry(e.path, e.stage, e.blob) :
                           e \in {f \in m.result : f.mark # "remove"}}
  /\ emptied' = FALSE /\ errs' = FALSE /\ cut' = {} /\ stuck' = {}
  /\ UNCHANGED <<trees, index, unborn, wt>>

Do(op) == plan # <<>> /\ plan[1].op = op
This == plan[1].path
Done == plan' = Tail(plan)
files == <<trees, index, unborn, program, cmd, next, outcome, was>>

InDirectory(p) == p = Top \/ wt[Top] = Directory

\* A file is there.
There == InDirectory(This) /\ IsFile(wt[This])

\* unlink_entry()
unlink_entry ==
  /\ Do("unlink") /\ Done
  /\ IF There
     THEN /\ wt' = [wt EXCEPT ![This] = None]
          /\ emptied' = (emptied \/ This # Top)
     ELSE UNCHANGED <<wt, emptied>>
  /\ UNCHANGED <<files, errs, cut, stuck>>

\* remove_or_warn() fails: a warning, of which nobody hears.
UnlinkFails ==
  /\ Do("unlink") /\ Done /\ There
  /\ stuck' = stuck \cup {This}
  /\ UNCHANGED <<files, wt, emptied, errs, cut>>

\* remove_scheduled_dirs(); rmdir() removes an empty directory only.
remove_scheduled_dirs ==
  /\ Do("rmdir") /\ Done
  /\ wt' = IF emptied /\ wt[Top] = Directory /\ \A p \in Under : wt[p] = None
           THEN [wt EXCEPT ![Top] = None] ELSE wt
  /\ UNCHANGED <<files, emptied, errs, cut, stuck>>

\* checkout_entry(): what is in the way goes, be it a directory with all that
\* is in it or a file where the directory has to be ...
make_room ==
  /\ Do("make_room") /\ Done
  /\ wt' = IF This = Top THEN [p \in Path |-> None]
           ELSE [wt EXCEPT ![Top] = Directory, ![This] = None]
  /\ UNCHANGED <<files, emptied, errs, cut, stuck>>

\* ... or the old file does not go, and the new one is not written: an error.
OldFileStays ==
  /\ Do("make_room") /\ There
  /\ plan' = Tail(Tail(plan))
  /\ errs' = TRUE
  /\ UNCHANGED <<files, wt, emptied, cut, stuck>>

\* What remove_subtree() and create_directories() leave when they die: some of
\* the files, or no file where the directory was to be made.
Remains == IF This = Top
           THEN {[p \in Path |-> IF p \in gone THEN None ELSE wt[p]] : gone \in SUBSET Under}
           ELSE {wt, [wt EXCEPT ![Top] = None]}

MakeRoomDies ==
  /\ Do("make_room")
  /\ (This = Top) = (wt[Top] = Directory)
  /\ wt' \in Remains
  /\ plan' = <<>> /\ next' = {} /\ outcome' = "failed"
  /\ UNCHANGED <<trees, index, unborn, program, cmd, emptied, errs, cut, stuck, was>>

\* ... and the file is written,
write_entry ==
  /\ Do("write") /\ Done
  /\ wt' = [wt EXCEPT ![This] = plan[1].blob]
  /\ UNCHANGED <<files, emptied, errs, cut, stuck>>

\* or not, or not all of it.  Of a content that goes to the file in a stream,
\* streaming_write_entry() forgets that.
WriteFails ==
  /\ Do("write") /\ Done
  /\ \/ /\ \E c \in {None, Torn} : wt' = [wt EXCEPT ![This] = c]
        /\ errs' = TRUE /\ UNCHANGED cut
     \/ /\ wt' = [wt EXCEPT ![This] = Torn]
        /\ cut' = cut \cup {This} /\ UNCHANGED errs
  /\ UNCHANGED <<files, emptied, stuck>>

\* The new index is committed, with what lstat() said of the files: those that
\* were cut off pass for whole ones, unless they are so new that they are racy.
\* git reset and git read-tree give up when they know that a file was not
\* written, git checkout goes on.
write_index ==
  /\ Do("index")
  /\ IF errs /\ cmd \in {"hard"} \cup Merges
     THEN /\ plan' = <<>> /\ next' = {} /\ outcome' = "failed"
          /\ UNCHANGED <<index, unborn, wt>>
     ELSE /\ Done
          /\ index' = next /\ next' = {} /\ unborn' = FALSE
          /\ \E c \in {Torn, Passed} : wt' = [p \in Path |-> IF p \in cut THEN c ELSE wt[p]]
          /\ UNCHANGED outcome
  /\ UNCHANGED <<trees, program, cmd, emptied, errs, cut, stuck, was>>

\* update_ref() or create_symref(); a merge leaves HEAD to the commit.
update_head ==
  /\ Do("head") /\ Done
  /\ head' = IF cmd \in Merges THEN head ELSE target
  /\ outcome' = IF errs \/ cut # {} THEN "incomplete" ELSE "ok"
  /\ UNCHANGED <<base, target, ignored, index, unborn, wt, program, cmd, next, emptied, errs, cut,
                 stuck, was>>

\* A command is killed, perhaps while it writes a file.
Kill ==
  /\ ~Idle
  /\ plan' = <<>> /\ next' = {} /\ outcome' = "killed"
  /\ \/ UNCHANGED wt
     \/ Do("write") /\ wt' = [wt EXCEPT ![This] = Torn]
  /\ UNCHANGED <<trees, index, unborn, program, cmd, emptied, errs, cut, stuck, was>>

Stop == Idle /\ program = <<>> /\ UNCHANGED vars

Next == \/ Start \/ unlink_entry \/ UnlinkFails \/ remove_scheduled_dirs
        \/ make_room \/ OldFileStays \/ MakeRoomDies \/ write_entry \/ WriteFails
        \/ write_index \/ update_head \/ Kill \/ Stop

Spec == Init /\ [][Next]_vars

-----------------------------------------------------------------------------
(* Properties *)

File(c) == IF IsFile(c) THEN c ELSE None

\* A path that is in a directory that .gitignore names, tracked or not, or that
\* .gitignore names itself and that is not tracked
Overwritable(p) == Top \in ignored \/ (p \in ignored /\ Of(was.index, p) = {})

\* What is in the work tree only stays there, through commands that succeed,
\* are refused, fail or are killed, and through the next one
\* (git-read-tree: "there is no need to worry about what exists only in the
\* working tree").
LocalKept ==
  [][cmd' \notin Forced =>
       \A p \in Path : wt[p] = Local /\ ~(cmd' = "checkout" /\ Overwritable(p)')
                         => wt'[p] = Local]_vars

\* A file of HEAD has become a directory in the index, or a directory a file.
Replaced == \E p, q \in Path : Clash(p, q) /\ Of(was.index, p) # {} /\ was.head[q] # None

\* It could not be removed, and nobody knows: unlink_entry() does not count the
\* error, the entry goes, and the command succeeds (unpack-trees.c:186).
Stayed(p) == p \in stuck /\ wt[p] = was.wt[p]

\* When git checkout or git read-tree -m -u succeeds, each file was carried
\* forward with its entry, or both are those of the other tree; but a file that
\* the other tree does not have may have stayed, untracked, for want of a
\* permission.
Follows ==
  outcome = "ok" /\ (cmd = "checkout" \/ (cmd \in Merges /\ ~Replaced)) =>
    \A p \in Path :
      LET old == Of(was.index, p)
          new == Of(index, p)
      IN \/ new = old /\ File(wt[p]) = File(was.wt[p])
         \/ new = {} /\ (IsFile(wt[p]) => Stayed(p))
         \/ \E e \in new : e.stage = 0 /\ wt[p] = e.blob
         \/ (\E e \in new : e.stage # 0) /\ File(wt[p]) = File(was.wt[p])

\* The table of git-read-tree for two trees
StageZero(entries, p) == LET e == First(Of(entries, p)) IN IF e = None THEN None ELSE e.blob
Table(p) ==
  LET I == StageZero(was.index, p)
      H == was.head[p]
      M == target[p]
      clean == was.wt[p] \in {I, None}
  IN CASE I = None /\ H = None /\ M # None -> "use M"                          \* 1
       [] I = None /\ H # None /\ M = None -> "remove"                         \* 2
       [] I = None /\ H # None /\ M # None ->
            IF was.unborn THEN "use M" ELSE IF H = M THEN "keep" ELSE "fail"   \* 3
       [] I # None /\ H = None /\ M = None -> "keep"                           \* 4, 5
       [] I # None /\ H = None /\ M # None -> IF I = M THEN "keep" ELSE "fail" \* 6 to 9
       [] I # None /\ H # None /\ M = None ->
            IF clean /\ I = H THEN "remove" ELSE "fail"                        \* 10 to 13
       [] I # None /\ H # None /\ M # None ->
            IF H = M \/ I = M THEN "keep"                                      \* 14, 15, 18, 19
            ELSE IF clean /\ I = H THEN "use M" ELSE "fail"                    \* 16, 17, 20, 21
       [] OTHER -> "keep"                                                      \* 0

NoClash == LET exists(p) == \/ StageZero(was.index, p) # None \/ IsFile(was.wt[p])
                            \/ was.head[p] # None \/ target[p] # None
           IN ~(\E p \in Under : exists(p)) \/ ~exists(Top)

TwoWayTable ==
  cmd = "checkout" /\ outcome = "ok" /\ NoClash =>
    \A p \in Path : StageZero(index, p) = CASE Table(p) = "use M" -> target[p]
                                            [] Table(p) = "remove" -> None
                                            [] Table(p) = "keep" -> StageZero(was.index, p)

\* git reset --hard, unless a name is both a file and a directory in the index,
\* and git checkout -f, if nothing is unmerged, make the index and the tracked
\* files those of the commit, whatever the commands before them have left, and
\* touch no other file that is not in the way (git-reset: "Resets the index and
\* working tree").  What stays is a file that was cut off and recorded so, and
\* one that could not be removed.
ForcedExact ==
  /\ outcome = "ok"
  /\ \/ cmd = "hard" /\ ~\E e, f \in was.index : Clash(e.path, f.path)
     \/ cmd = "force" /\ \A e \in was.index : e.stage = 0
  => /\ index = AtStage(target, 0)
     /\ \A p \in Path :
          IF target[p] # None THEN wt[p] = target[p] \/ (wt[p] = Passed /\ was.wt[p] = Passed)
          ELSE IF Of(was.index, p) # {} THEN IsFile(wt[p]) => Stayed(p)
          ELSE (\E q \in Path : target[q] # None /\ Clash(p, q))
               \/ File(wt[p]) = File(was.wt[p])

\* git-reset: "Any changes to tracked files in the working tree since <commit>
\* are discarded".  Of what a failed write left this does not hold, since
\* streaming_write_entry() takes its error for success (entry.c:131): no run
\* checks it, TLC finds a counterexample.
TornFilesDiscarded == cmd = "hard" /\ outcome = "ok" => \A p \in Path : wt[p] # Passed

\* git-reset: "Resets the index and working tree".  A tracked file that <commit>
\* does not have stays when it cannot be removed, and the command succeeds: no
\* run checks it, TLC finds a counterexample.
GoneFilesRemoved ==
  cmd = "hard" /\ outcome = "ok" =>
    \A p \in Path : Of(was.index, p) # {} /\ target[p] = None => ~IsFile(wt[p])

\* When git read-tree -m succeeds, each path is as all sides have it, or as the
\* side that changed it, and otherwise unmerged, with the versions of all three
\* at their stages: no change of either side is lost.
MergeRight ==
  outcome = "ok" /\ cmd \in Merges =>
    \A p \in Path :
      LET O == base[p]
          A == was.head[p]
          B == target[p]
          Justified(r) == \/ A = B /\ r = A
                          \/ A = O /\ r = B
                          \/ B = O /\ r = A
          versions == AtStage(base, 1) \cup AtStage(was.head, 2) \cup AtStage(target, 3)
      IN IF \A e \in Of(index, p) : e.stage = 0 THEN Justified(StageZero(index, p))
         ELSE Of(index, p) = Of(versions, p)
=============================================================================
