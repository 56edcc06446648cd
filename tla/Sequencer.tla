----------------------------- MODULE Sequencer -----------------------------
(***************************************************************************)
(* sequencer.c: `git cherry-pick` of several commits, what it leaves in    *)
(* .git/sequencer and in CHERRY_PICK_HEAD when it stops, and what          *)
(* --continue, --abort and --quit make of that.  One command runs at a     *)
(* time; between commands the user resolves, commits, resets or edits, and *)
(* any command may be killed between two writes.                           *)
(*                                                                         *)
(* A commit is the change that it makes; a tree is a set of changes.  All  *)
(* the commits change the same file, and so do the user's changes.         *)
(***************************************************************************)
EXTENDS Integers, Sequences, FiniteSets, SequencesExt

CONSTANTS Commit,      \* commits that can be picked
          Own,         \* a change of the user
          None,        \* a file that is not there
          Lists,       \* sequences of commits that may be asked for
          Singles,     \* commits that may be picked alone
          Conflicts,   \* commits that may conflict
          Present,     \* commits whose change HEAD may have from the start
          MayBeDirty,  \* may there be a local change that is not staged?
          KillAt,      \* values of pc at which a command may be killed
          MaxCommands  \* bound: commands and edits of the user

ASSUME SequencerAssumption ==
  /\ Lists \subseteq Seq(Commit) /\ \A l \in Lists : l # <<>> /\ IsInjective(l)
  /\ Singles \subseteq Commit /\ Conflicts \subseteq Commit /\ Present \subseteq Commit
  /\ Own \notin Commit /\ None \notin Commit /\ None \notin Seq(Commit)
  /\ MaxCommands \in Nat

Change == Commit \cup {Own}

VARIABLES base,     \* the changes in HEAD before all this
          head,     \* what the commits since change
          index,    \* the tree that the index stands for; are there unmerged entries?
          work,     \* the tree that the work tree stands for; is there a local change besides?
          cph,      \* CHERRY_PICK_HEAD
          seq,      \* .git/sequencer: does it exist, its head and todo, a stale lock in it
          pc, mode, \* where the running command is, and which it is
          mem,      \* its todo_list
          commands, \* how many the user may still give
          start,    \* HEAD when the sequence was started
          want,     \* the list it was started with
          given,    \* changes that the user gave up
          unmerged, \* commits whose merge the sequence did not begin
          ended,    \* did the last pick of the sequence return?
          kept,     \* did the user make a local change, and not put it away?
          torn      \* was a command killed that had written the file and not yet the index?

local == <<work, kept, torn>>
repo == <<base, head, index, local, cph, seq>>
told == <<start, want, given, unmerged, ended>>
vars == <<repo, pc, mode, mem, commands, told>>

\* The tree of a history.
Tree(h) == base \cup UNION Range(h)

NoSeq == [dir |-> FALSE, head |-> None, todo |-> None, lock |-> FALSE]
Clean(h) == [tree |-> Tree(h), conflict |-> FALSE]

\* index_differs_from("HEAD")
IndexDiffers == index # Clean(head)

\* The file as it is in the tree t
File(t) == [tree |-> t, edit |-> FALSE]

\* verify_uptodate() fails for the file.
Dirty == ~index.conflict /\ work # File(index.tree)

TypeOK ==
  /\ base \subseteq Commit
  /\ head \in Seq(SUBSET Change)
  /\ index \in [tree : SUBSET Change, conflict : BOOLEAN]
  /\ work \in [tree : SUBSET Change, edit : BOOLEAN]
  /\ cph \in Commit \cup {None}
  /\ seq \in [dir : BOOLEAN, head : Seq(SUBSET Change) \cup {None},
              todo : (Seq(Commit) \ {<<>>}) \cup {None}, lock : BOOLEAN]
  /\ ~seq.dir => seq = NoSeq
  /\ pc \in {"idle", "save_head", "save_todo", "pick", "cherry_pick_head", "git_commit",
             "unlink", "reset", "reset_head", "branch_state", "remove"}
  /\ mode \in {"none", "pick", "single", "commit", "abort", "reset", "quit"}
  /\ mem \in Seq(Commit)
  /\ commands \in 0..MaxCommands
  /\ start \in Seq(SUBSET Change) /\ want \in Seq(Commit)
  /\ given \subseteq Change /\ unmerged \subseteq Commit /\ ended \in BOOLEAN
  /\ kept \in BOOLEAN /\ torn \in BOOLEAN

Init ==
  /\ base \in SUBSET Present
  /\ head = <<>>
  /\ index = Clean(<<>>)
  /\ work = File(base)
  /\ cph = None
  /\ seq = NoSeq
  /\ pc = "idle" /\ mode = "none" /\ mem = <<>>
  /\ commands = MaxCommands
  /\ start = <<>> /\ want = <<>> /\ given = {} /\ unmerged = {} /\ ended = FALSE
  /\ kept = FALSE /\ torn = FALSE

\* The user gives a command, which begins at `at` with the list l.
Command(m, at, l) ==
  /\ pc = "idle" /\ commands > 0
  /\ commands' = commands - 1
  /\ mode' = m /\ pc' = at /\ mem' = l

Goto(at) == pc' = at /\ UNCHANGED <<mode, mem, commands>>

Exit == pc' = "idle" /\ mode' = "none" /\ mem' = <<>> /\ UNCHANGED commands

\* The item is done: on with the rest of the list, and at its end remove_sequencer_state().
NextItem(l) ==
  /\ mem' = Tail(l)
  /\ pc' = IF Tail(l) = <<>> THEN "remove" ELSE "save_todo"
  /\ ended' = (Tail(l) = <<>>)

----------------------------------------------------------------------------
\* sequencer_pick_revisions() with several commits, create_seq_dir()
Begin(l) ==
  /\ ~seq.dir
  /\ Command("pick", "save_head", l)
  /\ seq' = [seq EXCEPT !.dir = TRUE]
  /\ start' = head /\ want' = l /\ given' = {} /\ unmerged' = {} /\ ended' = FALSE
  /\ UNCHANGED <<base, head, index, local, cph>>

save_head ==
  /\ pc = "save_head"
  /\ seq' = [seq EXCEPT !.head = head]
  /\ Goto("save_todo")
  /\ UNCHANGED <<base, head, index, local, cph, told>>

\* In pick_commits(), before each pick.  It dies if there is a lock.
save_todo ==
  /\ pc = "save_todo"
  /\ IF seq.lock
     THEN Exit /\ UNCHANGED seq
     ELSE Goto("pick") /\ seq' = [seq EXCEPT !.todo = mem]
  /\ UNCHANGED <<base, head, index, local, cph, told>>

\* A single commit is picked without touching the sequencer state.
PickSingle(c) ==
  /\ Command("single", "pick", <<c>>)
  /\ UNCHANGED <<repo, told>>

\* do_pick_commit(): the index must be that of HEAD; the merge does not start if it would
\* overwrite a local change.
MergeRefused(c) == IndexDiffers \/ (Dirty /\ c \notin Tree(head))

\* do_recursive_merge()
merge ==
  LET c == Head(mem)
  IN  /\ pc = "pick"
      /\ \/ /\ MergeRefused(c)
            /\ Exit
            /\ unmerged' = IF mode = "pick" THEN unmerged \cup {c} ELSE unmerged
            /\ UNCHANGED <<index, local>>
         \/ /\ ~MergeRefused(c)
            /\ Goto("cherry_pick_head")
            /\ unmerged' = IF mode = "pick" THEN unmerged \ {c} ELSE unmerged
            /\ \E conflict \in {FALSE} \cup {c \in Conflicts \ Tree(head)} :
                 index' = [tree |-> Tree(head) \cup {c}, conflict |-> conflict]
            /\ work' = IF c \in Tree(head) THEN work ELSE File(Tree(head) \cup {c})
            /\ UNCHANGED <<kept, torn>>
      /\ UNCHANGED <<base, head, cph, seq, start, want, given, ended>>

\* write_cherry_pick_head(); then it stops at a conflict, and passes over a commit whose
\* change HEAD has already.
write_cherry_pick_head ==
  /\ pc = "cherry_pick_head"
  /\ cph' = Head(mem)
  /\ \/ index.conflict /\ Exit /\ UNCHANGED ended
     \/ /\ ~index.conflict /\ IndexDiffers
        /\ Goto("git_commit") /\ UNCHANGED ended
     \/ /\ ~IndexDiffers
        /\ IF mode = "single" THEN Exit /\ UNCHANGED ended
           ELSE NextItem(mem) /\ UNCHANGED <<mode, commands>>
  /\ UNCHANGED <<base, head, index, local, seq, start, want, given, unmerged>>

\* Faulty variant: --continue goes on though the commit failed.
git_commit_any ==
  /\ pc = "git_commit"
  /\ \/ /\ UNCHANGED head
        /\ IF mode = "pick" THEN Goto("unlink") ELSE Exit
     \/ /\ ~index.conflict /\ IndexDiffers
        /\ head' = Append(head, index.tree \ Tree(head))
        /\ Goto("unlink")
  /\ UNCHANGED <<base, index, local, cph, seq, told>>

\* cmd_commit(), run by run_git_commit(), continue_single_pick() or the user: up to the update of
\* HEAD.  It refuses if nothing changed or something is unmerged, and may fail (a hook).
git_commit ==
  /\ pc = "git_commit"
  /\ \/ Exit /\ UNCHANGED head
     \/ /\ ~index.conflict /\ IndexDiffers
        /\ head' = Append(head, index.tree \ Tree(head))
        /\ Goto("unlink")
  /\ UNCHANGED <<base, index, local, cph, seq, told>>

\* The end of cmd_commit(): unlink(CHERRY_PICK_HEAD).
unlink_cherry_pick_head ==
  /\ pc = "unlink"
  /\ cph' = None
  /\ IF mode = "pick" THEN NextItem(mem) /\ UNCHANGED <<mode, commands>>
     ELSE Exit /\ UNCHANGED ended
  /\ UNCHANGED <<base, head, index, local, seq, start, want, given, unmerged>>

\* remove_sequencer_state(): the directory is removed file by file, in any order.
remove_sequencer_state ==
  /\ pc = "remove"
  /\ \/ \E f \in {"head", "todo"} : /\ seq[f] # None
                                    /\ seq' = [seq EXCEPT ![f] = None]
                                    /\ Goto("remove")
     \/ /\ seq.head = None /\ seq.todo = None
        /\ seq' = NoSeq
        /\ Exit
  /\ UNCHANGED <<base, head, index, local, cph, told>>

----------------------------------------------------------------------------
\* sequencer_continue(): what was stopped is committed, or the user has done it already.
Continue ==
  /\ seq.todo # None
  /\ \/ /\ cph # None
        /\ Command("pick", "git_commit", seq.todo)
        /\ UNCHANGED ended
     \/ /\ cph = None /\ ~IndexDiffers
        /\ pc = "idle" /\ commands > 0 /\ commands' = commands - 1
        /\ mode' = "pick"
        /\ NextItem(seq.todo)
  /\ UNCHANGED <<repo, start, want, given, unmerged>>

\* `git commit` by the user, or --continue without a sequence (continue_single_pick()).
Commits ==
  /\ Command("commit", "git_commit", <<>>)
  /\ UNCHANGED <<repo, told>>

\* sequencer_rollback(), or rollback_single_pick(): `git reset --merge` to the saved HEAD, or
\* to HEAD.
Abort ==
  /\ seq.head # None \/ cph # None
  /\ Command(IF seq.head # None THEN "abort" ELSE "reset", "reset", <<>>)
  /\ UNCHANGED <<repo, told>>

\* `git reset --merge` by the user: what was stopped is given up.
Reset ==
  /\ Command("reset", "reset", <<>>)
  /\ UNCHANGED <<repo, told>>

\* Faulty variant: --abort goes back to HEAD, like that of a single pick.
TargetHead == head

\* The commit to go back to.
Target == IF mode = "abort" THEN seq.head ELSE head

\* cmd_reset() --merge: the file and the index, unless a local change is in the way; what is
\* the same in the index and in the commit is left alone, and what is unmerged is overwritten.
\* Then HEAD; then remove_branch_state().
ResetRefused == Dirty /\ index.tree # Tree(Target)
ResetWrites == index.conflict \/ index.tree # Tree(Target)

reset_index ==
  /\ pc = "reset"
  /\ \/ /\ ResetRefused
        /\ Exit
        /\ UNCHANGED <<index, local, given>>
     \/ /\ ~ResetRefused
        /\ Goto("reset_head")
        /\ index' = Clean(Target)
        /\ \/ ResetWrites /\ work' = File(Tree(Target)) /\ torn' = FALSE /\ UNCHANGED kept
           \/ ~ResetWrites /\ UNCHANGED local
        /\ given' = IF mode = "abort" THEN Change
                    ELSE given \cup (index.tree \ Tree(head)) \cup ({cph} \ {None})
  /\ UNCHANGED <<base, head, cph, seq, start, want, unmerged, ended>>

reset_head ==
  /\ pc = "reset_head"
  /\ head' = Target
  /\ Goto("branch_state")
  /\ UNCHANGED <<base, index, local, cph, seq, told>>

remove_branch_state ==
  /\ pc = "branch_state"
  /\ cph' = None
  /\ IF mode = "abort" THEN Goto("remove") ELSE Exit
  /\ UNCHANGED <<base, head, index, local, seq, told>>

Quit ==
  /\ Command("quit", "remove", <<>>)
  /\ given' = Change
  /\ UNCHANGED <<repo, start, want, unmerged, ended>>

\* The user resolves a conflict with `git add`: takes the change, or drops it.
Resolve ==
  /\ pc = "idle" /\ index.conflict
  /\ \/ index' = [index EXCEPT !.conflict = FALSE] /\ UNCHANGED given
     \/ /\ index' = Clean(head)
        /\ given' = given \cup (index.tree \ Tree(head))
  /\ work' = File(index'.tree) /\ torn' = FALSE
  /\ UNCHANGED <<base, head, cph, seq, pc, mode, mem, commands, start, want, unmerged, ended, kept>>

\* The user stages a change of their own, and not the local one (`git add -p`).
Stage ==
  /\ pc = "idle" /\ commands > 0 /\ ~index.conflict /\ Own \notin index.tree
  /\ work.tree = index.tree
  /\ commands' = commands - 1
  /\ index' = [index EXCEPT !.tree = @ \cup {Own}]
  /\ work' = [work EXCEPT !.tree = @ \cup {Own}]
  /\ UNCHANGED <<base, head, cph, seq, pc, mode, mem, kept, torn, told>>

\* The user edits the file, or puts away with `git checkout` what is not staged.
Edit ==
  /\ MayBeDirty /\ pc = "idle" /\ commands > 0 /\ ~index.conflict
  /\ commands' = commands - 1
  /\ \/ ~Dirty /\ work' = [work EXCEPT !.edit = TRUE] /\ kept' = TRUE /\ UNCHANGED torn
     \/ Dirty /\ work' = File(index.tree) /\ kept' = FALSE /\ torn' = FALSE
  /\ UNCHANGED <<base, head, index, cph, seq, pc, mode, mem, told>>

\* The command is killed.  While it saves the todo it may leave the lock (index.lock the user
\* removes); a merge and a reset write the file before the index.
Kill ==
  /\ pc \in KillAt
  /\ pc' = "idle" /\ mode' = "none" /\ mem' = <<>>
  /\ \/ UNCHANGED <<seq, local>>
     \/ pc = "save_todo" /\ seq' = [seq EXCEPT !.lock = TRUE] /\ UNCHANGED local
     \/ /\ \/ /\ pc = "pick" /\ ~MergeRefused(Head(mem)) /\ Head(mem) \notin Tree(head)
              /\ work' = File(Tree(head) \cup {Head(mem)})
           \/ /\ pc = "reset" /\ ~ResetRefused /\ ResetWrites
              /\ work' = File(Tree(Target))
        /\ torn' = TRUE
        /\ UNCHANGED <<seq, kept>>
  /\ unmerged' = IF pc = "pick" /\ mode = "pick" THEN unmerged \cup {Head(mem)} ELSE unmerged
  /\ UNCHANGED <<base, head, index, cph, commands, start, want, given, ended>>

Next ==
  \/ \E l \in Lists : Begin(l)
  \/ \E c \in Singles : PickSingle(c)
  \/ Continue \/ Abort \/ Quit \/ Commits \/ Reset \/ Resolve \/ Stage \/ Edit
  \/ save_head \/ save_todo \/ merge \/ write_cherry_pick_head \/ git_commit
  \/ unlink_cherry_pick_head \/ remove_sequencer_state
  \/ reset_index \/ reset_head \/ remove_branch_state
  \/ Kill

Spec == Init /\ [][Next]_vars

----------------------------------------------------------------------------
\* The place of a commit in the list.
Place(c) == CHOOSE i \in DOMAIN want : want[i] = c

\* The commits of the list that are no longer to be picked: those before the first item of the
\* saved todo, or all, when the sequence has come to its end.
Passed == {c \in Range(want) : \/ ended
                               \/ seq.todo # None /\ Place(c) < Place(Head(seq.todo))}

\* What the sequence has passed is in HEAD, unless the user gave it up or its merge never began
\* (pick_commits(), sequencer_continue(), sequencer.c:864, 900): a sequence that was stopped or
\* killed and then continued, with whatever the user did in between, forgets nothing else.
NothingSkipped == Passed \subseteq Tree(head) \cup given \cup unmerged

\* As the documentation has it, --continue goes on with the operation: what it has passed is in
\* HEAD, unless the user gave it up.
NothingForgotten == Passed \subseteq Tree(head) \cup given

\* When --abort has done its work, before the directory goes (sequencer_rollback(),
\* sequencer.c:770), however the sequence was stopped: HEAD is what it was before the sequence,
\* the index and the file are those of HEAD, no pick is open, and a change that the user made to
\* the file and did not stage is still there.  The file may differ if a command was killed
\* between the file and the index.  What was staged before the sequence is not restored.
AbortRestores ==
  mode = "abort" /\ pc = "remove" =>
    /\ head = start
    /\ ~IndexDiffers
    /\ cph = None
    /\ torn \/ work = [tree |-> Tree(start), edit |-> kept]

\* As the documentation has it, --abort returns to the state before the sequence, of which what
\* was staged is a part: it stays staged.
AbortKeepsStaged ==
  [][mode = "abort" /\ pc = "reset" /\ Own \in index.tree => Own \in index'.tree]_vars
=============================================================================
