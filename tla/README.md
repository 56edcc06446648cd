# TLA+ verification of git (submodule-enhancements branch)

This directory holds TLA+ models of the parts of git in which several actors
meet: processes that share a repository, and threads that share a queue; and of
two algorithms on which all merging rests: the search for merge bases, and the step
from one tree to another in index and work tree. The models are translated from the C sources; `PROJECT.json` names, for each
definition, the lines it stands for.

Contents: [The system](#the-system) ·
[What is hard](#what-is-hard) ·
[Modules](#modules) ·
[Runs](#runs-bounds-and-what-they-show) ·
[Fairness](#fairness) ·
[Theorems](#theorems) ·
[Divergences found](#divergences-between-code-and-documentation) ·
[Not modelled](#what-is-only-model-checked-and-what-is-not-modelled) ·
[Plan](#plan)

To run everything by hand:

    tlc -workers 2 -config MCRefsUpdate.cfg MCRefs     # any row of the run table
    tlapm RefsProofs.tla                               # and the other ...Proofs modules

## The system

Git is a family of short-lived processes. They do not talk to each other; they
meet in the files of a repository, where the only synchronisation is
`open(O_CREAT | O_EXCL)` of `X.lock` and `rename()`. A few commands also start
threads.

| Component | Source | State | Operations | Interacts with |
|---|---|---|---|---|
| lock files | `lockfile.c`, `lockfile`'s users | `X.lock` on disk; in each process a list of `struct lock_file` with `filename`, `owner` | `lock_file`, `commit_lock_file`, `rollback_lock_file`, `remove_lock_file` from exit and signals | refs, index, config, shallow file; `fork` copies the list |
| refs | `refs.c`, `builtin/pack-refs.c`, `pack-refs.c` | loose files, `packed-refs`, `logs/`; per process a copy of `packed-refs` and of loose directories | resolve, `for_each_ref`, `lock_ref_sha1`/`verify_lock`/`write_ref_sha1`, `delete_ref`, `rename_ref`, `pack_refs`/`prune_refs` | lock files; every command that moves a branch |
| threaded grep | `builtin/grep.c` | ring of 128 work items, three positions, mutex, three condition variables | `add_work`, `get_work`, `work_done`, `wait_all` | the object store, under its own mutex |
| delta search of pack-objects | `builtin/pack-objects.c` | per thread `list`, `list_size`, `remaining`, `working`, `data_ready`; per call the window | `ll_find_deltas`, `threaded_find_deltas`, `find_deltas`, `try_delta` | object store |
| object store | `sha1_file.c`, `builtin/prune.c`, `builtin/prune-packed.c`, `builtin/gc.c`, `git-repack.sh` | loose object files with an mtime, packs, per process the list of packs | write, read, has, repack, prune | refs (what is reachable) |
| threaded delta resolution | `builtin/index-pack.c` | array of objects, shared counter of the next base, per thread cache | `threaded_second_pass`, `resolve_delta` | object store |
| index | `read-cache.c`, `preload-index.c`, `unpack-trees.c`, `entry.c` | entries with stat data and `CE_UPTODATE`, time of the index file, `cache_changed` | preload, refresh, `add_to_index`, one-way merge and checkout, `write_index`, `update_index_if_able` | lock files, working tree |
| push receiver | `builtin/receive-pack.c` | commands, refs, hooks | `execute_commands`, `update` | refs, object store |
| fetch negotiation | `builtin/fetch-pack.c`, `upload-pack.c` | client: `rev_list`, flags per commit, `non_common_revs`, flush counters, `req_buf`; server: `have_obj`, `oldest_have`, `THEY_HAVE` | `find_common`, `get_common_commits` | refs of both sides |
| merge bases | `commit.c`, `revision.c` | list ordered by date, flags per commit | `merge_bases_many`, `get_merge_bases_many`, `clear_commit_marks`; `limit_list` | object store |
| sequencer | `sequencer.c`, `builtin/commit.c`, `builtin/reset.c`, `branch.c` | `.git/sequencer/{head,todo}`, `CHERRY_PICK_HEAD`, HEAD, index, local changes | pick, continue, abort, quit; commit, reset | refs, index, lock files |
| tree merge | `unpack-trees.c`, `entry.c`; `builtin/{checkout,reset,read-tree}.c` | source and result index, flags per entry; work tree, HEAD | one-, two-, three-way merge, `check_updates`, `checkout_entry` | index, refs, working tree |
| child processes | `run-command.c` | pids, pipes, async threads or processes | `start_command`, `finish_command`, `start_async` | lock files (inherited list) |
| daemons | `daemon.c`, `credential-cache--daemon.c` | children / cached entries with expiry | accept, kill, reap / store, get, erase, expire | |
| submodules | `submodule.c`, `git-submodule.sh` | superproject entries, `.gitmodules`, repositories below | fetch on demand, update, status | refs, child processes |
| others | see `PROJECT.json` | | diff, config, notes, rerere, fast-import, transports, porcelain scripts, formats | |

What makes each correct, in one sentence: a lock excludes and is cleaned up; a
ref is an atomic register whose value survives changes of representation; a grep
with threads prints what one without prints; every object's delta is looked for
once; an object that is in use is never pruned; every
delta is resolved once; a changed file is never taken for an unchanged one; what
a push reports is what happened; fetch negotiation ends and sends what is
missing; a merge base is a best common ancestor; a change of trees loses no local change
and no change of either side; an interrupted sequence can be
continued or undone.

## What is hard

`PROJECT.json` lists the hazards at their lines. They are of these kinds.

* **Stale copies.** `get_packed_refs()` (refs.c:821) reads `packed-refs` once per
  process. Everything decided from the copy later, including what is read *under
  a lock* by `verify_lock()`, may be out of date.
* **Two places for one value.** A loose file hides a line of `packed-refs`;
  packing, pruning and deletion move a ref between them in two steps under two
  locks, while readers look at them in an order of their own.
* **Values read before a lock and used after it**: `lock->old_sha1`,
  `REF_ISPACKED`, the copy from which `repack_without_ref()` rewrites the file.
* **Cleanup in handlers.** `remove_lock_file()` runs at exit and in signal
  handlers, in the middle of anything, and in forked children with a list that
  they inherited.
* **Kills and partial failure.** The log is written and the commit fails; the
  loose file is gone and `packed-refs` cannot be locked; a lock stays behind.
* **Coarse time.** `lstat()` cannot tell two contents of one size in one tick; the
  index must know from times alone which of its entries it cannot trust.
* **A protocol without sequence numbers.** The fetching client runs a window ahead
  of the answers and counts; over HTTP each window meets a server that has forgotten
  the last.
* **Sequences that people interrupt.** A list of picks stops for conflicts and kills,
  and is continued or undone after the user did other things.
* **A plan that is made before anything is changed.** A merge of trees decides on all
  paths from index and work tree and then changes files one by one, the index last. A name
  that is a file on one side and a directory on another makes paths depend on each other.
* **Threads.** Work that is stolen from a thread that reads its own counters
  without the lock; wakeups that arrive before the wait; rings that are full.

## Modules

| Module | Lines of code it stands for | What it is |
|---|---|---|
| `AbsLock` | | abstract: critical sections per file, no lost update |
| `LockFile` | `lockfile.c` | the lock-file API, with exits, signals, kills and forks |
| `LockFileProofs` | | theorems about `LockFile` |
| `AtomicRefs` | | abstract: an array of registers with compare-and-swap |
| `Refs` | `refs.c`, `pack-refs.c` | lookup, listing, update, deletion, packing, pruning |
| `RefsProofs` | | theorems about `Refs` |
| `GrepQueue` | `builtin/grep.c` | the ring, its producer and its consumers |
| `PackThreads` | `builtin/pack-objects.c`, `ll_find_deltas` | splitting and stealing segments |
| `ObjectStore` | `sha1_file.c`, `git-repack.sh`, `builtin/prune*.c`, parts of `gc`, `pack-objects`, `index-pack`, `receive-pack` | objects on disk and who writes, reads, packs and prunes them |
| `ObjectStoreProofs` | | theorems about `ObjectStore` |
| `RacyIndex` | `read-cache.c`, `preload-index.c`, parts of `unpack-trees.c`, `entry.c` | which files the index takes for unchanged |
| `RacyIndexProofs` | | theorems about `RacyIndex` |
| `Sequencer` | `sequencer.c`, parts of `commit`, `reset`, `branch.c` | cherry-pick stopped, continued, undone |
| `SequencerProofs` | | theorems about `Sequencer` |
| `FetchNegotiation` | `builtin/fetch-pack.c`, `upload-pack.c` | the have/ACK rounds up to the pack |
| `QueueProofs` | | theorems about `GrepQueue`, `PackThreads` and `FetchNegotiation` |
| `IndexPack` | `builtin/index-pack.c` | threads that resolve deltas, and thin packs |
| `IndexPackProofs` | | theorems about `IndexPack` |
| `MergeBase` | `commit.c` | best common ancestors by painting and by comparing pairs |
| `MergeBaseProofs` | | theorems about `MergeBase` |
| `TreeMerge` | `unpack-trees.c`, `entry.c`, parts of `read-cache.c`, `checkout`, `reset`, `read-tree` | merges of trees into index and work tree |
| `MC...` | | instances for TLC |

The definitions marked "Faulty variant" in a module are what the code would be
with a plausible bug; no specification uses them. They serve to show that each
property notices such a bug. `TypeOK` of each module gives the types of its variables;
those of `Refs`, `RacyIndex`, `MergeBase` and `ObjectStore` are theorems. No run lists `TypeOK`; to check it on
an instance, name it in the `.cfg`.

### LockFile

One process is one value of `pc`. `"run"` is the caller's code, `"dying"` its
`die()` after a failed call; the others are points inside the API between two
effects that somebody else can see: `"open"` (the name is stored, the file not
yet created), `"refused"` (`EEXIST`, the name not yet forgotten), `"register"`
(the file exists, the struct is not on the list), `"renamed"` / `"unlinked"` (the
file is gone, the name not yet cleared). `holds[p]` is not a variable of the
code: it is what the caller was told. `version`/`base` number the contents of a
file by the updates they contain, so that a lost update shows.

`Signals` says where a signal may arrive and `PermFails` what a caller does when
`adjust_shared_perm()` fails after the file was created: `LOCK_DIE_ON_ERROR` and
most callers die; `repack_without_ref()` (refs.c:1719) returns an error and runs
on. Which of these choices break which property was established with TLC:

| `Signals` also contains | `HolderOwnsLock` | `NoCruft` |
|---|---|---|
| `register` | holds | fails |
| `open`, `refused`, `renamed` or `unlinked` (each alone) | fails | |
| `PermFails = {"run"}` | holds | fails |

`HolderOwnsLock` fails in each of the four windows because a struct that is used
a second time is already on the list, with its owner set, while its name is
stored before the file is created or stays after the file is gone.

`AbsLock` is what callers rely on. Under the mapping `inside <- holds` every step
of `LockFile` is a step of it or a stutter; `Replace` increments `version`, so
the refinement also says that each commit was built on the content that was
current (the value that `p` read *after* it locked).

### Refs

Each process runs one command: a sequence of updates, deletions and lookups (they
share a cache: a fetch), a listing, or `pack-refs`. `act[p]` says which function
is at work (`prune` and `scan` are parts of `pack-refs`), `ref[p]` on which ref,
`pc[p]` at which system call. A lookup is two steps (`lstat`, then `open` or the
packed copy); an update is resolve, lock, verify, write, log, commit; a deletion
is resolve, lock, verify, unlink, then the copy of `packed-refs`, its lock and its
commit, then unlog; packing is lock, load, one
lookup per ref, commit, then for each prunable ref lock, verify, unlink. `Faults`
says what may fail: the write, the log, the commit, the removal of a loose file, or the
process as a whole (`kill`, which leaves its locks to be removed by hand). A deletion goes on
after most of its failures and remembers them in `ret`; a `packed-refs.lock` that it could not
commit stays until the process ends.

`Kept` and `Prunable` are `handle_one_ref()`'s rules: refs that are not tags and
were loose stay out without `--all`.

`AtomicRefs` is what updates promise, under the mapping
`value[r] <- RefValue(r)`, the value that a lookup finds when nothing moves.

`MCRefs` gives the processes parts to play. A *cast* is a choice of what each
process may be asked to do and how often; a run has several casts, and the
behaviours of a run are those of its casts. In "update" two processes update and one packs
without pruning; in "read", "pack" and "delete" one looks up and lists, one moves refs forward, or one
deletes after it has looked up another ref, each beside two that update, pack, prune and delete.
Three history variables say what the properties must exempt. `been[p][r]` collects what a ref has
been while `p` looked it up. `gone[p]` are the refs whose loose file or packed line others took away
since the operation of `p` began. `behind[p]` are those of which the copy of `packed-refs` that `p`
has no longer tells the truth: their loose file went, or the line changed while it was all there was,
since `p` read the file. What the properties say of all other refs holds however old that copy is; what happens
to these is under [divergences](#divergences-between-code-and-documentation).

### GrepQueue

A step is one critical section under `grep_mutex`, up to its end or to
`pthread_cond_wait()`; the search itself is outside. A condition variable is the
set of threads that wait for it; a signal takes one of them out, any of them, and
`SpuriousWakeUp` lets any thread return unasked. What a file's search writes into its
item is the file's number, if it matches. `output` is what has been written, one result per
file, so that the end of one and the beginning of the next can be told apart.

### PackThreads

`Bound` is the initial split (pack-objects.c:1830 ff.), one `SegmentEnd` after the other: equal
shares of what is left, none if it would be under two windows, extended to the end of a path. A step of a
thread is `remaining`/`list` read at the start of a segment (without a lock, as in
the code), one iteration of `find_deltas()` under `progress_mutex`, its report,
or its wait for `data_ready`. `Look`, `Give` and `Join` are the loop of
`ll_find_deltas()`. `taken` is a history variable: the objects that a thread has
looked at.

### ObjectStore

An object has a loose file with a time, or is in packs, or both. A pack is the set
of its objects: that is what its name is made from (pack-objects hashes the sorted
object names). Four kinds of process meet: a *writer* (`write_sha1_file()` for some
objects, then a ref or the index is updated), a *pusher* (`receive-pack` with
`index-pack --keep`), a *reader* (`read_object()`), and *gc*, which is
`git repack` in one of its modes, `git prune-packed` and, but for `-a`, `git prune`.
Each of these commands is a process of its own with its own list of packs
(`listed`), which of them it has open (`opened`; a file that is open stays
readable after it was unlinked) and which had a `.keep` file when they were listed
(`kept`). One traversal from the refs is one step, each file that is created,
renamed or removed is one. gc may be killed anywhere and started again.

`born` is a history variable: when an object was last written or received.
`Tick` carries the assumption that makes `--expire` meaningful at all: a command
that brings objects in finishes before the oldest of them is due. Objects stand
for commits and trees: a traversal dies of one that is missing.

### RacyIndex

`work[f]` is what `lstat()` tells of a file (content stands for size and, when the
file is read, for itself), `disk` the index file with its mtime, `mem[p]` the index
in a command, with `istate->timestamp` and `CE_UPTODATE`. An entry of size 0 that is
not the empty blob is one that was smudged; one from a tree has time 0 as well. A
command of `Proc` takes `index.lock` before it reads (`git add`, `git read-tree -m`),
one of `Viewer` reads first and locks only to write, and not at all if somebody else
has the lock or has nothing to write (`git status`, `git describe --dirty`).
`Preload`, `Refresh`, `Add` and `Merge` do one file each; `WriteIndex` smudges, `Flush`
gives the new index its mtime, `Commit` renames it. `looked` and `raced` are history
variables: the mtime that a command saw last, and whether the file was edited since.

`Edit` carries one assumption, without which the code cannot be right: nobody edits a
file *after* a running command looked at it, *in the same tick* in which it had been
changed before, see [below](#divergences-between-code-and-documentation).

### Sequencer

A commit is the change that it makes, a tree the set of changes made so far; a
conflict or a redundant commit is a choice of `Conflicts` and of `Present`. `pc` is
the write that comes next: head, todo, the merge with the index, `CHERRY_PICK_HEAD`,
the commit, the removal of `CHERRY_PICK_HEAD` and of the directory; `reset` and its
parts for `--abort`. `Kill` ends the command there. All changes are changes of one file: `work` is the
tree whose file is in the work tree, and whether there is a local change besides. A merge or a reset
that would overwrite what is not in the index is refused (`MergeRefused`, `ResetRefused`); a file
that is unmerged a reset overwrites (`ResetWrites`). Both write the file before the index, and a kill may come
between the two (`torn`). `kept` says whether the user has a local change that was
never put away. Between two commands the user may
stage, resolve, commit, reset, edit and stash. `Lists` are the sequences that may be asked for,
`Singles` what may be picked alone; a commit may be in both. `told` are history variables: what was
asked for, where HEAD was, and what the user gave up.

### FetchNegotiation

The client is `find_common()` with `get_rev()` and `mark_common()`, without `--depth`; the
server is `get_common_commits()`. A history is a function
from commits to parents; every pair of sets of tips is an initial state, and so are
the three `multi_ack` modes, `no-done`, and one connection or one request per flush.
Pipes are sequences of lines; a step is what one side does between two reads.
`Walk` is the closure of the parents, written with a recursive function.

### IndexPack

`stack[t]` is the chain of `struct base_data` of a thread, from `base_cache` down: `linked` says
whether `base_cache_used` counts it, `todo` which deltas are left (those by name are taken
before those by offset, the first in the pack first); `data[t]` are the positions of the chain whose content
is in memory. A step is one critical
section, or what a thread does between two accesses to what the threads share: the
counter, the type of an object and `deepest_delta`. An object is its place in the pack;
`of` and `times` are history variables. Objects that the third pass appends have a depth
that nobody has set (`Junk`). `dropped_from` says which positions the loop of `prune_base_data()`
drops without going through it: those before which too much is left. What can be resolved
(`Resolvable`) is the least set that has the objects that are there and with each object its
deltas, and not a walk like that of the code.

### MergeBase

`merge_bases_many()` and its caller share one `pc`: "one" and "twos" paint the arguments,
"loop" pops a commit or paints one parent of the commit that was popped (`item`, with the
flags `paint`, and the parents `rest` still to go), "clean" drops stale results, "clear" takes
the marks off again from each argument. "pairs" and "gather" are `get_merge_bases_many()`,
whose own variables are `rslt`, `i` and `j`; while they are in use, the same steps run for two
results (`rslt` is empty otherwise). A history is any function from commits to sequences of
parents in which no commits are each other's ancestors; dates are any numbers. The flags stay
from call to call, as in the code. What ought to be returned, `Best`, is defined with the
ancestors of a commit (`Reach`) and without any of this.

### TreeMerge

There is one name, `Top`, which in a tree, in the index and on disk may be a file or a
directory with the files `Inside`. Independent paths do not meet in this code, so that this is
the smallest instance in which something can go wrong that the tables of git-read-tree do not
show. `Start` is everything from the lock on the index to the end of the decisions:
`unpack_trees(o)` folds `unpack_callback` over the names (the traversal of the trees, with
`AtTop` and `AtPath` for what `unpack_nondirectories()` puts into `src`, directory/file conflicts
included) and then `unpack_index_entry` over what is left of the index. `m.result` is
`o->result` with `CE_UPDATE` and `CE_REMOVE` as `mark`, `m.used` stands for `CE_UNPACKED`, and
`m.ok` becomes false where the code refuses. The merge functions have the names and the
order of cases of the code; `o.fn` is `oneway_merge` with `reset` (`checkout -f`, `reset --hard`),
`twoway_merge` (`checkout`) or `threeway_merge` (`read-tree -m -u`, with or without
`--aggressive`).

`check_updates()` becomes `plan`, one step per change of the disk: the files that go, the
directory if it is empty, and for each file that comes, what is in its way and then the
write; then the index is renamed into place and HEAD moves. `write_index` stands for the ends of
`checkout`, `reset` and `read-tree` alike. A kill may come before each step. A file that
should go may stay: `unlink_entry()` only warns, so that the command does not know (`stuck`), where
an old file that cannot make room for a new one is an error (`OldFileStays`), and a directory that
cannot be removed or made ends the command (`MakeRoomDies`). A file that is already what its entry says is
written again, which changes nothing. A
write may fail or be cut off; where the content is streamed to the file nobody notices (`cut`), and
when the index is written the file that is `Torn` may become `Passed`: the same bytes, but
the index has its stat data, so that it counts as unchanged until another index entry is made. A program
is two commands on the same trees: the second meets what the first has left. `was` is a history variable: HEAD, index and work tree when the command began.

Whether a file is what its entry says (`Fresh`) is exact here; how git finds that out from
`lstat()` is `RacyIndex`. The module was compared with the program itself: 17000 final states of
first and second commands that succeeded or were refused, drawn at random from TLC's, were set up in real repositories, and git
built from these sources gave the same exit, index, work tree and HEAD in each of them.

## Runs, bounds and what they show

| Run | States | Shows |
|---|---|---|
| `MCLockFile` | two paths, three processes (one made by `fork`), three uses of a lock | mutual exclusion, no cruft, refinement of `AbsLock` |
| `MCRefsUpdate` | cast `update`; all faults of an update | registers with compare-and-swap, honest logs |
| `MCRefsMove` | casts `read`, `pack`, `delete`; failures to write, commit and unlink, kills | lookups see what was, packing keeps values, a deletion is complete and touches no other ref, but for refs that others moved behind the copy of `packed-refs`; every operation returns |
| `MCGrepQueue` | seven files, ring of four, three threads | ordered output, no lost wakeup |
| `MCPackThreads` | 22 objects, three threads, window 2 | each object once, no thread idles with work left, all joined |
| `MCObjectStore` | five objects; a reader beside one gc, a writer or a push beside one that is run twice, in all modes | nothing that is used or young is removed, readers find what is repacked under them |
| `MCRacyIndex` | one file, three ticks, a locking and a viewing command with two runs each, two contents of one size and the empty one | no changed file passes for clean, refresh is exact, merges keep local changes |
| `MCSequencer` | three commits in a row, one of them or another alone, five commands, kills at every write | no commit is skipped; `--abort` restores HEAD, index and file, and keeps what was not staged |
| `MCFetchNegotiation` | seven commits, sixteen histories, all pairs of sets of two tips, all modes | both sides reach the pack and read the same lines; nothing common is sent twice, and the server keeps what it acknowledged |
| `MCIndexPack` | every pack of four objects, four of six; three threads; two bases in the repository | exactly what can be resolved is accepted, each delta once; cache and array are kept right |
| `MCMergeBase` | all histories of four commits with all orders of dates, equal ones too, four of six commits with five; five calls in any order | best common ancestors are returned, no flag stays |
| `MCTreeMerge` | a name that is a file or a directory of two; six trees, eight indexes, nine work trees, three sets of ignored paths; `checkout` twice or before `reset --hard`, merges before `reset --hard` or `checkout -f`; failures to remove, to write, kills | local changes stay, files follow the index, the two-way table, the three-way rule, exact resets |

Why these bounds are enough for the interesting cases:

* *Locks.* Three processes are needed for the worst interleaving known (one
  whose handler unlinks, one whose lock it is, one that enters); three uses let
  one process use a struct again while others hold. Two paths let a process hold
  one lock and ask for another.
* *Refs.* Two refs, as a deletion can damage another ref only if there is one;
  three values, so that a ref can go away from a value and come back; three
  processes: two that race and one that packs. One of the updaters does two
  operations, so that a cache is used that another process made stale. In
  `MCRefsMove` no updater returns to an old value: `prune_ref()` relies on that, see
  [below](#divergences-between-code-and-documentation). In its cast "delete" one process looks up a ref, so that it has
  a copy of `packed-refs`, then others update, pack, prune or delete, and then it deletes from that
  copy, or the other way round; both orders of deletion and update, pruning, and a lock on `packed-refs`
  that somebody else has, or that was left by a kill, happen. The lookup itself is alone (`InOrder`): lookups beside others are the
  cast "read". Failures are those of the deleting process there, and kills those of a deletion; in "pack" the packer fails, and anybody is killed.
* *Grep.* Seven files go almost twice around a ring that holds three; three
  consumers can finish in any order.
* *Delta threads.* With 22 objects and window 2 the run steals several times,
  from a thread that has not started and from one in the middle; one path is
  longer than a share, so that the cut falls back to the middle.
* *Object store.* Of the five objects one is reachable and packed, one is loose and
  old and may become unreachable at any time, one is garbage in a young pack, one
  is written and one received while gc runs. The grace period is two ticks and the
  clock makes one, which is when the garbage's time is up. A second gc, perhaps
  after a kill, meets packs of the same name, files made loose by the first and
  `old-` files it left. Three processes together (a writer or a push, a reader,
  and gc; a writer, a push and gc) hold as well but take longer than a run should.

* *Index.* One file is enough, because what files share is the time of the index and
  whether there is something to write, and an action that changes only that is part
  of the run (`Merge` with the same content, which sets `cache_changed`; for any number
  of files there is the proof). Three ticks make
  before, same and after; two runs of each command let one write what the other wrote.
* *Sequencer.* Three commits in a row make a first, a middle and a last one; five
  commands suffice for stop, commit by hand, continue, stop, abort.
* *Negotiation.* Seven commits with merges, unrelated roots and forks; the flush
  constants 16, 1024 (the limit of doubling) and 256 are scaled to 1, 2 and 1, so that several
  windows, the doubling's end and giving up in vain happen. Parents are older than
  their children, see [below](#divergences-between-code-and-documentation).
* *Index-pack.* The packs of six objects have chains of three deltas of sizes 1 to 3 with a
  cache of 2, so that bases are dropped and inflated again; the pack of the run whose
  bases are in the repository appends two and meets a delta that was resolved meanwhile.
  No object is there twice, see [below](#divergences-between-code-and-documentation).
* *Merge bases.* Four dates give four commits every order. Four commits are enough for a result that is an ancestor of another, if its
  date is wrong; six make a criss-cross, unrelated roots, and three results to compare. A call
  that follows another in the same history would see flags that were left.
* *Tree merge.* Two files in the directory: both are in trees, and the second may also be in the
  index alone or untracked; three contents, so that both sides of a merge can differ from
  the base and the index from both trees; a fourth, `Local`, is in the work tree only. Bases
  matter to merges only, and ignored files to `git checkout` only (`MCInit`). Two commands, as what
  a third would find is what a second can leave.

Deadlock is checked in `MCMergeBase`, whose caller may always call again, and in `MCTreeMerge`,
where only the end of a program stops, and not in the other
runs (`CHECK_DEADLOCK FALSE`), because the systems modelled may
stop: all processes have exited, or all threads were joined. What a
deadlock check would find is covered by `OpsReturn`, `Negotiated` `GrepTerminates` and the two `Terminates`.

## Fairness

* `Refs`: `WF_vars(Step(p))` for every process: a git command that runs is
  scheduled by the operating system. Nothing makes anybody start a command, kill
  one or remove a stale lock. No strong fairness is needed, as no command waits
  for a lock: that is the content of `OpsReturn`.
* `GrepQueue`, `PackThreads`: weak fairness of each thread. A critical section
  that is entered infinitely often is left every time, so a thread that can take
  the mutex does; the set of threads that contend for it is finite and each has
  a finite number of sections to execute. Spurious wakeups carry no fairness, so
  no property rests on them.
* `FetchNegotiation`: weak fairness of the client and of the server: each is a process
  that blocks only in `read()`, on a reliable stream. Over HTTP a server that was
  started by a request answers it.
* `IndexPack`: weak fairness of each thread and of the one that joins them; the sections
  under `work_mutex` are short and each thread enters finitely many.
* `LockFile`, `ObjectStore`, `RacyIndex`, `Sequencer`, `MergeBase` and `TreeMerge` have only safety
  properties.

## Theorems

TLAPS proves, for any number of processes, threads, files, refs, values and requests, and for all
histories and lists of commits or objects:

| Theorem | Assumes | States |
|---|---|---|
| `LockFileProofs!MutualExclusion` | `HarmlessSignals` | `Spec => []HolderOwnsLock` |
| `LockFileProofs!Refinement` | `HarmlessSignals` | `Spec => Abs!Spec` |
| `LockFileProofs!CruftRemoved` | `Clean` | `Spec => []NoCruft` |
| `RefsProofs!TypesHold` | | `Spec => []TypeOK` |
| `RefsProofs!CasIsAtomic` | `NothingRemoved` | `Spec => CasAtomic` |
| `RefsProofs!RefsAreRegisters` | `NothingRemoved` | `Spec => Atomic!Spec` |
| `RefsProofs!LogIsChain` | `NothingRemoved`, `LoggedUpdatesNameOld` | `Spec => []LogChain` |
| `QueueProofs!GrepWritesInOrder` | | `Spec => []OutputInOrder` |
| `QueueProofs!EveryObjectIsSearchedOnce` | | `Spec => []EachObjectOnce` |
| `QueueProofs!FetchTypes` | | `FetchSpec => []FetchTypeOK` |
| `QueueProofs!ThePackIsNext` | | `FetchSpec => []PackNext` |
| `QueueProofs!AcknowledgedIsKept` | `ClocksRight` | `FetchSpec => []AckedKept` |
| `QueueProofs!NothingIsSentTwice` | `ClocksRight` | `FetchSpec => []NothingTwice` |
| `ObjectStoreProofs!StoreTypes` | | `Spec => []TypeOK` |
| `ObjectStoreProofs!NothingInUseIsLost` | `BringsNew`, `OneGc`, `AllThere` | `Spec => []NothingInUseLost` |
| `ObjectStoreProofs!GraceIsKept` | these and `OneAge` | `Spec => GraceKept` |
| `ObjectStoreProofs!ReadersFindWhatIsThere` | `BringsNew`, `OneGc`, `AllThere`, `ReadersWithOneGc` | `Spec /\ [](old = {}) => []ReadersFind` |
| `RacyIndexProofs!IndexTypes` | | `Spec => []TypeOK` |
| `RacyIndexProofs!NoFalseClean` | | `Spec => []NeverFalselyClean` |
| `RacyIndexProofs!RefreshTellsTheTruth` | | `Spec => []RefreshExact` |
| `RacyIndexProofs!UptodateIsTrue` | | `Spec => []UptodateTrue` |
| `RacyIndexProofs!MergeKeepsEdits` | | `Spec => LocalChangesKept` |
| `IndexPackProofs!DeltasResolvedOnce` | `NamesDistinct` | `Spec => []EachDeltaOnce` |
| `IndexPackProofs!ThirdPassFits` | `NamesDistinct` | `Spec => []RoomToAppend` |
| `IndexPackProofs!OutcomeIsRight` | `NamesDistinct`, `BasesApart` | `Spec => []OutcomeRight` |
| `SequencerProofs!SequenceSkipsNothing` | | `Spec => []NothingSkipped` |
| `SequencerProofs!AbortUndoesTheSequence` | | `Spec => []AbortRestores` |
| `MergeBaseProofs!TypeCorrect` | | `Spec => []TypeOK` |
| `MergeBaseProofs!BestFound` | | `Spec => []BasesRight` |
| `MergeBaseProofs!MarksGone` | | `Spec => []MarksCleared` |

`HarmlessSignals` puts signals in the callers, or between `open()` and the
registration; `Clean` also excludes the latter and wants callers to die when
`adjust_shared_perm()` fails. The table [above](#lockfile) shows that neither can be weakened.
`NothingRemoved` says that no request is a deletion and that `pack-refs` runs with
`--no-prune`; the list of [divergences](#divergences-between-code-and-documentation)
shows what happens otherwise. `LoggedUpdatesNameOld` says that updates of refs that have a log name
the old value: without it `write_ref_sha1()` logs what the ref was before it was locked
(refs.c:1662), and `LogChain` fails. `MCRefsUpdate` meets both. `NamesDistinct` says that no pack has two objects of one name;
with `Packs <- Doubled`, `EachDeltaOnce` fails. `ClocksRight` says that parents are older than their children;
without it `NothingTwice` fails, as the [divergences](#divergences-between-code-and-documentation) say.
It is an `ASSUME` of `MCFetchNegotiation`.

The assumptions about `ObjectStore` say what git leaves to whoever runs it; each is
the other side of a [divergence](#divergences-between-code-and-documentation). `BringsNew`: what is written or
pushed is new or stays reachable, so that no writer writes again an object that is there as garbage, and a pack that is pushed has something new in it; `OneGc`: no two
gcs run together; `AllThere`: the repository is sound at the start; `OneAge`: all copies of an
object that may be dropped are of one age at the start; `ReadersWithOneGc`: beside a reader gc is not
run twice, and nothing is pushed. That `old` stays empty excludes the moment in which a pack is called
`old-`. `MCObjectStore` meets them all; the constant ones are an
`ASSUME` of it. The theorems about `RacyIndex` need no assumption beyond the
one that `Edit` carries.

*LockFile.* `HolderOwnsLock` is not inductive: that an exiting process unlinks
nobody else's lock depends on what its struct remembers. `IInv` adds
`RemovesOwn` (outside the four windows, what the handler of `p` would unlink is
`p`'s), `Registering` (a created file that is not registered is its creator's),
`HoldersAlive`, `UnbornOwnNothing` (no inherited struct names a pid that is still
to be given out, so that a child cannot take a parent's lock for its own) and
`BaseCurrent` (what was read under the lock is still there), which carries the
refinement. `CruftRemoved` needs three more: `OwnKnown` (a lock on disk is known
to a struct of its living creator), `CurNotHeld` and `NameSet`.

*Refs.* `TypesHold` needs one fact that is not about types: a process that is
about to write `packed-refs` has read it (`CacheLoaded`). `CasIsAtomic` rests on
`Inv`: `Activity` (which function is where), `LockHeld` (the steps behind the lock
have it), `LooseStays` (a file that `lstat()` saw is there for `open()`),
`PackedStays` and `CachesStay` (while a ref has no loose file its packed line, and
everybody's copy of the line, is what it was at the start: the code's reason why
a stale copy does not matter), `ScanStays` (the same for what `pack-refs`
collected) and `ValueHeld` (after `verify_lock()` the ref keeps the value that was
verified until its holder commits). A deletion or a prune breaks `PackedStays`,
and that is exactly where the code breaks.
`LogIsChain` adds `LogInv`: `got` is the named value once it has been verified (`GotOld`), a
logged ref is always at one end of its last line (`AtLastLine`), and the line of an update that is
about to commit is the last one (`LineWritten`). A commit that fails after the line was written
leaves the ref at the line's old end, and since the next update names what the ref is,
its line begins there: that is the case `LogChain` allows.

*GrepQueue.* The ring is a window of the sequence of files: `todo_done` is where the output has
come to, `todo_end` where the producer is, and between them some `s`, which is where `todo_start` points
(`Window`). The slot of a file is its number modulo the size of the ring; the window is
shorter than the ring, so that a slot belongs to one file only (the arithmetic is the first group of
lemmas). Each item of the window is of its file and holds nothing or that file's result
(`ItemRight`), a busy consumer works on a file of the window that was taken out and is not done (`WorksOn`), and
no two on one slot (`Apart`): that is why a result is neither lost nor put into another's item,
however late its thread is. `HitRight` and `AdderKnown` carry this to the exit code.
Wakeups play no part: spurious ones and any choice of whom to signal are allowed.

*PackThreads.* `EachObjectOnce` counts; `Partition` says the same without numbers: each object is
with one thread, which has it before it or has looked at it. That stealing keeps it needs to
know how a thread's counters lie (`Inside`: `remaining` is a tail of the segment, and `pos`, the
position in `find_deltas()`, is where it begins) and what a thread that reads them without the lock
may find (`Told`: it starts on a segment that is empty only when `ll_find_deltas()` is about to join it, and
an idle one has nothing left). `MainKnown` is the protocol between `Give`, `Join` and the one thread
they are about; `Counts` makes `active` the number of threads not joined and `processed` that of
the objects looked at. The initial split is a recursive function: `BoundRec` shows that it
exists by a minimal counterexample (`Smallest`), and `BoundsPartition` that the segments are disjoint and leave nothing out.
`CutIn` is what the search for a path boundary guarantees wherever the cut falls.

*FetchNegotiation.* No line of an answer says to which flush it belongs, so that `PackNext` is a matter of
counting: the flushes and the `NAK`s on the way are no more than the client's `flushes`, with
one more at the end if it waits for one (`FlushesCounted`), and in the mode with one `ACK` none comes after it
(`NoNakLeft`). `Said` is the protocol of the server: nothing is acknowledged before something is
common, the pack is last and with `multi_ack` right after the only `ACK`. `Asked` is what the client knows of the
mode and of a server that is ready. Over HTTP (`Request`) a request is being answered, or has
been, and with `no-done` its last answer already holds the `ACK` and the pack (`Leftover`). `Says` is what each step of the server may answer,
and the lemma `Serve` takes the invariant through all of them; `AtPack` is what is left to read at the end.
Neither dates nor histories play a role: it holds with skewed clocks, and whatever the two sides have.

What the two sides know at the end is a second invariant, `TellIInv`, on top of the first, and about the time
until the server is ready; from then on the client stops telling. `Listed` is the list of `get_rev()`: what has
left it is newer than what is on it, so that no commit becomes COMMON after it was told other than by an answer,
and `non_common_revs` is the number of commits on it that are not COMMON. `Base` is
what makes the server know: what is told and not read yet, with what it has, or over requests
with what was acknowledged and is told to each process. What was told and the server has is reached
from it (`ToldKnown`), and what is COMMON from it and the refs that both sides have and are still on the list
(`CommonKnown`). The latter speaks of a client whose COMMON commits the server has: with
`multi_ack`, without details, it says `continue` of others as well. `Served` ties the answers to what the server knows, and `Replays` says why
`again` may leave out commits: what is acknowledged and COMMON already is reached from what it has. When the client ends
its list is COMMON, so that everything of its own was told or is reached from what the server has.

`Reach` is a walk of as many rounds as there are commits. That these are enough is `WalkEnds`: each round that
is not the last finds a commit more, and a minimal counterexample takes the place of an induction (`WalkRounds`,
`WalkLeast`). In the invariant stands `Down`, the same as the least set that is closed (`DownIs`), as it
does not speak of a state: the history never changes, but the prover would have to see it anew in each step.

*ObjectStore.* Nothing is locked, so the argument is about what each process knows. `Effects` lists once what
a step does to the disk; everything else speaks of that. What a writer or pusher brings in and has not
published (`Own`) no gc has seen (`Published`): it is loose and younger than any expiry (`Written`, from `Dates`), or in the one
pack with a `.keep` file that is on nobody's list (`Received`). As only one gc removes packs, its lists
are right (`Lists`), so what it takes for redundant is: what was reachable when it looked is in the
new pack or in one that is not on the list (`Covered`), and what became reachable since is loose or in such
a pack (`Late`; while prune unlinks, too young or in a pack). From these, `RefsOnDisk` survives every removal, the
moment between two renames included, in which the pack is in `old`. `GraceKept` adds that no copy of an object
is older than the object (`Aged`), so that an old time stamp means an old object, and that what a `gc -A` is
about to drop was made loose or is old (`Dropped`). `ReadersFind` adds that the packs which a reader does not
know were made by the gc and will stay (`Unknown`, `Stays`): whoever has missed an object in the packs and as a
loose file finds it in one of those after `reprepare_packed_git()` (`Sought`).

*RacyIndex.* None of the properties is inductive, as an entry is trusted for a
different reason at each stage. `IInv` says: an entry is never younger than its file
and has its blob's size or none (`Sane`); an entry that has been read, from disk or into
a command, either tells that the file changed or is not older than the index it came
from, and so is compared by content (`Recorded`); what the command holds for up to date
has the mtime that the command saw, and if it was edited since, that was in a later
tick (`Known`); after smudging, an entry tells of every change so far, and no
later edit can bring back its time stamp, because this command saw that mtime or the
entry is older than the index was (`Settled`). Smudging takes `Recorded` to `Settled`,
the flush and the rename take it back to `Recorded` under the new time stamp. Each
action is a lemma; `MatchExact` and `ModifiedExact` are what the comparison functions
guarantee under `Recorded`.

*IndexPack.* That a delta is resolved once is a matter of two threads that both find `real_type` not
set. `IInv` says that no object is on the stacks twice (`Apart`): a base is given out once, because all bases
on stacks are among those dispatched, and a delta comes on a stack when it is
resolved, which is once (`StackKnown`, `Once`). As names are distinct, a delta is the child of one object
only (`OneParent`), so that two threads in `resolve_delta()` have two deltas
(`BusyApart`), and what one has found of its delta stays true until it is done (`Resolving`). In the third pass,
`Main` is alone (`Phases`). `Counts` carries the array: the objects appended and the deltas still in `left` are no more
than the places; when `conclude_pack()` makes the array, `left` is a set of deltas that are not resolved,
and `nr_resolved_deltas` counts just the others.

That the outcome is right needs both that nothing is forgotten and that nothing is claimed. `Complete`: of each
object that has been on a stack (`Arrived`) every delta is resolved or still waits on the stack; so
when the threads are joined, and between the walks of the third pass, what is resolved is closed under deltas
(`AtRest`), `ThirdPass` adds the bases that are in the repository, and a delta that is not resolved then is
outside of a closed set and cannot be resolved at all (`Failed`). `Sourced` and `FromAbove`: what is
resolved was resolved from its base, which was there. `TodoOpen` and `EnterOpen` keep the assertion on `real_type`
from failing; they rest on `StacksApart`, that what is on the stacks has no delta in common. For this, no base that
`--fix-thin` may append can be a delta of the pack (`BasesApart`): with `Packs <- Doubled` the assertion
fails. The cache matters in one place: the base that is needed is never among what is dropped for its
sake (`BaseThere`). `CacheRight` itself, which is about sums over the chain, is left to TLC.

*Sequencer.* What a command picks from (`mem`) and what it has saved (`seq.todo`) is what is left of the
list when the items before it are handled (`Left`): they are in HEAD, given up by the user, or never began
(`TodoLeft`). `--continue` drops the head of the list without looking, and the reason why that is right is
`FirstKnown`: whenever a todo is on disk and no merge of its head is about to start, the head is
handled or in the index, so that a commit by the user, a reset or a stash accounts for it. It is the
kill between any two writes that makes this hard; `Modes` says which of them belong to which command. `AbortRestores`
needs that what is saved is the HEAD that the sequence was started at (`HeadSaved`),
how far `--abort` has come (`Aborting`), and what is in the file: unless a kill left it so, the file is
that of the index, with a local change just if the user made one and kept it (`WorkKnown`). It speaks of HEAD, index, file and the local
change; of what was staged before the sequence it says nothing, as that is lost (see the
[divergences](#divergences-between-code-and-documentation)). The lists are sequences of any length in which
no commit occurs twice.

*MergeBase.* That a history may have any size makes induction over paths useless to the
prover; `Reach` is therefore defined by closed sets (b is reached from a if every set that
contains a and all parents of its members contains b), and that there are no cycles says
that every nonempty set of commits has a member that is no parent of another. From these
follow the order (`ReachTransitive`, `ReachAntisymmetric`), a last step of each way
(`LastStep`) and a best common ancestor above every common one (`BestAbove`). `IInv` has
three parts. *Painting*: a flag tells the truth (`FlagsTrue`; "STALE" has a common ancestor
strictly above it as its witness), and a commit that is not in the list has passed on its flags
(`PassedOn`), so that when the loop ends no commit above a best common ancestor is in the
list, both colours have come down to it (`Carried`), and it is a result that is not stale:
dates play no role. *Clearing*: from the arguments, along commits with flags, one comes to
every flag (`Rooted`). *Pairs*: `rslt` still holds all best ones, and no two that were
compared and are left are related (`Comparing`); of two that are related, one is their only
merge base (`BestOfAncestor`).

## Divergences between code and documentation

While the models were written TLC showed these, with other constants, casts or initial
states; they are not kept as runs.

* `verify_lock()` (refs.c:1469) compares an old value with a copy of `packed-refs` that is never
  refreshed: when another process has updated, packed and pruned the ref meanwhile, its update is
  overwritten. `CasAtomic` fails with `Casts = {"cas"}` and `InitLoose <- LooseNone`, against "updates the master
  branch head to <newvalue> only if its current value is <oldvalue>"
  (Documentation/git-update-ref.txt:22).
* `git checkout` drops what was added to the index where the other side of a directory/file
  conflict comes: with `d/b` staged and HEAD or the target having a file `d`,
  `verify_clean_subdirectory()` (unpack-trees.c:1339) removes `d/b` from index and work tree
  because it is what its entry says, and the exit code is 0; a file `d` that is staged and deleted on disk gives
  way to `d/a` the same way. Rows 4 and 5 of the table in Documentation/git-read-tree.txt say
  "keep index"; `TwoWayTable` therefore holds where no name is both (`NoClash`). So does
  `read-tree -m -u --aggressive` with a directory that was staged in place of a file (`Replaced`).
* `git checkout` overwrites a file `d` that is staged and has local changes, with exit code 0, when HEAD and the
  target have a directory `d` and `.gitignore` names `d`: `check_ok_to_remove()` (unpack-trees.c:1401)
  asks for ignored files and never whether the file is tracked. `LocalKept` therefore exempts
  all that is under an ignored name (`Overwritable`).
* `git checkout -f` after a merge in which both sides added a file that the target has as
  well leaves the entry of stage 2 (unpack-trees.c:1875), so the index stays unmerged:
  `ForcedExact` without its condition on `force`.
* `reset --hard` does not notice that `read_index_unmerged()` gave up ("cannot drop to stage #0",
  read-cache.c:1850; builtin/reset.c:74) where a name is unmerged as a file and a directory,
  and may leave unmerged entries or files behind: `ForcedExact` without its condition on `hard`.
* `streaming_write_entry()` overwrites the result of `stream_blob_to_fd()` with that of `close()`
  (entry.c:131): of a file that is cut off because the disk is full nothing is reported, `checkout`
  and `reset --hard` exit with 0, and what `lstat()` says of the truncated file goes into the index as if
  it were the whole. Unless the file is racy, `git status` finds it clean and the next
  `reset --hard` leaves it so, against "Any changes to tracked files in the working tree since
  <commit> are discarded" (Documentation/git-reset.txt:65). `TornFilesDiscarded` is violated, and
  `ForcedExact` exempts files that were `Passed` before and after. Git built from these sources
  does the same under a limit on the size of files.
* A tracked file that cannot be removed (its directory is not writable) is only warned about: `unlink_entry()`
  returns nothing (unpack-trees.c:186), the entry goes from the index, and `checkout` and `reset --hard`
  exit with 0; the file is untracked then. `GoneFilesRemoved` is violated, against "Resets the index and working
  tree" (Documentation/git-reset.txt:65). `Follows` and `ForcedExact` exempt a file that `Stayed`, and fail without that.
* A failed write that is noticed makes `unpack_trees()` return -2, which `git checkout` without `-f`
  takes for success (builtin/checkout.c:441): it commits the index, moves HEAD and exits with 0.
  The outcome `incomplete` stands for both.
* Without `multi_ack`, upload-pack acknowledges every commit that it knew the client to have
  while its list of common commits has one element (upload-pack.c:472): a client that has
  stopped counting reads the second `ACK` as the pack. `SilentAfterAck` of `FetchNegotiation`
  fails with `Modes = {0}`, against "After that it says nothing until the client gives it a
  "done"" (Documentation/technical/pack-protocol.txt:311).
* Over requests, what the server acknowledges is told again in each ("so the peer knows it is in
  common with us", builtin/fetch-pack.c:432), unless it is COMMON already (:430). But the server is
  `ready` with the name of a commit that it does not have, and `mark_common()` goes from there to ancestors that
  it has: acknowledged later in the same answer, they are not told again, and unless `no-done` was agreed on the process
  that sends the pack sends them. `AckedReplayed` fails with three commits in a request, the parents
  `<<{}, {}, {1}, {}, {}, {}, {1, 4}>>` and the tips `{3, 4}` and `{7}`; `AckedKept` says the
  same where the server was never `ready`. Of sixteen commits in a window git built from these sources sent 14
  that it had just acknowledged.
* A pack that holds one object twice, or a delta whose result the repository has and which
  is appended as a base, gives a delta two ways to be reached, and the assertion on
  `child->real_type` (builtin/index-pack.c:748) fails: `AssertHolds` of
  `IndexPack`, with `Packs <- Doubled`.
* `resolve_delta()` compares and stores `deepest_delta` without a mutex
  (builtin/index-pack.c:703): of two threads the one with the shorter chain may be last, and the
  histogram of `git verify-pack -v` has no place for the longest (`DeepestRight` with `Packs <- Chains`). An object that
  the third pass appends has a depth that nobody has set (:1008).

* A signal in one of four windows of the lock-file calls makes a handler remove the
  lock of another process (`MCLockFile` with `Signals` as in the table
  [above](#lockfile); lockfile.c:239), where Documentation/technical/api-lockfile.txt
  promises that the API removes its own.
* A listing beside `pack-refs` (`Casts = {"list"}`, `ListFindsRefs`, refs.c:1253) misses a ref that has
  just been packed.
* Two deleters at a time (`Casts = {"del"}`): the second rewrites `packed-refs` from a copy made before the
  lock (refs.c:1715) and brings back what the first deleted. `DeleteOnlyItsRef` fails without its exemption
  of `behind`.
* `git status` and `git describe --dirty` read the index before they lock it and write
  what they read (builtin/commit.c:1214, builtin/describe.c:469): a `git add` between
  the two is lost. No property of `MCRacyIndex` forbids this, and none could.
* A file that is edited a second time in one tick, after a running command has looked
  at the result of the first, passes for clean if the command writes the index in a
  later tick: its time is then younger than the entry. `Edit` excludes this; without its
  second conjunct `NeverFalselyClean` fails.
* `cherry-pick --abort` does not bring back what was staged. A sequence whose first merge is refused because the index
  is not that of HEAD (sequencer.c:362) stays to be aborted, and `reset --merge` discards the staged change that it
  was refused for, from index and file: `AbortKeepsStaged` of `Sequencer` is violated, against "Cancel the operation
  and return to the pre-sequence state." (Documentation/sequencer.txt:12). `AbortRestores` and its theorem therefore
  speak of HEAD, of the index and file of that HEAD, and of the local change that was not staged.
* A merge or reset that is killed after it wrote the file and before it wrote the index leaves a change that nobody
  made; `--abort` is then refused for it, or leaves it where it is. `AbortRestores` fails without `torn`.
* A merge that is refused because of a local change leaves its commit at the head of
  the todo list, and `cherry-pick --continue` drops the head without looking
  (sequencer.c:182, :918): the commit is never picked. `NothingForgotten` of `Sequencer`
  says that this does not happen and fails even with `KillAt = {}`. A redundant last
  commit leaves `CHERRY_PICK_HEAD` behind.
* `get_rev()` (builtin/fetch-pack.c:160) pops the newest commit after it has inserted the
  parents of the one it looked at. If a parent is dated after its child the wrong one
  goes: with the dates of commits 2 and 6 swapped, `NothingTwice` fails, and the server
  sends what the client has.

* A deletion that runs next to `pack-refs --all --prune` rewrites `packed-refs`
  from that copy too and so loses the value of another
  ref whose loose file has been pruned since. An earlier lookup of the same process is enough for the copy to be
  old. This is the other half of what `behind` exempts.
* A lookup that has an old copy of `packed-refs` shows a ref that was pruned since, or deleted, as it was then:
  `ReadsWhatWas` fails without `behind`. Beside a deletion whose packed line was brought back, or a packer that listed
  a ref before it was deleted, the ref is there again afterwards: `PackPreservesValue` exempts `gone`. So it is
  if the loose file of a ref cannot be removed: `delete_ref()` reports that, but takes the line from
  `packed-refs` all the same (refs.c:1758), and a packer that had just packed the loose value prunes what is now the only copy.
* A deletion of which the commit of `packed-refs` failed leaves `packed-refs.lock` to the exit of the process. A
  second deletion in the same process fails to take the lock, and `lock_file()` forgets the name
  (lockfile.c:154): the lock then stays behind.
* `prune_ref()` compares the loose file with the value that was packed; a ref that
  moved away and came back while the packed file was replaced by yet another
  packer uncovers a different value (pack-refs.c:97).
* A reader whose `open()` fails after a successful `lstat()` (refs.c:1097) reports the ref
  as missing instead of looking at `packed-refs`; a packer that meets this drops
  the ref's line. The same happens to a reader that saw no loose file, when a plain
  `pack-refs` then drops the line of a ref that became loose meanwhile.
* `delete_ref()` decides by `REF_ISPACKED` from before the lock (refs.c:1736) whether to
  unlink the loose file: an update in between survives a deletion that reports success. `DeleteTakesEffect` exempts
  just this, a ref found packed of which the caller names no other value, and a line that came to
  `packed-refs` after the process had read it.
* `write_sha1_file()` (sha1_file.c:2579) does not write an object that exists and
  leaves the time of the file alone. If it is old garbage, `git prune` removes it
  before the writer's commit becomes reachable: `NothingInUseLost` fails when a
  writer's `Job` contains an object of `Deletable`, against "tries very hard to be
  safe about the garbage it collects" (Documentation/git-gc.txt). The run therefore
  lets writers write what is new or reachable.
* The `.keep` file of a push does not help if its pack has the name of one that is
  there and unreachable: `git-repack.sh` listed it as `$existing` before the `.keep`
  file came, and removes both (git-repack.sh:183).
* Two gcs at a time (nothing prevents them in this version) remove each other's
  `old-` packs; and while a pack is called `old-`, a reader that comes then does
  not find its objects. `ReadersFind` therefore has one gc beside the reader, whose
  pack has a new name.
* `read_object()` (sha1_file.c:2275) lists the packs again once. If the pack in which the object then is gets repacked
  before it is opened, the object passes for missing: `ReadersFind` fails with a gc that is run twice
  during the lookup, and with a push that a single gc repacks, for which the reader wants what is
  pushed. Neither is in the casts.
* `force_object_loose()` (sha1_file.c:2593) keeps a loose file that is there, with its
  time: an object that is in a young pack and also in an old loose file is pruned
  although it is young. In the run no object is in both at the start.
* An update without an old value logs the value that was read before the lock
  (refs.c:1662); `LogChain` is therefore checked with casts in which the logged ref
  is always updated from a named value.

## What is only model-checked and what is not modelled

Liveness (`OpsReturn`, `GrepTerminates`, `Terminates`, `Negotiated`) is out of the prover's reach and is checked on
the instances only. `TreeMerge` and `CacheRight` of `IndexPack` rest on recursive functions, folds and sums
over paths and chains, and what these compute is an induction over data. `ReadsWhatWas`
and the properties about deletion and packing are about history variables of `MCRefs`, whose exemptions they need, and
are checked for its casts only.

Not modelled inside the modelled components: `hold_lock_file_for_append()`,
symbolic links of locked files; symbolic refs, the log of HEAD, `rename_ref()`,
conflicts between `a` and `a/b`, reflog expiry, refs of submodules; the search
inside grep; the choice and the order of objects to pack, the window of delta bases and the delta cache; alternates,
`--local`, temporary files, packs split by size, failed renames, corrupt objects
and two pushes of the same pack at a time; in the index modes, submodules, `assume-unchanged` and intent-to-add; in merges of trees sparse checkout,
symbolic links, `--prefix`, several merge bases and what a recursive merge does with unmerged paths; in the sequencer `revert`, `--no-commit`,
`--ff`, the options file and an unborn HEAD; in fetching shallow histories, tags, side bands and the choice of refs; in
index-pack the first pass, the index it writes, and corrupt or colliding objects; in the
search for merge bases unreadable commits, calls that leave the marks (`cleanup` 0) and
`get_octopus_merge_bases()`.
Where the models are coarser than the code:

* `LockFile`: `remove_lock_file()` unlinks (lockfile.c:19) and goes on in its list (:21) in one step. A signal
  handler that interrupts the exit handler between the two would unlink the same name again: a fifth
  window beside those of the [table](#lockfile).
* `ObjectStore`: the mark of `prune` and `repack` is one step, where the code reads refs, index, HEAD and reflogs one
  after the other (reachable.c:216); a new pack is as old as its rename, and not as the file that was
  written before; a pack that was replaced by one of the same name counts as still open, which has the same objects; and
  `gc --prune=now`, which is `repack -a` and `prune --expire now` (builtin/gc.c:134, :239), is not one of the modes: nothing written beside it
  is safe.
* `RacyIndex`: a refresh, an add and a merge compare a file and act on it in one step, so that what is edited
  between `lstat()` and the read (read-cache.c:561), or between the check and the checkout, is not
  seen; what `Edit` excludes is every second edit in the tick in which a command looked, more than the code needs.
* `Sequencer`: all of the index is one step, and a stale `index.lock` is one that the user removes at once.
* `FetchNegotiation`: one `FLUSH_LIMIT` stands for 32 over a pipe and 1024 over requests; requests without `multi_ack_detailed`
  (with `multi_ack` the client dies, builtin/fetch-pack.c:288) and commits that cannot be parsed are left out.
* `IndexPack`: the offset of a base is that of an object; in the code it may hit none, and the delta stays unresolved.
* `MergeBase`: commits that cannot be parsed (commit.c:625, :665).

Data (contents, names, times) appears only as far as a property needs it. The
components with status `not_modelled` in `PROJECT.json` say why; those that the plan
names come next.

## Plan

Order of work, most important first.

1. Done: `LockFile`, `AbsLock` (the base of everything on disk), `Refs`,
   `AtomicRefs`, `GrepQueue`, `PackThreads`, `ObjectStore`, `RacyIndex`, `Sequencer`, `FetchNegotiation`, `IndexPack` and
   `MergeBase`, with proofs; `TreeMerge`.
2. `ReceivePack`; what `merge-recursive` does with the unmerged paths of `TreeMerge`; callers of
   `get_merge_bases_many()` that keep the marks, and `reduce_heads()`.
3. Symbolic refs, the log of HEAD and `rename_ref()` in `Refs`; directories of refs.
4. Theorems: in `Refs`, `OpsReturn`'s safety part (a process that ends holds no lock).
