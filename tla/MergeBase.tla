----------------------------- MODULE MergeBase -----------------------------
(***************************************************************************)
(* commit.c: get_merge_bases_many() and what it calls.  Two sets of flags  *)
(* are painted down the history, newest commit first; where they meet is a *)
(* common ancestor, and what is below is painted STALE.  This goes on as   *)
(* long as anything in the list is not.  Dates of commits may be anything, *)
(* so that a result may turn out to be an ancestor of another: all pairs   *)
(* of results are compared afterwards.                                     *)
(*                                                                         *)
(* The flags are in the commits that the process has in memory.  Every     *)
(* call relies on the one before to have cleared them.                     *)
(***************************************************************************)
EXTENDS Integers, Sequences, FiniteSets

CONSTANTS Commit,
          Null,       \* a place of rslt[] that is NULL
          Histories,  \* with parents and date of every commit
          Calls       \* arguments: one, and the sequence twos

Items(s) == {s[k] : k \in DOMAIN s}

\* No set of commits in which each is a parent of another: names are hashes, and a set that one
\* can go up in forever is infinite.
IsHistory(h) ==
  /\ h.parents \in [Commit -> Seq(Commit)] /\ h.date \in [Commit -> Nat]
  /\ \A S \in (SUBSET Commit) \ {{}} : \E x \in S : \A y \in S : x \notin Items(h.parents[y])

ASSUME MergeBaseAssumption ==
  /\ Null \notin Commit /\ Calls # {}
  /\ \A h \in Histories : IsHistory(h)
  /\ \A q \in Calls : /\ q.one \in Commit
                      /\ q.twos \in Seq(Commit) /\ q.twos # <<>>

VARIABLES history,    \* what no call changes
          call,       \* the arguments of get_merge_bases_many()
          one, twos,  \* those of merge_bases_many()
          flags,      \* flags[c]: those of all_flags that commit c has
          list,
          result,
          item, paint,  \* the commit that was popped, and the flags for its parents
          rest,       \* what a loop over commits has still to visit
          rslt, i, j,
          pc

vars == <<history, call, one, twos, flags, list, result, item, paint, rest, rslt, i, j, pc>>

Flag == {"PARENT1", "PARENT2", "STALE", "RESULT"}
Both == {"PARENT1", "PARENT2"}
Parents(c) == Items(history.parents[c])

----------------------------------------------------------------------------
TypeOK ==
  /\ history \in Histories
  /\ call \in Calls
  /\ one \in Commit /\ twos \in Seq(Commit)
  /\ flags \in [Commit -> SUBSET Flag]
  /\ list \in Seq(Commit) /\ result \in Seq(Commit)
  /\ item \in Commit /\ paint \subseteq Flag \ {"RESULT"}
  /\ rest \in Seq(Commit \cup {Null}) /\ rslt \in Seq(Commit \cup {Null})
  /\ i \in Nat /\ j \in Nat
  /\ pc \in {"idle", "returned", "one", "twos", "loop", "clean", "clear", "pairs", "gather"}

Init ==
  /\ history \in Histories
  /\ call = CHOOSE q \in Calls : TRUE
  /\ one = call.one /\ twos = call.twos
  /\ flags = [c \in Commit |-> {}]
  /\ list = <<>> /\ result = <<>> /\ rest = <<>> /\ rslt = <<>>
  /\ item = call.one /\ paint = {}
  /\ i = 1 /\ j = 1
  /\ pc = "idle"

\* commit_list_insert_by_date(): behind all that are not older.
inserted(c, s) ==
  LET n == Cardinality({k \in DOMAIN s : \A m \in 1..k : history.date[s[m]] >= history.date[c]})
  IN  [k \in 1..(Len(s) + 1) |-> IF k <= n THEN s[k] ELSE IF k = n + 1 THEN c ELSE s[k - 1]]

\* merge_bases_many() begins.
StartPainting(a, bs) ==
  /\ one' = a /\ twos' = bs
  /\ rest' = bs
  /\ result' = <<>>
  /\ pc' = "one"

\* get_merge_bases_many() is called.
Call ==
  /\ pc \in {"idle", "returned"}
  /\ \E q \in Calls :
       /\ call' = q
       /\ IF q.one \in Items(q.twos)
          THEN /\ result' = <<q.one>>
               /\ pc' = "returned"
               /\ UNCHANGED <<one, twos, rest>>
          ELSE StartPainting(q.one, q.twos)
  /\ rslt' = <<>>
  /\ UNCHANGED <<history, flags, list, item, paint, i, j>>

PaintOne ==
  /\ pc = "one"
  /\ flags' = [flags EXCEPT ![one] = @ \cup {"PARENT1"}]
  /\ list' = inserted(one, <<>>)
  /\ pc' = "twos"
  /\ UNCHANGED <<history, call, one, twos, result, item, paint, rest, rslt, i, j>>

PaintTwo ==
  /\ pc = "twos"
  /\ flags' = [flags EXCEPT ![Head(rest)] = @ \cup {"PARENT2"}]
  /\ list' = inserted(Head(rest), list)
  /\ rest' = Tail(rest)
  /\ pc' = IF rest' = <<>> THEN "loop" ELSE "twos"
  /\ UNCHANGED <<history, call, one, twos, result, item, paint, rslt, i, j>>

\* Faulty variant: the painting ends at the first commit that is stale.
interesting_first == list # <<>> /\ "STALE" \notin flags[list[1]]

interesting == \E c \in Items(list) : "STALE" \notin flags[c]

\* The flags that a commit with the flags f passes on to its parents.
passed_on(f) ==
  IF f \ {"RESULT"} = Both THEN Both \cup {"STALE"} ELSE f \ {"RESULT"}

\* The most recent commit is popped.
Pop ==
  LET c == Head(list)
      found == flags[c] = Both
  IN  /\ pc = "loop" /\ rest = <<>> /\ interesting
      /\ item' = c
      /\ list' = Tail(list)
      /\ flags' = IF found THEN [flags EXCEPT ![c] = @ \cup {"RESULT"}] ELSE flags
      /\ result' = IF found THEN inserted(c, result) ELSE result
      /\ paint' = passed_on(flags[c])
      /\ rest' = history.parents[c]
      /\ UNCHANGED <<history, call, one, twos, rslt, i, j, pc>>

\* A parent that has all the flags was visited before.
done(p) == paint \subseteq flags[p]

\* One of its parents is painted.
PaintParent ==
  LET p == Head(rest)
  IN  /\ pc = "loop" /\ rest # <<>>
      /\ IF done(p) THEN UNCHANGED <<flags, list>>
         ELSE /\ flags' = [flags EXCEPT ![p] = @ \cup paint]
              /\ list' = inserted(p, list)
      /\ rest' = Tail(rest)
      /\ UNCHANGED <<history, call, one, twos, result, item, paint, rslt, i, j, pc>>

EndLoop ==
  /\ pc = "loop" /\ rest = <<>> /\ ~interesting
  /\ list' = <<>>
  /\ rest' = result /\ result' = <<>>
  /\ pc' = "clean"
  /\ UNCHANGED <<history, call, one, twos, flags, item, paint, rslt, i, j>>

\* Results that have become stale are dropped; merge_bases_many() returns.
Clean ==
  /\ pc = "clean"
  /\ IF rest # <<>>
     THEN /\ result' = IF "STALE" \in flags[Head(rest)] THEN result
                       ELSE inserted(Head(rest), result)
          /\ rest' = Tail(rest)
          /\ UNCHANGED pc
     ELSE /\ rest' = <<one>> \o twos
          /\ pc' = "clear"
          /\ UNCHANGED result
  /\ UNCHANGED <<history, call, one, twos, flags, list, item, paint, rslt, i, j>>

\* What clear_commit_marks() visits from c: it does not go beyond a commit without flags.
Visited(c) ==
  {x \in Commit : \A S \in SUBSET Commit :
     c \in S /\ (\A y \in S : flags[y] # {} => Parents(y) \subseteq S) => x \in S}

clear_commit_marks(c) == flags' = [x \in Commit |-> IF x \in Visited(c) THEN {} ELSE flags[x]]

\* Faulty variant: the marks are cleared from the first commit only.
ClearOne ==
  /\ pc = "clear" /\ rest # <<>>
  /\ clear_commit_marks(Head(rest))
  /\ rest' = <<>>
  /\ UNCHANGED <<history, call, one, twos, list, result, item, paint, rslt, i, j, pc>>

Clear ==
  /\ pc = "clear" /\ rest # <<>>
  /\ clear_commit_marks(Head(rest))
  /\ rest' = Tail(rest)
  /\ UNCHANGED <<history, call, one, twos, list, result, item, paint, rslt, i, j, pc>>

NextPair == IF j < Len(rslt) THEN i' = i /\ j' = j + 1 ELSE i' = i + 1 /\ j' = i + 2

\* What merge_bases_many() has returned for get_merge_bases_many() itself.
Returned ==
  /\ pc = "clear" /\ rest = <<>> /\ rslt = <<>>
  /\ IF Len(result) <= 1 THEN pc' = "returned" /\ UNCHANGED <<rslt, i, j>>
     ELSE /\ rslt' = result
          /\ i' = 1 /\ j' = 2
          /\ pc' = "pairs"
  /\ UNCHANGED <<history, call, one, twos, flags, list, result, item, paint, rest>>

\* What it has returned for two results: one that is a merge base of both is an ancestor of the
\* other.
Compared ==
  /\ pc = "clear" /\ rest = <<>> /\ rslt # <<>>
  /\ rslt' = [k \in DOMAIN rslt |-> IF k \in {i, j} /\ rslt[k] \in Items(result) THEN Null
                                    ELSE rslt[k]]
  /\ NextPair
  /\ pc' = "pairs"
  /\ UNCHANGED <<history, call, one, twos, flags, list, result, item, paint, rest>>

Pairs ==
  /\ pc = "pairs"
  /\ IF i >= Len(rslt)
     THEN /\ rest' = rslt /\ result' = <<>>
          /\ pc' = "gather"
          /\ UNCHANGED <<one, twos, i, j>>
     ELSE IF Null \in {rslt[i], rslt[j]}
     THEN /\ NextPair
          /\ UNCHANGED <<one, twos, rest, result, pc>>
     ELSE /\ StartPainting(rslt[i], <<rslt[j]>>)
          /\ UNCHANGED <<i, j>>
  /\ UNCHANGED <<history, call, flags, list, item, paint, rslt>>

Gather ==
  /\ pc = "gather"
  /\ IF rest # <<>>
     THEN /\ result' = IF Head(rest) = Null THEN result ELSE inserted(Head(rest), result)
          /\ rest' = Tail(rest)
          /\ UNCHANGED pc
     ELSE pc' = "returned" /\ UNCHANGED <<result, rest>>
  /\ UNCHANGED <<history, call, one, twos, flags, list, item, paint, rslt, i, j>>

Step == \/ PaintOne \/ PaintTwo \/ Pop \/ PaintParent \/ EndLoop \/ Clean \/ Clear
        \/ Returned \/ Compared \/ Pairs \/ Gather
Next == Call \/ Step

Spec == Init /\ [][Next]_vars

----------------------------------------------------------------------------
Closed(h, S) == \A c \in S : Items(h.parents[c]) \subseteq S

\* b is a or an ancestor of a.
Reach(h, a, b) == \A S \in SUBSET Commit : a \in S /\ Closed(h, S) => b \in S

Common(h, a, bs) == {c \in Commit : Reach(h, a, c) /\ \E b \in Items(bs) : Reach(h, b, c)}

Best(h, a, bs) ==
  {c \in Common(h, a, bs) : \A d \in Common(h, a, bs) : Reach(h, d, c) => d = c}

\* What get_merge_bases_many() returns are the common ancestors of one and any of the twos that
\* have no better one below them, each once (Documentation/git-merge-base.txt:19), whatever the
\* dates of the commits are (merge_bases_many(), commit.c:639; the pairs, :751).
BasesRight ==
  pc = "returned" =>
    /\ Items(result) = Best(history, call.one, call.twos)
    /\ \A k, m \in DOMAIN result : result[k] = result[m] => k = m

\* No call leaves a flag on any commit to the next one, which would take it for its own
\* (clear_commit_marks(), commit.c:728, :748, :756).
MarksCleared == pc \in {"idle", "returned"} => \A c \in Commit : flags[c] = {}
=============================================================================
