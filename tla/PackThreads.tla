---------------------------- MODULE PackThreads ----------------------------
(***************************************************************************)
(* builtin/pack-objects.c, ll_find_deltas(): the list of objects that want *)
(* a delta is split among threads; when one is done the main thread steals *)
(* half of what the busiest has left for it, or lets it end.               *)
(*                                                                         *)
(* remaining and the ends of the segments change under progress_mutex,     *)
(* data_ready under the mutex of its thread.  A thread reads its remaining *)
(* and its list without a lock when it starts on a segment.  A step is one *)
(* critical section, up to its end or to pthread_cond_wait(), or what runs *)
(* between two of them.                                                    *)
(***************************************************************************)
EXTENDS Integers, FiniteSets

CONSTANTS Threads,      \* delta_search_threads
          Main,
          N,            \* objects 0..N-1 in the list
          Hash,         \* Hash[k]: hash of the path of object k, 0 if it has none
          Preferred,    \* objects that are only candidates for a delta base
          window        \* objects that are compared

ASSUME PackThreadsAssumption ==
  /\ Threads \in Nat \ {0, 1}
  /\ N \in Nat \ {0} /\ window \in Nat \ {0}
  /\ Hash \in [0..(N - 1) -> Nat]
  /\ Preferred \subseteq 0..(N - 1)
  /\ Main \notin 0..(Threads - 1)

Thread == 0..(Threads - 1)

VARIABLES list, list_size, remaining, working, data_ready,  \* struct thread_params
          pos,         \* pos[t]: t's `list' in find_deltas()
          processed,   \* *processed: the objects that were counted as done
          taken,       \* taken[t]: the objects that t has looked at
          waiting,     \* threads inside pthread_cond_wait()
          pc,
          target,      \* the thread that Main gives work to
          active       \* active_threads

vars == <<list, list_size, remaining, working, data_ready, pos, processed, taken, waiting, pc,
          target, active>>

TypeOK ==
  /\ list \in [Thread -> 0..N] /\ pos \in [Thread -> 0..N]
  /\ list_size \in [Thread -> 0..N] /\ remaining \in [Thread -> 0..N]
  /\ working \in [Thread -> BOOLEAN] /\ data_ready \in [Thread -> BOOLEAN]
  /\ processed \in 0..N
  /\ taken \in [Thread -> SUBSET (0..(N - 1))]
  /\ waiting \subseteq Thread \cup {Main}
  /\ pc = [t \in Thread \cup {Main} |-> pc[t]]
  /\ \A t \in Thread : pc[t] \in {"none", "start", "find_deltas", "report", "wait", "end"}
  /\ pc[Main] \in {"look", "give", "join", "end"}
  /\ target \in Thread
  /\ active \in 0..Threads

\* Do the objects k - 1 and k belong to the same path?
SamePath(k) == Hash[k] # 0 /\ Hash[k] = Hash[k - 1]

\* The first position from k on, before end or at it, that begins another path.
NextPath(k, end) == CHOOSE j \in k..end : /\ j < end => ~SamePath(j)
                                          /\ \A i \in k..(j - 1) : SamePath(i)

\* Where segment i ends if it begins at from: an equal part of what is left, none
\* if that is too little, extended to the end of a path.
SegmentEnd(from, i) ==
  LET sub_size == (N - from) \div (Threads - i)
  IN  IF sub_size = 0 \/ (sub_size < 2 * window /\ i + 1 < Threads) THEN from
      ELSE NextPath(from + sub_size, N)

\* Segment t is Bound[t]..Bound[t + 1] - 1.
Bound[t \in 0..Threads] == IF t = 0 THEN 0 ELSE SegmentEnd(Bound[t - 1], t - 1)

Init ==
  /\ list = [t \in Thread |-> Bound[t]]
  /\ list_size = [t \in Thread |-> Bound[t + 1] - Bound[t]]
  /\ remaining = list_size
  /\ working = [t \in Thread |-> TRUE]
  /\ data_ready = [t \in Thread |-> FALSE]
  /\ pos = list
  /\ processed = 0
  /\ taken = [t \in Thread |-> {}]
  /\ waiting = {}
  /\ pc = [t \in Thread \cup {Main} |->
             IF t = Main THEN "look" ELSE IF list_size[t] > 0 THEN "start" ELSE "none"]
  /\ target = 0
  /\ active = Cardinality({t \in Thread : list_size[t] > 0})

-----------------------------------------------------------------------------
(* threaded_find_deltas() and find_deltas() *)

\* while (me->remaining), and the call with me->list: without a lock
Start(t) ==
  /\ pc[t] = "start"
  /\ \/ remaining[t] > 0 /\ pc' = [pc EXCEPT ![t] = "find_deltas"]
     \/ remaining[t] = 0 /\ pc' = [pc EXCEPT ![t] = "end"]
  /\ pos' = [pos EXCEPT ![t] = list[t]]
  /\ UNCHANGED <<list, list_size, remaining, working, data_ready, processed, taken, waiting,
                 target, active>>

\* The objects that *processed counts
Counted == 0..(N - 1) \ Preferred

\* The next object, under progress_mutex; it is compared outside.
FindDelta(t) ==
  /\ pc[t] = "find_deltas"
  /\ \/ /\ remaining[t] > 0
        /\ taken' = [taken EXCEPT ![t] = @ \cup {pos[t]}]
        /\ pos' = [pos EXCEPT ![t] = @ + 1]
        /\ remaining' = [remaining EXCEPT ![t] = @ - 1]
        /\ processed' = IF pos[t] \in Counted THEN processed + 1 ELSE processed
        /\ UNCHANGED pc
     \/ /\ remaining[t] = 0
        /\ pc' = [pc EXCEPT ![t] = "report"]
        /\ UNCHANGED <<taken, pos, remaining, processed>>
  /\ UNCHANGED <<list, list_size, working, data_ready, waiting, target, active>>

\* Faulty variant: Main is not told.
ReportSilently(t) ==
  /\ pc[t] = "report"
  /\ working' = [working EXCEPT ![t] = FALSE]
  /\ pc' = [pc EXCEPT ![t] = "wait"]
  /\ UNCHANGED <<list, list_size, remaining, data_ready, pos, processed, taken, waiting,
                 target, active>>

Report(t) ==
  /\ pc[t] = "report"
  /\ working' = [working EXCEPT ![t] = FALSE]
  /\ waiting' = waiting \ {Main}
  /\ pc' = [pc EXCEPT ![t] = "wait"]
  /\ UNCHANGED <<list, list_size, remaining, data_ready, pos, processed, taken, target, active>>

\* Until data_ready is set, which may be before the thread gets here.
Wait(t) ==
  /\ pc[t] = "wait" /\ t \notin waiting
  /\ \/ /\ ~data_ready[t]
        /\ waiting' = waiting \cup {t}
        /\ UNCHANGED <<data_ready, pc>>
     \/ /\ data_ready[t]
        /\ data_ready' = [data_ready EXCEPT ![t] = FALSE]
        /\ pc' = [pc EXCEPT ![t] = "start"]
        /\ UNCHANGED waiting
  /\ UNCHANGED <<list, list_size, remaining, working, pos, processed, taken, target, active>>

-----------------------------------------------------------------------------
(* The loop of ll_find_deltas() *)

\* Threads with enough left to be worth splitting
Victims == {t \in Thread : remaining[t] > 2 * window}

\* Faulty variant: half of the segment instead of half of what is left of it.
CutSegment(v) == list[v] + list_size[v] - list_size[v] \div 2

\* Where the segment of a victim v is cut: half of what is left, from where a
\* path begins if one does.
Cut(v) == LET end == list[v] + list_size[v]
              half == end - remaining[v] \div 2
              path == NextPath(half, end)
          IN  IF path = end THEN half ELSE path

Left(v, cut) == remaining[v] - (list[v] + list_size[v] - cut)

Idle == {t \in Thread : ~working[t]}

Look ==
  /\ pc[Main] = "look" /\ Main \notin waiting
  /\ IF Idle = {}
       THEN /\ waiting' = waiting \cup {Main}
            /\ UNCHANGED <<list, list_size, remaining, working, pc, target>>
       ELSE LET t == CHOOSE i \in Idle : \A j \in Idle : i <= j IN
            /\ target' = t
            /\ working' = [working EXCEPT ![t] = TRUE]
            /\ pc' = [pc EXCEPT ![Main] = "give"]
            /\ IF Victims = {}
                 THEN /\ list_size' = [list_size EXCEPT ![t] = 0]
                      /\ remaining' = [remaining EXCEPT ![t] = 0]
                      /\ UNCHANGED list
                 ELSE LET v == CHOOSE i \in Victims : \A j \in Victims :
                                 remaining[i] > remaining[j] \/ (remaining[i] = remaining[j] /\ i <= j)
                          cut == Cut(v)
                          sub_size == list[v] + list_size[v] - cut
                      IN /\ list' = [list EXCEPT ![t] = cut]
                         /\ list_size' = [list_size EXCEPT ![v] = @ - sub_size, ![t] = sub_size]
                         /\ remaining' = [remaining EXCEPT ![v] = Left(v, cut), ![t] = sub_size]
            /\ UNCHANGED waiting
  /\ UNCHANGED <<data_ready, pos, processed, taken, active>>

\* "if (!sub_size)": Main's own variable
Give ==
  /\ pc[Main] = "give"
  /\ data_ready' = [data_ready EXCEPT ![target] = TRUE]
  /\ waiting' = waiting \ {target}
  /\ pc' = [pc EXCEPT ![Main] = IF list_size[target] = 0 THEN "join" ELSE "look"]
  /\ UNCHANGED <<list, list_size, remaining, working, pos, processed, taken, target, active>>

Join ==
  /\ pc[Main] = "join" /\ pc[target] = "end"
  /\ active' = active - 1
  /\ pc' = [pc EXCEPT ![Main] = IF active = 1 THEN "end" ELSE "look"]
  /\ UNCHANGED <<list, list_size, remaining, working, data_ready, pos, processed, taken,
                 waiting, target>>

\* POSIX lets pthread_cond_wait() return although nobody signalled.
WakeUp(t) ==
  /\ t \in waiting
  /\ waiting' = waiting \ {t}
  /\ UNCHANGED <<list, list_size, remaining, working, data_ready, pos, processed, taken, pc,
                 target, active>>

Work(t) == Start(t) \/ FindDelta(t) \/ Report(t) \/ Wait(t)
MainStep == Look \/ Give \/ Join

Next == \/ MainStep
        \/ \E t \in Thread : Work(t)
        \/ \E t \in Thread \cup {Main} : WakeUp(t)

\* A thread that can run does, in the end; nobody wakes up unasked.
Spec == Init /\ [][Next]_vars /\ WF_vars(MainStep) /\ \A t \in Thread : WF_vars(Work(t))

-----------------------------------------------------------------------------

\* What thread t has before it
Segment(t) == LET end == list[t] + list_size[t] IN (end - remaining[t])..(end - 1)

\* However the list is split and stolen from, each object is with one thread or
\* has been looked at by one, once, no thread ends while it has work, and in the
\* end prepare_pack() does not report an "inconsistency with delta count".
EachObjectOnce ==
  /\ \A k \in 0..(N - 1) :
       Cardinality({t \in Thread : k \in Segment(t)})
         + Cardinality({t \in Thread : k \in taken[t]}) = 1
  /\ \A t \in Thread : pc[t] = "end" => list_size[t] = 0 /\ working[t]
  /\ pc[Main] = "end" => processed = N - Cardinality(Preferred)

\* Every thread is joined: no wakeup is lost, whether data_ready is set before
\* or after the thread waits for it.
Terminates == <>(pc[Main] = "end")
=============================================================================
