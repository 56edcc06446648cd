----------------------------- MODULE GrepQueue -----------------------------
(***************************************************************************)
(* builtin/grep.c: git grep with threads.  The main thread puts the files  *)
(* to search into a ring of work items, the consumers take them out and    *)
(* search them, and whoever completes the oldest one writes the results    *)
(* that are ready, so that the output is that of a grep without threads.   *)
(*                                                                         *)
(* Except for the search itself all of it happens under grep_mutex; a step *)
(* is one critical section, up to its end or to the pthread_cond_wait()    *)
(* that gives up the mutex.  A condition variable is the set of threads    *)
(* that wait for it; who is taken out of the set contends for the mutex.   *)
(***************************************************************************)
EXTENDS Naturals, Sequences

CONSTANTS Consumer,   \* the threads
          Adder,      \* the main thread, that calls add_work() and wait_all()
          Files,      \* how many files are searched: 1..Files, in this order
          Matches,    \* those that match
          Size        \* TODO_SIZE

ASSUME GrepQueueAssumption ==
  /\ Adder \notin Consumer
  /\ Files \in Nat
  /\ Matches \subseteq 1..Files
  /\ Size \in Nat \ {0, 1}

Slot == 0..(Size - 1)

VARIABLES todo,        \* the ring; item 0 is a slot that was never used
          todo_start, todo_end, todo_done,
          all_work_added,
          cond_add, cond_write, cond_result,  \* who waits
          at,          \* where each thread is
          added,       \* how many files it has added
          w,           \* w[c]: the slot that c works on
          hit,         \* hit[t]: has t found anything?
          output       \* the results that were written to stdout

grep_vars == <<todo, todo_start, todo_end, todo_done, all_work_added, cond_add, cond_write,
               cond_result, at, added, w, hit, output>>

GrepTypeOK ==
  /\ todo \in [Slot -> [source : 0..Files, done : BOOLEAN, out : Seq(1..Files)]]
  /\ {todo_start, todo_end, todo_done} \subseteq Slot
  /\ all_work_added \in BOOLEAN
  /\ cond_add \subseteq Consumer
  /\ cond_write \subseteq {Adder} /\ cond_result \subseteq {Adder}
  /\ at = [t \in Consumer \cup {Adder} |-> at[t]]
  /\ at[Adder] \in {"add_work", "wait_all", "join", "end"}
  /\ \A c \in Consumer : at[c] \in {"get_work", "grep_source", "work_done", "end"}
  /\ added \in 0..Files
  /\ w \in [Consumer -> Slot]
  /\ hit \in [Consumer \cup {Adder} -> BOOLEAN]
  /\ output \in Seq(Seq(1..Files))

GrepInit ==
  /\ todo = [s \in Slot |-> [source |-> 0, done |-> FALSE, out |-> << >>]]
  /\ todo_start = 0 /\ todo_end = 0 /\ todo_done = 0
  /\ all_work_added = FALSE
  /\ cond_add = {} /\ cond_write = {} /\ cond_result = {}
  /\ at = [t \in Consumer \cup {Adder} |-> IF t = Adder THEN "add_work" ELSE "get_work"]
  /\ added = 0
  /\ w = [c \in Consumer |-> 0]
  /\ hit = [t \in Consumer \cup {Adder} |-> FALSE]
  /\ output = << >>

-----------------------------------------------------------------------------

Waiting(t) == t \in cond_add \cup cond_write \cup cond_result

\* What pthread_cond_signal() may leave of the waiters.
Signalled(cond) == IF cond = {} THEN {{}} ELSE {cond \ {t} : t \in cond}

After(s) == (s + 1) % Size

\* Faulty variant: the queue may fill up until it looks empty.
FullNever == FALSE

Full == After(todo_end) = todo_done

NewItem(s, i) == [source |-> i, done |-> FALSE, out |-> << >>]

add_work ==
  /\ at[Adder] = "add_work" /\ added < Files /\ ~Waiting(Adder)
  /\ \/ /\ Full
        /\ cond_write' = {Adder}
        /\ UNCHANGED <<todo, todo_end, added, cond_add>>
     \/ /\ ~Full
        /\ todo' = [todo EXCEPT ![todo_end] = NewItem(todo_end, added + 1)]
        /\ todo_end' = After(todo_end)
        /\ added' = added + 1
        /\ cond_add' \in Signalled(cond_add)
        /\ UNCHANGED cond_write
  /\ UNCHANGED <<todo_start, todo_done, all_work_added, cond_result, at, w, hit, output>>

get_work(c) ==
  /\ at[c] = "get_work" /\ ~Waiting(c)
  /\ \/ /\ todo_start = todo_end /\ ~all_work_added
        /\ cond_add' = cond_add \cup {c}
        /\ UNCHANGED <<todo_start, at, w>>
     \/ /\ todo_start = todo_end /\ all_work_added
        /\ at' = [at EXCEPT ![c] = "end"]
        /\ UNCHANGED <<todo_start, cond_add, w>>
     \/ /\ todo_start # todo_end
        /\ w' = [w EXCEPT ![c] = todo_start]
        /\ todo_start' = After(todo_start)
        /\ at' = [at EXCEPT ![c] = "grep_source"]
        /\ UNCHANGED cond_add
  /\ UNCHANGED <<todo, todo_end, todo_done, all_work_added, cond_write, cond_result, added,
                 hit, output>>

\* Outside the mutex: strbuf_out() collects the output in the item.
grep_source(c) ==
  /\ at[c] = "grep_source"
  /\ LET file == todo[w[c]].source IN
       /\ todo' = [todo EXCEPT ![w[c]].out = IF file \in Matches THEN Append(@, file) ELSE @]
       /\ hit' = [hit EXCEPT ![c] = @ \/ file \in Matches]
  /\ at' = [at EXCEPT ![c] = "work_done"]
  /\ UNCHANGED <<todo_start, todo_end, todo_done, all_work_added, cond_add, cond_write,
                 cond_result, added, w, output>>

\* The results of the n oldest slots are written now: those are done, and the next one is not,
\* or nobody has taken it out.
Ready(ring, n) ==
  LET goes(i) == LET s == (todo_done + i) % Size IN ring[s].done /\ s # todo_start
  IN  (\A i \in 0..(n - 1) : goes(i)) /\ ~goes(n)

work_done(c) ==
  /\ at[c] = "work_done"
  /\ todo' = [todo EXCEPT ![w[c]].done = TRUE]
  /\ \E n \in Slot :
       /\ Ready(todo', n)
       /\ output' = output \o [i \in 1..n |-> todo[(todo_done + i - 1) % Size].out]
       /\ todo_done' = (todo_done + n) % Size
       /\ cond_write' \in IF n > 0 THEN Signalled(cond_write) ELSE {cond_write}
       /\ cond_result' \in IF all_work_added /\ todo_done' = todo_end
                             THEN Signalled(cond_result) ELSE {cond_result}
  /\ at' = [at EXCEPT ![c] = "get_work"]
  /\ UNCHANGED <<todo_start, todo_end, all_work_added, cond_add, added, w, hit>>

\* Faulty variant: only one consumer is told that there is no more work.
WokenOne == Signalled(cond_add)

\* pthread_cond_broadcast(&cond_add)
Woken == {{}}

\* wait_all() up to the broadcast
wait_all ==
  /\ at[Adder] \in {"add_work", "wait_all"} /\ added = Files /\ ~Waiting(Adder)
  /\ all_work_added' = TRUE
  /\ \/ /\ todo_done # todo_end
        /\ cond_result' = {Adder}
        /\ at' = [at EXCEPT ![Adder] = "wait_all"]
        /\ UNCHANGED cond_add
     \/ /\ todo_done = todo_end
        /\ cond_add' \in Woken
        /\ at' = [at EXCEPT ![Adder] = "join"]
        /\ UNCHANGED cond_result
  /\ UNCHANGED <<todo, todo_start, todo_end, todo_done, cond_write, added, w, hit, output>>

\* pthread_join() of all threads; the mutex is destroyed.
join ==
  /\ at[Adder] = "join" /\ \A c \in Consumer : at[c] = "end"
  /\ hit' = [hit EXCEPT ![Adder] = \E c \in Consumer : hit[c]]
  /\ at' = [at EXCEPT ![Adder] = "end"]
  /\ UNCHANGED <<todo, todo_start, todo_end, todo_done, all_work_added, cond_add, cond_write,
                 cond_result, added, w, output>>

\* POSIX lets pthread_cond_wait() return although nobody signalled.
SpuriousWakeUp(t) ==
  /\ Waiting(t)
  /\ cond_add' = cond_add \ {t}
  /\ cond_write' = cond_write \ {t}
  /\ cond_result' = cond_result \ {t}
  /\ UNCHANGED <<todo, todo_start, todo_end, todo_done, all_work_added, at, added, w, hit,
                 output>>

run(c) == get_work(c) \/ grep_source(c) \/ work_done(c)
main == add_work \/ wait_all \/ join

GrepNext == \/ main
            \/ \E c \in Consumer : run(c)
            \/ \E t \in Consumer \cup {Adder} : SpuriousWakeUp(t)

\* A thread that can run does, in the end; nobody wakes up unasked.
GrepSpec == GrepInit /\ [][GrepNext]_grep_vars /\ WF_grep_vars(main) /\ \A c \in Consumer : WF_grep_vars(run(c))

-----------------------------------------------------------------------------

\* What a grep without threads writes for a file
Result(i) == IF i \in Matches THEN <<i>> ELSE << >>

\* The results come out in the order in which the files were added, each once
\* ("In the range [todo_done, todo_start) ... We haven't written the result"),
\* and when wait_all() returns all of them are written and the answer is right.
OutputInOrder ==
  /\ Len(output) <= Files /\ output = [i \in 1..Len(output) |-> Result(i)]
  /\ at[Adder] \in {"join", "end"} => Len(output) = Files
  /\ at[Adder] = "end" => hit[Adder] = (Matches # {})

\* wait_all() does return: no wakeup is lost, whatever fills or empties the queue.
GrepTerminates == <>(at[Adder] = "end")
=============================================================================
