----------------------------- MODULE IndexPack -----------------------------
(***************************************************************************)
(* builtin/index-pack.c: after a first pass has found all objects of a     *)
(* pack, threads resolve the deltas.  Each takes the next object that is   *)
(* no delta and goes down from it to all that are deltas of it; what it    *)
(* inflates on the way is cached, and dropped and inflated again when that *)
(* takes too much memory.  If deltas remain the pack is thin: their bases  *)
(* are looked for in the repository, appended to the pack, and the main    *)
(* thread goes down from these.                                            *)
(*                                                                         *)
(* An object is a number, its place in the pack; objects with the same     *)
(* name have the same content.                                             *)
(***************************************************************************)
EXTENDS Integers, Sequences, FiniteSets, SequencesExt

CONSTANTS Thread, Main,  \* the threads, and the one that starts them
          Packs,         \* packs: sequences of what the first pass finds of each object
          Name,          \* names of objects
          Size,          \* Size[n]: how long the object is
          Local,         \* names of objects that the repository has
          FixThin,       \* --fix-thin
          CacheLimit,    \* delta_base_cache_limit
          Junk           \* what may be in memory that nobody has set

ASSUME IndexPackAssumption ==
  /\ Main \notin Thread /\ Thread # {}
  /\ Size \in [Name -> Nat \ {0}] /\ CacheLimit \in Nat
  /\ Local \subseteq Name /\ FixThin \in BOOLEAN /\ Junk \subseteq Nat
  /\ Packs \subseteq Seq([name : Name, type : {"base", "ref", "ofs"}, base : Name \cup Nat])
  /\ \A q \in Packs :
       /\ \E i \in DOMAIN q : q[i].type # "base"
       /\ \A i \in DOMAIN q : /\ q[i].type = "ofs" => q[i].base \in 1..(i - 1)
                              /\ q[i].type = "ref" => q[i].base \in Name

VARIABLES objects,     \* with name, type, base; real: real_type is that of content; depth
          initial,     \* nr_objects before the third pass
          dispatched,  \* nr_dispatched
          resolved,    \* nr_resolved_deltas
          deepest,     \* deepest_delta
          times,       \* how often each delta was resolved
          pc,
          stack,       \* stack[t]: its base_data, from base_cache to the one it is at
          data,        \* data[t]: the positions whose content is in memory
          child,       \* child[t]: the delta that it is resolving
          used,        \* used[t]: base_cache_used
          left,        \* deltas that fix_unresolved_deltas() has still to look at
          room,        \* how many objects the array has room for
          result       \* how the command ends

vars == <<objects, initial, dispatched, resolved, deepest, times, pc, stack, data, child,
          used, left, room, result>>

Actor == Thread \cup {Main}

----------------------------------------------------------------------------
is_delta(i) == objects[i].type # "base"
Deltas == {i \in 1..initial : is_delta(i)}

\* find_delta_children(), by name and by offset.
RefChildren(i) == {d \in Deltas : objects[d].type = "ref" /\ objects[d].base = objects[i].name}
OfsChildren(i) == {d \in Deltas : objects[d].type = "ofs" /\ objects[d].base = i}

\* Those by name come before those by offset.
FirstOf(todo) == LET refs == {d \in todo : objects[d].type = "ref"}
                 IN  Min(IF refs # {} THEN refs ELSE todo)

\* A base_data that has just been made; todo are its deltas, once they were looked up.
NewBase(i) == [obj |-> i, linked |-> FALSE, todo |-> {}]

SizeAt(t, k) == Size[objects[stack[t][k].obj].name]

\* How much the positions of S hold.
Total(t, S) == MapThenSumSet(LAMBDA k : SizeAt(t, k), S)

\* The cache c = [data, used] of t after prune_base_data(): positions but for those of retained are
\* dropped from the first on, as long as there is too much.
dropped_from(t, c, retained) ==
  LET others == c.data \ retained
      dropped == {k \in others : c.used - Total(t, {j \in others : j < k}) > CacheLimit}
  IN  [data |-> c.data \ dropped, used |-> c.used - Total(t, dropped)]

\* Faulty variant: no position is retained.
prune_all(t, c, retain) == dropped_from(t, c, {})

\* prune_base_data(); retain is a position.
prune(t, c, retain) == dropped_from(t, c, {retain})

\* The content at position k has come into the cache.
filled(t, c, k) == prune(t, [data |-> c.data \cup {k}, used |-> c.used + SizeAt(t, k)], k)

\* The positions above the last come into the cache, one from the other, that follow the last that
\* is there.
inflated(t, c) ==
  LET from == Max({0} \cup c.data)
  IN  FoldLeft(LAMBDA d, k : filled(t, d, k),
               c, [i \in 1..(Len(stack[t]) - 1 - from) |-> from + i])

\* get_base_data() of the last: unless it is there, it is inflated after what is missing above it.
get_base_data(t, c) ==
  LET n == Len(stack[t])
  IN  IF n \in c.data THEN c ELSE filled(t, inflated(t, c), n)

\* free_base_data() at position k.
freed(t, c, k) ==
  IF k \in c.data THEN [data |-> c.data \ {k}, used |-> c.used - SizeAt(t, k)] ELSE c

Cache(t) == [data |-> data[t], used |-> used[t]]
SetCache(t, c) == data' = [data EXCEPT ![t] = c.data] /\ used' = [used EXCEPT ![t] = c.used]

----------------------------------------------------------------------------
\* Of data and used CacheRight tells what they are.
TypeOK ==
  /\ objects \in Seq([name : Name, type : {"base", "ref", "ofs"}, base : Name \cup Nat,
                      real : BOOLEAN, depth : Nat, of : Nat])
  /\ initial \in Nat /\ initial <= Len(objects) /\ dispatched \in 0..initial
  /\ resolved \in Nat /\ deepest \in Nat /\ times \in [1..initial -> Nat]
  /\ pc \in [Actor -> {"wait", "work", "enter", "base", "type", "depth", "delta", "done"}]
  /\ stack \in [Actor -> Seq([obj : Nat, linked : BOOLEAN, todo : SUBSET (1..initial)])]
  /\ child \in [Actor -> 0..initial] /\ left \subseteq 1..initial /\ room \in Nat
  /\ result \in {"none", "ok", "unresolved", "confusion", "assert", "no base"}

Init ==
  /\ \E q \in Packs :
       /\ objects = [i \in DOMAIN q |-> [name |-> q[i].name, type |-> q[i].type,
                                         base |-> q[i].base, real |-> q[i].type = "base",
                                         depth |-> 0, of |-> 0]]
       /\ initial = Len(q)
       /\ times = [i \in DOMAIN q |-> 0]
  /\ dispatched = 0 /\ resolved = 0 /\ deepest = 0
  /\ pc = [t \in Actor |-> IF t = Main THEN "wait" ELSE "work"]
  /\ stack = [t \in Actor |-> <<>>]
  /\ data = [t \in Actor |-> {}]
  /\ child = [t \in Actor |-> 0]
  /\ used = [t \in Actor |-> 0]
  /\ left = {} /\ room = initial + 1
  /\ result = "none"

\* Faulty variant: deltas are not passed over.
any_from(i) == i..initial

\* Faulty variant: what was taken is not counted.
bases_again(i) == {k \in (i - 1)..initial : k > 0 /\ ~is_delta(k)}

\* What threaded_second_pass() may take from place i on.
bases_from(i) == {k \in i..initial : ~is_delta(k)}

\* threaded_second_pass(), under work_mutex.
Dispatch(t) ==
  LET next == bases_from(dispatched + 1)
  IN  /\ pc[t] = "work"
      /\ IF next = {}
         THEN /\ pc' = [pc EXCEPT ![t] = "done"]
              /\ dispatched' = initial
              /\ UNCHANGED stack
         ELSE /\ dispatched' = Min(next)
              /\ stack' = [stack EXCEPT ![t] = <<NewBase(Min(next))>>]
              /\ pc' = [pc EXCEPT ![t] = "enter"]
      /\ UNCHANGED <<objects, initial, resolved, deepest, times, data, child, used, left, room,
                     result>>

\* Faulty variant: what was never linked is taken off the account.
abandoned_freed(t, c) == freed(t, c, Len(stack[t]))

\* The last is no base of anything: its data is freed, without the account.
abandoned(t, c) == [c EXCEPT !.data = @ \ {Len(stack[t])}]

\* link_base_data() of the last.
linked(t, c) ==
  LET n == Len(stack[t])
  IN  prune(t, [c EXCEPT !.used = @ + IF n \in c.data THEN SizeAt(t, n) ELSE 0], n)

\* find_unresolved_deltas_1() comes to an object for the first time.
Enter(t) ==
  LET n == Len(stack[t])
      i == stack[t][n].obj
      todo == RefChildren(i) \cup OfsChildren(i)
  IN  /\ pc[t] = "enter"
      /\ IF todo = {}
         THEN /\ stack' = [stack EXCEPT ![t] = Front(@)]
              /\ SetCache(t, abandoned(t, Cache(t)))
         ELSE /\ stack' = [stack EXCEPT ![t][n] = [@ EXCEPT !.todo = todo, !.linked = TRUE]]
              /\ SetCache(t, linked(t, Cache(t)))
      /\ pc' = [pc EXCEPT ![t] = "base"]
      /\ UNCHANGED <<objects, initial, dispatched, resolved, deepest, times, child, left,
                     room, result>>

\* It takes the next delta and asserts that this has no type yet.
NextDelta(t) ==
  LET d == FirstOf(Last(stack[t]).todo)
  IN  /\ pc[t] = "base" /\ stack[t] # <<>> /\ Last(stack[t]).todo # {}
      /\ IF objects[d].real
         THEN result' = "assert" /\ UNCHANGED <<child, pc>>
         ELSE /\ child' = [child EXCEPT ![t] = d]
              /\ pc' = [pc EXCEPT ![t] = "type"]
              /\ UNCHANGED result
      /\ UNCHANGED <<objects, initial, dispatched, resolved, deepest, times, stack, data, used,
                     left, room>>

\* The first half of resolve_delta().  Nobody guards deepest_delta: it is read here and set in
\* the next step.
SetType(t) ==
  LET b == Last(stack[t]).obj
      d == child[t]
      depth == objects[b].depth + 1
  IN  /\ pc[t] = "type"
      /\ objects' = [objects EXCEPT ![d] = [@ EXCEPT !.real = TRUE, !.depth = depth, !.of = b]]
      /\ pc' = [pc EXCEPT ![t] = IF deepest < depth THEN "depth" ELSE "delta"]
      /\ UNCHANGED <<initial, dispatched, resolved, deepest, times, stack, data, child, used, left,
                     room, result>>

SetDeepest(t) ==
  /\ pc[t] = "depth"
  /\ deepest' = objects[child[t]].depth
  /\ pc' = [pc EXCEPT ![t] = "delta"]
  /\ UNCHANGED <<objects, initial, dispatched, resolved, times, stack, data, child, used, left,
                 room, result>>

\* The second half: base and delta make the object, which may be a base in its turn.  A base that
\* is needed no more is freed.
Resolve(t) ==
  LET n == Len(stack[t])
      d == child[t]
      todo == stack[t][n].todo \ {d}
      c == get_base_data(t, Cache(t))
      rest == IF todo = {} THEN freed(t, c, n) ELSE c
  IN  /\ pc[t] = "delta"
      /\ IF n \notin c.data
         THEN result' = "no base" /\ UNCHANGED <<resolved, times, stack, data, used, pc>>
         ELSE /\ resolved' = resolved + 1
              /\ times' = [times EXCEPT ![d] = @ + 1]
              /\ stack' = [stack EXCEPT ![t] = Append([@ EXCEPT ![n].todo = todo], NewBase(d))]
              /\ SetCache(t, [rest EXCEPT !.data = @ \cup {n + 1}])
              /\ pc' = [pc EXCEPT ![t] = "enter"]
              /\ UNCHANGED result
      /\ UNCHANGED <<objects, initial, dispatched, deepest, child, left, room>>

\* An object whose deltas are all resolved is left: unlink_base_data().
Leave(t) ==
  /\ pc[t] = "base" /\ stack[t] # <<>> /\ Last(stack[t]).todo = {}
  /\ stack' = [stack EXCEPT ![t] = Front(@)]
  /\ SetCache(t, freed(t, Cache(t), Len(stack[t])))
  /\ UNCHANGED <<objects, initial, dispatched, resolved, deepest, times, pc, child, left, room,
                 result>>

\* find_unresolved_deltas() returns.
Return(t) ==
  /\ pc[t] = "base" /\ stack[t] = <<>>
  /\ pc' = [pc EXCEPT ![t] = "work"]
  /\ UNCHANGED <<objects, initial, dispatched, resolved, deepest, times, stack, data, child, used,
                 left, room, result>>

\* Faulty variant: no place for the end of the last object.
enlarged_for(n) == initial + n

\* The size of the array for the third pass, for n deltas that are not resolved.
enlarged(n) == initial + n + 1

\* conclude_pack(), after all threads were joined, up to the third pass.
Conclude ==
  LET unresolved == Cardinality(Deltas) - resolved
  IN  /\ pc[Main] = "wait" /\ \A t \in Thread : pc[t] = "done"
      /\ result' = IF unresolved = 0 THEN "ok"
                   ELSE IF ~FixThin THEN "unresolved"
                   ELSE IF unresolved < 0 THEN "confusion" ELSE "none"
      /\ room' = IF result' = "none" THEN enlarged(unresolved) ELSE room
      /\ left' = IF result' = "none"
                 THEN {d \in Deltas : objects[d].type = "ref" /\ ~objects[d].real}
                 ELSE left
      /\ pc' = [pc EXCEPT ![Main] = "work"]
      /\ UNCHANGED <<objects, initial, dispatched, resolved, deepest, times, stack, data, child,
                     used>>

\* fix_unresolved_deltas(), for one delta: if nothing has resolved it meanwhile and there is its
\* base, that is appended to the pack.  Nobody sets the depth of what is appended.
Fix ==
  LET d == Min(left)
      base == objects[d].base
  IN  /\ pc[Main] = "work" /\ left # {}
      /\ left' = left \ {d}
      /\ IF ~objects[d].real /\ base \in Local
         THEN /\ \E junk \in Junk :
                   objects' = Append(objects, [name |-> base, type |-> "base", base |-> 0,
                                               real |-> TRUE, depth |-> junk, of |-> 0])
              /\ stack' = [stack EXCEPT ![Main] = <<NewBase(Len(objects) + 1)>>]
              /\ data' = [data EXCEPT ![Main] = {1}]
              /\ pc' = [pc EXCEPT ![Main] = "enter"]
         ELSE UNCHANGED <<objects, stack, data, pc>>
      /\ UNCHANGED <<initial, dispatched, resolved, deepest, times, child, used, room, result>>

\* The rest of conclude_pack().
Finish ==
  /\ pc[Main] = "work" /\ left = {}
  /\ result' = IF resolved = Cardinality(Deltas) THEN "ok" ELSE "unresolved"
  /\ UNCHANGED <<objects, initial, dispatched, resolved, deepest, times, pc, stack, data, child,
                 used, left, room>>

Walk(t) == NextDelta(t) \/ SetType(t) \/ SetDeepest(t) \/ Resolve(t) \/ Leave(t) \/ Return(t)
           \/ Enter(t)
ThreadStep(t) == result = "none" /\ (Dispatch(t) \/ Walk(t))
MainStep == result = "none" /\ (Conclude \/ Fix \/ Finish \/ Walk(Main))

Next == MainStep \/ \E t \in Thread : ThreadStep(t)

Fairness == WF_vars(MainStep) /\ \A t \in Thread : WF_vars(ThreadStep(t))
Spec == Init /\ [][Next]_vars /\ Fairness

----------------------------------------------------------------------------
\* The base of the delta is in the repository, and may be taken from there.
Thin(i) == FixThin /\ objects[i].type = "ref" /\ objects[i].base \in Local

\* S has all objects that are there, and with each object its deltas.
Closed(S) ==
  \A i \in 1..initial : /\ ~is_delta(i) \/ Thin(i) => i \in S
                        /\ i \in S => RefChildren(i) \cup OfsChildren(i) \subseteq S

\* From which deltas a way leads up to an object that is there: what every such set has.
Resolvable(d) == \A S \in SUBSET (1..initial) : Closed(S) => d \in S

\* However the threads divide the work, the command succeeds exactly if every delta can be
\* resolved from the pack and, with --fix-thin, the repository (conclude_pack(),
\* builtin/index-pack.c:938), and then each was resolved from the base that the pack names.
OutcomeRight ==
  result # "none" =>
    /\ result = IF \A d \in Deltas : Resolvable(d) THEN "ok" ELSE "unresolved"
    /\ result = "ok" => \A d \in Deltas :
         LET b == objects[d].of
         IN  /\ times[d] = 1
             /\ IF objects[d].type = "ofs" THEN b = objects[d].base
                ELSE objects[b].name = objects[d].base
             /\ b <= initial => objects[d].depth = objects[b].depth + 1

\* No delta is resolved twice, by whichever threads (threaded_second_pass(), :813; the third pass
\* meets deltas that it has resolved from another base, :1069).
EachDeltaOnce == \A d \in 1..initial : times[d] <= 1

\* base_cache_used is what the thread's linked bases hold (free_base_data(), :342), and more than
\* the limit only for the sake of the one in use (prune_base_data(), :351).
CacheRight ==
  \A t \in Actor :
    LET held == {k \in data[t] : stack[t][k].linked}
    IN  /\ used[t] = Total(t, held)
        /\ used[t] > CacheLimit => Cardinality(held) = 1

\* The array has room for all objects, what the third pass appends included, and for the end of
\* the last (conclude_pack(), :955; append_obj_to_pack() writes one further, :1026).
RoomToAppend == Len(objects) + 1 <= room

\* The threads and the passes come to an end (resolve_deltas(), :891; :1064 goes on with the next
\* delta).
Terminates == <>(result # "none")

\* No delta is resolved that has a type already (builtin/index-pack.c:748, :761).
AssertHolds == result # "assert"

\* The histogram of chain lengths has a place for each delta (show_pack_info(), :1268).
DeepestRight == result = "ok" => \A d \in Deltas : objects[d].depth <= deepest
=============================================================================
