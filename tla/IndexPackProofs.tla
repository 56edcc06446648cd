-------------------------- MODULE IndexPackProofs --------------------------
(***************************************************************************)
(* IndexPack, for every number of threads and every pack, with any cache   *)
(* and any objects in the repository: if no two objects of a pack have one *)
(* name, no delta is resolved twice, and the third pass stays in the array *)
(* that was made for it; if besides none of the bases that it may append   *)
(* is a delta of the pack, the outcome is right.                           *)
(***************************************************************************)
EXTENDS IndexPack, FiniteSetTheorems, SequenceTheorems, WellFoundedInduction, TLAPS

\* No pack has an object twice: else a delta has two ways to be reached, and two threads may
\* resolve it at a time.
NamesDistinct ==
  \A q \in Packs : \A i, j \in DOMAIN q : q[i].name = q[j].name => i = j

Original == 1..initial

\* What the first pass has found does not change, and what is appended is no delta.
ObjectsKnown ==
  /\ \A i \in DOMAIN objects : i > initial => ~is_delta(i)
  /\ \A i, j \in Original : objects[i].name = objects[j].name => i = j

Pos(t) == 1..Len(stack[t])

Children(i) == RefChildren(i) \cup OfsChildren(i)

\* What is on the stacks: objects that are there, deltas only when they are resolved, bases only when
\* they have been given out; and what is to be done are children.
StackKnown(t) ==
  \A k \in Pos(t) :
    LET i == stack[t][k].obj
    IN  /\ i \in DOMAIN objects
        /\ is_delta(i) => times[i] > 0
        /\ t \in Thread /\ ~is_delta(i) => i <= dispatched
        /\ stack[t][k].todo \subseteq Children(i)

\* No object is on the stacks twice.
Apart ==
  \A t, u \in Actor : \A k \in Pos(t), j \in Pos(u) :
    stack[t][k].obj = stack[u][j].obj => t = u /\ k = j

Busy(t) == pc[t] \in {"type", "depth", "delta"}

\* The delta that is being resolved has not been resolved.
Resolving(t) ==
  Busy(t) => /\ stack[t] # <<>> /\ child[t] \in stack[t][Len(stack[t])].todo
             /\ times[child[t]] = 0
             /\ objects[child[t]].real <=> pc[t] # "type"

\* When there is something on the stacks: the threads work first, then Main.
Phases ==
  /\ \A t \in Actor : /\ pc[t] = "enter" => stack[t] # <<>>
                      /\ pc[t] \in {"wait", "work", "done"} => stack[t] = <<>>
  /\ \A t \in Thread : pc[t] # "wait"
  /\ pc[Main] = "wait" => Len(objects) = initial
  /\ pc[Main] # "wait" => \A t \in Thread : pc[t] = "done"

ResolvedOnes == {d \in Original : times[d] = 1}

\* A delta is resolved once, and then it has its type.
Once == \A d \in Original :
          times[d] <= 1 /\ (times[d] = 1 => is_delta(d) /\ objects[d].real)

\* Each object that may be appended takes a delta that has not been looked at yet.
Counts == /\ resolved = Cardinality(ResolvedOnes)
          /\ Len(objects) + Cardinality(left) + 1 <= room

IInv == /\ TypeOK /\ ObjectsKnown /\ Apart /\ Phases /\ Once /\ Counts
        /\ \A t \in Actor : StackKnown(t) /\ Resolving(t)

Obj == [name : Name, type : {"base", "ref", "ofs"}, base : Name \cup Nat,
        real : BOOLEAN, depth : Nat, of : Nat]
Base == [obj : Nat, linked : BOOLEAN, todo : SUBSET Original]

----------------------------------------------------------------------------
(* Numbers *)

LEMMA Smallest ==
  ASSUME NEW S, S \subseteq Nat, S # {}
  PROVE  Min(S) \in S /\ \A k \in S : Min(S) <= k
<1> DEFINE R == OpToRel(<, Nat)
<1>1. IsWellFoundedOn(R, Nat)
  BY NatLessThanWellFounded
<1>2. \A k, m \in Nat : k < m => <<k, m>> \in R
  BY DEF OpToRel
<1> HIDE DEF R
<1>3. PICK m \in S : \A k \in S : ~(<<k, m>> \in R)
  BY <1>1, WFMin
<1>4. ASSUME NEW k \in S PROVE m <= k
  <2>1. k \in Nat /\ m \in Nat
    OBVIOUS
  <2>2. ~(k < m)
    BY <2>1, <1>2, <1>3
  <2> QED
    BY <2>1, <2>2
<1> QED
  BY <1>3, <1>4 DEF Min

LEMMA FrontOf ==
  ASSUME NEW S, NEW s \in Seq(S), s # <<>>
  PROVE  /\ Front(s) \in Seq(S) /\ Len(Front(s)) = Len(s) - 1
         /\ \A k \in 1..(Len(s) - 1) : Front(s)[k] = s[k]
<1>1. Len(s) \in Nat /\ Len(s) # 0
  BY EmptySeq
<1> DEFINE m == Len(s) - 1
<1>2. m \in Nat /\ m - 1 + 1 = m /\ \A k \in 1..m : s[k] \in S /\ 1 + k - 1 = k
  BY <1>1, ElementOfSeq
<1> HIDE DEF m
<1>3. /\ SubSeq(s, 1, m) \in Seq(S) /\ Len(SubSeq(s, 1, m)) = m
      /\ \A k \in 1..m : SubSeq(s, 1, m)[k] = s[k]
  BY <1>2, SubSeqProperties
<1> QED
  BY <1>3 DEF Front, m

LEMMA Types ==
  ASSUME TypeOK
  PROVE  /\ objects \in Seq(Obj) /\ stack \in [Actor -> Seq(Base)]
         /\ Len(objects) \in Nat /\ DOMAIN objects = 1..Len(objects) /\ initial \in Nat
         /\ Original \subseteq DOMAIN objects /\ dispatched \in 0..initial /\ dispatched \in Int
         /\ resolved \in Nat /\ room \in Nat
         /\ \A i \in DOMAIN objects : objects[i] \in Obj
         /\ \A t \in Actor : stack[t] \in Seq(Base) /\ Len(stack[t]) \in Nat
         /\ \A t \in Actor : \A k \in Pos(t) : stack[t][k] \in Base
<1>1. objects \in Seq(Obj) /\ stack \in [Actor -> Seq(Base)] /\ initial \in Nat
      /\ initial <= Len(objects)
  BY DEF TypeOK, Obj, Base, Original
<1>2. \A t \in Actor : stack[t] \in Seq(Base) /\ Len(stack[t]) \in Nat
  BY <1>1
<1>3. \A t \in Actor : \A k \in Pos(t) : stack[t][k] \in Base
  BY <1>2, ElementOfSeq DEF Pos
<1>4. Len(objects) \in Nat /\ DOMAIN objects = 1..Len(objects)
      /\ \A i \in DOMAIN objects : objects[i] \in Obj
  BY <1>1, ElementOfSeq
<1>5. dispatched \in 0..initial /\ dispatched \in Int /\ resolved \in Nat /\ room \in Nat
  <2>1. dispatched \in 0..initial /\ resolved \in Nat /\ room \in Nat
    BY Zenon DEF TypeOK
  <2> QED
    BY <1>1, <2>1
<1> QED
  BY <1>1, <1>2, <1>3, <1>4, <1>5 DEF Original

\* Of the deltas of an object the first is taken.
LEMMA FirstOfIn ==
  ASSUME NEW S, S \subseteq Nat, S # {}
  PROVE  FirstOf(S) \in S
<1>1. CASE {d \in S : objects[d].type = "ref"} # {}
  BY <1>1, Smallest DEF FirstOf
<1>2. CASE {d \in S : objects[d].type = "ref"} = {}
  BY <1>2, Smallest DEF FirstOf
<1> QED
  BY <1>1, <1>2

----------------------------------------------------------------------------
(* A delta is a child of one object, so two that are at work have two.     *)

LEMMA OneParent ==
  ASSUME TypeOK, ObjectsKnown, NEW i \in Original, NEW j \in Original,
         NEW d \in Children(i), d \in Children(j)
  PROVE  i = j
<1>1. CASE objects[d].type = "ref"
  <2>1. objects[d].base = objects[i].name /\ objects[d].base = objects[j].name
    BY <1>1 DEF Children, RefChildren, OfsChildren
  <2> QED
    BY <2>1 DEF ObjectsKnown
<1>2. CASE objects[d].type # "ref"
  BY <1>2 DEF Children, RefChildren, OfsChildren
<1> QED
  BY <1>1, <1>2

LEMMA BusyApart ==
  ASSUME IInv, NEW t \in Actor, NEW u \in Actor, t # u, Busy(t), Busy(u)
  PROVE  child[t] # child[u]
<1>1. pc[Main] = "wait" /\ t \in Thread /\ u \in Thread
  BY IndexPackAssumption DEF IInv, Phases, Busy, Actor
<1> DEFINE k == Len(stack[t])
           j == Len(stack[u])
<1>2. /\ k \in Pos(t) /\ child[t] \in stack[t][k].todo
      /\ j \in Pos(u) /\ child[u] \in stack[u][j].todo
  BY Types, EmptySeq DEF IInv, Resolving, Pos
<1>3. /\ stack[t][k].obj \in DOMAIN objects /\ child[t] \in Children(stack[t][k].obj)
      /\ stack[u][j].obj \in DOMAIN objects /\ child[u] \in Children(stack[u][j].obj)
  BY <1>2 DEF IInv, StackKnown
<1>4. DOMAIN objects = Original
  BY <1>1, Types DEF IInv, Phases, Original
<1>5. stack[t][k].obj # stack[u][j].obj
  BY <1>1, <1>2 DEF IInv, Apart
<1> QED
  BY <1>3, <1>4, <1>5, OneParent DEF IInv

----------------------------------------------------------------------------
(* What a step leaves as it is *)

\* Names, types and bases are those of before.
SameObjects ==
  /\ initial' = initial /\ DOMAIN objects \subseteq DOMAIN objects'
  /\ \A i \in DOMAIN objects : /\ objects'[i].name = objects[i].name
                               /\ objects'[i].type = objects[i].type
                               /\ objects'[i].base = objects[i].base

LEMMA ChildrenKept ==
  ASSUME TypeOK, SameObjects
  PROVE  /\ Original' = Original /\ Deltas' = Deltas
         /\ \A i \in DOMAIN objects : is_delta(i)' = is_delta(i) /\ Children(i)' = Children(i)
<1>1. Original' = Original /\ Original \subseteq DOMAIN objects
  BY Types DEF SameObjects, Original
<1>2. \A i \in DOMAIN objects : is_delta(i)' = is_delta(i)
  BY DEF SameObjects, is_delta
<1>3. Deltas' = Deltas
  BY <1>1, <1>2 DEF Deltas, Original
<1>4. Deltas \subseteq DOMAIN objects
  BY <1>1 DEF Deltas, Original
<1>5. ASSUME NEW i \in DOMAIN objects
      PROVE  RefChildren(i)' = RefChildren(i) /\ OfsChildren(i)' = OfsChildren(i)
  BY <1>3, <1>4, <1>5 DEF SameObjects, RefChildren, OfsChildren
<1> QED
  BY <1>1, <1>2, <1>3, <1>5 DEF Children

LEMMA UnchangedObjects ==
  ASSUME objects' = objects, initial' = initial
  PROVE  SameObjects
BY DEF SameObjects

LEMMA ObjectsKept ==
  ASSUME TypeOK, SameObjects, ObjectsKnown, DOMAIN objects' = DOMAIN objects
  PROVE  ObjectsKnown'
<1>1. Original' = Original /\ Original \subseteq DOMAIN objects
  BY ChildrenKept, Types
<1>2. \A i \in DOMAIN objects' : i > initial' => ~is_delta(i)'
  BY ChildrenKept DEF ObjectsKnown, SameObjects
<1>3. \A i, j \in Original' : objects'[i].name = objects'[j].name => i = j
  BY <1>1 DEF ObjectsKnown, SameObjects
<1> QED
  BY <1>2, <1>3 DEF ObjectsKnown

\* One whose stack stays and whose delta is not touched
LEMMA StackKept ==
  ASSUME IInv, SameObjects, NEW u \in Actor, stack'[u] = stack[u],
         dispatched \in Int, dispatched' \in Int, dispatched <= dispatched',
         \A d \in Original : times[d] > 0 => times'[d] > 0
  PROVE  StackKnown(u)'
<1>1. SUFFICES ASSUME NEW k \in Pos(u)
               PROVE  LET i == stack[u][k].obj
                      IN  /\ i \in DOMAIN objects'
                          /\ is_delta(i)' => times'[i] > 0
                          /\ u \in Thread /\ ~is_delta(i)' => i <= dispatched'
                          /\ stack[u][k].todo \subseteq Children(i)'
  BY DEF StackKnown, Pos
<1> DEFINE i == stack[u][k].obj
<1>2. /\ i \in DOMAIN objects /\ stack[u][k].todo \subseteq Children(i)
      /\ is_delta(i) => times[i] > 0
      /\ u \in Thread /\ ~is_delta(i) => i <= dispatched
  BY DEF IInv, StackKnown
<1>3. is_delta(i)' = is_delta(i) /\ Children(i)' = Children(i)
  BY <1>2, ChildrenKept DEF IInv
<1>4. is_delta(i) => i \in Original
  BY <1>2, Types DEF IInv, ObjectsKnown, Original
<1>5. i \in Int
  BY <1>2, Types DEF IInv
<1> QED
  BY <1>2, <1>3, <1>4, <1>5 DEF SameObjects

LEMMA DeltaKept ==
  ASSUME NEW u \in Actor, Resolving(u), stack'[u] = stack[u], pc'[u] = pc[u],
         child'[u] = child[u],
         Busy(u) => /\ times'[child[u]] = times[child[u]]
                    /\ objects'[child[u]].real = objects[child[u]].real
  PROVE  Resolving(u)'
BY DEF Resolving, Busy

\* One whose stack has grown by an object that no thread is at, or has not grown
LEMMA ApartKept ==
  ASSUME IInv, NEW t \in Actor, \A u \in Actor \ {t} : stack'[u] = stack[u],
         \A k \in Pos(t)' : \/ k \in Pos(t) /\ stack'[t][k].obj = stack[t][k].obj
                            \/ /\ k = Len(stack'[t])
                               /\ \A u \in Actor : \A j \in Pos(u) :
                                    stack[u][j].obj # stack'[t][k].obj
  PROVE  Apart'
<1>1. \A u \in Actor \ {t} : Pos(u)' = Pos(u)
  BY DEF Pos
<1>2. SUFFICES ASSUME NEW v \in Actor, NEW u \in Actor, NEW k \in Pos(v)', NEW j \in Pos(u)',
                      stack'[v][k].obj = stack'[u][j].obj
               PROVE  v = u /\ k = j
  BY DEF Apart, Actor
<1>3. Apart
  BY DEF IInv
<1>4. CASE v = t /\ u = t
  BY <1>2, <1>3, <1>4 DEF Apart
<1>5. CASE v = t /\ u # t
  BY <1>1, <1>2, <1>3, <1>5 DEF Apart
<1>6. CASE v # t /\ u = t
  BY <1>1, <1>2, <1>3, <1>6 DEF Apart
<1>7. CASE v # t /\ u # t
  BY <1>1, <1>2, <1>3, <1>7 DEF Apart
<1> QED
  BY <1>4, <1>5, <1>6, <1>7

\* The phases stay when an actor that is not at rest goes on and is not at rest.
LEMMA PhasesKept ==
  ASSUME IInv, NEW t \in Actor, pc[t] \notin {"wait", "done"},
         pc' = [pc EXCEPT ![t] = pc'[t]], pc'[t] # "wait",
         \A u \in Actor \ {t} : stack'[u] = stack[u],
         pc'[t] = "enter" => stack'[t] # <<>>, pc'[t] \in {"work", "done"} => stack'[t] = <<>>,
         t \in Thread => objects' = objects /\ initial' = initial
  PROVE  Phases'
<1>1. pc \in [Actor -> {"wait", "work", "enter", "base", "type", "depth", "delta", "done"}]
  BY DEF IInv, TypeOK
<1>2. \A u \in Actor \ {t} : pc'[u] = pc[u]
  BY <1>1
<1>3. Main \in Actor /\ Thread \subseteq Actor /\ Main \notin Thread
  BY IndexPackAssumption DEF Actor
<1>4. Phases
  BY DEF IInv
<1>5. \A u \in Actor : /\ pc'[u] = "enter" => stack'[u] # <<>>
                       /\ pc'[u] \in {"wait", "work", "done"} => stack'[u] = <<>>
  BY <1>2, <1>4 DEF Phases
<1>6. CASE t \in Thread
  BY <1>2, <1>3, <1>4, <1>5, <1>6 DEF Phases
<1>7. CASE t = Main
  BY <1>2, <1>3, <1>4, <1>5, <1>7 DEF Phases
<1> QED
  BY <1>6, <1>7 DEF Actor

----------------------------------------------------------------------------
(* The steps *)

LEMMA Frame ==
  ASSUME IInv, NEW t \in Actor, UNCHANGED <<objects, initial, times>>
  PROVE  /\ SameObjects /\ ObjectsKnown' /\ Once'
         /\ \A u \in Actor \ {t} :
              stack'[u] = stack[u] /\ pc'[u] = pc[u] /\ child'[u] = child[u] => Resolving(u)'
         /\ resolved' = resolved /\ left' = left /\ room' = room => Counts'
<1>1. SameObjects /\ TypeOK
  BY UnchangedObjects DEF IInv
<1>2. ObjectsKnown'
  BY <1>1, ObjectsKept DEF IInv
<1>3. Once'
  BY DEF IInv, Once, Original, is_delta
<1>4. \A u \in Actor \ {t} :
        stack'[u] = stack[u] /\ pc'[u] = pc[u] /\ child'[u] = child[u] => Resolving(u)'
  BY DeltaKept DEF IInv
<1>5. resolved' = resolved /\ left' = left /\ room' = room => Counts'
  BY DEF IInv, Counts, ResolvedOnes, Original
<1> QED
  BY <1>1, <1>2, <1>3, <1>4, <1>5

\* The stack of t has lost its last, or nothing.
LEMMA Shrunk ==
  ASSUME IInv, NEW t \in Actor, UNCHANGED <<objects, initial, times, dispatched>>,
         stack' = stack \/ (stack[t] # <<>> /\ stack' = [stack EXCEPT ![t] = Front(@)])
  PROVE  /\ stack' \in [Actor -> Seq(Base)]
         /\ \A u \in Actor \ {t} : stack'[u] = stack[u]
         /\ \A u \in Actor : StackKnown(u)'
         /\ Apart'
<1>0. TypeOK
  BY DEF IInv
<1>1. TypeOK /\ SameObjects /\ stack \in [Actor -> Seq(Base)] /\ dispatched \in Int
  BY <1>0, UnchangedObjects, Types
<1>2. CASE stack' = stack
  <2>1. \A u \in Actor : StackKnown(u)'
    BY <1>1, <1>2, StackKept DEF IInv
  <2>2. Apart'
    BY <1>2 DEF IInv, Apart, Pos
  <2> QED
    BY <1>1, <1>2, <2>1, <2>2
<1>3. CASE stack[t] # <<>> /\ stack' = [stack EXCEPT ![t] = Front(@)]
  <2>1. /\ stack'[t] \in Seq(Base) /\ Len(stack'[t]) = Len(stack[t]) - 1
        /\ \A k \in 1..(Len(stack[t]) - 1) : stack'[t][k] = stack[t][k]
    BY <1>1, <1>3, FrontOf
  <2>2. \A u \in Actor \ {t} : stack'[u] = stack[u]
    BY <1>1, <1>3
  <2>3. \A k \in Pos(t)' : k \in Pos(t) /\ stack'[t][k] = stack[t][k]
    BY <1>1, <2>1, Types DEF Pos
  <2>4. StackKnown(t)'
    <3>1. \A i \in DOMAIN objects : Children(i)' = Children(i) /\ is_delta(i)' = is_delta(i)
      BY <1>1, ChildrenKept
    <3>2. StackKnown(t)
      BY DEF IInv
    <3> QED
      BY <2>3, <3>1, <3>2 DEF StackKnown
  <2>5. \A u \in Actor \ {t} : StackKnown(u)'
    BY <1>1, <2>2, StackKept
  <2>6. Apart'
    BY <2>2, <2>3, ApartKept
  <2>7. stack' \in [Actor -> Seq(Base)]
    BY <1>1, <1>3, <2>1
  <2> QED
    BY <2>2, <2>4, <2>5, <2>6, <2>7
<1> QED
  BY <1>2, <1>3

\* A step that does not touch objects, times and what is left keeps the invariant, if t's own stack
\* and pc are as they should be.
LEMMA Quiet ==
  ASSUME IInv, NEW t \in Actor,
         UNCHANGED <<objects, initial, resolved, times, left, room>>,
         TypeOK', Apart', Phases', Resolving(t)', \A u \in Actor : StackKnown(u)',
         \A u \in Actor \ {t} :
           stack'[u] = stack[u] /\ pc'[u] = pc[u] /\ child'[u] = child[u]
  PROVE  IInv'
<1>1. /\ ObjectsKnown' /\ Once' /\ Counts'
      /\ \A u \in Actor \ {t} : Resolving(u)'
  BY Frame
<1>2. Actor' = Actor
  BY DEF Actor
<1> QED
  BY <1>1, <1>2 DEF IInv

LEMMA ReturnStep ==
  ASSUME IInv, NEW t \in Actor, Return(t)
  PROVE  IInv'
<1> USE DEF Return
<1>1. TypeOK'
  BY DEF IInv, TypeOK
<1>2. Apart' /\ \A u \in Actor : StackKnown(u)'
  BY Shrunk
<1>3. pc' = [pc EXCEPT ![t] = "work"] /\ pc'[t] = "work"
  BY DEF IInv, TypeOK
<1>4. Phases'
  BY <1>3, PhasesKept
<1>5. Resolving(t)'
  BY <1>3 DEF Resolving, Busy
<1>6. \A u \in Actor \ {t} : pc'[u] = pc[u]
  BY DEF IInv, TypeOK
<1> QED
  BY <1>1, <1>2, <1>4, <1>5, <1>6, Quiet

LEMMA SetDeepestStep ==
  ASSUME IInv, NEW t \in Actor, SetDeepest(t)
  PROVE  IInv'
<1> USE DEF SetDeepest
<1>1. pc' = [pc EXCEPT ![t] = "delta"] /\ pc'[t] = "delta"
  BY DEF IInv, TypeOK
<1>2. child[t] \in Original
  BY Types, EmptySeq DEF IInv, Resolving, Busy, Pos, Base
<1>3. TypeOK'
  <2>1. deepest' \in Nat
    BY <1>2, Types DEF IInv, Obj
  <2> QED
    BY <2>1 DEF IInv, TypeOK
<1>4. Apart' /\ \A u \in Actor : StackKnown(u)'
  BY Shrunk
<1>5. Phases'
  BY <1>1, PhasesKept
<1>6. Resolving(t)'
  BY <1>1 DEF IInv, Resolving, Busy
<1>7. \A u \in Actor \ {t} : pc'[u] = pc[u]
  BY DEF IInv, TypeOK
<1> QED
  BY <1>3, <1>4, <1>5, <1>6, <1>7, Quiet

LEMMA NextDeltaStep ==
  ASSUME IInv, NEW t \in Actor, NextDelta(t)
  PROVE  IInv'
<1> USE DEF NextDelta
<1> DEFINE n == Len(stack[t])
           S == stack[t][n].todo
           d == FirstOf(S)
<1>1. n \in Pos(t) /\ S # {} /\ S = Last(stack[t]).todo
  BY Types, EmptySeq DEF IInv, Pos, Last
<1>2. S \subseteq Original /\ S \subseteq Children(stack[t][n].obj)
  BY <1>1, Types DEF IInv, StackKnown, Base
<1>3. d \in S /\ d \in Original
  BY <1>1, <1>2, FirstOfIn, Types DEF IInv, Original
<1>4. Apart' /\ \A u \in Actor : StackKnown(u)'
  BY Shrunk
<1>5. CASE objects[d].real
  <2>1. pc' = pc /\ child' = child /\ result' = "assert"
    BY <1>1, <1>5
  <2>2. TypeOK'
    BY <2>1 DEF IInv, TypeOK
  <2>3. Phases' /\ Resolving(t)'
    BY <2>1 DEF IInv, Phases, Resolving, Busy
  <2> QED
    BY <1>4, <2>1, <2>2, <2>3, Quiet
<1>6. CASE ~objects[d].real
  <2>1. /\ pc' = [pc EXCEPT ![t] = "type"] /\ pc'[t] = "type"
        /\ child' = [child EXCEPT ![t] = d] /\ child'[t] = d /\ result' = result
    BY <1>1, <1>6 DEF IInv, TypeOK
  <2>2. TypeOK'
    <3>1. d \in 0..initial
      BY <1>3, Types DEF IInv, Original
    <3> QED
      BY <2>1, <3>1 DEF IInv, TypeOK
  <2>3. Phases'
    BY <2>1, PhasesKept
  <2>4. Resolving(t)'
    <3>1. times[d] = 0
      <4>1. times[d] \in Nat
        BY <1>3 DEF IInv, TypeOK, Original
      <4> QED
        BY <1>3, <1>6, <4>1 DEF IInv, Once
    <3> QED
      BY <1>3, <1>6, <2>1, <3>1 DEF Resolving, Busy
  <2>5. \A u \in Actor \ {t} : pc'[u] = pc[u] /\ child'[u] = child[u]
    BY <2>1 DEF IInv, TypeOK
  <2> QED
    BY <1>4, <2>2, <2>3, <2>4, <2>5, Quiet
<1> QED
  BY <1>5, <1>6

LEMMA LeaveStep ==
  ASSUME IInv, NEW t \in Actor, Leave(t)
  PROVE  IInv'
<1> USE DEF Leave, SetCache
<1>1. /\ stack' \in [Actor -> Seq(Base)] /\ Apart'
      /\ \A u \in Actor : StackKnown(u)'
      /\ \A u \in Actor \ {t} : stack'[u] = stack[u]
  BY Shrunk
<1>2. pc' = pc /\ pc[t] = "base"
  OBVIOUS
<1>3. TypeOK'
  BY <1>1, Types DEF IInv, TypeOK, Base, Original
<1>4. pc \in [Actor -> {"wait", "work", "enter", "base", "type", "depth", "delta", "done"}]
  BY Zenon DEF IInv, TypeOK
<1>5. Phases'
  BY <1>1, <1>2, <1>4, PhasesKept
<1>6. Resolving(t)'
  BY <1>2 DEF Resolving, Busy
<1> QED
  BY <1>1, <1>2, <1>3, <1>5, <1>6, Quiet

LEMMA EnterStep ==
  ASSUME IInv, NEW t \in Actor, Enter(t)
  PROVE  IInv'
<1> USE DEF Enter, SetCache
<1> DEFINE n == Len(stack[t])
           todo == Children(stack[t][n].obj)
<1>1. /\ pc \in [Actor -> {"wait", "work", "enter", "base", "type", "depth", "delta", "done"}]
      /\ pc' = [pc EXCEPT ![t] = "base"] /\ pc[t] = "enter" /\ stack[t] # <<>>
  BY Zenon DEF IInv, TypeOK, Phases
<1>2. pc'[t] = "base" /\ \A u \in Actor \ {t} : pc'[u] = pc[u]
  BY <1>1
<1>3. Resolving(t)'
  BY <1>2 DEF Resolving, Busy
<1>4. /\ stack' \in [Actor -> Seq(Base)] /\ Apart'
      /\ \A u \in Actor \ {t} : stack'[u] = stack[u]
      /\ \A u \in Actor : StackKnown(u)'
  <2>1. CASE todo = {}
    BY <1>1, <2>1, Shrunk DEF Children
  <2>2. CASE todo # {}
    <3> DEFINE b == [stack[t][n] EXCEPT !.todo = todo, !.linked = TRUE]
    <3>1. stack' = [stack EXCEPT ![t] = [@ EXCEPT ![n] = b]]
      BY <2>2 DEF Children
    <3>2. stack \in [Actor -> Seq(Base)] /\ stack[t] \in Seq(Base) /\ n \in 1..Len(stack[t])
          /\ stack[t][n] \in Base
      <4>1. stack \in [Actor -> Seq(Base)] /\ stack[t] \in Seq(Base) /\ Len(stack[t]) \in Nat
        BY Types DEF IInv
      <4>2. n \in 1..Len(stack[t])
        BY <1>1, <4>1, EmptySeq
      <4> QED
        BY <4>1, <4>2, ElementOfSeq
    <3>3. todo \subseteq Original
      BY DEF Children, RefChildren, OfsChildren, Deltas, Original
    <3>4. b \in Base /\ b.obj = stack[t][n].obj /\ b.todo = todo
      BY <3>2, <3>3 DEF Base
    <3> HIDE DEF b
    <3>5. /\ stack'[t] \in Seq(Base) /\ Len(stack'[t]) = n
          /\ \A k \in 1..n : stack'[t][k] = IF k = n THEN b ELSE stack[t][k]
      BY <3>1, <3>2, <3>4, ExceptSeq
    <3>6. Pos(t)' = Pos(t) /\ \A k \in Pos(t) : stack'[t][k].obj = stack[t][k].obj
      BY <3>4, <3>5 DEF Pos
    <3>7. stack' \in [Actor -> Seq(Base)] /\ \A u \in Actor \ {t} : stack'[u] = stack[u]
      BY <3>1, <3>2, <3>5
    <3>8. Apart'
      BY <3>6, <3>7, ApartKept
    <3>9. \A u \in Actor \ {t} : StackKnown(u)'
      BY <3>7, StackKept, UnchangedObjects, Types DEF IInv
    <3>10. StackKnown(t)'
      <4>1. StackKnown(t) /\ SameObjects /\ TypeOK
        BY UnchangedObjects DEF IInv
      <4>2. \A i \in DOMAIN objects : Children(i)' = Children(i) /\ is_delta(i)' = is_delta(i)
        BY <4>1, ChildrenKept
      <4>3. ASSUME NEW k \in Pos(t)
            PROVE  /\ stack'[t][k].obj \in DOMAIN objects
                   /\ stack'[t][k].todo \subseteq Children(stack'[t][k].obj)
        BY <3>4, <3>5, <3>6, <4>1 DEF StackKnown, Pos
      <4> QED
        BY <3>6, <4>1, <4>2, <4>3 DEF StackKnown
    <3> QED
      BY <3>7, <3>8, <3>9, <3>10
  <2> QED
    BY <2>1, <2>2
<1>5. TypeOK'
  BY <1>1, <1>4, Types DEF IInv, TypeOK, Base, Original
<1>6. Phases'
  BY <1>1, <1>2, <1>4, PhasesKept
<1> QED
  BY <1>2, <1>3, <1>4, <1>5, <1>6, Quiet

LEMMA DispatchStep ==
  ASSUME IInv, NEW t \in Thread, Dispatch(t)
  PROVE  IInv'
<1> USE DEF Dispatch
<1> DEFINE next == bases_from(dispatched + 1)
<1>0. t \in Actor
  BY DEF Actor
<1>1. /\ pc \in [Actor -> {"wait", "work", "enter", "base", "type", "depth", "delta", "done"}]
      /\ stack \in [Actor -> Seq(Base)] /\ SameObjects
      /\ pc[t] = "work" /\ stack[t] = <<>>
  BY <1>0, UnchangedObjects, Types, Zenon DEF IInv, TypeOK, Phases
<1>2. CASE next = {}
  <2>1. pc' = [pc EXCEPT ![t] = "done"] /\ dispatched' = initial /\ stack' = stack
    BY <1>2
  <2>2. pc'[t] = "done" /\ \A u \in Actor \ {t} : pc'[u] = pc[u]
    BY <1>0, <1>1, <2>1
  <2>3. dispatched <= dispatched' /\ dispatched' \in 0..initial
    BY <2>1, Types DEF IInv
  <2>4. \A u \in Actor : StackKnown(u)'
    BY <1>1, <2>1, <2>3, StackKept, Types DEF IInv
  <2>5. Apart'
    BY <2>1 DEF IInv, Apart, Pos
  <2>6. TypeOK'
    BY <1>0, <2>1, <2>3 DEF IInv, TypeOK
  <2>7. Phases'
    BY <1>0, <1>1, <2>1, <2>2, PhasesKept
  <2>8. Resolving(t)'
    BY <2>2 DEF Resolving, Busy
  <2> QED
    BY <1>0, <2>1, <2>2, <2>4, <2>5, <2>6, <2>7, <2>8, Quiet
<1>3. CASE next # {}
  <2>0. PICK i : i = Min(next)
    OBVIOUS
  <2> DEFINE b == NewBase(i)
  <2>1. pc' = [pc EXCEPT ![t] = "enter"] /\ dispatched' = i /\ stack' = [stack EXCEPT ![t] = <<b>>]
    BY <1>3, <2>0
  <2>2. pc'[t] = "enter" /\ \A u \in Actor \ {t} : pc'[u] = pc[u]
    BY <1>0, <1>1, <2>1
  <2>3. i \in next
    <3>1. initial \in Nat /\ dispatched \in 0..initial
      BY Types DEF IInv
    <3>2. next \subseteq Nat
      BY <3>1 DEF bases_from
    <3> QED
      BY <1>3, <2>0, <3>2, Smallest
  <2>4. i \in Original /\ ~is_delta(i) /\ dispatched < i /\ dispatched' \in 0..initial
    BY <2>1, <2>3, Types DEF IInv, bases_from, Original
  <2>5. b \in Base /\ b.obj = i /\ b.todo = {}
    BY <2>4, Types DEF IInv, NewBase, Base, Original
  <2> HIDE DEF b
  <2>6. /\ stack' \in [Actor -> Seq(Base)] /\ \A u \in Actor \ {t} : stack'[u] = stack[u]
        /\ stack'[t] = <<b>> /\ Pos(t)' = {1} /\ stack'[t][1] = b /\ stack'[t] # <<>>
        /\ Len(stack'[t]) = 1
    BY <1>0, <1>1, <2>1, <2>5 DEF Pos
  <2>7. \A u \in Actor \ {t} : StackKnown(u)'
    BY <1>1, <2>1, <2>4, <2>6, StackKept, Types DEF IInv
  <2>8. StackKnown(t)'
    <3>1. i \in DOMAIN objects /\ TypeOK
      BY <2>4, Types DEF IInv
    <3>2. i \in DOMAIN objects' /\ ~is_delta(i)'
      BY <1>1, <2>4, <3>1, ChildrenKept DEF SameObjects
    <3>3. i <= dispatched'
      BY <2>1, <2>4 DEF Original
    <3>4. \A k \in Pos(t)' : stack'[t][k].obj = i /\ stack'[t][k].todo = {}
      BY <2>5, <2>6
    <3> QED
      BY <3>2, <3>3, <3>4 DEF StackKnown
  <2>9. Apart'
    <3>1. \A u \in Thread : \A j \in Pos(u) : stack[u][j].obj # i
      BY <2>4, Types DEF IInv, StackKnown, Actor
    <3>2. stack[Main] = <<>> /\ Pos(Main) = {}
      <4>1. pc[Main] = "wait"
        BY <1>1 DEF IInv, Phases
      <4>2. stack[Main] = <<>>
        BY <4>1 DEF IInv, Phases, Actor
      <4> QED
        BY <4>2 DEF Pos
    <3>3. \A u \in Actor : \A j \in Pos(u) : stack[u][j].obj # i
      BY <3>1, <3>2 DEF Actor
    <3>4. \A k \in Pos(t)' : \/ k \in Pos(t) /\ stack'[t][k].obj = stack[t][k].obj
                             \/ /\ k = Len(stack'[t])
                                /\ \A u \in Actor : \A j \in Pos(u) :
                                     stack[u][j].obj # stack'[t][k].obj
      BY <2>5, <2>6, <3>3
    <3>5. \A u \in Actor \ {t} : stack'[u] = stack[u]
      BY <2>6
    <3> QED
      BY <1>0, <3>4, <3>5, ApartKept
  <2>10. TypeOK'
    BY <1>0, <2>1, <2>4, <2>6 DEF IInv, TypeOK, Base, Original
  <2>11. Phases'
    BY <1>0, <1>1, <2>1, <2>2, <2>6, PhasesKept
  <2>12. Resolving(t)'
    BY <2>2 DEF Resolving, Busy
  <2> QED
    BY <1>0, <2>2, <2>6, <2>7, <2>8, <2>9, <2>10, <2>11, <2>12, Quiet
<1> QED
  BY <1>2, <1>3

\* Who is busy is at an object of its stack, and resolves a delta of it.
LEMMA AtWork ==
  ASSUME IInv, NEW t \in Actor, Busy(t)
  PROVE  LET n == Len(stack[t])
         IN  /\ n \in Pos(t) /\ stack[t][n] \in Base /\ stack[t][n].obj \in DOMAIN objects
             /\ child[t] \in stack[t][n].todo
             /\ child[t] \in Original /\ times[child[t]] = 0 /\ is_delta(child[t])
<1> DEFINE n == Len(stack[t])
<1>1. stack[t] # <<>> /\ child[t] \in stack[t][n].todo /\ times[child[t]] = 0
  BY DEF IInv, Resolving
<1>2. stack[t] \in Seq(Base) /\ n \in Nat
  BY Types DEF IInv
<1>3. n \in Pos(t) /\ stack[t][n] \in Base
  BY <1>1, <1>2, EmptySeq, ElementOfSeq DEF Pos
<1>4. stack[t][n].obj \in DOMAIN objects /\ stack[t][n].todo \subseteq Children(stack[t][n].obj)
  BY <1>3 DEF IInv, StackKnown
<1>5. child[t] \in Original /\ is_delta(child[t])
  BY <1>1, <1>4 DEF Children, RefChildren, OfsChildren, Deltas, Original
<1> QED
  BY <1>1, <1>3, <1>4, <1>5

\* What SetType does
LEMMA Typed ==
  ASSUME IInv, NEW t \in Actor, SetType(t)
  PROVE  LET b == stack[t][Len(stack[t])].obj
             d == child[t]
         IN  /\ pc \in [Actor -> {"wait", "work", "enter", "base", "type", "depth", "delta", "done"}]
             /\ pc[t] = "type" /\ Busy(t) /\ pc'[t] \in {"depth", "delta"}
             /\ pc' = [pc EXCEPT ![t] = pc'[t]] /\ \A u \in Actor \ {t} : pc'[u] = pc[u]
             /\ UNCHANGED <<initial, dispatched, resolved, deepest, times, stack, child, left, room,
                           result>>
             /\ b \in DOMAIN objects /\ d \in Original /\ d \in DOMAIN objects /\ times[d] = 0
             /\ stack[t] # <<>> /\ d \in stack[t][Len(stack[t])].todo
             /\ SameObjects /\ objects' \in Seq(Obj) /\ Len(objects') = Len(objects)
             /\ DOMAIN objects' = DOMAIN objects
             /\ \A i \in DOMAIN objects \ {d} : objects'[i] = objects[i]
             /\ objects'[d].real = TRUE /\ objects'[d].of = b
             /\ objects'[d].depth = objects[b].depth + 1
<1> DEFINE b == stack[t][Len(stack[t])].obj
           d == child[t]
           o == [objects[d] EXCEPT !.real = TRUE, !.depth = objects[b].depth + 1, !.of = b]
           q == IF deepest < objects[b].depth + 1 THEN "depth" ELSE "delta"
<1>1. /\ pc \in [Actor -> {"wait", "work", "enter", "base", "type", "depth", "delta", "done"}]
      /\ pc[t] = "type" /\ pc' = [pc EXCEPT ![t] = q]
      /\ objects' = [objects EXCEPT ![d] = o]
      /\ UNCHANGED <<initial, dispatched, resolved, deepest, times, stack, child, left, room, result>>
  BY Zenon DEF IInv, TypeOK, Last, SetType
<1>2. Busy(t) /\ pc'[t] \in {"depth", "delta"} /\ \A u \in Actor \ {t} : pc'[u] = pc[u]
  BY <1>1 DEF Busy
<1>3. /\ b \in DOMAIN objects /\ b \in Nat /\ d \in Original /\ d \in DOMAIN objects
      /\ times[d] = 0 /\ stack[t] # <<>> /\ d \in stack[t][Len(stack[t])].todo
  <2>1. b \in DOMAIN objects /\ d \in Original /\ times[d] = 0
        /\ d \in stack[t][Len(stack[t])].todo
    BY <1>2, AtWork
  <2>2. DOMAIN objects \subseteq Nat /\ Original \subseteq DOMAIN objects
    BY Types DEF IInv
  <2> QED
    BY <1>2, <2>1, <2>2 DEF IInv, Resolving
<1>4. /\ o \in Obj /\ o.real = TRUE /\ o.name = objects[d].name /\ o.type = objects[d].type
      /\ o.base = objects[d].base /\ o.of = b /\ o.depth = objects[b].depth + 1
  <2>1. objects[b] \in Obj /\ objects[d] \in Obj
    BY <1>3, Types DEF IInv
  <2>2. objects[b].depth + 1 \in Nat
    BY <2>1 DEF Obj
  <2> DEFINE New(x, m, i) == [x EXCEPT !.real = TRUE, !.depth = m, !.of = i]
  <2>3. ASSUME NEW x \in Obj, NEW m \in Nat, NEW i \in Nat
        PROVE  /\ New(x, m, i) \in Obj /\ New(x, m, i).real = TRUE /\ New(x, m, i).name = x.name
               /\ New(x, m, i).type = x.type /\ New(x, m, i).base = x.base
    BY DEF Obj
  <2>4. ASSUME NEW x \in Obj, NEW m \in Nat, NEW i \in Nat
        PROVE  New(x, m, i).depth = m /\ New(x, m, i).of = i
    BY DEF Obj
  <2>5. b \in Nat /\ objects[b].depth + 1 \in Nat /\ objects[d] \in Obj
    BY <1>3, <2>1, <2>2
  <2>6. o = New(objects[d], objects[b].depth + 1, b)
    OBVIOUS
  <2> HIDE DEF New, o, b, d
  <2>7. o \in Obj /\ o.real = TRUE
    BY <2>3, <2>5, <2>6
  <2>8. o.name = objects[d].name
    BY <2>3, <2>5, <2>6
  <2>9. o.type = objects[d].type
    BY <2>3, <2>5, <2>6
  <2>10. o.base = objects[d].base
    BY <2>3, <2>5, <2>6
  <2>11. o.of = b
    BY <2>4, <2>5, <2>6
  <2>12. o.depth = objects[b].depth + 1
    BY <2>4, <2>5, <2>6
  <2> QED
    BY <2>7, <2>8, <2>9, <2>10, <2>11, <2>12
<1> HIDE DEF o
<1>5. /\ objects' \in Seq(Obj) /\ Len(objects') = Len(objects) /\ DOMAIN objects' = DOMAIN objects
      /\ \A i \in DOMAIN objects : objects'[i] = IF i = d THEN o ELSE objects[i]
  <2>1. objects \in Seq(Obj) /\ DOMAIN objects = 1..Len(objects)
    BY Types DEF IInv
  <2> QED
    BY <1>1, <1>3, <1>4, <2>1, ExceptSeq
<1>6. SameObjects
  BY <1>1, <1>4, <1>5 DEF SameObjects
<1>7. pc' = [pc EXCEPT ![t] = pc'[t]]
  BY <1>1
<1> QED
  BY <1>1, <1>2, <1>3, <1>4, <1>5, <1>6, <1>7

LEMMA SetTypeStep ==
  ASSUME IInv, NEW t \in Actor, SetType(t)
  PROVE  IInv'
<1> DEFINE d == child[t]
<1>1. /\ pc \in [Actor -> {"wait", "work", "enter", "base", "type", "depth", "delta", "done"}]
      /\ pc[t] = "type" /\ pc' = [pc EXCEPT ![t] = pc'[t]]
      /\ UNCHANGED <<initial, dispatched, resolved, deepest, times, stack, child, left, room, result>>
  BY Typed
<1>2. Busy(t) /\ pc'[t] \in {"depth", "delta"} /\ \A u \in Actor \ {t} : pc'[u] = pc[u]
  BY Typed
<1>3. /\ d \in Original /\ d \in DOMAIN objects /\ times[d] = 0 /\ stack[t] # <<>>
      /\ d \in stack[t][Len(stack[t])].todo
  BY Typed
<1>4. \A i \in DOMAIN objects \ {d} : objects'[i] = objects[i]
  BY Typed
<1>5. /\ objects' \in Seq(Obj) /\ Len(objects') = Len(objects) /\ DOMAIN objects' = DOMAIN objects
      /\ objects'[d].real
  BY Typed
<1>6. SameObjects
  BY Typed
<1>7. ObjectsKnown'
  BY <1>5, <1>6, ObjectsKept DEF IInv
<1>8. TypeOK'
  <2>1. Len(objects) \in Nat /\ initial <= Len(objects)
    BY Types DEF IInv, TypeOK
  <2>2. pc' \in [Actor -> {"wait", "work", "enter", "base", "type", "depth", "delta", "done"}]
    BY <1>1, <1>2
  <2> QED
    BY <1>1, <1>5, <2>1, <2>2 DEF IInv, TypeOK, Obj
<1>9. Apart'
  BY <1>1 DEF IInv, Apart, Pos
<1>10. \A u \in Actor : StackKnown(u)'
  BY <1>1, <1>6, StackKept, Types DEF IInv
<1>11. Phases'
  <2>1. t \in Thread => pc[Main] = "wait"
    BY <1>2 DEF IInv, Phases, Busy
  <2>2. Phases
    BY DEF IInv
  <2>3. Main \in Actor /\ Thread \subseteq Actor
    BY DEF Actor
  <2>4. pc'[t] \notin {"enter", "wait", "work", "done"} /\ pc[t] \notin {"wait", "done"}
    BY <1>1, <1>2
  <2> QED
    BY <1>1, <1>2, <1>5, <2>1, <2>2, <2>3, <2>4 DEF Phases
<1>12. \A u \in Actor \ {t} : Resolving(u)'
  <2>1. ASSUME NEW u \in Actor \ {t}, Busy(u) PROVE objects'[child[u]].real = objects[child[u]].real
    <3>1. child[u] # d
      BY <1>2, <2>1, BusyApart
    <3>2. child[u] \in DOMAIN objects
      BY <2>1, AtWork, Types DEF IInv
    <3> QED
      BY <1>4, <3>1, <3>2
  <2> QED
    BY <1>1, <1>2, <2>1, DeltaKept DEF IInv
<1>13. Resolving(t)'
  BY <1>1, <1>2, <1>3, <1>4, <1>5 DEF Resolving
<1>14. Once'
  <2>1. \A i \in Original : /\ i \in DOMAIN objects /\ is_delta(i)' = is_delta(i)
                            /\ objects[i].real => objects'[i].real
    BY <1>4, <1>5, <1>6, ChildrenKept, Types DEF IInv
  <2> QED
    BY <1>1, <2>1 DEF IInv, Once, Original
<1>15. Counts'
  BY <1>1, <1>5 DEF IInv, Counts, ResolvedOnes, Original
<1> QED
  BY <1>7, <1>8, <1>9, <1>10, <1>11, <1>12, <1>13, <1>14, <1>15 DEF IInv, Actor

\* The base that is needed is not dropped.
LEMMA BaseThere ==
  ASSUME NEW t, NEW c
  PROVE  Len(stack[t]) \in get_base_data(t, c).data
<1> DEFINE n == Len(stack[t])
<1>1. ASSUME NEW a PROVE n \in filled(t, a, n).data
  BY DEF filled, prune, dropped_from
<1>2. n \in c.data => get_base_data(t, c) = c
  BY DEF get_base_data
<1>3. n \notin c.data => get_base_data(t, c) = filled(t, inflated(t, c), n)
  BY DEF get_base_data
<1> HIDE DEF n
<1> QED
  BY <1>1, <1>2, <1>3 DEF n

\* What Resolve does
LEMMA Descended ==
  ASSUME IInv, NEW t \in Actor, Resolve(t)
  PROVE  LET n == Len(stack[t])
             d == child[t]
         IN  /\ pc \in [Actor -> {"wait", "work", "enter", "base", "type", "depth", "delta", "done"}]
             /\ pc[t] = "delta" /\ Busy(t) /\ pc'[t] = "enter"
             /\ pc' = [pc EXCEPT ![t] = "enter"] /\ \A u \in Actor \ {t} : pc'[u] = pc[u]
             /\ UNCHANGED <<objects, initial, dispatched, deepest, child, left, room, result>>
             /\ n \in Pos(t) /\ d \in Original /\ times[d] = 0 /\ is_delta(d)
             /\ times \in [Original -> Nat] /\ times' = [times EXCEPT ![d] = 1]
             /\ times' \in [Original -> Nat] /\ resolved' = resolved + 1
             /\ stack' \in [Actor -> Seq(Base)] /\ \A u \in Actor \ {t} : stack'[u] = stack[u]
             /\ stack'[t] # <<>> /\ Len(stack'[t]) = n + 1 /\ n \in Nat
             /\ stack'[t][n + 1].obj = d /\ stack'[t][n + 1].todo = {}
             /\ \A k \in Pos(t) :
                  /\ stack'[t][k].obj = stack[t][k].obj
                  /\ stack'[t][k].todo = stack[t][k].todo \ (IF k = n THEN {d} ELSE {})
<1> DEFINE n == Len(stack[t])
           todo == stack[t][n].todo \ {child[t]}
<1>1. /\ pc \in [Actor -> {"wait", "work", "enter", "base", "type", "depth", "delta", "done"}]
      /\ pc[t] = "delta"
      /\ UNCHANGED <<objects, initial, dispatched, deepest, child, left, room>>
  BY Zenon DEF IInv, TypeOK, Resolve
<1>2. /\ resolved' = resolved + 1 /\ times' = [times EXCEPT ![child[t]] = @ + 1]
      /\ stack' = [stack EXCEPT ![t] = Append([@ EXCEPT ![n].todo = todo], NewBase(child[t]))]
      /\ pc' = [pc EXCEPT ![t] = "enter"] /\ result' = result
  <2>1. n \in get_base_data(t, Cache(t)).data
    BY BaseThere
  <2> QED
    BY <2>1, Zenon DEF Resolve
<1>3. PICK d : d = child[t]
  OBVIOUS
<1>4. /\ n \in Pos(t) /\ stack[t][n] \in Base /\ d \in Original /\ times[d] = 0 /\ is_delta(d)
      /\ Busy(t)
  BY <1>1, <1>3, AtWork DEF Busy
<1>5. pc'[t] = "enter" /\ \A u \in Actor \ {t} : pc'[u] = pc[u]
  BY <1>1, <1>2
<1>6. /\ times \in [Original -> Nat] /\ times' = [times EXCEPT ![d] = 1]
      /\ times' \in [Original -> Nat]
  <2>1. times \in [Original -> Nat]
    BY DEF IInv, TypeOK, Original
  <2> QED
    BY <1>2, <1>3, <1>4, <2>1
<1> DEFINE b == [stack[t][n] EXCEPT !.todo = todo]
           s == [stack[t] EXCEPT ![n] = b]
<1>7. stack' = [stack EXCEPT ![t] = Append(s, NewBase(d))]
  BY <1>2, <1>3
<1>8. /\ b \in Base /\ b.obj = stack[t][n].obj /\ b.todo = todo
      /\ NewBase(d) \in Base /\ NewBase(d).obj = d /\ NewBase(d).todo = {}
  <2>1. d \in Nat /\ todo \subseteq Original
    BY <1>4, Types DEF IInv, Base, Original
  <2>2. b \in Base /\ b.obj = stack[t][n].obj /\ b.todo = todo
    BY <1>4, <2>1 DEF Base
  <2>3. NewBase(d) \in Base /\ NewBase(d).obj = d /\ NewBase(d).todo = {}
    BY <2>1 DEF Base, NewBase
  <2> QED
    BY <2>2, <2>3
<1> HIDE DEF b
<1>9. stack \in [Actor -> Seq(Base)] /\ stack[t] \in Seq(Base) /\ n \in Nat
  BY Types DEF IInv
<1>10. /\ s \in Seq(Base) /\ Len(s) = n
       /\ \A k \in 1..n : s[k] = IF k = n THEN b ELSE stack[t][k]
  BY <1>4, <1>8, <1>9, ExceptSeq DEF Pos
<1> HIDE DEF s
<1>11. /\ stack'[t] \in Seq(Base) /\ stack'[t] # <<>> /\ Len(stack'[t]) = n + 1
       /\ \A k \in 1..n : stack'[t][k] = s[k]
       /\ stack'[t][n + 1] = NewBase(d)
  BY <1>7, <1>8, <1>9, <1>10, AppendProperties
<1>12. stack' \in [Actor -> Seq(Base)] /\ \A u \in Actor \ {t} : stack'[u] = stack[u]
  BY <1>7, <1>9, <1>11
<1>13. \A k \in Pos(t) : /\ stack'[t][k].obj = stack[t][k].obj
                         /\ stack'[t][k].todo = stack[t][k].todo \ (IF k = n THEN {d} ELSE {})
  BY <1>3, <1>8, <1>10, <1>11 DEF Pos
<1> HIDE DEF todo, n
<1> QED
  BY <1>1, <1>2, <1>3, <1>4, <1>5, <1>6, <1>8, <1>9, <1>11, <1>12, <1>13 DEF n

LEMMA ResolveStep ==
  ASSUME IInv, NEW t \in Actor, Resolve(t)
  PROVE  IInv'
<1>1. PICK d, n : d = child[t] /\ n = Len(stack[t])
  OBVIOUS
<1>2. /\ pc \in [Actor -> {"wait", "work", "enter", "base", "type", "depth", "delta", "done"}]
      /\ pc[t] = "delta" /\ Busy(t) /\ pc'[t] = "enter"
      /\ pc' = [pc EXCEPT ![t] = "enter"] /\ \A u \in Actor \ {t} : pc'[u] = pc[u]
      /\ UNCHANGED <<objects, initial, dispatched, deepest, child, left, room, result>>
  BY Descended
<1>3. n \in Pos(t) /\ d \in Original /\ times[d] = 0 /\ is_delta(d)
  BY <1>1, Descended
<1>4. /\ times \in [Original -> Nat] /\ times' = [times EXCEPT ![d] = 1]
      /\ times' \in [Original -> Nat] /\ resolved' = resolved + 1
  BY <1>1, Descended
<1>5. /\ stack' \in [Actor -> Seq(Base)] /\ \A u \in Actor \ {t} : stack'[u] = stack[u]
      /\ stack'[t] # <<>> /\ Len(stack'[t]) = n + 1 /\ n \in Nat
      /\ stack'[t][n + 1].obj = d /\ stack'[t][n + 1].todo = {}
  BY <1>1, Descended
<1>6. \A k \in Pos(t) : /\ stack'[t][k].obj = stack[t][k].obj
                        /\ stack'[t][k].todo \subseteq stack[t][k].todo
  BY Descended
<1>7. \A k \in Pos(t)' : \/ /\ k \in Pos(t) /\ stack'[t][k].obj = stack[t][k].obj
                             /\ stack'[t][k].todo \subseteq stack[t][k].todo
                         \/ /\ k = Len(stack'[t]) /\ stack'[t][k].obj = d
                             /\ stack'[t][k].todo = {}
  <2>1. \A k \in Pos(t)' : k \in Pos(t) \/ k = n + 1
    BY <1>1, <1>5 DEF Pos
  <2> QED
    BY <1>5, <1>6, <2>1
<1>8. SameObjects /\ ObjectsKnown'
  BY <1>2, UnchangedObjects, ObjectsKept DEF IInv
<1>9. Apart'
  <2>1. \A u \in Actor : \A j \in Pos(u) : stack[u][j].obj # d
    BY <1>3 DEF IInv, StackKnown
  <2> QED
    BY <1>5, <1>7, <2>1, ApartKept
<1>10. StackKnown(t)'
  <2>1. \A i \in DOMAIN objects : /\ is_delta(i)' = is_delta(i) /\ Children(i)' = Children(i)
                                  /\ i \in DOMAIN objects'
    BY <1>8, ChildrenKept DEF IInv, SameObjects
  <2>2. d \in DOMAIN objects
    BY <1>3, Types DEF IInv
  <2>3. \A i \in DOMAIN objects : is_delta(i) => i \in Original
    BY Types DEF IInv, ObjectsKnown, Original
  <2>4. \A i \in Original : times[i] > 0 => times'[i] > 0
    BY <1>4
  <2>5. times'[d] > 0
    BY <1>3, <1>4
  <2>6. StackKnown(t)
    BY DEF IInv
  <2>7. ASSUME NEW k \in Pos(t)', NEW i, i = stack'[t][k].obj
        PROVE  /\ i \in DOMAIN objects'
               /\ is_delta(i)' => times'[i] > 0
               /\ t \in Thread /\ ~is_delta(i)' => i <= dispatched'
               /\ stack'[t][k].todo \subseteq Children(i)'
    <3>1. CASE i = d /\ stack'[t][k].todo = {}
      BY <1>3, <2>1, <2>2, <2>5, <3>1
    <3>2. CASE /\ k \in Pos(t) /\ i = stack[t][k].obj
               /\ stack'[t][k].todo \subseteq stack[t][k].todo
      BY <1>2, <2>1, <2>3, <2>4, <2>6, <3>2 DEF StackKnown
    <3> QED
      BY <1>7, <2>7, <3>1, <3>2
  <2> QED
    BY <2>7 DEF StackKnown
<1>11. \A u \in Actor \ {t} : StackKnown(u)'
  BY <1>2, <1>8, <1>4, <1>5, StackKept, Types DEF IInv
<1>12. \A u \in Actor \ {t} : Resolving(u)'
  <2>1. ASSUME NEW u \in Actor \ {t}, Busy(u) PROVE times'[child[u]] = times[child[u]]
    <3>1. child[u] # d /\ child[u] \in Original
      BY <1>1, <1>2, <2>1, BusyApart, AtWork
    <3> QED
      BY <1>4, <3>1
  <2> QED
    BY <1>2, <1>5, <2>1, DeltaKept DEF IInv
<1>13. Resolving(t)'
  BY <1>2 DEF Resolving, Busy
<1>14. Phases'
  BY <1>2, <1>4, <1>5, PhasesKept
<1>15. Once'
  <2>1. objects[d].real
    BY <1>1, <1>2 DEF IInv, Resolving
  <2> QED
    BY <1>2, <1>3, <1>4, <2>1 DEF IInv, Once, Original, is_delta
<1>16. Counts'
  <2>1. ResolvedOnes' = ResolvedOnes \cup {d} /\ d \notin ResolvedOnes
    BY <1>2, <1>3, <1>4 DEF ResolvedOnes, Original
  <2>2. IsFiniteSet(ResolvedOnes)
    <3>1. IsFiniteSet(Original)
      BY Types, FS_Interval DEF IInv, Original
    <3> QED
      BY <3>1, FS_Subset DEF ResolvedOnes
  <2>3. Cardinality(ResolvedOnes') = Cardinality(ResolvedOnes) + 1
    BY <2>1, <2>2, FS_AddElement
  <2> QED
    BY <1>2, <1>4, <2>3 DEF IInv, Counts
<1>17. TypeOK'
  <2>1. pc' \in [Actor -> {"wait", "work", "enter", "base", "type", "depth", "delta", "done"}]
    BY <1>2, <1>4
  <2>2. resolved' \in Nat
    <3>1. resolved \in Nat
      BY Zenon DEF IInv, TypeOK
    <3> QED
      BY <1>4, <3>1
  <2>3. /\ times' \in [1..initial -> Nat]
        /\ stack' \in [Actor -> Seq([obj : Nat, linked : BOOLEAN, todo : SUBSET (1..initial)])]
    BY <1>4, <1>5 DEF Base, Original
  <2> QED
    BY <1>2, <1>4, <2>1, <2>2, <2>3 DEF IInv, TypeOK
<1> QED
  BY <1>8, <1>9, <1>10, <1>11, <1>12, <1>13, <1>14, <1>15, <1>16, <1>17 DEF IInv, Actor

LEMMA WalkStep ==
  ASSUME IInv, NEW t \in Actor, Walk(t)
  PROVE  IInv'
BY EnterStep, NextDeltaStep, SetTypeStep, SetDeepestStep, ResolveStep, LeaveStep, ReturnStep
   DEF Walk

LEMMA MainAtWork ==
  ASSUME IInv, pc[Main] \in {"wait", "work"}
  PROVE  /\ pc \in [Actor -> {"wait", "work", "enter", "base", "type", "depth", "delta", "done"}]
         /\ Main \in Actor /\ Main \notin Thread /\ stack[Main] = <<>>
         /\ \A u \in Actor \ {Main} : u \in Thread
<1>1. Main \in Actor /\ Main \notin Thread /\ \A u \in Actor \ {Main} : u \in Thread
  BY IndexPackAssumption DEF Actor
<1> QED
  BY <1>1, Zenon DEF IInv, TypeOK, Phases

\* The deltas that are left for the third pass are no more than those that are not resolved.
LEMMA ConcludeStep ==
  ASSUME IInv, Conclude
  PROVE  IInv'
<1> DEFINE unresolved == Cardinality(Deltas) - resolved
           open == {d \in Deltas : objects[d].type = "ref" /\ ~objects[d].real}
<1>1. /\ pc[Main] = "wait" /\ pc' = [pc EXCEPT ![Main] = "work"]
      /\ \A t \in Thread : pc[t] = "done"
      /\ UNCHANGED <<objects, initial, dispatched, resolved, deepest, times, stack, child>>
      /\ result' \in {"ok", "unresolved", "confusion", "none"}
      /\ \/ left' = left /\ room' = room
         \/ left' = open /\ room' = initial + unresolved + 1 /\ ~(unresolved < 0)
  BY DEF Conclude, enlarged
<1>2. /\ pc \in [Actor -> {"wait", "work", "enter", "base", "type", "depth", "delta", "done"}]
      /\ Main \in Actor /\ stack[Main] = <<>>
  BY <1>1, MainAtWork
<1>3. pc'[Main] = "work" /\ \A u \in Actor \ {Main} : pc'[u] = pc[u]
  BY <1>1, <1>2
<1>4. /\ SameObjects /\ ObjectsKnown' /\ Once'
      /\ \A u \in Actor \ {Main} : Resolving(u)'
  BY <1>1, <1>2, <1>3, Frame
<1>5. Resolving(Main)'
  BY <1>3 DEF Resolving, Busy
<1>6. Apart' /\ \A u \in Actor : StackKnown(u)'
  BY <1>1, <1>2, Shrunk
<1>7. Phases'
  <2>1. Phases /\ Main \notin Thread /\ Thread \subseteq Actor
    BY IndexPackAssumption DEF IInv, Actor
  <2> QED
    BY <1>1, <1>2, <1>3, <2>1 DEF Phases
<1>8. IsFiniteSet(Deltas) /\ Cardinality(Deltas) \in Nat /\ Deltas \subseteq Original
  <2>1. IsFiniteSet(Original)
    BY Types, FS_Interval DEF IInv, Original
  <2> QED
    BY <2>1, FS_Subset, FS_CardinalityType DEF Deltas, Original
<1>9. Cardinality(open) \in Nat /\ Cardinality(open) <= unresolved
  <2>1. ResolvedOnes \subseteq Deltas
    BY DEF IInv, Once, ResolvedOnes, Deltas, Original
  <2>2. open \subseteq Deltas \ ResolvedOnes
    BY DEF IInv, Once, ResolvedOnes
  <2>3. IsFiniteSet(Deltas \ ResolvedOnes)
    BY <1>8, FS_Difference
  <2>4. Cardinality(Deltas \ ResolvedOnes) = Cardinality(Deltas) - Cardinality(Deltas \cap ResolvedOnes)
    BY <1>8, FS_Difference
  <2>5. Deltas \cap ResolvedOnes = ResolvedOnes /\ resolved = Cardinality(ResolvedOnes)
    BY <2>1 DEF IInv, Counts
  <2>6. Cardinality(open) <= Cardinality(Deltas \ ResolvedOnes) /\ IsFiniteSet(open)
    BY <2>2, <2>3, FS_Subset
  <2>7. Cardinality(open) \in Nat
    BY <2>6, FS_CardinalityType
  <2> QED
    BY <2>4, <2>5, <2>6, <2>7
<1>10. Counts'
  <2>1. ResolvedOnes' = ResolvedOnes /\ Counts
    BY <1>1 DEF IInv, ResolvedOnes, Original
  <2>2. Len(objects) = initial /\ initial \in Nat
    BY <1>1, Types DEF IInv, Phases
  <2>3. CASE left' = left /\ room' = room
    BY <1>1, <2>1, <2>3 DEF Counts
  <2>4. CASE left' = open /\ room' = initial + unresolved + 1
    <3>1. resolved \in Int
      BY Types DEF IInv
    <3> HIDE DEF open
    <3>2. Len(objects) + Cardinality(open) + 1 <= room'
      BY <1>8, <1>9, <2>2, <2>4, <3>1
    <3> QED
      BY <1>1, <2>1, <2>4, <3>2 DEF Counts
  <2> QED
    BY <1>1, <2>3, <2>4
<1>11. TypeOK'
  <2>1. resolved \in Nat /\ room \in Nat /\ left \subseteq Original /\ initial \in Nat
    BY DEF IInv, TypeOK, Original
  <2>2. open \subseteq Original
    BY <1>8
  <2>3. left' \subseteq Original /\ room' \in Nat
    BY <1>1, <1>8, <2>1, <2>2
  <2>4. pc' \in [Actor -> {"wait", "work", "enter", "base", "type", "depth", "delta", "done"}]
    BY <1>1, <1>2
  <2> QED
    BY <1>1, <2>3, <2>4 DEF IInv, TypeOK, Original
<1> QED
  BY <1>2, <1>4, <1>5, <1>6, <1>7, <1>10, <1>11 DEF IInv, Actor

\* What is appended takes the place of the delta for which it is.
LEMMA FixStep ==
  ASSUME IInv, Fix
  PROVE  IInv'
<1>1. PICK d : d = Min(left)
  OBVIOUS
<1>2. /\ pc[Main] = "work" /\ left # {} /\ left' = left \ {d}
      /\ UNCHANGED <<initial, dispatched, resolved, deepest, times, child, room, result>>
      /\ \/ UNCHANGED <<objects, stack, pc>>
         \/ /\ objects[d].base \in Local
            /\ \E junk \in Junk :
                 objects' = Append(objects, [name |-> objects[d].base, type |-> "base", base |-> 0,
                                             real |-> TRUE, depth |-> junk, of |-> 0])
            /\ stack' = [stack EXCEPT ![Main] = <<NewBase(Len(objects) + 1)>>]
            /\ pc' = [pc EXCEPT ![Main] = "enter"]
  BY <1>1 DEF Fix
<1>3. /\ pc \in [Actor -> {"wait", "work", "enter", "base", "type", "depth", "delta", "done"}]
      /\ Main \in Actor /\ Main \notin Thread /\ stack[Main] = <<>>
  BY <1>2, MainAtWork
<1>4. left \subseteq Original /\ d \in left /\ d \in Original
  <2>1. left \subseteq Original
    BY Zenon DEF IInv, TypeOK, Original
  <2>2. d \in left
    <3>1. left \subseteq Nat
      BY <2>1 DEF Original
    <3> QED
      BY <1>1, <1>2, <3>1, Smallest
  <2> QED
    BY <2>1, <2>2
<1>5. left' \subseteq Original /\ Cardinality(left') = Cardinality(left) - 1
      /\ Cardinality(left) \in Nat
  <2>1. IsFiniteSet(Original)
    BY Types, FS_Interval DEF IInv, Original
  <2>2. IsFiniteSet(left) /\ Cardinality(left) \in Nat
    BY <1>4, <2>1, FS_Subset, FS_CardinalityType
  <2> QED
    BY <1>2, <1>4, <2>2, FS_RemoveElement
<1>6. Len(objects) + Cardinality(left) + 1 <= room /\ Len(objects) \in Nat /\ room \in Nat
  BY Types DEF IInv, Counts
<1>7. CASE UNCHANGED <<objects, stack, pc>>
  <2>1. /\ ObjectsKnown' /\ Once' /\ \A u \in Actor \ {Main} : Resolving(u)'
    BY <1>2, <1>3, <1>7, Frame
  <2>2. Resolving(Main)'
    BY <1>2, <1>7 DEF Resolving, Busy
  <2>3. Apart' /\ \A u \in Actor : StackKnown(u)'
    BY <1>2, <1>3, <1>7, Shrunk
  <2>4. Phases'
    BY <1>2, <1>7 DEF IInv, Phases
  <2>5. Counts'
    <3>1. ResolvedOnes' = ResolvedOnes
      BY <1>2 DEF ResolvedOnes, Original
    <3>2. Len(objects) + Cardinality(left') + 1 <= room
      BY <1>5, <1>6
    <3> QED
      BY <1>2, <1>7, <3>1, <3>2 DEF IInv, Counts
  <2>6. TypeOK'
    BY <1>2, <1>5, <1>7 DEF IInv, TypeOK, Original
  <2> QED
    BY <1>3, <2>1, <2>2, <2>3, <2>4, <2>5, <2>6 DEF IInv, Actor
<1>8. CASE /\ objects[d].base \in Local
           /\ \E junk \in Junk :
                objects' = Append(objects, [name |-> objects[d].base, type |-> "base", base |-> 0,
                                            real |-> TRUE, depth |-> junk, of |-> 0])
           /\ stack' = [stack EXCEPT ![Main] = <<NewBase(Len(objects) + 1)>>]
           /\ pc' = [pc EXCEPT ![Main] = "enter"]
  <2>1. PICK o \in Obj : o.type = "base" /\ objects' = Append(objects, o)
    <3>1. Local \subseteq Name /\ Junk \subseteq Nat
      BY IndexPackAssumption
    <3>2. \A junk \in Junk :
            [name |-> objects[d].base, type |-> "base", base |-> 0,
             real |-> TRUE, depth |-> junk, of |-> 0] \in Obj
      BY <1>8, <3>1 DEF Obj
    <3> QED
      BY <1>8, <3>2
  <2>2. PICK last : last = Len(objects) + 1
    OBVIOUS
  <2>3. objects \in Seq(Obj) /\ DOMAIN objects = 1..Len(objects) /\ initial \in Nat
        /\ initial <= Len(objects)
    BY Types DEF IInv, TypeOK
  <2>4. /\ objects' \in Seq(Obj) /\ Len(objects') = last /\ DOMAIN objects' = 1..last
        /\ \A i \in DOMAIN objects : objects'[i] = objects[i]
        /\ objects'[last] = o
    BY <2>1, <2>2, <2>3, AppendProperties
  <2>5. SameObjects
    BY <1>2, <1>6, <2>2, <2>3, <2>4 DEF SameObjects
  <2>6. initial <= last /\ last \in Nat /\ last > initial
    BY <2>2, <2>3, <1>6
  <2>7. ~is_delta(last)'
    BY <2>1, <2>4 DEF is_delta
  <2>8. ObjectsKnown'
    <3>1. \A i \in DOMAIN objects : i > initial => ~is_delta(i)'
      BY <2>5, ChildrenKept DEF IInv, ObjectsKnown
    <3>2. \A i \in DOMAIN objects' : i \in DOMAIN objects \/ i = last
      BY <1>6, <2>2, <2>3, <2>4
    <3>3. \A i, j \in Original : objects'[i].name = objects'[j].name => i = j
      BY <2>4, Types DEF IInv, ObjectsKnown
    <3>4. Original' = Original /\ initial' = initial
      BY <2>5, ChildrenKept DEF IInv, SameObjects
    <3> QED
      BY <2>7, <3>1, <3>2, <3>3, <3>4 DEF ObjectsKnown
  <2> DEFINE b == NewBase(last)
  <2>9. b \in Base /\ b.obj = last /\ b.todo = {} /\ stack' = [stack EXCEPT ![Main] = <<b>>]
    BY <1>8, <2>2, <2>6 DEF NewBase, Base
  <2> HIDE DEF b
  <2>10. stack \in [Actor -> Seq(Base)]
    BY Types DEF IInv
  <2>11. /\ stack' \in [Actor -> Seq(Base)] /\ \A u \in Actor \ {Main} : stack'[u] = stack[u]
         /\ stack'[Main] = <<b>> /\ stack'[Main] # <<>> /\ Pos(Main)' = {1} /\ stack'[Main][1] = b
    BY <1>3, <2>9, <2>10 DEF Pos
  <2>12. pc'[Main] = "enter" /\ \A u \in Actor \ {Main} : pc'[u] = pc[u]
    BY <1>3, <1>8
  <2>13. \A u \in Actor \ {Main} : StackKnown(u)'
    BY <1>2, <2>5, <2>11, StackKept, Types DEF IInv
  <2>14. StackKnown(Main)'
    <3>1. last \in DOMAIN objects'
      BY <2>3, <2>4, <2>6
    <3>2. \A k \in Pos(Main)' : stack'[Main][k].obj = last /\ stack'[Main][k].todo = {}
      BY <2>9, <2>11
    <3> QED
      BY <1>3, <2>7, <3>1, <3>2 DEF StackKnown
  <2>15. Apart'
    <3>1. \A u \in Actor : \A j \in Pos(u) : stack[u][j].obj # last
      BY <1>6, <2>2, <2>3 DEF IInv, StackKnown
    <3>2. \A k \in Pos(Main)' : k = Len(stack'[Main]) /\ stack'[Main][k].obj = last
      BY <2>9, <2>11
    <3>3. \A k \in Pos(Main)' : \/ k \in Pos(Main) /\ stack'[Main][k].obj = stack[Main][k].obj
                                \/ /\ k = Len(stack'[Main])
                                   /\ \A u \in Actor : \A j \in Pos(u) :
                                        stack[u][j].obj # stack'[Main][k].obj
      BY <3>1, <3>2
    <3>4. \A u \in Actor \ {Main} : stack'[u] = stack[u]
      BY <2>11
    <3> QED
      BY <1>3, <3>3, <3>4, ApartKept
  <2>16. Phases'
    <3>1. Phases /\ Thread \subseteq Actor
      BY DEF IInv, Actor
    <3> QED
      BY <1>2, <1>3, <2>11, <2>12, <3>1 DEF Phases
  <2>17. \A u \in Actor : Resolving(u)'
    <3>1. ASSUME NEW u \in Actor PROVE ~Busy(u)'
      <4>1. CASE u = Main
        BY <2>12, <4>1 DEF Busy
      <4>2. CASE u # Main
        <5>1. u \in Thread
          BY <4>2 DEF Actor
        <5>2. pc[u] = "done"
          BY <1>2, <5>1 DEF IInv, Phases
        <5> QED
          BY <2>12, <4>2, <5>2 DEF Busy
      <4> QED
        BY <4>1, <4>2
    <3> QED
      BY <3>1 DEF Resolving
  <2>18. Once'
    BY <1>2, <2>4, <2>5, ChildrenKept, Types DEF IInv, Once
  <2>19. Counts'
    <3>1. ResolvedOnes' = ResolvedOnes
      BY <1>2 DEF ResolvedOnes, Original
    <3>2. last + Cardinality(left') + 1 <= room
      BY <1>5, <1>6, <2>2
    <3> QED
      BY <1>2, <2>4, <3>1, <3>2 DEF IInv, Counts
  <2>20. TypeOK'
    <3>1. pc' \in [Actor -> {"wait", "work", "enter", "base", "type", "depth", "delta", "done"}]
      BY <1>3, <1>8
    <3>2. /\ stack' \in [Actor -> Seq([obj : Nat, linked : BOOLEAN, todo : SUBSET (1..initial)])]
          /\ objects' \in Seq([name : Name, type : {"base", "ref", "ofs"}, base : Name \cup Nat,
                               real : BOOLEAN, depth : Nat, of : Nat])
      BY <2>4, <2>11 DEF Base, Obj, Original
    <3>3. initial <= Len(objects')
      BY <2>4, <2>6
    <3> QED
      BY <1>2, <1>5, <3>1, <3>2, <3>3 DEF IInv, TypeOK, Original
  <2> QED
    BY <2>8, <2>13, <2>14, <2>15, <2>16, <2>17, <2>18, <2>19, <2>20 DEF IInv, Actor
<1> QED
  BY <1>2, <1>7, <1>8

LEMMA FinishStep ==
  ASSUME IInv, Finish
  PROVE  IInv'
<1>1. /\ UNCHANGED <<objects, initial, dispatched, resolved, deepest, times, pc, stack, child, left,
                     room>>
      /\ result' \in {"ok", "unresolved"} /\ pc[Main] = "work"
  BY DEF Finish
<1>2. Main \in Actor
  BY DEF Actor
<1>3. Apart' /\ \A u \in Actor : StackKnown(u)'
  BY <1>1, <1>2, Shrunk
<1>4. TypeOK'
  BY <1>1 DEF IInv, TypeOK
<1>5. Phases'
  BY <1>1 DEF IInv, Phases
<1>6. Resolving(Main)'
  BY <1>1 DEF Resolving, Busy
<1> QED
  BY <1>1, <1>2, <1>3, <1>4, <1>5, <1>6, Quiet

----------------------------------------------------------------------------
LEMMA Initially ==
  ASSUME NamesDistinct, Init
  PROVE  IInv
<1>1. PICK q \in Packs :
        /\ objects = [i \in DOMAIN q |-> [name |-> q[i].name, type |-> q[i].type,
                                          base |-> q[i].base, real |-> q[i].type = "base",
                                          depth |-> 0, of |-> 0]]
        /\ initial = Len(q)
        /\ times = [i \in DOMAIN q |-> 0]
  BY DEF Init
<1> DEFINE Entry == [name : Name, type : {"base", "ref", "ofs"}, base : Name \cup Nat]
<1>2. q \in Seq(Entry)
  BY IndexPackAssumption
<1>3. Len(q) \in Nat /\ DOMAIN q = 1..Len(q) /\ \A i \in 1..Len(q) : q[i] \in Entry
  <2> HIDE DEF Entry
  <2> QED
    BY <1>2, ElementOfSeq
<1>4. /\ \A i \in 1..Len(q) : objects[i] \in Obj /\ objects[i].name = q[i].name
      /\ objects = [i \in 1..Len(q) |-> objects[i]]
  BY <1>1, <1>3 DEF Obj
<1>5. objects \in Seq(Obj) /\ Len(objects) = Len(q) /\ DOMAIN objects = 1..Len(q)
  BY <1>3, <1>4, IsASeq
<1>6. /\ dispatched = 0 /\ resolved = 0 /\ deepest = 0 /\ left = {} /\ room = initial + 1
      /\ pc = [t \in Actor |-> IF t = Main THEN "wait" ELSE "work"]
      /\ stack = [t \in Actor |-> <<>>] /\ child = [t \in Actor |-> 0] /\ result = "none"
  BY DEF Init
<1>7. TypeOK
  <2>1. pc \in [Actor -> {"wait", "work", "enter", "base", "type", "depth", "delta", "done"}]
    BY <1>6
  <2>2. stack \in [Actor -> Seq([obj : Nat, linked : BOOLEAN, todo : SUBSET (1..initial)])]
    BY <1>6
  <2>3. times \in [1..initial -> Nat] /\ child \in [Actor -> 0..initial]
    BY <1>1, <1>3, <1>6
  <2>4. room \in Nat /\ initial \in Nat /\ initial <= Len(objects) /\ dispatched \in 0..initial
    BY <1>1, <1>3, <1>5, <1>6
  <2> QED
    BY <1>5, <1>6, <2>1, <2>2, <2>3, <2>4 DEF TypeOK, Obj
<1>8. ObjectsKnown
  <2>1. \A i, j \in 1..Len(q) : q[i].name = q[j].name => i = j
    BY <1>3 DEF NamesDistinct
  <2>2. \A i, j \in 1..Len(q) : objects[i].name = objects[j].name => i = j
    BY <1>4, <2>1
  <2>3. Original = 1..Len(q) /\ DOMAIN objects = 1..Len(q) /\ \A i \in 1..Len(q) : ~(i > initial)
    BY <1>1, <1>3, <1>5 DEF Original
  <2> QED
    BY <2>2, <2>3 DEF ObjectsKnown
<1>9. \A t \in Actor : stack[t] = <<>> /\ Pos(t) = {} /\ ~Busy(t)
  BY <1>6 DEF Pos, Busy
<1>10. Apart /\ \A t \in Actor : StackKnown(t) /\ Resolving(t)
  BY <1>9 DEF Apart, StackKnown, Resolving, Actor
<1>11. Phases
  <2>1. Main \in Actor /\ Main \notin Thread /\ Thread \subseteq Actor
    BY IndexPackAssumption DEF Actor
  <2> QED
    BY <1>1, <1>5, <1>6, <2>1 DEF Phases
<1>12. Once
  BY <1>1, <1>3 DEF Once, Original
<1>13. Counts
  <2>1. ResolvedOnes = {}
    BY <1>1, <1>3 DEF ResolvedOnes, Original
  <2> QED
    BY <1>1, <1>3, <1>5, <1>6, <2>1, FS_EmptySet DEF Counts
<1> QED
  BY <1>7, <1>8, <1>10, <1>11, <1>12, <1>13 DEF IInv

LEMMA Inductive ==
  ASSUME IInv, [Next]_vars
  PROVE  IInv'
<1>1. CASE UNCHANGED vars
  <2>1. Main \in Actor
    BY DEF Actor
  <2>2. UNCHANGED <<objects, initial, dispatched, resolved, deepest, times, pc, stack, child, left,
                    room, result>>
    BY <1>1 DEF vars
  <2>3. Apart' /\ \A u \in Actor : StackKnown(u)'
    BY <2>1, <2>2, Shrunk
  <2>4. TypeOK'
    BY <2>2 DEF IInv, TypeOK
  <2>5. Phases' /\ Resolving(Main)'
    BY <2>1, <2>2 DEF IInv, Phases, Resolving, Busy
  <2> QED
    BY <2>1, <2>2, <2>3, <2>4, <2>5, Quiet
<1>2. CASE MainStep
  <2>1. Main \in Actor
    BY DEF Actor
  <2> QED
    BY <1>2, <2>1, ConcludeStep, FixStep, FinishStep, WalkStep DEF MainStep
<1>3. ASSUME NEW t \in Thread, ThreadStep(t) PROVE IInv'
  <2>1. t \in Actor
    BY DEF Actor
  <2> QED
    BY <1>3, <2>1, DispatchStep, WalkStep DEF ThreadStep
<1> QED
  BY <1>1, <1>2, <1>3 DEF Next

\* If no two objects of a pack have one name, no delta is resolved twice, by whichever threads and
\* passes (threaded_second_pass(), builtin/index-pack.c:813; fix_unresolved_deltas(), :1069).
THEOREM DeltasResolvedOnce ==
  ASSUME NamesDistinct
  PROVE  Spec => []EachDeltaOnce
<1>1. Init => IInv
  BY Initially
<1>2. IInv /\ [Next]_vars => IInv'
  BY Inductive
<1>3. IInv => EachDeltaOnce
  BY DEF IInv, Once, EachDeltaOnce, Original
<1> QED
  BY <1>1, <1>2, <1>3, PTL DEF Spec

\* Under the same condition the third pass stays in the array that conclude_pack() has made for it
\* (:955), the place after the last included that append_obj_to_pack() writes to (:1026).
THEOREM ThirdPassFits ==
  ASSUME NamesDistinct
  PROVE  Spec => []RoomToAppend
<1>1. Init => IInv
  BY Initially
<1>2. IInv /\ [Next]_vars => IInv'
  BY Inductive
<1>3. IInv => RoomToAppend
  <2>1. ASSUME IInv PROVE RoomToAppend
    <3>1. left \subseteq Original /\ IsFiniteSet(Original)
      <4>1. left \subseteq Original
        BY <2>1, Zenon DEF IInv, TypeOK, Original
      <4> QED
        BY <2>1, <4>1, Types, FS_Interval DEF IInv, Original
    <3>2. Cardinality(left) \in Nat
      BY <3>1, FS_Subset, FS_CardinalityType
    <3>3. Len(objects) \in Nat /\ room \in Nat /\ Len(objects) + Cardinality(left) + 1 <= room
      BY <2>1, Types DEF IInv, Counts
    <3> QED
      BY <3>2, <3>3 DEF RoomToAppend
  <2> QED
    BY <2>1
<1> QED
  BY <1>1, <1>2, <1>3, PTL DEF Spec

----------------------------------------------------------------------------
(* That the outcome is right takes more: which deltas are there, and why.  *)

\* What --fix-thin may append is no delta in the pack: else that delta, once it is resolved from its
\* own base, finds what is made of it resolved already.
BasesApart ==
  FixThin => \A q \in Packs : \A i, j \in DOMAIN q :
    q[i].type = "ref" /\ q[i].base \in Local /\ q[j].name = q[i].base => q[j].type = "base"

\* What Init and Fix put there.
Given ==
  /\ \A i \in DOMAIN objects : /\ ~is_delta(i) => objects[i].real
                               /\ i > initial => FixThin /\ objects[i].name \in Local
  /\ \A d \in Deltas : objects[d].type = "ofs" => objects[d].base \in Original
  /\ \A d \in Deltas, i \in Original :
       Thin(d) /\ objects[i].name = objects[d].base => ~is_delta(i)

\* It has been on a stack.
Arrived(i) == \/ i > initial
              \/ is_delta(i) /\ times[i] > 0
              \/ ~is_delta(i) /\ i <= dispatched

\* t will resolve the delta d of what it has at position k.
Waits(t, k, d) == d \in stack[t][k].todo \/ (k = Len(stack[t]) /\ pc[t] = "enter")

\* The delta d of i will be resolved by who has i on its stack.
Pending(i, d) == \E t \in Actor : \E k \in Pos(t) : stack[t][k].obj = i /\ Waits(t, k, d)

\* Nothing is forgotten.
Complete == \A i \in DOMAIN objects : Arrived(i) =>
              \A d \in Children(i) : objects[d].real \/ Pending(i, d)

\* What is to be resolved is not resolved, but for the one that t is busy with.
TodoOpen(t) ==
  \A k \in Pos(t) : \A d \in stack[t][k].todo :
    objects[d].real => k = Len(stack[t]) /\ Busy(t) /\ d = child[t]

EnterOpen(t) ==
  pc[t] = "enter" => \A d \in Children(stack[t][Len(stack[t])].obj) : ~objects[d].real

\* Main goes down from what it has appended.
MainDown ==
  \A k \in Pos(Main) : IF k = 1 THEN stack[Main][k].obj > initial ELSE is_delta(stack[Main][k].obj)

\* The delta d has its type from the base b, and has been resolved or is about to be.
MadeOf(d, b) ==
  /\ b \in DOMAIN objects /\ d \in Children(b) /\ Arrived(b)
  /\ b <= initial => objects[d].depth = objects[b].depth + 1
  /\ times[d] > 0 \/ \E t \in Actor : Busy(t) /\ child[t] = d

Sourced == \A d \in Deltas : objects[d].real => MadeOf(d, objects[d].of)

FromAbove == \A i \in Original : objects[i].real => Resolvable(i)

\* The threads end when all bases have been taken.
AllOut == (\E t \in Thread : pc[t] = "done") => dispatched = initial

\* A base that is in the repository has been appended or will be.
ThirdPass ==
  /\ \A d \in left : FixThin /\ d \in Deltas /\ objects[d].type = "ref"
  /\ pc[Main] # "wait" /\ result = "none" =>
       /\ FixThin
       /\ \A d \in Deltas : Thin(d) /\ ~objects[d].real =>
            d \in left \/ \E i \in DOMAIN objects : i > initial /\ d \in Children(i)

Results ==
  /\ result \in {"none", "ok", "unresolved"}
  /\ result = "ok" => Deltas \subseteq ResolvedOnes
  /\ result = "unresolved" => \E d \in Deltas : ~Resolvable(d)

OInv == /\ IInv /\ Given /\ Complete /\ MainDown /\ Sourced /\ FromAbove /\ AllOut /\ ThirdPass
        /\ Results /\ \A t \in Actor : TodoOpen(t) /\ EnterOpen(t)

LEMMA ResolvableKept ==
  ASSUME TypeOK, SameObjects, NEW i
  PROVE  Resolvable(i)' = Resolvable(i)
<1>1. Original' = Original /\ Original \subseteq DOMAIN objects
  BY ChildrenKept, Types
<1>2. ASSUME NEW j \in Original
      PROVE  /\ is_delta(j)' = is_delta(j) /\ Thin(j)' = Thin(j)
             /\ (RefChildren(j) \cup OfsChildren(j))' = RefChildren(j) \cup OfsChildren(j)
  BY <1>1, ChildrenKept DEF Thin, SameObjects, Children
<1>3. ASSUME NEW S PROVE Closed(S)' = Closed(S)
  BY <1>1, <1>2 DEF Closed, Original
<1> QED
  BY <1>1, <1>3 DEF Resolvable, Original

LEMMA ArrivedKept ==
  ASSUME IInv, SameObjects, dispatched' \in Int, dispatched <= dispatched',
         \A d \in Original : times[d] > 0 => times'[d] > 0,
         NEW i \in DOMAIN objects, Arrived(i)
  PROVE  Arrived(i)'
<1>1. initial' = initial /\ is_delta(i)' = is_delta(i)
  BY ChildrenKept DEF IInv, SameObjects
<1>2. is_delta(i) => i \in Original
  BY Types DEF IInv, ObjectsKnown, Original
<1>3. i \in Int /\ dispatched \in Int
  BY Types DEF IInv
<1> QED
  BY <1>1, <1>2, <1>3 DEF Arrived

\* What is on the stacks has no delta in common.
LEMMA StacksApart ==
  ASSUME OInv, NEW t \in Actor, NEW u \in Actor, NEW k \in Pos(t), NEW j \in Pos(u),
         NEW d \in Children(stack[t][k].obj), d \in Children(stack[u][j].obj)
  PROVE  t = u /\ k = j
<1>1. IInv /\ Given /\ MainDown
  BY DEF OInv
<1> DEFINE At(v, m) == stack[v][m].obj
<1>2. \A v \in Actor : \A m \in Pos(v) : At(v, m) \in DOMAIN objects /\ At(v, m) \in Int
  BY <1>1, Types DEF IInv, StackKnown
<1>3. \A v \in Actor : \A m \in Pos(v) : At(v, m) \notin Original =>
        At(v, m) > initial /\ v = Main /\ m = 1
  <2>1. SUFFICES ASSUME NEW v \in Actor, NEW m \in Pos(v), At(v, m) \notin Original
                 PROVE  At(v, m) > initial /\ v = Main /\ m = 1
    OBVIOUS
  <2>2. At(v, m) > initial /\ initial \in Nat
    BY <1>1, <1>2, <2>1, Types DEF IInv, Original
  <2>3. ~is_delta(At(v, m))
    BY <1>1, <1>2, <2>2 DEF IInv, ObjectsKnown
  <2>4. v = Main
    <3>1. ASSUME v \in Thread PROVE FALSE
      <4>1. At(v, m) <= dispatched /\ dispatched \in 0..initial
        BY <1>1, <2>3, <3>1, Types DEF IInv, StackKnown
      <4> QED
        BY <1>2, <2>2, <4>1
    <3> QED
      BY <3>1 DEF Actor
  <2> QED
    BY <1>1, <2>2, <2>3, <2>4 DEF MainDown
<1>4. At(t, k) = At(u, j) => t = u /\ k = j
  BY <1>1 DEF IInv, Apart
<1>5. CASE At(t, k) \in Original /\ At(u, j) \in Original
  <2>1. At(t, k) = At(u, j)
    BY <1>1, <1>5, OneParent DEF IInv
  <2> QED
    BY <1>4, <2>1
<1>6. CASE At(t, k) \notin Original /\ At(u, j) \notin Original
  BY <1>3, <1>6
<1>7. ASSUME NEW v \in Actor, NEW m \in Pos(v), At(v, m) \notin Original, d \in Children(At(v, m)),
             NEW w \in Actor, NEW l \in Pos(w), At(w, l) \in Original, d \in Children(At(w, l))
      PROVE  FALSE
  <2>1. At(v, m) > initial /\ v = Main /\ m = 1
    BY <1>3, <1>7
  <2>2. FixThin /\ objects[At(v, m)].name \in Local
    BY <1>1, <1>2, <2>1 DEF Given
  <2>3. d \in Deltas /\ objects[d].type = "ref" /\ objects[d].base = objects[At(v, m)].name
    <3>1. d \in Deltas /\ (d \in RefChildren(At(v, m)) \/ d \in OfsChildren(At(v, m)))
      BY <1>7 DEF Children, RefChildren, OfsChildren
    <3>2. d \notin OfsChildren(At(v, m))
      BY <1>1, <1>7, <3>1 DEF OfsChildren, Given
    <3> QED
      BY <3>1, <3>2 DEF RefChildren
  <2>4. objects[At(w, l)].name = objects[d].base
    BY <1>7, <2>3 DEF Children, RefChildren, OfsChildren
  <2>5. ~is_delta(At(w, l))
    BY <1>1, <1>7, <2>2, <2>3, <2>4 DEF Given, Thin
  <2>6. w = Main
    <3>1. ASSUME w \in Thread PROVE FALSE
      <4>1. stack[w] # <<>> /\ stack[Main] # <<>>
        BY <1>7, <2>1, <3>1 DEF Pos
      <4>2. pc[w] # "done" /\ pc[Main] # "wait"
        BY <1>1, <4>1 DEF IInv, Phases, Actor
      <4> QED
        BY <1>1, <3>1, <4>2 DEF IInv, Phases
    <3> QED
      BY <3>1 DEF Actor
  <2>7. l = 1
    BY <1>1, <1>7, <2>5, <2>6 DEF MainDown
  <2> QED
    BY <1>1, <1>7, <2>6, <2>7, <1>2, Types DEF MainDown, Original, IInv
<1>8. At(t, k) \in Original <=> At(u, j) \in Original
  BY <1>7
<1> QED
  BY <1>5, <1>6, <1>8

\* What all steps but SetType leave as it is
LEMMA Kept ==
  ASSUME OInv, NEW t \in Actor, SameObjects, dispatched' \in Int, dispatched <= dispatched',
         \A i \in DOMAIN objects : objects'[i] = objects[i],
         \A d \in Original : times[d] > 0 => times'[d] > 0,
         \A u \in Actor \ {t} : pc'[u] = pc[u] /\ child'[u] = child[u] /\ stack'[u] = stack[u],
         Busy(t) => times'[child[t]] > 0 \/ (Busy(t)' /\ child'[t] = child[t])
  PROVE  Sourced' /\ FromAbove' /\ \A u \in Actor \ {t} : TodoOpen(u)' /\ EnterOpen(u)'
<1>1. IInv /\ TypeOK /\ Sourced /\ FromAbove
  BY DEF OInv, IInv
<1>2. /\ Original' = Original /\ Deltas' = Deltas /\ Original \subseteq DOMAIN objects
      /\ Deltas \subseteq Original /\ initial' = initial
      /\ \A i \in DOMAIN objects : is_delta(i)' = is_delta(i) /\ Children(i)' = Children(i)
  BY <1>1, ChildrenKept, Types DEF SameObjects, Deltas, Original
<1>3. Sourced'
  <2>1. ASSUME NEW d \in Deltas, objects[d].real, NEW b, MadeOf(d, b) PROVE MadeOf(d, b)'
    <3>1. /\ b \in DOMAIN objects /\ d \in Children(b) /\ Arrived(b)
          /\ b <= initial => objects[d].depth = objects[b].depth + 1
          /\ times[d] > 0 \/ \E u \in Actor : Busy(u) /\ child[u] = d
      BY <2>1 DEF MadeOf
    <3>2. b \in DOMAIN objects' /\ d \in Children(b)' /\ Arrived(b)' /\ objects'[b] = objects[b]
          /\ objects'[d] = objects[d]
      BY <1>1, <1>2, <3>1, ArrivedKept DEF SameObjects
    <3>3. times'[d] > 0 \/ \E u \in Actor : Busy(u)' /\ child'[u] = d
      <4>1. CASE times[d] > 0
        BY <1>2, <4>1
      <4>2. ASSUME NEW u \in Actor, Busy(u), child[u] = d
            PROVE  times'[d] > 0 \/ (Busy(u)' /\ child'[u] = d)
        <5>1. CASE u = t
          BY <4>2, <5>1
        <5>2. CASE u # t
          BY <4>2, <5>2 DEF Busy
        <5> QED
          BY <5>1, <5>2
      <4> QED
        BY <3>1, <4>1, <4>2
    <3> QED
      BY <1>2, <3>1, <3>2, <3>3 DEF MadeOf, Actor
  <2>2. \A d \in Deltas : objects'[d] = objects[d]
    BY <1>2
  <2> QED
    BY <1>1, <1>2, <2>1, <2>2 DEF Sourced
<1>4. FromAbove'
  BY <1>1, <1>2, ResolvableKept DEF FromAbove
<1>5. ASSUME NEW u \in Actor \ {t} PROVE TodoOpen(u)' /\ EnterOpen(u)'
  <2>1. TodoOpen(u) /\ EnterOpen(u) /\ StackKnown(u)
    BY <1>1 DEF OInv, IInv
  <2>2. Pos(u)' = Pos(u) /\ Busy(u)' = Busy(u)
    BY DEF Pos, Busy
  <2>3. \A k \in Pos(u) : /\ stack[u][k].obj \in DOMAIN objects
                          /\ stack[u][k].todo \subseteq Children(stack[u][k].obj)
    BY <2>1 DEF StackKnown
  <2>4. \A i : Children(i) \subseteq DOMAIN objects
    BY <1>2 DEF Children, RefChildren, OfsChildren
  <2>5. TodoOpen(u)'
    BY <2>1, <2>2, <2>3, <2>4 DEF TodoOpen
  <2>6. EnterOpen(u)'
    <3>1. CASE pc[u] = "enter"
      <4>1. Len(stack[u]) \in Pos(u)
        BY <1>1, <3>1, Types, EmptySeq DEF IInv, Phases, Pos
      <4> QED
        BY <1>2, <2>1, <2>3, <2>4, <4>1 DEF EnterOpen
    <3>2. CASE pc[u] # "enter"
      BY <3>2 DEF EnterOpen
    <3> QED
      BY <3>1, <3>2
  <2> QED
    BY <2>5, <2>6
<1> QED
  BY <1>3, <1>4, <1>5

\* Nothing is forgotten, if what is new is just come to, and t leaves what is resolved only.
LEMMA CompleteKept ==
  ASSUME OInv, NEW t \in Actor, SameObjects,
         \A i \in DOMAIN objects : objects[i].real => objects'[i].real,
         \A u \in Actor \ {t} : pc'[u] = pc[u] /\ stack'[u] = stack[u],
         \A k \in Pos(t) : \A d \in Children(stack[t][k].obj) : Waits(t, k, d) =>
           \/ objects'[d].real
           \/ k \in Pos(t)' /\ stack'[t][k].obj = stack[t][k].obj /\ Waits(t, k, d)',
         \A i \in DOMAIN objects' : Arrived(i)' =>
           \/ i \in DOMAIN objects /\ Arrived(i)
           \/ /\ Len(stack'[t]) \in Pos(t)' /\ stack'[t][Len(stack'[t])].obj = i
              /\ pc'[t] = "enter"
  PROVE  Complete'
<1>1. TypeOK /\ Complete
  BY DEF OInv, IInv
<1>2. SUFFICES ASSUME NEW i \in DOMAIN objects', Arrived(i)', NEW d \in Children(i)'
               PROVE  objects'[d].real \/ Pending(i, d)'
  BY DEF Complete
<1>3. CASE /\ Len(stack'[t]) \in Pos(t)' /\ stack'[t][Len(stack'[t])].obj = i
           /\ pc'[t] = "enter"
  BY <1>3 DEF Pending, Waits
<1>4. CASE i \in DOMAIN objects /\ Arrived(i)
  <2>1. d \in Children(i) /\ d \in DOMAIN objects
    <3>1. Children(i) \subseteq Original /\ Original \subseteq DOMAIN objects
      BY <1>1, Types DEF Children, RefChildren, OfsChildren, Deltas, Original
    <3> QED
      BY <1>1, <1>2, <1>4, <3>1, ChildrenKept
  <2>2. CASE objects[d].real
    BY <2>1, <2>2
  <2>3. ASSUME NEW u \in Actor, NEW k \in Pos(u), stack[u][k].obj = i, Waits(u, k, d)
        PROVE  objects'[d].real \/ Pending(i, d)'
    <3>1. CASE u = t
      <4>1. \/ objects'[d].real
            \/ k \in Pos(t)' /\ stack'[t][k].obj = i /\ Waits(t, k, d)'
        BY <2>1, <2>3, <3>1
      <4> QED
        BY <4>1 DEF Pending, Waits
    <3>2. CASE u # t
      BY <2>3, <3>2 DEF Pending, Waits, Pos
    <3> QED
      BY <3>1, <3>2
  <2>4. objects[d].real \/ Pending(i, d)
    BY <1>1, <1>4, <2>1 DEF Complete
  <2> QED
    BY <2>2, <2>3, <2>4 DEF Pending
<1> QED
  BY <1>2, <1>3, <1>4

LEMMA GivenKept ==
  ASSUME OInv, SameObjects,
         \A i \in DOMAIN objects : objects[i].real => objects'[i].real,
         \A i \in DOMAIN objects' \ DOMAIN objects :
           objects'[i].real /\ FixThin /\ objects'[i].name \in Local
  PROVE  Given'
<1>1. TypeOK /\ Given
  BY DEF OInv, IInv
<1>2. /\ Original' = Original /\ Deltas' = Deltas /\ Original \subseteq DOMAIN objects
      /\ Deltas \subseteq Original /\ initial' = initial
      /\ \A i \in DOMAIN objects : is_delta(i)' = is_delta(i)
  BY <1>1, ChildrenKept, Types DEF SameObjects, Deltas, Original
<1>3. \A i \in DOMAIN objects' : /\ ~is_delta(i)' => objects'[i].real
                                 /\ i > initial' => FixThin /\ objects'[i].name \in Local
  BY <1>1, <1>2 DEF SameObjects, Given
<1>4. \A d \in Deltas' : objects'[d].type = "ofs" => objects'[d].base \in Original'
  BY <1>1, <1>2 DEF SameObjects, Given
<1>5. \A d \in Deltas', i \in Original' :
        Thin(d)' /\ objects'[i].name = objects'[d].base => ~is_delta(i)'
  BY <1>1, <1>2 DEF SameObjects, Given, Thin
<1> QED
  BY <1>3, <1>4, <1>5 DEF Given

\* A step of t that leaves the objects alone
LEMMA Still ==
  ASSUME OInv, IInv', result = "none", result' = "none", NEW t \in Actor,
         UNCHANGED <<objects, initial, times, left>>, dispatched <= dispatched',
         \A u \in Actor \ {t} : pc'[u] = pc[u] /\ child'[u] = child[u] /\ stack'[u] = stack[u],
         Busy(t) => Busy(t)' /\ child'[t] = child[t],
         pc'[Main] # "wait" => pc[Main] # "wait",
         pc'[t] = "done" => pc[t] = "done" \/ dispatched' = initial,
         \A k \in Pos(Main)' : k \in Pos(Main) /\ stack'[Main][k].obj = stack[Main][k].obj,
         \A k \in Pos(t) : \A d \in Children(stack[t][k].obj) : Waits(t, k, d) =>
           k \in Pos(t)' /\ stack'[t][k].obj = stack[t][k].obj /\ Waits(t, k, d)',
         \A i \in DOMAIN objects : ~is_delta(i) /\ dispatched < i /\ i <= dispatched' =>
           /\ Len(stack'[t]) \in Pos(t)' /\ stack'[t][Len(stack'[t])].obj = i
           /\ pc'[t] = "enter",
         TodoOpen(t)', EnterOpen(t)'
  PROVE  OInv'
<1>1. IInv /\ TypeOK /\ SameObjects
  BY UnchangedObjects DEF OInv, IInv
<1>2. /\ dispatched \in 0..initial /\ dispatched \in Int /\ initial \in Nat
      /\ dispatched' \in 0..initial /\ dispatched' \in Int
  <2>1. dispatched' \in 0..initial'
    BY Zenon DEF IInv, TypeOK
  <2> QED
    BY <1>1, <2>1, Types
<1>3. Sourced' /\ FromAbove' /\ \A u \in Actor \ {t} : TodoOpen(u)' /\ EnterOpen(u)'
  BY <1>1, <1>2, Kept
<1>4. Given'
  <2>1. \A i \in DOMAIN objects : objects[i].real => objects'[i].real
    OBVIOUS
  <2>2. \A i \in DOMAIN objects' \ DOMAIN objects :
          objects'[i].real /\ FixThin /\ objects'[i].name \in Local
    OBVIOUS
  <2> QED
    BY <1>1, <2>1, <2>2, GivenKept
<1>5. Complete'
  <2>1. ASSUME NEW i \in DOMAIN objects, Arrived(i)'
        PROVE  \/ Arrived(i)
               \/ /\ Len(stack'[t]) \in Pos(t)' /\ stack'[t][Len(stack'[t])].obj = i
                  /\ pc'[t] = "enter"
    <3>1. i \in Int /\ is_delta(i)' = is_delta(i)
      BY <1>1, Types DEF is_delta
    <3> QED
      BY <1>2, <2>1, <3>1 DEF Arrived
  <2> QED
    BY <1>1, <2>1, CompleteKept
<1>6. MainDown'
  BY DEF OInv, MainDown, is_delta
<1>7. AllOut'
  <2>1. SUFFICES ASSUME NEW u \in Thread, pc'[u] = "done"
                 PROVE  dispatched' = initial
    BY DEF AllOut
  <2>2. u \in Actor
    BY DEF Actor
  <2>3. pc[u] = "done" \/ dispatched' = initial
    BY <2>1, <2>2
  <2>4. pc[u] = "done" => dispatched = initial
    BY DEF OInv, AllOut
  <2> QED
    BY <1>2, <2>3, <2>4
<1>8. ThirdPass'
  <2>1. ThirdPass /\ Deltas' = Deltas
    BY DEF OInv, Deltas, is_delta
  <2>2. \A i : Thin(i)' = Thin(i) /\ Children(i)' = Children(i)
    BY <2>1 DEF Thin, Children, RefChildren, OfsChildren
  <2> QED
    BY <2>1, <2>2 DEF ThirdPass
<1>9. Results'
  BY DEF Results
<1> QED
  BY <1>3, <1>4, <1>5, <1>6, <1>7, <1>8, <1>9 DEF OInv, Actor

LEMMA ReturnGoes ==
  ASSUME OInv, result = "none", NEW t \in Actor, Return(t)
  PROVE  OInv'
<1> USE DEF Return
<1>1. IInv /\ IInv' /\ dispatched \in Int
  BY ReturnStep, Types DEF OInv, IInv
<1>2. pc'[t] = "work" /\ \A u \in Actor \ {t} : pc'[u] = pc[u]
  BY <1>1 DEF IInv, TypeOK
<1>3. Pos(t) = {} /\ Pos(t)' = {} /\ ~Busy(t)
  BY DEF Pos, Busy
<1>4. TodoOpen(t)' /\ EnterOpen(t)'
  BY <1>2, <1>3 DEF TodoOpen, EnterOpen
<1>5. \A k \in Pos(Main)' : k \in Pos(Main) /\ stack'[Main][k].obj = stack[Main][k].obj
  BY DEF Pos
<1>6. pc'[Main] # "wait" => pc[Main] # "wait"
  BY <1>2 DEF Actor
<1> QED
  BY <1>1, <1>2, <1>3, <1>4, <1>5, <1>6, Still, Types DEF IInv

LEMMA SetDeepestGoes ==
  ASSUME OInv, result = "none", NEW t \in Actor, SetDeepest(t)
  PROVE  OInv'
<1> USE DEF SetDeepest
<1>1. IInv /\ IInv' /\ dispatched \in Int
  BY SetDeepestStep, Types DEF OInv, IInv
<1>2. pc'[t] = "delta" /\ \A u \in Actor \ {t} : pc'[u] = pc[u]
  BY <1>1 DEF IInv, TypeOK
<1>3. Busy(t) /\ Busy(t)' /\ Pos(t)' = Pos(t)
  BY <1>2 DEF Pos, Busy
<1>4. TodoOpen(t)' /\ EnterOpen(t)'
  BY <1>2, <1>3 DEF OInv, TodoOpen, EnterOpen
<1>5. \A k \in Pos(Main)' : k \in Pos(Main) /\ stack'[Main][k].obj = stack[Main][k].obj
  BY DEF Pos
<1>6. pc'[Main] # "wait" => pc[Main] # "wait"
  BY <1>2 DEF Actor
<1>7. \A k \in Pos(t) : \A d \in Children(stack[t][k].obj) : Waits(t, k, d) =>
        k \in Pos(t)' /\ stack'[t][k].obj = stack[t][k].obj /\ Waits(t, k, d)'
  BY <1>3 DEF Waits
<1>8. pc'[t] = "done" => pc[t] = "done"
  BY <1>2
<1>9. dispatched <= dispatched' /\ (Busy(t) => Busy(t)' /\ child'[t] = child[t])
  BY <1>1, <1>3
<1>10. \A u \in Actor \ {t} : pc'[u] = pc[u] /\ child'[u] = child[u] /\ stack'[u] = stack[u]
  BY <1>2
<1>11. \A i \in DOMAIN objects : ~is_delta(i) /\ dispatched < i /\ i <= dispatched' =>
        /\ Len(stack'[t]) \in Pos(t)' /\ stack'[t][Len(stack'[t])].obj = i
        /\ pc'[t] = "enter"
  BY <1>1, Types DEF IInv
<1> QED
  BY <1>1, <1>4, <1>5, <1>6, <1>7, <1>8, <1>9, <1>10, <1>11, Still

LEMMA NextDeltaGoes ==
  ASSUME OInv, result = "none", NEW t \in Actor, NextDelta(t)
  PROVE  OInv'
<1> USE DEF NextDelta
<1> DEFINE n == Len(stack[t])
           S == stack[t][n].todo
           d == FirstOf(S)
<1>1. IInv /\ IInv' /\ dispatched \in Int /\ ~Busy(t) /\ pc[t] = "base"
  BY NextDeltaStep, Types DEF OInv, IInv, Busy
<1>2. n \in Pos(t) /\ S # {} /\ S = Last(stack[t]).todo
  BY <1>1, Types, EmptySeq DEF IInv, Pos, Last
<1>3. d \in S
  <2>1. S \subseteq Nat
    BY <1>1, <1>2, Types DEF IInv, Base, Original
  <2> QED
    BY <1>2, <2>1, FirstOfIn
<1>4. ~objects[d].real
  BY <1>1, <1>2, <1>3 DEF OInv, TodoOpen
<1>5. pc'[t] = "type" /\ (\A u \in Actor \ {t} : pc'[u] = pc[u] /\ child'[u] = child[u])
      /\ result' = result
  BY <1>1, <1>2, <1>4 DEF IInv, TypeOK
<1>6. TodoOpen(t)' /\ EnterOpen(t)'
  BY <1>1, <1>5 DEF OInv, TodoOpen, EnterOpen, Pos
<1>7. \A k \in Pos(Main)' : k \in Pos(Main) /\ stack'[Main][k].obj = stack[Main][k].obj
  BY DEF Pos
<1>8. pc'[Main] # "wait" => pc[Main] # "wait"
  BY <1>1, <1>5 DEF Actor
<1>9. Pos(t)' = Pos(t) /\ \A k \in Pos(t) : \A e : Waits(t, k, e) => Waits(t, k, e)'
  BY <1>1 DEF Waits, Pos
<1> HIDE DEF d, S, n
<1> QED
  BY <1>1, <1>5, <1>6, <1>7, <1>8, <1>9, Still

LEMMA LeaveGoes ==
  ASSUME OInv, result = "none", NEW t \in Actor, Leave(t)
  PROVE  OInv'
<1> USE DEF Leave
<1>1. IInv /\ IInv' /\ dispatched \in Int /\ ~Busy(t) /\ pc[t] = "base"
  BY LeaveStep, Types DEF OInv, IInv, Busy
<1>2. /\ stack \in [Actor -> Seq(Base)] /\ stack[t] \in Seq(Base) /\ Len(stack[t]) \in Nat
      /\ stack[t] # <<>> /\ stack[t][Len(stack[t])].todo = {}
  BY <1>1, Types DEF IInv, Last
<1>3. /\ stack'[t] = Front(stack[t]) /\ \A u \in Actor \ {t} : stack'[u] = stack[u]
  BY <1>2
<1>4. /\ Len(stack'[t]) = Len(stack[t]) - 1
      /\ \A k \in 1..(Len(stack[t]) - 1) : stack'[t][k] = stack[t][k]
  BY <1>2, <1>3, FrontOf
<1>5. \A k \in Pos(t)' : k \in Pos(t) /\ k # Len(stack[t]) /\ stack'[t][k] = stack[t][k]
  BY <1>2, <1>4 DEF Pos
<1>6. \A k \in Pos(t) : k # Len(stack[t]) => k \in Pos(t)'
  BY <1>2, <1>4 DEF Pos
<1>7. TodoOpen(t)' /\ EnterOpen(t)'
  BY <1>1, <1>5 DEF OInv, TodoOpen, EnterOpen
<1>8. \A k \in Pos(Main)' : k \in Pos(Main) /\ stack'[Main][k].obj = stack[Main][k].obj
  <2>1. CASE t = Main
    BY <1>5, <2>1
  <2>2. CASE t # Main
    BY <1>3, <2>2 DEF Pos, Actor
  <2> QED
    BY <2>1, <2>2
<1>9. \A k \in Pos(t) : \A d : Waits(t, k, d) =>
        k \in Pos(t)' /\ stack'[t][k].obj = stack[t][k].obj /\ Waits(t, k, d)'
  BY <1>1, <1>2, <1>5, <1>6 DEF Waits
<1> QED
  BY <1>1, <1>3, <1>7, <1>8, <1>9, Still

LEMMA EnterGoes ==
  ASSUME OInv, result = "none", NEW t \in Actor, Enter(t)
  PROVE  OInv'
<1> USE DEF Enter
<1> DEFINE n == Len(stack[t])
           todo == Children(stack[t][n].obj)
<1>1. /\ IInv /\ IInv' /\ dispatched \in Int /\ ~Busy(t) /\ pc[t] = "enter" /\ stack[t] # <<>>
      /\ TodoOpen(t) /\ EnterOpen(t)
  BY EnterStep, Types DEF OInv, IInv, Busy, Phases
<1>2. pc'[t] = "base" /\ \A u \in Actor \ {t} : pc'[u] = pc[u]
  BY <1>1 DEF IInv, TypeOK
<1>3. /\ stack \in [Actor -> Seq(Base)] /\ stack[t] \in Seq(Base) /\ n \in Nat /\ n \in Pos(t)
      /\ stack[t][n] \in Base
  <2>1. stack \in [Actor -> Seq(Base)] /\ stack[t] \in Seq(Base) /\ n \in Nat
    BY <1>1, Types DEF IInv
  <2>2. n \in Pos(t)
    BY <1>1, <2>1, EmptySeq DEF Pos
  <2> QED
    BY <1>1, <2>1, <2>2, Types DEF IInv
\* What is left of the stack
<1>4. /\ \A u \in Actor \ {t} : stack'[u] = stack[u]
      /\ \A k \in Pos(t)' : k \in Pos(t) /\ stack'[t][k].obj = stack[t][k].obj
      /\ \A k \in Pos(t)' : stack'[t][k].todo \subseteq IF k = n THEN todo ELSE stack[t][k].todo
      /\ \A k \in Pos(t) : k # n \/ todo # {} =>
           /\ k \in Pos(t)'
           /\ stack'[t][k].todo = IF k = n THEN todo ELSE stack[t][k].todo
  <2>1. CASE todo = {}
    <3>1. stack' = [stack EXCEPT ![t] = Front(@)]
      BY <2>1 DEF Children
    <3>2. stack'[t] = Front(stack[t]) /\ \A u \in Actor \ {t} : stack'[u] = stack[u]
      BY <1>3, <3>1
    <3>3. Len(stack'[t]) = n - 1 /\ \A k \in 1..(n - 1) : stack'[t][k] = stack[t][k]
      BY <1>1, <1>3, <3>2, FrontOf
    <3>4. \A k \in Pos(t)' : k \in Pos(t) /\ k # n /\ stack'[t][k] = stack[t][k]
      BY <1>3, <3>3 DEF Pos
    <3>5. \A k \in Pos(t) : k # n => k \in Pos(t)'
      BY <1>3, <3>3 DEF Pos
    <3> QED
      BY <2>1, <3>2, <3>4, <3>5
  <2>2. CASE todo # {}
    <3> DEFINE b == [stack[t][n] EXCEPT !.todo = todo, !.linked = TRUE]
    <3>1. stack' = [stack EXCEPT ![t] = [@ EXCEPT ![n] = b]]
      BY <2>2 DEF Children
    <3>2. todo \subseteq Original
      BY DEF Children, RefChildren, OfsChildren, Deltas, Original
    <3>3. b \in Base /\ b.obj = stack[t][n].obj /\ b.todo = todo
      BY <1>3, <3>2 DEF Base
    <3> HIDE DEF b
    <3>4. /\ stack'[t] \in Seq(Base) /\ Len(stack'[t]) = n
          /\ \A k \in 1..n : stack'[t][k] = IF k = n THEN b ELSE stack[t][k]
      BY <1>3, <3>1, <3>3, ExceptSeq DEF Pos
    <3>5. \A u \in Actor \ {t} : stack'[u] = stack[u]
      BY <1>3, <3>1
    <3>6. Pos(t)' = Pos(t) /\ \A k \in Pos(t) : stack'[t][k] = IF k = n THEN b ELSE stack[t][k]
      BY <3>4 DEF Pos
    <3> HIDE DEF n, todo
    <3> QED
      BY <3>3, <3>5, <3>6
  <2> QED
    BY <2>1, <2>2
<1> HIDE DEF n, todo
<1>5. TodoOpen(t)'
  <2>1. ASSUME NEW k \in Pos(t)', NEW d \in stack'[t][k].todo PROVE ~objects[d].real
    <3>1. CASE k = n
      BY <1>1, <1>4, <2>1, <3>1 DEF EnterOpen, n, todo
    <3>2. CASE k # n
      BY <1>1, <1>4, <2>1, <3>2 DEF TodoOpen
    <3> QED
      BY <3>1, <3>2
  <2> QED
    BY <2>1 DEF TodoOpen
<1>6. EnterOpen(t)'
  BY <1>2 DEF EnterOpen
<1>7. \A k \in Pos(Main)' : k \in Pos(Main) /\ stack'[Main][k].obj = stack[Main][k].obj
  <2>1. CASE t = Main
    BY <1>4, <2>1
  <2>2. CASE t # Main
    BY <1>4, <2>2 DEF Pos, Actor
  <2> QED
    BY <2>1, <2>2
<1>8. \A k \in Pos(t) : \A d \in Children(stack[t][k].obj) : Waits(t, k, d) =>
        k \in Pos(t)' /\ stack'[t][k].obj = stack[t][k].obj /\ Waits(t, k, d)'
  <2>1. ASSUME NEW k \in Pos(t), NEW d \in Children(stack[t][k].obj), Waits(t, k, d)
        PROVE  k \in Pos(t)' /\ stack'[t][k].obj = stack[t][k].obj /\ d \in stack'[t][k].todo
    <3>1. CASE k = n
      BY <1>4, <2>1, <3>1 DEF todo
    <3>2. CASE k # n
      BY <1>4, <2>1, <3>2 DEF Waits, n
    <3> QED
      BY <3>1, <3>2
  <2> QED
    BY <2>1 DEF Waits
<1>9. /\ result' = "none" /\ UNCHANGED <<objects, initial, times, left, dispatched, child>>
      /\ pc'[Main] # "wait" => pc[Main] # "wait"
      /\ \A u \in Actor \ {t} : pc'[u] = pc[u] /\ child'[u] = child[u] /\ stack'[u] = stack[u]
      /\ pc'[t] # "done" /\ dispatched <= dispatched'
  BY <1>1, <1>2, <1>4 DEF Actor
<1>10. \A i \in DOMAIN objects : ~is_delta(i) /\ dispatched < i /\ i <= dispatched' =>
         /\ Len(stack'[t]) \in Pos(t)' /\ stack'[t][Len(stack'[t])].obj = i
         /\ pc'[t] = "enter"
  BY <1>1, <1>9, Types DEF IInv
<1> QED
  BY <1>1, <1>5, <1>6, <1>7, <1>8, <1>9, <1>10, Still

\* What has not been come to has no delta that is resolved.
LEMMA NotYet ==
  ASSUME OInv, NEW i \in Original, ~Arrived(i), Len(objects) = initial \/ is_delta(i),
         NEW d \in Children(i)
  PROVE  ~objects[d].real
<1> SUFFICES ASSUME objects[d].real PROVE FALSE
  OBVIOUS
<1>1. IInv /\ TypeOK /\ Given /\ Sourced
  BY DEF OInv, IInv
<1>2. d \in Deltas
  BY DEF Children, RefChildren, OfsChildren
<1>3. PICK b : b \in DOMAIN objects /\ d \in Children(b) /\ Arrived(b)
  BY <1>1, <1>2 DEF Sourced, MadeOf
<1>4. CASE b \in Original
  BY <1>1, <1>3, <1>4, OneParent DEF IInv
<1>5. CASE b \notin Original
  <2>1. b > initial /\ is_delta(i)
    BY <1>1, <1>3, <1>5, Types DEF Original
  <2>2. FixThin /\ objects[b].name \in Local /\ d \notin OfsChildren(b)
    BY <1>1, <1>2, <1>3, <1>5, <2>1 DEF Given, OfsChildren
  <2>3. objects[d].type = "ref" /\ objects[d].base = objects[b].name
    BY <1>3, <2>2 DEF Children, RefChildren
  <2>4. objects[i].name = objects[d].base
    BY <2>3 DEF Children, RefChildren, OfsChildren
  <2> QED
    BY <1>1, <1>2, <2>1, <2>2, <2>3, <2>4 DEF Given, Thin
<1> QED
  BY <1>4, <1>5

LEMMA DispatchGoes ==
  ASSUME OInv, result = "none", NEW t \in Thread, Dispatch(t)
  PROVE  OInv'
<1> USE DEF Dispatch
<1> DEFINE next == bases_from(dispatched + 1)
<1>0. t \in Actor /\ Main \in Actor /\ t # Main
  BY IndexPackAssumption DEF Actor
<1>1. /\ IInv /\ IInv' /\ initial \in Nat /\ dispatched \in 0..initial /\ ~Busy(t)
      /\ Len(objects) = initial /\ DOMAIN objects = Original /\ DOMAIN objects = 1..initial
      /\ stack \in [Actor -> Seq(Base)] /\ stack[t] = <<>> /\ Pos(t) = {}
      /\ pc \in [Actor -> {"wait", "work", "enter", "base", "type", "depth", "delta", "done"}]
      /\ pc[Main] = "wait"
  <2>1. IInv /\ IInv' /\ ~Busy(t) /\ stack[t] = <<>> /\ pc[Main] = "wait"
    BY <1>0, DispatchStep DEF OInv, IInv, Busy, Phases
  <2>2. Len(objects) = initial /\ Pos(t) = {}
    BY <2>1 DEF IInv, Phases, Pos
  <2>3. /\ initial \in Nat /\ dispatched \in 0..initial /\ DOMAIN objects = 1..initial
        /\ DOMAIN objects = Original /\ stack \in [Actor -> Seq(Base)]
    BY <2>1, <2>2, Types DEF IInv, Original
  <2>4. pc \in [Actor -> {"wait", "work", "enter", "base", "type", "depth", "delta", "done"}]
    BY <2>1, Zenon DEF IInv, TypeOK
  <2> QED
    BY <2>1, <2>2, <2>3, <2>4
<1>2. next = {k \in 1..initial : dispatched < k /\ ~is_delta(k)}
  BY <1>1 DEF bases_from
<1>3. UNCHANGED <<objects, initial, times, left, child, result>>
  OBVIOUS
<1>4. CASE next = {}
  <2>1. pc' = [pc EXCEPT ![t] = "done"] /\ dispatched' = initial /\ stack' = stack
    BY <1>4
  <2>2. pc'[t] = "done" /\ \A u \in Actor \ {t} : pc'[u] = pc[u]
    BY <1>0, <1>1, <2>1
  <2>3. TodoOpen(t)' /\ EnterOpen(t)'
    BY <1>1, <2>1, <2>2 DEF TodoOpen, EnterOpen, Pos
  <2>4. \A i \in DOMAIN objects : ~(~is_delta(i) /\ dispatched < i)
    BY <1>1, <1>2, <1>4
  <2>5. dispatched <= dispatched' /\ Pos(t)' = {} /\ Pos(Main)' = Pos(Main)
    BY <1>1, <2>1 DEF Pos
  <2> HIDE DEF next
  <2> QED
    BY <1>0, <1>1, <1>3, <2>1, <2>2, <2>3, <2>4, <2>5, Still
<1>5. CASE next # {}
  <2>0. PICK i : i = Min(next)
    OBVIOUS
  <2> DEFINE b == NewBase(i)
  <2>1. pc' = [pc EXCEPT ![t] = "enter"] /\ dispatched' = i /\ stack' = [stack EXCEPT ![t] = <<b>>]
    BY <1>5, <2>0
  <2>2. pc'[t] = "enter" /\ \A u \in Actor \ {t} : pc'[u] = pc[u]
    BY <1>0, <1>1, <2>1
  <2>3. i \in next /\ \A k \in next : i <= k
    <3>1. next \subseteq Nat
      BY <1>1, <1>2
    <3> QED
      BY <1>5, <2>0, <3>1, Smallest
  <2>4. i \in Original /\ ~is_delta(i) /\ dispatched < i /\ dispatched <= dispatched'
    BY <1>1, <1>2, <2>1, <2>3 DEF Original
  <2>5. b.obj = i /\ b.todo = {}
    BY DEF NewBase
  <2> HIDE DEF b
  <2>6. /\ \A u \in Actor \ {t} : stack'[u] = stack[u]
        /\ Len(stack'[t]) = 1 /\ Pos(t)' = {1} /\ stack'[t][1] = b
    BY <1>0, <1>1, <2>1 DEF Pos
  <2>7. TodoOpen(t)'
    BY <2>5, <2>6 DEF TodoOpen
  <2>8. \A d \in Children(i) : ~objects[d].real
    <3>1. ~Arrived(i)
      BY <1>1, <2>4 DEF Arrived, Original
    <3> QED
      BY <1>1, <2>4, <3>1, NotYet
  <2>9. EnterOpen(t)'
    <3>1. Children(i)' = Children(i)
      BY <1>3 DEF Children, RefChildren, OfsChildren, Deltas, is_delta
    <3> QED
      BY <1>3, <2>5, <2>6, <2>8, <3>1 DEF EnterOpen
  <2>10. \A k \in DOMAIN objects : ~is_delta(k) /\ dispatched < k /\ k <= dispatched' =>
           /\ Len(stack'[t]) \in Pos(t)' /\ stack'[t][Len(stack'[t])].obj = k
           /\ pc'[t] = "enter"
    <3>1. ASSUME NEW k \in DOMAIN objects, ~is_delta(k), dispatched < k, k <= dispatched'
          PROVE  k = i
      <4>1. k \in next /\ k \in Nat /\ i \in Nat
        BY <1>1, <1>2, <2>4, <3>1 DEF Original
      <4> QED
        BY <2>1, <2>3, <3>1, <4>1
    <3> QED
      BY <2>2, <2>5, <2>6, <3>1
  <2>11. \A k \in Pos(Main)' : k \in Pos(Main) /\ stack'[Main][k].obj = stack[Main][k].obj
    BY <1>0, <2>6 DEF Pos
  <2> HIDE DEF next
  <2> QED
    BY <1>0, <1>1, <1>3, <2>2, <2>4, <2>6, <2>7, <2>9, <2>10, <2>11, Still
<1> QED
  BY <1>4, <1>5

LEMMA SetTypeGoes ==
  ASSUME OInv, result = "none", NEW t \in Actor, SetType(t)
  PROVE  OInv'
<1>1. PICK d, n, b : d = child[t] /\ n = Len(stack[t]) /\ b = stack[t][n].obj
  OBVIOUS
<1>2. /\ pc[t] = "type" /\ Busy(t) /\ pc'[t] \in {"depth", "delta"}
      /\ \A u \in Actor \ {t} : pc'[u] = pc[u]
      /\ UNCHANGED <<initial, dispatched, times, stack, child, left, result>>
  BY Typed DEF OInv
<1>3. /\ b \in DOMAIN objects /\ d \in Original /\ d \in DOMAIN objects /\ times[d] = 0
      /\ stack[t] # <<>> /\ d \in stack[t][n].todo
  BY <1>1, Typed DEF OInv
<1>4. /\ SameObjects /\ DOMAIN objects' = DOMAIN objects
      /\ \A i \in DOMAIN objects \ {d} : objects'[i] = objects[i]
      /\ objects'[d].real /\ objects'[d].of = b
      /\ objects'[d].depth = objects[b].depth + 1
  BY <1>1, Typed DEF OInv
<1>5. /\ IInv /\ IInv' /\ TypeOK /\ Given /\ Sourced /\ FromAbove
      /\ \A u \in Actor : TodoOpen(u) /\ EnterOpen(u)
  BY SetTypeStep DEF OInv, IInv
<1>6. /\ Original' = Original /\ Deltas' = Deltas /\ Original \subseteq DOMAIN objects
      /\ Deltas \subseteq Original /\ initial' = initial
      /\ \A i \in DOMAIN objects : is_delta(i)' = is_delta(i) /\ Children(i)' = Children(i)
  <2>1. Deltas \subseteq Original /\ Original \subseteq DOMAIN objects /\ initial' = initial
    BY <1>2, <1>5, Types DEF Deltas, Original
  <2> QED
    BY <1>4, <1>5, <2>1, ChildrenKept
<1>7. /\ n \in Pos(t) /\ d \in Children(b) /\ is_delta(d) /\ ~objects[d].real
      /\ is_delta(b) => times[b] > 0
      /\ t \in Thread /\ ~is_delta(b) => b <= dispatched
  <2>1. n \in Pos(t) /\ is_delta(d)
    BY <1>1, <1>2, <1>5, AtWork
  <2>2. StackKnown(t) /\ Resolving(t)
    BY <1>5 DEF IInv
  <2> QED
    BY <1>1, <1>2, <1>3, <2>1, <2>2 DEF StackKnown, Resolving
<1>8. b # d /\ objects'[b] = objects[b]
  BY <1>3, <1>4, <1>7
<1>9. Arrived(b)
  <2>1. CASE t \in Thread
    BY <1>7, <2>1 DEF Arrived
  <2>2. CASE t = Main
    <3>1. IF n = 1 THEN b > initial ELSE is_delta(b)
      BY <1>1, <1>7, <2>2 DEF OInv, MainDown
    <3> QED
      BY <1>7, <3>1 DEF Arrived
  <2> QED
    BY <2>1, <2>2 DEF Actor
<1>10. \A i \in DOMAIN objects : Arrived(i)' = Arrived(i)
  BY <1>2, <1>6 DEF Arrived
<1>11. ~Arrived(d)
  BY <1>3, <1>5, <1>7, Types DEF Arrived, Original
<1>12. \A i \in DOMAIN objects : objects[i].real => objects'[i].real
  BY <1>4
<1>13. Given'
  BY <1>4, <1>12, GivenKept
<1>14. Sourced'
  <2>1. \A u \in Actor : Busy(u) => Busy(u)'
    BY <1>2 DEF Busy
  <2>2. MadeOf(d, b)'
    <3>1. b \in DOMAIN objects' /\ d \in Children(b)' /\ Arrived(b)'
      BY <1>3, <1>4, <1>6, <1>7, <1>9, <1>10
    <3>2. objects'[d].depth = objects'[b].depth + 1
      BY <1>4, <1>8
    <3>3. Busy(t)' /\ child'[t] = d
      BY <1>1, <1>2, <2>1
    <3> QED
      BY <3>1, <3>2, <3>3 DEF MadeOf, Actor
  <2>3. ASSUME NEW e \in Deltas, NEW c, MadeOf(e, c), e # d PROVE MadeOf(e, c)'
    <3>1. objects'[e] = objects[e]
      BY <1>4, <1>6, <2>3
    <3>2. /\ c \in DOMAIN objects /\ e \in Children(c) /\ Arrived(c)
          /\ c <= initial => objects[e].depth = objects[c].depth + 1
          /\ times[e] > 0 \/ \E u \in Actor : Busy(u) /\ child[u] = e
      BY <2>3 DEF MadeOf
    <3>3. objects'[c] = objects[c]
      BY <1>4, <1>11, <3>2
    <3>4. c \in DOMAIN objects' /\ e \in Children(c)' /\ Arrived(c)'
      BY <1>4, <1>6, <1>10, <3>2
    <3>5. times'[e] > 0 \/ \E u \in Actor : Busy(u)' /\ child'[u] = e
      BY <1>2, <2>1, <3>2
    <3> QED
      BY <1>6, <3>1, <3>2, <3>3, <3>4, <3>5 DEF MadeOf, Actor
  <2>4. ASSUME NEW e \in Deltas, objects'[e].real, NEW c, c = objects'[e].of
        PROVE  MadeOf(e, c)'
    <3>1. CASE e = d
      BY <1>4, <2>2, <2>4, <3>1
    <3>2. CASE e # d
      <4>1. objects'[e] = objects[e]
        BY <1>4, <1>6, <3>2
      <4>2. MadeOf(e, objects[e].of)
        BY <1>5, <2>4, <4>1 DEF Sourced
      <4> QED
        BY <2>3, <2>4, <3>2, <4>1, <4>2
    <3> QED
      BY <3>1, <3>2
  <2> QED
    BY <1>6, <2>4 DEF Sourced
<1>15. FromAbove'
  <2>1. Resolvable(d)
    <3>1. SUFFICES ASSUME NEW S \in SUBSET Original, Closed(S)
                   PROVE  d \in S
      BY DEF Resolvable, Original
    <3>2. CASE b \in Original
      <4>1. objects[b].real
        <5>1. is_delta(b) => times[b] = 1
          <6>1. times[b] \in Nat /\ times[b] <= 1
            BY <1>5, <3>2 DEF IInv, TypeOK, Once, Original
          <6> QED
            BY <1>7, <6>1
        <5> QED
          BY <1>3, <1>5, <3>2, <5>1 DEF IInv, Once, Given
      <4>2. b \in S
        BY <1>5, <3>1, <3>2, <4>1 DEF FromAbove, Resolvable, Original
      <4> QED
        BY <1>7, <3>1, <3>2, <4>2 DEF Closed, Children, Original
    <3>3. CASE b \notin Original
      <4>1. b > initial
        BY <1>3, <1>5, <3>3, Types DEF Original
      <4>2. FixThin /\ objects[b].name \in Local /\ d \notin OfsChildren(b)
        BY <1>3, <1>5, <1>7, <3>3, <4>1 DEF Given, OfsChildren
      <4>3. Thin(d)
        BY <1>7, <4>2 DEF Children, RefChildren, Thin
      <4> QED
        BY <1>3, <3>1, <4>3 DEF Closed, Original
    <3> QED
      BY <3>2, <3>3
  <2>2. \A i : Resolvable(i)' = Resolvable(i)
    BY <1>4, <1>5, ResolvableKept
  <2> QED
    BY <1>4, <1>5, <1>6, <2>1, <2>2 DEF FromAbove
\* The delta is on no other stack, nor elsewhere on this one.
<1>16. ASSUME NEW u \in Actor, NEW k \in Pos(u), d \in Children(stack[u][k].obj)
       PROVE  u = t /\ k = n
  BY <1>1, <1>7, <1>16, StacksApart
<1>17. \A u \in Actor : TodoOpen(u)' /\ EnterOpen(u)'
  <2>1. ASSUME NEW u \in Actor PROVE TodoOpen(u)' /\ EnterOpen(u)'
    <3>1. StackKnown(u)
      BY <1>5 DEF IInv
    <3>2. Pos(u)' = Pos(u) /\ (Busy(u) => Busy(u)')
      BY <1>2 DEF Pos, Busy
    <3>3. \A i : Children(i) \subseteq DOMAIN objects
      BY <1>6 DEF Children, RefChildren, OfsChildren
    <3>4. TodoOpen(u)'
      <4>1. ASSUME NEW k \in Pos(u), NEW e \in stack[u][k].todo, objects'[e].real
            PROVE  k = Len(stack[u]) /\ Busy(u)' /\ e = child[u]
        <5>1. e \in Children(stack[u][k].obj) /\ e \in DOMAIN objects
          BY <3>1, <3>3 DEF StackKnown
        <5>2. CASE e = d
          BY <1>1, <1>2, <1>16, <3>2, <5>1, <5>2
        <5>3. CASE e # d
          BY <1>4, <1>5, <3>2, <4>1, <5>1, <5>3 DEF TodoOpen
        <5> QED
          BY <5>2, <5>3
      <4> QED
        BY <1>2, <3>2, <4>1 DEF TodoOpen
    <3>5. EnterOpen(u)'
      <4>1. SUFFICES ASSUME pc'[u] = "enter"
                     PROVE  \A e \in Children(stack[u][Len(stack[u])].obj)' : ~objects'[e].real
        BY <1>2 DEF EnterOpen
      <4>2. u # t /\ pc[u] = "enter"
        BY <1>2, <4>1
      <4>3. Len(stack[u]) \in Pos(u)
        <5>1. stack[u] # <<>>
          BY <1>5, <4>2 DEF IInv, Phases
        <5> QED
          BY <1>5, <5>1, Types, EmptySeq DEF Pos
      <4>4. stack[u][Len(stack[u])].obj \in DOMAIN objects
        BY <3>1, <4>3 DEF StackKnown
      <4>5. ASSUME NEW e \in Children(stack[u][Len(stack[u])].obj) PROVE ~objects'[e].real
        <5>1. e # d
          BY <1>16, <4>2, <4>3
        <5> QED
          BY <1>4, <1>5, <3>3, <4>2, <5>1 DEF EnterOpen
      <4> QED
        BY <1>2, <1>6, <4>4, <4>5
    <3> QED
      BY <3>4, <3>5
  <2> QED
    BY <2>1
<1>18. Complete'
  <2>1. \A k \in Pos(t) : \A e \in Children(stack[t][k].obj) : Waits(t, k, e) =>
          k \in Pos(t)' /\ stack'[t][k].obj = stack[t][k].obj /\ Waits(t, k, e)'
    BY <1>2 DEF Waits, Pos
  <2>2. \A u \in Actor \ {t} : pc'[u] = pc[u] /\ stack'[u] = stack[u]
    BY <1>2
  <2> QED
    BY <1>4, <1>10, <1>12, <2>1, <2>2, CompleteKept
<1>19. MainDown'
  <2>1. \A k \in Pos(Main) : stack[Main][k].obj \in DOMAIN objects
    BY <1>5 DEF IInv, StackKnown, Actor
  <2>2. MainDown /\ Pos(Main)' = Pos(Main)
    BY <1>2 DEF OInv, Pos
  <2> QED
    BY <1>2, <1>6, <2>1, <2>2 DEF MainDown
<1>20. AllOut' /\ Results'
  <2>1. AllOut'
    BY <1>2 DEF OInv, AllOut, Actor
  <2>2. result' = "none"
    BY <1>2
  <2> QED
    BY <2>1, <2>2 DEF Results
<1>21. ThirdPass'
  <2>1. pc'[Main] # "wait" => pc[Main] # "wait"
    BY <1>2 DEF Actor
  <2>2. \A e \in Deltas : /\ Thin(e)' = Thin(e) /\ objects'[e].type = objects[e].type
                          /\ ~objects'[e].real => ~objects[e].real
    BY <1>4, <1>6, <1>12 DEF Thin, SameObjects
  <2>3. ThirdPass
    BY DEF OInv
  <2>4. \A e \in left' : FixThin /\ e \in Deltas' /\ objects'[e].type = "ref"
    BY <1>2, <1>6, <2>2, <2>3 DEF ThirdPass
  <2>5. ASSUME pc'[Main] # "wait", NEW e \in Deltas, Thin(e)', ~objects'[e].real
        PROVE  e \in left' \/ \E i \in DOMAIN objects' : i > initial' /\ e \in Children(i)'
    <3>1. e \in left \/ \E i \in DOMAIN objects : i > initial /\ e \in Children(i)
      BY <2>1, <2>2, <2>3, <2>5 DEF ThirdPass
    <3> QED
      BY <1>2, <1>4, <1>6, <3>1
  <2> QED
    BY <1>2, <1>6, <2>1, <2>3, <2>4, <2>5 DEF ThirdPass
<1> QED
  BY <1>5, <1>13, <1>14, <1>15, <1>17, <1>18, <1>19, <1>20, <1>21 DEF OInv, Actor

LEMMA ResolveGoes ==
  ASSUME OInv, result = "none", NEW t \in Actor, Resolve(t)
  PROVE  OInv'
<1>1. PICK d, n : d = child[t] /\ n = Len(stack[t])
  OBVIOUS
<1>2. /\ pc[t] = "delta" /\ Busy(t) /\ pc'[t] = "enter" /\ \A u \in Actor \ {t} : pc'[u] = pc[u]
      /\ UNCHANGED <<objects, initial, dispatched, child, left, result>>
  BY Descended DEF OInv
<1>3. n \in Pos(t) /\ n \in Nat /\ d \in Original /\ times[d] = 0 /\ is_delta(d)
  BY <1>1, Descended DEF OInv
<1>4. times \in [Original -> Nat] /\ times' = [times EXCEPT ![d] = 1]
  BY <1>1, Descended DEF OInv
<1>5. /\ \A u \in Actor \ {t} : stack'[u] = stack[u]
      /\ Len(stack'[t]) = n + 1 /\ stack'[t][n + 1].obj = d /\ stack'[t][n + 1].todo = {}
  BY <1>1, Descended DEF OInv
<1>6. \A k \in Pos(t) : /\ stack'[t][k].obj = stack[t][k].obj
                        /\ stack'[t][k].todo = stack[t][k].todo \ (IF k = n THEN {d} ELSE {})
  BY <1>1, Descended DEF OInv
<1>7. /\ \A k \in Pos(t) : k \in Pos(t)' /\ k # n + 1 /\ k \in Nat
      /\ \A k \in Pos(t)' : k \in Pos(t) \/ k = n + 1
      /\ n + 1 \in Pos(t)'
  BY <1>1, <1>3, <1>5 DEF Pos
<1>8. IInv /\ IInv' /\ TypeOK /\ SameObjects /\ dispatched' \in Int /\ dispatched <= dispatched'
  BY <1>2, ResolveStep, UnchangedObjects, Types DEF OInv, IInv
<1>9. /\ Original' = Original /\ Deltas' = Deltas
      /\ \A i : /\ is_delta(i)' = is_delta(i) /\ Children(i)' = Children(i) /\ Thin(i)' = Thin(i)
  BY <1>2 DEF Original, Deltas, is_delta, Children, RefChildren, OfsChildren, Thin
<1>10. \A e \in Original : times'[e] = IF e = d THEN 1 ELSE times[e]
  BY <1>4
<1>11. Sourced' /\ FromAbove' /\ \A u \in Actor \ {t} : TodoOpen(u)' /\ EnterOpen(u)'
  <2>1. \A e \in Original : times[e] > 0 => times'[e] > 0
    BY <1>10
  <2>2. Busy(t) => times'[child[t]] > 0
    BY <1>1, <1>3, <1>10
  <2>3. \A u \in Actor \ {t} : pc'[u] = pc[u] /\ child'[u] = child[u] /\ stack'[u] = stack[u]
    BY <1>2, <1>5
  <2>4. \A i \in DOMAIN objects : objects'[i] = objects[i]
    BY <1>2
  <2> QED
    BY <1>8, <2>1, <2>2, <2>3, <2>4, Kept
<1>12. Given'
  <2>1. \A i \in DOMAIN objects' \ DOMAIN objects :
          objects'[i].real /\ FixThin /\ objects'[i].name \in Local
    BY <1>2
  <2>2. \A i \in DOMAIN objects : objects[i].real => objects'[i].real
    BY <1>2
  <2> QED
    BY <1>8, <2>1, <2>2, GivenKept
<1>13. TodoOpen(t)'
  <2>1. ASSUME NEW k \in Pos(t)', NEW e \in stack'[t][k].todo PROVE ~objects[e].real
    <3>1. k \in Pos(t)
      BY <1>5, <1>7, <2>1
    <3>2. e \in stack[t][k].todo /\ (k = n => e # d)
      BY <1>6, <2>1, <3>1
    <3>3. TodoOpen(t)
      BY DEF OInv
    <3> QED
      BY <1>1, <3>1, <3>2, <3>3 DEF TodoOpen
  <2> QED
    BY <1>2, <2>1 DEF TodoOpen
<1>14. EnterOpen(t)'
  <2>1. ~Arrived(d)
    BY <1>3, <1>8, Types DEF Arrived, Original
  <2>2. \A e \in Children(d) : ~objects[e].real
    BY <1>3, <2>1, NotYet
  <2> QED
    BY <1>2, <1>5, <1>9, <2>2 DEF EnterOpen
<1>15. Complete'
  <2>1. ASSUME NEW k \in Pos(t), NEW e \in Children(stack[t][k].obj), Waits(t, k, e)
        PROVE  \/ objects'[e].real
               \/ k \in Pos(t)' /\ stack'[t][k].obj = stack[t][k].obj /\ Waits(t, k, e)'
    <3>1. e \in stack[t][k].todo
      BY <1>2, <2>1 DEF Waits
    <3>2. CASE k = n /\ e = d
      <4>1. objects[d].real
        BY <1>1, <1>2, <1>8 DEF IInv, Resolving
      <4> QED
        BY <1>2, <3>2, <4>1
    <3>3. CASE ~(k = n /\ e = d)
      BY <1>6, <1>7, <3>1, <3>3 DEF Waits
    <3> QED
      BY <3>2, <3>3
  <2>2. ASSUME NEW i \in DOMAIN objects, Arrived(i)', ~Arrived(i)
        PROVE  /\ Len(stack'[t]) \in Pos(t)' /\ stack'[t][Len(stack'[t])].obj = i
               /\ pc'[t] = "enter"
    <3>1. i \in Original /\ is_delta(i) /\ times'[i] > 0 /\ ~(times[i] > 0)
      BY <1>2, <1>8, <1>9, <2>2, Types DEF Arrived, IInv, ObjectsKnown, Original
    <3>2. i = d
      BY <1>10, <3>1
    <3> QED
      BY <1>2, <1>5, <1>7, <3>2
  <2>3. \A u \in Actor \ {t} : pc'[u] = pc[u] /\ stack'[u] = stack[u]
    BY <1>2, <1>5
  <2>4. \A i \in DOMAIN objects : objects[i].real => objects'[i].real
    BY <1>2
  <2>5. \A i \in DOMAIN objects' : Arrived(i)' =>
          \/ i \in DOMAIN objects /\ Arrived(i)
          \/ /\ Len(stack'[t]) \in Pos(t)' /\ stack'[t][Len(stack'[t])].obj = i
             /\ pc'[t] = "enter"
    BY <1>2, <2>2
  <2> QED
    BY <1>8, <2>1, <2>3, <2>4, <2>5, CompleteKept
<1>16. MainDown'
  <2>1. MainDown
    BY DEF OInv
  <2>2. CASE t = Main
    <3>1. ASSUME NEW k \in Pos(Main)'
          PROVE  IF k = 1 THEN stack'[Main][k].obj > initial ELSE is_delta(stack'[Main][k].obj)
      <4>1. CASE k \in Pos(Main)
        BY <1>6, <2>1, <2>2, <4>1 DEF MainDown
      <4>2. CASE k = n + 1
        <5>1. k # 1
          BY <1>3, <4>2 DEF Pos
        <5> QED
          BY <1>3, <1>5, <2>2, <4>2, <5>1
      <4> QED
        BY <1>7, <2>2, <3>1, <4>1, <4>2
    <3> QED
      BY <1>2, <1>9, <3>1 DEF MainDown
  <2>3. CASE t # Main
    BY <1>2, <1>5, <1>9, <2>1, <2>3 DEF MainDown, Pos, Actor
  <2> QED
    BY <2>2, <2>3
<1>17. AllOut' /\ Results'
  <2>1. AllOut'
    BY <1>2 DEF OInv, AllOut, Actor
  <2>2. result' = "none"
    BY <1>2
  <2> QED
    BY <2>1, <2>2 DEF Results
<1>18. ThirdPass'
  <2>1. pc'[Main] # "wait" => pc[Main] # "wait"
    BY <1>2 DEF Actor
  <2>2. ThirdPass
    BY DEF OInv
  <2> QED
    BY <1>2, <1>9, <2>1, <2>2 DEF ThirdPass
<1> QED
  BY <1>8, <1>11, <1>12, <1>13, <1>14, <1>15, <1>16, <1>17, <1>18 DEF OInv, Actor

\* When nobody has anything on its stack, what has been come to is done.
LEMMA AtRest ==
  ASSUME OInv, pc[Main] \in {"wait", "work"}, \A t \in Thread : pc[t] = "done"
  PROVE  /\ \A t \in Actor : Pos(t) = {} /\ stack[t] = <<>> /\ ~Busy(t)
         /\ dispatched = initial
         /\ \A i \in DOMAIN objects : Arrived(i) => \A d \in Children(i) : objects[d].real
         /\ \A d \in Deltas : objects[d].real => d \in ResolvedOnes
         /\ \A i \in Original : objects[i].real => Arrived(i)
<1>1. IInv /\ TypeOK /\ Deltas \subseteq Original
  BY DEF OInv, IInv, Deltas, Original
<1>2. \A t \in Actor : Pos(t) = {} /\ stack[t] = <<>> /\ ~Busy(t)
  <2>1. \A t \in Actor : pc[t] \in {"wait", "work", "done"}
    BY DEF Actor
  <2> QED
    BY <1>1, <2>1 DEF IInv, Phases, Pos, Busy
<1>3. dispatched = initial
  BY IndexPackAssumption DEF OInv, AllOut
<1>4. \A i \in DOMAIN objects : Arrived(i) => \A d \in Children(i) : objects[d].real
  BY <1>2 DEF OInv, Complete, Pending
<1>5. \A d \in Deltas : objects[d].real => d \in ResolvedOnes
  <2>1. ASSUME NEW d \in Deltas, objects[d].real PROVE times[d] = 1
    <3>1. MadeOf(d, objects[d].of)
      BY <2>1 DEF OInv, Sourced
    <3>2. times[d] > 0
      BY <1>2, <3>1 DEF MadeOf
    <3>3. times[d] \in Nat /\ times[d] <= 1
      BY <1>1 DEF IInv, TypeOK, Once, Original
    <3> QED
      BY <3>2, <3>3
  <2> QED
    BY <1>1, <2>1 DEF ResolvedOnes
<1>6. \A i \in Original : objects[i].real => Arrived(i)
  <2>1. ASSUME NEW i \in Original, objects[i].real PROVE Arrived(i)
    <3>1. i \in Int /\ i <= initial /\ initial \in Nat
      BY <1>1, Types DEF Original
    <3>2. CASE is_delta(i)
      BY <1>5, <2>1, <3>2 DEF Deltas, Original, ResolvedOnes, Arrived
    <3>3. CASE ~is_delta(i)
      BY <1>3, <3>1, <3>3 DEF Arrived
    <3> QED
      BY <3>2, <3>3
  <2> QED
    BY <2>1
<1> QED
  BY <1>2, <1>3, <1>4, <1>5, <1>6

\* What resolved says
LEMMA Counted ==
  ASSUME IInv
  PROVE  /\ Cardinality(Deltas) \in Nat /\ resolved \in Nat /\ resolved <= Cardinality(Deltas)
         /\ resolved = Cardinality(Deltas) <=> Deltas \subseteq ResolvedOnes
<1>1. IsFiniteSet(Deltas) /\ Cardinality(Deltas) \in Nat
  <2>1. IsFiniteSet(Original)
    BY Types, FS_Interval DEF IInv, Original
  <2> QED
    BY <2>1, FS_Subset, FS_CardinalityType DEF Deltas, Original
<1>2. ResolvedOnes \subseteq Deltas
  BY DEF IInv, Once, ResolvedOnes, Deltas, Original
<1>3. resolved = Cardinality(ResolvedOnes) /\ resolved \in Nat
  BY Types DEF IInv, Counts
<1>4. /\ Cardinality(ResolvedOnes) <= Cardinality(Deltas)
      /\ Cardinality(ResolvedOnes) = Cardinality(Deltas) => ResolvedOnes = Deltas
  BY <1>1, <1>2, FS_Subset
<1> QED
  BY <1>1, <1>2, <1>3, <1>4

\* What is not resolved then cannot be: nothing leads to it from what is there.
LEMMA Failed ==
  ASSUME OInv, pc[Main] \in {"wait", "work"}, \A t \in Thread : pc[t] = "done",
         \A d \in Deltas : Thin(d) => objects[d].real, ~(Deltas \subseteq ResolvedOnes)
  PROVE  \E d \in Deltas : ~Resolvable(d)
<1> DEFINE S == {i \in Original : objects[i].real}
<1>1. PICK d \in Deltas : d \notin ResolvedOnes
  OBVIOUS
<1>2. Deltas \subseteq Original /\ Original \subseteq DOMAIN objects /\ Given
  BY Types DEF OInv, IInv, Deltas, Original
<1>3. d \notin S
  BY <1>1, AtRest
<1>4. \A i \in Original : ~is_delta(i) \/ Thin(i) => i \in S
  BY <1>2 DEF Given, Deltas, Original
<1>5. ASSUME NEW i \in S PROVE Children(i) \subseteq S
  <2>1. Arrived(i) /\ i \in DOMAIN objects
    BY <1>2, AtRest
  <2>2. \A e \in Children(i) : objects[e].real
    BY <2>1, AtRest
  <2> QED
    BY <1>2, <2>2 DEF Children, RefChildren, OfsChildren
<1>6. Closed(S)
  BY <1>4, <1>5 DEF Closed, Children, Original
<1>7. ~Resolvable(d)
  BY <1>3, <1>6 DEF Resolvable, Original
<1> QED
  BY <1>7

\* A step of Main between the walks that appends nothing
LEMMA MainStill ==
  ASSUME OInv, IInv', pc[Main] \in {"wait", "work"}, \A t \in Thread : pc[t] = "done",
         UNCHANGED <<objects, initial, dispatched, times, stack, child>>,
         pc' = [pc EXCEPT ![Main] = "work"], ThirdPass', Results'
  PROVE  OInv'
<1>1. IInv /\ TypeOK /\ SameObjects /\ Main \in Actor /\ \A u \in Actor \ {Main} : pc'[u] = pc[u]
  BY UnchangedObjects DEF OInv, IInv, TypeOK, Actor
<1>2. dispatched' \in Int /\ dispatched <= dispatched'
  BY <1>1, Types
<1>3. pc'[Main] = "work"
  BY <1>1 DEF TypeOK
<1>4. Pos(Main) = {} /\ Pos(Main)' = {} /\ ~Busy(Main)
  <2>1. Pos(Main) = {} /\ ~Busy(Main)
    BY <1>1, AtRest
  <2> QED
    BY <2>1 DEF Pos
<1>5. Sourced' /\ FromAbove' /\ \A u \in Actor \ {Main} : TodoOpen(u)' /\ EnterOpen(u)'
  <2>1. \A u \in Actor \ {Main} : pc'[u] = pc[u] /\ child'[u] = child[u] /\ stack'[u] = stack[u]
    BY <1>1
  <2>2. /\ \A i \in DOMAIN objects : objects'[i] = objects[i]
        /\ \A d \in Original : times[d] > 0 => times'[d] > 0
    OBVIOUS
  <2> QED
    BY <1>1, <1>2, <1>4, <2>1, <2>2, Kept
<1>6. TodoOpen(Main)' /\ EnterOpen(Main)' /\ MainDown'
  BY <1>3, <1>4 DEF TodoOpen, EnterOpen, MainDown
<1>7. \A i \in DOMAIN objects : objects[i].real => objects'[i].real
  OBVIOUS
<1>8. Given'
  <2>1. \A i \in DOMAIN objects' \ DOMAIN objects :
          objects'[i].real /\ FixThin /\ objects'[i].name \in Local
    OBVIOUS
  <2> QED
    BY <1>1, <1>7, <2>1, GivenKept
<1>9. Complete'
  <2>1. \A i \in DOMAIN objects' : Arrived(i)' => i \in DOMAIN objects /\ Arrived(i)
    BY DEF Arrived, is_delta
  <2>2. \A u \in Actor \ {Main} : pc'[u] = pc[u] /\ stack'[u] = stack[u]
    BY <1>1
  <2> QED
    BY <1>1, <1>4, <1>7, <2>1, <2>2, CompleteKept
<1>10. AllOut'
  BY <1>1, AtRest DEF AllOut
<1> QED
  BY <1>1, <1>5, <1>6, <1>8, <1>9, <1>10 DEF OInv, Actor

LEMMA ConcludeGoes ==
  ASSUME OInv, result = "none", Conclude
  PROVE  OInv'
<1> DEFINE unresolved == Cardinality(Deltas) - resolved
<1>1. IInv /\ IInv' /\ ThirdPass
  BY ConcludeStep DEF OInv
<1>2. /\ pc[Main] = "wait" /\ pc' = [pc EXCEPT ![Main] = "work"]
      /\ \A t \in Thread : pc[t] = "done"
      /\ UNCHANGED <<objects, initial, dispatched, times, stack, child>>
  BY DEF Conclude
<1>3. result' = IF unresolved = 0 THEN "ok"
                ELSE IF ~FixThin THEN "unresolved"
                ELSE IF unresolved < 0 THEN "confusion" ELSE "none"
  BY DEF Conclude
<1>4. left' = IF result' = "none"
              THEN {d \in Deltas : objects[d].type = "ref" /\ ~objects[d].real}
              ELSE left
  BY DEF Conclude
<1>5. unresolved >= 0 /\ (unresolved = 0 <=> Deltas \subseteq ResolvedOnes)
  BY <1>1, Counted
<1> HIDE DEF unresolved
<1>6. /\ Deltas' = Deltas /\ ResolvedOnes' = ResolvedOnes
      /\ \A i : Thin(i)' = Thin(i) /\ Children(i)' = Children(i)
  BY <1>2 DEF Deltas, is_delta, ResolvedOnes, Original, Thin, Children, RefChildren, OfsChildren
<1>7. \A i : Resolvable(i)' = Resolvable(i)
  BY <1>1, <1>2, UnchangedObjects, ResolvableKept DEF IInv
<1>8. Results'
  <2>1. CASE unresolved = 0
    BY <1>3, <1>5, <1>6, <2>1 DEF Results
  <2>2. CASE unresolved # 0 /\ ~FixThin
    <3>1. \E d \in Deltas : ~Resolvable(d)
      BY <1>2, <1>5, <2>2, Failed DEF Thin
    <3> QED
      BY <1>3, <1>6, <1>7, <2>2, <3>1 DEF Results
  <2>3. CASE unresolved # 0 /\ FixThin
    <3>1. result' = "none"
      BY <1>1, <1>3, <1>5, <2>3, Counted DEF unresolved
    <3> QED
      BY <3>1 DEF Results
  <2> QED
    BY <2>1, <2>2, <2>3
<1>9. ThirdPass'
  <2>1. CASE result' = "none"
    <3>1. FixThin
      BY <1>3, <2>1
    <3>2. \A d \in left' : FixThin /\ d \in Deltas' /\ objects'[d].type = "ref"
      BY <1>2, <1>4, <1>6, <2>1, <3>1
    <3>3. \A d \in Deltas' : Thin(d)' /\ ~objects'[d].real => d \in left'
      BY <1>2, <1>4, <1>6, <2>1 DEF Thin
    <3> QED
      BY <3>1, <3>2, <3>3 DEF ThirdPass
  <2>2. CASE result' # "none"
    <3>1. left' = left
      BY <1>4, <2>2
    <3> QED
      BY <1>1, <1>2, <1>6, <2>2, <3>1 DEF ThirdPass
  <2> QED
    BY <2>1, <2>2
<1> QED
  BY <1>1, <1>2, <1>8, <1>9, MainStill

LEMMA FinishGoes ==
  ASSUME OInv, result = "none", Finish
  PROVE  OInv'
<1>1. IInv /\ IInv' /\ ThirdPass
  BY FinishStep DEF OInv
<1>2. /\ pc[Main] = "work" /\ left = {}
      /\ UNCHANGED <<objects, initial, dispatched, resolved, times, stack, child, left, pc>>
      /\ result' = IF resolved = Cardinality(Deltas) THEN "ok" ELSE "unresolved"
  BY DEF Finish
<1>3. \A t \in Thread : pc[t] = "done"
  BY <1>1, <1>2 DEF IInv, Phases
<1>4. pc' = [pc EXCEPT ![Main] = "work"]
  BY <1>1, <1>2 DEF IInv, TypeOK, Actor
<1>5. \A d \in Deltas : Thin(d) => objects[d].real
  <2>1. ASSUME NEW d \in Deltas, Thin(d), ~objects[d].real PROVE FALSE
    <3>1. PICK i \in DOMAIN objects : i > initial /\ d \in Children(i)
      BY <1>1, <1>2, <2>1 DEF ThirdPass
    <3>2. Arrived(i)
      BY <3>1 DEF Arrived
    <3> QED
      BY <1>2, <1>3, <2>1, <3>1, <3>2, AtRest
  <2> QED
    BY <2>1
<1>6. /\ Deltas' = Deltas /\ ResolvedOnes' = ResolvedOnes
      /\ \A i : Resolvable(i)' = Resolvable(i)
  <2>1. Deltas' = Deltas /\ ResolvedOnes' = ResolvedOnes
    BY <1>2 DEF Deltas, is_delta, ResolvedOnes, Original
  <2>2. \A i : Resolvable(i)' = Resolvable(i)
    BY <1>1, <1>2, UnchangedObjects, ResolvableKept DEF IInv
  <2> QED
    BY <2>1, <2>2
<1>7. Results'
  <2>1. CASE resolved = Cardinality(Deltas)
    <3>1. Deltas \subseteq ResolvedOnes
      BY <1>1, <2>1, Counted
    <3> QED
      BY <1>2, <1>6, <2>1, <3>1 DEF Results
  <2>2. CASE resolved # Cardinality(Deltas)
    <3>1. ~(Deltas \subseteq ResolvedOnes)
      BY <1>1, <2>2, Counted
    <3>2. \E d \in Deltas : ~Resolvable(d)
      BY <1>2, <1>3, <1>5, <3>1, Failed
    <3> QED
      BY <1>2, <1>6, <2>2, <3>2 DEF Results
  <2> QED
    BY <2>1, <2>2
<1>8. ThirdPass'
  BY <1>2 DEF ThirdPass
<1> QED
  BY <1>1, <1>2, <1>3, <1>4, <1>7, <1>8, MainStill

LEMMA FixGoes ==
  ASSUME OInv, result = "none", Fix
  PROVE  OInv'
<1>1. PICK d : d = Min(left)
  OBVIOUS
<1>2. /\ pc[Main] = "work" /\ left # {} /\ left' = left \ {d}
      /\ UNCHANGED <<initial, dispatched, times, child, result>>
      /\ \/ ~(~objects[d].real /\ objects[d].base \in Local) /\ UNCHANGED <<objects, stack, pc>>
         \/ /\ ~objects[d].real /\ objects[d].base \in Local
            /\ \E junk \in Junk :
                 objects' = Append(objects, [name |-> objects[d].base, type |-> "base", base |-> 0,
                                             real |-> TRUE, depth |-> junk, of |-> 0])
            /\ stack' = [stack EXCEPT ![Main] = <<NewBase(Len(objects) + 1)>>]
            /\ pc' = [pc EXCEPT ![Main] = "enter"]
  BY <1>1 DEF Fix
<1>3. /\ IInv /\ IInv' /\ TypeOK /\ ThirdPass /\ Given /\ Sourced /\ Main \in Actor
      /\ pc \in [Actor -> {"wait", "work", "enter", "base", "type", "depth", "delta", "done"}]
  <2>1. IInv /\ IInv' /\ TypeOK /\ ThirdPass /\ Given /\ Sourced /\ Main \in Actor
    BY FixStep DEF OInv, IInv, Actor
  <2> QED
    BY <2>1, Zenon DEF TypeOK
<1>4. \A t \in Thread : pc[t] = "done"
  BY <1>2, <1>3 DEF IInv, Phases
<1>5. d \in left /\ d \in Original /\ d \in Deltas /\ FixThin /\ objects[d].type = "ref"
  <2>1. left \subseteq Original
    BY <1>3, Zenon DEF TypeOK, Original
  <2>2. left \subseteq Nat
    BY <2>1 DEF Original
  <2>3. d \in left
    BY <1>1, <1>2, <2>2, Smallest
  <2> QED
    BY <1>3, <2>1, <2>3 DEF ThirdPass
<1>6. result' = "none" /\ Results'
  BY <1>2 DEF Results
<1>7. CASE ~(~objects[d].real /\ objects[d].base \in Local) /\ UNCHANGED <<objects, stack, pc>>
  <2>1. pc' = [pc EXCEPT ![Main] = "work"]
    BY <1>2, <1>3, <1>7
  <2>2. ~(Thin(d) /\ ~objects[d].real)
    BY <1>7 DEF Thin
  <2>3. \A i : Thin(i)' = Thin(i) /\ Children(i)' = Children(i) /\ Deltas' = Deltas
    BY <1>2, <1>7 DEF Deltas, is_delta, Thin, Children, RefChildren, OfsChildren
  <2>4. ThirdPass'
    <3>1. \A e \in left' : FixThin /\ e \in Deltas' /\ objects'[e].type = "ref"
      BY <1>2, <1>3, <1>7, <2>3 DEF ThirdPass
    <3>2. \A e \in Deltas : Thin(e) /\ ~objects[e].real =>
            e \in left \/ \E i \in DOMAIN objects : i > initial /\ e \in Children(i)
      BY <1>2, <1>3 DEF ThirdPass
    <3>3. \A e \in Deltas' : Thin(e)' /\ ~objects'[e].real =>
            e \in left' \/ \E i \in DOMAIN objects' : i > initial' /\ e \in Children(i)'
      BY <1>2, <1>7, <2>2, <2>3, <3>2
    <3> QED
      BY <1>5, <3>1, <3>3 DEF ThirdPass
  <2> QED
    BY <1>2, <1>3, <1>4, <1>6, <1>7, <2>1, <2>4, MainStill
<1>8. CASE /\ ~objects[d].real /\ objects[d].base \in Local
           /\ \E junk \in Junk :
                objects' = Append(objects, [name |-> objects[d].base, type |-> "base", base |-> 0,
                                            real |-> TRUE, depth |-> junk, of |-> 0])
           /\ stack' = [stack EXCEPT ![Main] = <<NewBase(Len(objects) + 1)>>]
           /\ pc' = [pc EXCEPT ![Main] = "enter"]
  <2>1. PICK o \in Obj : o.name = objects[d].base /\ o.real /\ objects' = Append(objects, o)
    <3>1. Local \subseteq Name /\ Junk \subseteq Nat
      BY IndexPackAssumption
    <3>2. \A junk \in Junk :
            [name |-> objects[d].base, type |-> "base", base |-> 0,
             real |-> TRUE, depth |-> junk, of |-> 0] \in Obj
      BY <1>8, <3>1 DEF Obj
    <3> QED
      BY <1>8, <3>2
  <2>2. PICK last : last = Len(objects) + 1
    OBVIOUS
  <2>3. objects \in Seq(Obj) /\ DOMAIN objects = 1..Len(objects) /\ initial \in Nat
        /\ initial <= Len(objects) /\ Len(objects) \in Nat /\ dispatched \in Int
        /\ stack \in [Actor -> Seq(Base)] /\ Original \subseteq DOMAIN objects
    BY <1>3, Types DEF TypeOK
  <2>4. /\ DOMAIN objects' = DOMAIN objects \cup {last} /\ last \notin DOMAIN objects
        /\ \A i \in DOMAIN objects : objects'[i] = objects[i]
        /\ objects'[last] = o /\ last > initial
    <3>1. /\ Len(objects') = last /\ DOMAIN objects' = 1..last
          /\ \A i \in 1..Len(objects) : objects'[i] = objects[i]
          /\ objects'[last] = o
      BY <2>1, <2>2, <2>3, AppendProperties
    <3> QED
      BY <2>2, <2>3, <3>1
  <2>5. SameObjects
    BY <1>2, <2>4 DEF SameObjects
  <2>6. /\ Original' = Original /\ Deltas' = Deltas /\ Deltas \subseteq Original
        /\ \A i \in DOMAIN objects : is_delta(i)' = is_delta(i) /\ Children(i)' = Children(i)
    BY <1>3, <2>5, ChildrenKept DEF Deltas, Original
  <2> DEFINE b == NewBase(last)
  <2>7. b.obj = last /\ b.todo = {} /\ stack' = [stack EXCEPT ![Main] = <<b>>]
    BY <1>8, <2>2 DEF NewBase
  <2> HIDE DEF b
  <2>8. /\ \A u \in Actor \ {Main} : stack'[u] = stack[u]
        /\ Len(stack'[Main]) = 1 /\ Pos(Main)' = {1} /\ stack'[Main][1] = b
    BY <1>3, <2>3, <2>7 DEF Pos
  <2>9. pc'[Main] = "enter" /\ \A u \in Actor \ {Main} : pc'[u] = pc[u]
    BY <1>3, <1>8
  <2>10. /\ Pos(Main) = {} /\ ~Busy(Main)
         /\ \A i \in DOMAIN objects : Arrived(i) => \A e \in Children(i) : objects[e].real
    BY <1>2, <1>3, <1>4, AtRest
  <2>11. Sourced' /\ FromAbove' /\ \A u \in Actor \ {Main} : TodoOpen(u)' /\ EnterOpen(u)'
    <3>1. \A u \in Actor \ {Main} : pc'[u] = pc[u] /\ child'[u] = child[u] /\ stack'[u] = stack[u]
      BY <1>2, <2>8, <2>9
    <3>2. /\ \A i \in Original : times[i] > 0 => times'[i] > 0
          /\ dispatched' \in Int /\ dispatched <= dispatched'
      BY <1>2, <2>3
    <3> QED
      BY <1>3, <2>4, <2>5, <2>10, <3>1, <3>2, Kept
  <2>12. \A i \in DOMAIN objects : objects[i].real => objects'[i].real
    BY <2>4
  <2>13. Given'
    <3>1. \A i \in DOMAIN objects' \ DOMAIN objects :
            objects'[i].real /\ FixThin /\ objects'[i].name \in Local
      BY <1>5, <1>8, <2>1, <2>4
    <3> QED
      BY <2>5, <2>12, <3>1, GivenKept
\* The deltas of what is appended
  <2>14. Children(last)' = {e \in Deltas : objects[e].type = "ref" /\ objects[e].base = o.name}
    <3>1. \A e \in Deltas : objects'[e] = objects[e]
      BY <2>3, <2>4, <2>6
    <3>2. RefChildren(last)' = {e \in Deltas : objects[e].type = "ref" /\ objects[e].base = o.name}
      BY <2>4, <2>6, <3>1 DEF RefChildren
    <3>3. \A e \in Deltas : objects[e].type = "ofs" => objects[e].base # last
      BY <1>3, <2>3, <2>4 DEF Given
    <3>4. OfsChildren(last)' = {}
      BY <2>6, <3>1, <3>3 DEF OfsChildren
    <3> QED
      BY <3>2, <3>4 DEF Children
  <2>15. TodoOpen(Main)'
    BY <2>7, <2>8 DEF TodoOpen
  <2>16. EnterOpen(Main)'
    <3>1. ASSUME NEW e \in Children(last)', objects'[e].real PROVE FALSE
      <4>1. e \in Deltas /\ objects[e].type = "ref" /\ objects[e].base = o.name /\ objects[e].real
        BY <2>3, <2>4, <2>6, <2>14, <3>1
      <4>2. PICK c : MadeOf(e, c)
        BY <1>3, <4>1 DEF Sourced
      <4>3. c \in DOMAIN objects /\ Arrived(c) /\ e \in Children(c)
        BY <4>2 DEF MadeOf
      <4>4. objects[c].name = objects[d].base
        BY <2>1, <4>1, <4>3 DEF Children, RefChildren, OfsChildren
      <4>5. d \in Children(c)
        BY <1>5, <4>4 DEF Children, RefChildren
      <4> QED
        BY <1>8, <2>10, <4>3, <4>5
    <3> QED
      BY <2>7, <2>8, <3>1 DEF EnterOpen
  <2>17. Complete'
    <3>1. \A u \in Actor \ {Main} : pc'[u] = pc[u] /\ stack'[u] = stack[u]
      BY <2>8, <2>9
    <3>2. \A i \in DOMAIN objects : Arrived(i)' = Arrived(i)
      BY <1>2, <2>6 DEF Arrived
    <3>3. \A i \in DOMAIN objects' : Arrived(i)' =>
            \/ i \in DOMAIN objects /\ Arrived(i)
            \/ /\ Len(stack'[Main]) \in Pos(Main)' /\ stack'[Main][Len(stack'[Main])].obj = i
               /\ pc'[Main] = "enter"
      BY <2>4, <2>7, <2>8, <2>9, <3>2
    <3> QED
      BY <1>3, <2>5, <2>10, <2>12, <3>1, <3>3, CompleteKept
  <2>18. MainDown'
    BY <1>2, <2>4, <2>7, <2>8 DEF MainDown
  <2>19. AllOut'
    BY <1>2, <1>3, <1>4, AtRest DEF AllOut
  <2>20. ThirdPass'
    <3>1. \A e \in Deltas : objects'[e] = objects[e] /\ Thin(e)' = Thin(e)
      BY <2>3, <2>4, <2>6 DEF Thin
    <3>2. \A e \in left' : FixThin /\ e \in Deltas' /\ objects'[e].type = "ref"
      BY <1>2, <1>3, <2>6, <3>1 DEF ThirdPass
    <3>3. ASSUME NEW e \in Deltas, Thin(e), ~objects[e].real
          PROVE  e \in left' \/ \E i \in DOMAIN objects' : i > initial' /\ e \in Children(i)'
      <4>1. e \in left \/ \E i \in DOMAIN objects : i > initial /\ e \in Children(i)
        BY <1>2, <1>3, <3>3 DEF ThirdPass
      <4>2. CASE e = d
        <5>1. e \in Children(last)'
          BY <1>5, <2>1, <2>14, <4>2
        <5> QED
          BY <1>2, <2>4, <5>1
      <4>3. CASE e # d
        BY <1>2, <2>4, <2>6, <4>1, <4>3
      <4> QED
        BY <4>2, <4>3
    <3>4. \A e \in Deltas' : Thin(e)' /\ ~objects'[e].real =>
            e \in left' \/ \E i \in DOMAIN objects' : i > initial' /\ e \in Children(i)'
      BY <2>6, <3>1, <3>3
    <3> QED
      BY <1>5, <3>2, <3>4 DEF ThirdPass
  <2> QED
    BY <1>3, <1>6, <2>11, <2>13, <2>15, <2>16, <2>17, <2>18, <2>19, <2>20 DEF OInv, Actor
<1> QED
  BY <1>2, <1>7, <1>8

LEMMA InitiallyOpen ==
  ASSUME NamesDistinct, BasesApart, Init
  PROVE  OInv
<1>1. IInv /\ TypeOK
  BY Initially DEF IInv
<1>2. PICK q \in Packs :
        /\ objects = [i \in DOMAIN q |-> [name |-> q[i].name, type |-> q[i].type,
                                          base |-> q[i].base, real |-> q[i].type = "base",
                                          depth |-> 0, of |-> 0]]
        /\ initial = Len(q)
        /\ times = [i \in DOMAIN q |-> 0]
  BY DEF Init
<1>3. /\ dispatched = 0 /\ left = {} /\ result = "none"
      /\ pc = [t \in Actor |-> IF t = Main THEN "wait" ELSE "work"]
      /\ stack = [t \in Actor |-> <<>>]
  BY DEF Init
<1>4. DOMAIN q = DOMAIN objects /\ DOMAIN objects = Original /\ Deltas \subseteq Original
      /\ initial \in Nat
  <2> DEFINE Entry == [name : Name, type : {"base", "ref", "ofs"}, base : Name \cup Nat]
  <2>1. q \in Seq(Entry)
    BY IndexPackAssumption
  <2>2. DOMAIN q = 1..Len(q) /\ Len(q) \in Nat
    BY <2>1
  <2> QED
    BY <1>2, <2>2 DEF Deltas, Original
<1>5. \A i \in Original : /\ objects[i].name = q[i].name /\ objects[i].type = q[i].type
                          /\ objects[i].base = q[i].base
                          /\ objects[i].real <=> q[i].type = "base"
  BY <1>2, <1>4
<1>6. \A i \in Original : /\ is_delta(i) <=> ~objects[i].real
                          /\ times[i] = 0 /\ i \in Nat /\ i > 0 /\ ~(i > initial)
  BY <1>2, <1>4, <1>5 DEF is_delta, Original
<1>7. \A t \in Actor : Pos(t) = {} /\ pc[t] # "enter" /\ pc[t] # "done"
  BY <1>3 DEF Pos
<1>8. Given
  <2>1. \A d \in Deltas : objects[d].type = "ofs" => objects[d].base \in Original
    <3>1. ASSUME NEW d \in Deltas, objects[d].type = "ofs" PROVE objects[d].base \in Original
      <4>1. q[d].base \in 1..(d - 1) /\ d \in 1..initial
        BY <1>4, <1>5, <3>1, IndexPackAssumption DEF Original
      <4> QED
        BY <1>4, <1>5, <3>1, <4>1 DEF Original
    <3> QED
      BY <3>1
  <2>2. \A d \in Deltas, i \in Original :
          Thin(d) /\ objects[i].name = objects[d].base => ~is_delta(i)
    <3>1. ASSUME NEW d \in Deltas, NEW i \in Original, Thin(d), objects[i].name = objects[d].base
          PROVE  q[i].type = "base"
      BY <1>4, <1>5, <3>1 DEF BasesApart, Thin
    <3> QED
      BY <1>5, <1>6, <3>1
  <2> QED
    BY <1>4, <1>6, <2>1, <2>2 DEF Given
<1>9. Complete
  BY <1>3, <1>4, <1>6 DEF Complete, Arrived
<1>10. MainDown /\ \A t \in Actor : TodoOpen(t) /\ EnterOpen(t)
  BY <1>7 DEF MainDown, TodoOpen, EnterOpen, Actor
<1>11. Sourced
  BY <1>4, <1>6 DEF Sourced, Deltas, Original
<1>12. FromAbove
  BY <1>6 DEF FromAbove, Resolvable, Closed, Original
<1>13. AllOut
  BY <1>7 DEF AllOut, Actor
<1>14. ThirdPass /\ Results
  BY <1>3 DEF ThirdPass, Results, Actor
<1> QED
  BY <1>1, <1>8, <1>9, <1>10, <1>11, <1>12, <1>13, <1>14 DEF OInv

LEMMA InductiveOpen ==
  ASSUME OInv, [Next]_vars
  PROVE  OInv'
<1>1. CASE UNCHANGED vars
  <2>1. IInv'
    BY <1>1, Inductive DEF OInv
  <2>2. /\ objects' = objects /\ initial' = initial /\ dispatched' = dispatched /\ times' = times
        /\ pc' = pc /\ stack' = stack /\ child' = child /\ left' = left /\ result' = result
    BY <1>1 DEF vars
  <2>3. /\ Original' = Original /\ Deltas' = Deltas /\ ResolvedOnes' = ResolvedOnes
        /\ \A i : /\ Children(i)' = Children(i) /\ is_delta(i)' = is_delta(i)
                  /\ Thin(i)' = Thin(i) /\ Arrived(i)' = Arrived(i)
        /\ \A t : Pos(t)' = Pos(t) /\ Busy(t)' = Busy(t)
    BY <2>2 DEF Original, Deltas, ResolvedOnes, is_delta, Children, RefChildren, OfsChildren, Thin,
                Arrived, Pos, Busy
  <2>4. \A i : Resolvable(i)' = Resolvable(i)
    BY <2>2, UnchangedObjects, ResolvableKept DEF OInv, IInv
  <2>5. \A i, d : Pending(i, d)' = Pending(i, d) /\ MadeOf(i, d)' = MadeOf(i, d)
    BY <2>2, <2>3 DEF Pending, Waits, MadeOf
  <2>6. Given' /\ Complete' /\ MainDown'
    BY <2>2, <2>3, <2>5 DEF OInv, Given, Complete, MainDown
  <2>7. Sourced' /\ FromAbove' /\ AllOut' /\ Results'
    BY <2>2, <2>3, <2>4, <2>5 DEF OInv, Sourced, FromAbove, AllOut, Results
  <2>8. ThirdPass'
    BY <2>2, <2>3 DEF OInv, ThirdPass
  <2>9. \A t \in Actor : TodoOpen(t)' /\ EnterOpen(t)'
    BY <2>2, <2>3 DEF OInv, TodoOpen, EnterOpen
  <2> QED
    BY <2>1, <2>6, <2>7, <2>8, <2>9 DEF OInv, Actor
<1>2. ASSUME NEW t \in Actor, result = "none", Walk(t) PROVE OInv'
  BY <1>2, EnterGoes, NextDeltaGoes, SetTypeGoes, SetDeepestGoes, ResolveGoes, LeaveGoes, ReturnGoes
     DEF Walk
<1>3. CASE MainStep
  BY <1>2, <1>3, ConcludeGoes, FixGoes, FinishGoes DEF MainStep, Actor
<1>4. ASSUME NEW t \in Thread, ThreadStep(t) PROVE OInv'
  BY <1>2, <1>4, DispatchGoes DEF ThreadStep, Actor
<1> QED
  BY <1>1, <1>3, <1>4 DEF Next

\* However the threads divide the work, the command accepts exactly the packs of which every delta
\* leads to an object that is there, and then each delta was resolved from the base that the pack
\* names (conclude_pack(), builtin/index-pack.c:938). The names in the pack are distinct, and what
\* --fix-thin may append is no delta in it.
THEOREM OutcomeIsRight ==
  ASSUME NamesDistinct, BasesApart
  PROVE  Spec => []OutcomeRight
<1>1. Init => OInv
  BY InitiallyOpen
<1>2. OInv /\ [Next]_vars => OInv'
  BY InductiveOpen
<1>3. OInv => OutcomeRight
  <2>1. SUFFICES ASSUME OInv, result # "none" PROVE OutcomeRight
    BY DEF OutcomeRight
  <2>2. IInv /\ Results /\ Sourced /\ FromAbove /\ Deltas \subseteq Original
    BY <2>1 DEF OInv, Deltas, Original
  <2>3. CASE result = "ok"
    <3>1. ASSUME NEW d \in Deltas
          PROVE  LET b == objects[d].of
                 IN  /\ Resolvable(d) /\ times[d] = 1
                     /\ IF objects[d].type = "ofs" THEN b = objects[d].base
                        ELSE objects[b].name = objects[d].base
                     /\ b <= initial => objects[d].depth = objects[b].depth + 1
      <4>1. times[d] = 1 /\ objects[d].real
        BY <2>2, <2>3 DEF IInv, Once, Results, ResolvedOnes
      <4>2. Resolvable(d)
        BY <2>2, <4>1 DEF FromAbove
      <4>3. PICK b : b = objects[d].of
        OBVIOUS
      <4>4. MadeOf(d, b)
        BY <2>2, <4>1, <4>3 DEF Sourced
      <4>5. d \in Children(b) /\ (b <= initial => objects[d].depth = objects[b].depth + 1)
        BY <4>4 DEF MadeOf
      <4>6. IF objects[d].type = "ofs" THEN b = objects[d].base
            ELSE objects[b].name = objects[d].base
        BY <4>5 DEF Children, RefChildren, OfsChildren
      <4> QED
        BY <4>1, <4>2, <4>3, <4>5, <4>6
    <3> QED
      BY <2>3, <3>1 DEF OutcomeRight
  <2>4. CASE result = "unresolved"
    BY <2>2, <2>4 DEF Results, OutcomeRight
  <2> QED
    BY <2>1, <2>2, <2>3, <2>4 DEF Results
<1> QED
  BY <1>1, <1>2, <1>3, PTL DEF Spec
=============================================================================
