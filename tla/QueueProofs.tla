----------------------------- MODULE QueueProofs -----------------------------
(***************************************************************************)
(* Threads and processes that hand each other work or lines and have no    *)
(* files between them.                                                     *)
(*                                                                         *)
(* GrepQueue, for every number of threads, of files and every size of the  *)
(* ring: the output comes in the order of the files, is complete when the  *)
(* threads are joined, and the answer is right.                            *)
(*                                                                         *)
(* PackThreads, for every number of threads and objects, every window and  *)
(* every layout of the paths: each object is looked at once.               *)
(*                                                                         *)
(* FetchNegotiation, for every history, every mode and both kinds of       *)
(* connection: when the client goes on to the pack, no answer is before it.*)
(* If parents are older than their children, what was acknowledged stays   *)
(* known to the server, and nothing is sent that both sides have.          *)
(***************************************************************************)
EXTENDS GrepQueue, PackThreads, FetchNegotiation, SequenceTheorems, FiniteSetTheorems,
        WellFoundedInduction, TLAPS

-----------------------------------------------------------------------------
(* GrepQueue *)

\* The slot of a file
At(i) == (i - 1) % Size

Busy(c) == at[c] \in {"grep_source", "work_done"}

\* c works on file i: the item is not done, and has its result when the search is over.
WorksOn(c, i) == /\ w[c] = At(i) /\ ~todo[At(i)].done
                 /\ todo[At(i)].out = IF at[c] = "grep_source" THEN << >> ELSE Result(i)

\* The item of a file that has been added but not written, when s files have been taken out
ItemRight(i, s) == /\ todo[At(i)].source = i
                   /\ todo[At(i)].out \in {<< >>, Result(i)}
                   /\ todo[At(i)].done => i <= s /\ todo[At(i)].out = Result(i)
                   /\ i > s => todo[At(i)].out = << >>

\* The ring is the window between the files that are written and those that have been added.
Window ==
  /\ Len(output) <= added /\ added - Len(output) < Size
  /\ todo_done = Len(output) % Size
  /\ todo_end = added % Size
  /\ \E s \in Len(output)..added :
       /\ todo_start = s % Size
       /\ \A i \in (Len(output) + 1)..added : ItemRight(i, s)
       /\ \A c \in Consumer : Busy(c) => \E i \in (Len(output) + 1)..s : WorksOn(c, i)

\* No two threads work on the same slot.
Apart == \A c, e \in Consumer : Busy(c) /\ Busy(e) /\ w[c] = w[e] => c = e

Written == output = [i \in 1..Len(output) |-> Result(i)]

\* A file in which something was found
Found(i) == i \in Matches /\ (i <= Len(output) \/ todo[At(i)].out # << >>)

HitRight == (\E c \in Consumer : hit[c]) <=> (\E i \in 1..added : Found(i))

\* How far the main thread is
AdderKnown ==
  /\ all_work_added \/ at[Adder] # "add_work" => added = Files
  /\ at[Adder] \in {"join", "end"} => Len(output) = Files
  /\ at[Adder] = "end" => hit[Adder] = (Matches # {})

GrepIInv == GrepTypeOK /\ Window /\ Apart /\ Written /\ HitRight /\ AdderKnown

----------------------------------------------------------------------------
(* Slots: the arithmetic of the ring *)

\* A number is a multiple of the size and a slot, in one way.
LEMMA Division ==
  ASSUME NEW a \in Nat
  PROVE  a % Size \in Slot /\ a \div Size \in Int /\ a = Size * (a \div Size) + (a % Size)
<1>1. Size \in Nat \ {0}
  BY GrepQueueAssumption DEF GrepQueueAssumption
<1>2. a % Size \in 0..(Size - 1)
  BY <1>1
<1>3. a \div Size \in Int
  BY <1>1
<1>4. a = Size * (a \div Size) + (a % Size)
  BY <1>1
<1> QED
  BY <1>2, <1>3, <1>4 DEF Slot

LEMMA DivisionUnique ==
  ASSUME NEW q \in Int, NEW p \in Int, NEW r \in Slot, NEW s \in Slot, Size * q + r = Size * p + s
  PROVE  q = p /\ r = s
<1>1. Size \in Nat \ {0} /\ r \in 0..(Size - 1) /\ s \in 0..(Size - 1)
  BY GrepQueueAssumption DEF GrepQueueAssumption, Slot
<1>2. Size * (q - p) = s - r
  BY <1>1
<1>3. q - p < 1
  <2> SUFFICES ASSUME q - p >= 1 PROVE FALSE
    OBVIOUS
  <2>1. Size * (q - p) >= Size
    BY <1>1
  <2> QED
    BY <1>1, <1>2, <2>1
<1>4. q - p > -1
  <2> SUFFICES ASSUME p - q >= 1 PROVE FALSE
    OBVIOUS
  <2>1. Size * (p - q) >= Size
    BY <1>1
  <2> QED
    BY <1>1, <1>2, <2>1
<1> QED
  BY <1>1, <1>2, <1>3, <1>4

\* Numbers that are less than the size apart have different slots.
LEMMA SlotsDiffer ==
  ASSUME NEW a \in Nat, NEW b \in Nat, a % Size = b % Size, a - b < Size, b - a < Size
  PROVE  a = b
<1>1. Size \in Nat \ {0}
  BY GrepQueueAssumption DEF GrepQueueAssumption
<1> DEFINE q == a \div Size
           p == b \div Size
           r == a % Size
<1>2. q \in Int /\ p \in Int /\ r \in Slot /\ a = Size * q + r /\ b = Size * p + r
  BY Division
<1> HIDE DEF q, p, r
<1>3. a - b = Size * (q - p)
  BY <1>1, <1>2 DEF Slot
<1>4. q - p < 1
  <2> SUFFICES ASSUME q - p >= 1 PROVE FALSE
    BY <1>2
  <2>1. Size * (q - p) >= Size
    BY <1>1, <1>2
  <2> QED
    BY <1>1, <1>3, <2>1
<1>5. p - q < 1
  <2> SUFFICES ASSUME p - q >= 1 PROVE FALSE
    BY <1>2
  <2>1. Size * (p - q) >= Size
    BY <1>1, <1>2
  <2>2. b - a = Size * (p - q)
    BY <1>1, <1>2 DEF Slot
  <2> QED
    BY <1>1, <2>1, <2>2
<1> QED
  BY <1>2, <1>4, <1>5

\* Counting on from a slot
LEMMA SlotPlus ==
  ASSUME NEW a \in Nat, NEW i \in Nat
  PROVE  ((a % Size) + i) % Size = (a + i) % Size
<1>1. Size \in Nat \ {0}
  BY GrepQueueAssumption DEF GrepQueueAssumption
<1> DEFINE r == a % Size
<1>2. r \in Slot /\ a \div Size \in Int /\ a = Size * (a \div Size) + r
  BY Division
<1>3. r + i \in Nat /\ a + i \in Nat
  BY <1>1, <1>2 DEF Slot
<1>4. /\ (r + i) % Size \in Slot /\ (r + i) \div Size \in Int
      /\ r + i = Size * ((r + i) \div Size) + ((r + i) % Size)
  BY <1>3, Division
<1>5. /\ (a + i) % Size \in Slot /\ (a + i) \div Size \in Int
      /\ a + i = Size * ((a + i) \div Size) + ((a + i) % Size)
  BY <1>3, Division
<1> DEFINE q == a \div Size
           u == (r + i) \div Size
           v == (r + i) % Size
           x == (a + i) \div Size
           y == (a + i) % Size
<1> HIDE DEF r, q, u, v, x, y
<1>6. Size * x + y = Size * (q + u) + v
  <2>1. a = Size * q + r /\ r + i = Size * u + v /\ a + i = Size * x + y
    BY <1>2, <1>4, <1>5 DEF q, u, v, x, y
  <2>2. q \in Int /\ u \in Int /\ v \in Int /\ x \in Int /\ y \in Int /\ r \in Int
    BY <1>1, <1>2, <1>4, <1>5 DEF q, u, v, x, y, Slot
  <2>3. Size * (q + u) = Size * q + Size * u
    BY <1>1, <2>2
  <2> QED
    BY <1>1, <2>1, <2>2, <2>3
<1>7. v = y
  BY <1>2, <1>4, <1>5, <1>6, DivisionUnique DEF q, u, v, x, y
<1> QED
  BY <1>7 DEF v, y, r

\* Once around the ring
LEMMA SlotAround == ASSUME NEW a \in Nat PROVE (a + Size) % Size = a % Size
<1>1. Size \in Nat \ {0}
  BY GrepQueueAssumption DEF GrepQueueAssumption
<1>2. a % Size \in Slot /\ a \div Size \in Int /\ a = Size * (a \div Size) + (a % Size)
  BY Division
<1> DEFINE b == a + Size
<1>3. b \in Nat
  BY <1>1
<1>4. b % Size \in Slot /\ b \div Size \in Int /\ b = Size * (b \div Size) + (b % Size)
  BY <1>3, Division
<1> DEFINE q == a \div Size
           r == a % Size
           x == b \div Size
           y == b % Size
<1>5. q \in Int /\ x \in Int /\ r \in Slot /\ y \in Slot /\ a = Size * q + r /\ b = Size * x + y
  BY <1>2, <1>4
<1>6. b = a + Size
  OBVIOUS
<1> HIDE DEF b, q, r, x, y
<1>7. Size * x + y = Size * (q + 1) + r
  <2>1. Size * (q + 1) = Size * q + Size
    BY <1>1, <1>5
  <2> QED
    BY <1>1, <1>5, <1>6, <2>1 DEF Slot
<1>8. y = r
  BY <1>5, <1>7, DivisionUnique
<1> QED
  BY <1>8 DEF y, r, b

LEMMA AtSlot == ASSUME NEW i \in Nat \ {0} PROVE At(i) \in Slot
  BY Division DEF At

\* The files of the window have slots of their own.
LEMMA AtDiffer ==
  ASSUME NEW i \in Nat \ {0}, NEW j \in Nat \ {0}, At(i) = At(j), i - j < Size, j - i < Size
  PROVE  i = j
<1>1. i - 1 \in Nat /\ j - 1 \in Nat /\ (i - 1) - (j - 1) < Size /\ (j - 1) - (i - 1) < Size
  BY GrepQueueAssumption DEF GrepQueueAssumption
<1>2. i - 1 = j - 1
  BY <1>1, SlotsDiffer DEF At
<1> QED
  BY <1>2

LEMMA NextSlot == ASSUME NEW a \in Nat PROVE a % Size = At(a + 1) /\ After(a % Size) = (a + 1) % Size
  BY SlotPlus DEF At, After

----------------------------------------------------------------------------
(* What is written *)

LEMMA ResultType == ASSUME NEW i \in Nat PROVE Result(i) \in Seq(1..Files)
<1>1. i \in Matches => i \in 1..Files
  BY GrepQueueAssumption DEF GrepQueueAssumption
<1>2. << >> \in Seq(1..Files)
  BY EmptySeq
<1>3. CASE i \in Matches
  <2>1. <<i>> \in Seq(1..Files)
    BY <1>1, <1>3
  <2> QED
    BY <1>3, <2>1 DEF Result
<1> QED
  BY <1>2, <1>3 DEF Result

\* The results of the next files, after those of the first ones
LEMMA WrittenMore ==
  ASSUME NEW o \in Seq(Seq(1..Files)), \A i \in 1..Len(o) : o[i] = Result(i),
         NEW t \in Seq(Seq(1..Files)), \A i \in 1..Len(t) : t[i] = Result(Len(o) + i)
  PROVE  \A i \in 1..(Len(o) + Len(t)) : (o \o t)[i] = Result(i)
<1>1. \A i \in 1..(Len(o) + Len(t)) : (o \o t)[i] = IF i <= Len(o) THEN o[i] ELSE t[i - Len(o)]
  BY ConcatProperties
<1>2. Len(o) \in Nat /\ Len(t) \in Nat
  BY LenProperties
<1> SUFFICES ASSUME NEW i \in 1..(Len(o) + Len(t)) PROVE (o \o t)[i] = Result(i)
  OBVIOUS
<1>3. CASE i <= Len(o)
  <2>1. i \in 1..Len(o)
    BY <1>2, <1>3
  <2> QED
    BY <1>1, <1>3, <2>1
<1>4. CASE i > Len(o)
  <2>1. i - Len(o) \in 1..Len(t) /\ Len(o) + (i - Len(o)) = i /\ ~(i <= Len(o))
    BY <1>2, <1>4
  <2> QED
    BY <1>1, <2>1
<1> QED
  BY <1>2, <1>3, <1>4

\* A function on 1..n is a sequence.
LEMMA FunctionIsSeq == ASSUME NEW n \in Nat, NEW S, NEW t \in [1..n -> S]
                       PROVE  t \in Seq(S) /\ Len(t) = n
<1>1. t \in UNION {[1..m -> S] : m \in Nat}
  OBVIOUS
<1>2. Seq(S) = UNION {[1..m -> S] : m \in Nat}
  BY SeqDef
<1>3. t \in Seq(S)
  BY <1>1, <1>2
<1>4. DOMAIN t = 1..n /\ DOMAIN t = 1..Len(t) /\ Len(t) \in Nat
  BY <1>3, LenProperties
<1> QED
  BY <1>3, <1>4

----------------------------------------------------------------------------
(* The first state and the steps *)

LEMMA InitGrepIInv == GrepInit => GrepIInv
<1> SUFFICES ASSUME GrepInit PROVE GrepIInv
  OBVIOUS
<1>1. Size \in Nat \ {0, 1} /\ Files \in Nat /\ Adder \notin Consumer /\ 0 % Size = 0
  BY GrepQueueAssumption DEF GrepQueueAssumption
<1>2. GrepTypeOK
  <2>1. todo \in [Slot -> [source : 0..Files, done : BOOLEAN, out : Seq(1..Files)]]
    BY <1>1, EmptySeq DEF GrepInit
  <2>2. output \in Seq(Seq(1..Files))
    BY EmptySeq DEF GrepInit
  <2>3. {todo_start, todo_end, todo_done} \subseteq Slot /\ w \in [Consumer -> Slot] /\ added \in 0..Files
    BY <1>1 DEF GrepInit, Slot
  <2> QED
    BY <1>1, <2>1, <2>2, <2>3 DEF GrepInit, GrepTypeOK
<1>3. Len(output) = 0 /\ added = 0
  BY DEF GrepInit
<1>4. Window
  <2>1. 0 \in Len(output)..added
    BY <1>3
  <2> QED
    BY <1>1, <1>3, <2>1 DEF GrepInit, Window, Busy
<1>5. Written
  BY <1>3, EmptySeq DEF Written, GrepInit
<1> QED
  BY <1>1, <1>2, <1>3, <1>4, <1>5 DEF GrepInit, GrepIInv, Apart, Busy, HitRight, AdderKnown

\* A step that changes no more than who waits, and the main thread's place and hit.
LEMMA RingKeeps ==
  ASSUME GrepIInv, GrepTypeOK', AdderKnown',
         UNCHANGED <<todo, todo_start, todo_end, todo_done, added, w, output>>,
         \A c \in Consumer : at'[c] = at[c] /\ hit'[c] = hit[c]
  PROVE  GrepIInv'
<1> USE DEF GrepIInv
<1>1. \A c \in Consumer : Busy(c)' = Busy(c)
  BY DEF Busy
<1>2. \A i, s : ItemRight(i, s)' = ItemRight(i, s)
  BY DEF ItemRight, At, Result
<1>3. \A c \in Consumer : \A i : WorksOn(c, i)' = WorksOn(c, i)
  BY DEF WorksOn, At, Result
<1>4. Window'
  <2>1. PICK s \in Len(output)..added :
               /\ todo_start = s % Size
               /\ \A i \in (Len(output) + 1)..added : ItemRight(i, s)
               /\ \A c \in Consumer : Busy(c) => \E i \in (Len(output) + 1)..s : WorksOn(c, i)
    BY DEF Window
  <2>2. /\ \A i \in (Len(output) + 1)..added : ItemRight(i, s)'
        /\ \A c \in Consumer : Busy(c)' => \E i \in (Len(output) + 1)..s : WorksOn(c, i)'
    BY <1>1, <1>2, <1>3, <2>1
  <2> QED
    BY <2>1, <2>2 DEF Window
<1>5. Apart' /\ Written'
  BY <1>1 DEF Apart, Written, Result
<1>6. \A i : Found(i)' = Found(i)
  BY DEF Found, At
<1>7. HitRight'
  BY <1>6 DEF HitRight
<1> QED
  BY <1>4, <1>5, <1>7

\* What pthread_cond_signal() leaves are waiters.
LEMMA SignalledType == ASSUME NEW S, NEW T \in Signalled(S) PROVE T \subseteq S
  BY DEF Signalled

LEMMA add_workKeeps == ASSUME GrepIInv, add_work PROVE GrepIInv'
<1> USE DEF GrepIInv
<1>1. /\ Size \in Nat \ {0, 1} /\ Files \in Nat /\ added \in Nat /\ Len(output) \in Nat
      /\ added < Files /\ Len(output) <= added
  BY GrepQueueAssumption, LenProperties DEF GrepQueueAssumption, GrepTypeOK, add_work, Window
<1>2. CASE Full /\ cond_write' = {Adder} /\ UNCHANGED <<todo, todo_end, added, cond_add>>
  <2>1. GrepTypeOK'
    BY <1>2 DEF add_work, GrepTypeOK
  <2>2. AdderKnown'
    BY <1>2 DEF add_work, AdderKnown
  <2> QED
    BY <1>2, <2>1, <2>2, RingKeeps DEF add_work
<1>3. CASE /\ ~Full
           /\ todo' = [todo EXCEPT ![todo_end] = NewItem(todo_end, added + 1)]
           /\ todo_end' = After(todo_end)
           /\ added' = added + 1
           /\ cond_add' \in Signalled(cond_add)
           /\ UNCHANGED cond_write
  <2>a. PICK a \in Nat : a = added
    BY <1>1
  <2>d. PICK d \in Nat : d = Len(output)
    BY <1>1
  <2> USE <2>a, <2>d
  <2>1. /\ UNCHANGED <<todo_start, todo_done, all_work_added, cond_result, at, w, hit, output>>
        /\ at[Adder] = "add_work"
    BY DEF add_work
  <2>2. todo_end = At(a + 1) /\ todo_end' = (a + 1) % Size /\ todo_done = d % Size
    BY <1>1, <1>3, NextSlot DEF Window
  <2>3. a + 1 - d < Size
    <3>1. a + 1 # d + Size
      BY <1>1, <1>3, <2>2, SlotAround, NextSlot DEF Full, Window
    <3> QED
      BY <1>1, <3>1 DEF Window
  <2>4. /\ todo'[At(a + 1)] = [source |-> a + 1, done |-> FALSE, out |-> << >>]
        /\ \A i \in (d + 1)..a : todo'[At(i)] = todo[At(i)]
    <3>1. At(a + 1) \in Slot
      BY <1>1, AtSlot
    <3>2. ASSUME NEW i \in (d + 1)..a PROVE At(i) # At(a + 1) /\ At(i) \in Slot
      BY <1>1, <2>3, AtSlot, AtDiffer
    <3> QED
      BY <1>3, <2>2, <3>1, <3>2 DEF NewItem, GrepTypeOK
  <2>5. GrepTypeOK'
    <3>1. todo' \in [Slot -> [source : 0..Files, done : BOOLEAN, out : Seq(1..Files)]]
      <4>1. [source |-> a + 1, done |-> FALSE, out |-> << >>] \in [source : 0..Files, done : BOOLEAN, out : Seq(1..Files)]
        BY <1>1, EmptySeq
      <4> QED
        BY <1>3, <4>1 DEF NewItem, GrepTypeOK
    <3>2. todo_end' \in Slot
      BY <1>1, <2>2, Division
    <3>3. cond_add' \subseteq Consumer
      BY <1>3, SignalledType DEF GrepTypeOK
    <3>4. added' \in 0..Files
      BY <1>1, <1>3
    <3> QED
      BY <1>3, <2>1, <3>1, <3>2, <3>3, <3>4 DEF GrepTypeOK
  <2>6. Window'
    <3>1. PICK s \in d..a : /\ todo_start = s % Size
                            /\ \A i \in (d + 1)..a : ItemRight(i, s)
                            /\ \A c \in Consumer : Busy(c) => \E i \in (d + 1)..s : WorksOn(c, i)
      BY DEF Window
    <3>2. ASSUME NEW i \in (d + 1)..(a + 1) PROVE ItemRight(i, s)'
      <4>1. CASE i = a + 1
        BY <1>1, <2>4, <3>1, <4>1 DEF ItemRight, At
      <4>2. CASE i \in (d + 1)..a
        BY <2>4, <3>1, <4>2 DEF ItemRight, At, Result
      <4> QED
        BY <1>1, <4>1, <4>2
    <3>3. ASSUME NEW c \in Consumer, Busy(c)' PROVE \E i \in (d + 1)..s : WorksOn(c, i)'
      <4>1. PICK i \in (d + 1)..s : WorksOn(c, i)
        BY <2>1, <3>1, <3>3 DEF Busy
      <4>2. i \in (d + 1)..a
        BY <1>1
      <4> QED
        BY <2>1, <2>4, <4>1, <4>2 DEF WorksOn, At, Result
    <3>4. s \in d..(a + 1) /\ d <= a + 1
      BY <1>1
    <3>5. \E r \in d..(a + 1) :
            /\ todo_start = r % Size
            /\ \A i \in (d + 1)..(a + 1) : ItemRight(i, r)'
            /\ \A c \in Consumer : Busy(c)' => \E i \in (d + 1)..r : WorksOn(c, i)'
      BY <3>1, <3>2, <3>3, <3>4
    <3> QED
      BY <1>3, <2>1, <2>2, <2>3, <3>4, <3>5 DEF Window
  <2>7. Apart' /\ Written' /\ AdderKnown'
    BY <2>1, <1>1 DEF Apart, Busy, Written, Result, AdderKnown
  <2>8. HitRight'
    <3>1. ASSUME NEW i \in 1..a PROVE Found(i)' <=> Found(i)
      BY <1>1, <2>1, <2>4 DEF Found, At
    <3>2. ~Found(a + 1)'
      <4>1. ~(a + 1 <= d)
        BY <1>1
      <4>2. todo'[At(a + 1)].out = << >>
        BY <2>4
      <4> QED
        BY <2>1, <4>1, <4>2 DEF Found, At
    <3>3. (\E i \in 1..(a + 1) : Found(i)') <=> (\E i \in 1..a : Found(i))
      <4>1. ASSUME NEW i \in 1..(a + 1), Found(i)' PROVE i \in 1..a /\ Found(i)
        BY <1>1, <3>1, <3>2, <4>1
      <4>2. ASSUME NEW i \in 1..a, Found(i) PROVE i \in 1..(a + 1) /\ Found(i)'
        BY <1>1, <3>1, <4>2
      <4> QED
        BY <4>1, <4>2
    <3> QED
      BY <1>3, <2>1, <3>3 DEF HitRight
  <2> QED
    BY <2>5, <2>6, <2>7, <2>8
<1> QED
  BY <1>2, <1>3 DEF add_work

\* A thread takes out the next file, waits for one, or ends.
LEMMA get_workKeeps == ASSUME GrepIInv, NEW c \in Consumer, get_work(c) PROVE GrepIInv'
<1> USE DEF GrepIInv
<1>1. /\ Size \in Nat \ {0, 1} /\ Files \in Nat /\ added \in Nat /\ Len(output) \in Nat
      /\ Len(output) <= added /\ c # Adder /\ ~Busy(c)
  BY GrepQueueAssumption, LenProperties DEF GrepQueueAssumption, GrepTypeOK, get_work, Window, Busy
<1>2. CASE UNCHANGED <<todo_start, w>> /\ (at' = at \/ at' = [at EXCEPT ![c] = "end"])
  <2>1. GrepTypeOK'
    BY <1>1, <1>2 DEF get_work, GrepTypeOK
  <2>2. at'[Adder] = at[Adder] /\ ~Busy(c)' /\ \A e \in Consumer : e # c => Busy(e)' = Busy(e)
    BY <1>1, <1>2 DEF GrepTypeOK, Busy
  <2>3. \A i, s : ItemRight(i, s)' = ItemRight(i, s)
    BY DEF get_work, ItemRight, At, Result
  <2>4. \A e \in Consumer : e # c => \A i : WorksOn(e, i)' = WorksOn(e, i)
    BY <1>2 DEF get_work, WorksOn, At, Result, GrepTypeOK
  <2>5. Window'
    <3>1. PICK s \in Len(output)..added :
                 /\ todo_start = s % Size
                 /\ \A i \in (Len(output) + 1)..added : ItemRight(i, s)
                 /\ \A e \in Consumer : Busy(e) => \E i \in (Len(output) + 1)..s : WorksOn(e, i)
      BY DEF Window
    <3>2. /\ \A i \in (Len(output) + 1)..added : ItemRight(i, s)'
          /\ \A e \in Consumer : Busy(e)' => \E i \in (Len(output) + 1)..s : WorksOn(e, i)'
      BY <2>2, <2>3, <2>4, <3>1
    <3> QED
      BY <1>2, <3>1, <3>2 DEF Window, get_work
  <2>6. Apart' /\ Written' /\ AdderKnown'
    BY <1>2, <2>2 DEF get_work, Apart, Written, Result, AdderKnown
  <2>7. HitRight'
    <3>1. \A i : Found(i)' = Found(i)
      BY DEF get_work, Found, At
    <3> QED
      BY <3>1 DEF get_work, HitRight
  <2> QED
    BY <2>1, <2>5, <2>6, <2>7
<1>3. CASE /\ todo_start # todo_end
           /\ w' = [w EXCEPT ![c] = todo_start]
           /\ todo_start' = After(todo_start)
           /\ at' = [at EXCEPT ![c] = "grep_source"]
           /\ UNCHANGED cond_add
  <2>a. PICK a \in Nat : a = added
    BY <1>1
  <2>d. PICK d \in Nat : d = Len(output)
    BY <1>1
  <2> USE <2>a, <2>d
  <2>1. /\ UNCHANGED <<todo, todo_end, todo_done, all_work_added, cond_write, cond_result, added,
                       hit, output>>
    BY DEF get_work
  <2>2. PICK s \in d..a : /\ todo_start = s % Size
                          /\ \A i \in (d + 1)..a : ItemRight(i, s)
                          /\ \A e \in Consumer : Busy(e) => \E i \in (d + 1)..s : WorksOn(e, i)
    BY DEF Window
  <2>3. s \in Nat /\ s < a /\ a - d < Size
    <3>1. s # a
      BY <1>3, <2>2 DEF Window
    <3>2. s \in Nat /\ s <= a /\ a - d < Size
      BY <2>2 DEF Window
    <3> QED
      BY <3>1, <3>2
  <2>4. todo_start = At(s + 1) /\ todo_start' = (s + 1) % Size /\ At(s + 1) \in Slot
    BY <1>3, <2>2, <2>3, NextSlot, AtSlot
  <2>5. /\ w'[c] = At(s + 1) /\ at'[c] = "grep_source" /\ at'[Adder] = at[Adder]
        /\ \A e \in Consumer : e # c => w'[e] = w[e] /\ at'[e] = at[e]
    BY <1>1, <1>3, <2>4 DEF GrepTypeOK
  <2>6. GrepTypeOK'
    <3>1. todo_start' \in Slot
      BY <2>3, <2>4, Division
    <3>2. at' = [t \in Consumer \cup {Adder} |-> at'[t]] /\ w' \in [Consumer -> Slot]
      BY <1>3, <2>4 DEF GrepTypeOK
    <3> QED
      BY <1>3, <2>1, <2>5, <3>1, <3>2 DEF GrepTypeOK
  <2>7. ASSUME NEW i \in (d + 1)..a PROVE ItemRight(i, s + 1)'
    BY <2>1, <2>2, <2>3, <2>7 DEF ItemRight, At, Result
  <2>8. WorksOn(c, s + 1)'
    <3>1. ItemRight(s + 1, s)
      BY <2>2, <2>3
    <3> QED
      BY <2>1, <2>3, <2>5, <3>1 DEF ItemRight, WorksOn, At
  <2>9. ASSUME NEW e \in Consumer, e # c, Busy(e)'
        PROVE  w'[e] # At(s + 1) /\ \E i \in (d + 1)..s : WorksOn(e, i)'
    <3>1. PICK i \in (d + 1)..s : WorksOn(e, i)
      BY <2>2, <2>5, <2>9 DEF Busy
    <3>2. WorksOn(e, i)' /\ w'[e] = At(i)
      BY <2>1, <2>5, <2>9, <3>1 DEF WorksOn, At, Result
    <3>3. At(i) # At(s + 1)
      BY <1>1, <2>3, AtDiffer
    <3> QED
      BY <3>2, <3>3
  <2>10. Window'
    <3>1. s + 1 \in d..a /\ s + 1 \in (d + 1)..(s + 1) /\ \A i \in (d + 1)..s : i \in (d + 1)..(s + 1)
      BY <2>3
    <3>2. \E r \in d..a :
            /\ todo_start' = r % Size
            /\ \A i \in (d + 1)..a : ItemRight(i, r)'
            /\ \A e \in Consumer : Busy(e)' => \E i \in (d + 1)..r : WorksOn(e, i)'
      BY <2>4, <2>7, <2>8, <2>9, <3>1
    <3> QED
      BY <2>1, <3>2 DEF Window
  <2>11. Apart'
    <3>1. ASSUME NEW e \in Consumer, NEW f \in Consumer, e # f, Busy(e)', Busy(f)' PROVE w'[e] # w'[f]
      <4>1. CASE e # c /\ f # c
        BY <2>5, <3>1, <4>1 DEF Apart, Busy
      <4> QED
        BY <2>5, <2>9, <3>1, <4>1
    <3> QED
      BY <3>1 DEF Apart
  <2>12. Written' /\ AdderKnown'
    BY <2>1, <2>5 DEF Written, Result, AdderKnown
  <2>13. HitRight'
    <3>1. \A i : Found(i)' = Found(i)
      BY <2>1 DEF Found, At
    <3> QED
      BY <2>1, <3>1 DEF HitRight
  <2> QED
    BY <2>6, <2>10, <2>11, <2>12, <2>13
<1> QED
  BY <1>2, <1>3 DEF get_work

\* A search fills the item that the thread works on.
LEMMA grep_sourceKeeps == ASSUME GrepIInv, NEW c \in Consumer, grep_source(c) PROVE GrepIInv'
<1> USE DEF GrepIInv
<1>1. /\ Size \in Nat \ {0, 1} /\ Files \in Nat /\ Matches \subseteq 1..Files /\ added \in 0..Files
      /\ Len(output) \in Nat /\ Len(output) <= added /\ added - Len(output) < Size
      /\ c # Adder /\ Busy(c) /\ at[c] = "grep_source"
  BY GrepQueueAssumption, LenProperties DEF GrepQueueAssumption, GrepTypeOK, grep_source, Window, Busy
<1>a. PICK a \in Nat : a = added
  BY <1>1
<1>d. PICK d \in Nat : d = Len(output)
  BY <1>1
<1> USE <1>a, <1>d
<1>2. /\ UNCHANGED <<todo_start, todo_end, todo_done, all_work_added, cond_add, cond_write,
                     cond_result, added, w, output>>
      /\ at' = [at EXCEPT ![c] = "work_done"]
  BY DEF grep_source
<1>3. PICK s \in d..a : /\ todo_start = s % Size
                        /\ \A i \in (d + 1)..a : ItemRight(i, s)
                        /\ \A e \in Consumer : Busy(e) => \E i \in (d + 1)..s : WorksOn(e, i)
  BY DEF Window
<1>4. PICK k \in (d + 1)..s : WorksOn(c, k)
  BY <1>1, <1>3
<1>5. /\ k \in (d + 1)..a /\ k \in 1..Files /\ w[c] = At(k) /\ At(k) \in Slot
      /\ todo[At(k)].source = k /\ todo[At(k)].out = << >> /\ ~todo[At(k)].done
  <2>1. k \in (d + 1)..a /\ k \in 1..Files
    BY <1>1
  <2>2. w[c] = At(k) /\ todo[At(k)].out = << >> /\ ~todo[At(k)].done
    BY <1>1, <1>4 DEF WorksOn
  <2>3. todo[At(k)].source = k
    BY <1>3, <2>1 DEF ItemRight
  <2> QED
    BY <2>1, <2>2, <2>3, AtSlot
<1>6. /\ todo' = [todo EXCEPT ![At(k)].out = Result(k)]
      /\ hit' = [hit EXCEPT ![c] = @ \/ k \in Matches]
  <2>1. Append(<< >>, k) = <<k>>
    OBVIOUS
  <2>2. todo' = [todo EXCEPT ![At(k)].out = IF k \in Matches THEN Append(@, k) ELSE @]
    BY <1>5 DEF grep_source
  <2>3. (IF k \in Matches THEN Append(todo[At(k)].out, k) ELSE todo[At(k)].out) = Result(k)
    BY <1>5, <2>1 DEF Result
  <2>4. todo' = [todo EXCEPT ![At(k)].out = Result(k)]
    BY <2>2, <2>3
  <2>5. hit' = [hit EXCEPT ![c] = @ \/ k \in Matches]
    BY <1>5 DEF grep_source
  <2> QED
    BY <2>4, <2>5
<1>7. /\ todo'[At(k)].source = k /\ todo'[At(k)].out = Result(k) /\ ~todo'[At(k)].done
      /\ \A i \in (d + 1)..a : i # k => todo'[At(i)] = todo[At(i)]
  <2>1. ASSUME NEW i \in (d + 1)..a, i # k PROVE At(i) # At(k) /\ At(i) \in Slot
    BY <1>1, <1>5, <2>1, AtDiffer, AtSlot
  <2> QED
    BY <1>5, <1>6, <2>1 DEF GrepTypeOK
<1>8. /\ at'[c] = "work_done" /\ at'[Adder] = at[Adder]
      /\ \A e \in Consumer : (Busy(e)' <=> Busy(e)) /\ (e # c => at'[e] = at[e])
  <2>1. at'[c] = "work_done" /\ \A t \in Consumer \cup {Adder} : t # c => at'[t] = at[t]
    BY <1>2 DEF GrepTypeOK
  <2>2. Busy(c)' /\ Busy(c)
    BY <1>1, <2>1 DEF Busy
  <2>3. ASSUME NEW e \in Consumer, e # c PROVE (Busy(e)' <=> Busy(e))
    BY <2>1, <2>3 DEF Busy
  <2> QED
    BY <1>1, <2>1, <2>2, <2>3
<1>9. GrepTypeOK'
  <2>1. Result(k) \in Seq(1..Files)
    <3>1. << >> \in Seq(1..Files) /\ <<k>> \in Seq(1..Files)
      BY <1>5, EmptySeq
    <3> QED
      BY <3>1 DEF Result
  <2>2. todo' \in [Slot -> [source : 0..Files, done : BOOLEAN, out : Seq(1..Files)]]
    BY <1>5, <1>6, <2>1 DEF GrepTypeOK
  <2>3. hit' \in [Consumer \cup {Adder} -> BOOLEAN] /\ hit'[Adder] = hit[Adder]
    BY <1>1, <1>6 DEF GrepTypeOK
  <2>4. at' = [t \in Consumer \cup {Adder} |-> at'[t]]
    BY <1>2 DEF GrepTypeOK
  <2> QED
    BY <1>1, <1>2, <1>8, <2>2, <2>3, <2>4 DEF GrepTypeOK
<1>10. ASSUME NEW i \in (d + 1)..a PROVE ItemRight(i, s)'
  <2>1. CASE i = k
    BY <1>4, <1>7, <2>1 DEF ItemRight, At, Result
  <2>2. CASE i # k
    BY <1>3, <1>7, <2>2 DEF ItemRight, At, Result
  <2> QED
    BY <2>1, <2>2
<1>11. ASSUME NEW e \in Consumer, Busy(e)' PROVE \E i \in (d + 1)..s : WorksOn(e, i)'
  <2>1. CASE e = c
    <3>1. WorksOn(c, k)'
      BY <1>2, <1>5, <1>7, <1>8 DEF WorksOn, At, Result
    <3> QED
      BY <2>1, <3>1
  <2>2. CASE e # c
    <3>1. PICK i \in (d + 1)..s : WorksOn(e, i)
      BY <1>3, <1>8, <1>11
    <3>2. i # k
      BY <1>1, <1>5, <1>8, <1>11, <2>2, <3>1 DEF Apart, WorksOn
    <3>3. i \in (d + 1)..a
      BY <1>1
    <3>4. WorksOn(e, i)'
      BY <1>2, <1>7, <1>8, <2>2, <3>1, <3>2, <3>3 DEF WorksOn, At, Result
    <3> QED
      BY <3>4
  <2> QED
    BY <2>1, <2>2
<1>12. Window'
  BY <1>1, <1>2, <1>3, <1>10, <1>11 DEF Window
<1>13. Apart' /\ Written'
  BY <1>2, <1>8 DEF Apart, Written, Result
<1>14. AdderKnown'
  <2>1. hit'[Adder] = hit[Adder]
    BY <1>1, <1>6 DEF GrepTypeOK
  <2> QED
    BY <1>2, <1>8, <2>1 DEF AdderKnown
<1>15. HitRight'
  <2>1. ASSUME NEW i \in 1..a, i # k PROVE Found(i)' <=> Found(i)
    BY <1>2, <1>7, <2>1 DEF Found, At
  <2>2. Found(k)' <=> k \in Matches
    BY <1>7 DEF Found, At, Result
  <2>3. ~Found(k)
    BY <1>5 DEF Found
  <2>4. hit'[c] = (hit[c] \/ k \in Matches) /\ \A e \in Consumer : e # c => hit'[e] = hit[e]
    BY <1>1, <1>6 DEF GrepTypeOK
  <2>5. CASE k \in Matches
    <3>1. \E e \in Consumer : hit'[e]
      BY <2>4, <2>5
    <3>2. k \in 1..a /\ Found(k)'
      BY <1>5, <2>2, <2>5
    <3> QED
      BY <1>2, <3>1, <3>2 DEF HitRight
  <2>6. CASE k \notin Matches
    <3>1. \A e \in Consumer : hit'[e] = hit[e]
      BY <2>4, <2>6, <1>1 DEF GrepTypeOK
    <3>2. \A i \in 1..a : Found(i)' <=> Found(i)
      BY <2>1, <2>2, <2>3, <2>6
    <3> QED
      BY <1>2, <3>1, <3>2 DEF HitRight
  <2> QED
    BY <2>5, <2>6
<1> QED
  BY <1>9, <1>12, <1>13, <1>14, <1>15

\* Who completes the oldest items writes them: they are the next files, and their results are
\* complete.
LEMMA work_doneKeeps == ASSUME GrepIInv, NEW c \in Consumer, work_done(c) PROVE GrepIInv'
<1> USE DEF GrepIInv
<1>1. /\ Size \in Nat \ {0, 1} /\ Files \in Nat /\ added \in 0..Files
      /\ Len(output) \in Nat /\ Len(output) <= added /\ added - Len(output) < Size
      /\ c # Adder /\ Busy(c) /\ at[c] = "work_done"
  BY GrepQueueAssumption, LenProperties DEF GrepQueueAssumption, GrepTypeOK, work_done, Window, Busy
<1>a. PICK a \in Nat : a = added
  BY <1>1
<1>d. PICK d \in Nat : d = Len(output)
  BY <1>1
<1> USE <1>a, <1>d
<1>2. /\ UNCHANGED <<todo_start, todo_end, all_work_added, cond_add, added, w, hit>>
      /\ todo' = [todo EXCEPT ![w[c]].done = TRUE]
      /\ at' = [at EXCEPT ![c] = "get_work"]
  BY DEF work_done
<1>3. PICK n \in Slot :
        /\ Ready(todo', n)
        /\ output' = output \o [i \in 1..n |-> todo[(todo_done + i - 1) % Size].out]
        /\ todo_done' = (todo_done + n) % Size
        /\ cond_write' \in IF n > 0 THEN Signalled(cond_write) ELSE {cond_write}
        /\ cond_result' \in IF all_work_added /\ todo_done' = todo_end
                              THEN Signalled(cond_result) ELSE {cond_result}
  BY DEF work_done
<1>4. PICK s \in d..a : /\ todo_start = s % Size
                        /\ \A i \in (d + 1)..a : ItemRight(i, s)
                        /\ \A e \in Consumer : Busy(e) => \E i \in (d + 1)..s : WorksOn(e, i)
  BY DEF Window
<1>5. PICK k \in (d + 1)..s : WorksOn(c, k)
  BY <1>1, <1>4
<1>6. /\ k \in (d + 1)..a /\ w[c] = At(k) /\ At(k) \in Slot /\ todo[At(k)].out = Result(k)
      /\ ~todo[At(k)].done
  <2>1. k \in (d + 1)..a
    BY <1>1
  <2> QED
    BY <1>1, <1>5, <2>1, AtSlot DEF WorksOn
<1>7. /\ todo'[At(k)].source = todo[At(k)].source /\ todo'[At(k)].out = Result(k) /\ todo'[At(k)].done
      /\ \A i \in (d + 1)..a : i # k => todo'[At(i)] = todo[At(i)]
  <2>1. ASSUME NEW i \in (d + 1)..a, i # k PROVE At(i) # At(k) /\ At(i) \in Slot
    BY <1>1, <1>6, <2>1, AtDiffer, AtSlot
  <2> QED
    BY <1>2, <1>6, <2>1 DEF GrepTypeOK
<1>8. /\ ~Busy(c)' /\ at'[c] = "get_work" /\ at'[Adder] = at[Adder]
      /\ \A e \in Consumer : e # c => (Busy(e)' <=> Busy(e)) /\ at'[e] = at[e]
  BY <1>1, <1>2 DEF GrepTypeOK, Busy
\* The slots that are written are those of the next n files, which have been taken out.
<1>9. n \in Nat /\ n < Size /\ \A i \in 0..(n - 1) : todo'[At(d + i + 1)].done /\ At(d + i + 1) # At(s + 1)
  <2>1. n \in Nat /\ n < Size
    BY <1>1 DEF Slot
  <2>2. ASSUME NEW i \in 0..(n - 1)
        PROVE  (todo_done + i) % Size = At(d + i + 1) /\ todo_start = At(s + 1)
    <3>1. i \in Nat /\ todo_done = d % Size
      BY <2>1 DEF Window
    <3>2. (todo_done + i) % Size = (d + i) % Size
      BY <3>1, SlotPlus
    <3> QED
      BY <1>4, <3>1, <3>2, NextSlot
  <2>3. ASSUME NEW i \in 0..(n - 1) PROVE todo'[At(d + i + 1)].done /\ At(d + i + 1) # At(s + 1)
    BY <1>3, <2>2 DEF Ready
  <2> QED
    BY <2>1, <2>3
<1>10. d + n <= s
  <2>1. CASE d + n > s
    <3>1. s - d \in 0..(n - 1) /\ d + (s - d) + 1 = s + 1
      BY <1>9, <2>1
    <3> QED
      BY <1>9, <3>1
  <2> QED
    BY <1>9, <2>1
<1>11. ASSUME NEW i \in (d + 1)..(d + n) PROVE todo'[At(i)].done /\ todo[At(i)].out = Result(i)
  <2>1. i - d - 1 \in 0..(n - 1) /\ i \in (d + 1)..a /\ d + (i - d - 1) + 1 = i
    BY <1>1, <1>9, <1>10
  <2>2. todo'[At(i)].done
    BY <1>9, <2>1
  <2>3. CASE i = k
    BY <1>6, <2>2, <2>3
  <2>4. CASE i # k
    BY <1>4, <1>7, <2>1, <2>2, <2>4 DEF ItemRight
  <2> QED
    BY <2>3, <2>4
<1>12. (\A i \in 1..(d + n) : output'[i] = Result(i)) /\ output' \in Seq(Seq(1..Files)) /\ Len(output') = d + n
  <2> DEFINE t == [i \in 1..n |-> todo[(todo_done + i - 1) % Size].out]
  <2>1. ASSUME NEW i \in 1..n PROVE todo[(todo_done + i - 1) % Size].out = Result(d + i)
    <3>1. i - 1 \in Nat /\ d + i \in (d + 1)..(d + n) /\ (d + i) - 1 = d + (i - 1)
      BY <1>9
    <3>2. todo_done = d % Size /\ todo_done \in Nat
      BY <1>1 DEF Window, GrepTypeOK, Slot
    <3>3. todo_done + i - 1 = (d % Size) + (i - 1)
      BY <3>2
    <3>4. ((d % Size) + (i - 1)) % Size = (d + (i - 1)) % Size
      BY <3>1, SlotPlus
    <3>5. (todo_done + i - 1) % Size = At(d + i)
      BY <3>1, <3>3, <3>4 DEF At
    <3> QED
      BY <1>11, <3>1, <3>5
  <2>2. /\ \A i \in 1..n : t[i] = Result(d + i)
        /\ t \in [1..n -> Seq(1..Files)]
    <3>1. \A i \in 1..n : Result(d + i) \in Seq(1..Files)
      BY ResultType
    <3> QED
      BY <2>1, <3>1
  <2>3. output \in Seq(Seq(1..Files)) /\ \A i \in 1..d : output[i] = Result(i)
    BY DEF GrepTypeOK, Written
  <2>4. output' = output \o t
    BY <1>3
  <2> HIDE DEF t
  <2>5. t \in Seq(Seq(1..Files)) /\ Len(t) = n
    BY <1>9, <2>2, FunctionIsSeq
  <2>6. output \o t \in Seq(Seq(1..Files)) /\ Len(output \o t) = Len(output) + Len(t)
    BY <2>3, <2>5, ConcatProperties
  <2>7. \A i \in 1..(Len(output) + Len(t)) : (output \o t)[i] = Result(i)
    BY <2>2, <2>3, <2>5, WrittenMore
  <2> QED
    BY <2>4, <2>5, <2>6, <2>7
<1>13. todo_done' = (d + n) % Size
  BY <1>3, <1>9, SlotPlus DEF Window
<1>14. GrepTypeOK'
  <2>1. todo' \in [Slot -> [source : 0..Files, done : BOOLEAN, out : Seq(1..Files)]]
    BY <1>2, <1>6 DEF GrepTypeOK
  <2>2. todo_done' \in Slot
    BY <1>9, <1>13, Division
  <2>3. cond_write' \subseteq {Adder} /\ cond_result' \subseteq {Adder}
    BY <1>3, SignalledType DEF GrepTypeOK
  <2>4. at' = [e \in Consumer \cup {Adder} |-> at'[e]]
    BY <1>2 DEF GrepTypeOK
  <2> QED
    BY <1>2, <1>8, <1>12, <2>1, <2>2, <2>3, <2>4 DEF GrepTypeOK
<1>15. ASSUME NEW i \in (d + n + 1)..a PROVE ItemRight(i, s)'
  <2>1. i \in (d + 1)..a
    BY <1>9
  <2>2. CASE i = k
    BY <1>4, <1>6, <1>7, <2>1, <2>2 DEF ItemRight, At, Result
  <2>3. CASE i # k
    BY <1>4, <1>7, <2>1, <2>3 DEF ItemRight, At, Result
  <2> QED
    BY <2>2, <2>3
<1>16. ASSUME NEW e \in Consumer, Busy(e)' PROVE \E i \in (d + n + 1)..s : WorksOn(e, i)'
  <2>1. e # c /\ Busy(e) /\ at'[e] = at[e]
    BY <1>8, <1>16
  <2>2. PICK i \in (d + 1)..s : WorksOn(e, i)
    BY <1>4, <2>1
  <2>3. i # k /\ i \in (d + 1)..a
    BY <1>1, <1>6, <2>1, <2>2 DEF Apart, WorksOn
  <2>4. todo'[At(i)] = todo[At(i)] /\ ~todo'[At(i)].done
    BY <1>7, <2>2, <2>3 DEF WorksOn
  <2>5. i \in (d + n + 1)..s
    BY <1>9, <1>11, <2>4
  <2>6. WorksOn(e, i)'
    BY <1>2, <2>1, <2>2, <2>4 DEF WorksOn, At, Result
  <2> QED
    BY <2>5, <2>6
<1>17. Window'
  <2>1. s \in (d + n)..a /\ d + n <= a /\ a - (d + n) < Size
    BY <1>1, <1>9, <1>10
  <2>2. \E r \in (d + n)..a :
          /\ todo_start = r % Size
          /\ \A i \in (d + n + 1)..a : ItemRight(i, r)'
          /\ \A e \in Consumer : Busy(e)' => \E i \in (d + n + 1)..r : WorksOn(e, i)'
    BY <1>4, <1>15, <1>16, <2>1
  <2> QED
    BY <1>2, <1>12, <1>13, <2>1, <2>2 DEF Window
<1>18. Apart' /\ Written'
  <2>1. Written'
    <3>1. output' \in [1..(d + n) -> Seq(1..Files)]
      BY <1>12, LenProperties
    <3>2. output' = [i \in 1..(d + n) |-> Result(i)]
      BY <1>12, <3>1
    <3> QED
      BY <1>12, <3>2 DEF Written, Result
  <2>2. ASSUME NEW e \in Consumer, Busy(e)' PROVE Busy(e) /\ w'[e] = w[e]
    BY <1>2, <1>8, <2>2
  <2> QED
    BY <2>1, <2>2 DEF Apart
<1>19. AdderKnown'
  <2>1. at[Adder] \notin {"join", "end"}
    BY <1>1, <1>6 DEF AdderKnown
  <2> QED
    BY <1>2, <1>8, <2>1 DEF AdderKnown
<1>20. HitRight'
  <2>1. ASSUME NEW i \in 1..a PROVE Found(i)' <=> Found(i)
    <3>1. CASE i <= d
      BY <1>9, <1>12, <3>1 DEF Found
    <3>2. CASE i \in (d + 1)..(d + n)
      <4>1. i \in Matches => todo[At(i)].out # << >>
        <5>1. <<i>> # << >>
          OBVIOUS
        <5> QED
          BY <1>11, <3>2, <5>1 DEF Result
      <4> QED
        BY <1>9, <1>12, <3>2, <4>1 DEF Found
    <3>3. CASE i > d + n
      <4>1. i \in (d + 1)..a /\ ~(i <= d) /\ ~(i <= d + n)
        BY <1>9, <3>3
      <4>2. todo'[At(i)].out = todo[At(i)].out
        BY <1>6, <1>7, <4>1
      <4> QED
        BY <1>12, <4>1, <4>2 DEF Found, At
    <3> QED
      BY <1>9, <3>1, <3>2, <3>3
  <2> QED
    BY <1>2, <2>1 DEF HitRight
<1> QED
  BY <1>14, <1>17, <1>18, <1>19, <1>20

----------------------------------------------------------------------------
(* The end, and the theorem *)

\* When all is written every thread has nothing left to find.
LEMMA AllFound == ASSUME GrepIInv, Len(output) = Files, added = Files
                  PROVE  (\E c \in Consumer : hit[c]) <=> Matches # {}
<1>1. Files \in Nat /\ Matches \subseteq 1..Files
  BY GrepQueueAssumption DEF GrepQueueAssumption
<1>2. \A i \in 1..Files : Found(i) <=> i \in Matches
  BY <1>1 DEF Found
<1> QED
  BY <1>1, <1>2 DEF GrepIInv, HitRight

LEMMA wait_allKeeps == ASSUME GrepIInv, wait_all PROVE GrepIInv'
<1> USE DEF GrepIInv
<1>1. /\ UNCHANGED <<todo, todo_start, todo_end, todo_done, cond_write, added, w, hit, output>>
      /\ added = Files /\ all_work_added' = TRUE /\ Adder \notin Consumer /\ at[Adder] \notin {"join", "end"}
  BY GrepQueueAssumption DEF wait_all, GrepQueueAssumption
<1>2. CASE /\ todo_done # todo_end
           /\ cond_result' = {Adder}
           /\ at' = [at EXCEPT ![Adder] = "wait_all"]
           /\ UNCHANGED cond_add
  <2>1. at'[Adder] = "wait_all" /\ \A c \in Consumer : at'[c] = at[c]
    BY <1>1, <1>2 DEF GrepTypeOK
  <2>2. GrepTypeOK'
    BY <1>1, <1>2, <2>1 DEF GrepTypeOK
  <2>3. AdderKnown'
    BY <1>1, <2>1 DEF AdderKnown
  <2> QED
    BY <1>1, <2>1, <2>2, <2>3, RingKeeps
<1>3. CASE /\ todo_done = todo_end
           /\ cond_add' \in Woken
           /\ at' = [at EXCEPT ![Adder] = "join"]
           /\ UNCHANGED cond_result
  <2>1. at'[Adder] = "join" /\ \A c \in Consumer : at'[c] = at[c]
    BY <1>1, <1>3 DEF GrepTypeOK
  <2>2. GrepTypeOK'
    BY <1>1, <1>3, <2>1 DEF GrepTypeOK, Woken
  <2>3. Len(output) = added
    <3>1. Len(output) \in Nat /\ added \in Nat /\ Size \in Nat
      BY GrepQueueAssumption, LenProperties DEF GrepTypeOK, GrepQueueAssumption
    <3>2. Len(output) % Size = added % Size /\ Len(output) <= added /\ added - Len(output) < Size
      BY <1>3 DEF Window
    <3>3. Len(output) - added < Size
      BY <3>1, <3>2, GrepQueueAssumption DEF GrepQueueAssumption
    <3> QED
      BY <3>1, <3>2, <3>3, SlotsDiffer
  <2>4. AdderKnown'
    BY <1>1, <2>1, <2>3 DEF AdderKnown
  <2> QED
    BY <1>1, <2>1, <2>2, <2>4, RingKeeps
<1> QED
  BY <1>2, <1>3 DEF wait_all

LEMMA joinKeeps == ASSUME GrepIInv, join PROVE GrepIInv'
<1> USE DEF GrepIInv
<1>1. /\ UNCHANGED <<todo, todo_start, todo_end, todo_done, all_work_added, cond_add, cond_write,
                     cond_result, added, w, output>>
      /\ hit' = [hit EXCEPT ![Adder] = \E c \in Consumer : hit[c]]
      /\ at' = [at EXCEPT ![Adder] = "end"]
      /\ at[Adder] = "join" /\ Adder \notin Consumer
  BY GrepQueueAssumption DEF join, GrepQueueAssumption
<1>2. Len(output) = Files /\ added = Files
  BY <1>1 DEF AdderKnown
<1>3. (\E c \in Consumer : hit[c]) <=> Matches # {}
  BY <1>2, AllFound
<1>4. /\ at'[Adder] = "end" /\ \A c \in Consumer : at'[c] = at[c] /\ hit'[c] = hit[c]
      /\ hit'[Adder] = (\E c \in Consumer : hit[c])
  BY <1>1 DEF GrepTypeOK
<1>5. GrepTypeOK'
  <2>1. hit' \in [Consumer \cup {Adder} -> BOOLEAN]
    BY <1>1 DEF GrepTypeOK
  <2>2. at' = [e \in Consumer \cup {Adder} |-> at'[e]]
    BY <1>1 DEF GrepTypeOK
  <2> QED
    BY <1>1, <1>4, <2>1, <2>2 DEF GrepTypeOK
<1>6. AdderKnown'
  BY <1>1, <1>2, <1>3, <1>4 DEF AdderKnown
<1> QED
  BY <1>1, <1>4, <1>5, <1>6, RingKeeps

LEMMA WakeUpKeeps == ASSUME GrepIInv, NEW t, SpuriousWakeUp(t) PROVE GrepIInv'
<1>1. GrepTypeOK'
  BY DEF GrepIInv, SpuriousWakeUp, GrepTypeOK
<1>2. AdderKnown'
  BY DEF GrepIInv, SpuriousWakeUp, AdderKnown
<1> QED
  BY <1>1, <1>2, RingKeeps DEF SpuriousWakeUp

\* Every step keeps the invariant.
LEMMA NextGrepIInv == GrepIInv /\ [GrepNext]_grep_vars => GrepIInv'
<1> SUFFICES ASSUME GrepIInv, [GrepNext]_grep_vars PROVE GrepIInv'
  OBVIOUS
<1>1. CASE main
  BY <1>1, add_workKeeps, wait_allKeeps, joinKeeps DEF main
<1>2. ASSUME NEW c \in Consumer, run(c) PROVE GrepIInv'
  BY <1>2, get_workKeeps, grep_sourceKeeps, work_doneKeeps DEF run
<1>3. ASSUME NEW t \in Consumer \cup {Adder}, SpuriousWakeUp(t) PROVE GrepIInv'
  BY <1>3, WakeUpKeeps
<1>4. CASE UNCHANGED grep_vars
  <2>1. GrepTypeOK' /\ AdderKnown'
    BY <1>4 DEF GrepIInv, grep_vars, GrepTypeOK, AdderKnown
  <2> QED
    BY <1>4, <2>1, RingKeeps DEF grep_vars
<1> QED
  BY <1>1, <1>2, <1>3, <1>4 DEF GrepNext

LEMMA IInvOutputInOrder == GrepIInv => OutputInOrder
<1> SUFFICES ASSUME GrepIInv PROVE OutputInOrder
  OBVIOUS
<1>1. Len(output) <= Files
  BY LenProperties, GrepQueueAssumption DEF GrepIInv, GrepTypeOK, Window, GrepQueueAssumption
<1> QED
  BY <1>1 DEF GrepIInv, Written, AdderKnown, OutputInOrder

\* Whatever the threads do, the results are written in the order in which the files were added,
\* each once; all of them when wait_all() joins the threads; and the answer is right (work_done()).
THEOREM GrepWritesInOrder == GrepSpec => []OutputInOrder
<1>1. GrepSpec => []GrepIInv
  BY InitGrepIInv, NextGrepIInv, PTL DEF GrepSpec
<1> QED
  BY <1>1, IInvOutputInOrder, PTL
-----------------------------------------------------------------------------
(* PackThreads *)

End(t) == list[t] + list_size[t]

\* The first object that thread t has before it
Next1(t) == End(t) - remaining[t]

\* An object that is with thread t: t has it before it, or has looked at it.
With(t, k) == k \in Segment(t) \/ k \in taken[t]

\* Each object is with one thread, which has it before it or has looked at it.
Partition ==
  /\ \A k \in 0..(N - 1) : \E t \in Thread : With(t, k)
  /\ \A t, u \in Thread : \A k \in 0..(N - 1) : With(t, k) /\ With(u, k) => t = u
  /\ \A t \in Thread : Segment(t) \cap taken[t] = {}

\* A thread's part of the list, and how far it is in it
Inside(t) ==
  /\ remaining[t] <= list_size[t] /\ End(t) <= N
  /\ pc[t] = "find_deltas" => pos[t] = Next1(t)
  /\ pc[t] = "start" \/ (pc[t] = "wait" /\ working[t]) => remaining[t] = list_size[t]
  /\ pc[t] = "report" \/ ~working[t] => remaining[t] = 0
  /\ pc[t] \in {"none", "end"} => list_size[t] = 0

\* What a thread has been told: it is idle until Main gives it work, and it is sent off
\* with nothing when Main is about to join it.
Told(t) ==
  /\ ~working[t] => pc[t] = "wait"
  /\ data_ready[t] => pc[t] = "wait" /\ working[t]
  /\ (pc[t] = "start" \/ data_ready[t]) /\ list_size[t] = 0 => pc[Main] = "join" /\ target = t

MainKnown ==
  /\ pc[Main] = "give" => pc[target] = "wait" /\ working[target] /\ ~data_ready[target]
  /\ pc[Main] = "join" => pc[target] \in {"wait", "start", "end"} /\ list_size[target] = 0
  /\ pc[Main] = "end" => active = 0

\* The threads that have been created and not joined
Active == {t \in Thread : pc[t] \notin {"none", "end"} \/ (pc[Main] = "join" /\ target = t)}

\* The objects that have been looked at
Taken == UNION {taken[t] : t \in Thread}

Counts == /\ active = Cardinality(Active)
          /\ processed = Cardinality(Counted \cap Taken)

IInv == /\ TypeOK /\ Partition /\ MainKnown /\ Counts
        /\ \A t \in Thread : Inside(t) /\ Told(t)

-----------------------------------------------------------------------------
(* Where the list is cut *)

LEMMA Constants ==
  /\ Threads \in Nat /\ Threads >= 2 /\ N \in Nat /\ N >= 1 /\ window \in Nat /\ window >= 1
  /\ Thread = 0..(Threads - 1) /\ Main \notin Thread
  BY PackThreadsAssumption DEF PackThreadsAssumption, Thread

\* A set of natural numbers has a smallest element.
LEMMA Smallest ==
  ASSUME NEW S, S \subseteq Nat, S # {}
  PROVE  \E m \in S : \A k \in S : m <= k
<1> DEFINE R == OpToRel(<, Nat)
<1>1. IsWellFoundedOn(R, Nat)
  BY NatLessThanWellFounded
<1>2. \A k, m \in Nat : k < m => <<k, m>> \in R
  BY DEF OpToRel
<1> HIDE DEF R
<1>3. PICK m \in S : \A k \in S : ~(<<k, m>> \in R)
  BY <1>1, WFMin
<1>4. ASSUME NEW k \in S PROVE m <= k
  <2>1. k \in Nat /\ m \in Nat
    OBVIOUS
  <2>2. ~(k < m)
    BY <2>1, <1>2, <1>3
  <2> QED
    BY <2>1, <2>2
<1> QED
  BY <1>4

LEMMA NextPathIn ==
  ASSUME NEW k \in Nat, NEW end \in Nat, k <= end
  PROVE  NextPath(k, end) \in k..end
<1> DEFINE S == {j \in k..end : j < end => ~SamePath(j)}
<1>1. end \in S /\ S \subseteq Nat
  OBVIOUS
<1>2. PICK m \in S : \A j \in S : m <= j
  BY <1>1, Smallest
<1>3. \A i \in k..(m - 1) : SamePath(i)
  BY <1>2
<1> QED
  BY <1>2, <1>3 DEF NextPath

LEMMA Share ==
  ASSUME NEW a \in Nat, NEW b \in Nat, b >= 1
  PROVE  a \div b \in 0..a /\ (b = 1 => a \div b = a)
<1> DEFINE q == a \div b
<1>1. q \in Int /\ a = b * q + (a % b) /\ a % b \in 0..(b - 1)
  OBVIOUS
<1> HIDE DEF q
<1>2. q >= 0
  <2> SUFFICES ASSUME q <= -1 PROVE FALSE
    BY <1>1
  <2>1. b * (-1 - q) >= 0
    BY <1>1
  <2> QED
    BY <1>1, <2>1
<1>3. q <= a
  <2>1. b * q >= q
    <3>1. (b - 1) * q >= 0
      BY <1>1, <1>2
    <3> QED
      BY <3>1, <1>1
  <2> QED
    BY <1>1, <2>1
<1>4. b = 1 => q = a
  BY <1>1
<1> QED
  BY <1>1, <1>2, <1>3, <1>4 DEF q

\* A segment begins in the list and ends in it, the last one at its end.
LEMMA SegmentEndIn ==
  ASSUME NEW from \in 0..N, NEW i \in Thread
  PROVE  SegmentEnd(from, i) \in from..N /\ (i = Threads - 1 => SegmentEnd(from, i) = N)
<1> DEFINE sub_size == (N - from) \div (Threads - i)
<1>1. N - from \in Nat /\ Threads - i \in Nat /\ Threads - i >= 1 /\ from \in Nat /\ N \in Nat
  BY Constants
<1>2. sub_size \in 0..(N - from) /\ (Threads - i = 1 => sub_size = N - from)
  BY <1>1, Share
<1>3. SegmentEnd(from, i) = IF sub_size = 0 \/ (sub_size < 2 * window /\ i + 1 < Threads) THEN from
                            ELSE NextPath(from + sub_size, N)
  BY DEF SegmentEnd
<1> HIDE DEF sub_size
<1>4. NextPath(from + sub_size, N) \in (from + sub_size)..N
  <2>1. from + sub_size \in Nat /\ from + sub_size <= N
    BY <1>1, <1>2
  <2> QED
    BY <2>1, <1>1, NextPathIn
<1> QED
  BY <1>1, <1>2, <1>3, <1>4, Constants

\* Bound is defined everywhere: a smallest number up to which it is not would have a
\* predecessor, up to which it is.
LEMMA BoundRec ==
  /\ Bound[0] = 0
  /\ \A t \in Thread : Bound[t + 1] = SegmentEnd(Bound[t], t)
<1> DEFINE UpTo(g, n) == /\ g \in [0..n -> 0..N] /\ g[0] = 0
                         /\ \A t \in 0..(n - 1) : g[t + 1] = SegmentEnd(g[t], t)
           S == {n \in 0..Threads : ~\E g : UpTo(g, n)}
<1>0. /\ S \subseteq 0..Threads
      /\ \A n \in 0..Threads : n \notin S => \E g : UpTo(g, n)
      /\ \A n \in S : \A g : ~UpTo(g, n)
  <2> HIDE DEF UpTo
  <2> QED
    OBVIOUS
<1> HIDE DEF S
<1>1. S = {}
  <2> SUFFICES ASSUME S # {} PROVE FALSE
    OBVIOUS
  <2>1. PICK n \in S : \A k \in S : n <= k
    <3>1. S \subseteq Nat
      BY <1>0, Constants
    <3> QED
      BY <3>1, Smallest
  <2>2. n # 0
    <3>1. UpTo([t \in 0..0 |-> 0], 0)
      BY Constants
    <3> HIDE DEF UpTo
    <3> QED
      BY <3>1, <2>1, <1>0
  <2>3. n - 1 \in 0..Threads /\ n - 1 \notin S /\ n \in 1..Threads
    <3>1. n \in 0..Threads
      BY <2>1, <1>0
    <3>2. n \in 1..Threads /\ n - 1 \in 0..Threads /\ n - 1 < n
      BY <3>1, <2>2, Constants
    <3> QED
      BY <3>2, <2>1, Constants
  <2>4. PICK g : UpTo(g, n - 1)
    BY <2>3, <1>0
  <2> DEFINE h == [t \in 0..n |-> IF t = n THEN SegmentEnd(g[n - 1], n - 1) ELSE g[t]]
  <2>5. n - 1 \in Thread /\ g[n - 1] \in 0..N
    BY <2>3, <2>4, Constants
  <2>6. SegmentEnd(g[n - 1], n - 1) \in 0..N
    <3> DEFINE from == g[n - 1]
    <3> HIDE DEF from
    <3>1. from \in 0..N
      BY <2>5 DEF from
    <3>2. SegmentEnd(from, n - 1) \in from..N
      BY <3>1, <2>5, SegmentEndIn
    <3> QED
      BY <3>1, <3>2, Constants DEF from
  <2>7. h \in [0..n -> 0..N] /\ h[0] = 0
    BY <2>3, <2>4, <2>6, Constants
  <2>8. ASSUME NEW t \in 0..(n - 1) PROVE h[t + 1] = SegmentEnd(h[t], t)
    <3>1. CASE t = n - 1
      <4>1. h[t] = g[t] /\ h[t + 1] = SegmentEnd(g[n - 1], n - 1)
        BY <3>1, <2>3, Constants
      <4> QED
        BY <4>1, <3>1
    <3>2. CASE t # n - 1
      <4>1. h[t] = g[t] /\ h[t + 1] = g[t + 1] /\ t \in 0..(n - 1 - 1)
        BY <3>2, <2>3, Constants
      <4> QED
        BY <4>1, <2>4
    <3> QED
      BY <3>1, <3>2
  <2>9. UpTo(h, n)
    BY <2>7, <2>8
  <2> QED
    BY <2>9, <2>1, <1>0
<1>2. PICK g : UpTo(g, Threads)
  <2>1. Threads \in 0..Threads /\ Threads \notin S
    BY <1>1, Constants
  <2> QED
    BY <2>1, <1>0
<1>3. g = [t \in 0..Threads |-> IF t = 0 THEN 0 ELSE SegmentEnd(g[t - 1], t - 1)]
  <2>1. g = [t \in 0..Threads |-> g[t]]
    BY <1>2
  <2>2. ASSUME NEW t \in 0..Threads
        PROVE  g[t] = IF t = 0 THEN 0 ELSE SegmentEnd(g[t - 1], t - 1)
    <3>1. t # 0 => t - 1 \in 0..(Threads - 1) /\ (t - 1) + 1 = t
      BY Constants
    <3> QED
      BY <3>1, <1>2
  <2> QED
    BY <2>1, <2>2
<1>4. Bound = [t \in 0..Threads |-> IF t = 0 THEN 0 ELSE SegmentEnd(Bound[t - 1], t - 1)]
  BY <1>3 DEF Bound
<1>5. Bound[0] = 0
  BY <1>4, Constants
<1>6. ASSUME NEW t \in Thread PROVE Bound[t + 1] = SegmentEnd(Bound[t], t)
  <2>1. t + 1 \in 0..Threads /\ t + 1 # 0 /\ (t + 1) - 1 = t
    BY Constants
  <2> QED
    BY <1>4, <2>1
<1> QED
  BY <1>5, <1>6

LEMMA BoundIn ==
  /\ \A t \in 0..Threads : Bound[t] \in 0..N
  /\ \A t \in Thread : Bound[t] <= Bound[t + 1]
  /\ Bound[0] = 0 /\ Bound[Threads] = N
<1> DEFINE S == {n \in 0..Threads : Bound[n] \notin 0..N}
<1>1. S = {}
  <2> SUFFICES ASSUME S # {} PROVE FALSE
    OBVIOUS
  <2>1. S \subseteq Nat
    BY Constants
  <2>2. PICK n \in S : \A k \in S : n <= k
    BY <2>1, Smallest
  <2>3. n # 0
    BY <2>2, BoundRec, Constants
  <2>4. n - 1 \in Thread /\ n - 1 \in 0..Threads /\ n - 1 < n /\ (n - 1) + 1 = n
    BY <2>2, <2>3, Constants
  <2>5. Bound[n - 1] \in 0..N
    BY <2>2, <2>4
  <2>6. Bound[n] = SegmentEnd(Bound[n - 1], n - 1)
    BY <2>4, BoundRec
  <2>7. Bound[n] \in Bound[n - 1]..N
    BY <2>4, <2>5, <2>6, SegmentEndIn
  <2> QED
    BY <2>2, <2>5, <2>7, Constants
<1>2. ASSUME NEW t \in 0..Threads PROVE Bound[t] \in 0..N
  BY <1>1
<1>3. ASSUME NEW t \in Thread PROVE Bound[t + 1] \in Bound[t]..N /\ (t = Threads - 1 => Bound[t + 1] = N)
  <2>1. Bound[t] \in 0..N
    BY <1>2, Constants
  <2> QED
    BY <2>1, BoundRec, SegmentEndIn
<1>4. Bound[Threads] = N
  <2>1. Threads - 1 \in Thread /\ (Threads - 1) + 1 = Threads
    BY Constants
  <2> QED
    BY <1>3, <2>1
<1> QED
  BY <1>2, <1>3, <1>4, BoundRec, Constants

LEMMA BoundMonotone ==
  ASSUME NEW i \in 0..Threads, NEW j \in 0..Threads, i <= j
  PROVE  Bound[i] <= Bound[j]
<1> DEFINE S == {n \in i..Threads : ~(Bound[i] <= Bound[n])}
<1>1. S = {}
  <2> SUFFICES ASSUME S # {} PROVE FALSE
    OBVIOUS
  <2>1. S \subseteq Nat
    BY Constants
  <2>2. PICK n \in S : \A k \in S : n <= k
    BY <2>1, Smallest
  <2>3. n # i
    BY <2>2, BoundIn, Constants
  <2>4. n - 1 \in Thread /\ n - 1 \in i..Threads /\ n - 1 < n /\ (n - 1) + 1 = n
    BY <2>2, <2>3, Constants
  <2>5. Bound[i] <= Bound[n - 1]
    BY <2>2, <2>4
  <2>6. Bound[n - 1] <= Bound[n]
    BY <2>4, BoundIn
  <2>7. Bound[i] \in 0..N /\ Bound[n - 1] \in 0..N /\ Bound[n] \in 0..N
    BY <2>2, <2>4, BoundIn, Constants
  <2> QED
    BY <2>2, <2>5, <2>6, <2>7, Constants
<1> QED
  BY <1>1, Constants

\* The segments of the partition: each object is in one.
LEMMA BoundsPartition ==
  ASSUME NEW k \in 0..(N - 1)
  PROVE  /\ \E t \in Thread : k \in Bound[t]..(Bound[t + 1] - 1)
         /\ \A t, u \in Thread : /\ k \in Bound[t]..(Bound[t + 1] - 1)
                               /\ k \in Bound[u]..(Bound[u + 1] - 1)
                               => t = u
<1> DEFINE S == {t \in Thread : k < Bound[t + 1]}
<1>1. S \subseteq Nat /\ Threads - 1 \in S
  BY BoundIn, Constants
<1>2. PICK t \in S : \A u \in S : t <= u
  BY <1>1, Smallest
<1>3. Bound[t] <= k
  <2>1. CASE t = 0
    BY <2>1, BoundIn, Constants
  <2>2. CASE t # 0
    <3>1. t - 1 \in Thread /\ (t - 1) + 1 = t /\ t - 1 < t /\ t \in 0..Threads
      BY <1>2, <2>2, Constants
    <3>2. ~(k < Bound[t])
      BY <3>1, <1>2
    <3>3. Bound[t] \in 0..N
      BY <3>1, BoundIn
    <3> QED
      BY <3>2, <3>3, Constants
  <2> QED
    BY <2>1, <2>2
<1>4. \E u \in Thread : k \in Bound[u]..(Bound[u + 1] - 1)
  <2>1. Bound[t] \in 0..N /\ Bound[t + 1] \in 0..N /\ k < Bound[t + 1]
    BY <1>2, BoundIn, Constants
  <2> QED
    BY <1>2, <1>3, <2>1, Constants
<1>5. ASSUME NEW a \in Thread, NEW b \in Thread, a < b,
             k \in Bound[a]..(Bound[a + 1] - 1), k \in Bound[b]..(Bound[b + 1] - 1)
      PROVE  FALSE
  <2>1. a + 1 \in 0..Threads /\ b \in 0..Threads /\ a + 1 <= b
    BY <1>5, Constants
  <2>2. Bound[a + 1] <= Bound[b]
    BY <2>1, BoundMonotone
  <2>3. Bound[a + 1] \in 0..N /\ Bound[b] \in 0..N
    BY <2>1, BoundIn
  <2> QED
    BY <1>5, <2>2, <2>3, Constants
<1>6. ASSUME NEW a \in Thread, NEW b \in Thread,
             k \in Bound[a]..(Bound[a + 1] - 1), k \in Bound[b]..(Bound[b + 1] - 1)
      PROVE  a = b
  <2>1. ~(a < b) /\ ~(b < a)
    BY <1>5, <1>6
  <2> QED
    BY <2>1, Constants
<1> QED
  BY <1>4, <1>6

\* The part that is cut off is not empty, and the victim keeps more than none.
LEMMA CutIn ==
  ASSUME TypeOK, NEW v \in Thread, Inside(v), remaining[v] > 2 * window
  PROVE  /\ Cut(v) \in (Next1(v) + 1)..(End(v) - 1)
         /\ Left(v, Cut(v)) = Cut(v) - Next1(v)
<1> DEFINE end == End(v)
           half == end - remaining[v] \div 2
           path == NextPath(half, end)
<1>1. end \in Nat /\ remaining[v] \in Nat /\ remaining[v] <= end /\ remaining[v] >= 3
  <2>1. list[v] \in 0..N /\ list_size[v] \in 0..N /\ remaining[v] \in 0..N
    BY DEF TypeOK
  <2>2. remaining[v] <= list_size[v]
    BY DEF Inside
  <2> QED
    BY <2>1, <2>2, Constants DEF End
<1>2. half \in (end - remaining[v] + 1)..(end - 1)
  BY <1>1
<1>3. Cut(v) = IF path = end THEN half ELSE path
  BY DEF Cut, End
<1>8. \A cut \in Int : Left(v, cut) = remaining[v] - (end - cut)
  <2>1. list[v] \in 0..N /\ list_size[v] \in 0..N /\ remaining[v] \in 0..N
    BY DEF TypeOK
  <2> QED
    BY <2>1, Constants DEF Left, End
<1> HIDE DEF half
<1>4. half \in Nat /\ half <= end
  BY <1>1, <1>2
<1>5. path \in half..end
  BY <1>1, <1>4, NextPathIn
<1> HIDE DEF path, end
<1>6. Cut(v) \in half..(end - 1)
  BY <1>1, <1>2, <1>3, <1>4, <1>5
<1>7. Cut(v) \in (end - remaining[v] + 1)..(end - 1)
  BY <1>1, <1>2, <1>4, <1>6
<1> QED
  BY <1>1, <1>7, <1>8 DEF Next1, end

-----------------------------------------------------------------------------
(* The beginning *)

LEMMA InitIInv == Init => IInv
<1> SUFFICES ASSUME Init PROVE IInv
  OBVIOUS
<1>1. /\ \A t \in Thread : /\ list[t] = Bound[t] /\ list_size[t] = Bound[t + 1] - Bound[t]
                          /\ remaining[t] = list_size[t] /\ working[t] /\ ~data_ready[t]
                          /\ pc[t] = (IF list_size[t] > 0 THEN "start" ELSE "none")
                          /\ taken[t] = {} /\ pos[t] = list[t]
      /\ pc[Main] = "look" /\ target = 0 /\ processed = 0 /\ waiting = {}
  BY Constants DEF Init
<1>2. ASSUME NEW t \in Thread
      PROVE  /\ list[t] \in 0..N /\ list_size[t] \in 0..N /\ list[t] + list_size[t] = Bound[t + 1]
             /\ list[t] + list_size[t] <= N
  <2>1. Bound[t] \in 0..N /\ Bound[t + 1] \in 0..N /\ Bound[t] <= Bound[t + 1]
    BY BoundIn, Constants
  <2> QED
    BY <1>1, <2>1, Constants
<1>3. Active = {t \in Thread : list_size[t] > 0}
  BY <1>1 DEF Active
<1>4. active \in 0..Threads
  <2>1. IsFiniteSet(Thread) /\ Cardinality(Thread) = Threads
    BY FS_Interval, Constants
  <2>2. IsFiniteSet(Active) /\ Cardinality(Active) <= Threads
    BY <2>1, FS_Subset DEF Active
  <2>3. Cardinality(Active) \in Nat
    BY <2>2, FS_CardinalityType
  <2> QED
    BY <1>3, <2>2, <2>3, Constants DEF Init
<1>5. TypeOK
  <2>1. /\ list \in [Thread -> 0..N] /\ list_size \in [Thread -> 0..N]
        /\ remaining \in [Thread -> 0..N] /\ pos \in [Thread -> 0..N]
    <3>1. list = [t \in Thread |-> list[t]] /\ list_size = [t \in Thread |-> list_size[t]]
      BY DEF Init
    <3>2. list \in [Thread -> 0..N] /\ list_size \in [Thread -> 0..N]
      BY <3>1, <1>2
    <3> QED
      BY <3>2 DEF Init
  <2>2. /\ working \in [Thread -> BOOLEAN] /\ data_ready \in [Thread -> BOOLEAN]
        /\ taken \in [Thread -> SUBSET (0..(N - 1))]
    BY DEF Init
  <2>3. pc = [t \in Thread \cup {Main} |-> pc[t]]
    BY DEF Init
  <2>4. processed \in 0..N /\ waiting \subseteq Thread \cup {Main} /\ target \in Thread
    BY <1>1, Constants
  <2>5. \A t \in Thread : pc[t] \in {"none", "start", "find_deltas", "report", "wait", "end"}
    BY <1>1
  <2> QED
    BY <1>1, <1>4, <2>1, <2>2, <2>3, <2>4, <2>5 DEF TypeOK
<1>6. Partition
  <2>1. ASSUME NEW t \in Thread PROVE Segment(t) = Bound[t]..(Bound[t + 1] - 1)
    <3>1. list[t] + list_size[t] = Bound[t + 1] /\ remaining[t] = list_size[t] /\ list[t] = Bound[t]
      BY <1>1, <1>2
    <3>2. list[t] \in Nat /\ list_size[t] \in Nat
      BY <1>2, Constants
    <3>3. (list[t] + list_size[t]) - list_size[t] = list[t]
      BY <3>2
    <3> QED
      BY <3>1, <3>3 DEF Segment
  <2>2. \A t \in Thread, k \in 0..(N - 1) : With(t, k) <=> k \in Bound[t]..(Bound[t + 1] - 1)
    BY <2>1, <1>1 DEF With
  <2> QED
    BY <2>2, <1>1, BoundsPartition DEF Partition
<1>7. MainKnown
  BY <1>1 DEF MainKnown
<1>8. Counts
  <2>1. Taken = {}
    BY <1>1 DEF Taken
  <2>2. Counted \cap Taken = {}
    BY <2>1
  <2> QED
    BY <1>1, <1>3, <2>2, FS_EmptySet DEF Counts, Init
<1>9. ASSUME NEW t \in Thread PROVE Inside(t) /\ Told(t)
  <2>1. Inside(t)
    BY <1>1, <1>2, Constants DEF Inside, End
  <2>2. Told(t)
    BY <1>1, <1>2, Constants DEF Told
  <2> QED
    BY <2>1, <2>2
<1> QED
  BY <1>5, <1>6, <1>7, <1>8, <1>9 DEF IInv

-----------------------------------------------------------------------------
(* The steps of a thread *)

LEMMA Types ==
  ASSUME TypeOK
  PROVE  /\ \A t \in Thread : /\ list[t] \in Nat /\ list_size[t] \in Nat /\ remaining[t] \in Nat
                             /\ pos[t] \in Nat /\ t # Main
         /\ pc[Main] \in {"look", "give", "join", "end"} /\ target \in Thread /\ target # Main
  BY Constants DEF TypeOK

LEMMA PartitionKept ==
  ASSUME Partition, UNCHANGED <<list, list_size, remaining, taken>>
  PROVE  Partition'
  BY DEF Partition, With, Segment

LEMMA ActiveType ==
  IsFiniteSet(Active) /\ Cardinality(Active) \in 0..Threads
<1>1. IsFiniteSet(Thread) /\ Cardinality(Thread) = Threads
  BY FS_Interval, Constants
<1>2. IsFiniteSet(Active) /\ Cardinality(Active) <= Threads
  BY <1>1, FS_Subset DEF Active
<1> QED
  BY <1>2, FS_CardinalityType, Constants

LEMMA CountsKept ==
  ASSUME Counts, Active' = Active, UNCHANGED <<taken, processed, active>>
  PROVE  Counts'
<1>1. Taken' = Taken
  BY DEF Taken
<1> QED
  BY <1>1 DEF Counts

\* What a step of thread t does not change of another one
LEMMA OtherKept ==
  ASSUME NEW u \in Thread, Inside(u), Told(u),
         list'[u] = list[u], list_size'[u] = list_size[u], remaining'[u] = remaining[u],
         pos'[u] = pos[u], working'[u] = working[u], data_ready'[u] = data_ready[u], pc'[u] = pc[u],
         pc'[Main] = pc[Main], target' = target
  PROVE  Inside(u)' /\ Told(u)'
<1>1. Inside(u)'
  BY DEF Inside, Next1, End
<1>2. Told(u)'
  BY DEF Told
<1> QED
  BY <1>1, <1>2

LEMMA StartIInv ==
  ASSUME IInv, NEW t \in Thread, Start(t)
  PROVE  IInv'
<1> USE DEF IInv
<1>1. TypeOK'
  <2>1. pc' = [u \in Thread \cup {Main} |-> pc'[u]]
    BY DEF TypeOK, Start
  <2>2. \A u \in Thread : pc'[u] \in {"none", "start", "find_deltas", "report", "wait", "end"}
    BY DEF TypeOK, Start
  <2>3. pc'[Main] = pc[Main] /\ pos' \in [Thread -> 0..N]
    BY Types DEF TypeOK, Start
  <2> QED
    BY <2>1, <2>2, <2>3 DEF TypeOK, Start
<1>2. Partition'
  BY PartitionKept DEF Start
<1>3. /\ pc[t] = "start" /\ pc'[Main] = pc[Main] /\ pos'[t] = list[t]
      /\ \/ remaining[t] > 0 /\ pc'[t] = "find_deltas"
         \/ remaining[t] = 0 /\ pc'[t] = "end"
      /\ \A u \in Thread \ {t} : pos'[u] = pos[u] /\ pc'[u] = pc[u]
      /\ UNCHANGED <<list, list_size, remaining, working, data_ready, processed, taken, target, active>>
  BY Types DEF TypeOK, Start
<1>4. remaining[t] = list_size[t] /\ (list_size[t] = 0 => pc[Main] = "join" /\ target = t)
  BY <1>3 DEF Inside, Told
<1>5. ASSUME NEW u \in Thread PROVE Inside(u)' /\ Told(u)'
  <2>1. CASE u # t
    BY <1>3, <2>1, OtherKept
  <2>2. CASE u = t
    <3>1. Inside(t)'
      BY <1>3, <1>4, Types DEF Inside, Next1, End
    <3>2. Told(t)'
      BY <1>3 DEF Told
    <3> QED
      BY <2>2, <3>1, <3>2
  <2> QED
    BY <2>1, <2>2
<1>6. MainKnown'
  BY <1>3, <1>4, Types DEF MainKnown
<1>7. Active' = Active
  BY <1>3, <1>4, Types DEF Active
<1>8. Counts'
  BY <1>3, <1>7, CountsKept
<1> QED
  BY <1>1, <1>2, <1>5, <1>6, <1>8

LEMMA FindDeltaIInv ==
  ASSUME IInv, NEW t \in Thread, FindDelta(t)
  PROVE  IInv'
<1> USE DEF IInv
<1>1. /\ pc[t] = "find_deltas" /\ pc'[Main] = pc[Main]
      /\ \A u \in Thread \ {t} : /\ pos'[u] = pos[u] /\ pc'[u] = pc[u]
                                /\ taken'[u] = taken[u] /\ remaining'[u] = remaining[u]
      /\ UNCHANGED <<list, list_size, working, data_ready, target, active, waiting>>
  BY Types DEF TypeOK, FindDelta
<1>2. pos[t] = Next1(t) /\ End(t) <= N /\ remaining[t] <= list_size[t] /\ End(t) \in Nat
  BY <1>1, Types DEF Inside, End
<1>3. CASE remaining[t] = 0
  <2>1. /\ pc'[t] = "report" /\ pc' = [pc EXCEPT ![t] = "report"]
        /\ UNCHANGED <<taken, pos, remaining, processed>>
    <3>1. ~(remaining[t] > 0)
      BY <1>3
    <3>2. pc' = [pc EXCEPT ![t] = "report"] /\ UNCHANGED <<taken, pos, remaining, processed>>
      BY <3>1 DEF FindDelta
    <3> QED
      BY <3>2 DEF TypeOK
  <2>2. TypeOK'
    BY <1>1, <2>1, Types DEF TypeOK
  <2>3. Partition'
    BY <1>1, <2>1, PartitionKept
  <2>4. ASSUME NEW u \in Thread PROVE Inside(u)' /\ Told(u)'
    <3>1. CASE u # t
      BY <1>1, <2>1, <3>1, OtherKept
    <3>2. CASE u = t
      <4>1. Inside(t)'
        BY <1>1, <1>3, <2>1, Types DEF Inside, Next1, End
      <4>2. Told(t)'
        BY <1>1, <2>1 DEF Told
      <4> QED
        BY <3>2, <4>1, <4>2
    <3> QED
      BY <3>1, <3>2
  <2>5. MainKnown'
    BY <1>1, <2>1, Types DEF MainKnown
  <2>6. Active' = Active
    BY <1>1, <2>1, Types DEF Active
  <2>7. Counts'
    BY <1>1, <2>1, <2>6, CountsKept
  <2> QED
    BY <2>2, <2>3, <2>4, <2>5, <2>7
<1>4. CASE remaining[t] > 0
  <2> DEFINE p == pos[t]
  <2>1. /\ UNCHANGED pc
        /\ taken' = [taken EXCEPT ![t] = @ \cup {p}] /\ taken'[t] = taken[t] \cup {p}
        /\ pos' = [pos EXCEPT ![t] = @ + 1] /\ pos'[t] = p + 1
        /\ remaining' = [remaining EXCEPT ![t] = @ - 1] /\ remaining'[t] = remaining[t] - 1
        /\ processed' = IF p \in Counted THEN processed + 1 ELSE processed
    BY <1>4, Types DEF TypeOK, FindDelta
  <2> HIDE DEF p
  <2>2. p = End(t) - remaining[t] /\ p \in 0..(N - 1)
    BY <1>2, <1>4, Types, Constants DEF Next1, p
  <2>3. /\ Segment(t) = p..(End(t) - 1) /\ Segment(t)' = (p + 1)..(End(t) - 1)
        /\ \A u \in Thread \ {t} : Segment(u)' = Segment(u)
    <3>1. Segment(t) = p..(End(t) - 1)
      BY <2>2 DEF Segment, End
    <3>2. End(t) - (remaining[t] - 1) = p + 1
      BY <1>2, <2>2, Types
    <3>3. Segment(t)' = (End(t) - (remaining[t] - 1))..(End(t) - 1)
      BY <1>1, <2>1 DEF Segment, End
    <3>4. \A u \in Thread \ {t} : Segment(u)' = Segment(u)
      BY <1>1 DEF Segment
    <3> QED
      BY <3>1, <3>2, <3>3, <3>4
  <2>4. p \in Segment(t) /\ Segment(t)' = Segment(t) \ {p}
    BY <1>2, <1>4, <2>2, <2>3, Types
  <2>5. \A u \in Thread : p \notin taken[u]
    BY <2>2, <2>4 DEF Partition, With
  <2>6. Partition'
    <3>1. ASSUME NEW u \in Thread, NEW k PROVE With(u, k)' <=> With(u, k)
      <4>1. CASE u # t
        BY <1>1, <2>3, <4>1 DEF With
      <4>2. CASE u = t
        BY <2>1, <2>4, <4>2 DEF With
      <4> QED
        BY <4>1, <4>2
    <3>2. ASSUME NEW u \in Thread PROVE (Segment(u) \cap taken[u] = {})'
      <4>1. CASE u # t
        BY <1>1, <2>3, <4>1 DEF Partition
      <4>2. CASE u = t
        BY <2>1, <2>4, <4>2 DEF Partition
      <4> QED
        BY <4>1, <4>2
    <3> QED
      BY <3>1, <3>2 DEF Partition
  <2>7. ASSUME NEW u \in Thread PROVE Inside(u)' /\ Told(u)'
    <3>1. CASE u # t
      BY <1>1, <2>1, <3>1, OtherKept
    <3>2. CASE u = t
      <4>1. Inside(t)'
        BY <1>1, <1>2, <1>4, <2>1, <2>2, Types DEF Inside, Next1, End
      <4>2. Told(t)'
        BY <1>1, <2>1 DEF Told
      <4> QED
        BY <3>2, <4>1, <4>2
    <3> QED
      BY <3>1, <3>2
  <2>8. MainKnown'
    BY <1>1, <2>1 DEF MainKnown
  <2>9. Active' = Active
    BY <1>1, <2>1 DEF Active
  <2>10. Taken' = Taken \cup {p} /\ p \notin Taken
    <3>1. p \notin Taken
      BY <2>5 DEF Taken
    <3>2. \A k : k \in Taken' <=> \E u \in Thread : k \in taken'[u]
      BY DEF Taken
    <3>3. \A k : k \in Taken <=> \E u \in Thread : k \in taken[u]
      BY DEF Taken
    <3>4. ASSUME NEW k PROVE k \in Taken' <=> k \in Taken \/ k = p
      BY <1>1, <2>1, <3>2, <3>3
    <3> QED
      BY <3>1, <3>4
  <2>11. IsFiniteSet(Counted) /\ Cardinality(Counted) <= N /\ Cardinality(Counted) \in Nat
    <3>1. IsFiniteSet(0..(N - 1)) /\ Cardinality(0..(N - 1)) = N
      <4>1. N \in Nat /\ N >= 1 /\ N - 1 \in Int
        BY Constants
      <4>2. IsFiniteSet(0..(N - 1)) /\ Cardinality(0..(N - 1)) = (IF 0 > N - 1 THEN 0 ELSE (N - 1) - 0 + 1)
        BY <4>1, FS_Interval
      <4> QED
        BY <4>1, <4>2
    <3>2. Counted \in SUBSET (0..(N - 1))
      BY DEF Counted
    <3> QED
      BY <3>1, <3>2, FS_Subset, FS_CardinalityType
  <2>12. /\ IsFiniteSet(Counted \cap Taken) /\ IsFiniteSet(Counted \cap Taken')
         /\ Cardinality(Counted \cap Taken') <= Cardinality(Counted)
         /\ Cardinality(Counted \cap Taken) \in Nat /\ Cardinality(Counted \cap Taken') \in Nat
    BY <2>11, FS_Subset, FS_CardinalityType
  <2>13. processed' = Cardinality(Counted \cap Taken')
    <3>1. CASE p \in Counted
      <4>1. Counted \cap Taken' = (Counted \cap Taken) \cup {p}
        BY <2>10, <3>1
      <4>2. p \notin Counted \cap Taken
        BY <2>10
      <4>3. Cardinality((Counted \cap Taken) \cup {p}) = Cardinality(Counted \cap Taken) + 1
        BY <2>12, <4>2, FS_AddElement
      <4> QED
        BY <2>1, <3>1, <4>1, <4>3 DEF Counts
    <3>2. CASE p \notin Counted
      <4>1. Counted \cap Taken' = Counted \cap Taken
        BY <2>10, <3>2
      <4> QED
        BY <2>1, <3>2, <4>1 DEF Counts
    <3> QED
      BY <3>1, <3>2
  <2>14. Counts'
    <3>1. Counted' = Counted
      BY DEF Counted
    <3> QED
      BY <1>1, <2>9, <2>13, <3>1 DEF Counts
  <2>15. TypeOK'
    <3>1. processed' \in 0..N
      BY <2>11, <2>12, <2>13, Constants
    <3>2. taken' \in [Thread -> SUBSET (0..(N - 1))]
      BY <2>1, <2>2 DEF TypeOK
    <3>3. pos' \in [Thread -> 0..N]
      <4>1. p + 1 \in 0..N
        BY <2>2, Constants
      <4>2. pos' = [pos EXCEPT ![t] = p + 1]
        BY <2>1 DEF p
      <4> QED
        BY <4>1, <4>2 DEF TypeOK
    <3>4. remaining' \in [Thread -> 0..N]
      <4>1. remaining[t] - 1 \in 0..N
        <5>1. remaining[t] \in 0..N
          BY DEF TypeOK
        <5> QED
          BY <1>4, <5>1, Constants
      <4> QED
        BY <2>1, <4>1 DEF TypeOK
    <3> QED
      BY <1>1, <2>1, <3>1, <3>2, <3>3, <3>4 DEF TypeOK
  <2> QED
    BY <2>6, <2>7, <2>8, <2>14, <2>15
<1> QED
  BY <1>3, <1>4, Types DEF FindDelta

LEMMA ReportIInv ==
  ASSUME IInv, NEW t \in Thread, Report(t)
  PROVE  IInv'
<1> USE DEF IInv
<1>1. /\ pc[t] = "report" /\ pc'[t] = "wait" /\ pc'[Main] = pc[Main] /\ ~working'[t]
      /\ \A u \in Thread \ {t} : pc'[u] = pc[u] /\ working'[u] = working[u]
      /\ UNCHANGED <<list, list_size, remaining, data_ready, pos, processed, taken, target, active>>
  BY Types DEF TypeOK, Report
<1>2. TypeOK'
  BY <1>1, Types DEF TypeOK, Report
<1>3. Partition'
  BY <1>1, PartitionKept
<1>4. ASSUME NEW u \in Thread PROVE Inside(u)' /\ Told(u)'
  <2>1. CASE u # t
    BY <1>1, <2>1, OtherKept
  <2>2. CASE u = t
    <3>1. Inside(t)'
      BY <1>1 DEF Inside, Next1, End
    <3>2. Told(t)'
      BY <1>1 DEF Told
    <3> QED
      BY <2>2, <3>1, <3>2
  <2> QED
    BY <2>1, <2>2
<1>5. MainKnown'
  BY <1>1, Types DEF MainKnown
<1>6. Active' = Active
  BY <1>1, Types DEF Active
<1>7. Counts'
  BY <1>1, <1>6, CountsKept
<1> QED
  BY <1>2, <1>3, <1>4, <1>5, <1>7

LEMMA WaitIInv ==
  ASSUME IInv, NEW t \in Thread, Wait(t)
  PROVE  IInv'
<1> USE DEF IInv
<1>1. /\ pc[t] = "wait"
      /\ UNCHANGED <<list, list_size, remaining, working, pos, processed, taken, target, active>>
  BY DEF Wait
<1>2. Partition'
  BY <1>1, PartitionKept
<1>3. CASE ~data_ready[t]
  <2>1. waiting' = waiting \cup {t} /\ UNCHANGED <<data_ready, pc>>
    BY <1>3 DEF Wait
  <2>2. TypeOK'
    BY <1>1, <2>1 DEF TypeOK
  <2>3. \A u \in Thread : Inside(u)' /\ Told(u)'
    BY <1>1, <2>1, OtherKept
  <2>4. MainKnown' /\ Active' = Active
    BY <1>1, <2>1 DEF MainKnown, Active
  <2> QED
    BY <1>1, <1>2, <2>2, <2>3, <2>4, CountsKept
<1>4. CASE data_ready[t]
  <2>1. /\ data_ready' = [data_ready EXCEPT ![t] = FALSE] /\ pc' = [pc EXCEPT ![t] = "start"]
        /\ UNCHANGED waiting
    BY <1>4 DEF Wait
  <2>2. /\ ~data_ready'[t] /\ pc'[t] = "start" /\ pc'[Main] = pc[Main]
        /\ \A u \in Thread \ {t} : pc'[u] = pc[u] /\ data_ready'[u] = data_ready[u]
    BY <2>1, Types DEF TypeOK
  <2>3. working[t] /\ remaining[t] = list_size[t]
    BY <1>1, <1>4 DEF Told, Inside
  <2>4. TypeOK'
    BY <1>1, <2>1, Types DEF TypeOK
  <2>5. ASSUME NEW u \in Thread PROVE Inside(u)' /\ Told(u)'
    <3>1. CASE u # t
      BY <1>1, <2>2, <3>1, OtherKept
    <3>2. CASE u = t
      <4>1. Inside(t)'
        BY <1>1, <2>2, <2>3 DEF Inside, Next1, End
      <4>2. Told(t)'
        BY <1>1, <1>4, <2>2, <2>3 DEF Told
      <4> QED
        BY <3>2, <4>1, <4>2
    <3> QED
      BY <3>1, <3>2
  <2>6. MainKnown'
    BY <1>1, <1>4, <2>2, Types DEF MainKnown
  <2>7. Active' = Active
    BY <1>1, <2>2, Types DEF Active
  <2> QED
    BY <1>1, <1>2, <2>4, <2>5, <2>6, <2>7, CountsKept
<1> QED
  BY <1>3, <1>4

-----------------------------------------------------------------------------
(* The steps of Main *)

\* The choices of Look: an idle thread, and the thread with the most left.
LEMMA IdleChosen ==
  ASSUME Idle # {}
  PROVE  (CHOOSE i \in Idle : \A j \in Idle : i <= j) \in Idle
<1>1. Idle \subseteq Nat
  BY Constants DEF Idle
<1>2. \E i \in Idle : \A j \in Idle : i <= j
  BY <1>1, Smallest
<1> QED
  BY <1>2

LEMMA VictimChosen ==
  ASSUME TypeOK, Victims # {}
  PROVE  (CHOOSE i \in Victims : \A j \in Victims :
            remaining[i] > remaining[j] \/ (remaining[i] = remaining[j] /\ i <= j)) \in Victims
<1>1. \A i \in Victims : i \in Nat /\ remaining[i] \in 0..N
  BY Constants DEF TypeOK, Victims
<1> DEFINE S == {N - remaining[i] : i \in Victims}
<1>2. S \subseteq Nat /\ S # {}
  BY <1>1, Constants
<1>3. PICK m \in S : \A k \in S : m <= k
  BY <1>2, Smallest
<1>4. \A j \in Victims : m <= N - remaining[j]
  BY <1>3
<1> DEFINE Most == {i \in Victims : N - remaining[i] = m}
<1>5. Most \subseteq Nat /\ Most # {}
  BY <1>1, <1>3
<1>6. PICK i \in Most : \A j \in Most : i <= j
  BY <1>5, Smallest
<1>7. ASSUME NEW j \in Victims
      PROVE  remaining[i] > remaining[j] \/ (remaining[i] = remaining[j] /\ i <= j)
  <2>1. N - remaining[i] = m /\ m <= N - remaining[j] /\ i \in Victims
    BY <1>4, <1>6
  <2>2. remaining[i] \in 0..N /\ remaining[j] \in 0..N
    BY <1>1, <2>1
  <2>3. N - remaining[j] = m => i <= j
    BY <1>6
  <2>4. remaining[i] >= remaining[j]
    BY <2>1, <2>2, Constants
  <2> QED
    BY <2>1, <2>2, <2>3, <2>4, Constants
<1> QED
  BY <1>6, <1>7

\* A thread that is given a part of the list, which is taken from another, or nothing
LEMMA GivenIInv ==
  ASSUME IInv, Look, NEW t \in Idle, target' = t,
         working' = [working EXCEPT ![t] = TRUE], pc' = [pc EXCEPT ![Main] = "give"]
  PROVE  /\ pc[Main] = "look" /\ t \in Thread /\ pc[t] = "wait" /\ ~data_ready[t] /\ remaining[t] = 0
         /\ working'[t] /\ \A u \in Thread \ {t} : working'[u] = working[u]
         /\ pc'[Main] = "give" /\ \A u \in Thread : pc'[u] = pc[u]
         /\ working' \in [Thread -> BOOLEAN] /\ pc' = [u \in Thread \cup {Main} |-> pc'[u]]
         /\ MainKnown' /\ Active' = Active
         /\ UNCHANGED <<data_ready, pos, processed, taken, active>>
<1> USE DEF IInv
<1>1. t \in Thread /\ ~working[t]
  BY DEF Idle
<1>2. pc[Main] = "look" /\ UNCHANGED <<data_ready, pos, processed, taken, active>>
  BY DEF Look
<1>3. pc[t] = "wait" /\ ~data_ready[t] /\ remaining[t] = 0
  BY <1>1 DEF Told, Inside
<1>4. working'[t] /\ \A u \in Thread \ {t} : working'[u] = working[u]
  BY <1>1 DEF TypeOK
<1>5. pc'[Main] = "give" /\ \A u \in Thread : pc'[u] = pc[u]
  BY Types DEF TypeOK
<1>6. working' \in [Thread -> BOOLEAN] /\ pc' = [u \in Thread \cup {Main} |-> pc'[u]]
  BY DEF TypeOK
<1>7. MainKnown'
  BY <1>1, <1>2, <1>3, <1>4, <1>5 DEF MainKnown
<1>8. Active' = Active
  BY <1>2, <1>5 DEF Active
<1> QED
  BY <1>1, <1>2, <1>3, <1>4, <1>5, <1>6, <1>7, <1>8

\* Nothing is left before a thread that has none remaining.
LEMMA NothingBefore ==
  ASSUME TypeOK, NEW t \in Thread, remaining[t] = 0
  PROVE  Segment(t) = {}
<1>1. End(t) \in Nat
  BY Types DEF End
<1>2. Segment(t) = (End(t) - 0)..(End(t) - 1)
  BY DEF Segment, End
<1> QED
  BY <1>1, <1>2

\* What Look leaves to an idle thread t when it takes the part from cut on from thread v
LEMMA StealIInv ==
  ASSUME IInv, NEW t \in Thread, NEW v \in Thread, t # v, remaining[t] = 0, pc[t] = "wait",
         pc[Main] = "look", ~data_ready[t],
         NEW cut \in (Next1(v) + 1)..(End(v) - 1),
         list' = [list EXCEPT ![t] = cut],
         list_size' = [list_size EXCEPT ![v] = @ - (End(v) - cut), ![t] = End(v) - cut],
         remaining' = [remaining EXCEPT ![v] = cut - Next1(v), ![t] = End(v) - cut],
         working'[t], \A u \in Thread \ {t} : working'[u] = working[u],
         pc'[Main] = "give", \A u \in Thread : pc'[u] = pc[u], target' = t,
         UNCHANGED <<data_ready, pos, taken>>
  PROVE  /\ list' \in [Thread -> 0..N] /\ list_size' \in [Thread -> 0..N]
         /\ remaining' \in [Thread -> 0..N]
         /\ Partition' /\ \A u \in Thread : Inside(u)' /\ Told(u)'
<1> USE DEF IInv
<1>1. /\ End(v) \in Nat /\ Next1(v) \in Nat /\ cut \in Nat /\ End(v) <= N /\ N \in Nat
      /\ remaining[v] = End(v) - Next1(v) /\ list[v] <= Next1(v) /\ list_size[v] = End(v) - list[v]
      /\ list[v] \in Nat /\ Next1(v) < cut /\ cut < End(v)
  <2>1. /\ list[v] \in Nat /\ list_size[v] \in Nat /\ remaining[v] \in Nat
        /\ remaining[v] <= list_size[v] /\ End(v) <= N
    BY Types DEF Inside
  <2>2. End(v) = list[v] + list_size[v] /\ Next1(v) = End(v) - remaining[v]
    BY DEF End, Next1
  <2>3. End(v) \in Nat /\ Next1(v) \in Nat
    BY <2>1, <2>2
  <2>4. cut \in Nat /\ Next1(v) < cut /\ cut < End(v)
    BY <2>3
  <2>5. /\ remaining[v] = End(v) - Next1(v) /\ list_size[v] = End(v) - list[v]
        /\ list[v] <= Next1(v)
    BY <2>1, <2>2
  <2> QED
    BY <2>1, <2>3, <2>4, <2>5, Constants
<1>2. /\ list'[t] = cut /\ list_size'[t] = End(v) - cut /\ remaining'[t] = End(v) - cut
      /\ list'[v] = list[v] /\ list_size'[v] = list_size[v] - (End(v) - cut)
      /\ remaining'[v] = cut - Next1(v)
      /\ \A u \in Thread \ {t, v} : /\ list'[u] = list[u] /\ list_size'[u] = list_size[u]
                                   /\ remaining'[u] = remaining[u]
  BY DEF TypeOK
<1>3. /\ list' \in [Thread -> 0..N] /\ list_size' \in [Thread -> 0..N]
      /\ remaining' \in [Thread -> 0..N]
  <2>1. /\ cut \in 0..N /\ End(v) - cut \in 0..N /\ cut - Next1(v) \in 0..N
        /\ list_size[v] - (End(v) - cut) \in 0..N
    BY <1>1
  <2> QED
    BY <2>1 DEF TypeOK
<1>4. End(t)' = End(v) /\ End(v)' = cut /\ Next1(t)' = cut /\ Next1(v)' = Next1(v)
  <2>1. End(t)' = cut + (End(v) - cut)
    BY <1>2 DEF End
  <2>2. End(v)' = list[v] + (list_size[v] - (End(v) - cut))
    BY <1>2 DEF End
  <2>3. End(t)' = End(v) /\ End(v)' = cut
    BY <1>1, <2>1, <2>2
  <2>4. Next1(t)' = End(t)' - (End(v) - cut) /\ Next1(v)' = End(v)' - (cut - Next1(v))
    BY <1>2 DEF Next1
  <2> QED
    BY <1>1, <2>3, <2>4
<1>5. /\ Segment(t) = {} /\ Segment(v) = Next1(v)..(End(v) - 1)
      /\ Segment(t)' = cut..(End(v) - 1) /\ Segment(v)' = Next1(v)..(cut - 1)
      /\ \A u \in Thread \ {t, v} : Segment(u)' = Segment(u)
  <2>1. \A u \in Thread : Segment(u) = Next1(u)..(End(u) - 1)
    BY DEF Segment, Next1, End
  <2>2. \A u \in Thread : Segment(u)' = (Next1(u)')..(End(u)' - 1)
    BY DEF Segment, Next1, End
  <2>3. Segment(t) = {}
    BY NothingBefore
  <2>4. \A u \in Thread \ {t, v} : Segment(u)' = Segment(u)
    BY <1>2 DEF Segment
  <2> QED
    BY <1>4, <2>1, <2>2, <2>3, <2>4
<1>6. /\ Segment(v) = Segment(v)' \cup Segment(t)' /\ Segment(v)' \cap Segment(t)' = {}
  BY <1>1, <1>5
<1>7. Partition'
  <2>1. ASSUME NEW k \in 0..(N - 1) PROVE \E u \in Thread : With(u, k)'
    <3>1. PICK u \in Thread : With(u, k)
      BY DEF Partition
    <3>2. CASE k \in taken[u]
      BY <3>2 DEF With
    <3>3. CASE k \in Segment(u) /\ u # v
      <4>1. u # t
        BY <1>5, <3>3
      <4> QED
        BY <1>5, <3>3, <4>1 DEF With
    <3>4. CASE k \in Segment(u) /\ u = v
      BY <1>6, <3>4 DEF With
    <3> QED
      BY <3>1, <3>2, <3>3, <3>4 DEF With
  <2>2. \A u \in Thread : Segment(u)' \cap taken'[u] = {}
    <3>1. Segment(t)' \cap taken[t] = {}
      <4>1. ASSUME NEW k \in Segment(t)', k \in taken[t] PROVE FALSE
        <5>1. k \in 0..(N - 1) /\ k \in Segment(v)
          BY <1>1, <1>5, <1>6, <4>1
        <5> QED
          BY <4>1, <5>1 DEF Partition, With
      <4> QED
        BY <4>1
    <3>2. Segment(v)' \cap taken[v] = {}
      BY <1>6 DEF Partition
    <3>3. \A u \in Thread \ {t, v} : Segment(u)' \cap taken[u] = {}
      BY <1>5 DEF Partition
    <3> QED
      BY <3>1, <3>2, <3>3
  \* Only t may have an object that another thread had, and only one that v had before it.
  <2>3. ASSUME NEW u \in Thread, NEW k \in 0..(N - 1), With(u, k)'
        PROVE  With(u, k) \/ (u = t /\ k \in Segment(t)' /\ k \in Segment(v))
    <3>1. CASE k \in taken[u]
      BY <3>1 DEF With
    <3>2. CASE k \in Segment(u)'
      <4>1. CASE u = t
        BY <1>6, <3>2, <4>1
      <4>2. CASE u # t
        BY <1>5, <1>6, <3>2, <4>2 DEF With
      <4> QED
        BY <4>1, <4>2
    <3> QED
      BY <2>3, <3>1, <3>2 DEF With
  <2>4. ASSUME NEW u \in Thread, NEW k \in 0..(N - 1), With(u, k)', k \in Segment(t)', u # t
        PROVE  FALSE
    <3>1. k \in Segment(v) /\ With(u, k) /\ k \notin Segment(v)'
      BY <1>6, <2>3, <2>4
    <3>2. u = v
      BY <3>1 DEF Partition, With
    <3>3. k \in taken[v]
      BY <2>4, <3>1, <3>2 DEF With
    <3> QED
      BY <3>1, <3>3 DEF Partition
  <2>5. ASSUME NEW u \in Thread, NEW x \in Thread, NEW k \in 0..(N - 1), With(u, k)', With(x, k)'
        PROVE  u = x
    <3>1. CASE k \in Segment(t)'
      BY <2>4, <2>5, <3>1
    <3>2. CASE k \notin Segment(t)'
      <4>1. With(u, k) /\ With(x, k)
        BY <2>3, <2>5, <3>2
      <4> QED
        BY <4>1 DEF Partition
    <3> QED
      BY <3>1, <3>2
  <2>6. (\A u, x \in Thread : \A k \in 0..(N - 1) : With(u, k) /\ With(x, k) => u = x)'
    BY <2>5
  <2> QED
    BY <2>1, <2>2, <2>6 DEF Partition
<1>8. ASSUME NEW u \in Thread PROVE Inside(u)' /\ Told(u)'
  <2>1. CASE u = t
    <3>1. Inside(t)'
      BY <1>1, <1>2, <1>4 DEF Inside
    <3>2. Told(t)'
      BY DEF Told
    <3> QED
      BY <2>1, <3>1, <3>2
  <2>2. CASE u = v
    <3>1. remaining[v] # 0 /\ list_size[v] # 0 /\ working[v]
      BY <1>1 DEF Inside
    <3>2. pc[v] \in {"start", "find_deltas", "wait"}
      BY <3>1 DEF Inside, TypeOK
    <3>3. pc[v] \in {"start", "wait"} => cut - Next1(v) = list_size[v] - (End(v) - cut)
      BY <1>1, <3>1 DEF Inside
    <3>4. cut - Next1(v) <= list_size[v] - (End(v) - cut) /\ cut <= N /\ list_size[v] - (End(v) - cut) # 0
      BY <1>1
    <3>5. Inside(v)'
      BY <1>2, <1>4, <3>1, <3>2, <3>3, <3>4 DEF Inside
    <3>6. Told(v)'
      BY <1>2, <3>1, <3>4 DEF Told
    <3> QED
      BY <2>2, <3>5, <3>6
  <2>3. CASE u # t /\ u # v
    <3>1. /\ list'[u] = list[u] /\ list_size'[u] = list_size[u] /\ remaining'[u] = remaining[u]
          /\ working'[u] = working[u] /\ pc'[u] = pc[u] /\ pos'[u] = pos[u] /\ data_ready'[u] = data_ready[u]
      BY <1>2, <2>3
    <3>2. Inside(u)'
      BY <3>1 DEF Inside, Next1, End
    <3>3. Told(u)'
      BY <3>1 DEF Told
    <3> QED
      BY <3>2, <3>3
  <2> QED
    BY <2>1, <2>2, <2>3
<1> QED
  BY <1>3, <1>7, <1>8

LEMMA LookIInv ==
  ASSUME IInv, Look
  PROVE  IInv'
<1> USE DEF IInv
<1>1. CASE Idle = {}
  <2>1. /\ waiting' = waiting \cup {Main}
        /\ UNCHANGED <<list, list_size, remaining, working, pc, target, data_ready, pos, processed,
                       taken, active>>
    BY <1>1 DEF Look
  <2>2. TypeOK'
    BY <2>1 DEF TypeOK
  <2>3. Partition'
    BY <2>1, PartitionKept
  <2>4. \A u \in Thread : Inside(u)' /\ Told(u)'
    BY <2>1, OtherKept
  <2>5. MainKnown' /\ Active' = Active
    BY <2>1 DEF MainKnown, Active
  <2> QED
    BY <2>1, <2>2, <2>3, <2>4, <2>5, CountsKept
<1>2. CASE Idle # {}
  <2>1. PICK t \in Idle : t = CHOOSE i \in Idle : \A j \in Idle : i <= j
    BY <1>2, IdleChosen
  <2>2. /\ target' = t /\ working' = [working EXCEPT ![t] = TRUE]
        /\ pc' = [pc EXCEPT ![Main] = "give"] /\ UNCHANGED waiting
    BY <1>2, <2>1 DEF Look
  <2>3. /\ pc[Main] = "look" /\ t \in Thread /\ pc[t] = "wait" /\ ~data_ready[t] /\ remaining[t] = 0
        /\ working'[t] /\ \A u \in Thread \ {t} : working'[u] = working[u]
        /\ pc'[Main] = "give" /\ \A u \in Thread : pc'[u] = pc[u]
        /\ working' \in [Thread -> BOOLEAN] /\ pc' = [u \in Thread \cup {Main} |-> pc'[u]]
        /\ MainKnown' /\ Active' = Active
        /\ UNCHANGED <<data_ready, pos, processed, taken, active>>
    BY <2>2, GivenIInv
  <2>4. /\ list' \in [Thread -> 0..N] /\ list_size' \in [Thread -> 0..N]
        /\ remaining' \in [Thread -> 0..N]
        /\ Partition' /\ \A u \in Thread : Inside(u)' /\ Told(u)'
    <3>1. CASE Victims = {}
      <4>1. /\ list_size' = [list_size EXCEPT ![t] = 0] /\ remaining' = [remaining EXCEPT ![t] = 0]
            /\ UNCHANGED list
        BY <1>2, <2>1, <3>1 DEF Look
      <4>2. /\ list_size'[t] = 0 /\ remaining'[t] = 0
            /\ \A u \in Thread \ {t} : list_size'[u] = list_size[u] /\ remaining'[u] = remaining[u]
        BY <2>3, <4>1 DEF TypeOK
      <4>3. /\ list' \in [Thread -> 0..N] /\ list_size' \in [Thread -> 0..N]
            /\ remaining' \in [Thread -> 0..N]
        <5>1. 0 \in 0..N
          BY Constants
        <5> QED
          BY <4>1, <5>1 DEF TypeOK
      <4>4. \A u \in Thread : Segment(u)' = Segment(u)
        <5>1. Segment(t) = {}
          BY <2>3, NothingBefore
        <5>2. Segment(t)' = (End(t)' - 0)..(End(t)' - 1)
          BY <4>2 DEF Segment, End
        <5>3. Segment(t)' = {}
          <6>1. End(t)' = list[t] + 0 /\ list[t] \in Nat
            BY <2>3, <4>1, <4>2, Types DEF End
          <6> QED
            BY <5>2, <6>1
        <5>4. \A u \in Thread \ {t} : Segment(u)' = Segment(u)
          BY <4>1, <4>2 DEF Segment
        <5> QED
          BY <5>1, <5>3, <5>4
      <4>5. Partition'
        BY <2>3, <4>4 DEF Partition, With
      <4>6. ASSUME NEW u \in Thread PROVE Inside(u)' /\ Told(u)'
        <5>1. CASE u = t
          <6>1. list[t] \in 0..N
            BY <2>3 DEF TypeOK
          <6>2. End(t)' \in 0..N
            BY <4>1, <4>2, <6>1, Constants DEF End
          <6>3. Inside(t)'
            BY <2>3, <4>2, <6>2, Constants DEF Inside
          <6>4. Told(t)'
            BY <2>3 DEF Told
          <6> QED
            BY <5>1, <6>3, <6>4
        <5>2. CASE u # t
          <6>1. /\ list'[u] = list[u] /\ list_size'[u] = list_size[u] /\ remaining'[u] = remaining[u]
                /\ working'[u] = working[u] /\ pc'[u] = pc[u] /\ pos'[u] = pos[u]
                /\ data_ready'[u] = data_ready[u]
            BY <2>3, <4>1, <4>2, <5>2
          <6>2. Inside(u)'
            BY <6>1 DEF Inside, Next1, End
          <6>3. Told(u)'
            BY <2>3, <6>1 DEF Told
          <6> QED
            BY <6>2, <6>3
        <5> QED
          BY <5>1, <5>2
      <4> QED
        BY <4>3, <4>5, <4>6
    <3>2. CASE Victims # {}
      <4>1. PICK v \in Victims :
              v = CHOOSE i \in Victims : \A j \in Victims :
                    remaining[i] > remaining[j] \/ (remaining[i] = remaining[j] /\ i <= j)
        BY <3>2, VictimChosen
      <4>2. v \in Thread /\ remaining[v] > 2 * window /\ remaining[v] \in Nat
        BY Types DEF Victims
      <4>3. t # v
        BY <2>3, <4>2, Constants
      <4>4. PICK cut \in (Next1(v) + 1)..(End(v) - 1) : cut = Cut(v) /\ Left(v, cut) = cut - Next1(v)
        BY <4>2, CutIn
      <4>5. /\ list' = [list EXCEPT ![t] = cut]
            /\ list_size' = [list_size EXCEPT ![v] = @ - (End(v) - cut), ![t] = End(v) - cut]
            /\ remaining' = [remaining EXCEPT ![v] = cut - Next1(v), ![t] = End(v) - cut]
        <5> DEFINE sub_size == list[v] + list_size[v] - cut
        <5>1. /\ list' = [list EXCEPT ![t] = cut]
              /\ list_size' = [list_size EXCEPT ![v] = @ - sub_size, ![t] = sub_size]
              /\ remaining' = [remaining EXCEPT ![v] = Left(v, cut), ![t] = sub_size]
          BY <1>2, <2>1, <3>2, <4>1, <4>4 DEF Look
        <5>2. sub_size = End(v) - cut
          <6>1. list[v] \in Nat /\ list_size[v] \in Nat /\ cut \in Int
            BY <4>2, Types
          <6> QED
            BY <6>1 DEF End
        <5> QED
          BY <5>1, <5>2, <4>4
      <4> QED
        BY <2>2, <2>3, <4>2, <4>3, <4>5, StealIInv
    <3> QED
      BY <3>1, <3>2
  <2>5. TypeOK'
    <3>1. /\ pos' \in [Thread -> 0..N] /\ data_ready' \in [Thread -> BOOLEAN] /\ processed' \in 0..N
          /\ taken' \in [Thread -> SUBSET (0..(N - 1))] /\ waiting' \subseteq Thread \cup {Main}
          /\ target' \in Thread /\ active' \in 0..Threads
          /\ \A u \in Thread : pc'[u] \in {"none", "start", "find_deltas", "report", "wait", "end"}
      BY <2>2, <2>3 DEF TypeOK
    <3> QED
      BY <2>3, <2>4, <3>1 DEF TypeOK
  <2>6. Counts'
    BY <2>3, CountsKept
  <2> QED
    BY <2>3, <2>4, <2>5, <2>6
<1> QED
  BY <1>1, <1>2

LEMMA GiveIInv ==
  ASSUME IInv, Give
  PROVE  IInv'
<1> USE DEF IInv
<1>1. /\ pc[Main] = "give" /\ data_ready' = [data_ready EXCEPT ![target] = TRUE]
      /\ waiting' = waiting \ {target} /\ target \in Thread
      /\ UNCHANGED <<list, list_size, remaining, working, pos, processed, taken, target, active>>
  BY Types DEF Give
<1>2. /\ pc'[Main] = (IF list_size[target] = 0 THEN "join" ELSE "look")
      /\ pc' = [u \in Thread \cup {Main} |-> pc'[u]]
      /\ \A u \in Thread : pc'[u] = pc[u]
  BY Types DEF TypeOK, Give
<1>3. data_ready'[target] /\ \A u \in Thread \ {target} : data_ready'[u] = data_ready[u]
  BY <1>1 DEF TypeOK
<1>4. pc[target] = "wait" /\ working[target]
  BY <1>1 DEF MainKnown
<1>5. TypeOK'
  <2>1. data_ready' \in [Thread -> BOOLEAN]
    BY <1>1 DEF TypeOK
  <2>2. pc'[Main] \in {"look", "give", "join", "end"}
    BY <1>2
  <2>3. \A u \in Thread : pc'[u] \in {"none", "start", "find_deltas", "report", "wait", "end"}
    BY <1>2 DEF TypeOK
  <2>4. waiting' \subseteq Thread \cup {Main}
    BY <1>1 DEF TypeOK
  <2> QED
    BY <1>1, <1>2, <2>1, <2>2, <2>3, <2>4 DEF TypeOK
<1>6. Partition'
  BY <1>1, PartitionKept
<1>7. ASSUME NEW u \in Thread PROVE Inside(u)' /\ Told(u)'
  <2>1. Inside(u)'
    BY <1>1, <1>2 DEF Inside, Next1, End
  <2>2. CASE u = target
    <3>1. Told(target)'
      BY <1>1, <1>2, <1>4 DEF Told
    <3> QED
      BY <2>1, <2>2, <3>1, <1>1
  <2>3. CASE u # target
    <3>1. Told(u)'
      BY <1>1, <1>2, <1>3, <2>3 DEF Told
    <3> QED
      BY <2>1, <3>1
  <2> QED
    BY <2>2, <2>3
<1>8. MainKnown'
  BY <1>1, <1>2, <1>4 DEF MainKnown
<1>9. Active' = Active
  BY <1>1, <1>2, <1>4 DEF Active
<1> QED
  BY <1>1, <1>5, <1>6, <1>7, <1>8, <1>9, CountsKept

LEMMA JoinIInv ==
  ASSUME IInv, Join
  PROVE  IInv'
<1> USE DEF IInv
<1>1. /\ pc[Main] = "join" /\ pc[target] = "end" /\ active' = active - 1 /\ target \in Thread
      /\ UNCHANGED <<list, list_size, remaining, working, data_ready, pos, processed, taken,
                     waiting, target>>
  BY Types DEF Join
<1>2. /\ pc'[Main] = (IF active = 1 THEN "end" ELSE "look")
      /\ pc' = [u \in Thread \cup {Main} |-> pc'[u]]
      /\ \A u \in Thread : pc'[u] = pc[u]
  BY Types DEF TypeOK, Join
<1>3. target \in Active /\ Active' = Active \ {target}
  BY <1>1, <1>2 DEF Active
<1>4. active = Cardinality(Active) /\ active \in Nat /\ active # 0 /\ active <= Threads
  <2>1. active = Cardinality(Active) /\ active \in 0..Threads
    BY DEF Counts, TypeOK
  <2>2. Cardinality(Active) # 0
    BY <1>3, ActiveType, FS_EmptySet
  <2> QED
    BY <2>1, <2>2, Constants
<1>5. Counts'
  <2>1. Cardinality(Active \ {target}) = Cardinality(Active) - 1
    BY <1>3, ActiveType, FS_RemoveElement
  <2>2. Taken' = Taken
    BY <1>1 DEF Taken
  <2>3. Counted' = Counted
    BY DEF Counted
  <2> QED
    BY <1>1, <1>3, <1>4, <2>1, <2>2, <2>3 DEF Counts
<1>6. TypeOK'
  <2>1. active' \in 0..Threads /\ pc'[Main] \in {"look", "give", "join", "end"}
    BY <1>1, <1>2, <1>4, Constants
  <2>2. \A u \in Thread : pc'[u] \in {"none", "start", "find_deltas", "report", "wait", "end"}
    BY <1>2 DEF TypeOK
  <2> QED
    BY <1>1, <1>2, <2>1, <2>2 DEF TypeOK
<1>7. Partition'
  BY <1>1, PartitionKept
<1>8. ASSUME NEW u \in Thread PROVE Inside(u)' /\ Told(u)'
  <2>1. Inside(u)'
    BY <1>1, <1>2 DEF Inside, Next1, End
  <2>2. ~data_ready[target]
    BY <1>1 DEF Told
  <2>3. Told(u)'
    BY <1>1, <1>2, <2>2 DEF Told
  <2> QED
    BY <2>1, <2>3
<1>9. MainKnown'
  BY <1>1, <1>2, <1>4 DEF MainKnown
<1> QED
  BY <1>5, <1>6, <1>7, <1>8, <1>9

LEMMA UnchangedIInv ==
  ASSUME IInv, waiting' \subseteq waiting,
         UNCHANGED <<list, list_size, remaining, working, data_ready, pos, processed, taken, pc,
                     target, active>>
  PROVE  IInv'
<1> USE DEF IInv
<1>1. TypeOK'
  BY DEF TypeOK
<1>2. Partition'
  BY PartitionKept
<1>3. \A u \in Thread : Inside(u)' /\ Told(u)'
  BY OtherKept
<1>4. MainKnown' /\ Active' = Active
  BY DEF MainKnown, Active
<1> QED
  BY <1>1, <1>2, <1>3, <1>4, CountsKept

LEMMA NextIInv == IInv /\ [Next]_vars => IInv'
<1> SUFFICES ASSUME IInv, [Next]_vars PROVE IInv'
  OBVIOUS
<1>1. CASE MainStep
  BY <1>1, LookIInv, GiveIInv, JoinIInv DEF MainStep
<1>2. ASSUME NEW t \in Thread, Work(t) PROVE IInv'
  BY <1>2, StartIInv, FindDeltaIInv, ReportIInv, WaitIInv DEF Work
<1>3. ASSUME NEW t \in Thread \cup {Main}, WakeUp(t) PROVE IInv'
  BY <1>3, UnchangedIInv DEF WakeUp
<1>4. CASE UNCHANGED vars
  BY <1>4, UnchangedIInv DEF vars
<1> QED
  BY <1>1, <1>2, <1>3, <1>4 DEF Next

-----------------------------------------------------------------------------

\* When the threads that were created are joined, nothing is left before any.
LEMMA EndCounts ==
  ASSUME IInv, pc[Main] = "end"
  PROVE  processed = N - Cardinality(Preferred)
<1> USE DEF IInv
<1>1. Active = {}
  <2>1. Cardinality(Active) = 0
    BY DEF MainKnown, Counts
  <2> QED
    BY <2>1, ActiveType, FS_EmptySet
<1>2. ASSUME NEW t \in Thread PROVE Segment(t) = {}
  <2>1. pc[t] \in {"none", "end"}
    BY <1>1 DEF Active
  <2>2. list_size[t] = 0 /\ remaining[t] <= list_size[t] /\ remaining[t] \in Nat
    BY <2>1, Types DEF Inside
  <2>3. remaining[t] = 0
    BY <2>2
  <2> QED
    BY <2>3, NothingBefore
<1>3. ASSUME NEW k \in 0..(N - 1) PROVE k \in Taken
  <2>1. PICK t \in Thread : With(t, k)
    BY DEF Partition
  <2>2. k \in taken[t]
    BY <1>2, <2>1 DEF With
  <2> QED
    BY <2>2 DEF Taken
<1>4. Counted \cap Taken = Counted
  BY <1>3 DEF Counted
<1>5. IsFiniteSet(0..(N - 1)) /\ Cardinality(0..(N - 1)) = N
  <2>1. N \in Nat /\ N >= 1 /\ N - 1 \in Int
    BY Constants
  <2>2. IsFiniteSet(0..(N - 1)) /\ Cardinality(0..(N - 1)) = (IF 0 > N - 1 THEN 0 ELSE (N - 1) - 0 + 1)
    BY <2>1, FS_Interval
  <2> QED
    BY <2>1, <2>2
<1>6. Cardinality(Counted) = N - Cardinality(Preferred)
  <2>1. Preferred \in SUBSET (0..(N - 1)) /\ (0..(N - 1)) \cap Preferred = Preferred
    BY PackThreadsAssumption DEF PackThreadsAssumption
  <2>2. IsFiniteSet(Preferred)
    BY <1>5, <2>1, FS_Subset
  <2>3. Cardinality((0..(N - 1)) \ Preferred)
          = Cardinality(0..(N - 1)) - Cardinality((0..(N - 1)) \cap Preferred)
    BY <1>5, <2>2, FS_Difference
  <2> QED
    BY <1>5, <2>1, <2>3 DEF Counted
<1> QED
  BY <1>4, <1>6 DEF Counts

LEMMA IInvEachObjectOnce == IInv => EachObjectOnce
<1> SUFFICES ASSUME IInv PROVE EachObjectOnce
  OBVIOUS
<1> USE DEF IInv
<1>1. ASSUME NEW k \in 0..(N - 1)
      PROVE  Cardinality({t \in Thread : k \in Segment(t)})
               + Cardinality({t \in Thread : k \in taken[t]}) = 1
  <2>1. PICK t \in Thread : With(t, k)
    BY DEF Partition
  <2>2. \A u \in Thread : With(u, k) => u = t
    BY <2>1 DEF Partition
  <2>3. Cardinality({t}) = 1 /\ Cardinality({}) = 0
    BY FS_Singleton, FS_EmptySet
  <2>4. CASE k \in Segment(t)
    <3>1. k \notin taken[t]
      BY <2>4 DEF Partition
    <3>2. {u \in Thread : k \in Segment(u)} = {t} /\ {u \in Thread : k \in taken[u]} = {}
      BY <2>2, <2>4, <3>1 DEF With
    <3>3. /\ Cardinality({u \in Thread : k \in Segment(u)}) = 1
          /\ Cardinality({u \in Thread : k \in taken[u]}) = 0
      BY <2>3, <3>2
    <3> QED
      BY <3>3
  <2>5. CASE k \notin Segment(t)
    <3>1. k \in taken[t]
      BY <2>1, <2>5 DEF With
    <3>2. {u \in Thread : k \in Segment(u)} = {} /\ {u \in Thread : k \in taken[u]} = {t}
      BY <2>2, <2>5, <3>1 DEF With
    <3>3. /\ Cardinality({u \in Thread : k \in Segment(u)}) = 0
          /\ Cardinality({u \in Thread : k \in taken[u]}) = 1
      BY <2>3, <3>2
    <3> QED
      BY <3>3
  <2> QED
    BY <2>4, <2>5
<1>2. \A t \in Thread : pc[t] = "end" => list_size[t] = 0 /\ working[t]
  BY DEF Inside, Told
<1> QED
  BY <1>1, <1>2, EndCounts DEF EachObjectOnce

\* However ll_find_deltas() splits the list and steals from the threads, whatever they are in the
\* middle of, each object is with one thread and looked at once, and the count at the end is right.
THEOREM EveryObjectIsSearchedOnce == Spec => []EachObjectOnce
<1>1. Spec => []IInv
  BY InitIInv, NextIInv, PTL DEF Spec
<1> QED
  BY <1>1, IInvEachObjectOnce, PTL

-----------------------------------------------------------------------------
(* FetchNegotiation *)

\* How many lines of the kind k are in s, and is there one?
Lines(k, s) == Cardinality({i \in DOMAIN s : s[i].kind = k})
Has(k, s) == \E i \in DOMAIN s : s[i].kind = k

----------------------------------------------------------------------------
\* The first line has been read.
LEMMA Rest ==
  ASSUME NEW S, NEW s \in Seq(S), s # <<>>
  PROVE  /\ Tail(s) \in Seq(S) /\ Head(s) \in S /\ Head(s) = s[1]
         /\ 1 \in DOMAIN s /\ Len(Tail(s)) = Len(s) - 1
         /\ \A i \in DOMAIN Tail(s) : i + 1 \in DOMAIN s /\ Tail(s)[i] = s[i + 1]
         /\ \A i \in DOMAIN s : i # 1 => i - 1 \in DOMAIN Tail(s) /\ s[i] = Tail(s)[i - 1]
OBVIOUS

\* Lines have been added.
LEMMA Added ==
  ASSUME NEW S, NEW s \in Seq(S), NEW t \in Seq(S)
  PROVE  /\ s \o t \in Seq(S) /\ Len(s \o t) = Len(s) + Len(t)
         /\ \A i \in DOMAIN s : i \in DOMAIN (s \o t) /\ (s \o t)[i] = s[i]
         /\ \A i \in DOMAIN t : Len(s) + i \in DOMAIN (s \o t) /\ (s \o t)[Len(s) + i] = t[i]
         /\ \A i \in DOMAIN (s \o t) :
              i \notin DOMAIN s => i - Len(s) \in DOMAIN t /\ (s \o t)[i] = t[i - Len(s)]
OBVIOUS

LEMMA FiniteLines ==
  ASSUME NEW S, NEW s \in Seq(S), NEW k
  PROVE  /\ IsFiniteSet({i \in DOMAIN s : s[i].kind = k})
         /\ Lines(k, s) \in Nat
         /\ Has(k, s) <=> Lines(k, s) # 0
<1> DEFINE A == {i \in DOMAIN s : s[i].kind = k}
<1>1. IsFiniteSet(A)
  <2>1. IsFiniteSet(1..Len(s))
    BY FS_Interval
  <2>2. A \subseteq 1..Len(s)
    OBVIOUS
  <2> QED
    BY <2>1, <2>2, FS_Subset
<1>2. Cardinality(A) \in Nat /\ (Cardinality(A) = 0 <=> A = {})
  BY <1>1, FS_CardinalityType, FS_EmptySet
<1> QED
  BY <1>1, <1>2 DEF Lines, Has

LEMMA BijectionBy ==
  ASSUME NEW B, NEW D, NEW f \in [B -> D],
         \A i, j \in B : f[i] = f[j] => i = j,
         \A d \in D : \E i \in B : f[i] = d
  PROVE  ExistsBijection(B, D)
<1>1. f \in Injection(B, D)
  BY DEF Injection, IsInjective
<1>2. f \in Surjection(B, D)
  BY DEF Surjection
<1> QED
  BY <1>1, <1>2 DEF ExistsBijection, Bijection

\* As many lines are in s \o t as in both.
LEMMA LinesAdded ==
  ASSUME NEW S, NEW s \in Seq(S), NEW t \in Seq(S), NEW k
  PROVE  Lines(k, s \o t) = Lines(k, s) + Lines(k, t)
<1> DEFINE A == {i \in DOMAIN s : s[i].kind = k}
           B == {i \in DOMAIN t : t[i].kind = k}
           C == {i \in DOMAIN (s \o t) : (s \o t)[i].kind = k}
           move == [i \in B |-> Len(s) + i]
           D == C \ A
<1>1. A \subseteq C
  BY Added
<1>2. ExistsBijection(B, D)
  <2>1. move \in [B -> D]
    BY Added
  <2>2. \A i, j \in B : move[i] = move[j] => i = j
    OBVIOUS
  <2>3. \A d \in D : \E i \in B : move[i] = d
    <3> SUFFICES ASSUME NEW d \in D PROVE \E i \in B : move[i] = d
      OBVIOUS
    <3>1. d \notin DOMAIN s
      BY Added
    <3>2. d - Len(s) \in B
      BY <3>1, Added
    <3>3. move[d - Len(s)] = d
      BY <3>2
    <3> QED
      BY <3>2, <3>3
  <2> QED
    <3> HIDE DEF B, D, move
    <3> QED
      BY <2>1, <2>2, <2>3, BijectionBy
<1>3. IsFiniteSet(A) /\ IsFiniteSet(B)
  BY FiniteLines
<1>4. IsFiniteSet(D) /\ Cardinality(D) = Cardinality(B)
  BY <1>2, <1>3, FS_Bijection
<1>5. Cardinality(A \cup D) = Cardinality(A) + Cardinality(D)
  <2>1. A \cap D = {}
    OBVIOUS
  <2> HIDE DEF A, D
  <2>2. Cardinality(A \cup D) = Cardinality(A) + Cardinality(D) - Cardinality(A \cap D)
    BY <1>3, <1>4, FS_Union
  <2>3. Cardinality(A) \in Nat /\ Cardinality(D) \in Nat /\ Cardinality(A \cap D) = 0
    BY <1>3, <1>4, <2>1, FS_CardinalityType, FS_EmptySet
  <2> QED
    BY <2>1, <2>2, <2>3
<1>6. A \cup D = C
  BY <1>1
<1> QED
  BY <1>4, <1>5, <1>6 DEF Lines

LEMMA LinesOfOne ==
  ASSUME NEW k, NEW line
  PROVE  Lines(k, <<line>>) = IF line.kind = k THEN 1 ELSE 0
<1>1. CASE line.kind = k
  <2>1. {i \in DOMAIN <<line>> : <<line>>[i].kind = k} = {1}
    BY <1>1
  <2> QED
    BY <1>1, <2>1, FS_Singleton DEF Lines
<1>2. CASE line.kind # k
  <2>1. {i \in DOMAIN <<line>> : <<line>>[i].kind = k} = {}
    BY <1>2
  <2> QED
    BY <1>2, <2>1, FS_EmptySet DEF Lines
<1> QED
  BY <1>1, <1>2

LEMMA LinesOfRest ==
  ASSUME NEW S, NEW s \in Seq(S), s # <<>>, NEW k
  PROVE  Lines(k, s) = Lines(k, Tail(s)) + (IF Head(s).kind = k THEN 1 ELSE 0)
<1>1. s = <<Head(s)>> \o Tail(s) /\ <<Head(s)>> \in Seq(S) /\ Tail(s) \in Seq(S)
  OBVIOUS
<1>2. Lines(k, s) = Lines(k, <<Head(s)>>) + Lines(k, Tail(s))
  BY <1>1, LinesAdded
<1>3. Lines(k, Tail(s)) \in Nat
  BY <1>1, FiniteLines
<1> QED
  BY <1>2, <1>3, LinesOfOne
----------------------------------------------------------------------------
\* One round of the walk.
Round(cs, through) == UNION {{c} \cup (IF c \in through THEN parents[c] ELSE {}) : c \in cs}

\* The rounds that the walk takes.
Rounds(f, from, through) ==
  /\ f[0] = from
  /\ \A n \in 1..Cardinality(Commit) : f[n] = Round(f[n - 1], through)

LEMMA WalkRounds ==
  ASSUME NEW from, NEW through
  PROVE  \E f : Rounds(f, from, through) /\ Walk(from, through) = f[Cardinality(Commit)]
<1> DEFINE most == Cardinality(Commit)
           Step(c) == {c} \cup (IF c \in through THEN parents[c] ELSE {})
           Upto(f, n) ==
             f = [i \in 0..n |-> IF i = 0 THEN from ELSE UNION {Step(c) : c \in f[i - 1]}]
<1>1. most \in Nat
  BY FS_CardinalityType, FetchNegotiationAssumption DEF FetchNegotiationAssumption
<1>2. \A n \in Nat : \E f : Upto(f, n)
  <2> DEFINE T == {n \in Nat : ~ \E f : Upto(f, n)}
  <2>1. SUFFICES ASSUME T # {} PROVE FALSE
    OBVIOUS
  <2>2. PICK m \in T : \A k \in T : m <= k
    BY <2>1, Smallest
  <2>3. CASE m = 0
    <3>1. Upto([i \in 0..0 |-> from], 0)
      OBVIOUS
    <3> QED
      BY <2>3, <3>1
  <2>4. CASE m # 0
    <3>1. m - 1 \in Nat /\ m - 1 \notin T
      <4> HIDE DEF Upto
      <4>1. m - 1 \in Nat /\ ~(m <= m - 1)
        BY <2>2, <2>4
      <4> QED
        BY <2>2, <4>1
    <3>2. PICK f : Upto(f, m - 1)
      BY <3>1
    <3> DEFINE g == [i \in 0..m |-> IF i = m THEN UNION {Step(c) : c \in f[m - 1]} ELSE f[i]]
    <3>3. Upto(g, m)
      <4>1. g = [i \in 0..m |-> IF i = 0 THEN from ELSE UNION {Step(c) : c \in g[i - 1]}]
        <5>1. \A i \in 0..m : g[i] = IF i = 0 THEN from ELSE UNION {Step(c) : c \in g[i - 1]}
          <6> TAKE i \in 0..m
          <6>1. CASE i = m
            <7>1. i - 1 \in 0..m /\ i - 1 # m /\ i # 0
              BY <6>1, <2>4
            <7>2. g[i - 1] = f[m - 1]
              BY <6>1, <7>1
            <7>3. g[i] = UNION {Step(c) : c \in f[m - 1]}
              BY <6>1
            <7> HIDE DEF g, Step
            <7> QED
              BY <7>1, <7>2, <7>3
          <6>2. CASE i # m
            <7>1. i \in 0..(m - 1)
              BY <6>2
            <7>2. g[i] = f[i]
              BY <6>2
            <7>3. f[i] = IF i = 0 THEN from ELSE UNION {Step(c) : c \in f[i - 1]}
              BY <3>2, <7>1
            <7>4. i # 0 => g[i - 1] = f[i - 1]
              BY <7>1
            <7> HIDE DEF g, Step
            <7> QED
              BY <7>2, <7>3, <7>4
          <6> QED
            BY <6>1, <6>2
        <5> QED
          BY <5>1
      <4> HIDE DEF g, Step
      <4> QED
        BY <4>1
    <3> QED
      BY <3>3
  <2> QED
    BY <2>3, <2>4
<1> DEFINE found_in == CHOOSE f : Upto(f, most)
<1>3. Walk(from, through) = found_in[most]
  BY DEF Walk
<1>4. Upto(found_in, most)
  <2> HIDE DEF Upto
  <2>1. \E f : Upto(f, most)
    BY <1>1, <1>2
  <2> QED
    BY <2>1
<1> HIDE DEF found_in
<1>5. found_in[0] = from
  BY <1>1, <1>4
<1>6. \A n \in 1..most : found_in[n] = Round(found_in[n - 1], through)
  <2> TAKE n \in 1..most
  <2>1. found_in[n] = UNION {Step(c) : c \in found_in[n - 1]}
    BY <1>1, <1>4
  <2> QED
    BY <2>1 DEF Round
<1> QED
  BY <1>3, <1>5, <1>6 DEF Rounds

\* What holds of the first round, and of each after one that it holds of, holds of the walk: here,
\* to lie in a set that the walk cannot leave.
LEMMA WalkLeast ==
  ASSUME NEW from, NEW through, NEW S, from \subseteq S, \A c \in S \cap through : parents[c] \subseteq S
  PROVE  Walk(from, through) \subseteq S
<1> DEFINE most == Cardinality(Commit)
<1>1. most \in Nat
  BY FS_CardinalityType, FetchNegotiationAssumption DEF FetchNegotiationAssumption
<1>2. PICK f : Rounds(f, from, through) /\ Walk(from, through) = f[most]
  BY WalkRounds
<1> DEFINE T == {n \in 0..most : ~(f[n] \subseteq S)}
<1>3. SUFFICES T = {}
  BY <1>1, <1>2
<1>4. SUFFICES ASSUME T # {} PROVE FALSE
  OBVIOUS
<1>5. PICK m \in T : \A k \in T : m <= k
  <2>1. T \subseteq Nat
    BY <1>1
  <2> HIDE DEF T
  <2> QED
    BY <1>4, <2>1, Smallest
<1>6. m # 0
  BY <1>2, <1>5 DEF Rounds
<1>7. m \in 1..most /\ m - 1 \in 0..most /\ m - 1 \notin T
  BY <1>1, <1>5, <1>6
<1>8. f[m - 1] \subseteq S /\ f[m] = Round(f[m - 1], through)
  BY <1>2, <1>7 DEF Rounds
<1>9. f[m] \subseteq S
  BY <1>8 DEF Round
<1> QED
  BY <1>5, <1>9

\* What the walk finds are commits.
LEMMA WalkIn ==
  ASSUME parents \in [Commit -> SUBSET Commit], NEW from \in SUBSET Commit, NEW through
  PROVE  Walk(from, through) \in SUBSET Commit
BY WalkLeast

\* As many rounds as there are commits are enough: as long as the walk is not at its end, each round
\* finds one more.
LEMMA WalkEnds ==
  ASSUME parents \in [Commit -> SUBSET Commit], NEW from \in SUBSET Commit, NEW through
  PROVE  /\ from \subseteq Walk(from, through)
         /\ \A c \in Walk(from, through) \cap through : parents[c] \subseteq Walk(from, through)
<1> DEFINE most == Cardinality(Commit)
<1>1. most \in Nat /\ IsFiniteSet(Commit)
  BY FS_CardinalityType, FetchNegotiationAssumption DEF FetchNegotiationAssumption
<1>2. PICK f : Rounds(f, from, through) /\ Walk(from, through) = f[most]
  BY WalkRounds
<1> DEFINE Ended(cs) == Round(cs, through) \subseteq cs
           Good(n) == /\ from \subseteq f[n] /\ f[n] \in SUBSET Commit
                      /\ n <= Cardinality(f[n]) \/ Ended(f[n])
           T == {n \in 0..most : ~Good(n)}
<1>3. Good(most)
  <2>1. SUFFICES ASSUME T # {} PROVE FALSE
    BY <1>1
  <2>2. PICK m \in T : \A k \in T : m <= k
    <3>1. T \subseteq Nat
      BY <1>1
    <3> HIDE DEF T
    <3> QED
      BY <2>1, <3>1, Smallest
  <2>3. CASE m = 0
    <3>1. f[0] = from /\ Cardinality(from) \in Nat
      BY <1>1, <1>2, FS_Subset, FS_CardinalityType DEF Rounds
    <3>2. 0 <= Cardinality(from)
      BY <3>1
    <3>3. Good(0)
      BY <3>1, <3>2
    <3> QED
      BY <2>2, <2>3, <3>3
  <2>4. CASE m # 0
    <3> DEFINE cs == f[m - 1]
    <3>1. m \in 1..most /\ m - 1 \in 0..most /\ m - 1 \notin T
      BY <1>1, <2>2, <2>4
    <3>2. Good(m - 1) /\ f[m] = Round(cs, through)
      <4>1. Good(m - 1)
        BY <3>1
      <4>2. f[m] = Round(cs, through)
        BY <1>2, <3>1 DEF Rounds
      <4> QED
        BY <4>1, <4>2
    <3>3. cs \subseteq f[m] /\ f[m] \in SUBSET Commit
      BY <3>2 DEF Round
    <3>4. CASE Ended(cs)
      <4>1. f[m] = cs
        BY <3>2, <3>3, <3>4
      <4> QED
        BY <2>2, <3>2, <3>4, <4>1
    <3>5. CASE ~Ended(cs)
      <4>1. f[m] # cs
        BY <3>2, <3>5
      <4>2. IsFiniteSet(f[m])
        BY <1>1, <3>3, FS_Subset
      <4>3. /\ Cardinality(cs) <= Cardinality(f[m]) /\ Cardinality(cs) # Cardinality(f[m])
            /\ Cardinality(cs) \in Nat /\ Cardinality(f[m]) \in Nat
        <5>1. IsFiniteSet(cs)
          BY <3>3, <4>2, FS_Subset
        <5> HIDE DEF cs
        <5> QED
          BY <3>3, <4>1, <4>2, <5>1, FS_Subset, FS_CardinalityType
      <4>4. m - 1 <= Cardinality(cs)
        BY <3>2, <3>5
      <4>5. m <= Cardinality(f[m])
        BY <3>1, <4>3, <4>4
      <4>6. Good(m)
        BY <3>2, <3>3, <4>5
      <4> QED
        BY <2>2, <4>6
    <3> QED
      BY <3>4, <3>5
  <2> QED
    BY <2>3, <2>4
<1>4. Ended(f[most])
  <2>1. CASE most <= Cardinality(f[most])
    <3>1. f[most] \in SUBSET Commit
      BY <1>3
    <3>2. f[most] = Commit
      <4>1. Cardinality(f[most]) <= most /\ Cardinality(f[most]) \in Nat
        BY <1>1, <3>1, FS_Subset, FS_CardinalityType
      <4>2. Cardinality(f[most]) = most
        BY <1>1, <2>1, <4>1
      <4> QED
        BY <1>1, <3>1, <4>2, FS_Subset
    <3> QED
      BY <3>2 DEF Round
  <2> QED
    BY <1>3, <2>1
<1> HIDE DEF most
<1> QED
  BY <1>2, <1>3, <1>4 DEF Round

\* The newest of some commits is one of them, and none is newer.
LEMMA NewestIn ==
  ASSUME NEW cs \in SUBSET Commit, cs # {}
  PROVE  Newest(cs) \in cs /\ \A d \in cs : Date[d] <= Date[Newest(cs)]
<1> DEFINE Later(c) == {d \in cs : Date[c] < Date[d]}
           Sizes == {Cardinality(Later(c)) : c \in cs}
<1>1. IsFiniteSet(cs) /\ Date \in [Commit -> Nat]
  BY FS_Subset, FetchNegotiationAssumption DEF FetchNegotiationAssumption
<1>2. \A c \in cs : IsFiniteSet(Later(c)) /\ Cardinality(Later(c)) \in Nat
  BY <1>1, FS_Subset, FS_CardinalityType
<1>3. PICK m \in Sizes : \A k \in Sizes : m <= k
  <2>1. Sizes \subseteq Nat /\ Sizes # {}
    BY <1>2
  <2> HIDE DEF Sizes
  <2> QED
    BY <2>1, Smallest
<1>4. PICK c \in cs : m = Cardinality(Later(c))
  OBVIOUS
<1>5. Later(c) = {}
  <2>1. SUFFICES ASSUME NEW d \in Later(c) PROVE FALSE
    OBVIOUS
  <2>2. d \in cs /\ Date[c] < Date[d] /\ Date[c] \in Nat /\ Date[d] \in Nat
    BY <1>1, <2>1
  <2>3. Later(d) \subseteq Later(c)
    BY <1>1, <2>2
  <2>4. d \notin Later(d)
    BY <2>2
  <2>5. Cardinality(Later(d)) <= Cardinality(Later(c)) /\ Cardinality(Later(d)) # Cardinality(Later(c))
    <3>1. Later(d) # Later(c)
      BY <2>1, <2>4
    <3>2. IsFiniteSet(Later(c))
      BY <1>2
    <3> HIDE DEF Later
    <3> QED
      BY <2>3, <3>1, <3>2, FS_Subset
  <2>6. m <= Cardinality(Later(d))
    BY <1>3, <2>2
  <2>7. Cardinality(Later(d)) \in Nat /\ Cardinality(Later(c)) \in Nat
    BY <1>2, <2>2
  <2> HIDE DEF Later, Sizes
  <2> QED
    BY <1>4, <2>5, <2>6, <2>7
<1>6. \A d \in cs : Date[d] <= Date[c]
  BY <1>1, <1>5
<1> QED
  BY <1>6 DEF Newest

----------------------------------------------------------------------------
\* The list of commits that the client may tell.
Rev == [list : SUBSET Commit, seen : SUBSET Commit, common : SUBSET Commit,
        popped : SUBSET Commit, ref : SUBSET Commit, non_common_revs : Int]

RevOK(r) == r \in Rev /\ r.list \subseteq r.seen /\ r.popped \subseteq r.seen

LEMMA CountOfCommits ==
  ASSUME NEW S \in SUBSET Commit
  PROVE  Cardinality(S) \in Nat
BY FS_Subset, FS_CardinalityType, FetchNegotiationAssumption DEF FetchNegotiationAssumption

LEMMA MarkedIn ==
  ASSUME parents \in [Commit -> SUBSET Commit], NEW r, NEW set \in SUBSET Commit
  PROVE  Marked(r, set) \in SUBSET Commit
BY WalkIn DEF Marked

\* rev_list_push() and mark_common() leave a list, and what is on it stays COMMON.
LEMMA PushOK ==
  ASSUME NEW r, RevOK(r), NEW set \in SUBSET Commit
  PROVE  /\ RevOK(rev_list_push(r, set))
         /\ rev_list_push(r, set).common = r.common
<1> DEFINE n == r.non_common_revs + Cardinality(set)
           s == [r EXCEPT !.list = @ \cup set, !.seen = @ \cup set, !.non_common_revs = n]
<1>1. r \in Rev /\ n \in Int
  BY CountOfCommits DEF RevOK, Rev
<1> HIDE DEF n
<1>2. s \in Rev
  BY <1>1 DEF Rev
<1>3. /\ s.list = r.list \cup set /\ s.seen = r.seen \cup set /\ s.popped = r.popped
      /\ s.common = r.common
  BY <1>1 DEF Rev
<1>4. rev_list_push(r, set) = s
  BY DEF rev_list_push, n
<1> HIDE DEF s
<1> QED
  BY <1>2, <1>3, <1>4 DEF RevOK

LEMMA MarkOK ==
  ASSUME parents \in [Commit -> SUBSET Commit], NEW r, RevOK(r), NEW set \in SUBSET Commit
  PROVE  /\ RevOK(mark_common(r, set))
         /\ r.list \subseteq r.common => mark_common(r, set).list \subseteq mark_common(r, set).common
<1> DEFINE marked == Marked(r, set)
<1>1. marked \in SUBSET Commit
  BY MarkedIn
<1>2. Uncounted(r, marked) \in Nat
  BY <1>1, CountOfCommits DEF Uncounted
<1> DEFINE n == r.non_common_revs - Uncounted(r, marked)
           s == [r EXCEPT !.list = @ \cup (marked \ r.seen), !.seen = @ \cup marked,
                          !.common = @ \cup marked, !.non_common_revs = n]
<1>3. mark_common(r, set) = s
  BY DEF mark_common
<1> HIDE DEF marked
<1>4. r \in Rev /\ n \in Int
  BY <1>2 DEF RevOK, Rev
<1> HIDE DEF n
<1>5. s \in Rev
  BY <1>1, <1>4 DEF Rev
<1>6. /\ s.list = r.list \cup (marked \ r.seen) /\ s.seen = r.seen \cup marked
      /\ s.common = r.common \cup marked /\ s.popped = r.popped
  BY <1>4 DEF Rev
<1> HIDE DEF s
<1> QED
  BY <1>3, <1>5, <1>6 DEF RevOK

\* So does a round of get_rev().
LEMMA PopOK ==
  ASSUME parents \in [Commit -> SUBSET Commit], NEW r, RevOK(r), r.list # {}
  PROVE  /\ RevOK(pop_rev(r))
         /\ r.list \subseteq r.common => pop_rev(r).list \subseteq pop_rev(r).common
<1> DEFINE c == Newest(r.list)
           stop == c \in r.common \cup r.ref
           new == parents[c] \ r.seen
           marked == IF stop THEN Marked(r, Above(r, parents[c])) ELSE {}
           left == r.list \cup new \cup (marked \ r.seen)
           less == Cardinality({c} \ r.common)
           counted == IF stop THEN 0 ELSE Cardinality(new)
<1>1. c \in r.list /\ c \in Commit /\ r.list \subseteq r.seen /\ r.popped \subseteq r.seen /\ r \in Rev
  BY NewestIn DEF RevOK, Rev
<1>2. new \in SUBSET Commit
  BY <1>1
<1>3. marked \in SUBSET Commit
  <2>1. Above(r, parents[c]) \in SUBSET Commit
    BY <1>1 DEF Above
  <2> QED
    BY <2>1, MarkedIn
<1>4. less \in Int /\ counted \in Int /\ Uncounted(r, marked) \in Int
  BY <1>1, <1>2, <1>3, CountOfCommits DEF Uncounted
<1> DEFINE n == r.non_common_revs - less - Uncounted(r, marked) + counted
           s == [r EXCEPT !.list = left \ {Newest(left)},
                          !.seen = @ \cup new \cup marked,
                          !.common = @ \cup marked \cup (IF stop THEN new ELSE {}),
                          !.popped = @ \cup {c},
                          !.non_common_revs = n]
<1>5. pop_rev(r) = s
  BY DEF pop_rev
<1>6. r.list \subseteq r.common => stop
  BY <1>1
<1>7. left \in SUBSET Commit
  BY <1>1, <1>2, <1>3 DEF Rev
<1>8. n \in Int
  BY <1>1, <1>4 DEF Rev
<1>9. left \subseteq r.list \cup new \cup marked
  OBVIOUS
<1> HIDE DEF c, stop, new, marked, left, n
<1>10. s \in Rev
  BY <1>1, <1>2, <1>3, <1>7, <1>8 DEF Rev
<1>11. /\ s.list \subseteq left /\ s.seen = r.seen \cup new \cup marked
       /\ s.common = r.common \cup marked \cup (IF stop THEN new ELSE {})
       /\ s.popped = r.popped \cup {c}
  BY <1>1 DEF Rev
<1> HIDE DEF s
<1>12. s.list \subseteq s.seen /\ s.popped \subseteq s.seen
  BY <1>1, <1>9, <1>11
<1>13. r.list \subseteq r.common => s.list \subseteq s.common
  BY <1>6, <1>9, <1>11
<1> QED
  BY <1>5, <1>10, <1>12, <1>13 DEF RevOK
----------------------------------------------------------------------------
\* The inductive invariant.  First, types.
AckLine == {"continue", "common", "ready"}
ToldLine == [kind : {"have"}, commit : Commit] \cup [kind : {"flush", "done"}, commit : {None}]
Reply == [kind : AckLine, commit : Commit]
         \cup [kind : {"ACK", "NAK", "pack"}, commit : Commit \cup {None}]

FixedOK ==
  /\ mode \in 0..2 /\ stateless \in BOOLEAN /\ no_done \in BOOLEAN
  /\ stateless => mode = 2
  /\ no_done => stateless
  /\ parents \in [Commit -> SUBSET Commit]
  /\ ours \in SUBSET Commit /\ theirs \in SUBSET Commit

ClientOK ==
  /\ phase \in {"local", "rev", "acks", "done", "final", "pack", "end"}
  /\ RevOK(rev) /\ refs \in SUBSET Commit
  /\ req \in Seq(Commit) /\ again \in Seq(Commit)
  /\ flushes \in Int /\ multi_ack \in 0..2 /\ found \in BOOLEAN
  /\ got \in [continue : BOOLEAN, ready : BOOLEAN]

Server_ == [they_have : SUBSET Commit, have_obj : SUBSET Commit, oldest_have : Nat,
            got_common : BOOLEAN, got_other : BOOLEAN, sent_ready : BOOLEAN,
            last : Commit \cup {None}]

ServerOK ==
  /\ running \in BOOLEAN
  /\ srv \in Server_
  /\ srv.have_obj \subseteq srv.they_have
  /\ srv.have_obj = {} => srv.they_have = {}
  /\ srv.got_common => srv.last # None
  /\ srv.sent_ready => srv.have_obj # {}

PipesOK == toServer \in Seq(ToldLine) /\ toClient \in Seq(Reply)

\* What the server may have said: nothing is acknowledged before there is something common, the
\* pack is last and, with multi_ack, follows the only ACK; without, no NAK follows an ACK.
Said ==
  /\ srv.have_obj = {} => \A i \in DOMAIN toClient : toClient[i].kind \in {"NAK", "pack"}
  /\ \A i \in DOMAIN toClient : toClient[i].kind = "pack" => i = Len(toClient) /\ ~running
  /\ mode # 0 => \A i \in DOMAIN toClient :
       toClient[i].kind = "ACK" => i + 1 = Len(toClient) /\ toClient[i + 1].kind = "pack"
  /\ mode = 0 => /\ \A i \in DOMAIN toClient : toClient[i].kind \notin AckLine
                 /\ \A i, j \in DOMAIN toClient :
                      i < j => ~(toClient[i].kind = "ACK" /\ toClient[j].kind = "NAK")

\* Without multi_ack the client has read an ACK.
Plain == mode = 0 /\ found

NoNakLeft == Plain => srv.have_obj # {} /\ ~Has("NAK", toClient)

BeforeDone == {"local", "rev", "acks", "done"}

\* No more answers to flushes are to come or are there than the client counts; one more at the end,
\* if it counts.
FlushesCounted ==
  /\ phase \in BeforeDone /\ ~Plain => Lines("flush", toServer) + Lines("NAK", toClient) <= flushes
  /\ phase = "final" /\ ~Plain /\ multi_ack = 0 =>
       Lines("flush", toServer) + Lines("NAK", toClient)
         + (IF running \/ srv.have_obj # {} THEN 1 ELSE 0) <= flushes

\* What the client knows of the mode and of a server that is ready.
Asked ==
  /\ phase \in BeforeDone => ~Has("done", toServer)
  /\ phase \in BeforeDone /\ mode # 0 => multi_ack = mode
  /\ phase \in BeforeDone /\ mode # 0 /\ ~stateless => ~Has("ACK", toClient)
  /\ mode = 0 => multi_ack = 0
  /\ got.ready => found /\ phase # "local" /\ rev.list \subseteq rev.common

\* What is left of the answers to a request when the client has read their NAK.
Leftover == /\ got.ready /\ no_done
            /\ Len(toClient) = 2 /\ toClient[1].kind = "ACK" /\ toClient[2].kind = "pack"

\* The server is ready, and the client has read it or will, in one of n lines.
SaidReady(n) == got.ready \/ \E i \in 1..n : toClient[i].kind = "ready"

\* A request has been answered, with the NAK in line n.
Answered(n) ==
  /\ toServer = <<>> /\ ~running
  /\ n \in DOMAIN toClient /\ toClient[n].kind = "NAK"
  /\ \A i \in 1..(n - 1) : toClient[i].kind \in AckLine
  /\ \/ Len(toClient) = n
     \/ /\ no_done /\ SaidReady(n - 1)
        /\ Len(toClient) = n + 2
        /\ toClient[n + 1].kind = "ACK" /\ toClient[n + 2].kind = "pack"

\* It is being answered.
Answering ==
  /\ running /\ toServer # <<>>
  /\ \A i \in DOMAIN toServer : toServer[i].kind = IF i = Len(toServer) THEN "flush" ELSE "have"
  /\ \A i \in DOMAIN toClient : toClient[i].kind \in AckLine
  /\ srv.sent_ready => SaidReady(Len(toClient))

Request ==
  stateless =>
    /\ phase \in {"local", "rev", "done"} => toServer = <<>> /\ (toClient = <<>> \/ Leftover)
    /\ phase = "acks" => Answering \/ \E n \in DOMAIN toClient : Answered(n)

AtPack ==
  phase \in {"pack", "end"} =>
    /\ mode # 0 => ~running /\ \A i \in DOMAIN toClient : toClient[i].kind = "pack"
    /\ mode = 0 => /\ \A i \in DOMAIN toClient : toClient[i].kind \in {"ACK", "pack"}
                   /\ running => srv.have_obj # {}

FetchIInv == /\ FixedOK /\ ClientOK /\ ServerOK /\ PipesOK
             /\ Said /\ NoNakLeft /\ FlushesCounted /\ Asked /\ Request /\ AtPack

----------------------------------------------------------------------------
\* What the client sends.

LEMMA HavesOK ==
  ASSUME NEW cs \in Seq(Commit)
  PROVE  /\ Haves(cs) \in Seq(ToldLine) /\ Len(Haves(cs)) = Len(cs)
         /\ \A i \in DOMAIN Haves(cs) : Haves(cs)[i].kind = "have"
<1>1. Haves(cs) = [i \in 1..Len(cs) |-> [kind |-> "have", commit |-> cs[i]]]
  BY DEF Haves
<1>2. \A i \in 1..Len(cs) : [kind |-> "have", commit |-> cs[i]] \in ToldLine
  BY DEF ToldLine
<1>3. Haves(cs) \in [1..Len(cs) -> ToldLine]
  BY <1>1, <1>2
<1>4. Haves(cs) \in Seq(ToldLine) /\ Len(Haves(cs)) = Len(cs)
  BY <1>3
<1> QED
  BY <1>1, <1>4

\* Commits and a line at the end.
LEMMA RequestOK ==
  ASSUME NEW cs \in Seq(Commit), NEW k \in {"flush", "done"}
  PROVE  /\ Append(Haves(cs), Line(k)) \in Seq(ToldLine)
         /\ Append(Haves(cs), Line(k)) # <<>>
         /\ \A i \in DOMAIN Append(Haves(cs), Line(k)) :
              Append(Haves(cs), Line(k))[i].kind =
                IF i = Len(Append(Haves(cs), Line(k))) THEN k ELSE "have"
<1>1. Line(k) \in ToldLine /\ Line(k).kind = k
  BY DEF Line, ToldLine
<1>2. Haves(cs) \in Seq(ToldLine) /\ \A i \in DOMAIN Haves(cs) : Haves(cs)[i].kind = "have"
  BY HavesOK
<1> QED
  BY <1>1, <1>2

\* A request that begins with what is told again.
LEMMA AgainOK ==
  ASSUME NEW first \in Seq(Commit), NEW cs \in Seq(Commit), NEW k \in {"flush", "done"}
  PROVE  LET lines == Haves(first) \o Append(Haves(cs), Line(k))
         IN  /\ lines \in Seq(ToldLine) /\ lines # <<>>
             /\ \A i \in DOMAIN lines : lines[i].kind = IF i = Len(lines) THEN k ELSE "have"
<1> DEFINE h == Haves(first)
           r == Append(Haves(cs), Line(k))
<1>1. h \in Seq(ToldLine) /\ \A i \in DOMAIN h : h[i].kind = "have"
  BY HavesOK
<1>2. r \in Seq(ToldLine) /\ r # <<>>
      /\ \A i \in DOMAIN r : r[i].kind = IF i = Len(r) THEN k ELSE "have"
  BY RequestOK
<1> HIDE DEF h, r
<1>3. h \o r \in Seq(ToldLine) /\ h \o r # <<>> /\ Len(h \o r) = Len(h) + Len(r)
  BY <1>1, <1>2
<1>4. ASSUME NEW i \in DOMAIN (h \o r)
      PROVE  (h \o r)[i].kind = IF i = Len(h \o r) THEN k ELSE "have"
  <2>1. CASE i \in DOMAIN h
    <3>1. (h \o r)[i] = h[i] /\ i # Len(h \o r)
      BY <1>1, <1>2, <1>3, <2>1
    <3> QED
      BY <1>1, <2>1, <3>1
  <2>2. CASE i \notin DOMAIN h
    <3>1. i - Len(h) \in DOMAIN r /\ (h \o r)[i] = r[i - Len(h)]
      BY <1>1, <1>2, <2>2, Added
    <3>2. i - Len(h) = Len(r) <=> i = Len(h \o r)
      <4>1. i \in Int /\ Len(h) \in Nat /\ Len(r) \in Nat /\ Len(h \o r) = Len(h) + Len(r)
        BY <1>1, <1>2, <1>3
      <4> QED
        BY <4>1
    <3> QED
      BY <1>2, <3>1, <3>2
  <2> QED
    BY <2>1, <2>2
<1>5. h \o r = Haves(first) \o Append(Haves(cs), Line(k))
  BY DEF h, r
<1> QED
  BY <1>3, <1>4, <1>5

\* In lines of which only the last is no have, there is that one.
LEMMA LinesOfRequest ==
  ASSUME NEW s \in Seq(ToldLine), s # <<>>, NEW k \in {"flush", "done"},
         \A i \in DOMAIN s : s[i].kind = IF i = Len(s) THEN k ELSE "have"
  PROVE  /\ Lines("flush", s) = IF k = "flush" THEN 1 ELSE 0
         /\ Has("done", s) <=> k = "done"
<1>1. Len(s) \in DOMAIN s
  OBVIOUS
<1>2. CASE k = "flush"
  <2>1. {i \in DOMAIN s : s[i].kind = "flush"} = {Len(s)}
    BY <1>1, <1>2
  <2>2. Lines("flush", s) = 1
    BY <2>1, FS_Singleton DEF Lines
  <2> QED
    BY <1>2, <2>2 DEF Has
<1>3. CASE k = "done"
  <2>1. {i \in DOMAIN s : s[i].kind = "flush"} = {}
    BY <1>3
  <2>2. Lines("flush", s) = 0
    BY <2>1, FS_EmptySet DEF Lines
  <2> QED
    BY <1>1, <1>3, <2>2 DEF Has
<1> QED
  BY <1>2, <1>3

----------------------------------------------------------------------------
LEMMA LinesOfNone ==
  ASSUME NEW k
  PROVE  Lines(k, <<>>) = 0 /\ ~Has(k, <<>>)
<1>1. {i \in DOMAIN <<>> : <<>>[i].kind = k} = {}
  OBVIOUS
<1> QED
  BY <1>1, FS_EmptySet DEF Lines, Has

LEMMA FetchInitially ==
  FetchInit => FetchIInv
<1> SUFFICES ASSUME FetchInit PROVE FetchIInv
  OBVIOUS
<1> USE FetchNegotiationAssumption DEF FetchNegotiationAssumption
<1>1. FixedOK
  <2>1. mode \in 0..2 /\ stateless \in {Http /\ mode = 2, FALSE} /\ no_done \in {stateless, FALSE}
    BY DEF FetchInit
  <2>2. /\ stateless \in BOOLEAN /\ no_done \in BOOLEAN
        /\ stateless => mode = 2
        /\ no_done => stateless
    <3>1. stateless = (Http /\ mode = 2) \/ stateless = FALSE
      BY <2>1
    <3>2. no_done = stateless \/ no_done = FALSE
      BY <2>1
    <3>3. stateless \in BOOLEAN /\ (stateless => mode = 2)
      BY <3>1, Zenon
    <3>4. no_done \in BOOLEAN /\ (no_done => stateless)
      <4>1. CASE no_done = stateless
        BY <3>3, <4>1
      <4>2. CASE no_done = FALSE
        BY <4>2
      <4> QED
        BY <3>2, <4>1, <4>2
    <3> QED
      BY <3>3, <3>4
  <2>3. parents \in Histories /\ ours \in Tips /\ theirs \in Tips
    BY DEF FetchInit
  <2>4. /\ parents \in [Commit -> SUBSET Commit]
        /\ ours \in SUBSET Commit /\ theirs \in SUBSET Commit
    BY <2>3
  <2> QED
    BY <2>1, <2>2, <2>4 DEF FixedOK
<1>2. ClientOK
  <2>1. RevOK(rev)
    BY DEF FetchInit, RevOK, Rev
  <2>2. refs \in SUBSET Commit
    BY <1>1 DEF FetchInit, FixedOK
  <2> QED
    <3>1. /\ phase = "local" /\ req = <<>> /\ again = <<>> /\ flushes = 0 /\ multi_ack = mode
          /\ found = FALSE /\ got = [continue |-> FALSE, ready |-> FALSE]
      BY DEF FetchInit
    <3> QED
      <4>1. got \in [continue : BOOLEAN, ready : BOOLEAN] /\ found \in BOOLEAN
        BY <3>1
      <4>2. req \in Seq(Commit) /\ again \in Seq(Commit) /\ flushes \in Int /\ multi_ack \in 0..2
        BY <1>1, <3>1 DEF FixedOK
      <4> QED
        BY <2>1, <2>2, <3>1, <4>1, <4>2 DEF ClientOK
<1>3. ServerOK
  BY DEF FetchInit, ServerOK, Server_, NewServer
<1>4. PipesOK
  BY DEF FetchInit, PipesOK
<1>5. Said
  BY DEF FetchInit, Said
<1>6. NoNakLeft
  BY DEF FetchInit, NoNakLeft, Plain
<1>7. FlushesCounted
  BY LinesOfNone DEF FetchInit, FlushesCounted
<1>8. Asked
  BY LinesOfNone DEF FetchInit, Asked
<1>9. Request /\ AtPack
  BY DEF FetchInit, Request, AtPack
<1> QED
  BY <1>1, <1>2, <1>3, <1>4, <1>5, <1>6, <1>7, <1>8, <1>9 DEF FetchIInv

\* The client looks at commits: nothing goes through the pipes.
LEMMA FetchQuiet ==
  ASSUME FetchIInv, RevOK(rev'), refs' \in SUBSET Commit,
         phase \in {"local", "rev", "done"}, phase' \in {"local", "rev", "done"},
         phase' = "local" => phase = "local",
         got.ready => rev'.list \subseteq rev'.common,
         UNCHANGED <<fixed, req, again, counters, answers, ToServer, toClient>>
  PROVE  FetchIInv'
<1>1. /\ UNCHANGED <<mode, stateless, no_done, parents, ours, theirs>>
      /\ UNCHANGED <<req, again, flushes, got, found, multi_ack, running, srv, toServer, toClient>>
  BY DEF fixed, counters, answers, ToServer
<1>2. FixedOK' /\ ServerOK' /\ PipesOK'
  BY <1>1 DEF FetchIInv, FixedOK, ServerOK, PipesOK
<1>3. ClientOK'
  BY <1>1 DEF FetchIInv, ClientOK
<1>4. Said'
  BY <1>1 DEF FetchIInv, Said
<1>5. NoNakLeft'
  BY <1>1 DEF FetchIInv, NoNakLeft, Plain, Has
<1>6. FlushesCounted'
  BY <1>1 DEF FetchIInv, FlushesCounted, BeforeDone, Plain, Lines
<1>7. Asked'
  BY <1>1 DEF FetchIInv, Asked, BeforeDone, Has
<1>8. Request' /\ AtPack'
  BY <1>1 DEF FetchIInv, Request, AtPack, Leftover
<1> QED
  BY <1>2, <1>3, <1>4, <1>5, <1>6, <1>7, <1>8 DEF FetchIInv

LEMMA LocalRefStep ==
  ASSUME FetchIInv, NEW c \in Commit, LocalRef(c)
  PROVE  FetchIInv'
<1>1. RevOK(rev') /\ refs' \in SUBSET Commit /\ ~got.ready
  <2>1. refs' \in SUBSET Commit /\ ~got.ready
    BY DEF FetchIInv, ClientOK, Asked, LocalRef
  <2>2. CASE c \in rev.seen
    BY <2>1, <2>2 DEF FetchIInv, ClientOK, LocalRef
  <2>3. CASE c \notin rev.seen
    <3> DEFINE r == [rev EXCEPT !.ref = @ \cup {c}]
    <3>1. RevOK(r)
      BY DEF FetchIInv, ClientOK, RevOK, Rev
    <3> HIDE DEF r
    <3>2. RevOK(rev_list_push(r, {c}))
      BY <3>1, PushOK
    <3>3. parents \in [Commit -> SUBSET Commit] /\ parents[c] \in SUBSET Commit
      BY DEF FetchIInv, FixedOK
    <3>4. RevOK(mark_common(rev_list_push(r, {c}), parents[c]))
      BY <3>2, <3>3, MarkOK
    <3> QED
      BY <2>1, <2>3, <3>4 DEF LocalRef, r
  <2> QED
    BY <2>2, <2>3
<1> QED
  BY <1>1, FetchQuiet DEF LocalRef

LEMMA FindCommonStep ==
  ASSUME FetchIInv, FindCommon
  PROVE  FetchIInv'
<1>1. RevOK(rev') /\ ~got.ready
  BY PushOK DEF FetchIInv, FixedOK, ClientOK, Asked, FindCommon
<1>2. refs' \in SUBSET Commit
  BY DEF FetchIInv, ClientOK, FindCommon
<1> QED
  BY <1>1, <1>2, FetchQuiet DEF FindCommon

LEMMA SkipStep ==
  ASSUME FetchIInv, Skip
  PROVE  FetchIInv'
<1>1. RevOK(rev') /\ (got.ready => rev'.list \subseteq rev'.common)
  BY PopOK DEF FetchIInv, FixedOK, ClientOK, Asked, Skip, NoMoreRevs
<1>2. refs' \in SUBSET Commit
  BY DEF FetchIInv, ClientOK, Skip
<1> QED
  BY <1>1, <1>2, FetchQuiet DEF Skip

LEMMA NoRevStep ==
  ASSUME FetchIInv, NoRev
  PROVE  FetchIInv'
<1>1. /\ RevOK(rev') /\ (got.ready => rev'.list \subseteq rev'.common)
      /\ refs' \in SUBSET Commit
  BY DEF FetchIInv, ClientOK, Asked, NoRev
<1> QED
  BY <1>1, FetchQuiet DEF NoRev

----------------------------------------------------------------------------
LEMMA HasAdded ==
  ASSUME NEW S, NEW s \in Seq(S), NEW t \in Seq(S), NEW k
  PROVE  Has(k, s \o t) <=> Has(k, s) \/ Has(k, t)
<1>1. s \o t \in Seq(S)
  BY Added
<1>2. Lines(k, s \o t) = Lines(k, s) + Lines(k, t)
  BY LinesAdded
<1>3. /\ Lines(k, s) \in Nat /\ Lines(k, t) \in Nat
      /\ Has(k, s) <=> Lines(k, s) # 0
      /\ Has(k, t) <=> Lines(k, t) # 0
      /\ Has(k, s \o t) <=> Lines(k, s \o t) # 0
  BY <1>1, FiniteLines
<1> QED
  BY <1>2, <1>3

\* What a request, or more of what is sent in one connection, does: there is one line more that is no
\* have.
LEMMA Sent ==
  ASSUME FetchIInv, NEW cs \in Seq(Commit), NEW k \in {"flush", "done"},
         Send(Append(Haves(cs), Line(k))), stateless => toClient = <<>>,
         toClient' = toClient, mode' = mode, found' = found
  PROVE  /\ ServerOK' /\ Said' /\ NoNakLeft'
         /\ toServer' \in Seq(ToldLine)
         /\ Lines("flush", toServer')
              <= (IF stateless THEN 0 ELSE Lines("flush", toServer)) + (IF k = "flush" THEN 1 ELSE 0)
         /\ Has("done", toServer') => k = "done" \/ Has("done", toServer)
         /\ stateless =>
              /\ running' = TRUE /\ ~srv'.sent_ready /\ toServer' # <<>>
              /\ \A i \in DOMAIN toServer' :
                   toServer'[i].kind = IF i = Len(toServer') THEN k ELSE "have"
<1> DEFINE r == Append(Haves(cs), Line(k))
<1>1. /\ r \in Seq(ToldLine) /\ r # <<>>
      /\ \A i \in DOMAIN r : r[i].kind = IF i = Len(r) THEN k ELSE "have"
  BY RequestOK
<1> HIDE DEF r
<1>2. /\ Lines("flush", r) = IF k = "flush" THEN 1 ELSE 0
      /\ Has("done", r) <=> k = "done"
  BY <1>1, LinesOfRequest
<1>3. CASE stateless
  <2>1. /\ toServer' = Haves(again) \o Append(Haves(cs), Line(k))
        /\ running' = TRUE /\ srv' = NewServer
    BY <1>3 DEF Send
  <2>2. again \in Seq(Commit)
    BY DEF FetchIInv, ClientOK
  <2>3. /\ toServer' \in Seq(ToldLine) /\ toServer' # <<>>
        /\ \A i \in DOMAIN toServer' : toServer'[i].kind = IF i = Len(toServer') THEN k ELSE "have"
    BY <2>1, <2>2, AgainOK
  <2>4. /\ Lines("flush", toServer') = IF k = "flush" THEN 1 ELSE 0
        /\ Has("done", toServer') <=> k = "done"
    BY <2>3, LinesOfRequest
  <2>5. ServerOK' /\ ~srv'.sent_ready
    BY <2>1 DEF ServerOK, Server_, NewServer
  <2>6. mode = 2 /\ toClient = <<>>
    BY <1>3 DEF FetchIInv, FixedOK
  <2>7. Said' /\ NoNakLeft'
    BY <2>6 DEF Said, NoNakLeft, Plain
  <2> QED
    BY <1>3, <2>1, <2>3, <2>4, <2>5, <2>7
<1>4. CASE ~stateless
  <2>1. toServer' = toServer \o r /\ UNCHANGED <<running, srv>>
    BY <1>4 DEF Send, r
  <2>2. toServer \in Seq(ToldLine)
    BY DEF FetchIInv, PipesOK
  <2>3. toServer' \in Seq(ToldLine) /\ Lines("flush", toServer') = Lines("flush", toServer) + Lines("flush", r)
    BY <1>1, <2>1, <2>2, LinesAdded
  <2>4. Has("done", toServer') <=> Has("done", toServer) \/ Has("done", r)
    BY <1>1, <2>1, <2>2, HasAdded
  <2>5. ServerOK'
    BY <2>1 DEF FetchIInv, ServerOK
  <2>6. Said' /\ NoNakLeft'
    BY <2>1 DEF FetchIInv, Said, NoNakLeft, Plain, Has
  <2>7. Lines("flush", toServer) \in Nat
    BY <2>2, FiniteLines
  <2> QED
    BY <1>2, <1>4, <2>3, <2>4, <2>5, <2>6, <2>7
<1> QED
  BY <1>3, <1>4

\* After the server was ready, no commit is left to tell.
LEMMA NotReady ==
  ASSUME FetchIInv, Have
  PROVE  ~got.ready
<1>1. rev.list # {} /\ rev.list \in SUBSET Commit /\ Newest(rev.list) \notin rev.common
  BY DEF FetchIInv, ClientOK, RevOK, Rev, Have, NoMoreRevs
<1>2. Newest(rev.list) \in rev.list
  BY <1>1, NewestIn
<1> QED
  BY <1>1, <1>2 DEF FetchIInv, Asked

LEMMA HaveStep ==
  ASSUME FetchIInv, Have
  PROVE  FetchIInv'
<1> DEFINE told == Append(req, Newest(rev.list))
<1>1. ~got.ready
  BY NotReady
<1>2. /\ UNCHANGED <<mode, stateless, no_done, parents, ours, theirs>>
      /\ UNCHANGED <<refs, again, got, found, multi_ack, toClient>>
      /\ phase = "rev"
  BY DEF Have, fixed, answers
<1>3. stateless => toServer = <<>> /\ toClient = <<>>
  BY <1>1, <1>2 DEF FetchIInv, Request, Leftover
<1>4. FixedOK'
  BY <1>2 DEF FetchIInv, FixedOK
<1>5. RevOK(rev') /\ told \in Seq(Commit)
  <2>1. rev.list # {} /\ rev.list \in SUBSET Commit /\ RevOK(rev) /\ rev' = pop_rev(rev)
    BY DEF FetchIInv, ClientOK, RevOK, Rev, Have, NoMoreRevs
  <2>2. Newest(rev.list) \in Commit /\ req \in Seq(Commit)
    BY <2>1, NewestIn DEF FetchIInv, ClientOK
  <2>3. parents \in [Commit -> SUBSET Commit]
    BY DEF FetchIInv, FixedOK
  <2> QED
    BY <2>1, <2>2, <2>3, PopOK
<1>6. CASE flush_at <= count'
  <2>1. /\ Send(Append(Haves(told), Line("flush"))) /\ req' = <<>> /\ flushes' = flushes + 1
        /\ phase' = IF ~stateless /\ count' = INITIAL_FLUSH THEN "rev" ELSE "acks"
    BY <1>6 DEF Have
  <2> HIDE DEF told
  <2>2. /\ ServerOK' /\ Said' /\ NoNakLeft' /\ toServer' \in Seq(ToldLine)
        /\ Lines("flush", toServer') <= (IF stateless THEN 0 ELSE Lines("flush", toServer)) + 1
        /\ Has("done", toServer') => Has("done", toServer)
        /\ stateless => /\ running' = TRUE /\ ~srv'.sent_ready /\ toServer' # <<>>
                        /\ \A i \in DOMAIN toServer' :
                             toServer'[i].kind = IF i = Len(toServer') THEN "flush" ELSE "have"
    BY <1>2, <1>3, <1>5, <2>1, Sent
  <2>3. ClientOK' /\ PipesOK'
    BY <1>2, <1>5, <2>1, <2>2 DEF FetchIInv, ClientOK, PipesOK
  <2>4. FlushesCounted'
    <3>1. phase' \in BeforeDone /\ phase' # "final"
      BY <2>1 DEF BeforeDone
    <3>2. ~Plain => Lines("flush", toServer) + Lines("NAK", toClient) <= flushes
      BY <1>2 DEF FetchIInv, FlushesCounted, BeforeDone
    <3>3. /\ Lines("flush", toServer) \in Nat /\ Lines("NAK", toClient) \in Nat /\ flushes \in Int
          /\ Lines("flush", toServer') \in Nat
      BY <2>2, FiniteLines DEF FetchIInv, PipesOK, ClientOK
    <3>4. Plain' = Plain
      BY <1>2 DEF Plain
    <3>5. ~Plain => Lines("flush", toServer') + Lines("NAK", toClient) <= flushes + 1
      BY <2>2, <3>2, <3>3
    <3> QED
      BY <1>2, <2>1, <3>1, <3>4, <3>5 DEF FlushesCounted
  <2>5. Asked'
    BY <1>1, <1>2, <2>1, <2>2 DEF FetchIInv, Asked, BeforeDone
  <2>6. Request'
    <3>1. ASSUME stateless PROVE phase' = "acks" /\ Answering'
      BY <1>2, <1>3, <2>1, <2>2, <3>1 DEF Answering
    <3> QED
      BY <1>2, <3>1 DEF Request
  <2>7. AtPack'
    BY <2>1 DEF AtPack
  <2> QED
    BY <1>4, <2>2, <2>3, <2>4, <2>5, <2>6, <2>7 DEF FetchIInv
<1>7. CASE ~(flush_at <= count')
  <2>1. req' = told /\ UNCHANGED <<phase, flushes, running, srv, toServer>>
    BY <1>7 DEF Have, ToServer
  <2> HIDE DEF told
  <2>2. ClientOK' /\ ServerOK' /\ PipesOK'
    BY <1>2, <1>5, <2>1 DEF FetchIInv, ClientOK, ServerOK, PipesOK
  <2>3. Said' /\ NoNakLeft'
    BY <1>2, <2>1 DEF FetchIInv, Said, NoNakLeft, Plain, Has
  <2>4. FlushesCounted' /\ Asked'
    BY <1>1, <1>2, <2>1 DEF FetchIInv, FlushesCounted, Asked, BeforeDone, Plain, Lines, Has
  <2>5. Request' /\ AtPack'
    BY <1>2, <1>3, <2>1 DEF Request, AtPack
  <2> QED
    BY <1>4, <2>2, <2>3, <2>4, <2>5 DEF FetchIInv
<1> QED
  BY <1>6, <1>7

LEMMA DoneStep ==
  ASSUME FetchIInv, Done
  PROVE  FetchIInv'
<1>1. /\ UNCHANGED <<mode, stateless, no_done, parents, ours, theirs>>
      /\ UNCHANGED <<refs, rev, req, again, got, found, toClient>>
      /\ phase = "done" /\ phase' = "final"
      /\ flushes' = flushes + extra_flush
      /\ multi_ack' = IF found THEN multi_ack ELSE 0
  BY DEF Done, fixed
<1>2. FixedOK' /\ ClientOK'
  BY <1>1 DEF FetchIInv, FixedOK, ClientOK, extra_flush
<1>3. Asked'
  BY <1>1 DEF FetchIInv, Asked, BeforeDone
<1>4. Request' /\ AtPack'
  BY <1>1 DEF Request, AtPack
<1>5. CASE got.ready /\ no_done
  <2>1. UNCHANGED <<running, srv, toServer>>
    BY <1>5 DEF Done, ToServer
  <2>2. ServerOK' /\ PipesOK'
    BY <1>1, <2>1 DEF FetchIInv, ServerOK, PipesOK
  <2>3. Said' /\ NoNakLeft'
    BY <1>1, <2>1 DEF FetchIInv, Said, NoNakLeft, Plain, Has
  <2>4. multi_ack' = 2
    BY <1>1, <1>5 DEF FetchIInv, FixedOK, Asked, BeforeDone
  <2>5. FlushesCounted'
    BY <1>1, <2>4 DEF FlushesCounted, BeforeDone
  <2> QED
    BY <1>2, <1>3, <1>4, <2>2, <2>3, <2>5 DEF FetchIInv
<1>6. CASE ~(got.ready /\ no_done)
  <2>1. Send(Append(Haves(req), Line("done")))
    BY <1>6 DEF Done
  <2>2. stateless => toClient = <<>>
    BY <1>1, <1>6 DEF FetchIInv, Request, Leftover
  <2>3. req \in Seq(Commit)
    BY DEF FetchIInv, ClientOK
  <2>4. /\ ServerOK' /\ Said' /\ NoNakLeft' /\ toServer' \in Seq(ToldLine)
        /\ Lines("flush", toServer') <= (IF stateless THEN 0 ELSE Lines("flush", toServer))
    <3>1. Lines("flush", toServer) \in Nat
      BY FiniteLines DEF FetchIInv, PipesOK
    <3>2. toServer' \in Seq(ToldLine)
      BY <1>1, <2>1, <2>2, <2>3, Sent
    <3>3. Lines("flush", toServer') \in Nat
      BY <3>2, FiniteLines
    <3>4. /\ ServerOK' /\ Said' /\ NoNakLeft'
          /\ Lines("flush", toServer')
               <= (IF stateless THEN 0 ELSE Lines("flush", toServer))
                    + (IF "done" = "flush" THEN 1 ELSE 0)
      BY <1>1, <2>1, <2>2, <2>3, Sent
    <3> QED
      BY <3>1, <3>2, <3>3, <3>4
  <2>5. PipesOK'
    BY <1>1, <2>4 DEF FetchIInv, PipesOK
  <2>6. FlushesCounted'
    <3>1. SUFFICES ASSUME ~Plain, multi_ack' = 0
                   PROVE  Lines("flush", toServer') + Lines("NAK", toClient)
                            + (IF running' \/ srv'.have_obj # {} THEN 1 ELSE 0) <= flushes'
      BY <1>1 DEF FlushesCounted, BeforeDone, Plain
    <3>2. ~found
      BY <1>1, <3>1 DEF FetchIInv, FixedOK, Asked, BeforeDone, Plain
    <3>3. flushes' = flushes + 1
      BY <1>1, <3>2 DEF extra_flush
    <3>4. Lines("flush", toServer) + Lines("NAK", toClient) <= flushes
      BY <1>1, <3>1 DEF FetchIInv, FlushesCounted, BeforeDone
    <3>5. /\ Lines("flush", toServer) \in Nat /\ Lines("NAK", toClient) \in Nat /\ flushes \in Int
          /\ Lines("flush", toServer') \in Nat
      BY <2>4, FiniteLines DEF FetchIInv, PipesOK, ClientOK
    <3> QED
      BY <2>4, <3>3, <3>4, <3>5
  <2> QED
    BY <1>2, <1>3, <1>4, <2>4, <2>5, <2>6 DEF FetchIInv
<1> QED
  BY <1>5, <1>6

----------------------------------------------------------------------------
\* The client reads a line.
LEMMA Read ==
  ASSUME FetchIInv, NEW kinds, Reads(kinds), UNCHANGED <<mode, running, srv, toServer>>
  PROVE  /\ ServerOK' /\ PipesOK' /\ Said'
         /\ toClient \in Seq(Reply) /\ toClient # <<>> /\ toClient' = Tail(toClient)
         /\ toClient[1] = Head(toClient) /\ toClient[1].kind \in kinds /\ toClient[1] \in Reply
         /\ 1 \in DOMAIN toClient /\ Len(toClient') = Len(toClient) - 1
         /\ \A i \in DOMAIN toClient' : i + 1 \in DOMAIN toClient /\ toClient'[i] = toClient[i + 1]
         /\ \A i \in DOMAIN toClient : i # 1 => /\ i - 1 \in DOMAIN toClient'
                                                /\ toClient[i] = toClient'[i - 1]
         /\ Lines("NAK", toClient)
              = Lines("NAK", toClient') + (IF toClient[1].kind = "NAK" THEN 1 ELSE 0)
         /\ Lines("NAK", toClient') \in Nat /\ Lines("flush", toServer) \in Nat
         /\ Has("NAK", toClient') => Has("NAK", toClient)
         /\ Has("ACK", toClient') => Has("ACK", toClient)
<1>1. /\ toClient \in Seq(Reply) /\ toClient # <<>> /\ toClient' = Tail(toClient)
      /\ Head(toClient).kind \in kinds /\ toServer \in Seq(ToldLine)
  BY DEF FetchIInv, PipesOK, Reads
<1>2. /\ toClient' \in Seq(Reply)
      /\ toClient[1] = Head(toClient) /\ toClient[1].kind \in kinds /\ toClient[1] \in Reply
      /\ 1 \in DOMAIN toClient /\ Len(toClient') = Len(toClient) - 1
      /\ \A i \in DOMAIN toClient' : i + 1 \in DOMAIN toClient /\ toClient'[i] = toClient[i + 1]
      /\ \A i \in DOMAIN toClient : i # 1 => /\ i - 1 \in DOMAIN toClient'
                                             /\ toClient[i] = toClient'[i - 1]
  BY <1>1, Rest
<1>3. /\ Lines("NAK", toClient)
           = Lines("NAK", toClient') + (IF toClient[1].kind = "NAK" THEN 1 ELSE 0)
      /\ Lines("NAK", toClient') \in Nat /\ Lines("flush", toServer) \in Nat
  <2>1. Lines("NAK", toClient)
          = Lines("NAK", Tail(toClient)) + (IF Head(toClient).kind = "NAK" THEN 1 ELSE 0)
    BY <1>1, LinesOfRest
  <2>2. Lines("NAK", toClient') = Lines("NAK", Tail(toClient))
    BY <1>1
  <2>3. Lines("NAK", toClient') \in Nat
    BY <1>2, FiniteLines
  <2>4. Lines("flush", toServer) \in Nat
    BY <1>1, FiniteLines
  <2> QED
    BY <1>2, <2>1, <2>2, <2>3, <2>4
<1>4. \A k : Has(k, toClient') => Has(k, toClient)
  BY <1>2 DEF Has
<1>5. ServerOK' /\ PipesOK'
  BY <1>1, <1>2 DEF FetchIInv, ServerOK, PipesOK
<1>6. Said'
  <2>1. srv'.have_obj = {} => \A i \in DOMAIN toClient' : toClient'[i].kind \in {"NAK", "pack"}
    BY <1>2 DEF FetchIInv, Said
  <2>2. \A i \in DOMAIN toClient' : toClient'[i].kind = "pack" => i = Len(toClient') /\ ~running'
    <3> TAKE i \in DOMAIN toClient'
    <3>1. i + 1 \in DOMAIN toClient /\ toClient'[i] = toClient[i + 1]
      BY <1>2
    <3>2. toClient[i + 1].kind = "pack" => i + 1 = Len(toClient) /\ ~running
      BY <3>1 DEF FetchIInv, Said
    <3>3. i \in Nat /\ Len(toClient) \in Nat
      BY <1>1, <1>2
    <3> QED
      BY <1>2, <3>1, <3>2, <3>3
  <2>3. mode' # 0 => \A i \in DOMAIN toClient' :
          toClient'[i].kind = "ACK" => i + 1 = Len(toClient') /\ toClient'[i + 1].kind = "pack"
    <3> SUFFICES ASSUME mode # 0, NEW i \in DOMAIN toClient', toClient'[i].kind = "ACK"
                 PROVE  i + 1 = Len(toClient') /\ toClient'[i + 1].kind = "pack"
      OBVIOUS
    <3>1. i + 1 \in DOMAIN toClient /\ toClient'[i] = toClient[i + 1]
      BY <1>2
    <3>2. (i + 1) + 1 = Len(toClient) /\ toClient[(i + 1) + 1].kind = "pack"
      BY <3>1 DEF FetchIInv, Said
    <3>3. i \in Nat /\ Len(toClient) \in Nat
      BY <1>1, <1>2
    <3>4. i + 1 = Len(toClient')
      BY <1>2, <3>2, <3>3
    <3>5. i + 1 \in DOMAIN toClient'
      BY <1>2, <3>3, <3>4
    <3> QED
      BY <1>2, <3>2, <3>4, <3>5
  <2>4. mode' = 0 => \A i \in DOMAIN toClient' : toClient'[i].kind \notin AckLine
    BY <1>2 DEF FetchIInv, Said
  <2>5. mode' = 0 => \A i, j \in DOMAIN toClient' :
                       i < j => ~(toClient'[i].kind = "ACK" /\ toClient'[j].kind = "NAK")
    <3> SUFFICES ASSUME mode = 0, NEW i \in DOMAIN toClient', NEW j \in DOMAIN toClient', i < j
                 PROVE  ~(toClient'[i].kind = "ACK" /\ toClient'[j].kind = "NAK")
      OBVIOUS
    <3>1. /\ i + 1 \in DOMAIN toClient /\ toClient'[i] = toClient[i + 1]
          /\ j + 1 \in DOMAIN toClient /\ toClient'[j] = toClient[j + 1]
      BY <1>2
    <3>2. i + 1 < j + 1
      BY <1>2
    <3> QED
      BY <3>1, <3>2 DEF FetchIInv, Said
  <2> QED
    BY <2>1, <2>2, <2>3, <2>4, <2>5 DEF Said
<1> QED
  BY <1>1, <1>2, <1>3, <1>4, <1>5, <1>6

LEMMA GotAckStep ==
  ASSUME FetchIInv, GotAck
  PROVE  FetchIInv'
<1> DEFINE c == Head(toClient).commit
           k == Head(toClient).kind
           marked == mark_common(rev, {c})
<1>1. /\ UNCHANGED <<mode, stateless, no_done, parents, ours, theirs>>
      /\ UNCHANGED <<phase, refs, req, flushes, multi_ack, running, srv, toServer>>
      /\ phase = "acks" /\ Reads(AckLine) /\ found' = TRUE
  BY DEF GotAck, fixed, ToServer, AckLine
<1>2. /\ ServerOK' /\ PipesOK' /\ Said'
      /\ toClient \in Seq(Reply) /\ toClient # <<>> /\ toClient' = Tail(toClient)
      /\ toClient[1] = Head(toClient) /\ toClient[1].kind \in AckLine /\ toClient[1] \in Reply
      /\ 1 \in DOMAIN toClient /\ Len(toClient') = Len(toClient) - 1
      /\ \A i \in DOMAIN toClient' : i + 1 \in DOMAIN toClient /\ toClient'[i] = toClient[i + 1]
      /\ \A i \in DOMAIN toClient : i # 1 => /\ i - 1 \in DOMAIN toClient'
                                             /\ toClient[i] = toClient'[i - 1]
      /\ Lines("NAK", toClient)
           = Lines("NAK", toClient') + (IF toClient[1].kind = "NAK" THEN 1 ELSE 0)
      /\ Has("ACK", toClient') => Has("ACK", toClient)
      /\ Lines("NAK", toClient') \in Nat
  BY <1>1, Read
<1>3. c \in Commit /\ k \in AckLine
  BY <1>2 DEF Reply, AckLine
<1>4. mode # 0
  BY <1>2 DEF FetchIInv, Said
<1>5. /\ rev' = IF k = "ready" THEN [marked EXCEPT !.list = {}] ELSE marked
      /\ again' = IF k = "common" /\ Replayed(c) THEN Append(again, c) ELSE again
      /\ got' = [continue |-> TRUE, ready |-> got.ready \/ k = "ready"]
  BY DEF GotAck
<1> HIDE DEF c, k
<1>6. /\ RevOK(marked)
      /\ rev.list \subseteq rev.common => marked.list \subseteq marked.common
  BY <1>3, MarkOK DEF FetchIInv, FixedOK, ClientOK
<1> HIDE DEF marked
<1>7. RevOK(rev') /\ (got'.ready => rev'.list \subseteq rev'.common)
  <2>1. CASE k = "ready"
    <3>1. rev' = [marked EXCEPT !.list = {}]
      BY <1>5, <2>1
    <3>2. RevOK(rev') /\ rev'.list = {}
      BY <1>6, <3>1 DEF RevOK, Rev
    <3> QED
      BY <3>2
  <2>2. CASE k # "ready"
    BY <1>5, <1>6, <2>2 DEF FetchIInv, Asked
  <2> QED
    BY <2>1, <2>2
<1>8. FixedOK'
  BY <1>1 DEF FetchIInv, FixedOK
<1>9. ClientOK'
  <2>1. again' \in Seq(Commit)
    BY <1>3, <1>5 DEF FetchIInv, ClientOK
  <2>2. got' \in [continue : BOOLEAN, ready : BOOLEAN]
    <3>1. (got.ready \/ k = "ready") \in BOOLEAN
      OBVIOUS
    <3> QED
      BY <1>5, <3>1
  <2> QED
    BY <1>1, <1>7, <2>1, <2>2 DEF FetchIInv, ClientOK
<1>10. NoNakLeft'
  BY <1>1, <1>4 DEF NoNakLeft, Plain
<1>11. FlushesCounted'
  <2>1. Lines("NAK", toClient') = Lines("NAK", toClient)
    BY <1>2 DEF AckLine
  <2> QED
    BY <1>1, <1>4, <2>1 DEF FetchIInv, FlushesCounted, BeforeDone, Plain
<1>12. Asked'
  BY <1>1, <1>2, <1>4, <1>7 DEF FetchIInv, Asked, BeforeDone, Has
<1>13. Request'
  <2>1. SUFFICES ASSUME stateless PROVE Answering' \/ \E n \in DOMAIN toClient' : Answered(n)'
    BY <1>1 DEF Request
  <2>2. CASE Answering
    <3>1. \A i \in DOMAIN toClient' : toClient'[i].kind \in AckLine
      BY <1>2, <2>2 DEF Answering
    <3>2. ASSUME srv'.sent_ready PROVE SaidReady(Len(toClient))'
      <4>1. CASE got.ready
        BY <1>5, <4>1 DEF SaidReady
      <4>2. CASE \E i \in 1..Len(toClient) : toClient[i].kind = "ready"
        <5>1. PICK i \in 1..Len(toClient) : toClient[i].kind = "ready"
          BY <4>2
        <5>2. CASE i = 1
          BY <1>2, <1>5, <5>1, <5>2 DEF SaidReady, k
        <5>3. CASE i # 1
          <6>1. i - 1 \in DOMAIN toClient' /\ toClient'[i - 1].kind = "ready"
            BY <1>2, <5>1, <5>3
          <6>2. i - 1 \in 1..Len(toClient')
            BY <1>2, <6>1
          <6> QED
            BY <6>1, <6>2 DEF SaidReady
        <5> QED
          BY <5>2, <5>3
      <4> QED
        BY <1>1, <2>2, <3>2, <4>1, <4>2 DEF Answering, SaidReady
    <3> QED
      BY <1>1, <2>2, <3>1, <3>2 DEF Answering
  <2>3. CASE \E n \in DOMAIN toClient : Answered(n)
    <3>1. PICK n \in DOMAIN toClient : Answered(n)
      BY <2>3
    <3>2. n # 1
      BY <1>2, <3>1 DEF Answered, AckLine
    <3>3. /\ n \in Nat /\ n - 1 \in DOMAIN toClient' /\ toClient'[n - 1] = toClient[n]
          /\ Len(toClient) \in Nat
      BY <1>2, <3>2
    <3>4. \A i \in 1..(n - 2) : i + 1 \in 1..(n - 1) /\ toClient'[i] = toClient[i + 1]
      BY <1>2, <3>3
    <3>5. \A i \in 1..((n - 1) - 1) : toClient'[i].kind \in AckLine
      BY <3>1, <3>3, <3>4 DEF Answered
    <3>6. CASE Len(toClient) = n
      <4>1. Len(toClient') = n - 1
        BY <1>2, <3>6
      <4>2. Answered(n - 1)'
        BY <1>1, <3>1, <3>3, <3>5, <4>1 DEF Answered
      <4> QED
        BY <3>3, <4>2
    <3>7. CASE Len(toClient) # n
      <4>1. /\ no_done /\ SaidReady(n - 1) /\ Len(toClient) = n + 2
            /\ toClient[n + 1].kind = "ACK" /\ toClient[n + 2].kind = "pack"
        BY <3>1, <3>7 DEF Answered
      <4>2. Len(toClient') = (n - 1) + 2
        BY <1>2, <3>3, <4>1
      <4>3. toClient'[(n - 1) + 1] = toClient[n + 1] /\ toClient'[(n - 1) + 2] = toClient[n + 2]
        <5>1. n \in DOMAIN toClient' /\ n + 1 \in DOMAIN toClient'
          BY <1>2, <3>3, <4>2
        <5> QED
          BY <1>2, <3>3, <5>1
      <4>4. SaidReady((n - 1) - 1)'
        <5>1. CASE got.ready
          BY <1>5, <5>1 DEF SaidReady
        <5>2. CASE ~got.ready
          <6>1. PICK i \in 1..(n - 1) : toClient[i].kind = "ready"
            BY <4>1, <5>2 DEF SaidReady
          <6>2. CASE i = 1
            BY <1>2, <1>5, <6>1, <6>2 DEF SaidReady, k
          <6>3. CASE i # 1
            <7>1. i - 1 \in 1..((n - 1) - 1) /\ i \in DOMAIN toClient
              BY <3>3, <4>1, <6>3
            <7>2. toClient'[i - 1].kind = "ready"
              BY <1>2, <6>1, <6>3, <7>1
            <7> QED
              BY <7>1, <7>2 DEF SaidReady
          <6> QED
            BY <6>2, <6>3
        <5> QED
          BY <5>1, <5>2
      <4>5. Answered(n - 1)'
        BY <1>1, <3>1, <3>3, <3>5, <4>1, <4>2, <4>3, <4>4 DEF Answered
      <4> QED
        BY <3>3, <4>5
    <3> QED
      BY <3>6, <3>7
  <2> QED
    BY <1>1, <2>1, <2>2, <2>3 DEF FetchIInv, Request
<1>14. AtPack'
  BY <1>1 DEF AtPack
<1> QED
  BY <1>2, <1>7, <1>8, <1>9, <1>10, <1>11, <1>12, <1>13, <1>14 DEF FetchIInv

LEMMA GotNakStep ==
  ASSUME FetchIInv, GotNak
  PROVE  FetchIInv'
<1>1. /\ UNCHANGED <<mode, stateless, no_done, parents, ours, theirs>>
      /\ UNCHANGED <<refs, rev, req, again, got, found, multi_ack, running, srv, toServer>>
      /\ phase = "acks" /\ phase' \in {"rev", "done"} /\ Reads({"NAK"}) /\ flushes' = flushes - 1
  BY DEF GotNak, fixed, ToServer, answers
<1>2. /\ ServerOK' /\ PipesOK' /\ Said'
      /\ toClient \in Seq(Reply) /\ toClient # <<>> /\ toClient' = Tail(toClient)
      /\ toClient[1].kind = "NAK"
      /\ 1 \in DOMAIN toClient /\ Len(toClient') = Len(toClient) - 1
      /\ \A i \in DOMAIN toClient' : i + 1 \in DOMAIN toClient /\ toClient'[i] = toClient[i + 1]
      /\ Lines("NAK", toClient)
           = Lines("NAK", toClient') + (IF toClient[1].kind = "NAK" THEN 1 ELSE 0)
      /\ Lines("NAK", toClient') \in Nat /\ Lines("flush", toServer) \in Nat
      /\ Has("ACK", toClient') => Has("ACK", toClient)
  BY <1>1, Read
<1>3. ~Plain /\ ~Plain'
  <2>1. Has("NAK", toClient)
    BY <1>2 DEF Has
  <2> QED
    BY <1>1, <2>1 DEF FetchIInv, NoNakLeft, Plain
<1>4. FixedOK' /\ ClientOK'
  BY <1>1 DEF FetchIInv, FixedOK, ClientOK
<1>5. NoNakLeft'
  BY <1>3 DEF NoNakLeft
<1>6. FlushesCounted'
  <2>1. Lines("flush", toServer) + Lines("NAK", toClient) <= flushes
    BY <1>1, <1>3 DEF FetchIInv, FlushesCounted, BeforeDone
  <2>2. flushes \in Int
    BY DEF FetchIInv, ClientOK
  <2>3. Lines("flush", toServer) + Lines("NAK", toClient') <= flushes'
    BY <1>1, <1>2, <2>1, <2>2
  <2> QED
    BY <1>1, <2>3 DEF FlushesCounted
<1>7. Asked'
  BY <1>1, <1>2 DEF FetchIInv, Asked, BeforeDone, Has
<1>8. Request'
  <2>1. SUFFICES ASSUME stateless PROVE toServer = <<>> /\ (toClient' = <<>> \/ Leftover')
    BY <1>1 DEF Request
  <2>2. ~Answering
    BY <1>2 DEF Answering, AckLine
  <2>3. PICK n \in DOMAIN toClient : Answered(n)
    BY <1>1, <2>1, <2>2 DEF FetchIInv, Request
  <2>4. n = 1
    <3>1. n \in Nat /\ n # 0
      BY <1>2
    <3>2. CASE n # 1
      <4>1. 1 \in 1..(n - 1)
        BY <3>1, <3>2
      <4> QED
        BY <1>2, <2>3, <4>1 DEF Answered, AckLine
    <3> QED
      BY <3>2
  <2>5. CASE Len(toClient) = 1
    BY <1>2, <2>3, <2>5 DEF Answered
  <2>6. CASE Len(toClient) # 1
    <3>1. /\ no_done /\ SaidReady(0) /\ Len(toClient) = 3
          /\ toClient[2].kind = "ACK" /\ toClient[3].kind = "pack"
      BY <2>3, <2>4, <2>6 DEF Answered
    <3>2. got.ready
      BY <3>1 DEF SaidReady
    <3>3. Len(toClient') = 2 /\ toClient'[1] = toClient[2] /\ toClient'[2] = toClient[3]
      <4>1. Len(toClient') = 2 /\ toClient' \in Seq(Reply)
        BY <1>2, <3>1 DEF PipesOK
      <4>2. 1 \in DOMAIN toClient' /\ 2 \in DOMAIN toClient'
        BY <4>1
      <4>3. toClient'[1] = toClient[1 + 1] /\ toClient'[2] = toClient[2 + 1]
        BY <1>2, <4>2
      <4> QED
        BY <4>1, <4>3
    <3> QED
      BY <1>1, <2>3, <3>1, <3>2, <3>3 DEF Leftover, Answered
  <2> QED
    BY <2>5, <2>6
<1>9. AtPack'
  BY <1>1 DEF AtPack
<1> QED
  BY <1>2, <1>4, <1>5, <1>6, <1>7, <1>8, <1>9 DEF FetchIInv

LEMMA GotFinalStep ==
  ASSUME FetchIInv, GotFinal
  PROVE  FetchIInv'
<1>1. /\ UNCHANGED <<mode, stateless, no_done, parents, ours, theirs>>
      /\ UNCHANGED <<refs, rev, req, again, got, running, srv, toServer>>
      /\ phase = "acks" /\ phase' = "done" /\ Reads({"ACK"})
      /\ flushes' = 0 /\ multi_ack' = 0 /\ found' = TRUE
  BY DEF GotFinal, fixed, ToServer
<1>2. /\ ServerOK' /\ PipesOK' /\ Said'
      /\ toClient \in Seq(Reply) /\ toClient # <<>> /\ toClient' = Tail(toClient)
      /\ toClient[1].kind = "ACK" /\ 1 \in DOMAIN toClient
      /\ \A i \in DOMAIN toClient' : i + 1 \in DOMAIN toClient /\ toClient'[i] = toClient[i + 1]
  BY <1>1, Read
<1>3. mode = 0
  <2>1. SUFFICES ASSUME mode # 0 PROVE FALSE
    OBVIOUS
  <2>2. Has("ACK", toClient)
    BY <1>2 DEF Has
  <2>3. stateless
    BY <1>1, <2>1, <2>2 DEF FetchIInv, Asked, BeforeDone
  <2>4. ~Answering
    BY <1>2 DEF Answering, AckLine
  <2>5. PICK n \in DOMAIN toClient : Answered(n)
    BY <1>1, <2>3, <2>4 DEF FetchIInv, Request
  <2>6. n \in Nat /\ n # 0
    BY <1>2
  <2>7. CASE n = 1
    BY <1>2, <2>5, <2>7 DEF Answered
  <2>8. CASE n # 1
    <3>1. 1 \in 1..(n - 1)
      BY <2>6, <2>8
    <3> QED
      BY <1>2, <2>5, <3>1 DEF Answered, AckLine
  <2> QED
    BY <2>7, <2>8
<1>4. FixedOK' /\ ClientOK'
  BY <1>1 DEF FetchIInv, FixedOK, ClientOK
<1>5. NoNakLeft'
  <2>1. srv.have_obj # {}
    BY <1>2 DEF FetchIInv, Said
  <2>2. \A j \in DOMAIN toClient : 1 < j => toClient[j].kind # "NAK"
    BY <1>2, <1>3 DEF FetchIInv, Said
  <2>3. \A i \in DOMAIN toClient' : 1 < i + 1
    BY <1>2
  <2>4. ~Has("NAK", toClient')
    BY <1>2, <2>2, <2>3 DEF Has
  <2> QED
    BY <1>1, <2>1, <2>4 DEF NoNakLeft, Has
<1>6. FlushesCounted'
  BY <1>1, <1>3 DEF FlushesCounted, Plain
<1>7. Asked'
  BY <1>1, <1>3 DEF FetchIInv, Asked, BeforeDone, Has
<1>8. Request' /\ AtPack'
  BY <1>1, <1>3 DEF FetchIInv, FixedOK, Request, AtPack
<1> QED
  BY <1>2, <1>4, <1>5, <1>6, <1>7, <1>8 DEF FetchIInv

LEMMA FinalStep ==
  ASSUME FetchIInv, Final
  PROVE  FetchIInv'
<1>1. /\ UNCHANGED <<mode, stateless, no_done, parents, ours, theirs>>
      /\ UNCHANGED <<refs, rev, req, again, got, found, running, srv, toServer>>
      /\ phase = "final"
  BY DEF Final, fixed, ToServer
<1>2. FixedOK'
  BY <1>1 DEF FetchIInv, FixedOK
<1>3. ASSUME flushes = 0, multi_ack = 0, phase' = "pack", UNCHANGED <<flushes, multi_ack, toClient>>
      PROVE  FetchIInv'
  <2>1. ClientOK' /\ ServerOK' /\ PipesOK' /\ Said'
    BY <1>1, <1>3 DEF FetchIInv, ClientOK, ServerOK, PipesOK, Said
  <2>2. NoNakLeft'
    BY <1>1, <1>3 DEF FetchIInv, NoNakLeft, Plain, Has
  <2>3. FlushesCounted' /\ Request'
    BY <1>3 DEF FlushesCounted, BeforeDone, Request
  <2>4. Asked'
    BY <1>1, <1>3 DEF FetchIInv, Asked, BeforeDone, Has
  <2>5. AtPack'
    <3>1. CASE Plain
      <4>1. mode = 0 /\ srv.have_obj # {} /\ \A i \in DOMAIN toClient : toClient[i].kind # "NAK"
        BY <3>1 DEF FetchIInv, NoNakLeft, Plain, Has
      <4>2. \A i \in DOMAIN toClient : toClient[i].kind \in {"ACK", "pack"}
        <5>1. \A i \in DOMAIN toClient : toClient[i] \in Reply /\ toClient[i].kind \notin AckLine
          BY <4>1 DEF FetchIInv, PipesOK, Said
        <5> QED
          BY <4>1, <5>1 DEF Reply
      <4> QED
        BY <1>1, <1>3, <4>1, <4>2 DEF AtPack
    <3>2. CASE ~Plain
      <4>1. Lines("flush", toServer) + Lines("NAK", toClient)
              + (IF running \/ srv.have_obj # {} THEN 1 ELSE 0) <= 0
        BY <1>1, <1>3, <3>2 DEF FetchIInv, FlushesCounted, BeforeDone
      <4>2. /\ Lines("flush", toServer) \in Nat /\ Lines("NAK", toClient) \in Nat
            /\ Has("NAK", toClient) <=> Lines("NAK", toClient) # 0
        BY FiniteLines DEF FetchIInv, PipesOK
      <4>3. ~running /\ srv.have_obj = {} /\ ~Has("NAK", toClient)
        BY <4>1, <4>2
      <4>4. \A i \in DOMAIN toClient : toClient[i].kind = "pack"
        BY <4>3 DEF FetchIInv, Said, Has
      <4> QED
        BY <1>1, <1>3, <4>3, <4>4 DEF AtPack
    <3> QED
      BY <3>1, <3>2
  <2> QED
    BY <1>2, <2>1, <2>2, <2>3, <2>4, <2>5 DEF FetchIInv
<1>4. ASSUME Reads({"ACK"}), phase' = "pack", UNCHANGED <<flushes, multi_ack>>
      PROVE  FetchIInv'
  <2>1. /\ ServerOK' /\ PipesOK' /\ Said'
        /\ toClient \in Seq(Reply) /\ toClient # <<>> /\ toClient' = Tail(toClient)
        /\ toClient[1].kind = "ACK" /\ 1 \in DOMAIN toClient /\ Len(toClient') = Len(toClient) - 1
        /\ \A i \in DOMAIN toClient' : i + 1 \in DOMAIN toClient /\ toClient'[i] = toClient[i + 1]
        /\ Has("NAK", toClient') => Has("NAK", toClient)
    BY <1>1, <1>4, Read
  <2>2. ClientOK'
    BY <1>1, <1>4 DEF FetchIInv, ClientOK
  <2>3. NoNakLeft'
    BY <1>1, <2>1 DEF FetchIInv, NoNakLeft, Plain, Has
  <2>4. FlushesCounted' /\ Request'
    BY <1>4 DEF FlushesCounted, BeforeDone, Request
  <2>5. Asked'
    BY <1>1, <1>4 DEF FetchIInv, Asked, BeforeDone, Has
  <2>6. AtPack'
    <3>1. CASE mode # 0
      <4>1. Len(toClient) = 2 /\ toClient[2].kind = "pack"
        <5>1. 1 + 1 = Len(toClient) /\ toClient[1 + 1].kind = "pack"
          BY <2>1, <3>1 DEF FetchIInv, Said
        <5> QED
          BY <5>1
      <4>2. ~running
        BY <2>1, <4>1 DEF FetchIInv, Said
      <4>3. \A i \in DOMAIN toClient' : i + 1 = 2
        BY <2>1, <4>1
      <4> QED
        BY <1>1, <2>1, <3>1, <4>1, <4>2, <4>3 DEF AtPack
    <3>2. CASE mode = 0
      <4>1. srv.have_obj # {}
        BY <2>1 DEF FetchIInv, Said
      <4>2. \A j \in DOMAIN toClient : 1 < j => toClient[j].kind # "NAK"
        BY <2>1, <3>2 DEF FetchIInv, Said
      <4>3. ASSUME NEW i \in DOMAIN toClient' PROVE toClient'[i].kind \in {"ACK", "pack"}
        <5>1. i + 1 \in DOMAIN toClient /\ 1 < i + 1 /\ toClient'[i] = toClient[i + 1]
          BY <2>1
        <5>2. toClient[i + 1] \in Reply /\ toClient[i + 1].kind \notin AckLine
          BY <2>1, <3>2, <5>1 DEF FetchIInv, Said
        <5> QED
          BY <4>2, <5>1, <5>2 DEF Reply
      <4> QED
        BY <1>1, <3>2, <4>1, <4>3 DEF AtPack
    <3> QED
      BY <3>1, <3>2
  <2> QED
    BY <1>2, <2>1, <2>2, <2>3, <2>4, <2>5, <2>6 DEF FetchIInv
<1>5. ASSUME Reads(AckLine), multi_ack' = 1, UNCHANGED <<phase, flushes>>
      PROVE  FetchIInv'
  <2>1. /\ ServerOK' /\ PipesOK' /\ Said'
        /\ toClient[1].kind \in AckLine /\ 1 \in DOMAIN toClient
        /\ Has("NAK", toClient') => Has("NAK", toClient)
    BY <1>1, <1>5, Read
  <2>2. mode # 0
    BY <2>1 DEF FetchIInv, Said
  <2>3. ClientOK'
    BY <1>1, <1>5 DEF FetchIInv, ClientOK
  <2>4. NoNakLeft'
    BY <1>1, <2>2 DEF NoNakLeft, Plain
  <2>5. FlushesCounted' /\ Request' /\ AtPack'
    BY <1>1, <1>5 DEF FlushesCounted, BeforeDone, Request, AtPack
  <2>6. Asked'
    BY <1>1, <1>5, <2>2 DEF FetchIInv, Asked, BeforeDone, Has
  <2> QED
    BY <1>2, <2>1, <2>3, <2>4, <2>5, <2>6 DEF FetchIInv
<1>6. ASSUME Reads({"NAK"}), flushes' = flushes - 1, UNCHANGED <<phase, multi_ack>>
      PROVE  FetchIInv'
  <2>1. /\ ServerOK' /\ PipesOK' /\ Said'
        /\ toClient[1].kind = "NAK" /\ 1 \in DOMAIN toClient
        /\ Lines("NAK", toClient)
             = Lines("NAK", toClient') + (IF toClient[1].kind = "NAK" THEN 1 ELSE 0)
        /\ Lines("NAK", toClient') \in Nat /\ Lines("flush", toServer) \in Nat
        /\ Has("NAK", toClient') => Has("NAK", toClient)
    BY <1>1, <1>6, Read
  <2>2. ClientOK'
    BY <1>1, <1>6 DEF FetchIInv, ClientOK
  <2>3. NoNakLeft'
    BY <1>1, <2>1 DEF FetchIInv, NoNakLeft, Plain, Has
  <2>4. FlushesCounted'
    <3>1. SUFFICES ASSUME ~Plain, multi_ack = 0
                   PROVE  Lines("flush", toServer) + Lines("NAK", toClient')
                            + (IF running \/ srv.have_obj # {} THEN 1 ELSE 0) <= flushes'
      BY <1>1, <1>6 DEF FlushesCounted, BeforeDone, Plain
    <3>2. Lines("flush", toServer) + Lines("NAK", toClient)
            + (IF running \/ srv.have_obj # {} THEN 1 ELSE 0) <= flushes
      BY <1>1, <3>1 DEF FetchIInv, FlushesCounted
    <3>3. flushes \in Int
      BY DEF FetchIInv, ClientOK
    <3> QED
      BY <1>6, <2>1, <3>2, <3>3
  <2>5. Asked'
    BY <1>1, <1>6 DEF FetchIInv, Asked, BeforeDone, Has
  <2>6. Request' /\ AtPack'
    BY <1>1, <1>6 DEF Request, AtPack
  <2> QED
    BY <1>2, <2>1, <2>2, <2>3, <2>4, <2>5, <2>6 DEF FetchIInv
<1> QED
  BY <1>3, <1>4, <1>5, <1>6 DEF Final, AckLine

LEMMA GetPackStep ==
  ASSUME FetchIInv, GetPack
  PROVE  FetchIInv'
<1>1. /\ UNCHANGED <<mode, stateless, no_done, parents, ours, theirs>>
      /\ UNCHANGED <<refs, rev, req, again, flushes, got, found, multi_ack, running, srv, toServer>>
      /\ phase = "pack" /\ phase' = "end" /\ Reads({"pack"})
  BY DEF GetPack, fixed, ToServer, counters, answers
<1>2. /\ ServerOK' /\ PipesOK' /\ Said'
      /\ \A i \in DOMAIN toClient' : i + 1 \in DOMAIN toClient /\ toClient'[i] = toClient[i + 1]
      /\ Has("NAK", toClient') => Has("NAK", toClient)
  BY <1>1, Read
<1>3. FixedOK' /\ ClientOK'
  BY <1>1 DEF FetchIInv, FixedOK, ClientOK
<1>4. NoNakLeft'
  BY <1>1, <1>2 DEF FetchIInv, NoNakLeft, Plain, Has
<1>5. FlushesCounted' /\ Request'
  BY <1>1 DEF FlushesCounted, BeforeDone, Request
<1>6. Asked'
  BY <1>1 DEF FetchIInv, Asked, BeforeDone, Has
<1>7. AtPack'
  BY <1>1, <1>2 DEF FetchIInv, AtPack
<1> QED
  BY <1>2, <1>3, <1>4, <1>5, <1>6, <1>7 DEF FetchIInv

----------------------------------------------------------------------------
LEMMA FewLines ==
  ASSUME NEW S, NEW s \in Seq(S), NEW k
  PROVE  /\ ~Has(k, s) => Lines(k, s) = 0
         /\ \A n : (\A i \in DOMAIN s : s[i].kind = k => i = n) => Lines(k, s) <= 1
<1> DEFINE A == {i \in DOMAIN s : s[i].kind = k}
<1>1. Lines(k, s) \in Nat /\ (Has(k, s) <=> Lines(k, s) # 0)
  BY FiniteLines
<1>2. ASSUME NEW n, \A i \in DOMAIN s : s[i].kind = k => i = n
      PROVE  Lines(k, s) <= 1
  <2>1. A \subseteq {n} /\ IsFiniteSet({n}) /\ Cardinality({n}) = 1
    BY <1>2, FS_Singleton
  <2>2. Cardinality(A) <= 1
    <3> HIDE DEF A
    <3> QED
      BY <2>1, FS_Subset
  <2> QED
    BY <2>2 DEF Lines
<1> QED
  BY <1>1, <1>2

\* What the server may say to the line that it has read.
Says(lines) ==
  /\ lines \in Seq(Reply)
  /\ srv'.have_obj = {} => \A i \in DOMAIN lines : lines[i].kind \in {"NAK", "pack"}
  /\ \A i \in DOMAIN lines : lines[i].kind = "pack" => i = Len(lines) /\ ~running'
  /\ mode # 0 => \A i \in DOMAIN lines :
       lines[i].kind = "ACK" => i + 1 = Len(lines) /\ lines[i + 1].kind = "pack"
  /\ mode # 0 /\ ~stateless /\ Head(toServer).kind # "done" => ~Has("ACK", lines)
  /\ mode = 0 => \A i \in DOMAIN lines : lines[i].kind \notin AckLine
  /\ mode = 0 /\ Has("NAK", lines) => srv.have_obj = {} /\ ~Has("ACK", lines)
  /\ Lines("NAK", lines) <=
       (IF Head(toServer).kind = "flush" THEN 1 ELSE 0)
         + (IF Head(toServer).kind = "done" /\ ~running' /\ srv'.have_obj = {} THEN 1 ELSE 0)

LEMMA Serve ==
  ASSUME FetchIInv, NEW lines, running, toServer # <<>>, toServer' = Tail(toServer),
         UNCHANGED <<fixed, client>>, toClient' = toClient \o lines, Says(lines),
         srv.have_obj # {} => srv'.have_obj # {}, ServerOK', Request'
  PROVE  FetchIInv'
<1>1. /\ UNCHANGED <<mode, stateless, no_done, parents, ours, theirs>>
      /\ UNCHANGED <<phase, refs, rev, req, again, flushes, got, found, multi_ack>>
  BY DEF fixed, client, counters, answers
<1>2. FixedOK' /\ ClientOK'
  BY <1>1 DEF FetchIInv, FixedOK, ClientOK
<1>3. /\ toServer \in Seq(ToldLine) /\ toClient \in Seq(Reply) /\ lines \in Seq(Reply)
  BY DEF FetchIInv, PipesOK, Says
<1>4. /\ toClient' \in Seq(Reply) /\ Len(toClient') = Len(toClient) + Len(lines)
      /\ \A i \in DOMAIN toClient : i \in DOMAIN toClient' /\ toClient'[i] = toClient[i]
      /\ \A i \in DOMAIN lines : /\ Len(toClient) + i \in DOMAIN toClient'
                                 /\ toClient'[Len(toClient) + i] = lines[i]
      /\ \A i \in DOMAIN toClient' :
           i \notin DOMAIN toClient => /\ i - Len(toClient) \in DOMAIN lines
                                       /\ toClient'[i] = lines[i - Len(toClient)]
  BY <1>3, Added
<1>5. /\ toServer' \in Seq(ToldLine)
      /\ \A i \in DOMAIN toServer' : i + 1 \in DOMAIN toServer /\ toServer'[i] = toServer[i + 1]
      /\ 1 \in DOMAIN toServer /\ Head(toServer) = toServer[1]
  BY <1>3, Rest
<1>6. PipesOK'
  BY <1>4, <1>5 DEF PipesOK
<1>7. /\ Lines("NAK", toClient') = Lines("NAK", toClient) + Lines("NAK", lines)
      /\ Lines("flush", toServer)
           = Lines("flush", toServer') + (IF Head(toServer).kind = "flush" THEN 1 ELSE 0)
      /\ Lines("NAK", toClient) \in Nat /\ Lines("NAK", lines) \in Nat
      /\ Lines("flush", toServer') \in Nat
  <2>1. Lines("NAK", toClient \o lines) = Lines("NAK", toClient) + Lines("NAK", lines)
    BY <1>3, LinesAdded
  <2>2. Lines("flush", toServer)
          = Lines("flush", Tail(toServer)) + (IF Head(toServer).kind = "flush" THEN 1 ELSE 0)
    BY <1>3, LinesOfRest
  <2>3. Lines("NAK", toClient') = Lines("NAK", toClient \o lines)
        /\ Lines("flush", toServer') = Lines("flush", Tail(toServer))
    OBVIOUS
  <2>4. /\ Lines("NAK", toClient) \in Nat /\ Lines("NAK", lines) \in Nat
        /\ Lines("flush", toServer') \in Nat
    BY <1>3, <1>5, FiniteLines
  <2> QED
    BY <2>1, <2>2, <2>3, <2>4
<1>8. \A k : Has(k, toClient') => Has(k, toClient) \/ Has(k, lines)
  BY <1>4 DEF Has
<1>9. \A i \in DOMAIN toClient : toClient[i].kind # "pack"
  BY DEF FetchIInv, Said
<1>10. mode # 0 => \A i \in DOMAIN toClient : toClient[i].kind # "ACK"
  <2>1. SUFFICES ASSUME mode # 0, NEW i \in DOMAIN toClient, toClient[i].kind = "ACK" PROVE FALSE
    OBVIOUS
  <2>2. i + 1 = Len(toClient) /\ toClient[i + 1].kind = "pack"
    BY <2>1 DEF FetchIInv, Said
  <2>3. i + 1 \in DOMAIN toClient
    BY <1>3, <2>2
  <2> QED
    BY <1>9, <2>2, <2>3
<1>11. Said'
  <2>1. srv'.have_obj = {} => \A i \in DOMAIN toClient' : toClient'[i].kind \in {"NAK", "pack"}
    BY <1>4 DEF FetchIInv, Said, Says
  <2>2. \A i \in DOMAIN toClient' : toClient'[i].kind = "pack" => i = Len(toClient') /\ ~running'
    <3> SUFFICES ASSUME NEW i \in DOMAIN toClient', toClient'[i].kind = "pack"
                 PROVE  i = Len(toClient') /\ ~running'
      OBVIOUS
    <3>1. i - Len(toClient) \in DOMAIN lines /\ toClient'[i] = lines[i - Len(toClient)]
      BY <1>4, <1>9
    <3>2. i - Len(toClient) = Len(lines) /\ ~running'
      BY <3>1 DEF Says
    <3>3. i \in Int /\ Len(toClient) \in Int /\ Len(lines) \in Int
      BY <1>3, <1>4
    <3> QED
      BY <1>4, <3>2, <3>3
  <2>3. mode' # 0 => \A i \in DOMAIN toClient' :
          toClient'[i].kind = "ACK" => i + 1 = Len(toClient') /\ toClient'[i + 1].kind = "pack"
    <3> SUFFICES ASSUME mode # 0, NEW i \in DOMAIN toClient', toClient'[i].kind = "ACK"
                 PROVE  i + 1 = Len(toClient') /\ toClient'[i + 1].kind = "pack"
      BY <1>1
    <3> DEFINE j == i - Len(toClient)
    <3>1. j \in DOMAIN lines /\ toClient'[i] = lines[j]
      BY <1>4, <1>10
    <3>2. i \in Int /\ Len(toClient) \in Nat /\ Len(lines) \in Nat
      BY <1>3, <1>4
    <3>3. i = Len(toClient) + j /\ j \in Int
      BY <3>2
    <3> HIDE DEF j
    <3>4. j + 1 = Len(lines) /\ lines[j + 1].kind = "pack"
      BY <3>1 DEF Says
    <3>5. j + 1 \in DOMAIN lines
      BY <1>3, <3>1, <3>4
    <3>6. toClient'[Len(toClient) + (j + 1)] = lines[j + 1]
      BY <1>4, <3>5
    <3>7. i + 1 = Len(toClient) + (j + 1)
      BY <3>2, <3>3
    <3> QED
      BY <1>4, <3>4, <3>6, <3>7
  <2>4. mode' = 0 => \A i \in DOMAIN toClient' : toClient'[i].kind \notin AckLine
    BY <1>1, <1>4 DEF FetchIInv, Said, Says
  <2>5. mode' = 0 => \A i, j \in DOMAIN toClient' :
                       i < j => ~(toClient'[i].kind = "ACK" /\ toClient'[j].kind = "NAK")
    <3> SUFFICES ASSUME mode = 0, NEW i \in DOMAIN toClient', NEW j \in DOMAIN toClient', i < j,
                        toClient'[i].kind = "ACK", toClient'[j].kind = "NAK"
                 PROVE  FALSE
      BY <1>1
    <3>1. CASE j \in DOMAIN toClient
      <4>1. i \in DOMAIN toClient
        BY <1>3, <1>4, <3>1
      <4> QED
        BY <1>4, <3>1, <4>1 DEF FetchIInv, Said
    <3>2. CASE j \notin DOMAIN toClient
      <4>1. Has("NAK", lines)
        BY <1>4, <3>2 DEF Has
      <4>2. srv.have_obj = {} /\ ~Has("ACK", lines)
        BY <4>1 DEF Says
      <4>3. i \in DOMAIN toClient /\ toClient[i].kind = "ACK"
        BY <1>4, <4>2 DEF Has
      <4> QED
        BY <4>2, <4>3 DEF FetchIInv, Said
    <3> QED
      BY <3>1, <3>2
  <2> QED
    BY <2>1, <2>2, <2>3, <2>4, <2>5 DEF Said
<1>12. NoNakLeft'
  <2>1. SUFFICES ASSUME Plain PROVE srv'.have_obj # {} /\ ~Has("NAK", toClient')
    BY <1>1 DEF NoNakLeft, Plain
  <2>2. srv.have_obj # {} /\ ~Has("NAK", toClient) /\ mode = 0
    BY <2>1 DEF FetchIInv, NoNakLeft, Plain
  <2> QED
    BY <1>8, <2>2 DEF Says
<1>13. FlushesCounted'
  <2>1. Plain' = Plain
    BY <1>1 DEF Plain
  <2>2. flushes \in Int
    BY DEF FetchIInv, ClientOK
  <2> DEFINE flush == IF Head(toServer).kind = "flush" THEN 1 ELSE 0
             over == IF running' \/ srv'.have_obj # {} THEN 1 ELSE 0
  <2>3. /\ Lines("NAK", lines) <= flush + 1 - over
        /\ Head(toServer).kind # "done" => Lines("NAK", lines) <= flush
    BY <1>7 DEF Says
  <2>4. /\ Lines("flush", toServer) = Lines("flush", toServer') + flush
        /\ flush \in Int /\ over \in Int
    BY <1>7
  <2> HIDE DEF flush, over
  <2>5. ASSUME phase \in BeforeDone, ~Plain
        PROVE  Lines("flush", toServer') + Lines("NAK", toClient') <= flushes
    <3>1. Head(toServer).kind # "done"
      BY <1>5, <2>5 DEF FetchIInv, Asked, Has
    <3>2. Lines("flush", toServer) + Lines("NAK", toClient) <= flushes
      BY <2>5 DEF FetchIInv, FlushesCounted
    <3> QED
      BY <1>7, <2>2, <2>3, <2>4, <3>1, <3>2
  <2>6. ASSUME phase = "final", ~Plain, multi_ack = 0
        PROVE  Lines("flush", toServer') + Lines("NAK", toClient') + over <= flushes
    <3>1. Lines("flush", toServer) + Lines("NAK", toClient) + 1 <= flushes
      BY <2>6 DEF FetchIInv, FlushesCounted
    <3> QED
      BY <1>7, <2>2, <2>3, <2>4, <3>1
  <2> QED
    BY <1>1, <2>1, <2>5, <2>6 DEF FlushesCounted, over
<1>14. Asked'
  <2>1. phase \in BeforeDone => ~Has("done", toServer')
    BY <1>5 DEF FetchIInv, Asked, Has
  <2>2. phase \in BeforeDone /\ mode # 0 /\ ~stateless => ~Has("ACK", toClient')
    <3>1. SUFFICES ASSUME phase \in BeforeDone, mode # 0, ~stateless PROVE ~Has("ACK", toClient')
      OBVIOUS
    <3>2. Head(toServer).kind # "done" /\ ~Has("ACK", toClient)
      BY <1>5, <3>1 DEF FetchIInv, Asked, Has
    <3> QED
      BY <1>8, <3>1, <3>2 DEF Says
  <2> QED
    BY <1>1, <2>1, <2>2 DEF FetchIInv, Asked
<1>15. AtPack'
  <2>1. SUFFICES ASSUME phase \in {"pack", "end"}
                 PROVE  /\ mode = 0
                        /\ \A i \in DOMAIN toClient' : toClient'[i].kind \in {"ACK", "pack"}
                        /\ srv'.have_obj # {}
    BY <1>1 DEF AtPack
  <2>2. /\ mode = 0 /\ \A i \in DOMAIN toClient : toClient[i].kind \in {"ACK", "pack"}
        /\ srv.have_obj # {}
    BY <2>1 DEF FetchIInv, FixedOK, AtPack
  <2>3. \A i \in DOMAIN lines : /\ lines[i] \in Reply /\ lines[i].kind \notin AckLine
                                /\ lines[i].kind # "NAK"
    BY <1>3, <2>2 DEF Says, Has
  <2>4. \A i \in DOMAIN lines : lines[i].kind \in {"ACK", "pack"}
    BY <2>3 DEF Reply
  <2> QED
    BY <1>4, <2>2, <2>4
<1> QED
  BY <1>2, <1>6, <1>11, <1>12, <1>13, <1>14, <1>15 DEF FetchIInv

----------------------------------------------------------------------------
LEMMA OneLine ==
  ASSUME NEW line \in Reply
  PROVE  /\ <<line>> \in Seq(Reply)
         /\ \A i \in DOMAIN <<line>> : i = 1 /\ <<line>>[i] = line
OBVIOUS

LEMMA Joined ==
  ASSUME NEW line \in Reply, NEW s \in Seq(Reply)
  PROVE  /\ <<>> \o <<line>> = <<line>> /\ s \o <<>> = s /\ <<>> \o s = s
         /\ s \o <<line>> \in Seq(Reply) /\ Len(s \o <<line>>) = Len(s) + 1
         /\ (s \o <<line>>)[Len(s) + 1] = line
         /\ \A i \in DOMAIN s : (s \o <<line>>)[i] = s[i]
OBVIOUS

\* Two lines.
LEMMA JoinedTwo ==
  \A a, b \in Reply : LET s == <<a>> \o <<b>>
                      IN  /\ s \in Seq(Reply) /\ Len(s) = 2 /\ s[1] = a /\ s[2] = b
                          /\ \A i \in DOMAIN s : i = 1 \/ i = 2
OBVIOUS

\* Maybe a line that is not the last.
LEMMA MaybeOne ==
  ASSUME NEW b \in BOOLEAN, NEW line, b => line \in Reply
  PROVE  /\ Maybe(b, line) \in Seq(Reply)
         /\ \A i \in DOMAIN Maybe(b, line) : b /\ i = 1 /\ Maybe(b, line)[i] = line
         /\ b => 1 \in DOMAIN Maybe(b, line) /\ Maybe(b, line)[1] = line
<1>1. CASE b
  BY <1>1 DEF Maybe
<1>2. CASE ~b
  BY <1>2 DEF Maybe
<1> QED
  BY <1>1, <1>2

\* A server that may acknowledge a commit and no more.
LEMMA OnlyAck ==
  ASSUME NEW b \in BOOLEAN, NEW line,
         b => /\ line \in Reply /\ srv'.have_obj # {}
              /\ line.kind \in IF mode = 0 THEN {"ACK"} ELSE AckLine
  PROVE  Says(Maybe(b, line))
<1> DEFINE lines == Maybe(b, line)
<1>1. lines \in Seq(Reply) /\ \A i \in DOMAIN lines : b /\ lines[i] = line
  BY MaybeOne
<1> HIDE DEF lines
<1>2. ~Has("NAK", lines)
  BY <1>1 DEF Has, AckLine
<1>3. Lines("NAK", lines) = 0
  BY <1>1, <1>2, FewLines
<1>4. Lines("NAK", lines) <=
       (IF Head(toServer).kind = "flush" THEN 1 ELSE 0)
         + (IF Head(toServer).kind = "done" /\ ~running' /\ srv'.have_obj = {} THEN 1 ELSE 0)
  BY <1>3
<1> QED
  BY <1>1, <1>2, <1>4 DEF Says, Has, AckLine, lines

\* A request that is answered begins with haves, and after one there is more.
LEMMA MoreToCome ==
  ASSUME FetchIInv, Gets("have"), toClient' \in Seq(Reply), running',
         stateless /\ phase = "acks" => \A i \in DOMAIN toClient' : toClient'[i].kind \in AckLine,
         stateless /\ srv'.sent_ready => srv.sent_ready \/ Has("ready", toClient'),
         \A i \in DOMAIN toClient : i \in DOMAIN toClient' /\ toClient'[i] = toClient[i]
  PROVE  Request'
<1>1. /\ UNCHANGED <<stateless, phase, got>> /\ running /\ toServer # <<>>
      /\ toServer' = Tail(toServer) /\ Head(toServer).kind = "have"
  BY DEF Gets, fixed, client, answers
<1>2. SUFFICES ASSUME stateless, phase \in {"local", "rev", "done", "acks"}
               PROVE  phase = "acks" /\ Answering'
  BY <1>1 DEF Request
<1>3. phase = "acks" /\ Answering
  BY <1>1, <1>2 DEF FetchIInv, Request, Answered
<1>4. /\ toServer \in Seq(ToldLine) /\ toServer' \in Seq(ToldLine) /\ Head(toServer) = toServer[1]
      /\ 1 \in DOMAIN toServer /\ Len(toServer') = Len(toServer) - 1
      /\ \A i \in DOMAIN toServer' : i + 1 \in DOMAIN toServer /\ toServer'[i] = toServer[i + 1]
  BY <1>1, Rest DEF FetchIInv, PipesOK
<1>5. Len(toServer) # 1
  BY <1>1, <1>3, <1>4 DEF Answering
<1>6. toServer' # <<>>
  BY <1>4, <1>5
<1>7. \A i \in DOMAIN toServer' : toServer'[i].kind = IF i = Len(toServer') THEN "flush" ELSE "have"
  <2> TAKE i \in DOMAIN toServer'
  <2>1. toServer'[i] = toServer[i + 1] /\ i + 1 \in DOMAIN toServer
    BY <1>4
  <2>2. i + 1 = Len(toServer) <=> i = Len(toServer')
    BY <1>4
  <2> QED
    BY <1>3, <2>1, <2>2 DEF Answering
<1>8. ASSUME srv'.sent_ready PROVE SaidReady(Len(toClient))' \/ got.ready \/ Has("ready", toClient')
  BY <1>2, <1>3, <1>8 DEF Answering, SaidReady, Has, FetchIInv, PipesOK
<1>9. srv'.sent_ready => SaidReady(Len(toClient))'
  <2>1. ASSUME Has("ready", toClient') PROVE SaidReady(Len(toClient))'
    BY <2>1 DEF Has, SaidReady
  <2>2. ASSUME got.ready PROVE SaidReady(Len(toClient))'
    BY <1>1, <2>2 DEF SaidReady
  <2> QED
    BY <1>8, <2>1, <2>2
<1> QED
  BY <1>2, <1>3, <1>6, <1>7, <1>9 DEF Answering

LEMMA ServeCommonStep ==
  ASSUME FetchIInv, ServeCommon
  PROVE  FetchIInv'
<1> DEFINE c == Head(toServer).commit
           kind == IF mode = 2 THEN "common" ELSE IF mode = 1 THEN "continue" ELSE "ACK"
           b == mode # 0 \/ Cardinality(srv'.have_obj) = 1
           lines == Maybe(b, Ack(kind, c))
<1>1. /\ running /\ running' /\ toServer # <<>> /\ toServer' = Tail(toServer)
      /\ Head(toServer).kind = "have" /\ Gets("have") /\ UNCHANGED <<fixed, client>>
      /\ UNCHANGED <<mode, stateless, parents>>
      /\ srv' = got_sha1(srv, c) /\ toClient' = toClient \o lines
  BY DEF ServeCommon, Gets, Answer, fixed
<1>2. c \in Commit
  <2>1. Head(toServer) \in ToldLine
    BY <1>1, Rest DEF FetchIInv, PipesOK
  <2> QED
    BY <1>1, <2>1 DEF ToldLine
<1>3. ServerOK' /\ srv'.have_obj # {} /\ srv'.sent_ready = srv.sent_ready
  <2>1. /\ srv \in Server_ /\ Date[c] \in Nat /\ parents[c] \in SUBSET Commit /\ c # None
        /\ srv.have_obj \subseteq srv.they_have /\ (srv.have_obj = {} => srv.they_have = {})
    BY <1>2, FetchNegotiationAssumption DEF FetchNegotiationAssumption, FetchIInv, FixedOK, ServerOK
  <2> DEFINE they == srv.they_have \cup {c} \cup parents[c]
             have == IF c \in srv.they_have THEN srv.have_obj ELSE srv.have_obj \cup {c}
             oldest == IF srv.oldest_have = 0 \/ Date[c] < srv.oldest_have THEN Date[c]
                       ELSE srv.oldest_have
  <2>2. /\ they \in SUBSET Commit /\ have \in SUBSET Commit /\ have # {} /\ have \subseteq they
        /\ oldest \in Nat
    BY <1>2, <2>1 DEF Server_
  <2>3. srv' = [srv EXCEPT !.they_have = they, !.have_obj = have, !.oldest_have = oldest,
                           !.got_common = TRUE, !.last = c]
    BY <1>1 DEF got_sha1
  <2> HIDE DEF they, have, oldest, c
  <2>4. /\ srv'.they_have = they /\ srv'.have_obj = have /\ srv'.last = c
        /\ srv'.sent_ready = srv.sent_ready
    BY <2>1, <2>3 DEF Server_
  <2>5. srv' \in Server_
    BY <1>2, <2>1, <2>2, <2>3 DEF Server_
  <2> QED
    BY <1>1, <2>1, <2>2, <2>4, <2>5 DEF ServerOK
<1>4. Ack(kind, c) \in Reply /\ Ack(kind, c).kind = kind
  BY <1>2 DEF Ack, Reply, AckLine
<1>5. mode \in 0..2 /\ b \in BOOLEAN /\ (stateless => mode = 2)
  BY DEF FetchIInv, FixedOK
<1> HIDE DEF c, b
<1>6. kind \in IF mode = 0 THEN {"ACK"} ELSE AckLine
  BY <1>5 DEF AckLine
<1> HIDE DEF kind
<1>7. Says(lines) /\ lines \in Seq(Reply)
  BY <1>3, <1>4, <1>5, <1>6, OnlyAck, MaybeOne
<1>8. \A i \in DOMAIN lines : lines[i].kind = kind
  BY <1>4, <1>5, MaybeOne
<1> HIDE DEF lines
<1>9. Request'
  <2>1. toClient \in Seq(Reply)
    BY DEF FetchIInv, PipesOK
  <2>2. stateless /\ phase = "acks" => \A i \in DOMAIN toClient : toClient[i].kind \in AckLine
    BY <1>1 DEF FetchIInv, Request, Answering, Answered, Leftover
  <2> QED
    BY <1>1, <1>3, <1>5, <1>6, <1>7, <1>8, <2>1, <2>2, Added, MoreToCome
<1> QED
  BY <1>1, <1>3, <1>7, <1>9, Serve

LEMMA ServeOtherStep ==
  ASSUME FetchIInv, ServeOther
  PROVE  FetchIInv'
<1> DEFINE c == Head(toServer).commit
           kind == IF mode = 2 THEN "ready" ELSE "continue"
           enough == mode # 0 /\ ok_to_give_up(srv)
           lines == Maybe(enough, Ack(kind, c))
<1>1. /\ running /\ running' /\ toServer # <<>> /\ toServer' = Tail(toServer)
      /\ Head(toServer).kind = "have" /\ Gets("have") /\ UNCHANGED <<fixed, client>>
      /\ UNCHANGED <<mode, stateless>>
      /\ srv' = [srv EXCEPT !.got_other = TRUE, !.sent_ready = @ \/ (mode = 2 /\ enough)]
      /\ toClient' = toClient \o lines
  BY DEF ServeOther, Gets, Answer, fixed
<1>2. c \in Commit
  <2>1. Head(toServer) \in ToldLine
    BY <1>1, Rest DEF FetchIInv, PipesOK
  <2> QED
    BY <1>1, <2>1 DEF ToldLine
<1>3. enough \in BOOLEAN /\ (enough => mode # 0 /\ srv.have_obj # {})
  BY DEF ok_to_give_up
<1>4. Ack(kind, c) \in Reply /\ Ack(kind, c).kind = kind /\ kind \in AckLine
  BY <1>2 DEF Ack, Reply, AckLine
<1> HIDE DEF enough, c
<1>5. /\ ServerOK' /\ srv'.have_obj = srv.have_obj
      /\ srv'.sent_ready => srv.sent_ready \/ (mode = 2 /\ enough)
  <2>1. srv \in Server_
    BY DEF FetchIInv, ServerOK
  <2> DEFINE ready == srv.sent_ready \/ (mode = 2 /\ enough)
  <2>2. ready \in BOOLEAN
    BY <1>3
  <2>3. srv' = [srv EXCEPT !.got_other = TRUE, !.sent_ready = ready]
    BY <1>1
  <2>4. ready => srv.sent_ready \/ (mode = 2 /\ enough)
    OBVIOUS
  <2> HIDE DEF ready
  <2>5. /\ srv' \in Server_ /\ srv'.they_have = srv.they_have /\ srv'.have_obj = srv.have_obj
        /\ srv'.got_common = srv.got_common /\ srv'.last = srv.last /\ srv'.sent_ready = ready
    BY <2>1, <2>2, <2>3 DEF Server_
  <2> QED
    BY <1>1, <1>3, <2>4, <2>5 DEF FetchIInv, ServerOK
<1>6. Says(lines) /\ lines \in Seq(Reply)
  BY <1>3, <1>4, <1>5, OnlyAck, MaybeOne
<1>7. /\ \A i \in DOMAIN lines : lines[i].kind = kind
      /\ enough => 1 \in DOMAIN lines /\ lines[1].kind = kind
  BY <1>3, <1>4, MaybeOne
<1> HIDE DEF lines
<1>8. Request'
  <2>1. toClient \in Seq(Reply) /\ (stateless => mode = 2)
    BY DEF FetchIInv, FixedOK, PipesOK
  <2>2. stateless /\ phase = "acks" => \A i \in DOMAIN toClient : toClient[i].kind \in AckLine
    BY <1>1 DEF FetchIInv, Request, Answering, Answered, Leftover
  <2>3. /\ toClient' \in Seq(Reply)
        /\ \A i \in DOMAIN toClient : i \in DOMAIN toClient' /\ toClient'[i] = toClient[i]
        /\ \A i \in DOMAIN lines : /\ Len(toClient) + i \in DOMAIN toClient'
                                   /\ toClient'[Len(toClient) + i] = lines[i]
        /\ \A i \in DOMAIN toClient' :
             i \notin DOMAIN toClient => /\ i - Len(toClient) \in DOMAIN lines
                                         /\ toClient'[i] = lines[i - Len(toClient)]
    BY <1>1, <1>6, <2>1, Added
  <2>4. mode = 2 /\ enough => Has("ready", toClient')
    BY <1>7, <2>3 DEF Has
  <2>5. stateless /\ phase = "acks" => \A i \in DOMAIN toClient' : toClient'[i].kind \in AckLine
    BY <1>4, <1>7, <2>2, <2>3
  <2> QED
    BY <1>1, <1>5, <2>3, <2>4, <2>5, MoreToCome
<1> QED
  BY <1>1, <1>5, <1>6, <1>8, Serve

LEMMA ServeDoneStep ==
  ASSUME FetchIInv, ServeDone
  PROVE  FetchIInv'
<1> DEFINE pack == Line("pack")
           nak == Line("NAK")
           ack == Ack("ACK", srv.last)
           first == Maybe(srv.have_obj = {}, nak)
           second == Maybe(srv.have_obj # {} /\ mode # 0, ack)
           lines == first \o second \o <<pack>>
<1>1. /\ running /\ running' = FALSE /\ srv' = srv /\ toServer # <<>> /\ toServer' = Tail(toServer)
      /\ Head(toServer).kind = "done" /\ UNCHANGED <<fixed, client>>
      /\ UNCHANGED <<mode, stateless, phase>> /\ toClient' = toClient \o lines
  BY DEF ServeDone, Gets, Answer, fixed, client
<1>2. /\ pack \in Reply /\ pack.kind = "pack" /\ nak \in Reply /\ nak.kind = "NAK"
      /\ ack \in Reply /\ ack.kind = "ACK"
  BY DEF Line, Ack, Reply, FetchIInv, ServerOK, Server_
<1> HIDE DEF pack, nak, ack
<1>3. ServerOK'
  BY <1>1 DEF FetchIInv, ServerOK
<1>4. Request'
  <2>1. toServer[1].kind = "done" /\ 1 \in DOMAIN toServer
    BY <1>1, Rest DEF FetchIInv, PipesOK
  <2>2. stateless => phase \notin {"local", "rev", "done", "acks"}
    BY <1>1, <2>1 DEF FetchIInv, Request, Answering, Answered
  <2> QED
    BY <1>1, <2>2 DEF Request
<1>5. Says(lines)
  <2>1. CASE srv.have_obj = {}
    <3>1. first = <<nak>> /\ second = <<>>
      BY <2>1 DEF Maybe
    <3> HIDE DEF first, second
    <3>2. lines = <<nak>> \o <<pack>>
      BY <1>2, <3>1, OneLine, Joined
    <3> HIDE DEF lines
    <3>3. /\ lines \in Seq(Reply) /\ Len(lines) = 2 /\ lines[1] = nak /\ lines[2] = pack
          /\ \A i \in DOMAIN lines : i = 1 \/ i = 2
      <4>1. LET s == <<nak>> \o <<pack>>
            IN  /\ s \in Seq(Reply) /\ Len(s) = 2 /\ s[1] = nak /\ s[2] = pack
                /\ \A i \in DOMAIN s : i = 1 \/ i = 2
        BY <1>2, JoinedTwo
      <4> QED
        BY <3>2, <4>1
    <3>4. Lines("NAK", lines) <= 1
      BY <1>2, <3>3, FewLines
    <3>5. /\ \A i \in DOMAIN lines : lines[i].kind \in {"NAK", "pack"}
          /\ \A i \in DOMAIN lines : lines[i].kind = "pack" => i = Len(lines)
      BY <1>2, <3>3
    <3> QED
      BY <1>1, <2>1, <3>3, <3>4, <3>5 DEF Says, Has, AckLine
  <2>2. CASE srv.have_obj # {} /\ mode # 0
    <3>1. first = <<>> /\ second = <<ack>>
      BY <2>2 DEF Maybe
    <3> HIDE DEF first, second
    <3>2. lines = <<ack>> \o <<pack>>
      BY <1>2, <3>1, OneLine, Joined
    <3> HIDE DEF lines
    <3>3. /\ lines \in Seq(Reply) /\ Len(lines) = 2 /\ lines[1] = ack /\ lines[2] = pack
          /\ \A i \in DOMAIN lines : i = 1 \/ i = 2
      <4>1. LET s == <<ack>> \o <<pack>>
            IN  /\ s \in Seq(Reply) /\ Len(s) = 2 /\ s[1] = ack /\ s[2] = pack
                /\ \A i \in DOMAIN s : i = 1 \/ i = 2
        BY <1>2, JoinedTwo
      <4> QED
        BY <3>2, <4>1
    <3>4. Lines("NAK", lines) = 0
      BY <1>2, <3>3, FewLines DEF Has
    <3>5. /\ \A i \in DOMAIN lines : lines[i].kind = "pack" => i = Len(lines)
          /\ \A i \in DOMAIN lines : lines[i].kind = "ACK" => i + 1 = Len(lines) /\ lines[i + 1] = pack
      BY <1>2, <3>3
    <3> QED
      BY <1>1, <1>2, <2>2, <3>3, <3>4, <3>5 DEF Says
  <2>3. CASE srv.have_obj # {} /\ mode = 0
    <3>1. first = <<>> /\ second = <<>>
      BY <2>3 DEF Maybe
    <3> HIDE DEF first, second
    <3>2. lines \in Seq(Reply) /\ Len(lines) = 1 /\ \A i \in DOMAIN lines : i = 1 /\ lines[i] = pack
      BY <1>2, <3>1, OneLine, Joined
    <3> HIDE DEF lines
    <3>3. Lines("NAK", lines) = 0 /\ ~Has("NAK", lines)
      BY <1>2, <3>2, FewLines DEF Has
    <3> QED
      BY <1>1, <1>2, <2>3, <3>2, <3>3 DEF Says, AckLine
  <2> QED
    BY <2>1, <2>2, <2>3
<1> HIDE DEF lines
<1> QED
  BY <1>1, <1>3, <1>4, <1>5, Serve

\* With multi_ack, a flush is answered by a NAK, in line n, maybe after that the server is ready, and
\* at the last one by an ACK and the pack.
Flushed(s, n, ready, last) ==
  /\ n \in DOMAIN s /\ s[n].kind = "NAK"
  /\ n = IF ready THEN 2 ELSE 1
  /\ \A i \in 1..(n - 1) : s[i].kind = "ready"
  /\ Len(s) = IF last THEN n + 2 ELSE n
  /\ last => s[n + 1].kind = "ACK" /\ s[n + 2].kind = "pack"

LEMMA FlushLines ==
  ASSUME NEW ready \in BOOLEAN, NEW last \in BOOLEAN, NEW r, NEW a \in Reply, NEW s,
         ready => r \in Reply /\ r.kind = "ready", a.kind = "ACK",
         s = Maybe(ready, r) \o <<Line("NAK")>> \o IF last THEN <<a, Line("pack")>> ELSE <<>>
  PROVE  s \in Seq(Reply) /\ \E n \in Nat : Flushed(s, n, ready, last)
<1> DEFINE nak == Line("NAK")
           pack == Line("pack")
           n == IF ready THEN 2 ELSE 1
           before == Maybe(ready, r)
           after == IF last THEN <<a, pack>> ELSE <<>>
           b == before \o <<nak>>
<1>1. nak \in Reply /\ nak.kind = "NAK" /\ pack \in Reply /\ pack.kind = "pack"
  BY DEF Line, Reply
<1>2. s = b \o after
  OBVIOUS
<1> HIDE DEF nak, pack
<1>3. /\ before \in Seq(Reply) /\ Len(before) = n - 1 /\ \A i \in DOMAIN before : before[i].kind = "ready"
  BY DEF Maybe
<1>4. /\ after \in Seq(Reply) /\ Len(after) = IF last THEN 2 ELSE 0
      /\ last => after[1] = a /\ after[2] = pack
  BY <1>1
<1>5. n \in Nat \ {0}
  OBVIOUS
<1> HIDE DEF before, after
<1>6. /\ b \in Seq(Reply) /\ Len(b) = n /\ b[n] = nak
      /\ \A i \in 1..(n - 1) : b[i].kind = "ready"
  <2> HIDE DEF n
  <2>1. /\ b \in Seq(Reply) /\ Len(b) = Len(before) + 1 /\ b[Len(before) + 1] = nak
        /\ \A i \in DOMAIN before : b[i] = before[i]
    BY <1>1, <1>3, Joined
  <2>2. Len(before) + 1 = n
    BY <1>3, <1>5
  <2>3. \A i \in 1..(n - 1) : i \in DOMAIN before
    BY <1>3
  <2> HIDE DEF b
  <2> QED
    BY <1>3, <2>1, <2>2, <2>3
<1> HIDE DEF b, n
<1>7. /\ s \in Seq(Reply) /\ Len(s) = n + Len(after)
      /\ \A i \in 1..n : s[i] = b[i]
      /\ \A i \in DOMAIN after : s[n + i] = after[i]
  <2>1. /\ b \o after \in Seq(Reply) /\ Len(b \o after) = Len(b) + Len(after)
        /\ \A i \in DOMAIN b : (b \o after)[i] = b[i]
        /\ \A i \in DOMAIN after : (b \o after)[Len(b) + i] = after[i]
    <3>1. b \in Seq(Reply) /\ after \in Seq(Reply)
      BY <1>4, <1>6
    <3>2. \A t \in Seq(Reply) :
            /\ t \o after \in Seq(Reply) /\ Len(t \o after) = Len(t) + Len(after)
            /\ \A i \in DOMAIN t : (t \o after)[i] = t[i]
            /\ \A i \in DOMAIN after : (t \o after)[Len(t) + i] = after[i]
      BY <3>1, Added
    <3> QED
      BY <3>1, <3>2
  <2>2. DOMAIN b = 1..n
    BY <1>6
  <2> HIDE <1>4
  <2> QED
    BY <1>2, <1>6, <2>1, <2>2
<1>8. s[n].kind = "NAK" /\ n \in DOMAIN s /\ \A i \in 1..(n - 1) : s[i].kind = "ready"
  <2>1. n \in 1..n /\ \A i \in 1..(n - 1) : i \in 1..n
    BY <1>5
  <2>2. n <= Len(s)
    BY <1>4, <1>5, <1>7
  <2> QED
    BY <1>1, <1>5, <1>6, <1>7, <2>1, <2>2
<1>9. Len(s) = IF last THEN n + 2 ELSE n
  BY <1>4, <1>5, <1>7
<1>10. last => s[n + 1].kind = "ACK" /\ s[n + 2].kind = "pack"
  <2>1. SUFFICES ASSUME last PROVE s[n + 1].kind = "ACK" /\ s[n + 2].kind = "pack"
    OBVIOUS
  <2>2. Len(after) = 2 /\ after[1] = a /\ after[2] = pack
    BY <1>4, <2>1
  <2>3. 1 \in DOMAIN after /\ 2 \in DOMAIN after
    BY <1>4, <2>2
  <2> QED
    BY <1>1, <1>7, <2>2, <2>3
<1> QED
  BY <1>5, <1>7, <1>8, <1>9, <1>10 DEF Flushed, n

LEMMA FlushSays ==
  ASSUME mode # 0, NEW ready \in BOOLEAN, NEW last \in BOOLEAN, NEW s \in Seq(Reply), NEW n \in Nat,
         Flushed(s, n, ready, last),
         ready \/ last => srv'.have_obj # {}, last => ~running' /\ stateless,
         Head(toServer).kind = "flush"
  PROVE  Says(s)
<1>1. \A i \in DOMAIN s : /\ i \in 1..(n - 1) \/ i = n \/ (last /\ (i = n + 1 \/ i = n + 2))
                          /\ ~ready /\ ~last => i = n
  BY DEF Flushed
<1>2. \A i \in DOMAIN s : /\ s[i].kind = "NAK" => i = n
                          /\ s[i].kind = "pack" => last /\ i = n + 2
                          /\ s[i].kind = "ACK" => last /\ i = n + 1
  BY <1>1 DEF Flushed
<1>3. Lines("NAK", s) <= 1
  BY <1>2, FewLines
<1>4. srv'.have_obj = {} => \A i \in DOMAIN s : s[i].kind \in {"NAK", "pack"}
  BY <1>1 DEF Flushed
<1>5. \A i \in DOMAIN s : s[i].kind = "pack" => i = Len(s) /\ ~running'
  BY <1>2 DEF Flushed
<1>6. \A i \in DOMAIN s : s[i].kind = "ACK" => i + 1 = Len(s) /\ s[i + 1].kind = "pack"
  <2> SUFFICES ASSUME NEW i \in DOMAIN s, s[i].kind = "ACK"
               PROVE  i + 1 = Len(s) /\ s[i + 1].kind = "pack"
    OBVIOUS
  <2>1. last /\ i = n + 1
    BY <1>2
  <2>2. i + 1 = n + 2
    BY <2>1
  <2> QED
    BY <2>1, <2>2 DEF Flushed
<1>7. ~stateless => ~Has("ACK", s)
  BY <1>2 DEF Has
<1> QED
  BY <1>3, <1>4, <1>5, <1>6, <1>7 DEF Says

LEMMA ServeFlushStep ==
  ASSUME FetchIInv, ServeFlush
  PROVE  FetchIInv'
<1> DEFINE ready == /\ mode = 2 /\ srv.got_common /\ ~srv.got_other
                    /\ ok_to_give_up(srv)
           last == no_done /\ (srv.sent_ready \/ ready)
           r == Ack("ready", srv.last)
           a == Ack("ACK", srv.last)
           lines == Maybe(ready, r) \o Maybe(Naks(srv), Line("NAK"))
                      \o IF last THEN <<a, Line("pack")>> ELSE <<>>
<1>1. /\ running /\ toServer # <<>> /\ toServer' = Tail(toServer)
      /\ Head(toServer).kind = "flush" /\ UNCHANGED <<fixed, client>>
      /\ UNCHANGED <<mode, stateless, no_done, phase, got>> /\ toClient' = toClient \o lines
      /\ srv' = [srv EXCEPT !.sent_ready = @ \/ ready, !.got_common = FALSE, !.got_other = FALSE]
      /\ running' = ~(last \/ stateless)
  BY DEF ServeFlush, Gets, Answer, fixed, client, answers
<1>2. /\ srv \in Server_ /\ mode \in 0..2 /\ no_done \in BOOLEAN /\ stateless \in BOOLEAN
      /\ stateless => mode = 2
      /\ no_done => stateless
      /\ srv.sent_ready => srv.have_obj # {}
      /\ srv.got_common => srv.last # None
  BY DEF FetchIInv, FixedOK, ServerOK
<1>3. srv.sent_ready \in BOOLEAN /\ srv.got_common \in BOOLEAN /\ srv.last \in Commit \cup {None}
  BY <1>2 DEF Server_
<1>4. ready \in BOOLEAN /\ (ready => srv.have_obj # {} /\ mode = 2 /\ srv.got_common)
  BY DEF ok_to_give_up
<1>5. last \in BOOLEAN /\ (last => stateless /\ (srv.sent_ready \/ ready))
  BY <1>2, <1>3, <1>4
<1>6. /\ ready => r \in Reply /\ r.kind = "ready"
      /\ a \in Reply /\ a.kind = "ACK"
  <2>1. ready => srv.last \in Commit
    BY <1>2, <1>3, <1>4
  <2>2. a \in Reply /\ a.kind = "ACK" /\ r.kind = "ready"
    BY <1>3 DEF Ack, Reply
  <2>3. srv.last \in Commit => r \in Reply
    BY DEF Ack, Reply, AckLine
  <2> HIDE DEF ready
  <2> QED
    BY <2>1, <2>2, <2>3
<1> HIDE DEF ready, last, r, a
<1>7. /\ ServerOK' /\ srv'.have_obj = srv.have_obj
      /\ srv'.sent_ready => srv.sent_ready \/ ready
  <2> DEFINE sent == srv.sent_ready \/ ready
  <2>1. sent \in BOOLEAN /\ (sent => srv.have_obj # {})
    BY <1>2, <1>3, <1>4
  <2>2. srv' = [srv EXCEPT !.sent_ready = sent, !.got_common = FALSE, !.got_other = FALSE]
    BY <1>1
  <2>3. sent => srv.sent_ready \/ ready
    OBVIOUS
  <2> HIDE DEF sent
  <2>4. /\ srv' \in Server_ /\ srv'.they_have = srv.they_have /\ srv'.have_obj = srv.have_obj
        /\ ~srv'.got_common /\ srv'.last = srv.last /\ srv'.sent_ready = sent
    BY <1>2, <2>1, <2>2 DEF Server_
  <2>5. running' \in BOOLEAN
    BY <1>1, <1>2, <1>5
  <2> QED
    BY <2>1, <2>3, <2>4, <2>5 DEF FetchIInv, ServerOK
<1> HIDE DEF lines
<1>8. CASE mode = 0
  <2>1. ~ready /\ ~last /\ ~stateless
    BY <1>2, <1>4, <1>5, <1>8
  <2>2. Request'
    BY <1>1, <2>1 DEF Request
  <2>3. CASE srv.have_obj = {}
    <3>1. lines = <<Line("NAK")>> /\ Line("NAK") \in Reply /\ Line("NAK").kind = "NAK"
      BY <2>1, <2>3 DEF lines, Maybe, Naks, Line, Reply
    <3>2. lines \in Seq(Reply) /\ \A i \in DOMAIN lines : i = 1 /\ lines[i].kind = "NAK"
      BY <3>1, OneLine
    <3>3. Lines("NAK", lines) <= 1
      BY <3>2, FewLines
    <3>4. Says(lines)
      BY <1>1, <1>8, <2>3, <3>2, <3>3 DEF Says, Has, AckLine
    <3> QED
      BY <1>1, <1>7, <2>2, <3>4, Serve
  <2>4. CASE srv.have_obj # {}
    <3>1. lines = <<>>
      BY <1>8, <2>1, <2>4 DEF lines, Maybe, Naks
    <3>2. Lines("NAK", lines) = 0
      BY <3>1, LinesOfNone
    <3>3. Says(lines)
      BY <1>1, <1>8, <3>1, <3>2 DEF Says, Has
    <3> QED
      BY <1>1, <1>7, <2>2, <3>3, Serve
  <2> QED
    BY <2>3, <2>4
<1>9. CASE mode # 0
  <2>1. lines = Maybe(ready, r) \o <<Line("NAK")>> \o IF last THEN <<a, Line("pack")>> ELSE <<>>
    <3>1. Maybe(Naks(srv), Line("NAK")) = <<Line("NAK")>>
      BY <1>9 DEF Maybe, Naks
    <3> QED
      BY <3>1 DEF lines
  <2>2. lines \in Seq(Reply) /\ \E n \in Nat : Flushed(lines, n, ready, last)
    BY <1>4, <1>5, <1>6, <2>1, FlushLines
  <2>3. PICK n \in Nat : Flushed(lines, n, ready, last)
    BY <2>2
  <2>5. Says(lines)
    <3>1. ready \/ last => srv'.have_obj # {}
      BY <1>2, <1>4, <1>5, <1>7
    <3>2. last => ~running' /\ stateless
      BY <1>1, <1>5
    <3> QED
      BY <1>1, <1>4, <1>5, <1>9, <2>2, <2>3, <3>1, <3>2, FlushSays
  <2>4. Request'
    <3>1. SUFFICES ASSUME stateless, phase \in {"local", "rev", "done", "acks"}
                   PROVE  phase = "acks" /\ \E m \in DOMAIN toClient' : Answered(m)'
      BY <1>1 DEF Request
    <3>2. phase = "acks" /\ Answering
      BY <1>1, <3>1 DEF FetchIInv, Request, Answered
    <3>3. toServer \in Seq(ToldLine) /\ toClient \in Seq(Reply) /\ lines \in Seq(Reply)
      BY <2>2 DEF FetchIInv, PipesOK
    <3>4. toServer' = <<>>
      <4>1. 1 \in DOMAIN toServer /\ toServer[1].kind = "flush" /\ Len(toServer') = Len(toServer) - 1
        BY <1>1, <3>3, Rest
      <4>2. Len(toServer) = 1
        BY <3>2, <4>1 DEF Answering
      <4>3. toServer' \in Seq(ToldLine) /\ Len(toServer') = 0
        BY <1>1, <3>3, <4>1, <4>2, Rest
      <4> QED
        BY <4>3
    <3>5. /\ Len(toClient') = Len(toClient) + Len(lines) /\ toClient' \in Seq(Reply)
          /\ \A i \in DOMAIN toClient : toClient'[i] = toClient[i]
          /\ \A i \in DOMAIN lines : /\ Len(toClient) + i \in DOMAIN toClient'
                                     /\ toClient'[Len(toClient) + i] = lines[i]
      BY <1>1, <3>3, Added
    <3>12. PICK m \in Nat : m = Len(toClient) + n
      BY <3>3
    <3>6. /\ n \in Nat \ {0} /\ Len(toClient) \in Nat /\ Len(lines) \in Nat /\ n <= Len(lines)
      BY <2>3, <3>3 DEF Flushed
    <3>7. m \in DOMAIN toClient' /\ toClient'[m].kind = "NAK"
      BY <2>3, <3>5, <3>12 DEF Flushed
    <3>8. ASSUME NEW i \in 1..(m - 1) PROVE toClient'[i].kind \in AckLine
      <4>1. CASE i \in DOMAIN toClient
        BY <3>2, <3>5, <4>1 DEF Answering
      <4>2. CASE i \notin DOMAIN toClient
        <5>1. i - Len(toClient) \in 1..(n - 1)
          BY <3>3, <3>6, <3>12, <4>2
        <5>2. i - Len(toClient) \in DOMAIN lines /\ Len(toClient) + (i - Len(toClient)) = i
          BY <3>3, <3>6, <5>1
        <5>3. toClient'[i] = lines[i - Len(toClient)]
          BY <3>5, <5>2
        <5> QED
          BY <2>3, <5>1, <5>3 DEF AckLine, Flushed
      <4> QED
        BY <4>1, <4>2
    <3>9. ~running'
      BY <1>1, <3>1
    <3>10. CASE ~last
      <4>1. Len(toClient') = m
        BY <2>3, <3>5, <3>10, <3>12 DEF Flushed
      <4> QED
        BY <3>2, <3>4, <3>7, <3>8, <3>9, <4>1 DEF Answered
    <3>11. CASE last
      <4>1. Len(toClient') = m + 2
        BY <2>3, <3>5, <3>6, <3>11, <3>12 DEF Flushed
      <4>2. n + 1 \in DOMAIN lines /\ n + 2 \in DOMAIN lines
        BY <2>3, <3>3, <3>6, <3>11 DEF Flushed
      <4>3. /\ toClient'[Len(toClient) + (n + 1)] = lines[n + 1]
            /\ toClient'[Len(toClient) + (n + 2)] = lines[n + 2]
        BY <3>5, <4>2
      <4>4. m + 1 = Len(toClient) + (n + 1) /\ m + 2 = Len(toClient) + (n + 2)
        BY <3>6, <3>12
      <4>5. toClient'[m + 1].kind = "ACK" /\ toClient'[m + 2].kind = "pack"
        BY <2>3, <3>11, <4>3, <4>4 DEF Flushed
      <4>6. SaidReady(m - 1)'
        <5>1. CASE got.ready
          BY <1>1, <5>1 DEF SaidReady
        <5>2. CASE \E i \in 1..Len(toClient) : toClient[i].kind = "ready"
          <6>1. PICK i \in 1..Len(toClient) : toClient[i].kind = "ready"
            BY <5>2
          <6>2. i \in 1..(m - 1) /\ i \in DOMAIN toClient
            BY <3>3, <3>6, <3>12
          <6>3. toClient'[i].kind = "ready"
            BY <3>5, <6>1, <6>2
          <6> QED
            BY <6>2, <6>3 DEF SaidReady
        <5>3. CASE ready
          <6>1. n = 2 /\ lines[1].kind = "ready" /\ 1 \in DOMAIN lines
            BY <2>3, <3>3, <3>6, <5>3 DEF Flushed
          <6>2. Len(toClient) + 1 \in 1..(m - 1) /\ toClient'[Len(toClient) + 1] = lines[1]
            BY <3>5, <3>6, <3>12, <6>1
          <6>3. toClient'[Len(toClient) + 1].kind = "ready"
            BY <6>1, <6>2
          <6> QED
            BY <6>2, <6>3 DEF SaidReady
        <5> QED
          BY <1>5, <3>2, <3>11, <5>1, <5>2, <5>3 DEF Answering, SaidReady
      <4>7. no_done' /\ toServer' = <<>>
        BY <1>1, <3>4, <3>11 DEF last
      <4> QED
        BY <3>2, <3>7, <3>8, <3>9, <4>1, <4>5, <4>6, <4>7 DEF Answered
    <3> QED
      BY <3>10, <3>11
  <2> QED
    BY <1>1, <1>7, <2>4, <2>5, Serve
<1> QED
  BY <1>8, <1>9

----------------------------------------------------------------------------
LEMMA FetchInductive ==
  FetchIInv /\ [FetchNext]_fetch_vars => FetchIInv'
<1> SUFFICES ASSUME FetchIInv, [FetchNext]_fetch_vars PROVE FetchIInv'
  OBVIOUS
<1>1. ASSUME NEW c \in Commit, LocalRef(c) PROVE FetchIInv'
  BY <1>1, LocalRefStep
<1>2. CASE FindCommon
  BY <1>2, FindCommonStep
<1>3. CASE Skip
  BY <1>3, SkipStep
<1>4. CASE Have
  BY <1>4, HaveStep
<1>5. CASE GotAck
  BY <1>5, GotAckStep
<1>6. CASE GotNak
  BY <1>6, GotNakStep
<1>7. CASE GotFinal
  BY <1>7, GotFinalStep
<1>8. CASE NoRev
  BY <1>8, NoRevStep
<1>9. CASE Done
  BY <1>9, DoneStep
<1>10. CASE Final
  BY <1>10, FinalStep
<1>11. CASE GetPack
  BY <1>11, GetPackStep
<1>12. CASE ServeCommon
  BY <1>12, ServeCommonStep
<1>13. CASE ServeOther
  BY <1>13, ServeOtherStep
<1>14. CASE ServeFlush
  BY <1>14, ServeFlushStep
<1>15. CASE ServeDone
  BY <1>15, ServeDoneStep
<1>16. CASE UNCHANGED fetch_vars
  <2>1. /\ UNCHANGED <<mode, stateless, no_done, parents, ours, theirs>>
        /\ UNCHANGED <<phase, refs, rev, req, again, flushes, got, found, multi_ack>>
        /\ UNCHANGED <<running, srv, toServer, toClient>>
    BY <1>16 DEF fetch_vars, fixed, client, counters, answers
  <2>2. FixedOK' /\ ClientOK' /\ ServerOK' /\ PipesOK'
    BY <2>1 DEF FetchIInv, FixedOK, ClientOK, ServerOK, PipesOK
  <2>3. Said' /\ NoNakLeft'
    BY <2>1 DEF FetchIInv, Said, NoNakLeft, Plain, Has
  <2>4. FlushesCounted' /\ Asked'
    BY <2>1 DEF FetchIInv, FlushesCounted, Asked, BeforeDone, Plain, Lines, Has
  <2>5. Request' /\ AtPack'
    BY <2>1 DEF FetchIInv, Request, Answering, Answered, SaidReady, Leftover, AtPack
  <2> QED
    BY <2>2, <2>3, <2>4, <2>5 DEF FetchIInv
<1> QED
  BY <1>1, <1>2, <1>3, <1>4, <1>5, <1>6, <1>7, <1>8, <1>9, <1>10, <1>11, <1>12, <1>13, <1>14, <1>15,
     <1>16 DEF FetchNext, Client, Server

LEMMA FetchInvariance ==
  FetchSpec => []FetchIInv
<1>1. FetchInit => FetchIInv
  BY FetchInitially
<1>2. FetchIInv /\ [FetchNext]_fetch_vars => FetchIInv'
  BY FetchInductive
<1> QED
  BY <1>1, <1>2, PTL DEF FetchSpec

\* The variables of the client and the server, and the lines between them, are what TypeOK says.
THEOREM FetchTypes ==
  FetchSpec => []FetchTypeOK
<1>1. FetchIInv => FetchTypeOK
  <2> SUFFICES ASSUME FetchIInv PROVE FetchTypeOK
    OBVIOUS
  <2>1. /\ \A f \in {"list", "seen", "common", "popped", "ref"} : rev[f] \subseteq Commit
        /\ rev.list \subseteq rev.seen /\ rev.popped \subseteq rev.seen
    BY DEF FetchIInv, ClientOK, RevOK, Rev
  <2>2. srv.they_have \subseteq Commit /\ srv.have_obj \subseteq srv.they_have
    BY DEF FetchIInv, ServerOK, Server_
  <2>3. \A i \in DOMAIN toServer : toServer[i].kind \in {"have", "flush", "done"}
    BY DEF FetchIInv, PipesOK, ToldLine
  <2>4. \A i \in DOMAIN toClient :
          toClient[i].kind \in {"continue", "common", "ready", "ACK", "NAK", "pack"}
    BY DEF FetchIInv, PipesOK, Reply, AckLine
  <2> QED
    BY <2>1, <2>2, <2>3, <2>4 DEF FetchIInv, ClientOK, FetchTypeOK
<1> QED
  BY <1>1, FetchInvariance, PTL

\* When the client goes on to read the pack, no answer to a flush is in front of it or will be
\* (find_common(), builtin/fetch-pack.c:474), for every history, in every mode, over one connection
\* or over requests.
THEOREM ThePackIsNext ==
  FetchSpec => []PackNext
<1>1. FetchIInv => PackNext
  BY DEF FetchIInv, AtPack, PackNext
<1> QED
  BY <1>1, FetchInvariance, PTL

----------------------------------------------------------------------------
\* What the client tells.  Parents are older than their children (ClocksRight).
HistoryOK ==
  /\ parents \in [Commit -> SUBSET Commit]
  /\ \A c \in Commit : \A p \in parents[c] : Date[p] < Date[c]

----------------------------------------------------------------------------
LEMMA ReachHolds ==
  ASSUME parents \in [Commit -> SUBSET Commit], NEW cs \in SUBSET Commit
  PROVE  /\ cs \subseteq Reach(cs) /\ Reach(cs) \in SUBSET Commit
         /\ \A c \in Reach(cs) : parents[c] \subseteq Reach(cs)
<1>1. Reach(cs) \in SUBSET Commit
  BY WalkIn DEF Reach
<1> QED
  BY <1>1, WalkEnds DEF Reach

LEMMA ReachLeast ==
  ASSUME NEW cs, NEW S, cs \subseteq S, \A c \in S \cap Commit : parents[c] \subseteq S
  PROVE  Reach(cs) \subseteq S
BY WalkLeast DEF Reach

\* From what is reached no more is reached.
LEMMA ReachWithin ==
  ASSUME parents \in [Commit -> SUBSET Commit], NEW cs \in SUBSET Commit,
         NEW ds \in SUBSET Commit, cs \subseteq Reach(ds)
  PROVE  Reach(cs) \subseteq Reach(ds)
BY ReachHolds, ReachLeast

\* What some commits reach, one of them reaches.
LEMMA ReachFrom ==
  ASSUME parents \in [Commit -> SUBSET Commit], NEW cs \in SUBSET Commit, NEW x \in Reach(cs)
  PROVE  \E c \in cs : x \in Reach({c})
<1> DEFINE S == UNION {Reach({c}) : c \in cs}
<1>1. \A c \in cs : /\ c \in Reach({c})
                    /\ \A d \in Reach({c}) : parents[d] \subseteq Reach({c})
  <2> TAKE c \in cs
  <2>1. {c} \in SUBSET Commit
    OBVIOUS
  <2> QED
    BY <2>1, ReachHolds
<1>2. cs \subseteq S
  BY <1>1
<1>3. \A c \in S : parents[c] \subseteq S
  BY <1>1
<1>4. Reach(cs) \subseteq S
  <2> HIDE DEF S
  <2> QED
    BY <1>2, <1>3, ReachLeast
<1> QED
  BY <1>4

LEMMA ReachOlder ==
  ASSUME HistoryOK, NEW cs \in SUBSET Commit, NEW x \in Reach(cs)
  PROVE  x \in cs \/ \E c \in cs : Date[x] < Date[c]
<1> DEFINE S == {d \in Commit : d \in cs \/ \E c \in cs : Date[d] < Date[c]}
<1>1. Date \in [Commit -> Nat]
  BY FetchNegotiationAssumption DEF FetchNegotiationAssumption
<1>2. \A d \in S : parents[d] \subseteq S
  <2> SUFFICES ASSUME NEW d \in S, NEW p \in parents[d] PROVE p \in S
    OBVIOUS
  <2>1. d \in Commit /\ p \in Commit /\ Date[p] < Date[d]
    BY DEF HistoryOK
  <2>2. CASE d \in cs
    BY <2>1, <2>2
  <2>3. ASSUME NEW c \in cs, Date[d] < Date[c] PROVE p \in S
    <3>1. Date[p] < Date[c]
      BY <1>1, <2>1, <2>3
    <3> QED
      BY <2>1, <3>1
  <2> QED
    BY <2>2, <2>3
<1>3. cs \subseteq S
  OBVIOUS
<1>4. Reach(cs) \subseteq S
  <2> HIDE DEF S
  <2> QED
    BY <1>2, <1>3, ReachLeast
<1> QED
  BY <1>4

\* What is reached from the parents of c is older than c.
LEMMA OlderThan ==
  ASSUME HistoryOK, NEW c \in Commit, NEW x \in Reach(parents[c])
  PROVE  x \in Commit /\ Date[x] < Date[c]
<1>1. parents[c] \in SUBSET Commit /\ parents \in [Commit -> SUBSET Commit]
  BY DEF HistoryOK
<1>2. x \in Commit
  BY <1>1, ReachHolds
<1>3. x \in parents[c] \/ \E p \in parents[c] : Date[x] < Date[p]
  BY <1>1, ReachOlder
<1>4. \A p \in parents[c] : p \in Commit /\ Date[p] < Date[c]
  BY DEF HistoryOK
<1>5. Date \in [Commit -> Nat]
  BY FetchNegotiationAssumption DEF FetchNegotiationAssumption
<1> QED
  BY <1>2, <1>3, <1>4, <1>5

LEMMA ReachOfParents ==
  ASSUME parents \in [Commit -> SUBSET Commit], NEW c \in Commit
  PROVE  Reach(parents[c]) \subseteq Reach({c})
<1>1. {c} \in SUBSET Commit /\ parents[c] \in SUBSET Commit
  OBVIOUS
<1>2. parents[c] \subseteq Reach({c})
  BY <1>1, ReachHolds
<1> QED
  BY <1>1, <1>2, ReachWithin

\* What mark_common() comes to.
LEMMA MarkedReach ==
  ASSUME parents \in [Commit -> SUBSET Commit], NEW r, NEW set \in SUBSET Commit
  PROVE  /\ Marked(r, set) \subseteq Reach(set) /\ Marked(r, set) \cap r.common = {}
         /\ set \subseteq r.common \cup Marked(r, set)
<1>1. Walk(set, r.seen \ r.common) \subseteq Reach(set)
  BY ReachHolds, WalkLeast
<1>2. set \subseteq Walk(set, r.seen \ r.common)
  BY WalkEnds
<1> QED
  BY <1>1, <1>2 DEF Marked

----------------------------------------------------------------------------
\* The list: it holds what was seen and has not been told; what has been told is newer; and
\* non_common_revs is right.
Listed(r) ==
  /\ r.seen = r.list \cup r.popped /\ r.list \cap r.popped = {}
  /\ r.common \subseteq r.seen
  /\ \A c \in r.popped : parents[c] \subseteq r.seen
  /\ \A c \in r.popped, d \in r.list : Date[d] < Date[c]
  /\ r.non_common_revs = Cardinality(r.list \ r.common)

LEMMA CountBoth ==
  ASSUME NEW A \in SUBSET Commit, NEW B \in SUBSET Commit, A \cap B = {}
  PROVE  Cardinality(A \cup B) = Cardinality(A) + Cardinality(B)
<1>1. IsFiniteSet(A) /\ IsFiniteSet(B)
  BY FS_Subset, FetchNegotiationAssumption DEF FetchNegotiationAssumption
<1>2. Cardinality(A \cup B) = Cardinality(A) + Cardinality(B) - Cardinality(A \cap B)
  BY <1>1, FS_Union
<1>3. Cardinality(A \cap B) = 0
  BY FS_EmptySet
<1>4. Cardinality(A) \in Nat /\ Cardinality(B) \in Nat
  BY <1>1, FS_CardinalityType
<1> QED
  BY <1>2, <1>3, <1>4

LEMMA CountLess ==
  ASSUME NEW A \in SUBSET Commit, NEW B
  PROVE  Cardinality(A \ B) = Cardinality(A) - Cardinality(A \cap B)
<1>1. A \ B \in SUBSET Commit /\ A \cap B \in SUBSET Commit /\ (A \ B) \cap (A \cap B) = {}
  OBVIOUS
<1>2. Cardinality((A \ B) \cup (A \cap B)) = Cardinality(A \ B) + Cardinality(A \cap B)
  BY <1>1, CountBoth
<1>3. (A \ B) \cup (A \cap B) = A
  OBVIOUS
<1>4. Cardinality(A \ B) \in Nat /\ Cardinality(A \cap B) \in Nat
  BY <1>1, CountOfCommits
<1>5. Cardinality(A) = Cardinality(A \ B) + Cardinality(A \cap B)
  BY <1>2, <1>3
<1> QED
  BY <1>4, <1>5

LEMMA PushDoes ==
  ASSUME NEW r, RevOK(r), Listed(r), r.popped = {}, NEW set \in SUBSET Commit, set \cap r.seen = {}
  PROVE  LET s == rev_list_push(r, set)
         IN  /\ Listed(s) /\ s.popped = r.popped /\ s.ref = r.ref /\ s.common = r.common
             /\ s.list = r.list \cup set /\ s.seen = r.seen \cup set
<1> DEFINE s == rev_list_push(r, set)
<1>1. r \in Rev
  BY DEF RevOK
<1>2. /\ s.list = r.list \cup set /\ s.seen = r.seen \cup set /\ s.popped = r.popped
      /\ s.common = r.common /\ s.ref = r.ref
      /\ s.non_common_revs = r.non_common_revs + Cardinality(set)
  BY <1>1 DEF rev_list_push, Rev
<1> HIDE DEF s
<1>3. s.list \ s.common = (r.list \ r.common) \cup set /\ (r.list \ r.common) \cap set = {}
  BY <1>2 DEF Listed
<1>4. Cardinality(s.list \ s.common) = Cardinality(r.list \ r.common) + Cardinality(set)
  <2>1. r.list \ r.common \in SUBSET Commit
    BY <1>1 DEF Rev
  <2> QED
    BY <1>3, <2>1, CountBoth
<1>5. Listed(s)
  BY <1>2, <1>4 DEF Listed
<1> QED
  BY <1>2, <1>5 DEF s

----------------------------------------------------------------------------
\* mark_common() of commits that have been seen, or before any has been told.
LEMMA MarkDoes ==
  ASSUME HistoryOK, NEW r, RevOK(r), Listed(r), NEW set \in SUBSET Commit,
         set \subseteq r.seen \/ r.popped = {}
  PROVE  LET m == mark_common(r, set)
         IN  /\ Listed(m) /\ m.popped = r.popped /\ m.ref = r.ref
             /\ r.list \subseteq m.list /\ r.seen \subseteq m.seen
             /\ r.common \subseteq m.common /\ set \subseteq m.common
             /\ m.common \ r.common \subseteq Reach(set)
<1> DEFINE m == mark_common(r, set)
           marked == Marked(r, set)
<1>1. r \in Rev /\ parents \in [Commit -> SUBSET Commit]
  BY DEF RevOK, HistoryOK
<1>2. /\ marked \in SUBSET Commit /\ marked \subseteq Reach(set) /\ marked \cap r.common = {}
      /\ set \subseteq r.common \cup marked
  BY <1>1, MarkedIn, MarkedReach
<1>3. /\ m.list = r.list \cup (marked \ r.seen) /\ m.seen = r.seen \cup marked
      /\ m.common = r.common \cup marked /\ m.popped = r.popped /\ m.ref = r.ref
      /\ m.non_common_revs = r.non_common_revs - Uncounted(r, marked)
  <2> HIDE DEF marked
  <2> SUFFICES m = [r EXCEPT !.list = @ \cup (marked \ r.seen), !.seen = @ \cup marked,
                             !.common = @ \cup marked,
                             !.non_common_revs = @ - Uncounted(r, marked)]
    BY <1>1 DEF Rev
  <2> QED
    BY DEF mark_common, marked
<1>4. ASSUME NEW x \in marked \ r.seen, NEW p \in r.popped PROVE Date[x] < Date[p]
  <2> DEFINE S == {d \in Commit : d \in r.seen \/ \A q \in r.popped : Date[d] < Date[q]}
  <2>1. set \subseteq S
    BY <1>4
  <2>2. ASSUME NEW d \in S \cap (r.seen \ r.common) PROVE parents[d] \subseteq S
    <3>1. d \in Commit /\ parents[d] \subseteq Commit
      BY <1>1
    <3>2. CASE d \in r.popped
      BY <3>1, <3>2 DEF Listed
    <3>3. CASE d \in r.list
      <4> SUFFICES ASSUME NEW y \in parents[d], NEW q \in r.popped PROVE Date[y] < Date[q]
        BY <3>1
      <4>1. Date[y] < Date[d] /\ Date[d] < Date[q]
        BY <3>1, <3>3 DEF HistoryOK, Listed
      <4>2. y \in Commit /\ q \in Commit /\ Date \in [Commit -> Nat]
        BY <1>1, <3>1, FetchNegotiationAssumption DEF FetchNegotiationAssumption, Rev
      <4> QED
        BY <3>1, <4>1, <4>2
    <3> QED
      BY <3>2, <3>3 DEF Listed
  <2>3. marked \subseteq S
    <3> HIDE DEF S
    <3>1. \A d \in S \cap (r.seen \ r.common) : parents[d] \subseteq S
      BY <2>2
    <3>2. Walk(set, r.seen \ r.common) \subseteq S
      BY <2>1, <3>1, WalkLeast
    <3> QED
      BY <3>2 DEF Marked
  <2> QED
    BY <1>4, <2>3
<1>5. m.non_common_revs = Cardinality(m.list \ m.common)
  <2> DEFINE A == r.list \ r.common
  <2>1. m.list \ m.common = A \ marked
    BY <1>3
  <2>2. (marked \cap r.seen) \ r.popped = A \cap marked
    BY <1>2 DEF Listed
  <2>3. A \in SUBSET Commit
    BY <1>1 DEF Rev
  <2>4. Cardinality(A \ marked) = Cardinality(A) - Cardinality(A \cap marked)
    <3> HIDE DEF A, marked
    <3> QED
      BY <2>3, CountLess
  <2>5. r.non_common_revs = Cardinality(A)
    BY DEF Listed
  <2> QED
    BY <1>3, <2>1, <2>2, <2>4, <2>5 DEF Uncounted
<1>6. Listed(m)
  <2> HIDE DEF m, marked
  <2>1. m.seen = m.list \cup m.popped /\ m.list \cap m.popped = {} /\ m.common \subseteq m.seen
    BY <1>2, <1>3 DEF Listed
  <2>2. \A c \in m.popped : parents[c] \subseteq m.seen
    BY <1>3 DEF Listed
  <2>3. \A c \in m.popped, d \in m.list : Date[d] < Date[c]
    BY <1>3, <1>4 DEF Listed
  <2> QED
    BY <1>5, <2>1, <2>2, <2>3 DEF Listed
<1> HIDE DEF m, marked
<1>7. /\ r.list \subseteq m.list /\ r.seen \subseteq m.seen /\ r.common \subseteq m.common
      /\ set \subseteq m.common /\ m.common \ r.common \subseteq Reach(set)
  BY <1>2, <1>3
<1> QED
  BY <1>3, <1>6, <1>7 DEF m

\* A round of get_rev(): the newest commit leaves the list, and what becomes COMMON is older.
LEMMA PopDoes ==
  ASSUME HistoryOK, NEW r, RevOK(r), Listed(r), r.list # {}
  PROVE  LET c == Newest(r.list)
             s == pop_rev(r)
         IN  /\ c \in r.list /\ c \in Commit
             /\ Listed(s) /\ s.popped = r.popped \cup {c} /\ s.ref = r.ref
             /\ r.list \ {c} \subseteq s.list /\ r.seen \subseteq s.seen
             /\ r.common \subseteq s.common
             /\ s.common \ r.common \subseteq IF c \in r.common \cup r.ref THEN Reach(parents[c]) ELSE {}
<1> DEFINE c == Newest(r.list)
           s == pop_rev(r)
           stop == c \in r.common \cup r.ref
           new == parents[c] \ r.seen
           above == Above(r, parents[c])
           marked == IF stop THEN Marked(r, above) ELSE {}
           left == r.list \cup new \cup (marked \ r.seen)
<1>1. r \in Rev /\ r.list \in SUBSET Commit /\ parents \in [Commit -> SUBSET Commit]
      /\ Date \in [Commit -> Nat]
  BY FetchNegotiationAssumption DEF FetchNegotiationAssumption, RevOK, Rev, HistoryOK
<1>2. c \in r.list /\ c \in Commit /\ \A d \in r.list : Date[d] <= Date[c]
  BY <1>1, NewestIn
<1>3. parents[c] \in SUBSET Commit /\ parents[c] \subseteq Reach(parents[c])
  BY <1>1, <1>2, ReachHolds
<1>4. marked \in SUBSET Commit /\ marked \subseteq Reach(parents[c]) /\ marked \cap r.common = {}
  <2>1. above \subseteq Reach(parents[c])
    BY <1>1, <1>3, ReachHolds DEF Above
  <2>2. above \in SUBSET Commit
    BY <1>1, <1>3 DEF Above
  <2>3. Marked(r, above) \in SUBSET Commit /\ Marked(r, above) \subseteq Reach(above)
        /\ Marked(r, above) \cap r.common = {}
    BY <1>1, <2>2, MarkedIn, MarkedReach
  <2>4. Reach(above) \subseteq Reach(parents[c])
    BY <1>1, <1>3, <2>1, <2>2, ReachWithin
  <2> QED
    BY <2>3, <2>4
<1> HIDE DEF above
<1>5. \A x \in new \cup marked : x \in Commit /\ Date[x] < Date[c] /\ x # c
  <2> SUFFICES ASSUME NEW x \in new \cup marked PROVE x \in Commit /\ Date[x] < Date[c] /\ x # c
    OBVIOUS
  <2>1. x \in Reach(parents[c])
    BY <1>3, <1>4
  <2>2. x \in Commit /\ Date[x] < Date[c]
    BY <1>2, <2>1, OlderThan
  <2> QED
    BY <1>1, <1>2, <2>2
<1> DEFINE e == Newest(left)
<1>6. e = c
  <2>1. left \in SUBSET Commit /\ left # {} /\ c \in left
    BY <1>1, <1>2, <1>3, <1>4
  <2>2. \A d \in left : Date[d] <= Date[c]
    BY <1>1, <1>2, <1>5
  <2> HIDE DEF left, c
  <2>3. e \in left /\ Date[c] <= Date[e]
    BY <2>1, NewestIn
  <2>4. Date[e] <= Date[c] /\ e \in Commit /\ c \in Commit
    BY <1>2, <2>1, <2>2, <2>3
  <2>5. Date[e] = Date[c]
    BY <1>1, <2>3, <2>4
  <2> QED
    BY <1>1, <2>4, <2>5, FetchNegotiationAssumption DEF FetchNegotiationAssumption, IsInjective
<1>7. /\ s.list = left \ {c} /\ s.seen = r.seen \cup new \cup marked
      /\ s.common = r.common \cup marked \cup (IF stop THEN new ELSE {})
      /\ s.popped = r.popped \cup {c} /\ s.ref = r.ref
      /\ s.non_common_revs = r.non_common_revs - Cardinality({c} \ r.common) - Uncounted(r, marked)
                               + (IF stop THEN 0 ELSE Cardinality(new))
  <2>1. s = [r EXCEPT !.list = left \ {e},
                      !.seen = @ \cup new \cup marked,
                      !.common = @ \cup marked \cup (IF stop THEN new ELSE {}),
                      !.popped = @ \cup {c},
                      !.non_common_revs = @ - Cardinality({c} \ r.common) - Uncounted(r, marked)
                                            + (IF stop THEN 0 ELSE Cardinality(new))]
    BY DEF pop_rev, above
  <2> HIDE DEF s, e, c, new, marked, left, stop
  <2> QED
    BY <1>1, <1>6, <2>1 DEF Rev
<1> HIDE DEF s, e
<1>8. s.list \cap s.popped = {} /\ s.seen = s.list \cup s.popped /\ s.common \subseteq s.seen
  <2>1. new \cap r.popped = {} /\ (marked \ r.seen) \cap r.popped = {}
    BY DEF Listed
  <2> HIDE DEF c, new, marked, stop
  <2> QED
    BY <1>2, <1>7, <2>1 DEF Listed
<1>9. \A x \in s.popped : parents[x] \subseteq s.seen
  BY <1>7 DEF Listed
<1>10. \A x \in s.popped, d \in s.list : Date[d] < Date[x]
  <2> SUFFICES ASSUME NEW x \in s.popped, NEW d \in s.list PROVE Date[d] < Date[x]
    OBVIOUS
  <2>1. d \in left /\ d # c /\ d \in Commit /\ x \in Commit
    <3> HIDE DEF c
    <3> QED
      BY <1>1, <1>2, <1>3, <1>4, <1>7 DEF Rev
  <2>2. Date[d] < Date[c]
    <3>1. Date[d] <= Date[c]
      BY <1>1, <1>2, <1>5, <2>1
    <3>2. Date[d] # Date[c]
      BY <1>2, <2>1, FetchNegotiationAssumption DEF FetchNegotiationAssumption, IsInjective
    <3> QED
      BY <1>1, <1>2, <2>1, <3>1, <3>2
  <2>3. CASE x = c
    BY <2>2, <2>3
  <2>4. CASE x \in r.popped
    <3>1. Date[c] < Date[x]
      BY <1>2, <2>4 DEF Listed
    <3> QED
      BY <1>1, <1>2, <2>1, <2>2, <3>1
  <2> QED
    BY <1>7, <2>3, <2>4
<1>11. s.non_common_revs = Cardinality(s.list \ s.common)
  <2> DEFINE A == r.list \ r.common
             B == A \ {c}
  <2>1. A \in SUBSET Commit /\ B \in SUBSET Commit /\ r.non_common_revs = Cardinality(A)
    BY <1>1 DEF Listed
  <2>2. Cardinality(B) = Cardinality(A) - Cardinality({c} \ r.common)
    <3>1. A \cap {c} = {c} \ r.common
      BY <1>2
    <3>2. Cardinality(A \ {c}) = Cardinality(A) - Cardinality(A \cap {c})
      BY <2>1, CountLess
    <3> QED
      BY <3>1, <3>2
  <2>3. CASE stop
    <3>1. s.list \ s.common = B \ marked
      <4>1. new \cap r.list = {}
        BY DEF Listed
      <4> HIDE DEF c, new, marked, stop
      <4> QED
        BY <1>7, <2>3, <4>1
    <3>2. (marked \cap r.seen) \ r.popped = B \cap marked
      BY <1>4, <1>5 DEF Listed
    <3>3. Cardinality(B \ marked) = Cardinality(B) - Cardinality(B \cap marked)
      <4> HIDE DEF B, marked
      <4> QED
        BY <2>1, CountLess
    <3>4. s.non_common_revs = Cardinality(A) - Cardinality({c} \ r.common) - Cardinality(B \cap marked) + 0
      <4>1. Uncounted(r, marked) = Cardinality(B \cap marked)
        BY <3>2 DEF Uncounted
      <4> HIDE DEF A, B, c, marked, new
      <4> QED
        BY <1>7, <2>1, <2>3, <4>1
    <3>5. {c} \ r.common \in SUBSET Commit /\ B \cap marked \in SUBSET Commit
      BY <1>2, <1>4
    <3>6. /\ Cardinality(A) \in Nat /\ Cardinality({c} \ r.common) \in Nat
          /\ Cardinality(B \cap marked) \in Nat
      <4> HIDE DEF A, B, c, marked
      <4> QED
        BY <2>1, <3>5, CountOfCommits
    <3>7. Cardinality(s.list \ s.common) = Cardinality(B) - Cardinality(B \cap marked)
      BY <3>1, <3>3
    <3> HIDE DEF A, B, c, marked
    <3> QED
      BY <2>2, <3>4, <3>6, <3>7
  <2>4. CASE ~stop
    <3>1. marked = {} /\ new \cap r.common = {} /\ new \cap B = {} /\ c \notin new
      BY <1>5, <2>4 DEF Listed
    <3>2. s.list \ s.common = B \cup new
      <4> HIDE DEF c, new, marked
      <4> QED
        BY <1>7, <2>4, <3>1
    <3>3. new \in SUBSET Commit
      BY <1>3
    <3>4. Cardinality(B \cup new) = Cardinality(B) + Cardinality(new)
      <4> HIDE DEF B, new
      <4> QED
        BY <2>1, <3>1, <3>3, CountBoth
    <3>5. Uncounted(r, marked) = 0
      <4>1. (marked \cap r.seen) \ r.popped = {}
        BY <3>1
      <4> QED
        BY <4>1, FS_EmptySet DEF Uncounted
    <3>6. s.non_common_revs = Cardinality(A) - Cardinality({c} \ r.common) - 0 + Cardinality(new)
      <4> HIDE DEF A, B, c, marked, new
      <4> QED
        BY <1>7, <2>1, <2>4, <3>5
    <3>7. {c} \ r.common \in SUBSET Commit
      BY <1>2
    <3>8. /\ Cardinality(A) \in Nat /\ Cardinality({c} \ r.common) \in Nat
          /\ Cardinality(new) \in Nat
      <4> HIDE DEF A, c, new
      <4> QED
        BY <2>1, <3>3, <3>7, CountOfCommits
    <3>9. Cardinality(s.list \ s.common) = Cardinality(B) + Cardinality(new)
      BY <3>2, <3>4
    <3> HIDE DEF A, B, c, marked, new
    <3> QED
      BY <2>2, <3>6, <3>8, <3>9
  <2> QED
    BY <2>3, <2>4
<1>12. Listed(s)
  BY <1>8, <1>9, <1>10, <1>11 DEF Listed
<1>13. /\ r.list \ {c} \subseteq s.list /\ r.seen \subseteq s.seen /\ r.common \subseteq s.common
       /\ s.common \ r.common \subseteq IF stop THEN Reach(parents[c]) ELSE {}
  <2>1. new \subseteq Reach(parents[c])
    BY <1>3
  <2>2. ~stop => marked = {}
    OBVIOUS
  <2> HIDE DEF c, new, marked, stop
  <2> QED
    BY <1>4, <1>7, <2>1, <2>2
<1> HIDE DEF c
<1> QED
  BY <1>2, <1>7, <1>12, <1>13 DEF s, c

----------------------------------------------------------------------------
\* What is reached by way of h, as the least set with the parents of its members.  Other than Reach it
\* does not speak of a state.
Down(h, cs) ==
  {x \in Commit : \A S \in SUBSET Commit : cs \subseteq S /\ (\A c \in S : h[c] \subseteq S) => x \in S}

LEMMA DownIs ==
  ASSUME parents \in [Commit -> SUBSET Commit], NEW cs \in SUBSET Commit
  PROVE  Reach(cs) = Down(parents, cs)
<1>1. Reach(cs) \in SUBSET Commit /\ cs \subseteq Reach(cs)
      /\ \A c \in Reach(cs) : parents[c] \subseteq Reach(cs)
  BY ReachHolds
<1>2. \A S \in SUBSET Commit :
        cs \subseteq S /\ (\A c \in S : parents[c] \subseteq S) => Reach(cs) \subseteq S
  BY ReachLeast
<1> QED
  BY <1>1, <1>2 DEF Down

LEMMA DownHolds ==
  ASSUME parents \in [Commit -> SUBSET Commit], NEW cs \in SUBSET Commit
  PROVE  /\ cs \subseteq Down(parents, cs) /\ Down(parents, cs) \in SUBSET Commit
         /\ \A c \in Down(parents, cs) : parents[c] \subseteq Down(parents, cs)
BY DownIs, ReachHolds

LEMMA DownWithin ==
  ASSUME parents \in [Commit -> SUBSET Commit], NEW cs \in SUBSET Commit, NEW ds \in SUBSET Commit,
         cs \subseteq Down(parents, ds)
  PROVE  Down(parents, cs) \subseteq Down(parents, ds)
BY DownIs, ReachWithin

LEMMA DownMore ==
  ASSUME parents \in [Commit -> SUBSET Commit], NEW cs \in SUBSET Commit, NEW ds \in SUBSET Commit,
         cs \subseteq ds
  PROVE  Down(parents, cs) \subseteq Down(parents, ds)
BY DownHolds, DownWithin

LEMMA DownFrom ==
  ASSUME parents \in [Commit -> SUBSET Commit], NEW cs \in SUBSET Commit,
         NEW x \in Down(parents, cs)
  PROVE  \E c \in cs : x \in Down(parents, {c})
<1>1. PICK c \in cs : x \in Reach({c})
  BY DownIs, ReachFrom
<1>2. {c} \in SUBSET Commit
  OBVIOUS
<1> QED
  BY <1>1, <1>2, DownIs

\* What is reached from c is c, or older.
LEMMA DownOlder ==
  ASSUME HistoryOK, NEW c \in Commit, NEW x \in Down(parents, {c})
  PROVE  x = c \/ Date[x] < Date[c]
<1>1. {c} \in SUBSET Commit /\ parents \in [Commit -> SUBSET Commit]
  BY DEF HistoryOK
<1>2. x \in Reach({c})
  BY <1>1, DownIs
<1> QED
  BY <1>1, <1>2, ReachOlder

LEMMA DownOfParents ==
  ASSUME parents \in [Commit -> SUBSET Commit], NEW c \in Commit
  PROVE  Reach(parents[c]) \subseteq Down(parents, {c})
<1>1. {c} \in SUBSET Commit
  OBVIOUS
<1> QED
  BY <1>1, DownIs, ReachOfParents

----------------------------------------------------------------------------
\* The commits of the lines of a kind.
CommitsIn(k, s) == {s[i].commit : i \in {j \in DOMAIN s : s[j].kind = k}}

LEMMA CommitsAdded ==
  ASSUME NEW S, NEW s \in Seq(S), NEW t \in Seq(S), NEW k
  PROVE  CommitsIn(k, s \o t) = CommitsIn(k, s) \cup CommitsIn(k, t)
<1> DEFINE u == s \o t
<1>1. /\ \A i \in DOMAIN s : i \in DOMAIN u /\ u[i] = s[i]
      /\ \A i \in DOMAIN t : Len(s) + i \in DOMAIN u /\ u[Len(s) + i] = t[i]
      /\ \A i \in DOMAIN u : i \notin DOMAIN s => i - Len(s) \in DOMAIN t /\ u[i] = t[i - Len(s)]
  BY Added
<1> HIDE DEF u
<1>2. \A x \in CommitsIn(k, u) : x \in CommitsIn(k, s) \cup CommitsIn(k, t)
  BY <1>1 DEF CommitsIn
<1>3. \A x \in CommitsIn(k, s) \cup CommitsIn(k, t) : x \in CommitsIn(k, u)
  BY <1>1 DEF CommitsIn
<1>4. CommitsIn(k, u) = CommitsIn(k, s) \cup CommitsIn(k, t)
  BY <1>2, <1>3
<1> QED
  BY <1>4 DEF u

LEMMA CommitsOfRest ==
  ASSUME NEW S, NEW s \in Seq(S), s # <<>>, NEW k
  PROVE  CommitsIn(k, s) = CommitsIn(k, Tail(s))
                             \cup (IF Head(s).kind = k THEN {Head(s).commit} ELSE {})
<1> DEFINE t == Tail(s)
<1>1. /\ Head(s) = s[1] /\ 1 \in DOMAIN s
      /\ \A i \in DOMAIN t : i + 1 \in DOMAIN s /\ t[i] = s[i + 1]
      /\ \A i \in DOMAIN s : i # 1 => i - 1 \in DOMAIN t /\ s[i] = t[i - 1]
  BY Rest
<1> HIDE DEF t
<1>2. \A x \in CommitsIn(k, s) : x \in CommitsIn(k, t) \cup (IF Head(s).kind = k THEN {Head(s).commit} ELSE {})
  BY <1>1 DEF CommitsIn
<1>3. \A x \in CommitsIn(k, t) \cup (IF Head(s).kind = k THEN {Head(s).commit} ELSE {}) : x \in CommitsIn(k, s)
  BY <1>1 DEF CommitsIn
<1> QED
  BY <1>2, <1>3 DEF t

LEMMA CommitsOfOne ==
  ASSUME NEW k, NEW line
  PROVE  /\ CommitsIn(k, <<line>>) = (IF line.kind = k THEN {line.commit} ELSE {})
         /\ CommitsIn(k, <<>>) = {}
BY DEF CommitsIn

LEMMA CommitsTold ==
  ASSUME NEW s \in Seq(ToldLine)
  PROVE  CommitsIn("have", s) \in SUBSET Commit
<1>1. \A i \in DOMAIN s : s[i] \in ToldLine
  OBVIOUS
<1>2. \A l \in ToldLine : l.kind = "have" => l.commit \in Commit
  BY DEF ToldLine
<1> QED
  BY <1>1, <1>2 DEF CommitsIn

\* What a request tells.
LEMMA CommitsOfHaves ==
  ASSUME NEW cs \in Seq(Commit), NEW k \in {"flush", "done"}
  PROVE  /\ CommitsIn("have", Haves(cs)) = ToSet(cs)
         /\ CommitsIn("have", Append(Haves(cs), Line(k))) = ToSet(cs)
<1> DEFINE h == Haves(cs)
<1>1. h \in Seq(ToldLine) /\ DOMAIN h = DOMAIN cs
      /\ \A i \in DOMAIN h : h[i].kind = "have" /\ h[i].commit = cs[i]
  <2>1. h \in Seq(ToldLine)
    BY HavesOK
  <2>2. h = [i \in DOMAIN cs |-> [kind |-> "have", commit |-> cs[i]]]
    BY DEF Haves
  <2> QED
    BY <2>1, <2>2
<1>2. Line(k) \in ToldLine /\ Line(k).kind # "have"
  BY DEF Line, ToldLine
<1> HIDE DEF h
<1>3. CommitsIn("have", h) = ToSet(cs)
  BY <1>1 DEF CommitsIn, ToSet
<1>4. Append(h, Line(k)) = h \o <<Line(k)>> /\ <<Line(k)>> \in Seq(ToldLine)
  BY <1>1, <1>2
<1>5. CommitsIn("have", h \o <<Line(k)>>) = CommitsIn("have", h) \cup CommitsIn("have", <<Line(k)>>)
  <2> DEFINE last == <<Line(k)>>
  <2>1. h \in Seq(ToldLine) /\ last \in Seq(ToldLine)
    BY <1>1, <1>4
  <2> HIDE DEF last
  <2>2. CommitsIn("have", h \o last) = CommitsIn("have", h) \cup CommitsIn("have", last)
    BY <2>1, CommitsAdded
  <2> QED
    BY <2>2 DEF last
<1>6. CommitsIn("have", <<Line(k)>>) = {}
  BY <1>2, CommitsOfOne
<1> QED
  BY <1>3, <1>4, <1>5, <1>6 DEF h

----------------------------------------------------------------------------
\* What the server has (ServerHas).
Theirs == Down(parents, theirs)

\* The commits that the client is going to tell in its next lines; with those under way; and with
\* those whose answer it has not read.
Unsent == IF phase \in BeforeDone THEN ToSet(req) ELSE {}
Pending == CommitsIn("have", toServer) \cup Unsent
InFlight == Pending \cup CommitsIn("common", toClient)

\* What makes the server know of common commits: what it has been told of, or will be.  While servers
\* come and go that is what the client repeats to each.
Base == (Pending \cap Theirs)
        \cup (IF stateless /\ phase \in BeforeDone
              THEN acked \cup CommitsIn("common", toClient) ELSE srv.have_obj)

\* With the refs that both sides have and that are still to be told.
Witness == Base \cup ((rev.list \cap rev.ref) \ rev.common)

----------------------------------------------------------------------------
TellFixed == HistoryOK /\ rev.ref \cup refs \cup wants \subseteq theirs

\* A server that has stopped has read everything.
Stopped ==
  /\ ~running => toServer = <<>>
  /\ phase \in BeforeDone /\ ~stateless => running
  /\ \A i \in DOMAIN toServer :
       toServer[i].kind = "done" \/ (stateless /\ toServer[i].kind # "have") => i = Len(toServer)

ListRight ==
  /\ Listed(rev)
  /\ phase = "local" => rev.popped = {}
  /\ phase # "local" => ours \subseteq rev.seen

\* A commit that was told and that the server has is reached from what the server knows, or will.
ToldKnown == (rev.popped \cap Theirs) \ rev.common \subseteq Down(parents, Base)

\* So is what is COMMON, unless the server acknowledged what it does not have (which it does
\* with multi_ack, to make the client stop).
CommonKnown == rev.common \subseteq Theirs => rev.common \subseteq Down(parents, Witness)

\* What the server knows and has said.
Served ==
  /\ srv.they_have \subseteq Down(parents, srv.have_obj)
  /\ Pending \cup CommitsIn("common", toClient) \cup CommitsIn("continue", toClient) \cup acked
       \subseteq rev.popped
  /\ CommitsIn("common", toClient) \cup acked # {} => mode = 2
  /\ CommitsIn("continue", toClient) # {} => mode = 1
  /\ CommitsIn("common", toClient) \subseteq Theirs
  /\ (CommitsIn("common", toClient) \cup CommitsIn("continue", toClient)) \cap Theirs
       \subseteq Down(parents, srv.have_obj)
  /\ ~stateless => acked \subseteq Down(parents, srv.have_obj)

\* What is told in every request covers what has been acknowledged; what will be acknowledged and is not
\* going to be replayed, as it is COMMON, is covered already.
Replays ==
  stateless =>
    /\ ToSet(again) \subseteq rev.popped \cap Theirs
    /\ acked \cup (InFlight \cap rev.common) \subseteq Down(parents, ToSet(again))
    /\ phase \notin BeforeDone => ToSet(again) \subseteq Down(parents, Base)

\* None of it matters once the server is ready: then the client stops telling.
Telling == ListRight /\ ToldKnown /\ CommonKnown /\ Served /\ Replays

TellIInv == TellFixed /\ Stopped /\ (~got.ready => Telling)

----------------------------------------------------------------------------
LEMMA TellTypes ==
  ASSUME FetchIInv, TellIInv
  PROVE  /\ parents \in [Commit -> SUBSET Commit] /\ HistoryOK
         /\ Theirs \in SUBSET Commit /\ ServerHas = Theirs
         /\ srv.have_obj \in SUBSET Commit
         /\ rev.list \in SUBSET Commit /\ rev.common \in SUBSET Commit /\ rev.popped \in SUBSET Commit
         /\ rev.ref \in SUBSET Commit /\ ToSet(again) \in SUBSET Commit /\ ToSet(req) \in SUBSET Commit
         /\ CommitsIn("have", toServer) \in SUBSET Commit
         /\ theirs \subseteq Theirs /\ theirs \in SUBSET Commit
<1>1. parents \in [Commit -> SUBSET Commit] /\ HistoryOK /\ theirs \in SUBSET Commit
  BY DEF FetchIInv, FixedOK, TellIInv, TellFixed
<1>2. Theirs \in SUBSET Commit /\ ServerHas = Theirs /\ theirs \subseteq Theirs
  BY <1>1, DownIs, DownHolds DEF Theirs, ServerHas
<1>3. srv.have_obj \in SUBSET Commit
  BY DEF FetchIInv, ServerOK, Server_
<1>4. /\ rev.list \in SUBSET Commit /\ rev.common \in SUBSET Commit /\ rev.popped \in SUBSET Commit
      /\ rev.ref \in SUBSET Commit
  BY DEF FetchIInv, ClientOK, RevOK, Rev
<1>5. ToSet(again) \in SUBSET Commit /\ ToSet(req) \in SUBSET Commit
  <2>1. again \in Seq(Commit) /\ req \in Seq(Commit)
    BY DEF FetchIInv, ClientOK
  <2> QED
    BY <2>1 DEF ToSet
<1>6. CommitsIn("have", toServer) \in SUBSET Commit
  BY CommitsTold DEF FetchIInv, PipesOK
<1> QED
  BY <1>1, <1>2, <1>3, <1>4, <1>5, <1>6

LEMMA BaseIn ==
  ASSUME FetchIInv, TellIInv, Served
  PROVE  Base \in SUBSET Commit /\ Witness \in SUBSET Commit
BY TellTypes DEF Base, Witness, Served

\* The walk from what is COMMON now ends where it did.
LEMMA CommonStays ==
  ASSUME FetchIInv, TellIInv, Served, CommonKnown, NEW com \in SUBSET Commit, NEW W \in SUBSET Commit,
         rev.common \subseteq com, com \subseteq Theirs, com \ rev.common \subseteq Down(parents, W),
         Witness \subseteq Down(parents, W)
  PROVE  com \subseteq Down(parents, W)
<1>1. parents \in [Commit -> SUBSET Commit] /\ Witness \in SUBSET Commit
  BY TellTypes, BaseIn
<1>2. Down(parents, Witness) \subseteq Down(parents, W)
  BY <1>1, DownWithin
<1> QED
  BY <1>2 DEF CommonKnown

----------------------------------------------------------------------------
\* A step of the client that changes nothing but what it waits for.
LEMMA TellQuiet ==
  ASSUME FetchIInv, TellIInv,
         UNCHANGED <<parents, ours, theirs, wants, mode, stateless>>,
         UNCHANGED <<rev, req, again, got, acked, running, srv, toServer>>, refs' \subseteq refs,
         phase \in BeforeDone <=> phase' \in BeforeDone, phase = "local" <=> phase' = "local",
         CommitsIn("common", toClient') \subseteq CommitsIn("common", toClient),
         CommitsIn("continue", toClient') \subseteq CommitsIn("continue", toClient),
         phase \in BeforeDone => CommitsIn("common", toClient') = CommitsIn("common", toClient)
  PROVE  TellIInv'
<1>1. TellFixed' /\ Stopped'
  BY DEF TellIInv, TellFixed, HistoryOK, Stopped
<1>2. Theirs' = Theirs /\ Pending' = Pending /\ Base' = Base /\ Witness' = Witness
      /\ InFlight' \subseteq InFlight
  <2>1. Theirs' = Theirs /\ Pending' = Pending
    BY DEF Theirs, Pending, Unsent
  <2>2. Base' = Base
    BY <2>1 DEF Base
  <2> QED
    BY <2>1, <2>2 DEF Witness, InFlight
<1>3. ASSUME ~got.ready PROVE Telling'
  <2>1. ListRight /\ ToldKnown /\ CommonKnown /\ Served /\ Replays
    BY <1>3 DEF TellIInv, Telling
  <2>2. ListRight'
    BY <2>1 DEF ListRight, Listed
  <2>3. ToldKnown' /\ CommonKnown'
    BY <1>2, <2>1 DEF ToldKnown, CommonKnown
  <2>4. Served'
    BY <1>2, <2>1 DEF Served
  <2>5. Replays'
    BY <1>2, <2>1 DEF Replays
  <2> QED
    BY <2>2, <2>3, <2>4, <2>5 DEF Telling
<1> QED
  BY <1>1, <1>3 DEF TellIInv

\* A change of the list, in which the commits that are to be told may grow by those that leave it.
LEMMA TellList ==
  ASSUME FetchIInv, TellIInv, ~got.ready, NEW told \in SUBSET Commit, NEW gone \in SUBSET Commit,
         UNCHANGED <<parents, ours, theirs, wants, mode, stateless>>,
         UNCHANGED <<again, got, acked, toClient>>, refs' \subseteq refs,
         phase \in BeforeDone, phase' \in BeforeDone,
         srv' = srv \/ (stateless /\ srv' = NewServer /\ toClient = <<>>),
         Pending \cup told \subseteq Pending',
         Pending' \subseteq Pending \cup told \cup (IF stateless THEN ToSet(again) ELSE {}),
         RevOK(rev'), Listed(rev'), rev'.popped = rev.popped \cup gone,
         told \subseteq gone, gone \subseteq told \cup rev'.common, told \cap rev'.common = {},
         rev.common \subseteq rev'.common, rev'.common \cap rev'.popped \subseteq rev.common,
         rev'.ref \subseteq theirs, Stopped',
         phase' = "local" => rev'.popped = {},
         phase' # "local" => ours \subseteq rev'.seen,
         rev'.common \subseteq Theirs =>
           /\ rev'.common \ rev.common \subseteq Down(parents, Witness')
           /\ Witness \subseteq Down(parents, Witness')
  PROVE  TellIInv'
<1>1. ListRight /\ ToldKnown /\ CommonKnown /\ Served /\ Replays
  BY DEF TellIInv, Telling
<1>2. /\ parents \in [Commit -> SUBSET Commit] /\ Theirs \in SUBSET Commit
      /\ Base \in SUBSET Commit /\ ToSet(again) \in SUBSET Commit
      /\ rev.popped \in SUBSET Commit
  BY <1>1, TellTypes, BaseIn
<1>3. Theirs' = Theirs
  BY DEF Theirs
<1>4. TellFixed' /\ ListRight'
  BY DEF TellIInv, TellFixed, HistoryOK, ListRight, Listed
<1>5. rev'.common \in SUBSET Commit /\ rev'.list \in SUBSET Commit
  BY DEF RevOK, Rev
<1>6. /\ Pending' \subseteq rev'.popped
      /\ Pending' \in SUBSET Commit /\ acked \cup CommitsIn("common", toClient) \in SUBSET Commit
  BY <1>1, <1>2 DEF Served, Replays
<1>7. srv'.have_obj \in SUBSET Commit /\ srv'.they_have \subseteq Down(parents, srv'.have_obj)
  <2>1. CASE srv' = srv
    BY <1>1, <2>1, TellTypes DEF Served
  <2>2. CASE srv' = NewServer
    BY <2>2 DEF NewServer
  <2> QED
    BY <2>1, <2>2
<1>8. Base \subseteq Base' /\ Base' \in SUBSET Commit
  <2>1. ~stateless => srv' = srv
    OBVIOUS
  <2> QED
    BY <1>2, <1>3, <1>6, <1>7, <2>1 DEF Base
<1>9. Down(parents, Base) \subseteq Down(parents, Base') /\ Base' \subseteq Down(parents, Base')
  BY <1>2, <1>8, DownMore, DownHolds
<1>10. ToldKnown'
  <2>1. told \cap Theirs \subseteq Base'
    BY <1>3 DEF Base
  <2>2. (rev.popped \cap Theirs) \ rev.common \subseteq Down(parents, Base)
    BY <1>1 DEF ToldKnown
  <2>3. (rev'.popped \cap Theirs) \ rev'.common \subseteq Down(parents, Base')
    BY <1>9, <2>1, <2>2
  <2> QED
    BY <1>3, <2>3 DEF ToldKnown
<1>11. CommonKnown'
  <2>1. ASSUME rev'.common \subseteq Theirs PROVE rev'.common \subseteq Down(parents, Witness')
    <3>1. Witness' \in SUBSET Commit
      BY <1>5, <1>8 DEF Witness
    <3> QED
      BY <1>1, <1>5, <2>1, <3>1, CommonStays
  <2> QED
    BY <1>3, <2>1 DEF CommonKnown
<1>12. Served'
  <2>1. /\ (CommitsIn("common", toClient) \cup CommitsIn("continue", toClient)) \cap Theirs
            \subseteq Down(parents, srv'.have_obj)
        /\ ~stateless => acked \subseteq Down(parents, srv'.have_obj)
    <3>1. CASE srv' = srv
      BY <1>1, <3>1 DEF Served
    <3>2. CASE stateless /\ toClient = <<>>
      BY <3>2, CommitsOfOne
    <3> QED
      BY <3>1, <3>2
  <2> QED
    BY <1>1, <1>3, <1>6, <1>7, <2>1 DEF Served
<1>13. Replays'
  <2>1. SUFFICES ASSUME stateless
                 PROVE  /\ ToSet(again) \subseteq rev'.popped \cap Theirs
                        /\ acked \cup (InFlight' \cap rev'.common)
                             \subseteq Down(parents, ToSet(again))
    BY <1>3 DEF Replays
  <2>2. /\ ToSet(again) \subseteq rev.popped \cap Theirs
        /\ acked \cup (InFlight \cap rev.common) \subseteq Down(parents, ToSet(again))
    BY <1>1, <2>1 DEF Replays
  <2>3. ToSet(again) \subseteq Down(parents, ToSet(again))
    BY <1>2, DownHolds
  <2>4. InFlight' \subseteq rev'.popped /\ InFlight' \subseteq InFlight \cup told \cup ToSet(again)
    BY <1>1, <1>6 DEF InFlight, Served
  <2>5. ASSUME NEW x \in InFlight' \cap rev'.common PROVE x \in Down(parents, ToSet(again))
    <3>1. x \in rev.common /\ x \in InFlight \cup told \cup ToSet(again)
      BY <2>4, <2>5
    <3>2. x \notin told
      BY <2>5
    <3> QED
      BY <2>2, <2>3, <3>1, <3>2
  <2> QED
    BY <2>2, <2>5
<1> QED
  BY <1>4, <1>10, <1>11, <1>12, <1>13 DEF TellIInv, Telling

----------------------------------------------------------------------------
LEMMA LocalRefTold ==
  ASSUME FetchIInv, TellIInv, NEW c \in Commit, LocalRef(c)
  PROVE  TellIInv'
<1>1. /\ UNCHANGED <<parents, ours, theirs, wants, mode, stateless>>
      /\ UNCHANGED <<phase, req, again, got, acked, running, srv, toServer, toClient>>
      /\ phase = "local" /\ c \in refs /\ refs' = refs \ {c} /\ phase \in BeforeDone
  BY DEF LocalRef, fixed, ToServer, answers, BeforeDone
<1>2. CASE c \in rev.seen
  <2>1. rev' = rev
    BY <1>2 DEF LocalRef
  <2> QED
    BY <1>1, <2>1, TellQuiet
<1>3. CASE got.ready
  BY <1>1, <1>3 DEF FetchIInv, Asked
<1>4. CASE c \notin rev.seen /\ ~got.ready
  <2>1. ListRight /\ Served
    BY <1>4 DEF TellIInv, Telling
  <2>2. RevOK(rev) /\ Listed(rev) /\ rev.popped = {} /\ HistoryOK
        /\ parents \in [Commit -> SUBSET Commit]
    BY <1>1, <2>1, TellTypes DEF ListRight, FetchIInv, ClientOK
  <2> DEFINE r0 == [rev EXCEPT !.ref = @ \cup {c}]
             r1 == rev_list_push(r0, {c})
             ps == parents[c]
             r2 == mark_common(r1, ps)
  <2>3. /\ RevOK(r0) /\ Listed(r0) /\ r0.popped = {} /\ r0.ref = rev.ref \cup {c}
        /\ r0.common = rev.common /\ r0.list = rev.list /\ r0.seen = rev.seen
    BY <2>2 DEF RevOK, Rev, Listed
  <2>4. rev' = r2
    BY <1>4 DEF LocalRef
  <2>5. ps \in SUBSET Commit
    BY <2>2
  <2> HIDE DEF r0
  <2>6. /\ RevOK(r1) /\ Listed(r1) /\ r1.popped = {} /\ r1.ref = r0.ref /\ r1.common = r0.common
        /\ r1.list = r0.list \cup {c} /\ r1.seen = r0.seen \cup {c}
    <3>1. {c} \in SUBSET Commit /\ {c} \cap r0.seen = {}
      BY <1>4, <2>3
    <3> QED
      BY <2>3, <3>1, PushDoes, PushOK
  <2> HIDE DEF r1, ps
  <2>7. /\ RevOK(r2) /\ Listed(r2) /\ r2.popped = {} /\ r2.ref = r1.ref /\ r1.list \subseteq r2.list
        /\ r1.common \subseteq r2.common /\ r2.common \ r1.common \subseteq Reach(ps)
    BY <2>2, <2>5, <2>6, MarkDoes, MarkOK
  <2> HIDE DEF r2
  <2>8. Pending' = Pending /\ Base' = Base /\ Base \in SUBSET Commit
    <3>1. Pending' = Pending
      BY <1>1 DEF Pending, Unsent
    <3> QED
      BY <1>1, <2>1, <3>1, BaseIn DEF Base, Theirs
  <2>9. c \in Witness' /\ Witness' \in SUBSET Commit
    <3>1. c \notin rev.common
      BY <1>4, <2>2 DEF Listed
    <3>2. c \notin Reach(ps)
      <4> SUFFICES ASSUME c \in Reach(parents[c]) PROVE FALSE
        BY DEF ps
      <4>1. Date[c] < Date[c]
        BY <2>2, OlderThan
      <4> QED
        BY <4>1, FetchNegotiationAssumption DEF FetchNegotiationAssumption
    <3>3. r2.list \in SUBSET Commit
      BY <2>7 DEF RevOK, Rev
    <3> QED
      BY <2>3, <2>4, <2>6, <2>7, <2>8, <3>1, <3>2, <3>3 DEF Witness
  <2>10. Reach(ps) \subseteq Down(parents, Witness')
    <3>1. Reach(ps) \subseteq Down(parents, {c})
      BY <2>2, DownOfParents DEF ps
    <3>2. Down(parents, {c}) \subseteq Down(parents, Witness')
      <4>1. {c} \subseteq Witness' /\ {c} \in SUBSET Commit
        BY <2>9
      <4> QED
        BY <2>2, <2>9, <4>1, DownMore
    <3> QED
      BY <3>1, <3>2
  <2>11. rev'.common \ rev.common \subseteq Down(parents, Witness')
    BY <2>3, <2>4, <2>6, <2>7, <2>10
  <2>12. Witness \subseteq Down(parents, Witness')
    <3>1. Witness' \subseteq Down(parents, Witness')
      BY <2>2, <2>9, DownHolds
    <3>2. \A x \in Witness : x \in Witness' \/ x \in rev'.common \ rev.common
      BY <2>3, <2>4, <2>6, <2>7, <2>8 DEF Witness
    <3> QED
      BY <2>11, <3>1, <3>2
  <2>13. rev'.ref \subseteq theirs
    BY <1>1, <2>3, <2>4, <2>6, <2>7 DEF TellIInv, TellFixed
  <2>14. Stopped'
    BY <1>1 DEF TellIInv, Stopped
  <2>15. /\ RevOK(rev') /\ Listed(rev') /\ rev'.popped = rev.popped \cup {}
         /\ rev.common \subseteq rev'.common /\ rev'.common \cap rev'.popped \subseteq rev.common
    BY <2>2, <2>3, <2>4, <2>6, <2>7
  <2> QED
    BY <1>1, <1>4, <2>2, <2>8, <2>11, <2>12, <2>13, <2>14, <2>15, TellList
<1> QED
  BY <1>2, <1>3, <1>4

LEMMA FindCommonTold ==
  ASSUME FetchIInv, TellIInv, FindCommon
  PROVE  TellIInv'
<1>1. /\ UNCHANGED <<parents, ours, theirs, wants, mode, stateless>>
      /\ UNCHANGED <<refs, req, again, got, acked, running, srv, toServer, toClient>>
      /\ phase = "local" /\ phase' = "rev" /\ phase \in BeforeDone /\ phase' \in BeforeDone
      /\ rev' = rev_list_push(rev, ours \ rev.seen)
  BY DEF FindCommon, fixed, ToServer, answers, counters, BeforeDone
<1>2. ~got.ready
  BY <1>1 DEF FetchIInv, Asked
<1>3. ListRight /\ Served
  BY <1>2 DEF TellIInv, Telling
<1>4. /\ RevOK(rev) /\ Listed(rev) /\ rev.popped = {} /\ parents \in [Commit -> SUBSET Commit]
      /\ ours \ rev.seen \in SUBSET Commit
  BY <1>1, <1>3 DEF ListRight, FetchIInv, ClientOK, FixedOK
<1>5. /\ RevOK(rev') /\ Listed(rev') /\ rev'.popped = {} /\ rev'.ref = rev.ref /\ rev'.common = rev.common
      /\ rev.list \subseteq rev'.list /\ ours \subseteq rev'.seen
  <2> DEFINE more == ours \ rev.seen
  <2>1. more \in SUBSET Commit /\ more \cap rev.seen = {} /\ ours \subseteq rev.seen \cup more
    BY <1>4
  <2>2. rev' = rev_list_push(rev, more)
    BY <1>1
  <2> HIDE DEF more
  <2> QED
    BY <1>4, <2>1, <2>2, PushDoes, PushOK
<1>6. Pending' = Pending /\ Base' = Base /\ Base \in SUBSET Commit
  <2>1. Pending' = Pending
    BY <1>1 DEF Pending, Unsent
  <2> QED
    BY <1>1, <1>3, <2>1, BaseIn DEF Base, Theirs
<1>7. Witness' \in SUBSET Commit /\ Witness \subseteq Witness'
  BY <1>5, <1>6 DEF Witness, RevOK, Rev
<1>8. Witness \subseteq Down(parents, Witness')
  BY <1>4, <1>7, DownHolds
<1>9. Stopped' /\ rev'.ref \subseteq theirs
  BY <1>1, <1>5 DEF TellIInv, TellFixed, Stopped
<1>10. /\ rev'.popped = rev.popped \cup {} /\ rev.common \subseteq rev'.common
       /\ rev'.common \cap rev'.popped \subseteq rev.common
       /\ rev'.common \ rev.common \subseteq Down(parents, Witness')
       /\ phase' # "local"
  BY <1>1, <1>4, <1>5
<1> QED
  BY <1>1, <1>2, <1>5, <1>6, <1>8, <1>9, <1>10, TellList

----------------------------------------------------------------------------
\* What leaves the list, and what becomes COMMON with it.
LEMMA PopTold ==
  ASSUME FetchIInv, TellIInv, ~got.ready, phase # "local", rev.list # {}, rev' = pop_rev(rev)
  PROVE  LET c == Newest(rev.list)
         IN  /\ c \in rev.list /\ c \in Commit /\ c \notin rev.popped
             /\ RevOK(rev') /\ Listed(rev')
             /\ rev'.popped = rev.popped \cup {c} /\ rev'.ref = rev.ref /\ rev'.ref \subseteq theirs
             /\ rev.list \ {c} \subseteq rev'.list /\ ours \subseteq rev'.seen
             /\ rev.common \subseteq rev'.common
             /\ rev'.common \cap rev'.popped \subseteq rev.common
             /\ \A x \in rev'.common \ rev.common :
                  /\ c \in rev.common \cup rev.ref
                  /\ x \in Down(parents, {c}) /\ Date[x] < Date[c]
<1> DEFINE c == Newest(rev.list)
<1>1. ListRight /\ RevOK(rev) /\ HistoryOK /\ parents \in [Commit -> SUBSET Commit]
  BY TellTypes DEF TellIInv, Telling, FetchIInv, ClientOK
<1>2. /\ c \in rev.list /\ c \in Commit
      /\ Listed(rev') /\ rev'.popped = rev.popped \cup {c} /\ rev'.ref = rev.ref
      /\ rev.list \ {c} \subseteq rev'.list /\ rev.seen \subseteq rev'.seen
      /\ rev.common \subseteq rev'.common
      /\ rev'.common \ rev.common
           \subseteq IF c \in rev.common \cup rev.ref THEN Reach(parents[c]) ELSE {}
  BY <1>1, PopDoes DEF ListRight
<1>3. RevOK(rev')
  BY <1>1, PopOK
<1> HIDE DEF c
<1>4. /\ Listed(rev) /\ ours \subseteq rev.seen
      /\ rev.popped \in SUBSET Commit /\ Date \in [Commit -> Nat]
  BY <1>1, FetchNegotiationAssumption DEF FetchNegotiationAssumption, ListRight, RevOK, Rev
<1>5. ASSUME NEW x \in rev'.common \ rev.common
      PROVE  /\ c \in rev.common \cup rev.ref
             /\ x \in Down(parents, {c}) /\ x \in Commit /\ Date[x] < Date[c]
  <2>1. c \in rev.common \cup rev.ref /\ x \in Reach(parents[c])
    BY <1>2
  <2> QED
    BY <1>1, <1>2, <2>1, OlderThan, DownOfParents
<1>6. c \notin rev.popped
  BY <1>2, <1>4 DEF Listed
<1>7. rev'.common \cap rev'.popped \subseteq rev.common
  <2> SUFFICES ASSUME NEW x \in rev'.popped, x \in rev'.common \ rev.common PROVE FALSE
    OBVIOUS
  <2>1. x \in Commit /\ Date[x] < Date[c]
    BY <1>5
  <2>2. CASE x = c
    BY <1>2, <1>4, <2>1, <2>2
  <2>3. CASE x \in rev.popped
    <3>1. Date[c] < Date[x]
      BY <1>2, <1>4, <2>3 DEF Listed
    <3> QED
      BY <1>2, <1>4, <2>1, <3>1
  <2> QED
    BY <1>2, <2>2, <2>3
<1>8. rev'.ref \subseteq theirs
  BY <1>2 DEF TellIInv, TellFixed
<1> QED
  BY <1>2, <1>3, <1>4, <1>5, <1>6, <1>7, <1>8 DEF c

LEMMA SkipTold ==
  ASSUME FetchIInv, TellIInv, Skip
  PROVE  TellIInv'
<1> DEFINE c == Newest(rev.list)
<1>1. /\ UNCHANGED <<parents, ours, theirs, wants, mode, stateless>>
      /\ UNCHANGED <<phase, refs, req, again, got, acked, running, srv, toServer, toClient>>
      /\ phase = "rev" /\ phase \in BeforeDone /\ c \in rev.common /\ rev' = pop_rev(rev)
      /\ rev.list # {}
  BY DEF Skip, NoMoreRevs, fixed, ToServer, answers, counters, BeforeDone
<1>2. CASE got.ready
  \* Nothing that is left matters then, but that the refs are the server's.
  <2>1. TellFixed'
    <3>1. rev'.ref = rev.ref
      <4>1. rev \in Rev
        BY DEF FetchIInv, ClientOK, RevOK
      <4> QED
        BY <1>1, <4>1 DEF pop_rev, Rev
    <3> QED
      BY <1>1, <3>1 DEF TellIInv, TellFixed, HistoryOK
  <2>2. Stopped'
    BY <1>1 DEF TellIInv, Stopped
  <2> QED
    BY <1>1, <1>2, <2>1, <2>2 DEF TellIInv
<1>3. CASE ~got.ready
  <2>1. Served /\ CommonKnown /\ parents \in [Commit -> SUBSET Commit] /\ HistoryOK
    BY <1>3, TellTypes DEF TellIInv, Telling
  <2>2. /\ c \in rev.list /\ c \in Commit /\ c \notin rev.popped
        /\ RevOK(rev') /\ Listed(rev')
        /\ rev'.popped = rev.popped \cup {c} /\ rev'.ref = rev.ref /\ rev'.ref \subseteq theirs
        /\ rev.list \ {c} \subseteq rev'.list /\ ours \subseteq rev'.seen
        /\ rev.common \subseteq rev'.common
        /\ rev'.common \cap rev'.popped \subseteq rev.common
        /\ \A x \in rev'.common \ rev.common : x \in Down(parents, {c}) /\ Date[x] < Date[c]
    BY <1>1, <1>3, PopTold
  <2> HIDE DEF c
  <2>3. Pending' = Pending /\ Base' = Base /\ Base \in SUBSET Commit /\ Witness \in SUBSET Commit
    <3>1. Pending' = Pending
      BY <1>1 DEF Pending, Unsent
    <3> QED
      BY <1>1, <2>1, <3>1, BaseIn DEF Base, Theirs
  <2>4. Witness' \in SUBSET Commit
    BY <2>2, <2>3 DEF Witness, RevOK, Rev
  <2>5. TellFixed' /\ Stopped'
    BY <1>1, <2>2 DEF TellIInv, TellFixed, HistoryOK, Stopped
  <2>6. ASSUME rev.common \subseteq Theirs
        PROVE  /\ rev'.common \ rev.common \subseteq Down(parents, Witness')
               /\ Witness \subseteq Down(parents, Witness')
    <3>1. PICK b \in Witness : c \in Down(parents, {b})
      <4>1. c \in Down(parents, Witness)
        BY <1>1, <2>1, <2>6 DEF CommonKnown
      <4> QED
        BY <2>1, <2>3, <4>1, DownFrom
    <3>2. b \in Commit /\ {b} \in SUBSET Commit /\ {c} \in SUBSET Commit /\ Date \in [Commit -> Nat]
      BY <2>2, <2>3, FetchNegotiationAssumption DEF FetchNegotiationAssumption
    <3>3. b \in Witness'
      <4>1. CASE b \in Base
        BY <2>3, <4>1 DEF Witness
      <4>2. CASE b \in (rev.list \cap rev.ref) \ rev.common
        <5>1. b # c
          BY <1>1, <4>2
        <5>2. Date[c] < Date[b]
          BY <2>1, <3>1, <3>2, <5>1, DownOlder
        <5>3. b \notin rev'.common
          <6> SUFFICES ASSUME b \in rev'.common PROVE FALSE
            OBVIOUS
          <6>1. Date[b] < Date[c]
            BY <2>2, <4>2
          <6> QED
            BY <2>2, <3>2, <5>2, <6>1
        <5> QED
          BY <2>2, <4>2, <5>1, <5>3 DEF Witness
      <4> QED
        BY <4>1, <4>2 DEF Witness
    <3>4. Down(parents, {c}) \subseteq Down(parents, Witness')
      <4>1. Down(parents, {b}) \subseteq Down(parents, Witness')
        <5>1. {b} \subseteq Witness'
          BY <3>3
        <5> QED
          BY <2>1, <2>4, <3>2, <5>1, DownMore
      <4>2. Down(parents, {c}) \subseteq Down(parents, {b})
        <5>1. {c} \subseteq Down(parents, {b})
          BY <3>1
        <5> QED
          BY <2>1, <3>2, <5>1, DownWithin
      <4> QED
        BY <4>1, <4>2
    <3>5. rev'.common \ rev.common \subseteq Down(parents, Witness')
      BY <2>2, <3>4
    <3>6. Witness \subseteq Down(parents, Witness')
      <4>1. Witness' \subseteq Down(parents, Witness')
        BY <2>1, <2>4, DownHolds
      <4>2. \A x \in Witness : x \in Witness' \/ x \in rev'.common \ rev.common
        BY <1>1, <2>2, <2>3 DEF Witness
      <4> QED
        BY <3>5, <4>1, <4>2
    <3> QED
      BY <3>5, <3>6
  <2>7. /\ {c} \in SUBSET Commit /\ {c} \subseteq {} \cup rev'.common
        /\ Pending \cup {} \subseteq Pending'
        /\ Pending' \subseteq Pending \cup {} \cup (IF stateless THEN ToSet(again) ELSE {})
        /\ {} \subseteq {c} /\ {} \cap rev'.common = {} /\ phase' # "local" /\ refs' \subseteq refs
    BY <1>1, <2>2, <2>3
  <2> QED
    BY <1>1, <1>3, <2>2, <2>5, <2>6, <2>7, TellList
<1> QED
  BY <1>2, <1>3

----------------------------------------------------------------------------
LEMMA TellSent ==
  ASSUME FetchIInv, TellIInv, phase \in BeforeDone, stateless' = stateless,
         NEW cs \in Seq(Commit), NEW k \in {"flush", "done"}, Send(Append(Haves(cs), Line(k)))
  PROVE  /\ Stopped'
         /\ CommitsIn("have", toServer')
              = (IF stateless THEN ToSet(again) ELSE CommitsIn("have", toServer)) \cup ToSet(cs)
         /\ IF stateless THEN srv' = NewServer ELSE srv' = srv
<1> DEFINE r == Append(Haves(cs), Line(k))
<1>1. /\ r \in Seq(ToldLine) /\ r # <<>> /\ Len(r) \in Nat
      /\ \A i \in DOMAIN r : r[i].kind = IF i = Len(r) THEN k ELSE "have"
  <2>1. /\ r \in Seq(ToldLine) /\ r # <<>>
        /\ \A i \in DOMAIN r : r[i].kind = IF i = Len(r) THEN k ELSE "have"
    BY RequestOK
  <2> HIDE DEF r
  <2> QED
    BY <2>1
<1>2. CommitsIn("have", r) = ToSet(cs)
  BY CommitsOfHaves
<1>3. CASE stateless
  <2> DEFINE h == Haves(again)
  <2>1. toServer' = h \o r /\ running' = TRUE /\ srv' = NewServer
    BY <1>3 DEF Send
  <2>2. again \in Seq(Commit)
    BY DEF FetchIInv, ClientOK
  <2>3. h \in Seq(ToldLine) /\ CommitsIn("have", h) = ToSet(again)
    BY <2>2, HavesOK, CommitsOfHaves
  <2>4. /\ toServer' # <<>>
        /\ \A i \in DOMAIN toServer' : toServer'[i].kind = IF i = Len(toServer') THEN k ELSE "have"
    BY <2>1, <2>2, AgainOK
  <2>5. CommitsIn("have", h \o r) = ToSet(again) \cup ToSet(cs)
    <3> HIDE DEF h, r
    <3>1. CommitsIn("have", h \o r) = CommitsIn("have", h) \cup CommitsIn("have", r)
      BY <1>1, <2>3, CommitsAdded
    <3> QED
      BY <1>2, <2>3, <3>1
  <2>6. Stopped'
    BY <1>3, <2>1, <2>4 DEF Stopped
  <2> QED
    BY <1>3, <2>1, <2>5, <2>6
<1>4. CASE ~stateless
  <2>1. toServer' = toServer \o r /\ UNCHANGED <<running, srv>>
    BY <1>4 DEF Send
  <2>2. toServer \in Seq(ToldLine) /\ ~Has("done", toServer) /\ running
    BY <1>4 DEF FetchIInv, PipesOK, Asked, TellIInv, Stopped
  <2> HIDE DEF r
  <2>3. CommitsIn("have", toServer') = CommitsIn("have", toServer) \cup ToSet(cs)
    BY <1>1, <1>2, <2>1, <2>2, CommitsAdded
  <2>4. ASSUME NEW i \in DOMAIN toServer', toServer'[i].kind = "done" PROVE i = Len(toServer')
    <3>1. i \notin DOMAIN toServer
      <4> SUFFICES ASSUME i \in DOMAIN toServer PROVE FALSE
        OBVIOUS
      <4>1. toServer'[i] = toServer[i]
        BY <1>1, <2>1, <2>2, Added
      <4> QED
        BY <2>2, <2>4, <4>1 DEF Has
    <3>2. /\ i - Len(toServer) \in DOMAIN r /\ toServer'[i] = r[i - Len(toServer)]
          /\ Len(toServer') = Len(toServer) + Len(r)
      BY <1>1, <2>1, <2>2, <3>1, Added
    <3>3. i - Len(toServer) = Len(r)
      BY <1>1, <2>4, <3>2
    <3>4. i \in Int /\ Len(toServer) \in Nat
      BY <1>1, <2>1, <2>2
    <3>5. Len(toServer') = Len(toServer) + Len(r) /\ Len(r) \in Nat
      BY <1>1, <3>2
    <3> QED
      BY <3>3, <3>4, <3>5
  <2>5. Stopped'
    BY <1>4, <2>1, <2>2, <2>4 DEF Stopped
  <2> QED
    BY <1>4, <2>1, <2>3, <2>5
<1> QED
  BY <1>3, <1>4

LEMMA ToldMore ==
  ASSUME NEW s \in Seq(Commit), NEW c \in Commit
  PROVE  Append(s, c) \in Seq(Commit) /\ ToSet(Append(s, c)) = ToSet(s) \cup {c}
<1> DEFINE t == Append(s, c)
<1>1. /\ t \in Seq(Commit) /\ Len(t) = Len(s) + 1 /\ t[Len(t)] = c /\ Len(t) \in DOMAIN t
      /\ \A i \in DOMAIN s : i \in DOMAIN t /\ t[i] = s[i]
      /\ \A i \in DOMAIN t : i \in DOMAIN s \/ i = Len(t)
  OBVIOUS
<1> HIDE DEF t
<1>2. ToSet(t) = ToSet(s) \cup {c}
  BY <1>1 DEF ToSet
<1> QED
  BY <1>1, <1>2 DEF t

LEMMA HaveTold ==
  ASSUME FetchIInv, TellIInv, Have
  PROVE  TellIInv'
<1> DEFINE c == Newest(rev.list)
           told == Append(req, c)
<1>1. /\ UNCHANGED <<parents, ours, theirs, wants, mode, stateless>>
      /\ UNCHANGED <<refs, again, got, acked, toClient>>
      /\ phase = "rev" /\ phase \in BeforeDone /\ c \notin rev.common /\ rev' = pop_rev(rev)
      /\ rev.list # {} /\ ~got.ready /\ phase' \in {"rev", "acks"} /\ phase' \in BeforeDone
  BY NotReady DEF Have, NoMoreRevs, fixed, ToServer, answers, BeforeDone
<1>2. Served /\ CommonKnown /\ parents \in [Commit -> SUBSET Commit] /\ HistoryOK /\ req \in Seq(Commit)
      /\ theirs \subseteq Theirs
  BY <1>1, TellTypes DEF TellIInv, Telling, FetchIInv, ClientOK
<1>3. /\ c \in rev.list /\ c \in Commit /\ c \notin rev.popped
      /\ RevOK(rev') /\ Listed(rev')
      /\ rev'.popped = rev.popped \cup {c} /\ rev'.ref = rev.ref /\ rev'.ref \subseteq theirs
      /\ rev.list \ {c} \subseteq rev'.list /\ ours \subseteq rev'.seen
      /\ rev.common \subseteq rev'.common
      /\ rev'.common \cap rev'.popped \subseteq rev.common
      /\ \A x \in rev'.common \ rev.common :
           c \in rev.ref /\ x \in Down(parents, {c}) /\ Date[x] < Date[c]
  BY <1>1, PopTold
<1> HIDE DEF c
<1>4. told \in Seq(Commit) /\ ToSet(told) = ToSet(req) \cup {c}
  BY <1>2, <1>3, ToldMore
<1> HIDE DEF told
<1>5. Unsent = ToSet(req)
  BY <1>1 DEF Unsent
<1>6. /\ Stopped'
      /\ srv' = srv \/ (stateless /\ srv' = NewServer /\ toClient = <<>>)
      /\ ~stateless => srv' = srv
      /\ Pending \cup {c} \subseteq Pending'
      /\ Pending' \subseteq Pending \cup {c} \cup (IF stateless THEN ToSet(again) ELSE {})
  <2>1. CASE flush_at <= count'
    <3>1. Send(Append(Haves(told), Line("flush"))) /\ req' = <<>>
      BY <2>1 DEF Have, told, c
    <3>2. /\ Stopped'
          /\ CommitsIn("have", toServer')
               = (IF stateless THEN ToSet(again) ELSE CommitsIn("have", toServer)) \cup ToSet(told)
          /\ IF stateless THEN srv' = NewServer ELSE srv' = srv
      BY <1>1, <1>4, <3>1, TellSent
    <3>3. Unsent' = {}
      BY <1>1, <3>1 DEF Unsent, ToSet
    <3>4. stateless => toClient = <<>> /\ toServer = <<>>
      BY <1>1 DEF FetchIInv, Request, Leftover
    <3>5. stateless => CommitsIn("have", toServer) = {}
      BY <3>4, CommitsOfOne
    <3> QED
      BY <1>4, <1>5, <3>2, <3>3, <3>4, <3>5 DEF Pending
  <2>2. CASE ~(flush_at <= count')
    <3>1. req' = told /\ UNCHANGED <<phase, running, srv, toServer>>
      BY <2>2 DEF Have, told, c, ToServer
    <3>2. Stopped'
      BY <1>1, <3>1 DEF TellIInv, Stopped
    <3>3. Unsent' = ToSet(told)
      BY <1>1, <3>1 DEF Unsent
    <3>4. Pending' = Pending \cup {c}
      BY <1>4, <1>5, <3>1, <3>3 DEF Pending
    <3> QED
      BY <3>1, <3>2, <3>4
  <2> QED
    BY <2>1, <2>2
<1>7. /\ Base \in SUBSET Commit /\ Base \subseteq Base' /\ Base' \in SUBSET Commit
      /\ c \in Theirs => c \in Base'
  <2>1. Base \in SUBSET Commit /\ Theirs' = Theirs
    BY <1>1, <1>2, BaseIn DEF Theirs
  <2>2. Base \subseteq Base' /\ (c \in Theirs => c \in Base')
    BY <1>1, <1>6, <2>1 DEF Base
  <2>3. Theirs \in SUBSET Commit /\ srv'.have_obj \in SUBSET Commit
    BY <1>6, TellTypes DEF NewServer
  <2>4. acked \cup CommitsIn("common", toClient) \in SUBSET Commit
    BY <1>2, TellTypes DEF Served
  <2>5. Base' \in SUBSET Commit
    BY <1>1, <2>1, <2>3, <2>4 DEF Base
  <2> QED
    BY <2>1, <2>2, <2>5
<1>8. Witness' \in SUBSET Commit
  BY <1>3, <1>7 DEF Witness, RevOK, Rev
<1>9. Witness' \subseteq Down(parents, Witness')
  BY <1>2, <1>8, DownHolds
<1>10. rev'.common \ rev.common \subseteq Down(parents, Witness')
  <2>1. CASE c \in rev.ref
    <3>1. {c} \subseteq Witness' /\ {c} \in SUBSET Commit
      <4>1. c \in Theirs
        BY <1>2, <1>3, <2>1
      <4> QED
        BY <1>3, <1>7, <4>1 DEF Witness
    <3>2. Down(parents, {c}) \subseteq Down(parents, Witness')
      BY <1>2, <1>8, <3>1, DownMore
    <3> QED
      BY <1>3, <3>2
  <2>2. CASE c \notin rev.ref
    BY <1>3, <2>2
  <2> QED
    BY <2>1, <2>2
<1>11. Witness \subseteq Down(parents, Witness')
  <2>1. ASSUME NEW x \in Witness PROVE x \in Witness' \cup (rev'.common \ rev.common)
    <3>1. CASE x \in Base
      BY <1>7, <3>1 DEF Witness
    <3>2. CASE x \in (rev.list \cap rev.ref) \ rev.common /\ x # c
      BY <1>3, <3>2 DEF Witness
    <3>3. CASE x = c /\ x \in rev.ref
      BY <1>2, <1>3, <1>7, <3>3 DEF Witness
    <3> QED
      BY <2>1, <3>1, <3>2, <3>3 DEF Witness
  <2> QED
    BY <1>9, <1>10, <2>1
<1>12. /\ {c} \in SUBSET Commit /\ {c} \subseteq {c} \cup rev'.common /\ {c} \subseteq {c}
       /\ {c} \cap rev'.common = {} /\ phase' # "local" /\ refs' \subseteq refs
  BY <1>1, <1>3
<1> QED
  BY <1>1, <1>3, <1>6, <1>10, <1>11, <1>12, TellList

LEMMA DoneTold ==
  ASSUME FetchIInv, TellIInv, Done
  PROVE  TellIInv'
<1>1. /\ UNCHANGED <<parents, ours, theirs, wants, mode, stateless>>
      /\ UNCHANGED <<refs, rev, req, again, got, acked, toClient>>
      /\ phase = "done" /\ phase' = "final" /\ phase \in BeforeDone /\ phase' \notin BeforeDone
  BY DEF Done, fixed, BeforeDone
<1>2. TellFixed' /\ Theirs' = Theirs
  BY <1>1 DEF TellIInv, TellFixed, HistoryOK, Theirs
<1>3. CASE got.ready /\ no_done
  <2>1. UNCHANGED <<running, srv, toServer>>
    BY <1>3 DEF Done, ToServer
  <2>2. Stopped'
    BY <1>1, <2>1 DEF TellIInv, Stopped
  <2> QED
    BY <1>1, <1>2, <1>3, <2>2 DEF TellIInv
<1>4. CASE ~(got.ready /\ no_done)
  <2>1. Send(Append(Haves(req), Line("done"))) /\ req \in Seq(Commit)
    BY <1>4 DEF Done, FetchIInv, ClientOK
  <2>2. /\ Stopped'
        /\ CommitsIn("have", toServer')
             = (IF stateless THEN ToSet(again) ELSE CommitsIn("have", toServer)) \cup ToSet(req)
        /\ IF stateless THEN srv' = NewServer ELSE srv' = srv
    BY <1>1, <2>1, TellSent
  <2>3. ASSUME ~got.ready PROVE Telling'
    <3>1. ListRight /\ ToldKnown /\ CommonKnown /\ Served /\ Replays
      BY <2>3 DEF TellIInv, Telling
    <3>2. /\ parents \in [Commit -> SUBSET Commit] /\ ToSet(again) \in SUBSET Commit
          /\ Base \in SUBSET Commit /\ Theirs \in SUBSET Commit /\ srv.have_obj \in SUBSET Commit
          /\ rev.popped \in SUBSET Commit /\ rev.list \in SUBSET Commit
      BY <3>1, TellTypes, BaseIn
    <3>3. stateless => toServer = <<>> /\ toClient = <<>>
      BY <1>1, <2>3 DEF FetchIInv, Request, Leftover
    <3>4. stateless => /\ CommitsIn("have", toServer) = {} /\ CommitsIn("common", toClient) = {}
                       /\ CommitsIn("continue", toClient) = {}
      BY <3>3, CommitsOfOne
    <3>5. Pending' = (IF stateless THEN ToSet(again) ELSE {}) \cup Pending
      BY <1>1, <2>2, <3>4 DEF Pending, Unsent
    <3>6. Pending' \subseteq rev.popped
      BY <3>1, <3>5 DEF Served, Replays
    <3>7. Base' = (Pending' \cap Theirs) \cup srv'.have_obj
      BY <1>1, <1>2 DEF Base
    <3>8. srv'.have_obj \in SUBSET Commit /\ srv'.they_have \subseteq Down(parents, srv'.have_obj)
      BY <2>2, <3>1, <3>2 DEF Served, NewServer
    <3>9. Base' \in SUBSET Commit
      BY <3>2, <3>7, <3>8
    <3>10. Base' \subseteq Down(parents, Base')
      BY <3>2, <3>9, DownHolds
    <3>11. stateless => ToSet(again) \subseteq Base'
      BY <3>1, <3>5, <3>7 DEF Replays
    <3>12. Base \subseteq Down(parents, Base')
      <4>1. CASE stateless
        <5>1. acked \subseteq Down(parents, ToSet(again))
          BY <3>1, <4>1 DEF Replays
        <5>2. Down(parents, ToSet(again)) \subseteq Down(parents, Base')
          BY <3>2, <3>9, <3>11, <4>1, DownMore
        <5>3. Base = (Pending \cap Theirs) \cup acked
          BY <1>1, <3>4, <4>1 DEF Base
        <5> QED
          BY <3>5, <3>7, <3>10, <5>1, <5>2, <5>3
      <4>2. CASE ~stateless
        <5>1. Base = (Pending \cap Theirs) \cup srv.have_obj
          BY <4>2 DEF Base
        <5> QED
          BY <2>2, <3>5, <3>7, <3>10, <4>2, <5>1
      <4> QED
        BY <4>1, <4>2
    <3>13. Down(parents, Base) \subseteq Down(parents, Base')
      BY <3>2, <3>9, <3>12, DownWithin
    <3>14. ListRight'
      BY <1>1, <3>1 DEF ListRight, Listed
    <3>15. ToldKnown'
      BY <1>1, <1>2, <3>1, <3>13 DEF ToldKnown
    <3>16. CommonKnown'
      <4>1. Witness' \in SUBSET Commit /\ Base' \subseteq Witness'
        BY <1>1, <3>2, <3>9 DEF Witness
      <4>2. Witness' \subseteq Down(parents, Witness')
            /\ Down(parents, Base') \subseteq Down(parents, Witness')
        BY <3>2, <3>9, <4>1, DownHolds, DownMore
      <4>3. Witness \subseteq Down(parents, Witness')
        BY <1>1, <3>12, <4>2 DEF Witness
      <4>4. Down(parents, Witness) \subseteq Down(parents, Witness')
        <5>1. Witness \in SUBSET Commit
          BY <3>2 DEF Witness
        <5> QED
          BY <3>2, <4>1, <4>3, <5>1, DownWithin
      <4> QED
        BY <1>1, <1>2, <3>1, <4>4 DEF CommonKnown
    <3>17. Served'
      BY <1>1, <1>2, <2>2, <3>1, <3>4, <3>6, <3>8 DEF Served
    <3>18. Replays'
      <4>1. SUFFICES ASSUME stateless
                     PROVE  /\ ToSet(again) \subseteq rev.popped \cap Theirs
                            /\ acked \cup (InFlight' \cap rev.common)
                                 \subseteq Down(parents, ToSet(again))
                            /\ ToSet(again) \subseteq Down(parents, Base')
        BY <1>1, <1>2 DEF Replays
      <4>2. InFlight' = ToSet(again) \cup InFlight
        BY <1>1, <3>5, <4>1 DEF InFlight
      <4>3. ToSet(again) \subseteq Down(parents, ToSet(again))
        BY <3>2, DownHolds
      <4> QED
        BY <3>1, <3>10, <3>11, <4>1, <4>2, <4>3 DEF Replays
    <3> QED
      BY <3>14, <3>15, <3>16, <3>17, <3>18 DEF Telling
  <2> QED
    BY <1>1, <1>2, <2>2, <2>3 DEF TellIInv
<1> QED
  BY <1>3, <1>4

----------------------------------------------------------------------------
\* The client reads a line.
LEMMA TellRead ==
  ASSUME FetchIInv, NEW kinds, Reads(kinds)
  PROVE  /\ toClient[1] = Head(toClient) /\ Head(toClient).kind \in kinds /\ Head(toClient) \in Reply
         /\ \A k : CommitsIn(k, toClient)
                     = CommitsIn(k, toClient')
                         \cup (IF Head(toClient).kind = k THEN {Head(toClient).commit} ELSE {})
<1>1. toClient \in Seq(Reply) /\ toClient # <<>> /\ toClient' = Tail(toClient)
      /\ Head(toClient).kind \in kinds
  BY DEF FetchIInv, PipesOK, Reads
<1> QED
  BY <1>1, Rest, CommitsOfRest

\* One that acknowledges nothing, or that it no longer cares about.
LEMMA PassedTold ==
  ASSUME FetchIInv, TellIInv,
         UNCHANGED <<parents, ours, theirs, wants, mode, stateless>>,
         UNCHANGED <<refs, rev, req, again, got, acked, running, srv, toServer>>,
         phase \in BeforeDone <=> phase' \in BeforeDone, phase # "local", phase' # "local",
         NEW kinds, Reads(kinds), phase \in BeforeDone => kinds \cap AckLine = {}
  PROVE  TellIInv'
<1>1. Head(toClient).kind \in kinds
      /\ \A k : CommitsIn(k, toClient)
                  = CommitsIn(k, toClient')
                      \cup (IF Head(toClient).kind = k THEN {Head(toClient).commit} ELSE {})
  BY TellRead
<1>2. /\ CommitsIn("common", toClient') \subseteq CommitsIn("common", toClient)
      /\ CommitsIn("continue", toClient') \subseteq CommitsIn("continue", toClient)
  BY <1>1
<1>3. phase \in BeforeDone => CommitsIn("common", toClient') = CommitsIn("common", toClient)
  <2>1. phase \in BeforeDone => Head(toClient).kind # "common"
    BY <1>1 DEF AckLine
  <2> QED
    BY <1>1, <2>1
<1> QED
  BY <1>2, <1>3, TellQuiet

LEMMA GotNakTold ==
  ASSUME FetchIInv, TellIInv, GotNak
  PROVE  TellIInv'
<1>1. /\ UNCHANGED <<parents, ours, theirs, wants, mode, stateless>>
      /\ UNCHANGED <<refs, rev, req, again, got, acked, running, srv, toServer>>
      /\ phase = "acks" /\ phase' \in {"rev", "done"} /\ Reads({"NAK"})
  BY DEF GotNak, fixed, ToServer, answers
<1>2. {"NAK"} \cap AckLine = {} /\ phase \in BeforeDone /\ phase' \in BeforeDone
  BY <1>1 DEF AckLine, BeforeDone
<1> QED
  BY <1>1, <1>2, PassedTold

LEMMA GotFinalTold ==
  ASSUME FetchIInv, TellIInv, GotFinal
  PROVE  TellIInv'
<1>1. /\ UNCHANGED <<parents, ours, theirs, wants, mode, stateless>>
      /\ UNCHANGED <<refs, rev, req, again, got, acked, running, srv, toServer>>
      /\ phase = "acks" /\ phase' = "done" /\ Reads({"ACK"})
  BY DEF GotFinal, fixed, ToServer
<1>2. {"ACK"} \cap AckLine = {} /\ phase \in BeforeDone /\ phase' \in BeforeDone
  BY <1>1 DEF AckLine, BeforeDone
<1> QED
  BY <1>1, <1>2, PassedTold

LEMMA NoRevTold ==
  ASSUME FetchIInv, TellIInv, NoRev
  PROVE  TellIInv'
<1>1. /\ UNCHANGED <<parents, ours, theirs, wants, mode, stateless>>
      /\ UNCHANGED <<refs, rev, req, again, got, acked, running, srv, toServer, toClient>>
      /\ phase = "rev" /\ phase' = "done" /\ phase \in BeforeDone /\ phase' \in BeforeDone
  BY DEF NoRev, fixed, ToServer, answers, BeforeDone
<1> QED
  BY <1>1, TellQuiet

LEMMA FinalTold ==
  ASSUME FetchIInv, TellIInv, Final
  PROVE  TellIInv'
<1>1. /\ UNCHANGED <<parents, ours, theirs, wants, mode, stateless>>
      /\ UNCHANGED <<refs, rev, req, again, got, acked, running, srv, toServer>>
      /\ phase = "final" /\ phase' \in {"final", "pack"}
      /\ UNCHANGED toClient \/ Reads({"ACK"}) \/ Reads({"continue", "common", "ready"}) \/ Reads({"NAK"})
  BY DEF Final, fixed, ToServer
<1>2. phase \notin BeforeDone /\ phase' \notin BeforeDone
  BY <1>1 DEF BeforeDone
<1>3. CASE UNCHANGED toClient
  BY <1>1, <1>2, <1>3, TellQuiet
<1>4. ASSUME NEW kinds, Reads(kinds) PROVE TellIInv'
  BY <1>1, <1>2, <1>4, PassedTold
<1> QED
  BY <1>1, <1>3, <1>4

LEMMA GetPackTold ==
  ASSUME FetchIInv, TellIInv, GetPack
  PROVE  TellIInv'
<1>1. /\ UNCHANGED <<parents, ours, theirs, wants, mode, stateless>>
      /\ UNCHANGED <<refs, rev, req, again, got, acked, running, srv, toServer>>
      /\ phase = "pack" /\ phase' = "end" /\ Reads({"pack"})
  BY DEF GetPack, fixed, ToServer, answers
<1>2. phase \notin BeforeDone /\ phase' \notin BeforeDone
  BY <1>1 DEF BeforeDone
<1> QED
  BY <1>1, <1>2, PassedTold

\* It is told that a commit is common: from there on the list is COMMON, and later requests tell it again.
LEMMA GotAckTold ==
  ASSUME FetchIInv, TellIInv, GotAck
  PROVE  TellIInv'
<1> DEFINE c == Head(toClient).commit
           k == Head(toClient).kind
           m == mark_common(rev, {c})
<1>1. /\ UNCHANGED <<parents, ours, theirs, wants, mode, stateless>>
      /\ UNCHANGED <<phase, refs, req, running, srv, toServer>>
      /\ phase = "acks" /\ phase \in BeforeDone /\ Reads(AckLine)
      /\ rev' = IF k = "ready" THEN [m EXCEPT !.list = {}] ELSE m
      /\ again' = IF k = "common" /\ Replayed(c) THEN Append(again, c) ELSE again
      /\ acked' = IF k = "common" THEN acked \cup {c} ELSE acked
      /\ got'.ready = (got.ready \/ k = "ready")
  BY DEF GotAck, fixed, ToServer, AckLine, BeforeDone
<1>2. k \in AckLine /\ Head(toClient) \in Reply
      /\ \A l : CommitsIn(l, toClient) = CommitsIn(l, toClient') \cup (IF k = l THEN {c} ELSE {})
  BY <1>1, TellRead
<1>3. c \in Commit /\ {c} \in SUBSET Commit /\ RevOK(rev) /\ again \in Seq(Commit)
      /\ parents \in [Commit -> SUBSET Commit] /\ HistoryOK
  <2>1. c \in Commit
    BY <1>2 DEF Reply, AckLine
  <2> QED
    BY <2>1, TellTypes DEF FetchIInv, ClientOK
<1>4. Theirs' = Theirs /\ Pending' = Pending /\ InFlight' \subseteq InFlight
  <2>1. Theirs' = Theirs /\ Pending' = Pending
    BY <1>1 DEF Theirs, Pending, Unsent
  <2> QED
    BY <1>2, <2>1 DEF InFlight
<1>5. TellFixed' /\ Stopped'
  <2>1. m.ref = rev.ref /\ m \in Rev
    <3>1. rev \in Rev
      BY <1>3 DEF RevOK
    <3>2. m \in Rev
      BY <1>3, MarkOK DEF RevOK
    <3>3. m.ref = rev.ref
      BY <3>1 DEF mark_common, Rev
    <3> QED
      BY <3>2, <3>3
  <2> HIDE DEF m
  <2>2. rev'.ref = rev.ref
    BY <1>1, <2>1 DEF Rev
  <2> QED
    BY <1>1, <2>2 DEF TellIInv, TellFixed, HistoryOK, Stopped
<1>6. ASSUME ~got'.ready PROVE Telling'
  <2>1. ~got.ready /\ k \in {"common", "continue"} /\ rev' = m
    BY <1>1, <1>2, <1>6 DEF AckLine
  <2>2. ListRight /\ ToldKnown /\ CommonKnown /\ Served /\ Replays
    BY <2>1 DEF TellIInv, Telling
  <2>3. /\ Theirs \in SUBSET Commit /\ srv.have_obj \in SUBSET Commit
        /\ ToSet(again) \in SUBSET Commit /\ rev.popped \in SUBSET Commit
        /\ Base \in SUBSET Commit /\ Witness \in SUBSET Commit
    BY <2>2, TellTypes, BaseIn
  <2>4. c \in rev.popped /\ {c} \subseteq rev.seen
    <3>1. c \in rev.popped
      BY <1>2, <2>1, <2>2 DEF Served
    <3> QED
      BY <2>2, <3>1 DEF ListRight, Listed
  <2>5. /\ Listed(m) /\ m.popped = rev.popped /\ m.ref = rev.ref
        /\ rev.list \subseteq m.list /\ rev.seen \subseteq m.seen
        /\ rev.common \subseteq m.common /\ c \in m.common
        /\ m.common \ rev.common \subseteq Reach({c}) /\ RevOK(m)
    <3>1. Listed(rev)
      BY <2>2 DEF ListRight
    <3> QED
      BY <1>3, <2>4, <3>1, MarkDoes, MarkOK
  <2> HIDE DEF m, c, k
  <2>6. m.common \ rev.common \subseteq Down(parents, {c}) /\ c \in Down(parents, {c})
    BY <1>3, <2>5, DownIs, DownHolds
  <2>7. /\ Base \subseteq Base' /\ Base' \in SUBSET Commit
        /\ c \in Theirs => c \in Down(parents, Base')
    <3>1. CASE stateless
      <4>1. mode = 2
        BY <3>1 DEF FetchIInv, FixedOK
      <4>2. k = "common"
        <5>1. k = "continue" => CommitsIn("continue", toClient) # {}
          BY <1>2
        <5> QED
          BY <2>1, <2>2, <4>1, <5>1 DEF Served
      <4>3. Base' = (Pending \cap Theirs) \cup acked \cup {c} \cup CommitsIn("common", toClient')
        BY <1>1, <1>4, <3>1, <4>2 DEF Base
      <4>4. CommitsIn("common", toClient) = CommitsIn("common", toClient') \cup {c}
        BY <1>2, <4>2
      <4>5. Base = (Pending \cap Theirs) \cup acked \cup CommitsIn("common", toClient)
        BY <1>1, <3>1 DEF Base
      <4>6. Base' \in SUBSET Commit /\ Base \subseteq Base' /\ c \in Base'
        BY <1>3, <2>3, <4>3, <4>4, <4>5
      <4> QED
        BY <1>3, <4>6, DownHolds
    <3>2. CASE ~stateless
      <4>1. Base' = Base /\ srv.have_obj \subseteq Base
        BY <1>1, <1>4, <3>2 DEF Base
      <4>2. c \in Theirs => c \in Down(parents, srv.have_obj)
        BY <1>2, <2>1, <2>2 DEF Served
      <4>3. Down(parents, srv.have_obj) \subseteq Down(parents, Base)
        BY <1>3, <2>3, <4>1, DownMore
      <4> QED
        BY <2>3, <4>1, <4>2, <4>3
    <3> QED
      BY <3>1, <3>2
  <2>8. Down(parents, Base) \subseteq Down(parents, Base')
    BY <1>3, <2>3, <2>7, DownMore
  <2>9. ListRight'
    BY <1>1, <2>1, <2>2, <2>5 DEF ListRight, Listed
  <2>10. ToldKnown'
    BY <1>1, <1>4, <2>1, <2>2, <2>5, <2>8 DEF ToldKnown
  <2>11. CommonKnown'
    <3>1. SUFFICES ASSUME m.common \subseteq Theirs PROVE m.common \subseteq Down(parents, Witness')
      BY <1>1, <1>4, <2>1 DEF CommonKnown
    <3>2. Witness' \in SUBSET Commit /\ Base' \subseteq Witness' /\ m.common \in SUBSET Commit
      BY <2>1, <2>5, <2>7 DEF Witness, RevOK, Rev
    <3>3. Witness' \subseteq Down(parents, Witness')
      BY <1>3, <3>2, DownHolds
    <3>4. c \in Down(parents, Witness')
      <4>1. c \in Down(parents, Base')
        BY <2>5, <2>7, <3>1
      <4>2. Down(parents, Base') \subseteq Down(parents, Witness')
        BY <1>3, <2>7, <3>2, DownMore
      <4> QED
        BY <4>1, <4>2
    <3>5. Down(parents, {c}) \subseteq Down(parents, Witness')
      <4>1. {c} \subseteq Down(parents, Witness')
        BY <3>4
      <4> QED
        BY <1>3, <3>2, <4>1, DownWithin
    <3>6. Witness \subseteq Down(parents, Witness')
      <4>1. \A x \in Witness : x \in Witness' \/ x \in m.common \ rev.common
        BY <2>1, <2>5, <2>7 DEF Witness
      <4> QED
        BY <2>6, <3>3, <3>5, <4>1
    <3>7. m.common \ rev.common \subseteq Down(parents, Witness')
      BY <2>6, <3>5
    <3> QED
      BY <2>2, <2>5, <3>1, <3>2, <3>6, <3>7, CommonStays
  <2>12. Served'
    <3>1. /\ CommitsIn("common", toClient') \subseteq CommitsIn("common", toClient)
          /\ CommitsIn("continue", toClient') \subseteq CommitsIn("continue", toClient)
          /\ k = "common" => c \in CommitsIn("common", toClient)
      BY <1>2
    <3>2. acked' \subseteq acked \cup {c} /\ (acked' = acked \/ k = "common")
      BY <1>1
    <3>3. ~stateless => acked' \subseteq Down(parents, srv.have_obj)
      BY <2>2, <3>1, <3>2 DEF Served
    <3>4. /\ Pending' \cup CommitsIn("common", toClient') \cup CommitsIn("continue", toClient') \cup acked'
             \subseteq rev'.popped
          /\ CommitsIn("common", toClient') \cup acked' # {} => mode = 2
          /\ CommitsIn("continue", toClient') # {} => mode = 1
          /\ CommitsIn("common", toClient') \subseteq Theirs
          /\ (CommitsIn("common", toClient') \cup CommitsIn("continue", toClient')) \cap Theirs
              \subseteq Down(parents, srv.have_obj)
      BY <1>4, <2>1, <2>2, <2>4, <2>5, <3>1, <3>2 DEF Served
    <3> QED
      BY <1>1, <1>4, <2>2, <3>3, <3>4 DEF Served
  <2>13. Replays'
    <3>1. SUFFICES ASSUME stateless
                   PROVE  /\ ToSet(again') \subseteq rev.popped \cap Theirs
                          /\ acked' \cup (InFlight' \cap m.common) \subseteq Down(parents, ToSet(again'))
      BY <1>1, <1>4, <2>1, <2>5 DEF Replays
    <3>2. k = "common"
      <4>1. mode = 2
        BY <3>1 DEF FetchIInv, FixedOK
      <4>2. k = "continue" => CommitsIn("continue", toClient) # {}
        BY <1>2
      <4> QED
        BY <2>1, <2>2, <4>1, <4>2 DEF Served
    <3>3. c \in InFlight /\ c \in Theirs
      <4>1. c \in CommitsIn("common", toClient)
        BY <1>2, <3>2
      <4> QED
        BY <2>2, <4>1 DEF InFlight, Served
    <3>4. /\ ToSet(again) \subseteq rev.popped \cap Theirs
          /\ acked \cup (InFlight \cap rev.common) \subseteq Down(parents, ToSet(again))
      BY <2>2, <3>1 DEF Replays
    <3>5. /\ ToSet(again') \in SUBSET Commit /\ ToSet(again) \subseteq ToSet(again')
          /\ ToSet(again') \subseteq ToSet(again) \cup {c}
          /\ c \notin rev.common => c \in ToSet(again')
      <4>1. CASE c \in rev.common
        BY <1>1, <2>3, <4>1 DEF Replayed
      <4>2. CASE c \notin rev.common
        <5>1. again' = Append(again, c)
          BY <1>1, <3>1, <3>2, <4>2 DEF Replayed
        <5>2. ToSet(again') = ToSet(again) \cup {c}
          BY <1>3, <5>1, ToldMore
        <5> QED
          BY <1>3, <2>3, <5>2
      <4> QED
        BY <4>1, <4>2
    <3>6. Down(parents, ToSet(again)) \subseteq Down(parents, ToSet(again'))
      BY <1>3, <2>3, <3>5, DownMore
    <3>7. c \in Down(parents, ToSet(again'))
      <4>1. ToSet(again') \subseteq Down(parents, ToSet(again'))
        BY <1>3, <3>5, DownHolds
      <4> QED
        BY <3>3, <3>4, <3>5, <3>6, <4>1
    <3>8. Down(parents, {c}) \subseteq Down(parents, ToSet(again'))
      <4>1. {c} \subseteq Down(parents, ToSet(again'))
        BY <3>7
      <4> QED
        BY <1>3, <3>5, <4>1, DownWithin
    <3>9. acked' \subseteq acked \cup {c}
      BY <1>1
    <3>10. acked' \cup (InFlight' \cap m.common) \subseteq Down(parents, ToSet(again'))
      <4>1. \A x \in InFlight' \cap m.common : x \in InFlight \cap rev.common \/ x \in m.common \ rev.common
        BY <1>4
      <4> QED
        BY <2>6, <3>4, <3>6, <3>7, <3>8, <3>9, <4>1
    <3> QED
      BY <2>4, <3>3, <3>4, <3>5, <3>10
  <2> QED
    BY <2>9, <2>10, <2>11, <2>12, <2>13 DEF Telling
<1> QED
  BY <1>5, <1>6 DEF TellIInv

----------------------------------------------------------------------------
LEMMA NoCommits ==
  ASSUME NEW S, NEW s \in Seq(S), NEW k, \A l \in S : l.kind # k
  PROVE  CommitsIn(k, s) = {}
BY DEF CommitsIn

\* The server reads a line and answers: what it acknowledges it knows.
LEMMA TellServed ==
  ASSUME FetchIInv, TellIInv, running, toServer # <<>>, toServer' = Tail(toServer),
         UNCHANGED <<fixed, client>>, NEW lines \in Seq(Reply), toClient' = toClient \o lines,
         NEW told \in SUBSET Commit,
         told = IF Head(toServer).kind = "have" THEN {Head(toServer).commit} ELSE {},
         srv'.have_obj \in SUBSET Commit, srv.have_obj \subseteq Down(parents, srv'.have_obj),
         ~got.ready => (told \cap Theirs) \cup srv'.they_have \subseteq Down(parents, srv'.have_obj),
         CommitsIn("common", lines) = IF mode = 2 THEN told \cap Theirs ELSE {},
         CommitsIn("continue", lines) \subseteq told, mode # 1 => CommitsIn("continue", lines) = {},
         running' \/ toServer' = <<>>, phase \in BeforeDone /\ ~stateless => running'
  PROVE  TellIInv'
<1>1. /\ UNCHANGED <<parents, ours, theirs, wants, mode, stateless>>
      /\ UNCHANGED <<phase, refs, rev, req, again, got, acked>>
  BY DEF fixed, client, answers
<1>2. /\ toServer \in Seq(ToldLine) /\ toClient \in Seq(Reply)
      /\ mode \in 0..2 /\ (stateless => mode = 2)
  BY DEF FetchIInv, PipesOK, FixedOK
<1>3. /\ \A i \in DOMAIN toServer' : i + 1 \in DOMAIN toServer /\ toServer'[i] = toServer[i + 1]
      /\ Len(toServer') = Len(toServer) - 1 /\ Len(toServer) \in Nat
      /\ CommitsIn("have", toServer) = CommitsIn("have", toServer') \cup told
  <2>1. CommitsIn("have", toServer)
          = CommitsIn("have", Tail(toServer))
              \cup (IF Head(toServer).kind = "have" THEN {Head(toServer).commit} ELSE {})
    BY <1>2, CommitsOfRest
  <2> QED
    BY <1>2, <2>1, Rest
<1>4. /\ CommitsIn("common", toClient') = CommitsIn("common", toClient) \cup CommitsIn("common", lines)
      /\ CommitsIn("continue", toClient')
           = CommitsIn("continue", toClient) \cup CommitsIn("continue", lines)
  BY <1>2, CommitsAdded
<1>5. Theirs' = Theirs /\ Unsent' = Unsent /\ Pending = Pending' \cup told
  <2>1. Theirs' = Theirs /\ Unsent' = Unsent
    BY <1>1 DEF Theirs, Unsent
  <2> QED
    BY <1>3, <2>1 DEF Pending
<1>6. TellFixed'
  BY <1>1 DEF TellIInv, TellFixed, HistoryOK
<1>7. Stopped'
  <2>1. ASSUME NEW i \in DOMAIN toServer',
               toServer'[i].kind = "done" \/ (stateless /\ toServer'[i].kind # "have")
        PROVE  i = Len(toServer')
    <3>1. i + 1 \in DOMAIN toServer /\ toServer'[i] = toServer[i + 1] /\ i \in Int
      BY <1>2, <1>3
    <3>2. i + 1 = Len(toServer)
      BY <2>1, <3>1 DEF TellIInv, Stopped
    <3> QED
      BY <1>3, <3>1, <3>2
  <2> QED
    BY <1>1, <2>1 DEF Stopped
<1>8. ASSUME ~got.ready PROVE Telling'
  <2>1. ListRight /\ ToldKnown /\ CommonKnown /\ Served /\ Replays
    BY <1>8 DEF TellIInv, Telling
  <2>2. /\ parents \in [Commit -> SUBSET Commit] /\ Theirs \in SUBSET Commit
        /\ srv.have_obj \in SUBSET Commit /\ Base \in SUBSET Commit /\ rev.popped \in SUBSET Commit
        /\ ToSet(again) \in SUBSET Commit /\ rev.list \in SUBSET Commit
    BY <2>1, TellTypes, BaseIn
  <2>3. Down(parents, srv.have_obj) \subseteq Down(parents, srv'.have_obj)
    BY <2>2, DownWithin
  <2>4. /\ CommitsIn("common", toClient') \subseteq CommitsIn("common", toClient) \cup told
        /\ CommitsIn("common", toClient') \subseteq Theirs
        /\ CommitsIn("continue", toClient') \subseteq CommitsIn("continue", toClient) \cup told
        /\ CommitsIn("common", toClient) \subseteq CommitsIn("common", toClient')
    BY <1>4, <2>1 DEF Served
  <2>5. told \subseteq Pending
    BY <1>5
  <2>6. Base' \in SUBSET Commit /\ Base \subseteq Down(parents, Base')
    <3>1. CASE stateless /\ phase \in BeforeDone
      <4>1. Base = (Pending \cap Theirs) \cup acked \cup CommitsIn("common", toClient)
        BY <3>1 DEF Base
      <4>2. Base' = (Pending' \cap Theirs) \cup acked \cup CommitsIn("common", toClient')
        BY <1>1, <1>5, <3>1 DEF Base
      <4>3. CommitsIn("common", toClient') = CommitsIn("common", toClient) \cup (told \cap Theirs)
        BY <1>2, <1>4, <3>1
      <4>4. Base' = Base
        BY <1>5, <4>1, <4>2, <4>3
      <4> QED
        BY <2>2, <4>4, DownHolds
    <3>2. CASE ~(stateless /\ phase \in BeforeDone)
      <4>1. Base = (Pending \cap Theirs) \cup srv.have_obj
        BY <3>2 DEF Base
      <4>2. Base' = (Pending' \cap Theirs) \cup srv'.have_obj
        BY <1>1, <1>5, <3>2 DEF Base
      <4>3. Base' \in SUBSET Commit
        BY <2>2, <4>2
      <4>4. /\ Base' \subseteq Down(parents, Base')
            /\ Down(parents, srv'.have_obj) \subseteq Down(parents, Base')
        <5>1. srv'.have_obj \subseteq Base'
          BY <4>2
        <5> QED
          BY <2>2, <4>3, <5>1, DownHolds, DownMore
      <4>5. \A x \in Base : x \in Base' \/ x \in Down(parents, srv'.have_obj)
        BY <1>5, <1>8, <4>1, <4>2
      <4> QED
        BY <4>3, <4>4, <4>5
    <3> QED
      BY <3>1, <3>2
  <2>7. Down(parents, Base) \subseteq Down(parents, Base')
    BY <2>2, <2>6, DownWithin
  <2>8. ListRight'
    BY <1>1, <2>1 DEF ListRight, Listed
  <2>9. ToldKnown'
    BY <1>1, <1>5, <2>1, <2>7 DEF ToldKnown
  <2>10. CommonKnown'
    <3>1. Witness \in SUBSET Commit /\ Witness' \in SUBSET Commit /\ Base' \subseteq Witness'
      BY <1>1, <2>2, <2>6 DEF Witness
    <3>2. /\ Witness' \subseteq Down(parents, Witness')
          /\ Down(parents, Base') \subseteq Down(parents, Witness')
      BY <2>2, <2>6, <3>1, DownHolds, DownMore
    <3>3. Witness \subseteq Down(parents, Witness')
      BY <1>1, <2>6, <3>2 DEF Witness
    <3>4. Down(parents, Witness) \subseteq Down(parents, Witness')
      BY <2>2, <3>1, <3>3, DownWithin
    <3> QED
      BY <1>1, <1>5, <2>1, <3>4 DEF CommonKnown
  <2>11. Served'
    <3>1. /\ (CommitsIn("common", toClient) \cup CommitsIn("continue", toClient)) \cap Theirs
               \subseteq Down(parents, srv.have_obj)
          /\ ~stateless => acked \subseteq Down(parents, srv.have_obj)
          /\ CommitsIn("common", toClient) \cup acked # {} => mode = 2
          /\ CommitsIn("continue", toClient) # {} => mode = 1
          /\ Pending \cup CommitsIn("common", toClient) \cup CommitsIn("continue", toClient) \cup acked
               \subseteq rev.popped
      BY <2>1 DEF Served
    <3>2. (CommitsIn("common", toClient') \cup CommitsIn("continue", toClient')) \cap Theirs
            \subseteq Down(parents, srv'.have_obj)
      BY <1>8, <2>3, <2>4, <3>1
    <3>3. /\ CommitsIn("common", toClient') \cup acked # {} => mode = 2
          /\ CommitsIn("continue", toClient') # {} => mode = 1
      BY <1>4, <3>1
    <3>4. Pending' \cup CommitsIn("common", toClient') \cup CommitsIn("continue", toClient') \cup acked
               \subseteq rev.popped
      BY <1>5, <2>4, <2>5, <3>1
    <3> QED
      BY <1>1, <1>5, <1>8, <2>3, <2>4, <3>1, <3>2, <3>3, <3>4 DEF Served
  <2>12. Replays'
    <3>1. InFlight' \subseteq InFlight
      BY <1>5, <2>4, <2>5 DEF InFlight
    <3> QED
      BY <1>1, <1>5, <2>1, <2>7, <3>1 DEF Replays
  <2> QED
    BY <2>8, <2>9, <2>10, <2>11, <2>12 DEF Telling
<1> QED
  BY <1>1, <1>6, <1>7, <1>8 DEF TellIInv

LEMMA ServeCommonTold ==
  ASSUME FetchIInv, TellIInv, ServeCommon
  PROVE  TellIInv'
<1> DEFINE c == Head(toServer).commit
           kind == IF mode = 2 THEN "common" ELSE IF mode = 1 THEN "continue" ELSE "ACK"
           b == mode # 0 \/ Cardinality(srv'.have_obj) = 1
           line == Ack(kind, c)
           lines == Maybe(b, line)
           have == IF c \in srv.they_have THEN srv.have_obj ELSE srv.have_obj \cup {c}
           they == srv.they_have \cup {c} \cup parents[c]
<1>1. /\ running /\ running' /\ toServer # <<>> /\ toServer' = Tail(toServer)
      /\ Head(toServer).kind = "have" /\ UNCHANGED <<fixed, client>>
      /\ srv' = got_sha1(srv, c) /\ toClient' = toClient \o lines /\ c \in ServerHas
  BY DEF ServeCommon, Gets, Answer
<1>2. /\ srv.have_obj \in SUBSET Commit /\ parents \in [Commit -> SUBSET Commit]
      /\ c \in Theirs /\ c \in Commit
  BY <1>1, TellTypes
<1>3. mode \in 0..2 /\ b \in BOOLEAN
  BY DEF FetchIInv, FixedOK
<1>4. srv'.have_obj = have /\ srv'.they_have = they
  <2>1. srv \in Server_
    BY DEF FetchIInv, ServerOK
  <2> DEFINE oldest == IF srv.oldest_have = 0 \/ Date[c] < srv.oldest_have THEN Date[c]
                       ELSE srv.oldest_have
  <2>2. srv' = [srv EXCEPT !.they_have = they, !.have_obj = have, !.oldest_have = oldest,
                           !.got_common = TRUE, !.last = c]
    BY <1>1 DEF got_sha1
  <2> HIDE DEF they, have, oldest, c
  <2> QED
    BY <2>1, <2>2 DEF Server_
<1>5. line \in Reply /\ line.kind = kind /\ line.commit = c
  BY <1>2 DEF Ack, Reply, AckLine
<1>6. have \in SUBSET Commit /\ srv.have_obj \subseteq have
  BY <1>2
<1>7. c \notin srv.they_have => c \in have
  OBVIOUS
<1> HIDE DEF have, b, line
<1>8. Down(parents, srv.have_obj) \subseteq Down(parents, have) /\ have \subseteq Down(parents, have)
      /\ \A x \in Down(parents, have) : parents[x] \subseteq Down(parents, have)
  BY <1>2, <1>6, DownHolds, DownMore
<1>9. ~got.ready => {c} \cup they \subseteq Down(parents, have)
  <2> SUFFICES ASSUME ~got.ready PROVE {c} \cup they \subseteq Down(parents, have)
    OBVIOUS
  <2>1. srv.they_have \subseteq Down(parents, have)
    BY <1>8 DEF TellIInv, Telling, Served
  <2>2. c \in Down(parents, have)
    BY <1>7, <1>8, <2>1
  <2> QED
    BY <1>8, <2>1, <2>2
<1>10. /\ lines \in Seq(Reply)
       /\ CommitsIn("common", lines) = (IF mode = 2 THEN {c} ELSE {})
       /\ CommitsIn("continue", lines) = (IF mode = 1 THEN {c} ELSE {})
  <2>1. CASE b
    <3>1. lines = <<line>>
      BY <2>1 DEF Maybe
    <3>2. \A k : CommitsIn(k, <<line>>) = (IF line.kind = k THEN {line.commit} ELSE {})
      BY CommitsOfOne
    <3>3. <<line>> \in Seq(Reply)
      BY <1>5
    <3> QED
      BY <1>3, <1>5, <3>1, <3>2, <3>3
  <2>2. CASE ~b
    <3>1. lines = <<>> /\ mode = 0
      BY <2>2 DEF Maybe, b
    <3>2. \A k : CommitsIn(k, <<>>) = {}
      BY CommitsOfOne
    <3> QED
      BY <3>1, <3>2
  <2> QED
    BY <1>3, <2>1, <2>2
<1> DEFINE told == {c}
<1>11. told \in SUBSET Commit /\ told \cap Theirs = {c}
  BY <1>2
<1>12. told = IF Head(toServer).kind = "have" THEN {Head(toServer).commit} ELSE {}
  BY <1>1
<1>13. Down(parents, srv'.have_obj) = Down(parents, have)
  BY <1>4
<1>14. /\ ~got.ready => (told \cap Theirs) \cup srv'.they_have \subseteq Down(parents, srv'.have_obj)
       /\ srv'.have_obj \in SUBSET Commit
       /\ srv.have_obj \subseteq Down(parents, srv'.have_obj)
  BY <1>4, <1>6, <1>8, <1>9, <1>11, <1>13
<1>15. /\ CommitsIn("common", lines) = IF mode = 2 THEN told \cap Theirs ELSE {}
       /\ CommitsIn("continue", lines) \subseteq told
       /\ mode # 1 => CommitsIn("continue", lines) = {}
  BY <1>10, <1>11
<1> HIDE DEF told, lines, c, they
<1> QED
  BY <1>1, <1>10, <1>11, <1>12, <1>14, <1>15, TellServed

LEMMA ServeOtherTold ==
  ASSUME FetchIInv, TellIInv, ServeOther
  PROVE  TellIInv'
<1> DEFINE c == Head(toServer).commit
           kind == IF mode = 2 THEN "ready" ELSE "continue"
           enough == mode # 0 /\ ok_to_give_up(srv)
           line == Ack(kind, c)
           lines == Maybe(enough, line)
           told == {c}
<1>1. /\ running /\ running' /\ toServer # <<>> /\ toServer' = Tail(toServer)
      /\ Head(toServer).kind = "have" /\ UNCHANGED <<fixed, client>> /\ c \notin ServerHas
      /\ srv' = [srv EXCEPT !.got_other = TRUE, !.sent_ready = @ \/ (mode = 2 /\ enough)]
      /\ toClient' = toClient \o lines
  BY DEF ServeOther, Gets, Answer
<1>2. told \in SUBSET Commit /\ told \cap Theirs = {}
  <2>1. Head(toServer) \in ToldLine
    BY <1>1, Rest DEF FetchIInv, PipesOK
  <2>2. c \in Commit
    BY <1>1, <2>1 DEF ToldLine
  <2> QED
    BY <1>1, <2>2, TellTypes
<1>3. srv'.have_obj = srv.have_obj /\ srv'.they_have = srv.they_have
  <2>1. srv \in Server_
    BY DEF FetchIInv, ServerOK
  <2> HIDE DEF enough
  <2> QED
    BY <1>1, <2>1 DEF Server_
<1>4. line \in Reply /\ line.kind = kind /\ line.commit = c /\ (enough => mode # 0)
  BY <1>2 DEF Ack, Reply, AckLine
<1>5. mode \in 0..2
  BY DEF FetchIInv, FixedOK
<1> HIDE DEF enough, line
<1>6. /\ lines \in Seq(Reply)
      /\ CommitsIn("common", lines) = {} /\ CommitsIn("continue", lines) \subseteq told
      /\ mode # 1 => CommitsIn("continue", lines) = {}
  <2>1. CASE enough
    <3>1. lines = <<line>>
      BY <2>1 DEF Maybe
    <3>2. \A k : CommitsIn(k, <<line>>) = (IF line.kind = k THEN {line.commit} ELSE {})
      BY CommitsOfOne
    <3>3. <<line>> \in Seq(Reply)
      BY <1>4
    <3>4. kind # "common" /\ (mode # 1 => kind # "continue")
      BY <1>4, <1>5, <2>1
    <3>5. CommitsIn("common", lines) = {} /\ CommitsIn("continue", lines) \subseteq told
          /\ (mode # 1 => CommitsIn("continue", lines) = {})
      <4> HIDE DEF kind, c
      <4> QED
        BY <1>4, <3>1, <3>2, <3>4
    <3> QED
      BY <3>1, <3>3, <3>5
  <2>2. CASE ~enough
    <3>1. lines = <<>>
      BY <2>2 DEF Maybe
    <3>2. \A k : CommitsIn(k, <<>>) = {}
      BY CommitsOfOne
    <3> QED
      BY <3>1, <3>2
  <2> QED
    BY <2>1, <2>2
<1>7. /\ srv'.have_obj \in SUBSET Commit /\ srv.have_obj \subseteq Down(parents, srv'.have_obj)
      /\ ~got.ready => srv'.they_have \subseteq Down(parents, srv'.have_obj)
  <2>1. srv.have_obj \subseteq Down(parents, srv.have_obj) /\ srv.have_obj \in SUBSET Commit
    BY TellTypes, DownHolds
  <2> QED
    BY <1>3, <2>1 DEF TellIInv, Telling, Served
<1>8. told = IF Head(toServer).kind = "have" THEN {Head(toServer).commit} ELSE {}
  BY <1>1
<1>9. CommitsIn("common", lines) = IF mode = 2 THEN told \cap Theirs ELSE {}
  BY <1>2, <1>6
<1>10. ~got.ready => (told \cap Theirs) \cup srv'.they_have \subseteq Down(parents, srv'.have_obj)
  BY <1>2, <1>7
<1> HIDE DEF told, lines, c
<1> QED
  BY <1>1, <1>2, <1>6, <1>7, <1>8, <1>9, <1>10, TellServed

\* The server answers a line that tells nothing.
LEMMA TellAnswered ==
  ASSUME FetchIInv, TellIInv, running, toServer # <<>>, toServer' = Tail(toServer),
         Head(toServer).kind \in {"flush", "done"},
         UNCHANGED <<fixed, client>>, NEW lines \in Seq(Reply), toClient' = toClient \o lines,
         \A i \in DOMAIN lines : lines[i].kind \notin {"common", "continue"},
         srv'.have_obj = srv.have_obj, srv'.they_have = srv.they_have,
         running' \/ toServer' = <<>>, phase \in BeforeDone /\ ~stateless => running'
  PROVE  TellIInv'
<1>1. srv.have_obj \in SUBSET Commit /\ srv.have_obj \subseteq Down(parents, srv.have_obj)
  BY TellTypes, DownHolds
<1>2. CommitsIn("common", lines) = {} /\ CommitsIn("continue", lines) = {}
  BY DEF CommitsIn
<1>3. ~got.ready => srv'.they_have \subseteq Down(parents, srv'.have_obj)
  BY DEF TellIInv, Telling, Served
<1> DEFINE told == {}
<1>4. told \in SUBSET Commit /\ told \cap Theirs = {}
  OBVIOUS
<1>5. told = IF Head(toServer).kind = "have" THEN {Head(toServer).commit} ELSE {}
  OBVIOUS
<1>6. /\ ~got.ready => (told \cap Theirs) \cup srv'.they_have \subseteq Down(parents, srv'.have_obj)
      /\ srv'.have_obj \in SUBSET Commit /\ srv.have_obj \subseteq Down(parents, srv'.have_obj)
  BY <1>1, <1>3
<1>7. /\ CommitsIn("common", lines) = IF mode = 2 THEN told \cap Theirs ELSE {}
      /\ CommitsIn("continue", lines) \subseteq told /\ (mode # 1 => CommitsIn("continue", lines) = {})
  BY <1>2, <1>4
<1> HIDE DEF told
<1> QED
  BY <1>4, <1>5, <1>6, <1>7, TellServed

\* What follows a line.
LEMMA LastLine ==
  ASSUME FetchIInv, TellIInv, toServer # <<>>, toServer' = Tail(toServer),
         Head(toServer).kind = "done" \/ (stateless /\ Head(toServer).kind # "have")
  PROVE  toServer' = <<>>
<1>1. /\ toServer \in Seq(ToldLine) /\ 1 \in DOMAIN toServer /\ Head(toServer) = toServer[1]
      /\ Len(toServer') = Len(toServer) - 1 /\ toServer' \in Seq(ToldLine)
  BY Rest DEF FetchIInv, PipesOK
<1>2. 1 = Len(toServer)
  BY <1>1 DEF TellIInv, Stopped
<1> QED
  BY <1>1, <1>2

LEMMA ServeFlushTold ==
  ASSUME FetchIInv, TellIInv, ServeFlush
  PROVE  TellIInv'
<1> DEFINE ready == /\ mode = 2 /\ srv.got_common /\ ~srv.got_other
                    /\ ok_to_give_up(srv)
           last == no_done /\ (srv.sent_ready \/ ready)
           first == Maybe(ready, Ack("ready", srv.last))
           second == Maybe(Naks(srv), Line("NAK"))
           third == IF last THEN <<Ack("ACK", srv.last), Line("pack")>> ELSE <<>>
           lines == first \o second \o third
<1>1. /\ running /\ toServer # <<>> /\ toServer' = Tail(toServer)
      /\ Head(toServer).kind = "flush" /\ UNCHANGED <<fixed, client>>
      /\ srv' = [srv EXCEPT !.sent_ready = @ \/ ready, !.got_common = FALSE, !.got_other = FALSE]
      /\ running' = ~(last \/ stateless) /\ toClient' = toClient \o lines
  BY DEF ServeFlush, Gets, Answer
<1>2. /\ srv'.have_obj = srv.have_obj /\ srv'.they_have = srv.they_have
      /\ srv.last \in Commit \cup {None} /\ (ready => srv.last # None)
  <2>1. srv \in Server_ /\ (srv.got_common => srv.last # None)
    BY DEF FetchIInv, ServerOK
  <2> HIDE DEF ready
  <2>2. srv'.have_obj = srv.have_obj /\ srv'.they_have = srv.they_have
    BY <1>1, <2>1 DEF Server_
  <2> QED
    BY <2>1, <2>2 DEF Server_, ready
<1> DEFINE Other == {l \in Reply : l.kind \notin {"common", "continue"}}
<1>3. /\ ready => Ack("ready", srv.last) \in Other
      /\ Line("NAK") \in Other /\ Ack("ACK", srv.last) \in Other /\ Line("pack") \in Other
  BY <1>2 DEF Ack, Line, Reply, AckLine
<1>4. no_done => stateless
  BY DEF FetchIInv, FixedOK
<1> HIDE DEF ready, Other
<1>5. first \in Seq(Other) /\ second \in Seq(Other) /\ third \in Seq(Other)
  <2>1. first \in Seq(Other)
    BY <1>3 DEF Maybe
  <2>2. second \in Seq(Other)
    BY <1>3 DEF Maybe
  <2> QED
    BY <1>3, <2>1, <2>2
<1> HIDE DEF first, second, third
<1>6. lines \in Seq(Other)
  BY <1>5
<1> HIDE DEF lines
<1>7. lines \in Seq(Reply) /\ \A i \in DOMAIN lines : lines[i].kind \notin {"common", "continue"}
  <2>1. \A l \in Other : l \in Reply /\ l.kind \notin {"common", "continue"}
    BY DEF Other
  <2> QED
    BY <1>6, <2>1
<1>8. /\ running' \/ toServer' = <<>>
      /\ phase \in BeforeDone /\ ~stateless => running'
  BY <1>1, <1>4, LastLine
<1> QED
  BY <1>1, <1>2, <1>7, <1>8, TellAnswered

LEMMA ServeDoneTold ==
  ASSUME FetchIInv, TellIInv, ServeDone
  PROVE  TellIInv'
<1> DEFINE first == Maybe(srv.have_obj = {}, Line("NAK"))
           second == Maybe(srv.have_obj # {} /\ mode # 0, Ack("ACK", srv.last))
           third == <<Line("pack")>>
           lines == first \o second \o third
<1>1. /\ running /\ toServer # <<>> /\ toServer' = Tail(toServer)
      /\ Head(toServer).kind = "done" /\ UNCHANGED <<fixed, client>>
      /\ srv' = srv /\ running' = FALSE /\ toClient' = toClient \o lines
  BY DEF ServeDone, Gets, Answer
<1> DEFINE Other == {l \in Reply : l.kind \notin {"common", "continue"}}
<1>2. Line("NAK") \in Other /\ Ack("ACK", srv.last) \in Other /\ Line("pack") \in Other
  <2>1. srv.last \in Commit \cup {None}
    BY DEF FetchIInv, ServerOK, Server_
  <2> QED
    BY <2>1 DEF Ack, Line, Reply
<1> HIDE DEF Other
<1>3. first \in Seq(Other) /\ second \in Seq(Other) /\ third \in Seq(Other)
  <2>1. first \in Seq(Other)
    BY <1>2 DEF Maybe
  <2>2. second \in Seq(Other)
    BY <1>2 DEF Maybe
  <2> QED
    BY <1>2, <2>1, <2>2
<1> HIDE DEF first, second, third
<1>4. lines \in Seq(Other)
  BY <1>3
<1> HIDE DEF lines
<1>5. lines \in Seq(Reply) /\ \A i \in DOMAIN lines : lines[i].kind \notin {"common", "continue"}
  <2>1. \A l \in Other : l \in Reply /\ l.kind \notin {"common", "continue"}
    BY DEF Other
  <2> QED
    BY <1>4, <2>1
<1>6. phase \notin BeforeDone
  <2>1. 1 \in DOMAIN toServer /\ toServer[1].kind = "done"
    BY <1>1, Rest DEF FetchIInv, PipesOK
  <2>2. Has("done", toServer)
    BY <2>1 DEF Has
  <2> QED
    BY <2>2 DEF FetchIInv, Asked
<1>7. toServer' = <<>>
  BY <1>1, LastLine
<1> QED
  BY <1>1, <1>5, <1>6, <1>7, TellAnswered

----------------------------------------------------------------------------
LEMMA TellInitially ==
  ASSUME ClocksRight, FetchInit
  PROVE  TellIInv
<1>1. FetchIInv
  BY FetchInitially
<1>2. HistoryOK
  <2>1. parents \in Histories
    BY DEF FetchInit
  <2> QED
    BY <1>1, <2>1 DEF FetchIInv, FixedOK, ClocksRight, HistoryOK
<1>3. /\ phase = "local" /\ refs \subseteq theirs /\ acked = {}
      /\ rev = [list |-> {}, seen |-> {}, common |-> {}, popped |-> {}, ref |-> {},
                non_common_revs |-> 0]
      /\ req = <<>> /\ again = <<>> /\ running = TRUE /\ srv = NewServer
      /\ toServer = <<>> /\ toClient = <<>>
  BY DEF FetchInit
<1>4. wants \subseteq theirs
  <2>1. PICK complete : wants \in {asked \ complete : asked \in SUBSET theirs} \ {{}}
    BY DEF FetchInit
  <2> QED
    BY <2>1
<1>5. TellFixed /\ Stopped
  BY <1>2, <1>3, <1>4 DEF TellFixed, Stopped
<1>6. ToSet(<<>>) = {} /\ \A k : CommitsIn(k, <<>>) = {}
  BY DEF ToSet, CommitsIn
<1>7. Pending = {} /\ InFlight = {}
  BY <1>3, <1>6 DEF Pending, Unsent, InFlight
<1>8. ListRight
  <2>1. Cardinality({}) = 0
    BY FS_EmptySet
  <2> QED
    BY <1>3, <2>1 DEF ListRight, Listed
<1>9. ToldKnown /\ CommonKnown
  BY <1>3 DEF ToldKnown, CommonKnown
<1>10. Served
  BY <1>3, <1>6, <1>7 DEF Served, NewServer
<1>11. Replays
  BY <1>3, <1>6, <1>7 DEF Replays, BeforeDone
<1> QED
  BY <1>5, <1>8, <1>9, <1>10, <1>11 DEF TellIInv, Telling

LEMMA TellInductive ==
  FetchIInv /\ TellIInv /\ [FetchNext]_fetch_vars => TellIInv'
<1> SUFFICES ASSUME FetchIInv, TellIInv, [FetchNext]_fetch_vars PROVE TellIInv'
  OBVIOUS
<1>1. ASSUME NEW c \in Commit, LocalRef(c) PROVE TellIInv'
  BY <1>1, LocalRefTold
<1>2. CASE FindCommon
  BY <1>2, FindCommonTold
<1>3. CASE Skip
  BY <1>3, SkipTold
<1>4. CASE Have
  BY <1>4, HaveTold
<1>5. CASE GotAck
  BY <1>5, GotAckTold
<1>6. CASE GotNak
  BY <1>6, GotNakTold
<1>7. CASE GotFinal
  BY <1>7, GotFinalTold
<1>8. CASE NoRev
  BY <1>8, NoRevTold
<1>9. CASE Done
  BY <1>9, DoneTold
<1>10. CASE Final
  BY <1>10, FinalTold
<1>11. CASE GetPack
  BY <1>11, GetPackTold
<1>12. CASE ServeCommon
  BY <1>12, ServeCommonTold
<1>13. CASE ServeOther
  BY <1>13, ServeOtherTold
<1>14. CASE ServeFlush
  BY <1>14, ServeFlushTold
<1>15. CASE ServeDone
  BY <1>15, ServeDoneTold
<1>16. CASE UNCHANGED fetch_vars
  BY <1>16, TellQuiet DEF fetch_vars, fixed, client, answers
<1> QED
  BY <1>1, <1>2, <1>3, <1>4, <1>5, <1>6, <1>7, <1>8, <1>9, <1>10, <1>11, <1>12, <1>13, <1>14, <1>15,
     <1>16 DEF FetchNext, Client, Server

LEMMA TellInvariance ==
  ASSUME ClocksRight
  PROVE  FetchSpec => [](FetchIInv /\ TellIInv)
<1>1. FetchInit => FetchIInv /\ TellIInv
  BY FetchInitially, TellInitially
<1>2. FetchIInv /\ TellIInv /\ [FetchNext]_fetch_vars => (FetchIInv /\ TellIInv)'
  BY FetchInductive, TellInductive
<1> QED
  BY <1>1, <1>2, PTL DEF FetchSpec

\* When the pack is there, all that the client told has been read.
LEMMA AllRead ==
  ASSUME FetchIInv, TellIInv, phase \in {"pack", "end"}, mode # 0
  PROVE  Pending = {} /\ Base = srv.have_obj
<1>1. ~running /\ phase \notin BeforeDone
  BY DEF FetchIInv, AtPack, BeforeDone
<1>2. toServer = <<>>
  BY <1>1 DEF TellIInv, Stopped
<1>3. Pending = {}
  BY <1>1, <1>2, CommitsOfOne DEF Pending, Unsent
<1> QED
  BY <1>1, <1>3 DEF Base

\* Unless it has said that it is ready, the server that sends the pack knows of all commits that were
\* acknowledged as common, be they told to an earlier process (the state_len part of the request,
\* builtin/fetch-pack.c:429): for every history in which parents are older than their children.
THEOREM AcknowledgedIsKept ==
  ASSUME ClocksRight
  PROVE  FetchSpec => []AckedKept
<1>1. FetchIInv /\ TellIInv => AckedKept
  <2> SUFFICES ASSUME FetchIInv, TellIInv, phase \in {"pack", "end"}, ~got.ready
               PROVE  acked \subseteq Reach(srv.have_obj)
    BY DEF AckedKept
  <2>1. /\ parents \in [Commit -> SUBSET Commit] /\ srv.have_obj \in SUBSET Commit
        /\ ToSet(again) \in SUBSET Commit
    BY TellTypes
  <2>2. Reach(srv.have_obj) = Down(parents, srv.have_obj)
    BY <2>1, DownIs
  <2>3. Served /\ Replays
    BY DEF TellIInv, Telling
  <2>4. CASE ~stateless
    BY <2>2, <2>3, <2>4 DEF Served
  <2>5. CASE stateless
    <3>1. mode # 0
      BY <2>5 DEF FetchIInv, FixedOK
    <3>2. Base = srv.have_obj
      BY <3>1, AllRead
    <3>3. /\ acked \subseteq Down(parents, ToSet(again))
          /\ ToSet(again) \subseteq Down(parents, srv.have_obj)
      BY <2>3, <2>5, <3>2 DEF Replays, BeforeDone
    <3>4. Down(parents, ToSet(again)) \subseteq Down(parents, srv.have_obj)
      BY <2>1, <3>3, DownWithin
    <3> QED
      BY <2>2, <3>3, <3>4
  <2> QED
    BY <2>4, <2>5
<1> QED
  BY <1>1, TellInvariance, PTL

\* Unless somebody broke off, the pack holds no commit that the client has (get_rev() and
\* mark_common(), builtin/fetch-pack.c:89): for every history in which parents are older than their
\* children.
THEOREM NothingIsSentTwice ==
  ASSUME ClocksRight
  PROVE  FetchSpec => []NothingTwice
<1>1. FetchIInv /\ TellIInv => NothingTwice
  <2> SUFFICES ASSUME FetchIInv, TellIInv, phase \in {"pack", "end"}, mode # 0, NoMoreRevs,
                      ~got.ready, rev.common \subseteq ServerHas,
                      NEW x \in Reach(ours) \cap Reach(wants)
               PROVE  x \in Reach(srv.have_obj)
    BY DEF NothingTwice
  <2>1. /\ parents \in [Commit -> SUBSET Commit] /\ srv.have_obj \in SUBSET Commit
        /\ ServerHas = Theirs /\ rev.list \in SUBSET Commit
    BY TellTypes
  <2>2. ours \in SUBSET Commit /\ wants \in SUBSET Commit /\ theirs \in SUBSET Commit
    BY DEF FetchIInv, FixedOK, TellIInv, TellFixed
  <2> DEFINE known == Down(parents, srv.have_obj)
  <2>3. known = Reach(srv.have_obj) /\ \A c \in known : parents[c] \subseteq known
    BY <2>1, DownIs, DownHolds
  <2>4. ListRight /\ ToldKnown /\ CommonKnown /\ Base = srv.have_obj
    BY AllRead DEF TellIInv, Telling
  <2>5. rev.list \subseteq rev.common
    <3>1. IsFiniteSet(rev.list \ rev.common)
      BY <2>1, FS_Subset, FetchNegotiationAssumption DEF FetchNegotiationAssumption
    <3>2. rev.list # {} => Cardinality(rev.list \ rev.common) = 0
      BY <2>4 DEF NoMoreRevs, ListRight, Listed
    <3> QED
      BY <3>1, <3>2, FS_EmptySet
  <2> HIDE DEF known
  <2>6. rev.common \subseteq known
    <3>1. Witness = srv.have_obj
      BY <2>4, <2>5 DEF Witness
    <3> QED
      BY <2>1, <2>4, <3>1 DEF CommonKnown, known
  <2>7. (rev.popped \cap Theirs) \ rev.common \subseteq known
    BY <2>4 DEF ToldKnown, known
  <2>8. x \in rev.popped \cup known
    <3>1. ours \subseteq rev.popped \cup known
      BY <2>4, <2>5, <2>6 DEF ListRight, Listed, BeforeDone
    <3>2. \A c \in rev.popped \cup known : parents[c] \subseteq rev.popped \cup known
      BY <2>3, <2>4, <2>5, <2>6 DEF ListRight, Listed
    <3>3. Reach(ours) \subseteq rev.popped \cup known
      BY <3>1, <3>2, ReachLeast
    <3> QED
      BY <3>3
  <2>9. x \in Theirs
    <3>1. wants \subseteq theirs
      BY DEF TellIInv, TellFixed
    <3>2. Down(parents, wants) \subseteq Theirs
      BY <2>1, <2>2, <3>1, DownMore DEF Theirs
    <3> QED
      BY <2>1, <2>2, <3>2, DownIs
  <2> QED
    BY <2>3, <2>6, <2>7, <2>8, <2>9
<1> QED
  BY <1>1, TellInvariance, PTL
=============================================================================
