-------------------------- MODULE SequencerProofs --------------------------
(***************************************************************************)
(* Sequencer, for all commits, lists, conflicts and numbers of commands,   *)
(* and for kills at any step: a sequence skips nothing, and --abort        *)
(* restores the HEAD that it began at and keeps what is not staged.        *)
(***************************************************************************)
EXTENDS Sequencer, SequenceTheorems, TLAPS

\* The changes that are in HEAD, that the user gave up, or whose merge never began.
Handled == Tree(head) \cup given \cup unmerged

\* s is what is left of the list w when the items before it are in h.
Left(s, w, h) == \E k \in 1..Len(w) : /\ Len(s) = Len(w) + 1 - k
                                      /\ \A i \in 1..Len(s) : s[i] = w[i + k - 1]
                                      /\ \A i \in 1..(k - 1) : w[i] \in h

\* The list of the sequence is one that may be asked for.
Asked == want \in Lists \cup {<<>>}

\* Which commands pass through which steps
Modes ==
  /\ pc = "idle" => mode = "none"
  /\ pc \in {"save_head", "save_todo"} => mode = "pick"
  /\ pc \in {"pick", "cherry_pick_head"} => mode \in {"pick", "single"} /\ mem # <<>>
  /\ pc \in {"git_commit", "unlink"} => mode \in {"pick", "single", "commit"}
  /\ pc \in {"reset", "reset_head", "branch_state"} => mode \in {"abort", "reset"}
  /\ pc = "remove" => mode \in {"pick", "abort", "quit"}

Picking == mode = "pick" /\ pc # "remove"

\* What a command picks, and what it has saved, is left of the list.  Once it has begun to pick
\* the one is the other.
TodoLeft ==
  /\ Picking => seq.dir /\ mem # <<>> /\ Left(mem, want, Handled)
  /\ seq.todo # None => Left(seq.todo, want, Handled)
  /\ Picking /\ pc \notin {"save_head", "save_todo"} => mem = seq.todo

\* The first item of the saved list is handled, or at least in the index, unless it is about to
\* be merged; before the list goes on it is handled.
FirstKnown ==
  /\ seq.todo # None /\ ~(mode = "pick" /\ pc = "pick")
       => Head(seq.todo) \in Handled \cup index.tree
  /\ mode = "pick" /\ pc = "unlink" => Head(mem) \in Handled

\* At the end everything is handled, and no item is merged any more.
EndKnown ==
  ended => /\ \A i \in 1..Len(want) : want[i] \in Handled
           /\ seq.todo # None => Len(seq.todo) <= 1
           /\ ~(mode = "pick" /\ pc \in {"save_head", "save_todo", "pick"})

\* What is saved is the HEAD that the sequence was started at.
HeadSaved ==
  /\ seq.head # None => seq.head = start
  /\ pc = "save_head" => head = start

\* How far --abort has come
Aborting ==
  mode = "abort" =>
    /\ pc \in {"reset", "reset_head", "branch_state", "remove"}
    /\ pc # "remove" => seq.head = start
    /\ pc # "reset" => given = Change /\ index = Clean(start)
    /\ pc \in {"branch_state", "remove"} => head = start
    /\ pc = "remove" => cph = None

\* The file is that of the index, but for the local change, which nobody makes to an unmerged
\* file, and for what a killed command wrote.
WorkKnown ==
  /\ work.edit = kept
  /\ kept => ~index.conflict
  /\ torn \/ work.tree = index.tree

IInv == /\ TypeOK /\ Asked /\ Modes /\ TodoLeft /\ FirstKnown /\ EndKnown
        /\ HeadSaved /\ Aborting /\ WorkKnown

USE DEF local

----------------------------------------------------------------------------
(* What is left of a list *)

\* The whole list is left at first.
LEMMA LeftWhole == ASSUME NEW w \in Seq(Commit), w # <<>>, NEW h PROVE Left(w, w, h)
  BY 1 \in 1..Len(w) DEF Left

\* It stays so when more is handled.
LEMMA LeftMonotone ==
  ASSUME NEW w \in Seq(Commit), NEW s, NEW h, NEW g, Left(s, w, h), h \cap Commit \subseteq g
  PROVE  Left(s, w, g)
<1>1. PICK k \in 1..Len(w) : /\ Len(s) = Len(w) + 1 - k
                             /\ \A i \in 1..Len(s) : s[i] = w[i + k - 1]
                             /\ \A i \in 1..(k - 1) : w[i] \in h
  BY DEF Left
<1>2. \A i \in 1..(k - 1) : w[i] \in g
  BY <1>1
<1> QED
  BY <1>1, <1>2 DEF Left

\* What is left does not tell of its own first item.
LEMMA LeftBut ==
  ASSUME NEW w \in Seq(Commit), IsInjective(w), NEW s \in Seq(Commit), s # <<>>, NEW h,
         Left(s, w, h)
  PROVE  Left(s, w, h \ {Head(s)})
<1>1. PICK k \in 1..Len(w) : /\ Len(s) = Len(w) + 1 - k
                             /\ \A i \in 1..Len(s) : s[i] = w[i + k - 1]
                             /\ \A i \in 1..(k - 1) : w[i] \in h
  BY DEF Left
<1>2. Head(s) = w[k]
  BY <1>1
<1>3. \A i \in 1..(k - 1) : w[i] # w[k]
  BY DEF IsInjective
<1> QED
  BY <1>1, <1>2, <1>3 DEF Left

\* When the first item is handled the rest is left,
LEMMA LeftTail ==
  ASSUME NEW w \in Seq(Commit), NEW s \in Seq(Commit), s # <<>>, NEW h,
         Left(s, w, h), Head(s) \in h, Tail(s) # <<>>
  PROVE  Left(Tail(s), w, h)
<1>1. PICK k \in 1..Len(w) : /\ Len(s) = Len(w) + 1 - k
                             /\ \A i \in 1..Len(s) : s[i] = w[i + k - 1]
                             /\ \A i \in 1..(k - 1) : w[i] \in h
  BY DEF Left
<1>2. /\ Tail(s) \in Seq(Commit) /\ Len(Tail(s)) = Len(s) - 1
      /\ \A i \in 1..Len(Tail(s)) : Tail(s)[i] = s[i + 1]
  BY HeadTailProperties
<1>3. k + 1 \in 1..Len(w)
  <2>1. Len(Tail(s)) # 0
    BY <1>2
  <2> QED
    BY <1>1, <1>2, <2>1
<1>4. w[k] = Head(s)
  BY <1>1
<1>5. \A i \in 1..Len(Tail(s)) : Tail(s)[i] = w[i + (k + 1) - 1]
  BY <1>1, <1>2
<1>6. \A i \in 1..((k + 1) - 1) : w[i] \in h
  BY <1>1, <1>4
<1>7. Len(Tail(s)) = Len(w) + 1 - (k + 1)
  BY <1>1, <1>2
<1> QED
  BY <1>3, <1>5, <1>6, <1>7 DEF Left

\* and when there is no rest the whole list is handled.
LEMMA TailEmpty == ASSUME NEW s \in Seq(Commit), s # <<>>
                   PROVE  Tail(s) = <<>> <=> Len(s) <= 1
<1>1. Tail(s) \in Seq(Commit) /\ Len(Tail(s)) = Len(s) - 1 /\ Len(s) \in Nat
  BY HeadTailProperties, LenProperties
<1>2. Tail(s) = <<>> <=> Len(Tail(s)) = 0
  BY <1>1, EmptySeq
<1>3. Len(s) # 0
  BY EmptySeq
<1> QED
  BY <1>1, <1>2, <1>3

LEMMA LeftLast ==
  ASSUME NEW w \in Seq(Commit), NEW s \in Seq(Commit), Len(s) <= 1, NEW h,
         Left(s, w, h), Head(s) \in h
  PROVE  \A i \in 1..Len(w) : w[i] \in h
<1>1. PICK k \in 1..Len(w) : /\ Len(s) = Len(w) + 1 - k
                             /\ \A i \in 1..Len(s) : s[i] = w[i + k - 1]
                             /\ \A i \in 1..(k - 1) : w[i] \in h
  BY DEF Left
<1>2. w[k] = Head(s)
  BY <1>1
<1>3. k = Len(w)
  <2>1. Len(s) = Len(w) + 1 - k
    BY <1>1
  <2>2. Len(w) \in Nat
    BY LenProperties
  <2> QED
    BY <2>1, <2>2
<1>4. ASSUME NEW i \in 1..Len(w) PROVE w[i] \in h
  <2>1. i = k \/ i \in 1..(k - 1)
    BY <1>3
  <2> QED
    BY <1>1, <1>2, <2>1
<1> QED
  BY <1>4

----------------------------------------------------------------------------
(* Trees *)

\* A tree is a set of changes.
LEMMA TreeType == ASSUME base \subseteq Commit, NEW h \in Seq(SUBSET Change)
                  PROVE  Tree(h) \subseteq Change
  BY RangeOfSeq DEF Tree, Change

\* A commit of the index makes HEAD the tree of both.
LEMMA TreeAppend ==
  ASSUME NEW h \in Seq(SUBSET Change), NEW x \in SUBSET Change
  PROVE  /\ Append(h, x \ Tree(h)) \in Seq(SUBSET Change)
         /\ Tree(Append(h, x \ Tree(h))) = Tree(h) \cup x
<1> DEFINE y == x \ Tree(h)
           a == Append(h, y)
<1>1. /\ a \in Seq(SUBSET Change) /\ Len(a) = Len(h) + 1
      /\ \A i \in 1..Len(h) : a[i] = h[i]
      /\ a[Len(h) + 1] = y
  BY AppendProperties
<1>2. DOMAIN a = 1..(Len(h) + 1) /\ DOMAIN h = 1..Len(h)
  BY <1>1, LenProperties
<1> HIDE DEF a
<1>3. Range(a) = Range(h) \cup {y}
  <2>1. Len(h) \in Nat
    BY LenProperties
  <2>2. ASSUME NEW z \in Range(a) PROVE z \in Range(h) \cup {y}
    <3>1. PICK i \in 1..(Len(h) + 1) : z = a[i]
      BY <1>2, <2>2 DEF Range
    <3>2. i = Len(h) + 1 \/ i \in 1..Len(h)
      BY <2>1
    <3> QED
      BY <1>1, <1>2, <3>1, <3>2 DEF Range
  <2>3. ASSUME NEW z \in Range(h) PROVE z \in Range(a)
    <3>1. PICK i \in 1..Len(h) : z = h[i]
      BY <1>2, <2>3 DEF Range
    <3>2. i \in 1..(Len(h) + 1)
      BY <2>1
    <3> QED
      BY <1>1, <1>2, <3>1, <3>2 DEF Range
  <2>4. y \in Range(a)
    BY <1>1, <1>2, <2>1 DEF Range
  <2> QED
    BY <2>2, <2>3, <2>4
<1>4. UNION Range(a) = (UNION Range(h)) \cup y
  BY <1>3
<1>5. a = Append(h, y)
  BY DEF a
<1> QED
  BY <1>1, <1>4, <1>5 DEF Tree

\* A list that is asked for has no commit twice.
LEMMA WantInjective == Asked => want \in Seq(Commit) /\ IsInjective(want)
<1>1. DOMAIN << >> = {}
  OBVIOUS
<1>2. IsInjective(<<>>)
  BY <1>1 DEF IsInjective
<1> QED
  BY <1>2, EmptySeq, SequencerAssumption DEF Asked, SequencerAssumption

\* The commits of the list are commits; what is handled stays so, and with it what is left.
LEMMA Keeps ==
  ASSUME IInv, want' = want, Handled \cap Commit \subseteq Handled'
  PROVE  /\ \A s : Left(s, want, Handled) => Left(s, want', Handled')
         /\ (\A i \in 1..Len(want) : want[i] \in Handled)
              => (\A i \in 1..Len(want') : want'[i] \in Handled')
<1>1. want \in Seq(Commit)
  BY WantInjective DEF IInv
<1>2. \A i \in 1..Len(want) : want[i] \in Commit
  BY <1>1
<1>3. \A s : Left(s, want, Handled) => Left(s, want, Handled')
  BY <1>1, LeftMonotone
<1> QED
  BY <1>2, <1>3

\* The file of a tree holds no local change.
LEMMA FileProperties ==
  ASSUME NEW t \in SUBSET Change
  PROVE  File(t).tree = t /\ File(t).edit = FALSE /\ File(t) \in [tree : SUBSET Change, edit : BOOLEAN]
  BY DEF File

----------------------------------------------------------------------------
(* The first state and the steps *)

LEMMA InitIInv == Init => IInv
<1> SUFFICES ASSUME Init PROVE IInv
  OBVIOUS
<1>1. Tree(<<>>) \subseteq Change
  <2>1. base \subseteq Commit
    BY SequencerAssumption DEF Init, SequencerAssumption
  <2> QED
    BY <2>1, TreeType, EmptySeq
<1>2. TypeOK
  <2>1. base \subseteq Commit /\ index \in [tree : SUBSET Change, conflict : BOOLEAN]
    BY <1>1, SequencerAssumption DEF Init, Clean, SequencerAssumption
  <2>2. <<>> \in Seq(Commit) /\ <<>> \in Seq(SUBSET Change)
    BY EmptySeq
  <2>3. seq \in [dir : BOOLEAN, head : Seq(SUBSET Change) \cup {None},
                  todo : (Seq(Commit) \ {<<>>}) \cup {None}, lock : BOOLEAN]
    BY DEF Init, NoSeq
  <2>4. head \in Seq(SUBSET Change) /\ mem \in Seq(Commit)
        /\ start \in Seq(SUBSET Change) /\ want \in Seq(Commit)
    BY <2>2 DEF Init
  <2>5. commands \in 0..MaxCommands
    BY SequencerAssumption DEF Init, SequencerAssumption
  <2>6. base \subseteq Change /\ work = File(base) /\ kept = FALSE /\ torn = FALSE
    BY <2>1 DEF Init, Change
  <2>7. work \in [tree : SUBSET Change, edit : BOOLEAN]
    BY <2>6, FileProperties
  <2> QED
    BY <2>1, <2>3, <2>4, <2>5, <2>6, <2>7 DEF Init, TypeOK
<1>3. WorkKnown
  <2>1. base \in SUBSET Change /\ work = File(base) /\ index.conflict = FALSE /\ kept = FALSE
    BY SequencerAssumption DEF Init, Clean, Change, SequencerAssumption
  <2>2. index.tree = base
    <3>1. Range(<<>>) = {}
      BY EmptySeq DEF Range
    <3> QED
      BY <3>1 DEF Init, Clean, Tree
  <2> QED
    BY <2>1, <2>2, FileProperties DEF WorkKnown
<1> QED
  BY <1>2, <1>3 DEF Init, IInv, Asked, Modes, Picking, TodoLeft, FirstKnown, EndKnown, HeadSaved, Aborting,
              NoSeq

\* The number of commands stays within its bound.
LEMMA CommandsType == ASSUME TypeOK, commands > 0, commands' = commands - 1
                      PROVE  commands' \in 0..MaxCommands
  BY SequencerAssumption DEF TypeOK, SequencerAssumption

LEMMA BeginKeeps == ASSUME IInv, NEW l \in Lists, Begin(l) PROVE IInv'
<1> USE DEF IInv
<1>1. l \in Seq(Commit) /\ l # <<>>
  BY SequencerAssumption DEF SequencerAssumption
<1>2. seq' = [dir |-> TRUE, head |-> None, todo |-> None, lock |-> FALSE]
  <2>1. seq = NoSeq /\ seq' = [seq EXCEPT !.dir = TRUE]
    BY DEF TypeOK, Begin
  <2> QED
    BY <2>1 DEF NoSeq
<1>3. TypeOK'
  <2>1. seq' \in [dir : BOOLEAN, head : Seq(SUBSET Change) \cup {None},
                   todo : (Seq(Commit) \ {<<>>}) \cup {None}, lock : BOOLEAN]
    BY <1>2
  <2>2. seq'.dir
    BY <1>2
  <2>3. commands' \in 0..MaxCommands
    BY CommandsType DEF Begin, Command
  <2> QED
    BY <1>1, <2>1, <2>2, <2>3 DEF TypeOK, Begin, Command
<1>4. Left(l, want', Handled')
  BY <1>1, LeftWhole DEF Begin
<1>5. TodoLeft'
  BY <1>1, <1>2, <1>4 DEF TodoLeft, Picking, Begin, Command
<1>6. Asked' /\ Modes'
  BY <1>1 DEF Asked, Modes, Begin, Command
<1> QED
  BY <1>2, <1>3, <1>5, <1>6 DEF FirstKnown, EndKnown, HeadSaved, Aborting, WorkKnown, Begin, Command

\* The steps that save something
LEMMA save_headKeeps == ASSUME IInv, save_head PROVE IInv'
<1> USE DEF save_head, Goto, told, IInv
<1>1. TypeOK' /\ seq'.dir
  BY DEF TypeOK, Modes, TodoLeft, Picking
<1>2. Handled' = Handled /\ seq'.todo = seq.todo
  BY DEF Handled, Tree, TypeOK
<1>3. TodoLeft'
  BY <1>1, <1>2 DEF TodoLeft, Picking, Modes
<1> QED
  BY <1>1, <1>2, <1>3
     DEF Asked, Modes, FirstKnown, EndKnown, HeadSaved, Aborting, WorkKnown, TypeOK

LEMMA save_todoKeeps == ASSUME IInv, save_todo PROVE IInv'
<1> USE DEF save_todo, Goto, Exit, told, IInv
<1>1. mode = "pick" /\ seq.dir /\ mem # <<>> /\ Left(mem, want, Handled)
  BY DEF Modes, TodoLeft, Picking
<1>2. Handled' = Handled
  BY DEF Handled, Tree
<1>3. CASE seq.lock
  <2>1. TypeOK'
    BY <1>1, <1>3, EmptySeq DEF TypeOK
  <2> QED
    BY <1>1, <1>2, <1>3, <2>1
       DEF Asked, Modes, TodoLeft, Picking, FirstKnown, EndKnown, HeadSaved, Aborting, WorkKnown
<1>4. CASE ~seq.lock
  <2>1. seq' = [seq EXCEPT !.todo = mem]
    BY <1>4
  <2>2. seq'.todo = mem /\ seq'.head = seq.head /\ seq'.dir
    BY <1>1, <2>1 DEF TypeOK
  <2>3. TypeOK'
    BY <1>1, <1>4, <2>1, <2>2 DEF TypeOK
  <2> QED
    BY <1>1, <1>2, <1>4, <2>2, <2>3
       DEF Asked, Modes, TodoLeft, Picking, FirstKnown, EndKnown, HeadSaved, Aborting, WorkKnown
<1> QED
  BY <1>3, <1>4

\* What the next item of a list needs: l is what is saved, and its first item is handled.
LEMMA NextItemKeeps ==
  ASSUME IInv, NEW l \in Seq(Commit), l # <<>>, l = seq.todo, Left(l, want, Handled), Head(l) \in Handled,
         UNCHANGED <<base, head, index, seq, start, want, given, unmerged>>, UNCHANGED local,
         cph' \in Commit \cup {None}, commands' \in 0..MaxCommands, mode' = "pick", seq.dir, NextItem(l)
  PROVE  IInv'
<1> USE DEF IInv
<1>1. want \in Seq(Commit)
  BY WantInjective
<1>2. Handled' = Handled
  BY DEF Handled, Tree
<1>3. /\ Tail(l) \in Seq(Commit) /\ mem' = Tail(l)
      /\ pc' = IF Tail(l) = <<>> THEN "remove" ELSE "save_todo"
      /\ ended' = (Tail(l) = <<>>)
  BY HeadTailProperties DEF NextItem
<1>4. TypeOK'
  BY <1>3 DEF TypeOK
<1>5. Tail(l) # <<>> => Left(Tail(l), want, Handled)
  BY <1>1, LeftTail
<1>6. Tail(l) = <<>> => Len(l) <= 1 /\ \A i \in 1..Len(want) : want[i] \in Handled
  BY <1>1, TailEmpty, LeftLast
<1>7. TodoLeft'
  BY <1>2, <1>3, <1>5 DEF TodoLeft, Picking
<1>8. FirstKnown'
  BY <1>2, <1>3 DEF FirstKnown
<1>9. EndKnown'
  BY <1>2, <1>3, <1>6 DEF EndKnown
<1> QED
  BY <1>3, <1>4, <1>7, <1>8, <1>9 DEF Asked, Modes, HeadSaved, Aborting, WorkKnown

\* The pick itself
LEMMA mergeKeeps == ASSUME IInv, merge PROVE IInv'
<1> USE DEF IInv
<1> DEFINE c == Head(mem)
<1>1. mem \in Seq(Commit) /\ mem # <<>> /\ mode \in {"pick", "single"} /\ c \in Commit
  BY DEF merge, Modes, TypeOK
<1>2. mode = "pick" => /\ mem = seq.todo /\ seq.dir /\ Left(mem, want, Handled) /\ ~ended
  BY DEF merge, TodoLeft, Picking, EndKnown
<1>3. want \in Seq(Commit) /\ IsInjective(want)
  BY WantInjective
<1>4. Tree(head) \subseteq Change /\ Tree(head)' = Tree(head)
  BY TreeType DEF TypeOK, merge, Tree
<1>5. CASE /\ Exit
           /\ unmerged' = IF mode = "pick" THEN unmerged \cup {c} ELSE unmerged
           /\ UNCHANGED <<index, local>>
  <2> USE <1>5 DEF Exit
  <2>1. Handled \subseteq Handled' /\ (mode = "pick" => c \in Handled')
    BY <1>4 DEF merge, Handled
  <2>2. TypeOK'
    BY <1>1, EmptySeq DEF merge, TypeOK
  <2>3. seq' = seq /\ want' = want /\ ended' = ended
    BY DEF merge
  <2>4. TodoLeft' /\ EndKnown'
    BY <2>1, <2>3, Keeps DEF TodoLeft, EndKnown, Picking
  <2>5. FirstKnown'
    BY <1>1, <1>2, <2>1, <2>3 DEF FirstKnown
  <2> QED
    BY <2>2, <2>4, <2>5 DEF merge, Asked, Modes, HeadSaved, Aborting, WorkKnown
<1>6. CASE /\ ~MergeRefused(c)
           /\ Goto("cherry_pick_head")
           /\ unmerged' = IF mode = "pick" THEN unmerged \ {c} ELSE unmerged
           /\ \E conflict \in BOOLEAN :
                /\ conflict => c \notin Tree(head)
                /\ index' = [tree |-> Tree(head) \cup {c}, conflict |-> conflict]
           /\ work' = IF c \in Tree(head) THEN work ELSE File(Tree(head) \cup {c})
           /\ UNCHANGED <<kept, torn>>
  <2> USE <1>6 DEF Goto
  <2>1. seq' = seq /\ want' = want /\ ended' = ended /\ given' = given /\ mem' = mem
    BY DEF merge
  <2>2. /\ index.tree = Tree(head) /\ ~index.conflict
        /\ index.tree \subseteq index'.tree /\ c \in index'.tree
    BY DEF MergeRefused, IndexDiffers, Clean
  <2>3. index' \in [tree : SUBSET Change, conflict : BOOLEAN]
    BY <1>1, <1>4 DEF Change
  <2>7. work' \in [tree : SUBSET Change, edit : BOOLEAN]
    BY <1>1, <1>4 DEF File, Change, TypeOK
  <2>4. TypeOK'
    BY <2>3, <2>7 DEF merge, TypeOK
  <2>8. WorkKnown'
    <3>1. CASE c \in Tree(head)
      <4>1. index' = [tree |-> Tree(head), conflict |-> FALSE] /\ work' = work
        BY <3>1
      <4> QED
        BY <2>2, <4>1 DEF WorkKnown
    <3>2. CASE c \notin Tree(head)
      <4>1. work = File(index.tree) /\ work' = File(index'.tree)
        BY <2>2, <3>2 DEF MergeRefused, Dirty
      <4>2. index.tree \in SUBSET Change /\ index'.tree \in SUBSET Change
        BY <2>3 DEF TypeOK
      <4>3. kept = FALSE /\ kept' = FALSE
        BY <4>1, <4>2, FileProperties DEF WorkKnown
      <4>4. work'.edit = FALSE /\ work'.tree = index'.tree
        BY <4>1, <4>2, FileProperties
      <4> QED
        BY <4>3, <4>4 DEF WorkKnown
    <3> QED
      BY <3>1, <3>2
  <2>5. CASE mode = "pick"
    <3>1. Handled \ {c} \subseteq Handled'
      BY <1>4, <2>1, <2>5 DEF Handled
    <3>2. Left(mem, want, Handled \ {c})
      BY <1>1, <1>2, <1>3, <2>5, LeftBut
    <3>3. Left(mem, want, Handled')
      BY <1>3, <3>1, <3>2, LeftMonotone
    <3>4. TodoLeft' /\ FirstKnown' /\ EndKnown'
      BY <1>1, <1>2, <2>1, <2>2, <2>5, <3>3 DEF TodoLeft, Picking, FirstKnown, EndKnown
    <3> QED
      BY <2>4, <2>5, <2>8, <3>4 DEF merge, Asked, Modes, HeadSaved, Aborting
  <2>6. CASE mode = "single"
    <3>1. Handled' = Handled
      BY <1>4, <2>1, <2>6 DEF Handled
    <3>2. TodoLeft' /\ FirstKnown' /\ EndKnown'
      BY <2>1, <2>2, <2>6, <3>1 DEF TodoLeft, Picking, FirstKnown, EndKnown
    <3> QED
      BY <1>1, <2>4, <2>6, <2>8, <3>2 DEF merge, Asked, Modes, HeadSaved, Aborting
  <2> QED
    BY <1>1, <2>5, <2>6
<1> QED
  BY <1>5, <1>6 DEF merge

LEMMA write_cherry_pick_headKeeps == ASSUME IInv, write_cherry_pick_head PROVE IInv'
<1> USE DEF IInv
<1>1. mem \in Seq(Commit) /\ mem # <<>> /\ mode \in {"pick", "single"}
  BY DEF write_cherry_pick_head, Modes, TypeOK
<1>2. cph' \in Commit \cup {None}
  BY <1>1 DEF write_cherry_pick_head
<1>3. mode = "pick" => /\ mem = seq.todo /\ seq.dir /\ Left(mem, want, Handled)
  BY DEF write_cherry_pick_head, TodoLeft, Picking
<1>4. Handled' = Handled
  BY DEF write_cherry_pick_head, Handled, Tree
<1>5. CASE Exit /\ UNCHANGED ended
  BY <1>2, <1>4, <1>5, EmptySeq
     DEF Exit, write_cherry_pick_head, TypeOK, Asked, Modes, TodoLeft, Picking, FirstKnown, EndKnown,
         HeadSaved, Aborting, WorkKnown
<1>6. CASE Goto("git_commit") /\ UNCHANGED ended
  BY <1>1, <1>2, <1>4, <1>6
     DEF Goto, write_cherry_pick_head, TypeOK, Asked, Modes, TodoLeft, Picking, FirstKnown, EndKnown,
         HeadSaved, Aborting, WorkKnown
<1>7. CASE ~IndexDiffers /\ mode = "pick" /\ NextItem(mem) /\ UNCHANGED <<mode, commands>>
  <2>1. seq.todo # None
    BY <1>1, <1>3, <1>7, SequencerAssumption DEF SequencerAssumption
  <2>2. Head(mem) \in Handled
    BY <1>3, <1>7, <2>1
       DEF write_cherry_pick_head, FirstKnown, IndexDiffers, Clean, Handled
  <2> QED
    BY <1>1, <1>2, <1>3, <1>7, <2>2, NextItemKeeps DEF write_cherry_pick_head, TypeOK
<1> QED
  BY <1>1, <1>5, <1>6, <1>7 DEF write_cherry_pick_head

LEMMA git_commitKeeps == ASSUME IInv, git_commit PROVE IInv'
<1> USE DEF IInv
<1>1. CASE Exit /\ UNCHANGED head
  <2>1. Handled' = Handled
    BY <1>1 DEF git_commit, told, Handled, Tree
  <2> QED
    BY <1>1, <2>1, EmptySeq
       DEF Exit, git_commit, told, TypeOK, Asked, Modes, TodoLeft, Picking, FirstKnown, EndKnown,
           HeadSaved, Aborting, WorkKnown
<1>2. CASE head' = Append(head, index.tree \ Tree(head)) /\ Goto("unlink")
  <2>1. head' \in Seq(SUBSET Change) /\ Tree(head)' = Tree(head) \cup index.tree
    <3>1. index.tree \in SUBSET Change
      BY DEF TypeOK
    <3> QED
      BY <1>2, <3>1, TreeAppend DEF git_commit, TypeOK, Tree
  <2>2. Handled' = Handled \cup index.tree
    BY <2>1 DEF git_commit, told, Handled
  <2>3. TypeOK'
    BY <1>2, <2>1 DEF Goto, git_commit, told, TypeOK
  <2>4. seq' = seq /\ want' = want /\ ended' = ended /\ mem' = mem /\ mode' = mode /\ index' = index
    BY <1>2 DEF Goto, git_commit, told
  <2>5. TodoLeft' /\ EndKnown'
    BY <1>2, <2>2, <2>4, Keeps DEF Goto, git_commit, TodoLeft, EndKnown, Picking
  <2>6. mode = "pick" => mem = seq.todo /\ seq.todo # None
    BY SequencerAssumption DEF git_commit, TodoLeft, Picking, TypeOK, SequencerAssumption
  <2>7. FirstKnown'
    BY <1>2, <2>2, <2>4, <2>6 DEF Goto, git_commit, FirstKnown
  <2> QED
    BY <1>2, <2>3, <2>5, <2>7
       DEF Goto, git_commit, told, Asked, Modes, HeadSaved, Aborting, WorkKnown
<1> QED
  BY <1>1, <1>2 DEF git_commit

LEMMA unlinkKeeps == ASSUME IInv, unlink_cherry_pick_head PROVE IInv'
<1> USE DEF IInv
<1>1. Handled' = Handled
  BY DEF unlink_cherry_pick_head, Handled, Tree
<1>2. CASE mode # "pick" /\ Exit /\ UNCHANGED ended
  BY <1>1, <1>2, EmptySeq
     DEF Exit, unlink_cherry_pick_head, TypeOK, Asked, Modes, TodoLeft, Picking, FirstKnown, EndKnown,
         HeadSaved, Aborting, WorkKnown
<1>3. CASE mode = "pick" /\ NextItem(mem) /\ UNCHANGED <<mode, commands>>
  <2>1. /\ mem \in Seq(Commit) /\ mem # <<>> /\ mem = seq.todo /\ seq.dir
        /\ Left(mem, want, Handled) /\ Head(mem) \in Handled
    BY <1>3 DEF unlink_cherry_pick_head, TypeOK, TodoLeft, Picking, FirstKnown
  <2> QED
    BY <1>3, <2>1, NextItemKeeps DEF unlink_cherry_pick_head, TypeOK
<1> QED
  BY <1>2, <1>3 DEF unlink_cherry_pick_head

LEMMA removeKeeps == ASSUME IInv, remove_sequencer_state PROVE IInv'
<1> USE DEF IInv
<1>1. Handled' = Handled /\ pc = "remove"
  BY DEF remove_sequencer_state, told, Handled, Tree
<1>2. ASSUME NEW f \in {"head", "todo"}, seq[f] # None, seq' = [seq EXCEPT ![f] = None], Goto("remove")
      PROVE  IInv'
  <2>1. seq.dir
    BY <1>2 DEF TypeOK, NoSeq
  <2>2. /\ seq' \in [dir : BOOLEAN, head : Seq(SUBSET Change) \cup {None},
                     todo : (Seq(Commit) \ {<<>>}) \cup {None}, lock : BOOLEAN]
        /\ seq'.dir
        /\ seq'.head \in {seq.head, None} /\ seq'.todo \in {seq.todo, None}
    BY <1>2, <2>1 DEF TypeOK
  <2>3. TypeOK'
    BY <1>2, <2>2 DEF TypeOK, Goto, remove_sequencer_state, told
  <2>4. TodoLeft' /\ FirstKnown' /\ EndKnown'
    BY <1>1, <1>2, <2>2
       DEF Goto, remove_sequencer_state, told, TodoLeft, Picking, FirstKnown, EndKnown
  <2>5. Clean(start)' = Clean(start)
    BY DEF remove_sequencer_state, told, Clean, Tree
  <2> QED
    BY <1>1, <1>2, <2>2, <2>3, <2>4, <2>5
       DEF Goto, remove_sequencer_state, told, Asked, Modes, HeadSaved, Aborting, WorkKnown
<1>3. CASE seq' = NoSeq /\ Exit
  <2>1. seq' \in [dir : BOOLEAN, head : Seq(SUBSET Change) \cup {None},
                  todo : (Seq(Commit) \ {<<>>}) \cup {None}, lock : BOOLEAN]
    BY <1>3 DEF NoSeq
  <2>2. TypeOK'
    BY <1>3, <2>1, EmptySeq DEF TypeOK, Exit, remove_sequencer_state, told
  <2>3. seq'.head = None /\ seq'.todo = None
    BY <1>3 DEF NoSeq
  <2>4. TodoLeft' /\ FirstKnown' /\ EndKnown'
    BY <1>1, <1>3, <2>3
       DEF Exit, remove_sequencer_state, told, TodoLeft, Picking, FirstKnown, EndKnown
  <2>5. pc' = "idle" /\ mode' = "none" /\ want' = want
    BY <1>3 DEF Exit, remove_sequencer_state, told
  <2>6. Asked' /\ Modes' /\ HeadSaved' /\ Aborting' /\ WorkKnown'
    BY <2>3, <2>5 DEF Asked, Modes, HeadSaved, Aborting, WorkKnown, remove_sequencer_state
  <2> QED
    BY <2>2, <2>4, <2>6
<1> QED
  BY <1>2, <1>3 DEF remove_sequencer_state

----------------------------------------------------------------------------
(* The commands of the user *)

LEMMA ContinueKeeps == ASSUME IInv, Continue PROVE IInv'
<1> USE DEF IInv
<1>1. /\ seq.todo \in Seq(Commit) /\ seq.todo # <<>> /\ seq.dir
      /\ Left(seq.todo, want, Handled) /\ Head(seq.todo) \in Handled \cup index.tree
      /\ pc = "idle" /\ mode = "none" /\ commands' \in 0..MaxCommands
  <2>1. pc = "idle" /\ seq.todo # None /\ commands > 0 /\ commands' = commands - 1
    BY DEF Continue, Command
  <2>2. mode = "none"
    BY <2>1 DEF Modes
  <2>3. seq.dir
    BY <2>1 DEF TypeOK, NoSeq
  <2>4. seq.todo \in Seq(Commit) /\ seq.todo # <<>>
    BY <2>1 DEF TypeOK
  <2> QED
    BY <2>1, <2>2, <2>3, <2>4, CommandsType DEF TodoLeft, FirstKnown
<1>2. Handled' = Handled
  BY DEF Continue, repo, Handled, Tree
<1>3. CASE Command("pick", "git_commit", seq.todo) /\ UNCHANGED ended
  BY <1>1, <1>2, <1>3
     DEF Command, Continue, repo, TypeOK, Asked, Modes, TodoLeft, Picking, FirstKnown, EndKnown,
         HeadSaved, Aborting, WorkKnown
<1>4. CASE ~IndexDiffers /\ mode' = "pick" /\ NextItem(seq.todo)
  <2>1. Head(seq.todo) \in Handled
    BY <1>1, <1>4 DEF IndexDiffers, Clean, Handled
  <2> QED
    BY <1>1, <1>4, <2>1, NextItemKeeps DEF Continue, repo, TypeOK
<1> QED
  BY <1>3, <1>4 DEF Continue

\* The commands that leave all as it is when they begin.
LEMMA CommandKeeps ==
  ASSUME IInv, NEW m \in {"single", "commit", "abort", "reset"},
         NEW at \in {"pick", "git_commit", "reset"}, NEW l \in Seq(Commit),
         Command(m, at, l), UNCHANGED <<repo, told>>,
         at = "pick" => m = "single" /\ l # <<>>,
         at = "git_commit" => m = "commit",
         at = "reset" => m \in {"abort", "reset"},
         m = "abort" => seq.head # None /\ at = "reset"
  PROVE  IInv'
<1> USE DEF IInv
<1>1. Handled' = Handled /\ pc = "idle" /\ mode = "none" /\ commands' \in 0..MaxCommands
  BY CommandsType DEF Command, repo, told, Handled, Tree, Modes
<1>2. TypeOK'
  BY <1>1 DEF Command, repo, told, TypeOK
<1>3. TodoLeft' /\ FirstKnown' /\ EndKnown'
  BY <1>1 DEF Command, repo, told, TodoLeft, Picking, FirstKnown, EndKnown
<1>4. Modes' /\ Aborting' /\ WorkKnown'
  BY <1>1 DEF Command, repo, told, Modes, Aborting, HeadSaved, WorkKnown
<1> QED
  BY <1>2, <1>3, <1>4 DEF Command, repo, told, Asked, HeadSaved

LEMMA CommandsKeep ==
  ASSUME IInv, (\E c \in Singles : PickSingle(c)) \/ Commits \/ Abort \/ Reset PROVE IInv'
<1>1. ASSUME NEW c \in Singles, PickSingle(c) PROVE IInv'
  <2>1. <<c>> \in Seq(Commit) /\ <<c>> # <<>>
    BY SequencerAssumption DEF SequencerAssumption
  <2> QED
    BY <1>1, <2>1, CommandKeeps DEF PickSingle
<1>2. <<>> \in Seq(Commit)
  BY EmptySeq
<1>3. CASE Commits
  BY <1>2, <1>3, CommandKeeps DEF Commits
<1>4. CASE Abort
  BY <1>2, <1>4, CommandKeeps DEF Abort
<1>5. CASE Reset
  BY <1>2, <1>5, CommandKeeps DEF Reset
<1> QED
  BY <1>1, <1>3, <1>4, <1>5

LEMMA QuitKeeps == ASSUME IInv, Quit PROVE IInv'
<1> USE DEF IInv
<1>1. /\ commands' \in 0..MaxCommands /\ Handled \cap Commit \subseteq Handled' /\ Commit \subseteq Handled'
      /\ given' = Change
  BY CommandsType DEF Quit, Command, repo, Handled, Change
<1>2. TypeOK'
  BY <1>1, EmptySeq DEF Quit, Command, repo, TypeOK
<1>3. seq' = seq /\ want' = want /\ ended' = ended /\ index' = index
  BY DEF Quit, repo
<1>4. seq.todo # None => Head(seq.todo) \in Commit
  BY DEF TypeOK
<1>5. TodoLeft' /\ FirstKnown' /\ EndKnown'
  BY <1>1, <1>3, <1>4, Keeps DEF Quit, Command, TodoLeft, Picking, FirstKnown, EndKnown
<1> QED
  BY <1>2, <1>5 DEF Quit, Command, repo, Asked, Modes, HeadSaved, Aborting, WorkKnown

\* The user's edits: what is handled stays so, and what is in the index stays or is given up.
LEMMA EditsKeep == ASSUME IInv, Resolve \/ Stage \/ Edit PROVE IInv'
<1> USE DEF IInv
<1>1. /\ pc = "idle" /\ mode = "none" /\ seq' = seq /\ want' = want /\ ended' = ended
      /\ UNCHANGED <<pc, mode, mem, base, head, cph, start, unmerged>>
  BY DEF Resolve, Stage, Edit, told, Modes
<1>2. Tree(head) \subseteq Change /\ Tree(head)' = Tree(head)
  BY <1>1, TreeType DEF TypeOK, Tree
<1>3. index.tree \subseteq Change /\ given \subseteq Change /\ commands \in 0..MaxCommands
  BY DEF TypeOK
<1>4. /\ index' \in [tree : SUBSET Change, conflict : BOOLEAN] /\ given' \subseteq Change
      /\ commands' \in 0..MaxCommands
      /\ given \subseteq given' /\ index.tree \subseteq index'.tree \cup Tree(head) \cup given'
  <2>1. CASE index' = [index EXCEPT !.conflict = FALSE] /\ UNCHANGED <<given, commands>>
    BY <2>1 DEF TypeOK
  <2>2. CASE /\ index' = Clean(head) /\ given' = given \cup (index.tree \ Tree(head))
             /\ UNCHANGED commands
    <3>1. index' = [tree |-> Tree(head), conflict |-> FALSE]
      BY <2>2 DEF Clean
    <3> QED
      BY <1>2, <1>3, <2>2, <3>1 DEF TypeOK
  <2>3. CASE Stage
    <3>1. index' = [index EXCEPT !.tree = @ \cup {Own}] /\ UNCHANGED given
      BY <2>3 DEF Stage, told
    <3>2. commands' \in 0..MaxCommands
      BY <2>3, CommandsType DEF Stage
    <3>3. index' \in [tree : SUBSET Change, conflict : BOOLEAN] /\ index.tree \subseteq index'.tree
      BY <3>1 DEF TypeOK, Change
    <3> QED
      BY <1>3, <3>1, <3>2, <3>3 DEF TypeOK
  <2>4. CASE Edit
    BY <2>4, CommandsType DEF Edit, told, TypeOK
  <2> QED
    BY <2>1, <2>2, <2>3, <2>4 DEF Resolve
<1>7. /\ Handled \subseteq Handled'
      /\ Handled \cup index.tree \subseteq Handled' \cup index'.tree
  BY <1>1, <1>2, <1>4 DEF Handled
<1>8. work' \in [tree : SUBSET Change, edit : BOOLEAN] /\ kept' \in BOOLEAN /\ torn' \in BOOLEAN
  <2>1. CASE Resolve
    BY <1>4, <2>1 DEF Resolve, File, TypeOK
  <2>2. CASE Stage
    BY <2>2 DEF Stage, TypeOK, Change
  <2>3. CASE Edit
    <3>1. CASE work' = [work EXCEPT !.edit = TRUE] /\ kept' = TRUE /\ UNCHANGED torn
      BY <3>1 DEF TypeOK
    <3>2. CASE work' = File(index.tree) /\ kept' = FALSE /\ torn' = FALSE
      BY <1>3, <3>2, FileProperties
    <3> QED
      BY <2>3, <3>1, <3>2 DEF Edit
  <2> QED
    BY <2>1, <2>2, <2>3
<1>9. WorkKnown'
  <2>1. CASE Resolve
    <3>1. index'.conflict = FALSE /\ work' = File(index'.tree) /\ kept' = kept /\ index.conflict
      BY <2>1 DEF Resolve, Clean, TypeOK
    <3>2. index'.tree \in SUBSET Change
      BY <1>4
    <3>3. kept' = FALSE
      BY <3>1 DEF WorkKnown, TypeOK
    <3>4. work'.edit = FALSE /\ work'.tree = index'.tree
      BY <3>1, <3>2, FileProperties
    <3> QED
      BY <3>1, <3>3, <3>4 DEF WorkKnown
  <2>2. CASE Stage
    BY <2>2 DEF Stage, WorkKnown, TypeOK
  <2>3. CASE Edit
    <3>1. index' = index /\ ~index.conflict
      BY <2>3 DEF Edit
    <3>2. CASE work' = [work EXCEPT !.edit = TRUE] /\ kept' = TRUE /\ UNCHANGED torn
      <4>1. work'.edit = TRUE /\ work'.tree = work.tree
        BY <3>2 DEF TypeOK
      <4> QED
        BY <3>1, <3>2, <4>1 DEF WorkKnown
    <3>3. CASE work' = File(index.tree) /\ kept' = FALSE /\ torn' = FALSE
      <4>1. work'.edit = FALSE /\ work'.tree = index.tree
        BY <1>3, <3>3, FileProperties
      <4> QED
        BY <3>1, <3>3, <4>1 DEF WorkKnown
    <3> QED
      BY <2>3, <3>2, <3>3 DEF Edit
  <2> QED
    BY <2>1, <2>2, <2>3
<1>5. TypeOK'
  BY <1>1, <1>4, <1>8 DEF TypeOK
<1>6. TodoLeft' /\ FirstKnown' /\ EndKnown'
  BY <1>1, <1>7, Keeps DEF TodoLeft, Picking, FirstKnown, EndKnown
<1> QED
  BY <1>1, <1>5, <1>6, <1>9 DEF Asked, Modes, HeadSaved, Aborting

\* A reset keeps what was handled: the one of --abort gives up everything, the other one what
\* is in the index and not in HEAD.
LEMMA reset_indexKeeps == ASSUME IInv, reset_index PROVE IInv'
<1> USE DEF IInv
<1>1. /\ UNCHANGED <<base, head, cph, seq, start, want, unmerged, ended>> /\ pc = "reset"
      /\ mode \in {"abort", "reset"} /\ Tree(head)' = Tree(head)
  BY DEF reset_index, Modes, Tree
<1>2. CASE Exit /\ UNCHANGED <<index, local, given>>
  <2>1. Handled' = Handled
    BY <1>1, <1>2 DEF Handled
  <2> QED
    BY <1>1, <1>2, <2>1, EmptySeq
       DEF Exit, TypeOK, Asked, Modes, TodoLeft, Picking, FirstKnown, EndKnown, HeadSaved, Aborting, WorkKnown
<1>3. CASE /\ ~ResetRefused /\ Goto("reset_head") /\ index' = Clean(Target)
           /\ \/ ResetWrites /\ work' = File(Tree(Target)) /\ torn' = FALSE /\ UNCHANGED kept
              \/ ~ResetWrites /\ UNCHANGED local
           /\ given' = IF mode = "abort" THEN Change
                       ELSE given \cup (index.tree \ Tree(head)) \cup ({cph} \ {None})
  <2>1. Target \in Seq(SUBSET Change) /\ (mode = "abort" => Target = start)
    BY <1>1 DEF Target, Aborting, TypeOK
  <2>2. Tree(Target) \subseteq Change /\ Tree(head) \subseteq Change /\ Tree(Target)' = Tree(Target)
    BY <1>1, <1>3, <2>1, TreeType DEF TypeOK, Tree, Target, Goto
  <2>3. index' = [tree |-> Tree(Target), conflict |-> FALSE]
    BY <1>3 DEF Clean
  <2>4. given' \subseteq Change /\ index' \in [tree : SUBSET Change, conflict : BOOLEAN]
    BY <1>3, <2>2, <2>3 DEF TypeOK, Change
  <2>10. /\ work' \in [tree : SUBSET Change, edit : BOOLEAN]
         /\ kept' \in BOOLEAN /\ torn' \in BOOLEAN
    <3>1. CASE ResetWrites /\ work' = File(Tree(Target)) /\ torn' = FALSE /\ UNCHANGED kept
      BY <2>2, <3>1, FileProperties DEF TypeOK
    <3>2. CASE ~ResetWrites /\ UNCHANGED local
      BY <3>2 DEF TypeOK
    <3> QED
      BY <1>3, <3>1, <3>2
  <2>5. TypeOK'
    BY <1>1, <1>3, <2>4, <2>10 DEF Goto, TypeOK
  <2>11. WorkKnown'
    <3>1. CASE ResetWrites /\ work' = File(Tree(Target)) /\ torn' = FALSE /\ UNCHANGED kept
      <4>1. index.conflict \/ work = File(index.tree)
        BY <1>3, <3>1 DEF ResetRefused, ResetWrites, Dirty
      <4>2. kept = FALSE
        BY <4>1 DEF WorkKnown, File, TypeOK
      <4> QED
        BY <2>3, <3>1, <4>2 DEF WorkKnown, File
    <3>2. CASE ~ResetWrites /\ UNCHANGED local
      BY <2>3, <3>2 DEF ResetWrites, WorkKnown
    <3> QED
      BY <1>3, <3>1, <3>2
  <2>6. /\ Handled \cap Commit \subseteq Handled'
        /\ (Handled \cup index.tree) \cap Commit \subseteq Handled'
    BY <1>1, <1>3 DEF Handled, Change
  <2>7. seq.todo # None => Head(seq.todo) \in Commit
    BY DEF TypeOK
  <2>8. TodoLeft' /\ FirstKnown' /\ EndKnown'
    BY <1>1, <1>3, <2>6, <2>7, Keeps DEF Goto, TodoLeft, Picking, FirstKnown, EndKnown
  <2>9. Aborting'
    <3>1. mode = "abort" => given' = Change /\ index' = Clean(start)'
      <4>1. Clean(start)' = Clean(start)
        BY <1>1 DEF Clean, Tree
      <4> QED
        BY <1>3, <2>1, <4>1
    <3> QED
      BY <1>1, <1>3, <3>1 DEF Goto, Aborting
  <2> QED
    BY <1>1, <1>3, <2>5, <2>8, <2>9, <2>11 DEF Goto, Asked, Modes, HeadSaved
<1> QED
  BY <1>1, <1>2, <1>3 DEF reset_index

LEMMA reset_headKeeps == ASSUME IInv, reset_head PROVE IInv'
<1> USE DEF IInv
<1>1. /\ UNCHANGED <<base, index, local, cph, seq, start, want, given, unmerged, ended>>
      /\ pc = "reset_head" /\ mode \in {"abort", "reset"} /\ head' = Target /\ Goto("branch_state")
  BY DEF reset_head, told, Modes
<1>2. CASE mode = "reset"
  <2>1. head' = head /\ Handled' = Handled
    BY <1>1, <1>2 DEF Target, Handled, Tree
  <2> QED
    BY <1>1, <1>2, <2>1
       DEF Goto, TypeOK, Asked, Modes, TodoLeft, Picking, FirstKnown, EndKnown, HeadSaved, Aborting, WorkKnown
<1>3. CASE mode = "abort"
  <2>1. head' = start /\ given = Change /\ index = Clean(start) /\ seq.head = start
    BY <1>1, <1>3 DEF Target, Aborting
  <2>2. Handled \cap Commit \subseteq Handled' /\ Commit \subseteq Handled'
    BY <1>1, <2>1 DEF Handled, Change
  <2>3. TypeOK'
    BY <1>1, <2>1 DEF Goto, TypeOK
  <2>4. seq.todo # None => Head(seq.todo) \in Commit
    BY DEF TypeOK
  <2>5. TodoLeft' /\ FirstKnown' /\ EndKnown'
    BY <1>1, <1>3, <2>2, <2>4, Keeps DEF Goto, TodoLeft, Picking, FirstKnown, EndKnown
  <2>6. Aborting'
    BY <1>1, <1>3, <2>1 DEF Goto, Aborting, Clean, Tree
  <2> QED
    BY <1>1, <1>3, <2>1, <2>3, <2>5, <2>6 DEF Goto, Asked, Modes, HeadSaved, WorkKnown
<1> QED
  BY <1>1, <1>2, <1>3

LEMMA remove_branch_stateKeeps == ASSUME IInv, remove_branch_state PROVE IInv'
<1> USE DEF IInv
<1>1. /\ UNCHANGED <<base, head, index, local, seq, start, want, given, unmerged, ended>>
      /\ pc = "branch_state" /\ mode \in {"abort", "reset"} /\ cph' = None
  BY DEF remove_branch_state, told, Modes
<1>2. Handled' = Handled /\ Clean(start)' = Clean(start)
  BY <1>1 DEF Handled, Tree, Clean
<1>3. TypeOK'
  BY <1>1, EmptySeq DEF remove_branch_state, Goto, Exit, TypeOK
<1>4. TodoLeft' /\ FirstKnown' /\ EndKnown'
  BY <1>1, <1>2 DEF remove_branch_state, Goto, Exit, TodoLeft, Picking, FirstKnown, EndKnown
<1>5. Aborting'
  BY <1>1, <1>2 DEF remove_branch_state, Goto, Exit, Aborting
<1> QED
  BY <1>1, <1>3, <1>4, <1>5 DEF remove_branch_state, Goto, Exit, Asked, Modes, HeadSaved, WorkKnown

\* A kill, which leaves behind a merge that has not begun, or the lock
LEMMA KillKeeps == ASSUME IInv, Kill PROVE IInv'
<1> USE DEF IInv
<1>1. /\ UNCHANGED <<base, head, index, cph, commands, start, want, given, ended>>
      /\ pc' = "idle" /\ mode' = "none" /\ mem' = <<>>
  BY DEF Kill
<1>2. pc = "pick" /\ mode = "pick" => mem = seq.todo /\ mem \in Seq(Commit) /\ Head(mem) \in Commit
  BY DEF TodoLeft, Picking, TypeOK
<1>3. /\ Handled \subseteq Handled' /\ unmerged' \subseteq Commit
      /\ pc = "pick" /\ mode = "pick" => Head(mem) \in Handled'
  BY <1>1, <1>2 DEF Kill, Handled, Tree, TypeOK
<1>4. /\ seq' \in [dir : BOOLEAN, head : Seq(SUBSET Change) \cup {None},
                   todo : (Seq(Commit) \ {<<>>}) \cup {None}, lock : BOOLEAN]
      /\ ~seq'.dir => seq' = NoSeq
      /\ seq'.head = seq.head /\ seq'.todo = seq.todo
  <2>1. CASE seq' = seq
    BY <2>1 DEF TypeOK
  <2>2. CASE pc = "save_todo" /\ seq' = [seq EXCEPT !.lock = TRUE]
    <3>1. seq.dir
      BY <2>2 DEF Modes, TodoLeft, Picking
    <3> QED
      BY <2>2, <3>1 DEF TypeOK
  <2> QED
    BY <2>1, <2>2 DEF Kill
<1>8. WorkKnown' /\ work' \in [tree : SUBSET Change, edit : BOOLEAN] /\ torn' \in BOOLEAN
      /\ kept' = kept
  <2>1. CASE UNCHANGED local
    BY <1>1, <2>1 DEF WorkKnown, TypeOK
  <2>2. CASE /\ pc = "pick" /\ ~MergeRefused(Head(mem)) /\ Head(mem) \notin Tree(head)
             /\ work' = File(Tree(head) \cup {Head(mem)}) /\ torn' = TRUE /\ UNCHANGED kept
    <3>1. Tree(head) \subseteq Change
      BY TreeType DEF TypeOK
    <3>2. mem \in Seq(Commit) /\ mem # <<>>
      BY <2>2 DEF Modes, TypeOK
    <3>3. Tree(head) \cup {Head(mem)} \in SUBSET Change
      BY <3>1, <3>2 DEF Change
    <3>4. work = File(index.tree) /\ index' = index /\ index.tree \in SUBSET Change
      BY <1>1, <2>2 DEF MergeRefused, IndexDiffers, Clean, Dirty, TypeOK
    <3>5. kept = FALSE
      BY <3>4, FileProperties DEF WorkKnown
    <3>6. work'.edit = FALSE /\ work' \in [tree : SUBSET Change, edit : BOOLEAN]
      BY <2>2, <3>3, FileProperties
    <3> QED
      BY <2>2, <3>4, <3>5, <3>6 DEF WorkKnown
  <2>3. CASE /\ pc = "reset" /\ ~ResetRefused /\ ResetWrites
             /\ work' = File(Tree(Target)) /\ torn' = TRUE /\ UNCHANGED kept
    <3>1. Target \in Seq(SUBSET Change)
      BY <2>3 DEF Target, Aborting, TypeOK
    <3>2. Tree(Target) \subseteq Change
      BY <3>1, TreeType DEF TypeOK
    <3>3. index.conflict \/ work = File(index.tree)
      BY <2>3 DEF ResetRefused, ResetWrites, Dirty
    <3>4. kept = FALSE /\ index' = index
      BY <1>1, <3>3, FileProperties DEF WorkKnown, TypeOK
    <3>5. work'.edit = FALSE /\ work' \in [tree : SUBSET Change, edit : BOOLEAN]
      BY <2>3, <3>2, FileProperties
    <3> QED
      BY <2>3, <3>4, <3>5 DEF WorkKnown
  <2> QED
    BY <2>1, <2>2, <2>3 DEF Kill
<1>5. TypeOK'
  BY <1>1, <1>3, <1>4, <1>8, EmptySeq DEF TypeOK
<1>6. TodoLeft' /\ EndKnown'
  BY <1>1, <1>3, <1>4, Keeps DEF TodoLeft, Picking, EndKnown
<1>7. FirstKnown'
  BY <1>1, <1>2, <1>3, <1>4 DEF FirstKnown
<1> QED
  BY <1>1, <1>4, <1>5, <1>6, <1>7, <1>8 DEF Asked, Modes, HeadSaved, Aborting

\* Every step keeps the invariant.
LEMMA NextIInv == IInv /\ [Next]_vars => IInv'
<1> SUFFICES ASSUME IInv, [Next]_vars PROVE IInv'
  OBVIOUS
<1>1. ASSUME NEW l \in Lists, Begin(l) PROVE IInv'
  BY <1>1, BeginKeeps
<1>2. CASE (\E c \in Singles : PickSingle(c)) \/ Commits \/ Abort \/ Reset
  BY <1>2, CommandsKeep
<1>3. CASE Continue
  BY <1>3, ContinueKeeps
<1>4. CASE Quit
  BY <1>4, QuitKeeps
<1>5. CASE Resolve \/ Stage \/ Edit
  BY <1>5, EditsKeep
<1>6. CASE save_head \/ save_todo
  BY <1>6, save_headKeeps, save_todoKeeps
<1>7. CASE merge \/ write_cherry_pick_head
  BY <1>7, mergeKeeps, write_cherry_pick_headKeeps
<1>8. CASE git_commit \/ unlink_cherry_pick_head \/ remove_sequencer_state
  BY <1>8, git_commitKeeps, unlinkKeeps, removeKeeps
<1>9. CASE reset_index \/ reset_head \/ remove_branch_state
  BY <1>9, reset_indexKeeps, reset_headKeeps, remove_branch_stateKeeps
<1>10. CASE Kill
  BY <1>10, KillKeeps
<1>11. CASE UNCHANGED vars
  BY <1>11
     DEF vars, repo, told, IInv, TypeOK, Asked, Modes, TodoLeft, Picking, FirstKnown, EndKnown, HeadSaved,
         Aborting, WorkKnown, Handled, Tree, Clean, NoSeq
<1> QED
  BY <1>1, <1>2, <1>3, <1>4, <1>5, <1>6, <1>7, <1>8, <1>9, <1>10, <1>11 DEF Next

----------------------------------------------------------------------------
(* What the invariant says of a sequence that goes on or is undone *)

LEMMA IInvNothingSkipped == IInv => NothingSkipped
<1> SUFFICES ASSUME IInv, NEW c \in Passed PROVE c \in Handled
  BY DEF NothingSkipped, Handled
<1> USE DEF IInv
<1>1. want \in Seq(Commit) /\ IsInjective(want)
  BY WantInjective
<1>2. PICK j \in 1..Len(want) : c = want[j]
  BY <1>1 DEF Passed, Range
<1>3. \A i \in 1..Len(want) : Place(want[i]) = i
  BY <1>1 DEF Place, IsInjective
<1>4. CASE ended
  BY <1>2, <1>4 DEF EndKnown
<1>5. CASE seq.todo # None /\ Place(c) < Place(Head(seq.todo))
  <2>1. PICK k \in 1..Len(want) : /\ Len(seq.todo) = Len(want) + 1 - k
                                  /\ \A i \in 1..Len(seq.todo) : seq.todo[i] = want[i + k - 1]
                                  /\ \A i \in 1..(k - 1) : want[i] \in Handled
    BY <1>5 DEF TodoLeft, Left
  <2>2. seq.todo \in Seq(Commit) /\ seq.todo # <<>>
    BY <1>5 DEF TypeOK
  <2>3. Head(seq.todo) = want[k]
    BY <2>1, <2>2
  <2>4. j < k
    BY <1>2, <1>3, <1>5, <2>3
  <2> QED
    BY <1>2, <2>1, <2>4
<1> QED
  BY <1>4, <1>5 DEF Passed

LEMMA IInvAbortRestores == IInv => AbortRestores
<1> SUFFICES ASSUME IInv, mode = "abort", pc = "remove"
             PROVE  /\ head = start /\ ~IndexDiffers /\ cph = None
                    /\ torn \/ work = [tree |-> Tree(start), edit |-> kept]
  BY DEF AbortRestores
<1>1. head = start /\ index = Clean(start) /\ cph = None
  BY DEF IInv, Aborting
<1>2. torn \/ work.tree = Tree(start)
  BY <1>1 DEF IInv, WorkKnown, Clean
<1>3. work = [tree |-> work.tree, edit |-> kept]
  BY DEF IInv, WorkKnown, TypeOK
<1> QED
  BY <1>1, <1>2, <1>3 DEF IndexDiffers

\* A sequence that stops, is killed and is continued, with whatever the user does in between, has
\* passed no commit that is not in HEAD, unless the user gave it up or its merge never began
\* (pick_commits(), sequencer_continue()).
THEOREM SequenceSkipsNothing == Spec => []NothingSkipped
<1>1. Spec => []IInv
  BY InitIInv, NextIInv, PTL DEF Spec
<1> QED
  BY <1>1, IInvNothingSkipped, PTL

\* Before --abort removes its state, HEAD is what it was when the sequence began, the index and
\* the file are those of that HEAD, CHERRY_PICK_HEAD is gone, and a local change that was not
\* staged is still in the file, unless a kill had left the file and the index apart
\* (sequencer_rollback()).  It is not said of what was staged before the sequence.
THEOREM AbortUndoesTheSequence == Spec => []AbortRestores
<1>1. Spec => []IInv
  BY InitIInv, NextIInv, PTL DEF Spec
<1> QED
  BY <1>1, IInvAbortRestores, PTL
=============================================================================
