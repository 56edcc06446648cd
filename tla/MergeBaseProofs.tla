-------------------------- MODULE MergeBaseProofs --------------------------
(***************************************************************************)
(* get_merge_bases_many() finds the best common ancestors, in every        *)
(* history and with any dates, and leaves no flags behind.                 *)
(***************************************************************************)
EXTENDS MergeBase, SequenceTheorems, FiniteSetTheorems, TLAPS

Distinct(s) == \A k, m \in DOMAIN s : s[k] = s[m] => k = m
Painting == pc \in {"twos", "loop", "clean"}
Nested == pc \in {"one", "twos", "loop", "clean", "clear"} /\ rslt # <<>>

\* Whose merge bases merge_bases_many() looks for.
ArgumentsRight ==
  pc \in {"one", "twos", "loop", "clean", "clear"} =>
    IF rslt = <<>> THEN one = call.one /\ twos = call.twos
    ELSE /\ j <= Len(rslt) /\ Null \notin {rslt[i], rslt[j]}
         /\ one = rslt[i] /\ twos = <<rslt[j]>>

\* What a flag says of a commit.
FlagsTrue ==
  Painting => \A c \in Commit :
    /\ "PARENT1" \in flags[c] => Reach(history, one, c)
    /\ "PARENT2" \in flags[c] => \E b \in Items(twos) : Reach(history, b, c)
    /\ "STALE" \in flags[c] => /\ Both \subseteq flags[c]
                               /\ \E d \in Common(history, one, twos) :
                                    d # c /\ Reach(history, d, c)
    /\ "RESULT" \in flags[c] => Both \subseteq flags[c]

\* The flags at the start of the loop.
Seeding ==
  pc = "twos" =>
    /\ rest # <<>> /\ Items(rest) \subseteq Items(twos) /\ result = <<>>
    /\ "PARENT1" \in flags[one]
    /\ \A b \in Items(twos) : b \in Items(rest) \/ "PARENT2" \in flags[b]
    /\ \A c \in Commit : flags[c] \subseteq Both /\ (flags[c] # {} <=> c \in Items(list))

\* A commit with flags is in the list, or has passed them on: but for the one that was popped,
\* which has parents to paint.
PassedOn ==
  pc = "loop" =>
    /\ "PARENT1" \in flags[one] /\ \A b \in Items(twos) : "PARENT2" \in flags[b]
    /\ rest # <<>> => /\ paint = passed_on(flags[item]) /\ flags[item] # {}
                      /\ Items(rest) \subseteq Parents(item)
    /\ \A c \in Items(list) : flags[c] # {}
    /\ \A c \in Commit : flags[c] # {} /\ c \notin Items(list) =>
         /\ \A p \in Parents(c) : \/ passed_on(flags[c]) \subseteq flags[p]
                                  \/ c = item /\ p \in Items(rest)
         /\ flags[c] # Both
    /\ Items(result) = {c \in Commit : "RESULT" \in flags[c]} /\ Distinct(result)

\* The results that are not stale.
Fresh == {c \in Commit : "RESULT" \in flags[c] /\ "STALE" \notin flags[c]}

Cleaning ==
  pc = "clean" =>
    /\ Best(history, one, twos) \subseteq Fresh
    /\ Items(result) \cup {c \in Items(rest) : "STALE" \notin flags[c]} = Fresh
    /\ Items(result) \cap Items(rest) = {}
    /\ Distinct(result) /\ Distinct(rest)

\* From the commits in R one comes to all that have flags.
Rooted(h, f, R) ==
  \A S \in SUBSET Commit :
    R \subseteq S /\ (\A y \in S : f[y] # {} => Items(h.parents[y]) \subseteq S)
      => \A c \in Commit : f[c] # {} => c \in S

Clearing ==
  /\ Painting => Rooted(history, flags, {one} \cup Items(twos))
  /\ pc = "clear" => /\ Rooted(history, flags, Items(rest))
                     /\ Best(history, one, twos) \subseteq Items(result)
                     /\ Items(result) \subseteq Common(history, one, twos)
                     /\ Distinct(result)

Unmarked ==
  pc \in {"idle", "returned", "one", "pairs", "gather"} => \A c \in Commit : flags[c] = {}

\* What is left of the results, and the pairs that were compared.
Comparing ==
  pc = "pairs" \/ Nested =>
    /\ 1 <= i /\ i < j /\ (i < Len(rslt) => j <= Len(rslt))
    /\ \A k, m \in DOMAIN rslt : rslt[k] = rslt[m] /\ rslt[k] # Null => k = m
    /\ Best(history, call.one, call.twos) \subseteq Items(rslt)
    /\ Items(rslt) \ {Null} \subseteq Common(history, call.one, call.twos)
    /\ \A k, m \in DOMAIN rslt :
         /\ k < i \/ (k = i /\ m < j)
         /\ k < m /\ Null \notin {rslt[k], rslt[m]}
         => ~Reach(history, rslt[k], rslt[m]) /\ ~Reach(history, rslt[m], rslt[k])

Gathering ==
  pc = "gather" =>
    /\ Items(result) \cup (Items(rest) \ {Null}) = Best(history, call.one, call.twos)
    /\ Items(result) \cap Items(rest) = {}
    /\ Distinct(result)
    /\ \A k, m \in DOMAIN rest : rest[k] = rest[m] /\ rest[k] # Null => k = m

Starting == pc = "one" => rest = twos /\ twos # <<>> /\ result = <<>>
RestInCommits == pc # "gather" => rest \in Seq(Commit)

IInv ==
  /\ TypeOK /\ RestInCommits /\ ArgumentsRight /\ Starting /\ Seeding /\ FlagsTrue
  /\ PassedOn /\ Cleaning /\ Clearing /\ Unmarked /\ Comparing /\ Gathering /\ BasesRight

----------------------------------------------------------------------------
\* Sequences.

LEMMA ItemsInSeq ==
  ASSUME NEW T, NEW s \in Seq(T)
  PROVE  Items(s) \subseteq T /\ Items(<<>>) = {}
BY DEF Items

LEMMA NoItems ==
  ASSUME NEW T
  PROVE  <<>> \in Seq(T) /\ Items(<<>>) = {} /\ Distinct(<<>>)
<1>1. <<>> \in Seq(T)
  OBVIOUS
<1>2. QED BY <1>1, ItemsInSeq DEF Items, Distinct

LEMMA Widened ==
  ASSUME NEW s \in Seq(Commit)
  PROVE  s \in Seq(Commit \cup {Null})
OBVIOUS

LEMMA HeadAndTail ==
  ASSUME NEW T, NEW s \in Seq(T), s # <<>>
  PROVE  /\ Head(s) \in T /\ Tail(s) \in Seq(T)
         /\ Items(s) = {Head(s)} \cup Items(Tail(s))
<1>1. Len(s) \in Nat \ {0} /\ DOMAIN s = 1..Len(s) /\ s = [k \in 1..Len(s) |-> s[k]]
  BY EmptySeq
<1>2. Head(s) = s[1] /\ Head(s) \in T /\ Tail(s) \in Seq(T)
  BY <1>1
<1>3. Len(Tail(s)) = Len(s) - 1 /\ \A k \in 1..(Len(s) - 1) : Tail(s)[k] = s[k + 1]
  BY <1>1
<1>4. DOMAIN Tail(s) = 1..(Len(s) - 1)
  BY <1>2, <1>3
<1>5. ASSUME NEW x \in Items(s) PROVE x = Head(s) \/ x \in Items(Tail(s))
  <2>1. PICK k \in 1..Len(s) : s[k] = x
    BY <1>1, <1>5 DEF Items
  <2>2. CASE k = 1
    BY <2>1, <2>2, <1>2
  <2>3. CASE k # 1
    <3>1. k - 1 \in DOMAIN Tail(s) /\ Tail(s)[k - 1] = x
      BY <1>1, <1>3, <1>4, <2>1, <2>3
    <3>2. QED BY <3>1 DEF Items
  <2>4. QED BY <2>2, <2>3
<1>6. ASSUME NEW x \in Items(Tail(s)) PROVE x \in Items(s)
  <2>1. PICK k \in 1..(Len(s) - 1) : Tail(s)[k] = x
    BY <1>4, <1>6 DEF Items
  <2>2. k + 1 \in DOMAIN s /\ s[k + 1] = x
    BY <1>1, <1>3, <2>1
  <2>3. QED BY <2>2 DEF Items
<1>7. Head(s) \in Items(s)
  BY <1>1, <1>2 DEF Items
<1>8. QED BY <1>2, <1>5, <1>6, <1>7

LEMMA TailDistinct ==
  ASSUME NEW T, NEW s \in Seq(T), s # <<>>, Distinct(s)
  PROVE  Distinct(Tail(s)) /\ Head(s) \notin Items(Tail(s))
<1>1. Len(s) \in Nat \ {0} /\ DOMAIN s = 1..Len(s)
  BY EmptySeq
<1>2. Head(s) = s[1] /\ Tail(s) \in Seq(T)
  BY <1>1
<1>3. Len(Tail(s)) = Len(s) - 1 /\ \A k \in 1..(Len(s) - 1) : Tail(s)[k] = s[k + 1]
  BY <1>1
<1>4. DOMAIN Tail(s) = 1..(Len(s) - 1)
  BY <1>2, <1>3
<1>5. \A k \in 1..(Len(s) - 1) : k + 1 \in 1..Len(s) /\ 1 \in 1..Len(s) /\ k + 1 # 1
  BY <1>1
<1>6. QED BY <1>1, <1>2, <1>3, <1>4, <1>5 DEF Distinct, Items

LEMMA InsertedRight ==
  ASSUME history \in Histories, NEW c \in Commit, NEW s \in Seq(Commit)
  PROVE  /\ inserted(c, s) \in Seq(Commit)
         /\ Items(inserted(c, s)) = Items(s) \cup {c}
         /\ Distinct(s) /\ c \notin Items(s) => Distinct(inserted(c, s))
         /\ Len(inserted(c, s)) = Len(s) + 1
<1> DEFINE K == {k \in DOMAIN s : \A m \in 1..k : history.date[s[m]] >= history.date[c]}
<1> DEFINE n == Cardinality(K)
<1> DEFINE t == [k \in 1..(Len(s) + 1) |-> IF k <= n THEN s[k] ELSE IF k = n + 1 THEN c ELSE s[k - 1]]
<1>1. Len(s) \in Nat /\ DOMAIN s = 1..Len(s) /\ \A k \in 1..Len(s) : s[k] \in Commit
  OBVIOUS
<1>2. n \in 0..Len(s)
  <2>1. IsFiniteSet(1..Len(s)) /\ Cardinality(1..Len(s)) = Len(s)
    <3>1. 1 \in Int /\ Len(s) \in Int
      BY <1>1
    <3>2. /\ IsFiniteSet(1..Len(s))
          /\ Cardinality(1..Len(s)) = IF 1 > Len(s) THEN 0 ELSE Len(s) - 1 + 1
      BY ONLY <3>1, FS_Interval, Zenon
    <3>3. QED BY <1>1, <3>2
  <2>2. K \subseteq 1..Len(s)
    BY <1>1
  <2>3. IsFiniteSet(K) /\ Cardinality(K) <= Len(s)
    BY <2>1, <2>2, FS_Subset
  <2>4. n \in Nat
    BY <2>3, FS_CardinalityType, Zenon
  <2>5. QED BY <1>1, <2>3, <2>4
<1>3. inserted(c, s) = t
  BY DEF inserted
<1> HIDE DEF n
<1>4. \A k \in 1..(Len(s) + 1) : t[k] \in Commit
  BY <1>1, <1>2
<1>5. t \in Seq(Commit) /\ Len(t) = Len(s) + 1 /\ DOMAIN t = 1..(Len(s) + 1)
  BY <1>1, <1>4, LenProperties, SeqDef
<1>6. \A k \in 1..Len(s) : IF k <= n THEN t[k] = s[k] ELSE t[k + 1] = s[k] /\ k + 1 \in DOMAIN t
  BY <1>1, <1>2, <1>5
<1>7. n + 1 \in DOMAIN t /\ t[n + 1] = c
  BY <1>1, <1>2, <1>5
<1>8. ASSUME NEW x \in Items(s) PROVE x \in Items(t)
  <2>1. PICK k \in 1..Len(s) : s[k] = x
    BY <1>1, <1>8 DEF Items
  <2>2. k \in DOMAIN t /\ k + 1 \in DOMAIN t
    BY <1>1, <1>5, <2>1
  <2>3. t[k] = x \/ t[k + 1] = x
    BY <1>6, <2>1
  <2>4. QED BY <2>2, <2>3 DEF Items
<1>9. ASSUME NEW x \in Items(t) PROVE x \in Items(s) \cup {c}
  <2>1. PICK k \in 1..(Len(s) + 1) : t[k] = x
    BY <1>5, <1>9 DEF Items
  <2>2. CASE k <= n
    BY <1>1, <1>2, <2>1, <2>2 DEF Items
  <2>3. CASE k = n + 1
    BY <1>7, <2>1, <2>3
  <2>4. CASE k > n + 1
    <3>1. k - 1 \in DOMAIN s /\ s[k - 1] = x
      BY <1>1, <1>2, <2>1, <2>4
    <3>2. QED BY <3>1 DEF Items
  <2>5. QED BY <1>2, <2>1, <2>2, <2>3, <2>4
<1>10. Items(t) = Items(s) \cup {c}
  BY <1>7, <1>8, <1>9 DEF Items
<1>11. ASSUME Distinct(s), c \notin Items(s) PROVE Distinct(t)
  <2> DEFINE at(k) == IF k <= n THEN k ELSE k - 1
  <2>1. \A k \in 1..Len(s) : s[k] # c
    BY <1>1, <1>11 DEF Items
  <2>2. \A k \in DOMAIN t : k # n + 1 => at(k) \in DOMAIN s /\ t[k] = s[at(k)]
    BY <1>1, <1>2, <1>5
  <2>3. ASSUME NEW k \in DOMAIN t, NEW m \in DOMAIN t, t[k] = t[m] PROVE k = m
    <3>1. CASE k = n + 1 \/ m = n + 1
      BY <1>1, <1>7, <2>1, <2>2, <2>3, <3>1
    <3>2. CASE k # n + 1 /\ m # n + 1
      <4>1. at(k) = at(m)
        BY <2>2, <2>3, <3>2, <1>11 DEF Distinct
      <4>2. QED BY <4>1, <1>2, <1>5, <2>3, <3>2
    <3>3. QED BY <3>1, <3>2
  <2>4. QED BY <2>3 DEF Distinct
<1>12. QED BY <1>3, <1>5, <1>10, <1>11

----------------------------------------------------------------------------
\* Ancestors.

LEMMA ReachSelf ==
  ASSUME NEW h, NEW a
  PROVE  Reach(h, a, a)
BY DEF Reach

LEMMA ReachParent ==
  ASSUME NEW h, NEW a, NEW c, Reach(h, a, c), NEW p \in Items(h.parents[c])
  PROVE  Reach(h, a, p)
BY DEF Reach, Closed

LEMMA ReachTransitive ==
  ASSUME NEW h, NEW a, NEW b, NEW c, Reach(h, a, b), Reach(h, b, c)
  PROVE  Reach(h, a, c)
BY DEF Reach

LEMMA ParentsAreCommits ==
  ASSUME NEW h \in Histories, NEW c \in Commit
  PROVE  Items(h.parents[c]) \subseteq Commit /\ h.parents[c] \in Seq(Commit)
BY MergeBaseAssumption, ItemsInSeq DEF IsHistory

LEMMA SomeoneIsNoParent ==
  ASSUME NEW h \in Histories, NEW S \in SUBSET Commit, S # {}
  PROVE  \E x \in S : \A y \in S : x \notin Items(h.parents[y])
BY MergeBaseAssumption DEF IsHistory

\* What is reached in one step or more is reached by a last step.
LEMMA LastStep ==
  ASSUME NEW h \in Histories, NEW a \in Commit, NEW b \in Commit, Reach(h, a, b), a # b
  PROVE  \E v \in Commit : Reach(h, a, v) /\ b \in Items(h.parents[v])
<1> DEFINE Last(x) == \E v \in Commit : Reach(h, a, v) /\ x \in Items(h.parents[v])
<1> DEFINE S == {x \in Commit : Reach(h, a, x) /\ (x = a \/ Last(x))}
<1>1. a \in S
  BY ReachSelf
<1>2. Closed(h, S)
  <2>1. ASSUME NEW c \in S, NEW p \in Items(h.parents[c]) PROVE p \in S
    BY <2>1, ParentsAreCommits, ReachParent
  <2>2. QED BY <2>1 DEF Closed
<1>3. b \in S
  BY <1>1, <1>2 DEF Reach
<1>4. QED BY <1>3

LEMMA ReachAntisymmetric ==
  ASSUME NEW h \in Histories, NEW a \in Commit, NEW b \in Commit,
         Reach(h, a, b), Reach(h, b, a)
  PROVE  a = b
<1> SUFFICES ASSUME a # b PROVE FALSE
  OBVIOUS
<1> DEFINE S == {x \in Commit : Reach(h, a, x) /\ Reach(h, x, a)}
<1>1. a \in S
  BY ReachSelf
<1>2. PICK x \in S : \A y \in S : x \notin Items(h.parents[y])
  <2>1. S \subseteq Commit
    OBVIOUS
  <2> HIDE DEF S
  <2>2. QED BY <1>1, <2>1, SomeoneIsNoParent
<1>3. \E z \in Commit : z # x /\ Reach(h, a, z) /\ Reach(h, z, x) /\ Reach(h, x, z)
  <2>1. CASE x = a
    BY <2>1
  <2>2. CASE x # a
    BY <2>2, ReachSelf
  <2>3. QED BY <2>1, <2>2
<1>4. PICK z \in Commit : z # x /\ Reach(h, a, z) /\ Reach(h, z, x) /\ Reach(h, x, z)
  BY <1>3
<1>5. PICK v \in Commit : Reach(h, z, v) /\ x \in Items(h.parents[v])
  BY <1>4, LastStep
<1>6. Reach(h, v, x)
  BY <1>5, ReachSelf, ReachParent
<1>7. v \in S
  BY <1>4, <1>5, <1>6, ReachTransitive
<1>8. QED BY <1>2, <1>5, <1>7

LEMMA NoOwnParent ==
  ASSUME NEW h \in Histories, NEW c \in Commit, NEW p \in Items(h.parents[c])
  PROVE  p # c
<1>1. {c} \in SUBSET Commit /\ {c} # {}
  OBVIOUS
<1>2. \E x \in {c} : \A y \in {c} : x \notin Items(h.parents[y])
  BY ONLY <1>1, SomeoneIsNoParent, h \in Histories
<1>3. QED BY <1>2

\* An ancestor of a common ancestor is one.
LEMMA CommonBelow ==
  ASSUME NEW h \in Histories, NEW a \in Commit, NEW bs \in Seq(Commit),
         NEW c \in Common(h, a, bs), NEW d \in Commit, Reach(h, c, d)
  PROVE  d \in Common(h, a, bs)
BY ReachTransitive DEF Common

\* Every common ancestor is an ancestor of a best one.
LEMMA BestAbove ==
  ASSUME NEW h \in Histories, NEW a \in Commit, NEW bs \in Seq(Commit),
         NEW c \in Common(h, a, bs)
  PROVE  \E z \in Best(h, a, bs) : Reach(h, z, c)
<1> DEFINE T == {x \in Common(h, a, bs) : Reach(h, x, c)}
<1>1. c \in T /\ T \subseteq Commit
  BY ReachSelf DEF Common
<1>2. PICK z \in T : \A y \in T : z \notin Items(h.parents[y])
  <2> HIDE DEF T
  <2>1. QED BY <1>1, SomeoneIsNoParent
<1>3. ASSUME NEW d \in Common(h, a, bs), Reach(h, d, z), d # z PROVE FALSE
  <2>1. d \in Commit /\ z \in Commit
    BY <1>1 DEF Common
  <2>2. PICK v \in Commit : Reach(h, d, v) /\ z \in Items(h.parents[v])
    BY <2>1, <1>3, LastStep
  <2>3. Reach(h, v, z) /\ Reach(h, z, c)
    BY <2>2, ReachSelf, ReachParent
  <2>4. v \in T
    BY <2>2, <2>3, CommonBelow, ReachTransitive
  <2>5. QED BY <1>2, <2>2, <2>4
<1>4. z \in Best(h, a, bs)
  BY <1>3 DEF Best
<1>5. QED BY <1>4

LEMMA BestIsCommon ==
  ASSUME NEW h, NEW a, NEW bs
  PROVE  Best(h, a, bs) \subseteq Common(h, a, bs) /\ Common(h, a, bs) \subseteq Commit
BY DEF Best, Common

\* A commit and itself have one best common ancestor, and so have one and an ancestor of it.
LEMMA BestOfOne ==
  ASSUME NEW h \in Histories, NEW a \in Commit, NEW bs \in Seq(Commit), a \in Items(bs)
  PROVE  Best(h, a, bs) = {a}
<1>1. a \in Common(h, a, bs)
  BY ReachSelf DEF Common
<1>2. ASSUME NEW c \in Best(h, a, bs) PROVE c = a
  BY <1>1, <1>2 DEF Best, Common
<1>3. ASSUME NEW d \in Common(h, a, bs), Reach(h, d, a) PROVE d = a
  BY <1>3, ReachAntisymmetric DEF Common
<1>4. QED BY <1>1, <1>2, <1>3 DEF Best

LEMMA SingleItem ==
  ASSUME NEW T, NEW b \in T
  PROVE  <<b>> \in Seq(T) /\ Items(<<b>>) = {b} /\ <<b>> # <<>>
<1>1. DOMAIN <<b>> = {1} /\ <<b>>[1] = b
  OBVIOUS
<1>2. QED BY <1>1 DEF Items

LEMMA BestOfAncestor ==
  ASSUME NEW h \in Histories, NEW a \in Commit, NEW b \in Commit,
         Reach(h, a, b) \/ Reach(h, b, a)
  PROVE  Best(h, a, <<b>>) = {IF Reach(h, a, b) THEN b ELSE a}
<1>1. Common(h, a, <<b>>) = {c \in Commit : Reach(h, a, c) /\ Reach(h, b, c)}
  BY SingleItem DEF Common
<1>2. CASE Reach(h, a, b)
  <2>1. b \in Common(h, a, <<b>>)
    BY <1>1, <1>2, ReachSelf
  <2>2. \A d \in Common(h, a, <<b>>) : Reach(h, b, d) /\ d \in Commit
    BY <1>1
  <2>3. \A d \in Common(h, a, <<b>>) : Reach(h, d, b) => d = b
    BY <2>2, ReachAntisymmetric
  <2>4. QED BY <1>2, <2>1, <2>2, <2>3 DEF Best
<1>3. CASE ~Reach(h, a, b)
  <2>1. a \in Common(h, a, <<b>>)
    BY <1>1, <1>3, ReachSelf
  <2>2. \A d \in Common(h, a, <<b>>) : Reach(h, a, d) /\ d \in Commit
    BY <1>1
  <2>3. \A d \in Common(h, a, <<b>>) : Reach(h, d, a) => d = a
    BY <2>2, ReachAntisymmetric
  <2>4. QED BY <1>3, <2>1, <2>2, <2>3 DEF Best
<1>4. QED BY <1>2, <1>3

----------------------------------------------------------------------------
\* Types.

LEMMA InitInv == Init => IInv
<1> SUFFICES ASSUME Init PROVE IInv
  OBVIOUS
<1> USE DEF Init
<1>1. Calls # {} => call \in Calls
  OBVIOUS
<1>2. Calls # {}
  BY MergeBaseAssumption
<1>3. TypeOK
  BY <1>1, <1>2, MergeBaseAssumption DEF TypeOK, Flag
<1>4. QED
  BY <1>3 DEF IInv, RestInCommits, ArgumentsRight, Starting, Seeding, FlagsTrue, PassedOn,
     Cleaning, Clearing, Unmarked, Comparing, Gathering, BasesRight, Painting, Nested

LEMMA TypeStep == IInv /\ [Next]_vars => TypeOK' /\ RestInCommits'
<1> SUFFICES ASSUME IInv, [Next]_vars PROVE TypeOK' /\ RestInCommits'
  OBVIOUS
<1> USE DEF IInv, TypeOK
<1>0. history \in Histories /\ \A c \in Commit : history.parents[c] \in Seq(Commit)
  BY ParentsAreCommits
<1>1. CASE Call
  <2>1. PICK q \in Calls :
          /\ call' = q
          /\ IF q.one \in Items(q.twos)
             THEN result' = <<q.one>> /\ pc' = "returned" /\ UNCHANGED <<one, twos, rest>>
             ELSE StartPainting(q.one, q.twos)
    BY <1>1 DEF Call
  <2>2. q.one \in Commit /\ q.twos \in Seq(Commit) /\ q.twos \in Seq(Commit \cup {Null})
    BY MergeBaseAssumption, Widened
  <2>3. <<q.one>> \in Seq(Commit)
    BY <2>2, SingleItem
  <2>4. /\ pc # "gather" /\ rest \in Seq(Commit)
        /\ rslt' = <<>> /\ UNCHANGED <<history, flags, list, item, paint, i, j>>
    BY <1>1 DEF Call, RestInCommits
  <2>5. <<>> \in Seq(Commit) /\ <<>> \in Seq(Commit \cup {Null})
    OBVIOUS
  <2>6. CASE q.one \in Items(q.twos)
    BY <2>1, <2>2, <2>3, <2>4, <2>5, <2>6 DEF RestInCommits
  <2>7. CASE q.one \notin Items(q.twos)
    BY <2>1, <2>2, <2>4, <2>5, <2>7 DEF StartPainting, RestInCommits
  <2>8. QED BY <2>6, <2>7
<1>2. CASE PaintOne
  <2>1. list' \in Seq(Commit)
    <3>1. <<>> \in Seq(Commit) /\ one \in Commit
      OBVIOUS
    <3>2. inserted(one, <<>>) \in Seq(Commit)
      BY <1>0, <3>1, InsertedRight
    <3>3. QED BY <1>2, <3>2 DEF PaintOne
  <2>2. flags' \in [Commit -> SUBSET Flag]
    BY <1>2 DEF PaintOne, Flag
  <2>3. QED BY <1>2, <2>1, <2>2 DEF PaintOne, RestInCommits
<1>3. CASE PaintTwo
  <2>1. rest \in Seq(Commit) /\ rest # <<>>
    BY <1>3 DEF PaintTwo, RestInCommits, Seeding
  <2>2. Head(rest) \in Commit /\ Tail(rest) \in Seq(Commit)
    BY <2>1, HeadAndTail
  <2>3. list' \in Seq(Commit)
    BY <1>3, <2>2, InsertedRight DEF PaintTwo
  <2>4. flags' \in [Commit -> SUBSET Flag]
    BY <1>3, <2>2 DEF PaintTwo, Flag
  <2>5. rest' \in Seq(Commit) /\ rest' \in Seq(Commit \cup {Null})
    BY <1>3, <2>2 DEF PaintTwo
  <2>6. QED BY <1>3, <2>3, <2>4, <2>5 DEF PaintTwo, RestInCommits
<1>4. CASE Pop
  <2>1. list # <<>>
    BY <1>4, ItemsInSeq DEF Pop, interesting
  <2>2. Head(list) \in Commit /\ Tail(list) \in Seq(Commit)
    BY <2>1, HeadAndTail
  <2>3. result' \in Seq(Commit)
    BY <1>4, <2>2, InsertedRight DEF Pop
  <2>4. flags' \in [Commit -> SUBSET Flag]
    BY <1>4, <2>2 DEF Pop, Flag
  <2>5. paint' \subseteq Flag \ {"RESULT"}
    BY <1>4, <2>2 DEF Pop, passed_on, Both, Flag
  <2>6. rest' \in Seq(Commit) /\ rest' \in Seq(Commit \cup {Null})
    BY <1>0, <1>4, <2>2 DEF Pop
  <2>7. QED BY <1>4, <2>2, <2>3, <2>4, <2>5, <2>6 DEF Pop, RestInCommits
<1>5. CASE PaintParent
  <2>1. rest \in Seq(Commit) /\ rest # <<>>
    BY <1>5 DEF PaintParent, RestInCommits
  <2>2. Head(rest) \in Commit /\ Tail(rest) \in Seq(Commit)
    BY <2>1, HeadAndTail
  <2>3. list' \in Seq(Commit)
    <3>1. inserted(Head(rest), list) \in Seq(Commit)
      BY <1>0, <2>2, InsertedRight
    <3>2. QED BY <1>5, <3>1 DEF PaintParent
  <2>4. flags' \in [Commit -> SUBSET Flag]
    BY <1>5, <2>2 DEF PaintParent, Flag
  <2>5. rest' \in Seq(Commit) /\ rest' \in Seq(Commit \cup {Null})
    BY <1>5, <2>2 DEF PaintParent
  <2>6. QED BY <1>5, <2>3, <2>4, <2>5 DEF PaintParent, RestInCommits
<1>6. CASE EndLoop
  BY <1>6 DEF EndLoop, RestInCommits
<1>7. CASE Clean
  <2>1. rest \in Seq(Commit)
    BY <1>7 DEF Clean, RestInCommits
  <2>2. CASE rest # <<>>
    <3>1. Head(rest) \in Commit /\ Tail(rest) \in Seq(Commit)
      BY <2>1, <2>2, HeadAndTail
    <3>2. result' \in Seq(Commit)
      <4>1. inserted(Head(rest), result) \in Seq(Commit)
        BY <1>0, <3>1, InsertedRight
      <4>2. QED BY <1>7, <2>2, <4>1 DEF Clean
    <3>3. Tail(rest) \in Seq(Commit \cup {Null})
      BY <3>1, Widened
    <3>4. QED BY <1>7, <2>2, <3>1, <3>2, <3>3 DEF Clean, RestInCommits
  <2>3. CASE rest = <<>>
    <3>1. <<one>> \o twos \in Seq(Commit)
      BY SingleItem
    <3>2. <<one>> \o twos \in Seq(Commit \cup {Null})
      BY SingleItem
    <3>3. QED BY <1>7, <2>3, <3>1, <3>2 DEF Clean, RestInCommits
  <2>4. QED BY <2>2, <2>3
<1>8. CASE Clear
  <2>1. rest \in Seq(Commit) /\ rest # <<>>
    BY <1>8 DEF Clear, RestInCommits
  <2>2. Tail(rest) \in Seq(Commit) /\ Tail(rest) \in Seq(Commit \cup {Null})
    BY <2>1, HeadAndTail
  <2>3. flags' \in [Commit -> SUBSET Flag]
    BY <1>8 DEF Clear, clear_commit_marks
  <2>4. QED BY <1>8, <2>2, <2>3 DEF Clear, RestInCommits
<1>9. CASE Returned
  <2>1. result \in Seq(Commit \cup {Null})
    BY Widened
  <2>2. rest \in Seq(Commit)
    BY <1>9 DEF Returned, RestInCommits
  <2>3. /\ pc' \in {"returned", "pairs"}
        /\ rslt' \in {rslt, result} /\ i' \in {i, 1} /\ j' \in {j, 2}
        /\ UNCHANGED <<history, call, one, twos, flags, list, result, item, paint, rest>>
    BY <1>9 DEF Returned
  <2>4. QED BY <2>1, <2>2, <2>3 DEF RestInCommits
<1>10. CASE Compared
  <2> DEFINE f(k) == IF k \in {i, j} /\ rslt[k] \in Items(result) THEN Null ELSE rslt[k]
  <2>1. Len(rslt) \in Nat /\ DOMAIN rslt = 1..Len(rslt)
    OBVIOUS
  <2>2. \A k \in 1..Len(rslt) : f(k) \in Commit \cup {Null}
    BY <2>1
  <2>3. [k \in 1..Len(rslt) |-> f(k)] \in Seq(Commit \cup {Null})
    BY <2>1, <2>2, SeqDef
  <2>4. rslt' \in Seq(Commit \cup {Null})
    BY <1>10, <2>1, <2>3 DEF Compared
  <2>5. QED BY <1>10, <2>4 DEF Compared, NextPair, RestInCommits
<1>11. CASE Pairs
  <2>1. CASE i >= Len(rslt)
    BY <1>11, <2>1 DEF Pairs, RestInCommits
  <2>2. CASE i < Len(rslt) /\ Null \in {rslt[i], rslt[j]}
    BY <1>11, <2>2 DEF Pairs, RestInCommits, NextPair
  <2>3. CASE i < Len(rslt) /\ Null \notin {rslt[i], rslt[j]}
    <3>1. rslt[i] \in Commit /\ rslt[j] \in Commit
      BY <1>11, <2>3 DEF Pairs, Comparing
    <3>2. <<rslt[j]>> \in Seq(Commit) /\ <<rslt[j]>> \in Seq(Commit \cup {Null})
      BY <3>1, SingleItem
    <3>3. StartPainting(rslt[i], <<rslt[j]>>) /\ UNCHANGED <<i, j>>
      BY <1>11, <2>3 DEF Pairs
    <3>4. QED BY <1>11, <2>3, <3>1, <3>2, <3>3 DEF Pairs, StartPainting, RestInCommits
  <2>4. QED BY <2>1, <2>2, <2>3
<1>12. CASE Gather
  <2>1. CASE rest # <<>>
    <3>1. Head(rest) \in Commit \cup {Null} /\ Tail(rest) \in Seq(Commit \cup {Null})
      BY <2>1, HeadAndTail
    <3>2. result' \in Seq(Commit)
      <4>1. Head(rest) # Null => inserted(Head(rest), result) \in Seq(Commit)
        BY <1>0, <3>1, InsertedRight
      <4>2. QED BY <1>12, <2>1, <4>1 DEF Gather
    <3>3. QED BY <1>12, <2>1, <3>1, <3>2 DEF Gather, RestInCommits
  <2>2. CASE rest = <<>>
    BY <1>12, <2>2 DEF Gather, RestInCommits
  <2>3. QED BY <2>1, <2>2
<1>13. CASE UNCHANGED vars
  BY <1>13 DEF vars, RestInCommits
<1>14. QED
  BY <1>1, <1>2, <1>3, <1>4, <1>5, <1>6, <1>7, <1>8, <1>9, <1>10, <1>11, <1>12, <1>13
     DEF Next, Step

----------------------------------------------------------------------------
\* The steps of merge_bases_many().

LEMMA CallStep ==
  ASSUME IInv, TypeOK', RestInCommits', Call
  PROVE  IInv'
<1> USE DEF IInv
<1>1. PICK q \in Calls :
        /\ call' = q
        /\ IF q.one \in Items(q.twos)
           THEN result' = <<q.one>> /\ pc' = "returned" /\ UNCHANGED <<one, twos, rest>>
           ELSE StartPainting(q.one, q.twos)
  BY DEF Call
<1>2. /\ q.one \in Commit /\ q.twos \in Seq(Commit) /\ q.twos # <<>>
      /\ pc \in {"idle", "returned"} /\ rslt' = <<>> /\ flags' = flags /\ history' = history
  BY MergeBaseAssumption DEF Call
<1>3. Unmarked'
  BY <1>2 DEF Unmarked
<1>4. CASE q.one \in Items(q.twos)
  <2>1. pc' = "returned" /\ result' = <<q.one>> /\ call' = q
    BY <1>1, <1>4
  <2>2. Best(history, q.one, q.twos) = {q.one}
    BY <1>2, <1>4, BestOfOne DEF TypeOK
  <2>3. Items(<<q.one>>) = {q.one} /\ Distinct(<<q.one>>)
    BY <1>2, SingleItem DEF Distinct
  <2>4. BasesRight'
    BY <1>2, <2>1, <2>2, <2>3 DEF BasesRight, Distinct
  <2>5. QED
    BY <1>3, <2>1, <2>4 DEF ArgumentsRight, Starting, Seeding, FlagsTrue, PassedOn, Cleaning,
       Clearing, Comparing, Gathering, Painting, Nested
<1>5. CASE q.one \notin Items(q.twos)
  <2>1. /\ pc' = "one" /\ one' = q.one /\ twos' = q.twos /\ rest' = q.twos /\ result' = <<>>
        /\ call' = q
    BY <1>1, <1>5 DEF StartPainting
  <2>2. ArgumentsRight' /\ Starting'
    BY <1>2, <2>1 DEF ArgumentsRight, Starting
  <2>3. QED
    BY <1>2, <1>3, <2>1, <2>2 DEF Seeding, FlagsTrue, PassedOn, Cleaning,
       Clearing, Comparing, Gathering, Painting, Nested, BasesRight
<1>6. QED BY <1>4, <1>5

\* While merge_bases_many() runs its caller's variables stay.
Inside == {"one", "twos", "loop", "clean", "clear"}

LEMMA CallerStays ==
  ASSUME IInv, pc \in Inside, pc' \in Inside,
         UNCHANGED <<history, call, one, twos, rslt, i, j>>
  PROVE  ArgumentsRight' /\ Comparing'
<1>1. ArgumentsRight'
  BY DEF IInv, ArgumentsRight, Inside
<1>2. CASE rslt = <<>>
  BY <1>1, <1>2 DEF Comparing, Nested, Inside
<1>3. CASE rslt # <<>>
  <2>1. Nested
    BY <1>3 DEF Nested, Inside
  <2>2. QED BY <1>1, <2>1 DEF IInv, Comparing
<1>4. QED BY <1>2, <1>3

LEMMA RootedGrows ==
  ASSUME NEW h, NEW f \in [Commit -> SUBSET Flag], NEW R \in SUBSET Commit,
         NEW p \in Commit, NEW F \in SUBSET Flag, Rooted(h, f, R),
         p \in R \/ \E c \in Commit : f[c] # {} /\ p \in Items(h.parents[c])
  PROVE  Rooted(h, [f EXCEPT ![p] = @ \cup F], R)
<1> DEFINE g == [f EXCEPT ![p] = @ \cup F]
<1>1. \A c \in Commit : (f[c] # {} => g[c] # {}) /\ (c # p => g[c] = f[c])
  OBVIOUS
<1> HIDE DEF g
<1>2. ASSUME NEW S \in SUBSET Commit, R \subseteq S,
             \A y \in S : g[y] # {} => Items(h.parents[y]) \subseteq S
      PROVE  \A c \in Commit : g[c] # {} => c \in S
  <2>1. \A y \in S : f[y] # {} => Items(h.parents[y]) \subseteq S
    BY <1>1, <1>2
  <2>2. \A c \in Commit : f[c] # {} => c \in S
    BY <1>2, <2>1 DEF Rooted
  <2>3. p \in S
    BY <1>2, <2>1, <2>2
  <2>4. QED BY <1>1, <2>2, <2>3
<1>3. Rooted(h, g, R)
  BY <1>2 DEF Rooted
<1>4. QED BY <1>3 DEF g

LEMMA PaintOneStep ==
  ASSUME IInv, TypeOK', RestInCommits', PaintOne
  PROVE  IInv'
<1> USE DEF IInv
<1>1. /\ pc = "one" /\ pc' = "twos" /\ UNCHANGED <<history, call, one, twos, result, rest, rslt, i, j>>
      /\ flags' = [flags EXCEPT ![one] = @ \cup {"PARENT1"}] /\ list' = inserted(one, <<>>)
  BY DEF PaintOne
<1>2. /\ history \in Histories /\ one \in Commit /\ flags \in [Commit -> SUBSET Flag]
      /\ twos \in Seq(Commit) /\ Items(twos) \subseteq Commit
  BY ItemsInSeq DEF TypeOK
<1>3. /\ rest = twos /\ twos # <<>> /\ result = <<>> /\ \A c \in Commit : flags[c] = {}
  BY <1>1 DEF Starting, Unmarked
<1>4. \A c \in Commit : flags'[c] = IF c = one THEN {"PARENT1"} ELSE {}
  BY <1>1, <1>2, <1>3
<1>5. Items(list') = {one}
  <2>1. <<>> \in Seq(Commit) /\ Items(<<>>) = {}
    BY NoItems
  <2>2. Items(inserted(one, <<>>)) = {} \cup {one}
    BY <1>2, <2>1, InsertedRight
  <2>3. QED BY <1>1, <2>2
<1>6. Seeding'
  BY <1>1, <1>2, <1>3, <1>4, <1>5 DEF Seeding, Both
<1>7. FlagsTrue'
  <2>1. \A c \in Commit : /\ "PARENT1" \in flags'[c] => c = one
                          /\ "PARENT2" \notin flags'[c]
                          /\ "STALE" \notin flags'[c] /\ "RESULT" \notin flags'[c]
    BY <1>4
  <2>2. Reach(history, one, one)
    BY ReachSelf
  <2>3. QED BY <1>1, <2>1, <2>2 DEF FlagsTrue
<1>8. Clearing'
  <2>1. Rooted(history, flags, {one} \cup Items(twos))
    BY <1>3 DEF Rooted
  <2>2. Rooted(history, flags', {one} \cup Items(twos))
    <3>1. {"PARENT1"} \in SUBSET Flag
      BY DEF Flag
    <3>2. QED BY <1>1, <1>2, <2>1, <3>1, RootedGrows
  <2>3. QED BY <1>1, <2>2 DEF Clearing
<1>9. ArgumentsRight' /\ Comparing'
  BY <1>1, CallerStays DEF Inside
<1>10. QED
  BY <1>1, <1>6, <1>7, <1>8, <1>9 DEF Starting, PassedOn, Cleaning, Unmarked, Gathering, BasesRight

LEMMA PaintTwoStep ==
  ASSUME IInv, TypeOK', RestInCommits', PaintTwo
  PROVE  IInv'
<1> USE DEF IInv
<1> DEFINE b == Head(rest)
<1>1. /\ pc = "twos" /\ pc' = (IF rest' = <<>> THEN "loop" ELSE "twos")
      /\ UNCHANGED <<history, call, one, twos, result, rslt, i, j>>
      /\ flags' = [flags EXCEPT ![b] = @ \cup {"PARENT2"}] /\ list' = inserted(b, list)
      /\ rest' = Tail(rest)
  BY DEF PaintTwo
<1>2. /\ history \in Histories /\ one \in Commit /\ flags \in [Commit -> SUBSET Flag]
      /\ twos \in Seq(Commit) /\ Items(twos) \subseteq Commit /\ list \in Seq(Commit)
  BY ItemsInSeq DEF TypeOK
<1>3. /\ rest \in Seq(Commit) /\ rest # <<>> /\ b \in Commit /\ b \in Items(twos)
      /\ Items(rest) = {b} \cup Items(rest') /\ result = <<>>
  BY <1>1, HeadAndTail DEF RestInCommits, Seeding
<1>4. \A c \in Commit : flags'[c] = IF c = b THEN flags[c] \cup {"PARENT2"} ELSE flags[c]
  BY <1>1, <1>2, <1>3
<1>5. Items(list') = Items(list) \cup {b}
  BY <1>1, <1>2, <1>3, InsertedRight
<1>6. FlagsTrue /\ Seeding /\ Painting
  BY <1>1 DEF Painting
<1>7. FlagsTrue'
  <2>1. \A c \in Commit : flags[c] \subseteq Both
    BY <1>1 DEF Seeding
  <2>2. \A c \in Commit : "STALE" \notin flags'[c] /\ "RESULT" \notin flags'[c]
    <3>1. ASSUME NEW c \in Commit PROVE flags'[c] \subseteq flags[c] \cup {"PARENT2"}
      BY ONLY <1>4, c \in Commit
    <3>2. QED BY ONLY <2>1, <3>1 DEF Both
  <2>3. \A c \in Commit : "PARENT1" \in flags'[c] => Reach(history, one, c)
    BY <1>4, <1>6 DEF FlagsTrue
  <2>4. \A c \in Commit : "PARENT2" \in flags'[c] => \E a \in Items(twos) : Reach(history, a, c)
    BY <1>3, <1>4, <1>6, ReachSelf DEF FlagsTrue
  <2>5. QED BY <1>1, <2>2, <2>3, <2>4 DEF FlagsTrue
<1>8. /\ "PARENT1" \in flags'[one]
      /\ \A a \in Items(twos) : a \in Items(rest') \/ "PARENT2" \in flags'[a]
      /\ \A c \in Commit : flags'[c] \subseteq Both /\ (flags'[c] # {} <=> c \in Items(list'))
      /\ Items(rest') \subseteq Items(twos)
  <2>1. "PARENT1" \in flags'[one] /\ Items(rest') \subseteq Items(twos)
    BY <1>1, <1>2, <1>3, <1>4, <1>6 DEF Seeding
  <2>2. \A a \in Items(twos) : a \in Items(rest') \/ "PARENT2" \in flags'[a]
    BY <1>1, <1>2, <1>3, <1>4, <1>6 DEF Seeding
  <2>3. ASSUME NEW c \in Commit
        PROVE  flags'[c] \subseteq Both /\ (flags'[c] # {} <=> c \in Items(list'))
    <3>1. flags[c] \subseteq Both /\ (flags[c] # {} <=> c \in Items(list))
      BY <1>1, <1>6 DEF Seeding
    <3>2. CASE c = b
      <4>1. flags'[c] = flags[c] \cup {"PARENT2"}
        BY <1>4, <3>2
      <4>2. c \in Items(list')
        BY <1>5, <3>2
      <4>3. QED BY <3>1, <4>1, <4>2 DEF Both
    <3>3. CASE c # b
      BY <1>4, <1>5, <3>1, <3>3
    <3>4. QED BY <3>2, <3>3
  <2>4. QED BY <2>1, <2>2, <2>3
<1>9. Seeding'
  BY <1>1, <1>3, <1>8 DEF Seeding
<1>10. PassedOn'
  <2>1. CASE rest' # <<>>
    BY <1>1, <2>1 DEF PassedOn
  <2>2. CASE rest' = <<>>
    <3>1. Items(rest') = {} /\ Items(result') = {} /\ Distinct(result')
      BY <1>1, <1>3, <2>2, NoItems
    <3>2. {c \in Commit : "RESULT" \in flags'[c]} = {}
      BY <1>8 DEF Both
    <3>3. Items(list') \subseteq Commit
      BY ItemsInSeq DEF TypeOK
    <3>4. QED BY <1>1, <1>8, <2>2, <3>1, <3>2, <3>3 DEF PassedOn
  <2>3. QED BY <2>1, <2>2
<1>11. Clearing'
  <2>1. Rooted(history, flags, {one} \cup Items(twos))
    BY <1>6 DEF Clearing
  <2>2. Rooted(history, flags', {one} \cup Items(twos))
    <3>1. {"PARENT2"} \in SUBSET Flag
      BY DEF Flag
    <3>2. QED BY <1>1, <1>2, <1>3, <2>1, <3>1, RootedGrows
  <2>3. QED BY <1>1, <2>2 DEF Clearing
<1>12. ArgumentsRight' /\ Comparing'
  BY <1>1, CallerStays DEF Inside
<1>13. QED
  BY <1>1, <1>7, <1>9, <1>10, <1>11, <1>12
     DEF Starting, Cleaning, Unmarked, Gathering, BasesRight

LEMMA RootedSame ==
  ASSUME NEW h, NEW f, NEW g, NEW R, Rooted(h, f, R),
         \A c \in Commit : f[c] = {} <=> g[c] = {}
  PROVE  Rooted(h, g, R)
BY DEF Rooted

LEMMA PassedOnFlags ==
  ASSUME NEW f \in SUBSET Flag
  PROVE  /\ f \subseteq passed_on(f) \cup {"RESULT"} /\ "RESULT" \notin passed_on(f)
         /\ passed_on(f \cup {"RESULT"}) = passed_on(f)
         /\ passed_on(f) \subseteq f \cup {"STALE"}
         /\ "STALE" \in passed_on(f) => "STALE" \in f \/ Both \subseteq f
         /\ passed_on(f) \subseteq Flag
<1>1. (f \cup {"RESULT"}) \ {"RESULT"} = f \ {"RESULT"}
  OBVIOUS
<1>2. QED BY <1>1 DEF passed_on, Both, Flag

LEMMA PopStep ==
  ASSUME IInv, TypeOK', RestInCommits', Pop
  PROVE  IInv'
<1> DEFINE c == Head(list)
<1> DEFINE found == flags[c] = Both
<1>1. /\ pc = "loop" /\ pc' = "loop" /\ rest = <<>>
      /\ UNCHANGED <<history, call, one, twos, rslt, i, j>>
      /\ item' = c /\ list' = Tail(list) /\ paint' = passed_on(flags[c])
      /\ flags' = (IF found THEN [flags EXCEPT ![c] = @ \cup {"RESULT"}] ELSE flags)
      /\ result' = (IF found THEN inserted(c, result) ELSE result)
      /\ rest' = history.parents[c]
  BY DEF Pop
<1>2. /\ history \in Histories /\ one \in Commit /\ flags \in [Commit -> SUBSET Flag]
      /\ twos \in Seq(Commit) /\ Items(twos) \subseteq Commit /\ list \in Seq(Commit)
      /\ result \in Seq(Commit)
  BY ItemsInSeq DEF IInv, TypeOK
<1>3. list # <<>>
  BY NoItems DEF Pop, interesting
<1>4. c \in Commit /\ Items(list) = {c} \cup Items(list') /\ Items(list') \subseteq Commit
  <2>1. c \in Commit /\ Tail(list) \in Seq(Commit) /\ Items(list) = {c} \cup Items(Tail(list))
    BY <1>2, <1>3, HeadAndTail
  <2>2. Items(Tail(list)) \subseteq Commit
    BY <2>1, ItemsInSeq
  <2>3. QED BY <1>1, <2>1, <2>2
<1>5. /\ \A x \in Commit : flags'[x] = IF found /\ x = c THEN flags[x] \cup {"RESULT"} ELSE flags[x]
      /\ \A x \in Commit : flags[x] \subseteq flags'[x]
  BY <1>1, <1>2, <1>4
<1>6. PassedOn /\ FlagsTrue /\ Clearing /\ Painting
  BY <1>1 DEF IInv, Painting
<1>7. flags[c] # {} /\ flags[c] \in SUBSET Flag /\ flags'[c] \in SUBSET Flag
  BY <1>1, <1>2, <1>4, <1>6 DEF PassedOn, IInv, TypeOK
<1>8. \A x \in Commit : flags[x] = {} <=> flags'[x] = {}
  BY <1>5, <1>7
<1>9. FlagsTrue'
  <2>1. ASSUME NEW x \in Commit
        PROVE  /\ \A F \in Flag \ {"RESULT"} : F \in flags'[x] <=> F \in flags[x]
               /\ "RESULT" \in flags'[x] => Both \subseteq flags'[x]
    <3>1. "RESULT" \in flags[x] => Both \subseteq flags[x]
      BY <1>6 DEF FlagsTrue
    <3>2. QED BY <1>5, <3>1
  <2>2. "PARENT1" \in Flag \ {"RESULT"} /\ "PARENT2" \in Flag \ {"RESULT"} /\ "STALE" \in Flag \ {"RESULT"}
    BY DEF Flag
  <2>3. \A x \in Commit : "PARENT1" \in flags'[x] => Reach(history, one, x)
    BY <1>6, <2>1, <2>2 DEF FlagsTrue
  <2>4. \A x \in Commit : "PARENT2" \in flags'[x] => \E b \in Items(twos) : Reach(history, b, x)
    BY <1>6, <2>1, <2>2 DEF FlagsTrue
  <2>5. \A x \in Commit : "STALE" \in flags'[x] =>
          /\ Both \subseteq flags'[x]
          /\ \E d \in Common(history, one, twos) : d # x /\ Reach(history, d, x)
    BY <1>5, <1>6, <2>1, <2>2 DEF FlagsTrue
  <2>6. QED BY <1>1, <2>1, <2>3, <2>4, <2>5 DEF FlagsTrue
<1>10. PassedOn'
  <2>1. "PARENT1" \in flags'[one] /\ \A b \in Items(twos) : "PARENT2" \in flags'[b]
    BY <1>1, <1>2, <1>5, <1>6 DEF PassedOn
  <2>2. paint' = passed_on(flags'[c]) /\ flags'[c] # {}
    <3>1. flags'[c] = flags[c] \/ flags'[c] = flags[c] \cup {"RESULT"}
      BY <1>4, <1>5
    <3>2. QED BY <1>1, <1>7, <3>1, PassedOnFlags
  <2>3. \A x \in Items(list') : flags'[x] # {}
    BY <1>1, <1>4, <1>6, <1>8 DEF PassedOn
  <2>4. ASSUME NEW x \in Commit, flags'[x] # {}, x \notin Items(list')
        PROVE  /\ \A p \in Items(history.parents[x]) :
                    passed_on(flags'[x]) \subseteq flags'[p] \/ (x = c /\ p \in Items(rest'))
               /\ flags'[x] # Both
    <3>1. CASE x = c
      <4>1. flags'[x] # Both
        <5>1. "RESULT" \notin Both
          BY DEF Both
        <5>2. CASE found
          <6>1. "RESULT" \in flags'[x]
            BY <1>5, <3>1, <5>2
          <6>2. QED BY <5>1, <6>1
        <5>3. CASE ~found
          BY <1>5, <3>1, <5>3
        <5>4. QED BY <5>2, <5>3
      <4>2. QED BY <1>1, <3>1, <4>1
    <3>2. CASE x # c
      <4>1. flags'[x] = flags[x] /\ flags[x] # {} /\ x \notin Items(list)
        BY <1>4, <1>5, <2>4, <3>2
      <4>2. Items(rest) = {}
        BY <1>1, NoItems
      <4>3. /\ \A p \in Parents(x) : passed_on(flags[x]) \subseteq flags[p]
            /\ flags[x] # Both
        BY <1>1, <1>6, <4>1, <4>2 DEF PassedOn
      <4>4. Parents(x) \subseteq Commit
        BY <1>2, ParentsAreCommits DEF Parents
      <4>5. QED BY <1>5, <4>1, <4>3, <4>4 DEF Parents
    <3>3. QED BY <3>1, <3>2
  <2>5. Items(result') = {x \in Commit : "RESULT" \in flags'[x]} /\ Distinct(result')
    <3>1. Items(result) = {x \in Commit : "RESULT" \in flags[x]} /\ Distinct(result)
      BY <1>1, <1>6 DEF PassedOn
    <3>2. CASE found
      <4>1. c \notin Items(result)
        BY <3>1, <3>2 DEF Both
      <4>2. Items(inserted(c, result)) = Items(result) \cup {c} /\ Distinct(inserted(c, result))
        BY <1>2, <1>4, <3>1, <4>1, InsertedRight
      <4>3. result' = inserted(c, result)
        BY <1>1, <3>2
      <4>4. \A x \in Commit : "RESULT" \in flags'[x] <=> x = c \/ "RESULT" \in flags[x]
        BY <1>5, <3>2
      <4>5. QED BY <1>4, <3>1, <4>2, <4>3, <4>4
    <3>3. CASE ~found
      BY <1>1, <3>1, <3>3
    <3>4. QED BY <3>2, <3>3
  <2>6. Items(rest') \subseteq Items(history.parents[c])
    BY <1>1
  <2>7. QED
    BY <1>1, <2>1, <2>2, <2>3, <2>4, <2>5, <2>6 DEF PassedOn, Parents
<1>11. Clearing'
  <2>1. Rooted(history, flags, {one} \cup Items(twos))
    BY <1>6 DEF Clearing
  <2>2. Rooted(history, flags', {one} \cup Items(twos))
    BY ONLY <1>8, <2>1, RootedSame
  <2>3. QED BY <1>1, <2>2 DEF Clearing
<1>12. ArgumentsRight' /\ Comparing'
  BY <1>1, CallerStays DEF Inside
<1>13. QED
  BY <1>1, <1>9, <1>10, <1>11, <1>12
     DEF IInv, Starting, Seeding, Cleaning, Unmarked, Gathering, BasesRight

LEMMA PaintParentStep ==
  ASSUME IInv, TypeOK', RestInCommits', PaintParent
  PROVE  IInv'
<1> DEFINE p == Head(rest)
<1>1. /\ pc = "loop" /\ pc' = "loop" /\ rest # <<>> /\ rest' = Tail(rest)
      /\ UNCHANGED <<history, call, one, twos, result, item, paint, rslt, i, j>>
      /\ IF done(p) THEN UNCHANGED <<flags, list>>
         ELSE /\ flags' = [flags EXCEPT ![p] = @ \cup paint]
              /\ list' = inserted(p, list)
  BY DEF PaintParent
<1>2. /\ history \in Histories /\ one \in Commit /\ flags \in [Commit -> SUBSET Flag]
      /\ twos \in Seq(Commit) /\ Items(twos) \subseteq Commit /\ list \in Seq(Commit)
      /\ item \in Commit /\ rest \in Seq(Commit) /\ Items(list) \subseteq Commit
  BY <1>1, ItemsInSeq DEF IInv, TypeOK, RestInCommits
<1>3. p \in Commit /\ Items(rest) = {p} \cup Items(rest')
  BY <1>1, <1>2, HeadAndTail
<1>4. PassedOn /\ FlagsTrue /\ Clearing /\ Painting
  BY <1>1 DEF IInv, Painting
<1>5. /\ paint = passed_on(flags[item]) /\ flags[item] # {} /\ flags[item] \in SUBSET Flag
      /\ Items(rest) \subseteq Parents(item) /\ p \in Items(history.parents[item])
  BY <1>1, <1>2, <1>3, <1>4 DEF PassedOn, Parents
<1>6. p # item
  BY <1>2, <1>5, NoOwnParent
<1>7. \A x \in Commit : flags'[x] = IF x = p THEN flags[x] \cup paint ELSE flags[x]
  BY <1>1, <1>2, <1>3 DEF done
<1>8. /\ Items(list) \subseteq Items(list') /\ Items(list') \subseteq Items(list) \cup {p}
      /\ p \in Items(list') \/ (done(p) /\ flags' = flags)
      /\ Items(list') = Items(list) \/ (p \in Items(list') /\ ~done(p))
  <2>1. Items(inserted(p, list)) = Items(list) \cup {p}
    BY <1>2, <1>3, InsertedRight
  <2>2. QED BY <1>1, <2>1
<1>9. "RESULT" \notin paint /\ paint \in SUBSET Flag
  BY <1>5, PassedOnFlags
<1>10. FlagsTrue'
  <2>1. "PARENT1" \in paint => Reach(history, one, p)
    <3>1. "PARENT1" \in paint => "PARENT1" \in flags[item]
      BY <1>5, PassedOnFlags
    <3>2. QED BY <1>2, <1>4, <1>5, <3>1, ReachParent DEF FlagsTrue
  <2>2. "PARENT2" \in paint => \E b \in Items(twos) : Reach(history, b, p)
    <3>1. "PARENT2" \in paint => "PARENT2" \in flags[item]
      BY <1>5, PassedOnFlags
    <3>2. QED BY <1>2, <1>4, <1>5, <3>1, ReachParent DEF FlagsTrue
  <2>3. ASSUME "STALE" \in paint
        PROVE  /\ Both \subseteq paint
               /\ \E d \in Common(history, one, twos) : d # p /\ Reach(history, d, p)
    <3>1. Both \subseteq flags[item]
      BY <1>2, <1>4, <1>5, <2>3, PassedOnFlags DEF FlagsTrue
    <3>2. Both \subseteq paint
      <4>1. flags[item] \subseteq paint \cup {"RESULT"}
        BY <1>5, PassedOnFlags
      <4>2. QED BY <3>1, <4>1 DEF Both
    <3>3. Reach(history, item, p)
      BY <1>5, ReachSelf, ReachParent
    <3>4. CASE "STALE" \in flags[item]
      <4>1. PICK d \in Common(history, one, twos) : d # item /\ Reach(history, d, item)
        BY <1>2, <1>4, <3>4 DEF FlagsTrue
      <4>2. d \in Commit
        BY DEF Common
      <4>3. Reach(history, d, p) /\ d # p
        BY <1>2, <1>3, <1>6, <3>3, <4>1, <4>2, ReachTransitive, ReachAntisymmetric
      <4>4. QED BY <3>2, <4>3
    <3>5. CASE "STALE" \notin flags[item]
      <4>1. Reach(history, one, item) /\ \E b \in Items(twos) : Reach(history, b, item)
        BY <1>2, <1>4, <3>1 DEF FlagsTrue, Both
      <4>2. item \in Common(history, one, twos)
        BY <1>2, <4>1 DEF Common
      <4>3. QED BY <1>6, <3>2, <3>3, <4>2
    <3>6. QED BY <3>4, <3>5
  <2>4. ASSUME NEW x \in Commit
        PROVE  /\ "PARENT1" \in flags'[x] => Reach(history, one, x)
               /\ "PARENT2" \in flags'[x] => \E b \in Items(twos) : Reach(history, b, x)
               /\ "STALE" \in flags'[x] =>
                    /\ Both \subseteq flags'[x]
                    /\ \E d \in Common(history, one, twos) : d # x /\ Reach(history, d, x)
               /\ "RESULT" \in flags'[x] => Both \subseteq flags'[x]
    <3>1. /\ "PARENT1" \in flags[x] => Reach(history, one, x)
          /\ "PARENT2" \in flags[x] => \E b \in Items(twos) : Reach(history, b, x)
          /\ "STALE" \in flags[x] =>
               /\ Both \subseteq flags[x]
               /\ \E d \in Common(history, one, twos) : d # x /\ Reach(history, d, x)
          /\ "RESULT" \in flags[x] => Both \subseteq flags[x]
      BY <1>4 DEF FlagsTrue
    <3>2. CASE x # p
      BY <1>7, <3>1, <3>2
    <3>3. CASE x = p
      <4>1. flags'[x] = flags[x] \cup paint
        BY <1>7, <3>3
      <4>2. QED BY <1>9, <2>1, <2>2, <2>3, <3>1, <3>3, <4>1
    <3>4. QED BY <3>2, <3>3
  <2>5. QED BY <1>1, <2>4 DEF FlagsTrue
<1>11. PassedOn'
  <2>1. "PARENT1" \in flags'[one] /\ \A b \in Items(twos) : "PARENT2" \in flags'[b]
    BY <1>1, <1>2, <1>4, <1>7 DEF PassedOn
  <2>2. /\ paint' = passed_on(flags'[item]) /\ flags'[item] # {}
        /\ Items(rest') \subseteq Items(history.parents[item])
    BY <1>1, <1>2, <1>3, <1>5, <1>6, <1>7 DEF Parents
  <2>3. \A x \in Items(list') : flags'[x] # {}
    <3>1. \A x \in Items(list) : flags[x] # {}
      BY <1>1, <1>4 DEF PassedOn
    <3>2. \A x \in Items(list) : flags'[x] # {}
      BY <1>2, <1>7, <3>1
    <3>3. ~done(p) => flags'[p] # {}
      BY <1>3, <1>7 DEF done
    <3>4. QED BY <1>8, <3>2, <3>3
  <2>4. ASSUME NEW x \in Commit, flags'[x] # {}, x \notin Items(list')
        PROVE  /\ \A q \in Items(history.parents[x]) :
                    passed_on(flags'[x]) \subseteq flags'[q] \/ (x = item /\ q \in Items(rest'))
               /\ flags'[x] # Both
    <3>1. flags'[x] = flags[x] /\ x \notin Items(list)
      BY <1>7, <1>8, <2>4
    <3>2. /\ \A q \in Parents(x) : \/ passed_on(flags[x]) \subseteq flags[q]
                                   \/ x = item /\ q \in Items(rest)
          /\ flags[x] # Both
      BY <1>1, <1>4, <2>4, <3>1 DEF PassedOn
    <3>3. ASSUME NEW q \in Items(history.parents[x])
          PROVE  passed_on(flags'[x]) \subseteq flags'[q] \/ (x = item /\ q \in Items(rest'))
      <4>1. q \in Commit
        BY <1>2, ParentsAreCommits
      <4>2. flags[q] \subseteq flags'[q]
        BY <1>7, <4>1
      <4>3. CASE passed_on(flags[x]) \subseteq flags[q]
        BY <3>1, <4>2, <4>3
      <4>4. CASE x = item /\ q \in Items(rest)
        <5>1. CASE q = p
          BY <1>3, <1>5, <1>7, <3>1, <4>4, <5>1
        <5>2. CASE q # p
          BY <1>3, <4>4, <5>2
        <5>3. QED BY <5>1, <5>2
      <4>5. QED BY <3>2, <4>3, <4>4 DEF Parents
    <3>4. QED BY <3>1, <3>2, <3>3
  <2>5. Items(result') = {x \in Commit : "RESULT" \in flags'[x]} /\ Distinct(result')
    <3>1. \A x \in Commit : "RESULT" \in flags'[x] <=> "RESULT" \in flags[x]
      BY <1>7, <1>9
    <3>2. Items(result) = {x \in Commit : "RESULT" \in flags[x]} /\ Distinct(result)
      BY <1>1, <1>4 DEF PassedOn
    <3>3. QED BY <1>1, <3>1, <3>2
  <2>6. QED
    BY <1>1, <2>1, <2>2, <2>3, <2>4, <2>5 DEF PassedOn, Parents
<1>12. Clearing'
  <2>1. Rooted(history, flags, {one} \cup Items(twos))
    BY <1>4 DEF Clearing
  <2>2. {one} \cup Items(twos) \in SUBSET Commit
    BY <1>2
  <2>3. Rooted(history, [flags EXCEPT ![p] = @ \cup paint], {one} \cup Items(twos))
    BY <1>2, <1>3, <1>5, <1>9, <2>1, <2>2, RootedGrows
  <2>4. Rooted(history, flags', {one} \cup Items(twos))
    BY <1>1, <2>1, <2>3
  <2>5. QED BY <1>1, <2>4 DEF Clearing
<1>13. ArgumentsRight' /\ Comparing'
  BY <1>1, CallerStays DEF Inside
<1>14. QED
  BY <1>1, <1>10, <1>11, <1>12, <1>13
     DEF IInv, Starting, Seeding, Cleaning, Unmarked, Gathering, BasesRight

\* What is painted on one commit comes to every ancestor that all commits on the way pass it on to.
LEMMA Carried ==
  ASSUME NEW h \in Histories, NEW f, NEW F, NEW a \in Commit, NEW x \in Commit,
         Reach(h, a, x), F \in f[a],
         \A c \in Commit : F \in f[c] /\ Reach(h, c, x) => \A p \in Items(h.parents[c]) : F \in f[p]
  PROVE  F \in f[x]
<1> DEFINE S == {c \in Commit : Reach(h, c, x) => F \in f[c]}
<1>1. S \in SUBSET Commit /\ a \in S
  OBVIOUS
<1>2. ASSUME NEW c \in S, NEW p \in Items(h.parents[c]) PROVE p \in S
  <2>1. p \in Commit
    BY ParentsAreCommits
  <2>2. ASSUME Reach(h, p, x) PROVE F \in f[p]
    <3>1. Reach(h, c, p)
      BY ReachSelf, ReachParent
    <3>2. Reach(h, c, x)
      BY <2>2, <3>1, ReachTransitive
    <3>3. QED BY <3>2
  <2>3. QED BY <2>1, <2>2
<1>3. Closed(h, S)
  BY <1>2 DEF Closed
<1>4. x \in S
  BY <1>1, <1>3 DEF Reach
<1>5. QED BY <1>4, ReachSelf

LEMMA EndLoopStep ==
  ASSUME IInv, TypeOK', RestInCommits', EndLoop
  PROVE  IInv'
<1>1. /\ pc = "loop" /\ pc' = "clean" /\ rest = <<>> /\ ~interesting
      /\ list' = <<>> /\ rest' = result /\ result' = <<>>
      /\ UNCHANGED <<history, call, one, twos, flags, rslt, i, j>>
  BY DEF EndLoop
<1>2. /\ history \in Histories /\ one \in Commit /\ flags \in [Commit -> SUBSET Flag]
      /\ twos \in Seq(Commit) /\ Items(twos) \subseteq Commit /\ Items(result) \subseteq Commit
  BY ItemsInSeq DEF IInv, TypeOK
<1>3. PassedOn /\ FlagsTrue /\ Clearing /\ Painting
  BY <1>1 DEF IInv, Painting
<1>4. FlagsTrue'
  BY <1>1, <1>3 DEF FlagsTrue, Painting
<1>5. Best(history, one, twos) \subseteq Fresh
  <2> SUFFICES ASSUME NEW x \in Best(history, one, twos) PROVE x \in Fresh
    OBVIOUS
  <2>1. x \in Common(history, one, twos) /\ x \in Commit
    BY BestIsCommon
  <2>2. ASSUME NEW c \in Commit, Reach(history, c, x) PROVE "STALE" \notin flags[c]
    <3> SUFFICES ASSUME "STALE" \in flags[c] PROVE FALSE
      OBVIOUS
    <3>1. PICK d \in Common(history, one, twos) : d # c /\ Reach(history, d, c)
      BY <1>3 DEF FlagsTrue
    <3>2. d = x
      BY <2>2, <3>1, ReachTransitive DEF Best
    <3>3. QED BY <1>2, <2>1, <2>2, <3>1, <3>2, ReachAntisymmetric
  <2>3. ASSUME NEW c \in Commit, Reach(history, c, x), flags[c] # {}
        PROVE  /\ flags[c] # Both
               /\ \A p \in Items(history.parents[c]) : passed_on(flags[c]) \subseteq flags[p]
    <3>1. c \notin Items(list)
      BY <1>1, <2>2, <2>3 DEF interesting
    <3>2. Items(rest) = {}
      BY <1>1, NoItems
    <3>3. QED BY <1>1, <1>3, <2>3, <3>1, <3>2 DEF PassedOn, Parents
  <2>4. ASSUME NEW F \in Both, NEW a \in Commit, F \in flags[a], Reach(history, a, x)
        PROVE  F \in flags[x]
    <3>1. ASSUME NEW c \in Commit, F \in flags[c], Reach(history, c, x),
                 NEW p \in Items(history.parents[c])
          PROVE  F \in flags[p]
      <4>1. passed_on(flags[c]) \subseteq flags[p] /\ flags[c] \in SUBSET Flag
        BY <1>2, <2>3, <3>1
      <4>2. F \in passed_on(flags[c])
        BY <3>1, <4>1, PassedOnFlags DEF Both
      <4>3. QED BY <4>1, <4>2
    <3>2. QED BY ONLY <1>2, <2>1, <2>4, <3>1, Carried
  <2>5. "PARENT1" \in flags[x]
    <3>1. "PARENT1" \in flags[one] /\ Reach(history, one, x)
      BY <1>1, <1>3, <2>1 DEF PassedOn, Common
    <3>2. QED BY <1>2, <2>4, <3>1 DEF Both
  <2>6. "PARENT2" \in flags[x]
    <3>1. PICK b \in Items(twos) : Reach(history, b, x)
      BY <2>1 DEF Common
    <3>2. "PARENT2" \in flags[b] /\ b \in Commit
      BY <1>1, <1>2, <1>3 DEF PassedOn
    <3>3. QED BY <2>4, <3>1, <3>2 DEF Both
  <2>7. "STALE" \notin flags[x] /\ flags[x] # Both
    BY <2>1, <2>2, <2>3, <2>5, ReachSelf
  <2>8. "RESULT" \in flags[x]
    <3>1. flags[x] \subseteq Flag
      BY <1>2, <2>1
    <3>2. QED BY <2>5, <2>6, <2>7, <3>1 DEF Flag, Both
  <2>9. QED BY <2>1, <2>7, <2>8 DEF Fresh
<1>6. Cleaning'
  <2>1. Items(result) = {c \in Commit : "RESULT" \in flags[c]} /\ Distinct(result)
    BY <1>1, <1>3 DEF PassedOn
  <2>2. {c \in Items(result) : "STALE" \notin flags[c]} = Fresh
    BY <2>1 DEF Fresh
  <2>3. Items(<<>>) = {} /\ Distinct(<<>>)
    BY NoItems
  <2>4. Fresh' = Fresh
    BY <1>1 DEF Fresh
  <2>5. /\ Items(result') = {} /\ Distinct(result') /\ Items(rest') = Items(result)
        /\ Distinct(rest')
    BY <1>1, <2>1, <2>3
  <2>6. /\ Best(history', one', twos') \subseteq Fresh'
        /\ Items(result') \cup {c \in Items(rest') : "STALE" \notin flags'[c]} = Fresh'
        /\ Items(result') \cap Items(rest') = {}
    BY <1>1, <1>5, <2>2, <2>4, <2>5
  <2>7. QED BY <2>5, <2>6 DEF Cleaning
<1>7. Clearing'
  <2>1. Rooted(history, flags, {one} \cup Items(twos))
    BY <1>3 DEF Clearing
  <2>2. QED BY <1>1, <2>1 DEF Clearing
<1>8. ArgumentsRight' /\ Comparing'
  BY <1>1, CallerStays DEF Inside
<1>9. QED
  BY <1>1, <1>4, <1>6, <1>7, <1>8
     DEF IInv, Starting, Seeding, PassedOn, Unmarked, Gathering, BasesRight

LEMMA CleanStep ==
  ASSUME IInv, TypeOK', RestInCommits', Clean
  PROVE  IInv'
<1> DEFINE c == Head(rest)
<1>1. /\ pc = "clean" /\ UNCHANGED <<history, call, one, twos, flags, rslt, i, j>>
      /\ IF rest # <<>>
         THEN /\ result' = (IF "STALE" \in flags[c] THEN result ELSE inserted(c, result))
              /\ rest' = Tail(rest) /\ pc' = "clean"
         ELSE rest' = <<one>> \o twos /\ pc' = "clear" /\ result' = result
  BY DEF Clean
<1>2. /\ history \in Histories /\ one \in Commit /\ flags \in [Commit -> SUBSET Flag]
      /\ twos \in Seq(Commit) /\ Items(twos) \subseteq Commit /\ result \in Seq(Commit)
      /\ rest \in Seq(Commit)
  BY <1>1, ItemsInSeq DEF IInv, TypeOK, RestInCommits
<1>3. /\ Best(history, one, twos) \subseteq Fresh
      /\ Items(result) \cup {x \in Items(rest) : "STALE" \notin flags[x]} = Fresh
      /\ Items(result) \cap Items(rest) = {}
      /\ Distinct(result) /\ Distinct(rest)
  BY <1>1 DEF IInv, Cleaning
<1>4. FlagsTrue /\ Painting /\ Rooted(history, flags, {one} \cup Items(twos))
  BY <1>1 DEF IInv, Clearing, Painting
<1>5. ArgumentsRight' /\ Comparing'
  BY <1>1, CallerStays DEF Inside
<1>6. CASE rest # <<>>
  <2>1. /\ c \in Commit /\ Items(rest) = {c} \cup Items(rest')
        /\ Distinct(rest') /\ c \notin Items(rest')
    <3>1. c \in Commit /\ Items(rest) = {c} \cup Items(Tail(rest))
      BY <1>2, <1>6, HeadAndTail
    <3>2. Distinct(Tail(rest)) /\ c \notin Items(Tail(rest))
      BY <1>2, <1>3, <1>6, TailDistinct
    <3>3. rest' = Tail(rest)
      BY <1>1, <1>6
    <3>4. QED BY <3>1, <3>2, <3>3
  <2>2. c \notin Items(result)
    BY <1>3, <2>1
  <2>3. Distinct(result') /\ Items(result') = Items(result) \cup {x \in {c} : "STALE" \notin flags[x]}
    <3>1. Items(inserted(c, result)) = Items(result) \cup {c} /\ Distinct(inserted(c, result))
      BY <1>2, <1>3, <2>1, <2>2, InsertedRight
    <3>2. QED BY <1>1, <1>3, <1>6, <3>1
  <2>4. Fresh' = Fresh
    BY <1>1 DEF Fresh
  <2>5. Items(result') \cup {x \in Items(rest') : "STALE" \notin flags[x]} = Fresh
    BY <1>3, <2>1, <2>3
  <2>6. Items(result') \cap Items(rest') = {}
    BY <1>3, <2>1, <2>3
  <2>7. Cleaning'
    BY <1>1, <1>3, <2>1, <2>3, <2>4, <2>5, <2>6 DEF Cleaning
  <2>8. FlagsTrue' /\ Clearing'
    BY <1>1, <1>4, <1>6 DEF FlagsTrue, Clearing, Painting
  <2>9. QED
    BY <1>1, <1>5, <1>6, <2>7, <2>8
       DEF IInv, Starting, Seeding, PassedOn, Unmarked, Gathering, BasesRight
<1>7. CASE rest = <<>>
  <2>1. pc' = "clear" /\ rest' = <<one>> \o twos /\ result' = result
    BY <1>1, <1>7
  <2>2. Items(result) = Fresh
    <3>1. Items(rest) = {}
      BY <1>7, NoItems
    <3>2. QED BY <1>3, <3>1
  <2>3. Items(rest') = {one} \cup Items(twos)
    <3>1. Len(twos) \in Nat /\ DOMAIN twos = 1..Len(twos)
      BY <1>2
    <3>2. /\ DOMAIN rest' = 1..(Len(twos) + 1) /\ rest'[1] = one
          /\ \A k \in 1..Len(twos) : rest'[k + 1] = twos[k] /\ k + 1 \in 1..(Len(twos) + 1)
      BY <1>2, <2>1, <3>1
    <3>3. \A k \in 1..(Len(twos) + 1) : k = 1 \/ (k - 1 \in 1..Len(twos) /\ rest'[k] = twos[k - 1])
      <4>1. \A k \in 1..(Len(twos) + 1) : k = 1 \/ (k - 1 \in 1..Len(twos) /\ (k - 1) + 1 = k)
        BY <3>1
      <4>2. QED BY <3>2, <4>1
    <3>4. 1 \in 1..(Len(twos) + 1)
      BY <3>1
    <3>5. Items(rest') = {rest'[k] : k \in 1..(Len(twos) + 1)}
      BY <3>2 DEF Items
    <3>6. Items(twos) = {twos[k] : k \in 1..Len(twos)}
      BY <3>1 DEF Items
    <3>7. ASSUME NEW x \in Items(rest') PROVE x \in {one} \cup Items(twos)
      <4>1. PICK k \in 1..(Len(twos) + 1) : x = rest'[k]
        BY <3>5, <3>7
      <4>2. QED BY <3>2, <3>3, <3>6, <4>1
    <3>8. ASSUME NEW x \in Items(twos) PROVE x \in Items(rest')
      BY <3>2, <3>5, <3>6, <3>8
    <3>9. one \in Items(rest')
      BY <3>2, <3>4, <3>5
    <3>10. QED BY <3>7, <3>8, <3>9
  <2>4. Fresh \subseteq Common(history, one, twos)
    <3>1. ASSUME NEW x \in Fresh
          PROVE  x \in Commit /\ Reach(history, one, x) /\ \E b \in Items(twos) : Reach(history, b, x)
      BY <1>4 DEF Fresh, FlagsTrue, Both
    <3>2. QED BY <3>1 DEF Common
  <2>5. Clearing'
    BY <1>1, <1>3, <1>4, <2>1, <2>2, <2>3, <2>4 DEF Clearing, Painting
  <2>6. QED
    BY <1>1, <1>5, <2>1, <2>5
       DEF IInv, Starting, Seeding, PassedOn, FlagsTrue, Cleaning, Unmarked, Gathering, BasesRight,
           Painting
<1>8. QED BY <1>6, <1>7

LEMMA ClearStep ==
  ASSUME IInv, TypeOK', RestInCommits', Clear
  PROVE  IInv'
<1> DEFINE r == Head(rest)
<1>1. /\ pc = "clear" /\ pc' = "clear" /\ rest # <<>> /\ rest' = Tail(rest)
      /\ flags' = [x \in Commit |-> IF x \in Visited(r) THEN {} ELSE flags[x]]
      /\ UNCHANGED <<history, call, one, twos, result, rslt, i, j>>
  BY DEF Clear, clear_commit_marks
<1>2. /\ rest \in Seq(Commit) /\ r \in Commit /\ Items(rest) = {r} \cup Items(rest')
      /\ history \in Histories
  BY <1>1, HeadAndTail DEF IInv, RestInCommits, TypeOK
<1>3. Rooted(history, flags, Items(rest))
  BY <1>1 DEF IInv, Clearing
<1>4. r \in Visited(r) /\ Visited(r) \subseteq Commit
  BY <1>2 DEF Visited
<1>5. \A y \in Visited(r) : flags[y] # {} => Items(history.parents[y]) \subseteq Visited(r)
  <2>1. ASSUME NEW y \in Visited(r), flags[y] # {}, NEW p \in Items(history.parents[y])
        PROVE  p \in Visited(r)
    <3>1. p \in Commit
      BY <1>2, <1>4, ParentsAreCommits
    <3>2. ASSUME NEW S \in SUBSET Commit, r \in S,
                 \A z \in S : flags[z] # {} => Parents(z) \subseteq S
          PROVE  p \in S
      <4>1. y \in S
        BY <3>2 DEF Visited
      <4>2. QED BY <2>1, <3>2, <4>1 DEF Parents
    <3>3. QED BY <3>1, <3>2 DEF Visited
  <2>2. QED BY <2>1
<1>6. Rooted(history, flags', Items(rest'))
  <2> SUFFICES ASSUME NEW S \in SUBSET Commit, Items(rest') \subseteq S,
                      \A y \in S : flags'[y] # {} => Items(history.parents[y]) \subseteq S,
                      NEW c \in Commit, flags'[c] # {}
               PROVE  c \in S
    BY DEF Rooted
  <2> DEFINE M == Visited(r)
  <2> HIDE DEF M
  <2>1. \A x \in Commit : flags'[x] = IF x \in M THEN {} ELSE flags[x]
    BY <1>1 DEF M
  <2>2. S \cup M \in SUBSET Commit /\ Items(rest) \subseteq S \cup M
    BY <1>2, <1>4 DEF M
  <2>3. \A y \in S \cup M : flags[y] # {} => Items(history.parents[y]) \subseteq S \cup M
    BY <1>5, <2>1 DEF M
  <2>4. c \notin M /\ flags[c] # {}
    BY <2>1
  <2>5. c \in S \cup M
    BY <1>3, <2>2, <2>3, <2>4 DEF Rooted
  <2>6. QED BY <2>4, <2>5
<1>7. Clearing'
  BY <1>1, <1>6 DEF IInv, Clearing, Painting
<1>8. ArgumentsRight' /\ Comparing'
  BY <1>1, CallerStays DEF Inside
<1>9. QED
  BY <1>1, <1>7, <1>8
     DEF IInv, Starting, Seeding, PassedOn, FlagsTrue, Cleaning, Unmarked, Gathering, BasesRight,
         Painting

----------------------------------------------------------------------------
\* The steps of its caller.

LEMMA AllCleared ==
  ASSUME IInv, pc = "clear", rest = <<>>
  PROVE  \A c \in Commit : flags[c] = {}
<1>1. Rooted(history, flags, {})
  BY NoItems DEF IInv, Clearing
<1>2. {} \in SUBSET Commit /\ {} \subseteq {}
  OBVIOUS
<1>3. QED BY <1>1, <1>2 DEF Rooted

LEMMA ReturnedStep ==
  ASSUME IInv, TypeOK', RestInCommits', Returned
  PROVE  IInv'
<1>1. /\ pc = "clear" /\ rest = <<>> /\ rslt = <<>>
      /\ UNCHANGED <<history, call, one, twos, flags, result>>
      /\ IF Len(result) <= 1 THEN pc' = "returned"
         ELSE rslt' = result /\ i' = 1 /\ j' = 2 /\ pc' = "pairs"
  BY DEF Returned
<1>2. /\ history \in Histories /\ result \in Seq(Commit) /\ call.one = one /\ call.twos = twos
      /\ one \in Commit /\ twos \in Seq(Commit)
  BY <1>1 DEF IInv, TypeOK, ArgumentsRight
<1>3. /\ Best(history, one, twos) \subseteq Items(result)
      /\ Items(result) \subseteq Common(history, one, twos) /\ Distinct(result)
  BY <1>1 DEF IInv, Clearing
<1>4. \A c \in Commit : flags'[c] = {}
  BY <1>1, AllCleared
<1>5. Len(result) \in Nat /\ DOMAIN result = 1..Len(result)
  BY <1>2
<1>6. CASE Len(result) <= 1
  <2>1. ASSUME NEW y \in Items(result) PROVE y \in Best(history, one, twos)
    <3>1. PICK z \in Best(history, one, twos) : Reach(history, z, y)
      BY <1>2, <1>3, BestAbove
    <3>2. z \in Items(result)
      BY <1>3
    <3>3. y = z
      <4>1. \A k, m \in DOMAIN result : k = m
        BY <1>5, <1>6
      <4>2. QED BY <2>1, <3>2, <4>1 DEF Items
    <3>4. QED BY <3>3
  <2>2. Items(result) = Best(history, one, twos)
    BY <1>3, <2>1
  <2>3. pc' = "returned" /\ call' = call /\ result' = result /\ history' = history
    BY <1>1, <1>6
  <2>4. BasesRight'
    BY <1>2, <1>3, <2>2, <2>3 DEF BasesRight, Distinct
  <2>5. QED
    BY <1>4, <2>3, <2>4
       DEF IInv, ArgumentsRight, Starting, Seeding, FlagsTrue, PassedOn, Cleaning, Clearing,
           Unmarked, Comparing, Gathering, Painting, Nested
<1>7. CASE Len(result) > 1
  <2>1. rslt' = result /\ i' = 1 /\ j' = 2 /\ pc' = "pairs" /\ call' = call /\ history' = history
    BY <1>1, <1>5, <1>7
  <2>2. i' < Len(rslt') => j' <= Len(rslt')
    BY <1>5, <2>1
  <2>3. \A k, m \in DOMAIN rslt' : rslt'[k] = rslt'[m] /\ rslt'[k] # Null => k = m
    BY <1>3, <2>1 DEF Distinct
  <2>4. Null \notin Items(result)
    BY <1>2, MergeBaseAssumption, ItemsInSeq
  <2>5. \A k, m \in DOMAIN rslt' : ~((k < i' \/ (k = i' /\ m < j')) /\ k < m)
    BY <1>5, <2>1
  <2>6. /\ Best(history', call'.one, call'.twos) \subseteq Items(rslt')
        /\ Items(rslt') \ {Null} \subseteq Common(history', call'.one, call'.twos)
    BY <1>2, <1>3, <2>1, <2>4
  <2>7. Comparing'
    BY <2>1, <2>2, <2>3, <2>5, <2>6 DEF Comparing
  <2>8. QED
    BY <1>4, <2>1, <2>7
       DEF IInv, ArgumentsRight, Starting, Seeding, FlagsTrue, PassedOn, Cleaning, Clearing,
           Unmarked, Gathering, BasesRight, Painting
<1>8. QED BY <1>5, <1>6, <1>7

\* NextPair leaves out no pair.
LEMMA NextPairRight ==
  ASSUME rslt \in Seq(Commit \cup {Null}), i \in Nat, j \in Nat, i' \in Nat, j' \in Nat,
         1 <= i, i < j, j <= Len(rslt), NextPair
  PROVE  /\ 1 <= i' /\ i' < j' /\ (i' < Len(rslt) => j' <= Len(rslt))
         /\ \A k, m \in 1..Len(rslt) :
              k < m /\ (k < i' \/ (k = i' /\ m < j')) =>
                k < i \/ (k = i /\ m < j) \/ (k = i /\ m = j)
<1>1. Len(rslt) \in Nat
  OBVIOUS
<1>2. CASE j < Len(rslt)
  <2>1. i' = i /\ j' = j + 1
    BY <1>2 DEF NextPair
  <2>2. QED BY <1>1, <1>2, <2>1
<1>3. CASE ~(j < Len(rslt))
  <2>1. i' = i + 1 /\ j' = i + 2
    BY <1>3 DEF NextPair
  <2>2. QED BY <1>1, <1>3, <2>1
<1>4. QED BY <1>2, <1>3

LEMMA ComparedStep ==
  ASSUME IInv, TypeOK', RestInCommits', Compared
  PROVE  IInv'
<1> DEFINE a == rslt[i]
<1> DEFINE b == rslt[j]
<1> DEFINE n == Len(rslt)
<1>1. /\ pc = "clear" /\ rest = <<>> /\ rslt # <<>> /\ pc' = "pairs" /\ NextPair
      /\ UNCHANGED <<history, call, flags>>
      /\ rslt' = [k \in DOMAIN rslt |-> IF k \in {i, j} /\ rslt[k] \in Items(result) THEN Null
                                        ELSE rslt[k]]
  BY DEF Compared
<1>2. /\ history \in Histories /\ rslt \in Seq(Commit \cup {Null}) /\ rslt' \in Seq(Commit \cup {Null})
      /\ i \in Nat /\ j \in Nat /\ i' \in Nat /\ j' \in Nat
      /\ n \in Nat /\ DOMAIN rslt = 1..n /\ DOMAIN rslt' = 1..n /\ Len(rslt') = n
  BY <1>1 DEF IInv, TypeOK
<1>3. Nested /\ j <= n /\ Null \notin {a, b} /\ one = a /\ twos = <<b>>
  BY <1>1 DEF IInv, ArgumentsRight, Nested
<1>4. /\ 1 <= i /\ i < j
      /\ \A k, m \in 1..n : rslt[k] = rslt[m] /\ rslt[k] # Null => k = m
      /\ Best(history, call.one, call.twos) \subseteq Items(rslt)
      /\ Items(rslt) \ {Null} \subseteq Common(history, call.one, call.twos)
      /\ \A k, m \in 1..n :
           /\ k < i \/ (k = i /\ m < j)
           /\ k < m /\ Null \notin {rslt[k], rslt[m]}
           => ~Reach(history, rslt[k], rslt[m]) /\ ~Reach(history, rslt[m], rslt[k])
  BY <1>2, <1>3 DEF IInv, Comparing
<1>5. i \in 1..n /\ j \in 1..n /\ i # j
  BY <1>2, <1>3, <1>4
<1>6. a \in Commit /\ b \in Commit /\ a # b
  BY <1>2, <1>3, <1>4, <1>5
<1>7. a \in Items(rslt) \ {Null} /\ b \in Items(rslt) \ {Null}
  BY <1>2, <1>3, <1>5 DEF Items
<1>8. a \in Common(history, call.one, call.twos) /\ b \in Common(history, call.one, call.twos)
  BY <1>4, <1>7
<1>9. Best(history, a, <<b>>) \subseteq Items(result) /\ Items(result) \subseteq Common(history, a, <<b>>)
  BY <1>1, <1>3 DEF IInv, Clearing
<1>10. a \in Items(result) <=> Reach(history, b, a)
  <2>1. ASSUME a \in Items(result) PROVE Reach(history, b, a)
    <3>1. Items(<<b>>) = {b}
      BY <1>6, SingleItem
    <3>2. QED BY <1>9, <2>1, <3>1 DEF Common
  <2>2. ASSUME Reach(history, b, a) PROVE a \in Items(result)
    <3>1. ~Reach(history, a, b)
      BY <1>2, <1>6, <2>2, ReachAntisymmetric
    <3>2. Best(history, a, <<b>>) = {a}
      BY <1>2, <1>6, <2>2, <3>1, BestOfAncestor
    <3>3. QED BY <1>9, <3>2
  <2>3. QED BY <2>1, <2>2
<1>11. b \in Items(result) <=> Reach(history, a, b)
  <2>1. ASSUME b \in Items(result) PROVE Reach(history, a, b)
    BY <1>9, <2>1 DEF Common
  <2>2. ASSUME Reach(history, a, b) PROVE b \in Items(result)
    <3>1. Best(history, a, <<b>>) = {b}
      BY <1>2, <1>6, <2>2, BestOfAncestor
    <3>2. QED BY <1>9, <3>1
  <2>3. QED BY <2>1, <2>2
<1>12. /\ \A k \in 1..n : rslt'[k] = rslt[k] \/ rslt'[k] = Null
       /\ \A k \in 1..n : rslt'[k] # rslt[k] => k \in {i, j} /\ rslt[k] \in Items(result)
       /\ \A k \in {i, j} : rslt[k] \in Items(result) => rslt'[k] = Null
  BY <1>1, <1>2, <1>5
<1>13. Best(history, call.one, call.twos) \subseteq Items(rslt')
  <2> SUFFICES ASSUME NEW x \in Best(history, call.one, call.twos) PROVE x \in Items(rslt')
    OBVIOUS
  <2>1. PICK k \in 1..n : rslt[k] = x
    BY <1>2, <1>4 DEF Items
  <2>2. rslt'[k] = x
    <3>1. ~(a = x /\ Reach(history, b, a)) /\ ~(b = x /\ Reach(history, a, b))
      BY <1>6, <1>8 DEF Best
    <3>2. QED BY <1>10, <1>11, <1>12, <2>1, <3>1
  <2>3. QED BY <1>2, <2>1, <2>2 DEF Items
<1>14. Items(rslt') \ {Null} \subseteq Items(rslt) \ {Null}
  BY <1>2, <1>12 DEF Items
<1>15. /\ 1 <= i' /\ i' < j' /\ (i' < n => j' <= n)
       /\ \A k, m \in 1..n :
            k < m /\ (k < i' \/ (k = i' /\ m < j')) =>
              k < i \/ (k = i /\ m < j) \/ (k = i /\ m = j)
  BY <1>1, <1>2, <1>3, <1>4, NextPairRight
<1>16. ASSUME NEW k \in 1..n, NEW m \in 1..n, k < i' \/ (k = i' /\ m < j'), k < m,
              Null \notin {rslt'[k], rslt'[m]}
       PROVE  ~Reach(history, rslt'[k], rslt'[m]) /\ ~Reach(history, rslt'[m], rslt'[k])
  <2>1. rslt'[k] = rslt[k] /\ rslt'[m] = rslt[m] /\ Null \notin {rslt[k], rslt[m]}
    BY <1>12, <1>16
  <2>2. CASE k < i \/ (k = i /\ m < j)
    BY <1>4, <1>16, <2>1, <2>2
  <2>3. CASE k = i /\ m = j
    <3>1. a \notin Items(result) /\ b \notin Items(result)
      BY <1>12, <1>16, <2>1, <2>3
    <3>2. QED BY <1>10, <1>11, <2>1, <2>3, <3>1
  <2>4. QED BY <1>15, <1>16, <2>2, <2>3
<1>17. \A k, m \in 1..n : rslt'[k] = rslt'[m] /\ rslt'[k] # Null => k = m
  BY <1>4, <1>12
<1>18. Comparing'
  BY <1>1, <1>2, <1>4, <1>13, <1>14, <1>15, <1>16, <1>17 DEF Comparing
<1>19. Unmarked'
  BY <1>1, AllCleared DEF Unmarked
<1>20. QED
  BY <1>1, <1>18, <1>19
     DEF IInv, ArgumentsRight, Starting, Seeding, FlagsTrue, PassedOn, Cleaning, Clearing,
         Gathering, BasesRight, Painting

LEMMA PairsStep ==
  ASSUME IInv, TypeOK', RestInCommits', Pairs
  PROVE  IInv'
<1> DEFINE n == Len(rslt)
<1>1. pc = "pairs" /\ UNCHANGED <<history, call, flags, rslt>>
  BY DEF Pairs
<1>2. /\ history \in Histories /\ rslt \in Seq(Commit \cup {Null})
      /\ i \in Nat /\ j \in Nat /\ i' \in Nat /\ j' \in Nat
      /\ n \in Nat /\ DOMAIN rslt = 1..n /\ call.one \in Commit /\ call.twos \in Seq(Commit)
  BY MergeBaseAssumption DEF IInv, TypeOK
<1>3. /\ 1 <= i /\ i < j /\ (i < n => j <= n)
      /\ \A k, m \in 1..n : rslt[k] = rslt[m] /\ rslt[k] # Null => k = m
      /\ Best(history, call.one, call.twos) \subseteq Items(rslt)
      /\ Items(rslt) \ {Null} \subseteq Common(history, call.one, call.twos)
      /\ \A k, m \in 1..n :
           /\ k < i \/ (k = i /\ m < j)
           /\ k < m /\ Null \notin {rslt[k], rslt[m]}
           => ~Reach(history, rslt[k], rslt[m]) /\ ~Reach(history, rslt[m], rslt[k])
  BY <1>1, <1>2 DEF IInv, Comparing
<1>4. \A c \in Commit : flags'[c] = {}
  BY <1>1 DEF IInv, Unmarked
<1>5. CASE i >= n
  <2>1. pc' = "gather" /\ rest' = rslt /\ result' = <<>>
    BY <1>5 DEF Pairs
  <2>2. ASSUME NEW y \in Items(rslt) \ {Null} PROVE y \in Best(history, call.one, call.twos)
    <3>1. PICK z \in Best(history, call.one, call.twos) : Reach(history, z, y)
      BY <1>2, <1>3, BestAbove
    <3>2. PICK k \in 1..n : rslt[k] = z
      BY <1>2, <1>3 DEF Items
    <3>3. PICK m \in 1..n : rslt[m] = y
      BY <1>2 DEF Items
    <3>4. z \in Commit /\ z # Null
      BY MergeBaseAssumption, BestIsCommon
    <3>5. k = m
      <4>1. CASE k < m
        BY <1>2, <1>3, <1>5, <2>2, <3>1, <3>2, <3>3, <3>4, <4>1
      <4>2. CASE m < k
        BY <1>2, <1>3, <1>5, <2>2, <3>1, <3>2, <3>3, <3>4, <4>2
      <4>3. QED BY <4>1, <4>2
    <3>6. QED BY <3>2, <3>3, <3>5
  <2>3. Null \notin Best(history, call.one, call.twos)
    BY MergeBaseAssumption, BestIsCommon
  <2>4. Items(<<>>) = {} /\ Distinct(<<>>)
    BY NoItems
  <2>5. /\ Items(result') = {} /\ Distinct(result')
        /\ Items(rest') \ {Null} = Best(history', call'.one, call'.twos)
    BY <1>1, <1>3, <2>1, <2>2, <2>3, <2>4
  <2>6. \A k, m \in DOMAIN rest' : rest'[k] = rest'[m] /\ rest'[k] # Null => k = m
    BY <1>2, <1>3, <2>1
  <2>7. Gathering'
    BY <2>5, <2>6 DEF Gathering
  <2>8. QED
    BY <1>4, <2>1, <2>7
       DEF IInv, ArgumentsRight, Starting, Seeding, FlagsTrue, PassedOn, Cleaning, Clearing,
           Unmarked, Comparing, BasesRight, Painting, Nested
<1>6. CASE i < n /\ Null \in {rslt[i], rslt[j]}
  <2>1. pc' = "pairs" /\ NextPair
    BY <1>1, <1>2, <1>6 DEF Pairs
  <2>2. /\ 1 <= i' /\ i' < j' /\ (i' < n => j' <= n)
        /\ \A k, m \in 1..n :
             k < m /\ (k < i' \/ (k = i' /\ m < j')) =>
               k < i \/ (k = i /\ m < j) \/ (k = i /\ m = j)
    BY <1>2, <1>3, <1>6, <2>1, NextPairRight
  <2>3. ASSUME NEW k \in 1..n, NEW m \in 1..n, k < i' \/ (k = i' /\ m < j'), k < m,
               Null \notin {rslt[k], rslt[m]}
        PROVE  ~Reach(history, rslt[k], rslt[m]) /\ ~Reach(history, rslt[m], rslt[k])
    BY <1>3, <1>6, <2>2, <2>3
  <2>4. Comparing'
    BY <1>1, <1>2, <1>3, <2>2, <2>3 DEF Comparing
  <2>5. QED
    BY <1>4, <2>1, <2>4
       DEF IInv, ArgumentsRight, Starting, Seeding, FlagsTrue, PassedOn, Cleaning, Clearing,
           Unmarked, Gathering, BasesRight, Painting
<1>7. CASE i < n /\ Null \notin {rslt[i], rslt[j]}
  <2>1. /\ one' = rslt[i] /\ twos' = <<rslt[j]>> /\ rest' = twos' /\ result' = <<>> /\ pc' = "one"
        /\ i' = i /\ j' = j
    BY <1>1, <1>2, <1>7 DEF Pairs, StartPainting
  <2>2. rslt # <<>>
    BY <1>2, <1>3, <1>7
  <2>3. ArgumentsRight'
    BY <1>1, <1>3, <1>7, <2>1, <2>2 DEF ArgumentsRight
  <2>4. Comparing'
    BY <1>1, <1>2, <1>3, <2>1 DEF Comparing
  <2>5. twos' # <<>>
    BY <2>1
  <2>6. QED
    BY <1>4, <2>1, <2>3, <2>4, <2>5
       DEF IInv, Starting, Seeding, FlagsTrue, PassedOn, Cleaning, Clearing, Unmarked,
           Gathering, BasesRight, Painting
<1>8. QED BY <1>2, <1>5, <1>6, <1>7

LEMMA TailDistinctButNull ==
  ASSUME NEW T, NEW s \in Seq(T), s # <<>>,
         \A k, m \in DOMAIN s : s[k] = s[m] /\ s[k] # Null => k = m
  PROVE  /\ \A k, m \in DOMAIN Tail(s) : Tail(s)[k] = Tail(s)[m] /\ Tail(s)[k] # Null => k = m
         /\ Head(s) # Null => Head(s) \notin Items(Tail(s))
<1>1. Len(s) \in Nat \ {0} /\ DOMAIN s = 1..Len(s)
  BY EmptySeq
<1>2. Head(s) = s[1] /\ Tail(s) \in Seq(T)
  BY <1>1
<1>3. Len(Tail(s)) = Len(s) - 1 /\ \A k \in 1..(Len(s) - 1) : Tail(s)[k] = s[k + 1]
  BY <1>1
<1>4. DOMAIN Tail(s) = 1..(Len(s) - 1)
  BY <1>2, <1>3
<1>5. \A k \in 1..(Len(s) - 1) : k + 1 \in 1..Len(s) /\ 1 \in 1..Len(s) /\ k + 1 # 1
  BY <1>1
<1>6. QED BY <1>1, <1>2, <1>3, <1>4, <1>5 DEF Items

LEMMA GatherStep ==
  ASSUME IInv, TypeOK', RestInCommits', Gather
  PROVE  IInv'
<1> DEFINE c == Head(rest)
<1>1. /\ pc = "gather" /\ UNCHANGED <<history, call, flags, rslt>>
      /\ IF rest # <<>>
         THEN /\ result' = (IF c = Null THEN result ELSE inserted(c, result))
              /\ rest' = Tail(rest) /\ pc' = "gather"
         ELSE pc' = "returned" /\ result' = result
  BY DEF Gather
<1>2. /\ history \in Histories /\ result \in Seq(Commit) /\ rest \in Seq(Commit \cup {Null})
      /\ Items(result) \subseteq Commit /\ Null \notin Commit
  BY ItemsInSeq, MergeBaseAssumption DEF IInv, TypeOK
<1>3. /\ Items(result) \cup (Items(rest) \ {Null}) = Best(history, call.one, call.twos)
      /\ Items(result) \cap Items(rest) = {} /\ Distinct(result)
      /\ \A k, m \in DOMAIN rest : rest[k] = rest[m] /\ rest[k] # Null => k = m
  BY <1>1 DEF IInv, Gathering
<1>4. \A x \in Commit : flags'[x] = {}
  BY <1>1 DEF IInv, Unmarked
<1>5. CASE rest # <<>>
  <2>1. /\ c \in Commit \cup {Null} /\ Items(rest) = {c} \cup Items(Tail(rest))
        /\ rest' = Tail(rest) /\ pc' = "gather"
    BY <1>1, <1>2, <1>5, HeadAndTail
  <2>2. /\ \A k, m \in DOMAIN rest' : rest'[k] = rest'[m] /\ rest'[k] # Null => k = m
        /\ c # Null => c \notin Items(rest')
    BY <1>2, <1>3, <1>5, <2>1, TailDistinctButNull
  <2>3. Items(result') = Items(result) \cup ({c} \ {Null}) /\ Distinct(result')
    <3>1. CASE c = Null
      BY <1>1, <1>3, <1>5, <3>1
    <3>2. CASE c # Null
      <4>1. c \in Commit /\ c \notin Items(result)
        BY <1>3, <2>1, <3>2
      <4>2. Items(inserted(c, result)) = Items(result) \cup {c} /\ Distinct(inserted(c, result))
        BY <1>2, <1>3, <4>1, InsertedRight
      <4>3. QED BY <1>1, <1>5, <3>2, <4>2
    <3>3. QED BY <3>1, <3>2
  <2>4. Items(result') \cup (Items(rest') \ {Null}) = Best(history', call'.one, call'.twos)
    BY <1>1, <1>3, <2>1, <2>3
  <2>5. Items(result') \cap Items(rest') = {}
    BY <1>3, <2>1, <2>2, <2>3
  <2>6. Gathering'
    BY <2>2, <2>3, <2>4, <2>5 DEF Gathering
  <2>7. QED
    BY <1>4, <2>1, <2>6
       DEF IInv, ArgumentsRight, Starting, Seeding, FlagsTrue, PassedOn, Cleaning, Clearing,
           Unmarked, Comparing, BasesRight, Painting, Nested
<1>6. CASE rest = <<>>
  <2>1. pc' = "returned" /\ result' = result
    BY <1>1, <1>6
  <2>2. Items(rest) = {}
    BY <1>6, NoItems
  <2>3. Items(result') = Best(history', call'.one, call'.twos) /\ Distinct(result')
    BY <1>1, <1>3, <2>1, <2>2
  <2>4. BasesRight'
    BY <2>3 DEF BasesRight, Distinct
  <2>5. QED
    BY <1>4, <2>1, <2>4
       DEF IInv, ArgumentsRight, Starting, Seeding, FlagsTrue, PassedOn, Cleaning, Clearing,
           Unmarked, Comparing, Gathering, Painting, Nested
<1>7. QED BY <1>5, <1>6

LEMMA IInvStep == IInv /\ [Next]_vars => IInv'
<1> SUFFICES ASSUME IInv, [Next]_vars PROVE IInv'
  OBVIOUS
<1>1. TypeOK' /\ RestInCommits'
  BY TypeStep
<1>2. CASE Step
  BY <1>1, <1>2, PaintOneStep, PaintTwoStep, PopStep, PaintParentStep, EndLoopStep, CleanStep,
     ClearStep, ReturnedStep, ComparedStep, PairsStep, GatherStep DEF Step
<1>3. CASE UNCHANGED vars
  <2>1. ArgumentsRight' /\ Starting' /\ Seeding' /\ FlagsTrue' /\ PassedOn'
    BY <1>3 DEF vars, IInv, ArgumentsRight, Starting, Seeding, FlagsTrue, PassedOn, Fresh, Parents,
                Painting, Nested, Unmarked
  <2>2. Cleaning' /\ Clearing' /\ Unmarked' /\ Comparing' /\ Gathering' /\ BasesRight'
    BY <1>3 DEF vars, IInv, Cleaning, Clearing, Unmarked, Comparing, Gathering, BasesRight,
                Painting, Nested, Fresh, Parents
  <2> QED BY <1>1, <2>1, <2>2 DEF IInv
<1>4. QED BY <1>1, <1>2, <1>3, CallStep DEF Next

LEMMA InvHolds == Spec => []IInv
<1>1. Init => IInv
  BY InitInv
<1>2. QED BY <1>1, IInvStep, PTL DEF Spec

\* The variables have their types (commit.c:590-776): lists and results are sequences of commits,
\* and rslt[] one of commits and NULLs.
THEOREM TypeCorrect == Spec => []TypeOK
<1>1. IInv => TypeOK
  BY DEF IInv
<1>2. QED BY <1>1, InvHolds, PTL

\* In every history, whatever dates its commits have, get_merge_bases_many() returns just the
\* common ancestors of one and any of the twos below which there is no better one, each once
\* (commit.c:712).
THEOREM BestFound == Spec => []BasesRight
<1>1. IInv => BasesRight
  BY DEF IInv
<1>2. QED BY <1>1, InvHolds, PTL

\* When get_merge_bases_many() has returned no commit has a flag of it (commit.c:728, :748, :756).
THEOREM MarksGone == Spec => []MarksCleared
<1>1. IInv => MarksCleared
  BY DEF IInv, Unmarked, MarksCleared
<1>2. QED BY <1>1, InvHolds, PTL
=============================================================================
