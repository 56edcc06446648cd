---------------------------- MODULE MCIndexPack ----------------------------
\* All packs of four objects, of which each is named by its place, and some longer ones: a base
\* with deltas at several depths that needs more than the cache; bases in the repository (5, 6).
\* None has an object twice, or one as a delta that the repository has and that is a base.
EXTENDS IndexPack

CONSTANTS A, B, C

base(n) == [name |-> n, type |-> "base", base |-> 0]
ref(n, b) == [name |-> n, type |-> "ref", base |-> b]
ofs(n, b) == [name |-> n, type |-> "ofs", base |-> b]

Entry(i) == {base(i)} \cup {ref(i, b) : b \in (1..5) \ {i}} \cup {ofs(i, b) : b \in 1..(i - 1)}

\* No object is made of itself.
Founded(q) ==
  LET up[i \in 1..Len(q), n \in 0..Len(q)] ==
        \/ q[i].type = "base" \/ q[i].base > Len(q)
        \/ n > 0 /\ up[q[i].base, n - 1]
  IN  \A i \in 1..Len(q) : up[i, Len(q)]

Small == {q \in {<<a, b, c, d>> : a \in Entry(1), b \in Entry(2), c \in Entry(3), d \in Entry(4)} :
            Founded(q) /\ \E i \in 1..4 : q[i].type # "base"}
Large == {<<base(1), ofs(2, 1), ref(3, 2), ref(4, 1), ofs(7, 3), base(8)>>,
          <<base(1), ref(2, 1), base(3), ofs(4, 3), ref(7, 4), ref(8, 2)>>,
          <<ref(1, 5), ofs(2, 1), ref(3, 2), ref(4, 6), ref(7, 5), base(8)>>,
          <<ref(1, 3), ref(2, 5), base(3), ofs(4, 2), ofs(7, 4), ref(8, 7)>>}
MCPacks == Small \cup Large
MCSize == [n \in 1..8 |-> 1 + (n % 3)]

\* Packs with one object twice; the second is of a name that the repository has as well.
Doubled == {<<base(1), base(1), ref(2, 1)>>, <<ref(1, 5), ref(5, 6)>>}

\* Two chains of deltas, of which one is longer.
Chains == {<<base(1), ofs(2, 1), ofs(3, 2), base(4), ofs(5, 4)>>}
=============================================================================
