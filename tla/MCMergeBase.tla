---------------------------- MODULE MCMergeBase ----------------------------
\* All histories of four commits with all orders of their dates, equal ones too; a criss-cross, the histories of
\* t6010-merge-base.sh and one with unrelated roots, of six commits.
EXTENDS MergeBase

N == 6
Before(c) == {<<>>} \cup {<<p>> : p \in 1..(c - 1)}
                    \cup {g \in (1..(c - 1)) \X (1..(c - 1)) : g[1] > g[2]}

\* Commits 5 and 6 are unused.
Four == {[parents |-> <<a, b, c, d, <<>>, <<>>>>, date |-> t] :
           a \in Before(1), b \in Before(2), c \in Before(3), d \in Before(4),
           t \in {<<p, q, r, s, 0, 0>> : p, q, r, s \in 1..4}}

CrissCross == <<<<>>, <<1>>, <<1>>, <<2, 3>>, <<3, 2>>, <<4, 5>>>>
Skewed == <<<<>>, <<1>>, <<1>>, <<1>>, <<2, 3>>, <<3, 4>>>>
Ladder == <<<<>>, <<1>>, <<2>>, <<1, 3>>, <<3, 2>>, <<5, 1>>>>
Roots == <<<<>>, <<>>, <<1, 2>>, <<2>>, <<3, 4>>, <<4, 3>>>>
Six == {[parents |-> g, date |-> t] : g \in {CrissCross, Skewed, Ladder, Roots},
                                      t \in {<<1, 2, 3, 4, 5, 6>>, <<6, 5, 4, 3, 2, 1>>, <<2, 3, 1, 3, 2, 3>>,
                                             <<3, 1, 4, 2, 6, 5>>, <<4, 4, 1, 2, 5, 5>>}}

MCHistories == Four \cup Six
MCCalls == {[one |-> 3, twos |-> <<4>>], [one |-> 4, twos |-> <<3, 2>>], [one |-> 5, twos |-> <<6>>],
            [one |-> 4, twos |-> <<6, 2>>], [one |-> 2, twos |-> <<4>>]}
=============================================================================
