------------------------- MODULE MCFetchNegotiation -------------------------
\* Seven commits, of which each is its own date, in sixteen histories, with merges or unrelated
\* roots.  Refs name at most two of the five newest.
EXTENDS FetchNegotiation

MCDate == [c \in Commit |-> c]
MCHistories == {<<{}, {1}, p3, {2}, p5, p6, p7>> : p3 \in {{}, {1}}, p5 \in {{3}, {4}},
                                                   p6 \in {{4}, {5}}, p7 \in {{5}, {4, 6}}}
MCTips == {t \in SUBSET (3..7) : Cardinality(t) <= 2}

\* Two theorems of QueueProofs are about histories like these.
ASSUME MCFetchNegotiationAssumption == ClocksRight
=============================================================================
