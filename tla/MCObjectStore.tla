--------------------------- MODULE MCObjectStore ---------------------------
(* ObjectStore for TLC: r stays reachable, d may not, u is garbage in a    *)
(* young pack; n is written and q received while a gc runs.  G runs once,  *)
(* beside a reader; H may run again, also after it was killed.             *)
EXTENDS ObjectStore

CONSTANTS r, d, u, n, q, W, P, R, G, H

MCJob == [p \in Writer |-> {n, r}]
MCPushed == [p \in Pusher |-> {q, r}]
MCWanted == [p \in Reader |-> {r, d}]
MCLoose == [o \in Obj |-> IF o = d THEN 0 ELSE None]
MCPacks == [S \in {{r, u}} |-> 1]
MCMaxGc == [p \in Gc |-> IF p = G THEN 1 ELSE 2]

\* The theorems of ObjectStoreProofs are about casts like these.
ASSUME MCObjectStoreAssumption ==
  BringsNew /\ OneGc /\ AllThere /\ OneAge /\ ReadersWithOneGc
=============================================================================
