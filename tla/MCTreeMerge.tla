---------------------------- MODULE MCTreeMerge ----------------------------
(* A name d and, if it is a directory, two files in it. *)
EXTENDS TreeMerge

CONSTANTS d, da, db, b1, b2, b3

MCInside == <<da, db>>
Tree(x, y, z) == (d :> x) @@ (da :> y) @@ (db :> z)

Empty == Tree(None, None, None)
MCTrees == {Empty, Tree(b1, None, None), Tree(b2, None, None),
            Tree(None, b1, None), Tree(None, b2, None), Tree(None, b1, b1)}
MCBases == {Empty, Tree(b1, None, None), Tree(None, b1, None)}
\* b3, and d/b alone, are in the index only.
MCIndexes == MCTrees \cup {Tree(b3, None, None), Tree(None, None, b1)}
MCWorktrees == {Tree(x, None, None) : x \in {None, b1, Local}}
               \cup {Tree(Directory, y, z) : y \in {None, b1, Local}, z \in {None, b1}}
MCIgnores == {{}, {d}, {db}}
MCPrograms == {<<"checkout", "checkout">>, <<"checkout", "hard">>,
               <<"merge", "hard">>, <<"aggressive", "force">>}

\* Only git checkout looks at the ignored files, and only a merge at its base.
MCInit == /\ Init
          /\ program[1] # "checkout" => ignored = {}
          /\ program[1] \in Merges \/ base = Empty
MCSpec == MCInit /\ [][Next]_vars
=============================================================================
