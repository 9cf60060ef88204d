---------------------------- MODULE MCGraphSearch ----------------------------
(***************************************************************************)
(* All graphs of up to three nodes, and some of five where a node can be   *)
(* reached on two ways of different or of one length.                      *)
(***************************************************************************)
EXTENDS GraphSearch

CONSTANTS n1, n2, n3, n4, n5

Small == UNION {[s -> SUBSET s] : s \in {{}, {n1}, {n1, n2}, {n1, n2, n3}}}

Edges(es) == [n \in Names |-> {e[2] : e \in {x \in es : x[1] = n}}]

Diamond  == {<<n1, n2>>, <<n1, n3>>, <<n2, n4>>, <<n3, n4>>}
Shortcut == {<<n1, n2>>, <<n2, n3>>, <<n3, n4>>, <<n1, n4>>, <<n4, n2>>}
Detour   == {<<n1, n2>>, <<n2, n3>>, <<n3, n4>>, <<n1, n5>>, <<n5, n4>>}

MCGraphs == Small \cup {Edges(Diamond), Edges(Shortcut), Edges(Detour),
                        Edges(Diamond \cup {<<n4, n1>>})}
==============================================================================
