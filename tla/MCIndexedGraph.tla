--------------------------- MODULE MCIndexedGraph ----------------------------
(***************************************************************************)
(* Small instances of IndexedGraph: the three documents users:1, users:2   *)
(* and posts:1 of a server, or names of one token.                         *)
(***************************************************************************)
EXTENDS IndexedGraph, TLC

CONSTANTS users, posts, i1, i2, boss, author, admin, w1, w2

U1 == <<users, i1>>
U2 == <<users, i2>>
P1 == <<posts, i1>>

Doc(n, ty, rs) == [node |-> n, type |-> ty, refs |-> rs]
Ref(n, f)      == [to |-> n, rel |-> <<f>>]

(* Two documents that refer to each other.                                 *)
MutualUpdates == {Doc(U1, admin, {Ref(U2, boss)}), Doc(U2, NoType, {Ref(U1, author)})}

(* ... and a third, so that a line has a choice of first neighbor.         *)
ThreeUpdates == {Doc(U1, admin, {Ref(U2, boss)}),
                 Doc(U2, NoType, {Ref(U1, boss), Ref(P1, author)})}

(* One document, whose reference changes.                                  *)
ChangingUpdates == {Doc(U1, NoType, {Ref(U2, boss)}), Doc(U1, NoType, {Ref(P1, boss)})}

(* One document with two fields that refer to the same one.                *)
TwoFieldUpdates == {Doc(U1, NoType, {Ref(U2, boss), Ref(U2, author)})}

OneUpdate == {Doc(U1, NoType, {Ref(U2, boss)})}

ServerRemovals == {U2}
Symmetry == Permutations(Workers)
==============================================================================
