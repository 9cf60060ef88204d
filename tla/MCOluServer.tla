----------------------------- MODULE MCOluServer -----------------------------
(***************************************************************************)
(* Small instances of OluServer: two documents users:1 and users:2 with    *)
(* one field, boss.                                                        *)
(***************************************************************************)
EXTENDS OluServer, TLC

CONSTANTS users, boss, name, v1, noNulls, needsBoss, c1, c2

OneNamed == [t \in Types |-> {t}]

One(f, x) == [g \in Fields |-> IF g = f THEN x ELSE Absent]
Boss(i)  == One(boss, [entity |-> users, id |-> i, frac |-> FALSE])
Nobody   == One(boss, [entity |-> NoEntity, id |-> 1, frac |-> FALSE])

Req(kd, i, b) == [kind |-> kd, key |-> <<users, i>>, body |-> b, page |-> 1, per |-> 0,
                  depth |-> 0, schema |-> NoSchema]

TokenSet == Types \cup Ids \cup Fields \cup {Blank}

(* The orders of lists: "10.json" would come before "2.json", but these    *)
(* ids have one digit, and "-1.json" comes before "-2.json".               *)
ByNumber == [i \in Ids |-> i]
ByName   == [i \in Ids |-> IF i < 0 THEN MinInt - i - 1 ELSE i]

NoSchemas == [t \in Types |-> NoSchema]
BossTypes == [t \in Types |-> needsBoss]

(* One schema allows no null, another asks for the field boss.             *)
MCRequired == [s \in Schemas |-> IF s = needsBoss THEN {boss} ELSE {}]
MCAllowed  == [s \in Schemas |-> [f \in Fields |->
                  IF s = noNulls THEN Values \ {Null} ELSE Values]]

GraphRequests ==
    {Req("create", 0, Boss(1)), Req("create", 0, NoBody), Req("update", 1, Nobody),
     Req("delete", 1, NoBody), Req("save", 2, Boss(1))}

Get(i, n) == [Req("get", i, NoBody) EXCEPT !.depth = n]
List(p)   == [Req("list", 0, NoBody) EXCEPT !.page = p]

(* The schema asks for the field that the patch takes away, until one that *)
(* asks for nothing is posted.  One document is too large, and the start   *)
(* of one page wraps.                                                      *)
CacheRequests ==
    {Req("create", 0, Boss(1)), Req("create", 0, One(boss, v1)),
     Req("patch", 1, One(boss, Null)), Req("schema", 0, NoBody), Get(1, 1), List(0), List(52)}

(* Requests of the counterexamples.                                        *)
CascadeRequests == {Req("create", 0, Boss(1)), Req("delete", 1, NoBody)}
EmbedRequests   == {Req("create", 0, Boss(1)), Get(1, 0), Get(1, 1)}
PatchRequests   == {Req("create", 0, EmptyDoc), Req("patch", 1, One(name, v1)),
                    Req("patch", 1, Boss(1))}
SchemaRequests  == {[Req("schema", 0, NoBody) EXCEPT !.schema = needsBoss]}

Symmetry == Permutations(Clients)
==============================================================================
