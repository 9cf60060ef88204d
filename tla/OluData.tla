------------------------------- MODULE OluData -------------------------------
(***************************************************************************)
(* The data both storage backends, the graph and the server work on:       *)
(* documents, the REF values inside them, the keys that name them and the  *)
(* edges the three reference scanners of the code derive from them.        *)
(*                                                                         *)
(* A document is a total function from field names to values; Absent marks *)
(* a field the JSON object does not have and Null the JSON null.  Every    *)
(* value no scanner takes for a reference is one of Plain: all but the     *)
(* JSON objects {"type": "REF", ...} with an id that is a number and an    *)
(* entity that is a string.                                                *)
(***************************************************************************)
EXTENDS Integers, Maps

CONSTANTS
    Types,      \* entity type names, the directories of the URL space
    Fields,     \* field names other than "id"
    Plain,      \* field values that are not references
    Null,       \* JSON null
    Absent,     \* the field is not in the object
    NoEntity,   \* the "entity" that is the empty string
    MaxInt      \* the largest value of Go's int and of an SQLite INTEGER

(* Two's complement, at a width small enough for TLC to reach both ends.   *)
ASSUME IntWidth == MaxInt \in Nat \ {0}

MinInt == -MaxInt - 1

ASSUME SomeType == Types # {}

ASSUME DistinctValues == /\ Null \notin Plain
                         /\ Absent \notin Plain \cup {Null}
                         /\ NoEntity \notin Types

Ids  == MinInt .. MaxInt
Keys == Types \X Ids

(* A REF value.  Its JSON number is id plus, when frac, a positive fraction *)
(* below one: int(v) in Go truncates it to id.                              *)
References == [entity : Types \cup {NoEntity}, id : Ids, frac : BOOLEAN]

ASSUME ValuesAreDisjoint == References \cap (Plain \cup {Null, Absent}) = {}

Values    == Plain \cup {Null} \cup References
Documents == [Fields -> Values \cup {Absent}]
EmptyDoc  == [f \in Fields |-> Absent]

(* An edge row: the field rel of document src refers to dst.               *)
Edges == [src : Keys, dst : Keys, rel : Fields]

Edge(k, d, f) == [src |-> k, dst |-> <<d[f].entity, d[f].id>>, rel |-> f]

RefFields(d) == {f \in Fields : d[f] \in References}

(* Truncated, then compared with zero: the edges every write inserts.      *)
SyncEdges(k, d) ==
    {Edge(k, d, f) : f \in {g \in RefFields(d) :
                              d[g].entity # NoEntity /\ d[g].id # 0}}

(* Truncated, then required positive: the edges RebuildGraph inserts.      *)
RebuildEdges(k, d) ==
    {Edge(k, d, f) : f \in {g \in RefFields(d) :
                              d[g].entity # NoEntity /\ d[g].id > 0}}

(* Required positive, then truncated: the edges VerifyGraphIntegrity       *)
(* expects.                                                                *)
VerifyEdges(k, d) ==
    {Edge(k, d, f) : f \in {g \in RefFields(d) :
                              /\ d[g].entity # NoEntity
                              /\ d[g].id > 0 \/ (d[g].id = 0 /\ d[g].frac)}}

(* Shallow merge of a patch; null removes the field.                       *)
Merge(d, p) == [f \in Fields |-> CASE p[f] = Absent -> d[f]
                                   [] p[f] = Null   -> Absent
                                   [] OTHER         -> p[f]]

(* id + 1 in Go, which wraps.                                              *)
GoSucc(i) == IF i = MaxInt THEN MinInt ELSE i + 1

(* next_id + 1 in SQL, which leaves the integers: Overflow stands for the  *)
(* REAL that SQLite then keeps in the column, larger than every integer    *)
(* and unchanged by adding one.                                            *)
Overflow == MaxInt + 1
SqlSucc(i) == IF i >= MaxInt THEN Overflow ELSE i + 1
SqlMax(a, b) == IF a >= b THEN a ELSE b
==============================================================================
