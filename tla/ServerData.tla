----------------------------- MODULE ServerData ------------------------------
(***************************************************************************)
(* The data of pkg/server, pkg/validation and pkg/cache: requests, the     *)
(* configuration, schemas, patches, and the keys and answers of the cache. *)
(***************************************************************************)
EXTENDS OluData, GraphData, Paging

CONSTANTS
    Clients,        \* goroutines of net/http, one per request in progress
    Main,           \* the goroutine of main
    Requests,       \* the requests clients send that are not turned away unread
    NoReq,          \* no request in progress
    NoBody,         \* the JSON body null, which decodes to a nil map
    NoAnswer,       \* nothing to answer with yet
    Schemas,        \* the schemas there are
    Required,       \* the fields each asks for
    Allowed,        \* the values it allows in a field
    NoSchema,       \* a type has none
    FileSchemas,    \* per type, the schema in the directory SchemaDir
    Large,          \* plain values that make a document exceed MaxEntitySize
    MaxEmbedDepth,
    SQLite,         \* StorageType is sqlite, not jsonfile
    Redis,          \* CacheType is redis, not memory
    GraphMode,      \* GraphMode after LoadFromEnv
    CascadingDelete,
    DeletesNulls,   \* PatchNullBehavior is delete, not store
    Named,          \* per type, the types whose names begin with its name
    Dirs,           \* types with a directory of files, for main under SQLite
    Faults,         \* whether calls of the store and of Redis and reading schemas may
                    \*   fail, and a stop may break a write of a file
    NewIds,         \* bound: the ids creates give
    MaxStops        \* bound: how often the process stops

Kinds == {"create", "update", "patch", "delete", "save", "get", "list", "schema"}

Bodies == Documents \cup {NoBody}

Request == [kind : Kinds, key : Keys, body : Bodies, page : Int, per : Int,
            depth : Int, schema : Schemas \cup {NoSchema}]

Procs == Clients \cup {Main}

ASSUME RequestsAreRequests == Requests \subseteq Request /\ NoReq \notin Request

ASSUME SchemasAreSchemas == /\ NoSchema \notin Schemas
                            /\ Required \in [Schemas -> SUBSET Fields]
                            /\ Allowed \in [Schemas -> [Fields -> SUBSET Values]]
                            /\ FileSchemas \in [Types -> Schemas \cup {NoSchema}]

ASSUME ServerMarks == /\ Main \notin Clients /\ NoBody \notin Documents
                      /\ Types \cup Ids \cup Fields \subseteq Tokens
                      /\ NoEntity = Blank

(* No two ids have one place in a list.                                    *)
ASSUME ListsHaveOrder == /\ Place \in [Ids -> Int]
                         /\ \A i, j \in Ids : Place[i] = Place[j] => i = j

ASSUME NamesBegin == /\ Named \in [Types -> SUBSET Types]
                     /\ \A t \in Types : t \in Named[t]

ASSUME ServerFlags == /\ {SQLite, Redis, CascadingDelete, DeletesNulls, Faults} \subseteq BOOLEAN
                      /\ {MaxEmbedDepth, MaxStops} \subseteq Nat /\ NewIds \subseteq Ids

(* LoadFromEnv enables the graph for every mode but "disabled"; main makes *)
(* one for "indexed" only, otherwise the server has a nil one.             *)
GraphEnabled == GraphMode # "disabled"
HasGraph     == GraphMode = "indexed"

(***************************************************************************)
(* Documents.                                                              *)
(***************************************************************************)
Decoded(b) == IF b = NoBody THEN EmptyDoc ELSE b

(* IsReference, which takes an empty entity.                               *)
Refs(d) == RefFields(d)
Target(d, f) == <<d[f].entity, d[f].id>>

(* The merge of handlePatch.                                               *)
Patched(d, p) == [f \in Fields |-> IF p[f] = Absent THEN d[f]
                                   ELSE IF p[f] = Null /\ DeletesNulls THEN Absent ELSE p[f]]

(* A schema asks for fields, and says which values a field may have.       *)
Valid(s, d) ==
    s # NoSchema => /\ \A f \in Required[s] : d[f] # Absent
                    /\ \A f \in Fields : d[f] # Absent => d[f] \in Allowed[s][f]

TooLarge(d) == \E f \in Fields : d[f] \in Large

(***************************************************************************)
(* The keys of the cache and its answers: a document with what is embedded *)
(* at the paths below it, or a page of a list.                             *)
(***************************************************************************)
CacheKeys == [type : Types, what : {"doc", "list"}, n : Int, per : Int]

DocEntry(k)        == [type |-> k[1], what |-> "doc", n |-> k[2], per |-> 0]
ListEntry(t, p, n) == [type |-> t, what |-> "list", n |-> p, per |-> n]

EntryFor(o) == IF o.kind = "list" THEN ListEntry(o.key[1], PageOf(o.page), PerOf(o.per))
                                  ELSE DocEntry(o.key)

ReadKeys == {EntryFor(o) : o \in {x \in Requests : x.kind \in {"get", "list"}}}

DocAnswer(view)   == [view |-> view, rows |-> {}, total |-> 0]
PageAnswer(rs, n) == [view |-> EmptyMap, rows |-> rs, total |-> n]

IdsOf(ds, t) == {k[2] : k \in {x \in DOMAIN ds : x[1] = t}}

PageIn(ds, e) ==
    LET ids == IdsOf(ds, e.type) IN
    PageAnswer({<<i, ds[<<e.type, i>>]>> : i \in PageIds(ids, e.n, e.per)}, Cardinality(ids))

(* Answer a under key e is what a store with ds answers; what is embedded  *)
(* in it is not looked at.                                                 *)
Current(ds, e, a) ==
    IF e.what = "list" THEN a = PageIn(ds, e)
    ELSE <<e.type, e.n>> \in DOMAIN ds /\ a.view[<<>>] = ds[<<e.type, e.n>>]

(* The keys that begin with the name of a type.                            *)
Matching(es, t) == {e \in es : e.type \in Named[t]}

Without(m, es) == [e \in DOMAIN m \ es |-> m[e]]

Embeds(o) == o.depth \in 1 .. MaxEmbedDepth

Longest(ps) == {p \in ps : \A q \in ps : Len(q) <= Len(p)}
==============================================================================
