------------------------------ MODULE OluServer ------------------------------
(***************************************************************************)
(* pkg/server and cmd/olu: what a handler does to the store, the graph and *)
(* the cache, one call at a time, and the start and end of the process.    *)
(* No lock spans two calls: those of other requests come between any two.  *)
(*                                                                         *)
(* A call of the store is one step here: SQLiteStore implements DocStore.  *)
(* What JSON files make of calls that overlap is the subject of            *)
(* JSONFileStore.  Nobody reads the index of the graph: it is left out, as *)
(* is the copy of the graph the handlers save and nobody loads.            *)
(***************************************************************************)
EXTENDS ServerData

VARIABLES
    docs,       \* the documents in the store
    torn,       \* keys with a file that does not parse: a write broke half-way
    seq,        \* per type that has one, the last id of its sequence
    graph,      \* the graph in memory
    schemas,    \* the schemas in memory
    cache,      \* the cached answers
    phase,      \* main: loading, serving, or exiting after a signal
    toLoad,     \* documents main has yet to put into the graph
    saved,      \* the lines of BaseDir/graph.data
    stops,      \* how often the process stopped
    req,        \* per client, the request in progress
    pc,         \* per process, the next call
    key,        \* per process, the document it is about
    doc,        \* per process, the document it validates, stores and links
    todo,       \* per process, what is left: fields, paths or cache keys
    answer,     \* per client, the answer it assembles
    still,      \* history: clients that read what nobody wrote since
    cut,        \* history: documents deleted, or not listed at the start
    raced,      \* history: documents deleted while a request linked them
    ungoverned, \* history: types ever without the schema of their file
    spoiled,    \* history: cached answers whose reader was overtaken, or that no
                \*   invalidation follows
    rewritten   \* history: documents stored over an earlier version, or torn, since
                \*   the start

store   == <<docs, torn, seq>>
memory  == <<graph, schemas, cache>>
process == <<phase, toLoad, saved, stops>>
local   == <<req, key, doc, todo, answer, still>>
past    == <<cut, raced, ungoverned, spoiled, rewritten>>
vars    == <<store, memory, process, pc, local, past>>

Steps == {"idle", "cache", "get", "list", "embed", "fill", "exists", "validate",
          "store", "delete", "node", "edges", "unlink", "invalidate", "scan", "schema"}

NoKey == <<CHOOSE t \in Types : TRUE, 0>>

(* LoadAllSchemas stops at the first file it cannot load, and main only    *)
(* warns: these types are left without the schema of theirs.  The names of *)
(* the files, and so the order they are loaded in, are left open.          *)
NotLoaded == IF Faults THEN SUBSET {t \in Types : FileSchemas[t] # NoSchema} ELSE {{}}

LoadedBut(ts) == [t \in Types |-> IF t \in ts THEN NoSchema ELSE FileSchemas[t]]

(* Nothing was ever stored.                                                *)
Init == /\ docs = EmptyMap /\ torn = {} /\ seq = EmptyMap
        /\ graph = EmptyGraph /\ cache = EmptyMap
        /\ \E ts \in NotLoaded : schemas = LoadedBut(ts) /\ ungoverned = ts
        /\ phase = "serving" /\ toLoad = {} /\ saved = {} /\ stops = 0
        /\ pc = [p \in Procs |-> "idle"]
        /\ req = [c \in Clients |-> NoReq]
        /\ key = [p \in Procs |-> NoKey]
        /\ doc = [p \in Procs |-> EmptyDoc]
        /\ todo = [p \in Procs |-> {}]
        /\ answer = [c \in Clients |-> NoAnswer]
        /\ still = {}
        /\ cut = {} /\ raced = {} /\ spoiled = {} /\ rewritten = {}

At(p, s) == pc[p] = s

Advance(p, s) == pc' = [pc EXCEPT ![p] = s]
Goto(p, s)    == Advance(p, s) /\ UNCHANGED local

(* The handler responds and returns, or panics, and the Recoverer responds. *)
(* What the response says is left out.                                     *)
Closes(c) == /\ Advance(c, "idle")
             /\ req' = [req EXCEPT ![c] = NoReq]
             /\ key' = [key EXCEPT ![c] = NoKey]
             /\ doc' = [doc EXCEPT ![c] = EmptyDoc]
             /\ todo' = [todo EXCEPT ![c] = {}]
             /\ answer' = [answer EXCEPT ![c] = NoAnswer]

Finish(c) == Closes(c) /\ still' = still \ {c}

MayFail(x) == {x} \cup (IF Faults THEN {FALSE} ELSE {})

(***************************************************************************)
(* A request comes in.                                                     *)
(***************************************************************************)
Entry(o) == CASE o.kind \in {"get", "list"}      -> "cache"
              [] o.kind \in {"delete", "save"}   -> "exists"
              [] o.kind \in {"create", "update"} -> "validate"
              [] o.kind = "patch"                -> "get"
              [] o.kind = "schema"               -> "schema"

(* Fault: the server listens while main still loads the graph.             *)
ReceiveAtOnce(c) ==
    /\ At(c, "idle")
    /\ \E o \in Requests : /\ req' = [req EXCEPT ![c] = o]
                           /\ key' = [key EXCEPT ![c] = o.key]
                           /\ doc' = [doc EXCEPT ![c] = Decoded(o.body)]
                           /\ Advance(c, Entry(o))
    /\ UNCHANGED <<store, memory, process, todo, answer, still, past>>

Receive(c) ==
    /\ phase # "loading" /\ At(c, "idle")
    /\ \E o \in Requests : /\ req' = [req EXCEPT ![c] = o]
                           /\ key' = [key EXCEPT ![c] = o.key]
                           /\ doc' = [doc EXCEPT ![c] = Decoded(o.body)]
                           /\ Advance(c, Entry(o))
    /\ UNCHANGED <<store, memory, process, todo, answer, still, past>>

(***************************************************************************)
(* What comes before a write.                                              *)
(***************************************************************************)
(* What Exists finds: a file it does not read.                             *)
Present == DOMAIN docs \cup torn

Exists(c) ==
    /\ At(c, "exists")
    /\ \E there \in MayFail(key[c] \in Present) :
          CASE req[c].kind = "delete" /\ there -> Goto(c, "delete")
            [] req[c].kind = "save" /\ ~there  -> Goto(c, "validate")
            [] OTHER                           -> Finish(c)
    /\ UNCHANGED <<store, memory, process, past>>

(* Fault: the patch takes the place of the document.                       *)
PatchGetReplaces(c) ==
    /\ At(c, "get") /\ req[c].kind = "patch"
    /\ IF key[c] \in DOMAIN docs
       THEN /\ still' = still \cup {c}
            /\ Advance(c, "validate")
            /\ UNCHANGED <<req, key, doc, todo, answer>>
       ELSE Finish(c)
    /\ UNCHANGED <<store, memory, process, past>>

(* handlePatch reads the document and merges.                              *)
PatchGet(c) ==
    /\ At(c, "get") /\ req[c].kind = "patch"
    /\ IF key[c] \in DOMAIN docs
       THEN /\ doc' = [doc EXCEPT ![c] = Patched(docs[key[c]], Decoded(req[c].body))]
            /\ still' = still \cup {c}
            /\ Advance(c, "validate")
            /\ UNCHANGED <<req, key, todo, answer>>
       ELSE Finish(c)
    /\ UNCHANGED <<store, memory, process, past>>

(* Fault: the patch itself is validated, and not what it makes.            *)
AcceptsBody(c) ==
    /\ ~(req[c].kind \in {"update", "save"} /\ req[c].body = NoBody)
    /\ Valid(schemas[key[c][1]], Decoded(req[c].body))

(* Update and Save put the id into the map they decoded, which panics when *)
(* it is nil.  Only Create looks at the size.                              *)
Accepts(c) ==
    /\ ~(req[c].kind \in {"update", "save"} /\ req[c].body = NoBody)
    /\ Valid(schemas[key[c][1]], doc[c])
    /\ ~(req[c].kind = "create" /\ TooLarge(doc[c]))

Validate(c) ==
    /\ At(c, "validate")
    /\ IF Accepts(c) THEN Goto(c, "store") ELSE Finish(c)
    /\ UNCHANGED <<store, memory, process, past>>

PostSchema(c) ==
    /\ At(c, "schema")
    /\ schemas' = [schemas EXCEPT ![key[c][1]] = req[c].schema]
    /\ ungoverned' = ungoverned \cup {key[c][1]}
    /\ Finish(c)
    /\ UNCHANGED <<store, graph, cache, process, cut, raced, spoiled, rewritten>>

(***************************************************************************)
(* Calls of the store that write.                                          *)
(***************************************************************************)
Reads(c, k) == IF req[c].kind = "list" THEN req[c].key[1] = k[1] ELSE key[c] = k

(* Whoever read k before read what is now old.                             *)
Overtake(k) == still' = {c \in still : ~Reads(c, k)}

(* k is stored with d, and the handler goes on to the graph or the cache.  *)
Wrote(c, k, d) == /\ docs' = Put(docs, k, d) /\ torn' = torn \ {k}
                  /\ rewritten' = rewritten \cup ({k} \cap Present)
                  /\ key' = [key EXCEPT ![c] = k]
                  /\ Overtake(k)
                  /\ Advance(c, IF GraphEnabled THEN "node" ELSE "invalidate")
                  /\ UNCHANGED <<req, doc, todo, answer>>

LastId(t) == IF t \in DOMAIN seq THEN seq[t] ELSE 0

(* NextID takes 1 when it cannot read the file that holds the next id,     *)
(* also because a write of that file broke.                                *)
NextIds(t) == {LastId(t) + 1} \cup IF Faults /\ ~SQLite THEN {1} ELSE {}

(* Bound: a create whose id would not be one of NewIds fails.              *)
IdsLeft(t) == NextIds(t) \cap NewIds

(* The id of the new document does not fit into a nil map.                 *)
NilMap(p) == p # Main /\ req[p].kind = "create" /\ req[p].body = NoBody

(* The JSON file store puts the id into the map it was given, SQLite into  *)
(* a copy.                                                                 *)
StoreCreate(c) ==
    /\ At(c, "store") /\ req[c].kind = "create"
    /\ LET t == key[c][1] IN
       \/ /\ NextIds(t) # IdsLeft(t) \/ (SQLite /\ <<t, LastId(t) + 1>> \in DOMAIN docs)
          /\ Finish(c) /\ UNCHANGED <<store, rewritten>>
       \/ \E i \in IdsLeft(t) :
             /\ ~(SQLite /\ <<t, i>> \in DOMAIN docs)
             /\ seq' = Put(seq, t, i)
             /\ IF ~SQLite /\ NilMap(c) THEN Finish(c) /\ UNCHANGED <<docs, torn, rewritten>>
                ELSE Wrote(c, <<t, i>>, doc[c])
    /\ UNCHANGED <<memory, process, cut, raced, ungoverned, spoiled>>

(* Over a file that does not parse, too.                                   *)
StoreUpdate(c) ==
    /\ At(c, "store") /\ req[c].kind \in {"update", "patch"}
    /\ IF key[c] \in Present THEN Wrote(c, key[c], doc[c])
                             ELSE Finish(c) /\ UNCHANGED <<docs, torn, rewritten>>
    /\ UNCHANGED <<seq, memory, process, cut, raced, ungoverned, spoiled>>

(* SQLite keeps its sequence beyond the id, the files do not.              *)
SaveSeq(k) ==
    IF ~SQLite THEN seq
    ELSE Put(seq, k[1], IF k[1] \in DOMAIN seq THEN SqlMax(seq[k[1]], SqlSucc(GoSucc(k[2])))
                                               ELSE GoSucc(k[2]))

(* Where os.Stat fails, the file store writes over what is there.          *)
StoreSave(c) ==
    /\ At(c, "store") /\ req[c].kind = "save"
    /\ \E there \in IF SQLite THEN {key[c] \in DOMAIN docs} ELSE MayFail(key[c] \in Present) :
          IF there THEN Finish(c) /\ UNCHANGED <<store, rewritten>>
          ELSE Wrote(c, key[c], doc[c]) /\ seq' = SaveSeq(key[c])
    /\ UNCHANGED <<memory, process, cut, raced, ungoverned, spoiled>>

(* A Create of the file store that fails may have used up an id.           *)
StoreFails(c) ==
    /\ Faults /\ pc[c] \in {"get", "list", "store"}
    /\ \/ UNCHANGED seq
       \/ /\ At(c, "store") /\ req[c].kind = "create" /\ ~SQLite
          /\ \E i \in IdsLeft(key[c][1]) : seq' = Put(seq, key[c][1], i)
    /\ Finish(c)
    /\ UNCHANGED <<docs, torn, memory, process, past>>

(* What is cached of the type stays when it should go.                     *)
Spoil(c) == spoiled' = spoiled \cup Matching(DOMAIN cache, key[c][1])

(* os.WriteFile has truncated the file of k when it fails before all of    *)
(* the document is written: the old one is lost, and the handler returns   *)
(* the error without a look at graph or cache.                             *)
Breaks(c, k) == /\ docs' = Drop(docs, k) /\ torn' = torn \cup {k}
                /\ rewritten' = rewritten \cup {k}
                /\ IF k \in DOMAIN docs THEN Spoil(c) ELSE UNCHANGED spoiled
                /\ Closes(c)
                /\ still' = {x \in still \ {c} : ~Reads(x, k)}

(* With Restart right after it, this is also the end of the process in the *)
(* middle of a write.                                                      *)
WriteBreaks(c) ==
    /\ Faults /\ ~SQLite /\ At(c, "store")
    /\ \/ /\ req[c].kind = "create" /\ ~NilMap(c)
          /\ \E i \in IdsLeft(key[c][1]) : /\ seq' = Put(seq, key[c][1], i)
                                           /\ Breaks(c, <<key[c][1], i>>)
       \/ /\ req[c].kind \in {"update", "patch"} /\ key[c] \in Present
          /\ Breaks(c, key[c]) /\ UNCHANGED seq
       \/ req[c].kind = "save" /\ Breaks(c, key[c]) /\ UNCHANGED seq
    /\ UNCHANGED <<memory, process, cut, raced, ungoverned>>

(* Fault: a delete leaves the graph alone.                                 *)
AfterDeleteNoGraph == "invalidate"

AfterDelete == IF GraphEnabled THEN "unlink" ELSE "invalidate"

(* Processes that have stored k and not yet linked all of it.              *)
Linking(k) == {p \in Procs : pc[p] \in {"node", "edges"} /\ key[p] = k}

(* With and without cascade the document of the request goes: cascadeDelete *)
(* never adds another to its list.                                         *)
StoreDelete(c) ==
    /\ At(c, "delete") /\ key[c] \in Present
    /\ docs' = Drop(docs, key[c]) /\ torn' = torn \ {key[c]}
    /\ cut' = cut \cup {key[c]} /\ rewritten' = rewritten \ {key[c]}
    /\ raced' = IF Linking(key[c]) = {} THEN raced ELSE raced \cup {key[c]}
    /\ Overtake(key[c])
    /\ Advance(c, AfterDelete)
    /\ UNCHANGED <<seq, memory, process, req, key, doc, todo, answer, ungoverned, spoiled>>

(* An error of the cascade's Delete is logged, and the rest follows.       *)
DeleteFails(c) ==
    /\ At(c, "delete") /\ (key[c] \notin Present \/ Faults)
    /\ IF CascadingDelete THEN Goto(c, AfterDelete) ELSE Finish(c)
    /\ UNCHANGED <<store, memory, process, past>>

(***************************************************************************)
(* The graph: UpdateFromEntity, one call that locks it after the other,    *)
(* and RemoveNode.                                                         *)
(***************************************************************************)
Unindexed(g) == Graph(g.adj, g.rev, EmptyMap)

LinkNext(p, left) ==
    /\ todo' = [todo EXCEPT ![p] = left]
    /\ Advance(p, IF left # {} THEN "edges" ELSE IF p = Main THEN "idle" ELSE "invalidate")
    /\ UNCHANGED <<store, schemas, cache, phase, toLoad, saved, stops, req, key, doc, answer,
                   still, past>>

(* Fault: the old edges are taken away by removing the node.               *)
UpdateNodeAnew(p) ==
    /\ At(p, "node") /\ HasGraph /\ ~NilMap(p)
    /\ graph' = Unindexed(AddNode(RemoveNode(graph, key[p]), key[p], NoType))
    /\ LinkNext(p, Refs(doc[p]))

UpdateNode(p) ==
    /\ At(p, "node") /\ HasGraph /\ ~NilMap(p)
    /\ graph' = Unindexed(AddNode(graph, key[p], NoType))
    /\ LinkNext(p, Refs(doc[p]))

(* Fault: the edges run from what is referred to.                          *)
UpdateEdgeBack(p) ==
    /\ At(p, "edges")
    /\ \E f \in todo[p] :
          /\ graph' = Unindexed(AddEdge(graph, Target(doc[p], f), key[p], <<f>>))
          /\ LinkNext(p, todo[p] \ {f})

UpdateEdge(p) ==
    /\ At(p, "edges")
    /\ \E f \in todo[p] :
          /\ graph' = Unindexed(AddEdge(graph, key[p], Target(doc[p], f), <<f>>))
          /\ LinkNext(p, todo[p] \ {f})

Unlinks(c) ==
    /\ At(c, "unlink") /\ HasGraph
    /\ graph' = Unindexed(RemoveNode(graph, key[c]))
    /\ Goto(c, "invalidate")
    /\ UNCHANGED <<store, schemas, cache, process, past>>

(* Neither does the id fit into a nil map here, nor anything into a nil    *)
(* graph; the cache is left as it is.                                      *)
GraphPanics(c) ==
    /\ \/ At(c, "node") /\ (~HasGraph \/ NilMap(c))
       \/ At(c, "unlink") /\ ~HasGraph
    /\ Spoil(c)
    /\ Finish(c)
    /\ UNCHANGED <<store, memory, process, cut, raced, ungoverned, rewritten>>

(***************************************************************************)
(* invalidateCache, whose errors nobody looks at.                          *)
(***************************************************************************)
Evict(es) == cache' = Without(cache, es) /\ spoiled' = spoiled \ es

Invalidate(c) ==
    /\ At(c, "invalidate") /\ ~Redis
    /\ Evict(Matching(DOMAIN cache, key[c][1]))
    /\ Finish(c)
    /\ UNCHANGED <<store, graph, schemas, process, cut, raced, ungoverned, rewritten>>

(* A SCAN returns every key that is there from its beginning to its end,   *)
(* and perhaps others.                                                     *)
Scan(c) ==
    /\ At(c, "invalidate") /\ Redis
    /\ todo' = [todo EXCEPT ![c] = Matching(DOMAIN cache, key[c][1])]
    /\ Advance(c, "scan")
    /\ UNCHANGED <<store, memory, process, req, key, doc, answer, still, past>>

(* Fault: the first page is taken for the last.                            *)
LeftAfterOne(c, page) == {}

(* Fault: a key that is gone is waited for.                                *)
LeftAfterAll(c, page) == todo[c] \ page

LeftAfter(c, page) == (todo[c] \cap DOMAIN cache) \ page

(* The pages of the SCAN up to one with a key that was there, and their    *)
(* DEL.  Pages with newer keys alone make no difference that Expire does   *)
(* not make.                                                               *)
DeletePage(c) ==
    /\ At(c, "scan")
    /\ \E page \in SUBSET Matching(DOMAIN cache, key[c][1]) :
          /\ todo[c] \cap DOMAIN cache = {} \/ todo[c] \cap page # {}
          /\ Evict(page)
          /\ IF LeftAfter(c, page) = {} THEN Finish(c)
             ELSE /\ todo' = [todo EXCEPT ![c] = LeftAfter(c, page)]
                  /\ UNCHANGED <<pc, req, key, doc, answer, still>>
    /\ UNCHANGED <<store, graph, schemas, process, cut, raced, ungoverned, rewritten>>

ScanFails(c) ==
    /\ Faults /\ Redis /\ pc[c] \in {"invalidate", "scan"}
    /\ Spoil(c)
    /\ Finish(c)
    /\ UNCHANGED <<store, memory, process, cut, raced, ungoverned, rewritten>>

(* The time to live of an entry ends, or newer ones take its place.        *)
Expire(e) ==
    /\ e \in DOMAIN cache
    /\ Evict({e})
    /\ UNCHANGED <<store, graph, schemas, process, pc, local, cut, raced, ungoverned, rewritten>>

(***************************************************************************)
(* handleGet and handleList.                                               *)
(***************************************************************************)
EntryOf(c) == EntryFor(req[c])

(* A Redis that fails has nothing cached.                                  *)
Cached(e) == IF Redis THEN MayFail(e \in DOMAIN cache) ELSE {e \in DOMAIN cache}

CacheGet(c) ==
    /\ At(c, "cache")
    /\ \E hit \in Cached(EntryOf(c)) : IF hit THEN Finish(c) ELSE Goto(c, req[c].kind)
    /\ UNCHANGED <<store, memory, process, past>>

(* The answer so far, and the paths at which something is to be embedded.  *)
Embed(c, view, paths) ==
    /\ answer' = [answer EXCEPT ![c] = DocAnswer(view)]
    /\ todo' = [todo EXCEPT ![c] = paths]
    /\ Advance(c, IF paths = {} THEN "fill" ELSE "embed")
    /\ UNCHANGED <<req, key, doc>>

StoreGet(c) ==
    /\ At(c, "get") /\ req[c].kind = "get"
    /\ IF key[c] \in DOMAIN docs
       THEN LET d == docs[key[c]] IN
            /\ Embed(c, [p \in {<<>>} |-> d],
                     IF Embeds(req[c]) THEN {<<f>> : f \in Refs(d)} ELSE {})
            /\ still' = still \cup {c}
       ELSE Finish(c)
    /\ UNCHANGED <<store, memory, process, past>>

(* Fault: embedding goes on at a depth of 0.                               *)
EmbedOneMore(c) ==
    /\ At(c, "embed")
    /\ \E p \in Longest(todo[c]) :
       LET view == answer[c].view
           k    == Target(view[SubSeq(p, 1, Len(p) - 1)], p[Len(p)])
       IN \E found \in MayFail(k \in DOMAIN docs) :
          IF ~found THEN Embed(c, view, todo[c] \ {p})
          ELSE Embed(c, Put(view, p, docs[k]),
                     (todo[c] \ {p}) \cup
                         {Append(p, f) : f \in {g \in Refs(docs[k]) : Len(p) <= req[c].depth}})
    /\ UNCHANGED <<store, memory, process, still, past>>

(* embedReferences goes down before it goes on to the next field; what it  *)
(* cannot read stays a reference.                                          *)
EmbedOne(c) ==
    /\ At(c, "embed")
    /\ \E p \in Longest(todo[c]) :
       LET view == answer[c].view
           k    == Target(view[SubSeq(p, 1, Len(p) - 1)], p[Len(p)])
       IN \E found \in MayFail(k \in DOMAIN docs) :
          IF ~found THEN Embed(c, view, todo[c] \ {p})
          ELSE Embed(c, Put(view, p, docs[k]),
                     (todo[c] \ {p}) \cup
                         {Append(p, f) : f \in {g \in Refs(docs[k]) : Len(p) < req[c].depth}})
    /\ UNCHANGED <<store, memory, process, still, past>>

(* List passes over the files it cannot read.                              *)
PassedOver(t) == IF Faults /\ ~SQLite THEN SUBSET {k \in DOMAIN docs : k[1] = t} ELSE {{}}

(* A page whose start has wrapped below zero panics.                       *)
StoreList(c) ==
    /\ At(c, "list")
    /\ LET e == EntryOf(c) IN
       \E missed \in PassedOver(e.type) :
          IF Panics(e.n, e.per, Cardinality(IdsOf(Without(docs, missed), e.type))) THEN Finish(c)
          ELSE /\ answer' = [answer EXCEPT ![c] = PageIn(Without(docs, missed), e)]
               /\ still' = IF missed = {} THEN still \cup {c} ELSE still
               /\ Advance(c, "fill")
               /\ UNCHANGED <<req, key, doc, todo>>
    /\ UNCHANGED <<store, memory, process, past>>

Fill(c) ==
    /\ At(c, "fill")
    /\ cache' = Put(cache, EntryOf(c), answer[c])
    /\ spoiled' = IF c \in still THEN spoiled \ {EntryOf(c)} ELSE spoiled \cup {EntryOf(c)}
    /\ Finish(c)
    /\ UNCHANGED <<store, graph, schemas, process, cut, raced, ungoverned, rewritten>>

FillFails(c) ==
    /\ At(c, "fill") /\ Redis /\ Faults
    /\ Finish(c)
    /\ UNCHANGED <<store, memory, process, past>>

(***************************************************************************)
(* main.                                                                   *)
(***************************************************************************)
(* On a signal the graph is saved, and requests go on until the exit.      *)
(* Without one to save, a signal is left to Restart.                       *)
SaveAtExit ==
    /\ phase = "serving" /\ HasGraph
    /\ phase' = "exiting" /\ saved' \in Files(graph.adj)
    /\ UNCHANGED <<store, memory, toLoad, stops, pc, local, past>>

(* Clients whose write is stored and whose invalidation is not complete.   *)
Unfinished == {c \in Clients : pc[c] \in {"node", "edges", "unlink", "invalidate", "scan"}}

(* Types whose directory main finds.                                       *)
HasDir(t) == ~SQLite \/ t \in Dirs

(* Documents main may not get to see: SQLite lists all of a type or none,  *)
(* the files one by one.                                                   *)
NotListed == IF ~Faults THEN {{}}
             ELSE IF SQLite THEN {{k \in DOMAIN docs : k[1] \in ts} : ts \in SUBSET Types}
             ELSE SUBSET DOMAIN docs

(* The process stops, after a signal or not, and starts again.             *)
Restart ==
    /\ stops < MaxStops /\ stops' = stops + 1
    /\ phase' = "loading"
    /\ IF HasGraph THEN \E ls \in Readable(saved) : graph' \in Loads(ls) ELSE UNCHANGED graph
    /\ \E missed \in NotListed :
          /\ toLoad' = {k \in DOMAIN docs \ missed : HasGraph /\ HasDir(k[1])}
          /\ cut' = missed
    /\ \E ts \in NotLoaded : schemas' = LoadedBut(ts) /\ ungoverned' = ungoverned \cup ts
    /\ cache' = IF Redis THEN cache ELSE EmptyMap
    /\ pc' = [p \in Procs |-> "idle"]
    /\ req' = [c \in Clients |-> NoReq]
    /\ key' = [p \in Procs |-> NoKey]
    /\ doc' = [p \in Procs |-> EmptyDoc]
    /\ todo' = [p \in Procs |-> {}]
    /\ answer' = [c \in Clients |-> NoAnswer]
    /\ still' = {} /\ raced' = {} /\ rewritten' = {}
    /\ spoiled' = (spoiled \cup UNION {Matching(DOMAIN cache, key[c][1]) : c \in Unfinished})
                     \cap DOMAIN cache'
    /\ UNCHANGED <<store, saved>>

(* loadEntitiesIntoGraph: UpdateFromEntity for one document after another. *)
LoadNext ==
    /\ phase = "loading" /\ At(Main, "idle")
    /\ \E k \in toLoad : /\ toLoad' = toLoad \ {k}
                         /\ key' = [key EXCEPT ![Main] = k]
                         /\ doc' = [doc EXCEPT ![Main] = docs[k]]
    /\ Advance(Main, "node")
    /\ UNCHANGED <<store, memory, phase, saved, stops, req, todo, answer, still, past>>

Serve == /\ phase = "loading" /\ At(Main, "idle") /\ toLoad = {}
         /\ phase' = "serving"
         /\ UNCHANGED <<store, memory, toLoad, saved, stops, pc, local, past>>

Before(c)  == Exists(c) \/ PatchGet(c) \/ Validate(c) \/ PostSchema(c)
Store(c)   == StoreCreate(c) \/ StoreUpdate(c) \/ StoreSave(c) \/ StoreDelete(c)
              \/ DeleteFails(c) \/ StoreFails(c) \/ WriteBreaks(c)
Relink(p)  == UpdateNode(p) \/ UpdateEdge(p)
Regraph(c) == Relink(c) \/ Unlinks(c) \/ GraphPanics(c)
Clean(c)   == Invalidate(c) \/ Scan(c) \/ DeletePage(c) \/ ScanFails(c)
Query(c)   == CacheGet(c) \/ StoreGet(c) \/ EmbedOne(c) \/ StoreList(c) \/ Fill(c) \/ FillFails(c)

(* A handler, once it has its request.                                     *)
Handle(c) == ~At(c, "idle") /\ (Before(c) \/ Store(c) \/ Regraph(c) \/ Clean(c) \/ Query(c))
Process   == SaveAtExit \/ Restart \/ LoadNext \/ Serve \/ Relink(Main)

Next == \/ \E c \in Clients : Receive(c) \/ Handle(c)
        \/ \E e \in ReadKeys : Expire(e)
        \/ Process

Spec == Init /\ [][Next]_vars

(* The scheduler of Go runs every handler; no call waits for another.      *)
FairSpec == Spec /\ \A c \in Clients : WF_vars(Handle(c))

(***************************************************************************)
(* What it promises.                                                       *)
(***************************************************************************)
TypeOK ==
    /\ DOMAIN docs \subseteq Keys /\ docs \in [DOMAIN docs -> Documents]
    /\ torn \subseteq Keys \ DOMAIN docs /\ (SQLite => torn = {})
    /\ DOMAIN seq \subseteq Types /\ seq \in [DOMAIN seq -> MinInt .. Overflow]
    /\ schemas \in [Types -> Schemas \cup {NoSchema}]
    /\ DOMAIN cache \subseteq ReadKeys
    /\ phase \in {"loading", "serving", "exiting"} /\ stops \in 0 .. MaxStops
    /\ toLoad \subseteq DOMAIN docs
    /\ req \in [Clients -> Requests \cup {NoReq}]
    /\ pc \in [Procs -> Steps]
    /\ key \in [Procs -> Keys] /\ doc \in [Procs -> Documents]
    /\ cut \cup raced \cup rewritten \subseteq Keys /\ ungoverned \subseteq Types
    /\ still \subseteq Clients /\ spoiled \subseteq DOMAIN cache
    /\ \A c \in Clients : At(c, "idle") <=> req[c] = NoReq
    /\ phase = "loading" => \A c \in Clients : At(c, "idle")
    /\ phase # "loading" => At(Main, "idle") /\ toLoad = {}

Linked(k, n) == k \in DOMAIN graph.adj /\ n \in DOMAIN graph.adj[k]

(* Some process has yet to put this reference of k into the graph.         *)
LinkDue(k, f) ==
    \E p \in Linking(k) : /\ doc[p][f] = docs[k][f]
                          /\ At(p, "node") \/ f \in todo[p]

(* Whatever requests overlap, fail or are cut off, the graph has an edge   *)
(* for every reference between documents that were never deleted, or the   *)
(* request that stored it is about to add it; and so it is after a restart *)
(* that lists the documents.                                               *)
LiveRefsLinked ==
    HasGraph /\ phase # "loading" =>
        \A k \in DOMAIN docs \ cut : \A f \in Refs(docs[k]) :
            Target(docs[k], f) \notin cut =>
                Linked(k, Target(docs[k], f)) \/ LinkDue(k, f)

(* No edge leads out of a document that was deleted, once the handlers are *)
(* through, unless the delete met a request that was linking it.           *)
DeletedIsDetached ==
    \A k \in Keys \ (Present \cup raced) :
        k \in DOMAIN graph.adj => \/ graph.adj[k] = EmptyMap
                                  \/ \E c \in Clients : At(c, "unlink") /\ key[c] = k

(* Every edge out of a document is one of its references and bears the     *)
(* name of its field: a new one never has the edges of what it replaces.   *)
(* UpdateFromEntity only adds, so a document that was written over, or     *)
(* deleted while it was linked, has more, and one whose file broke has     *)
(* them still.                                                             *)
EdgesAreReferences ==
    \A k \in (Keys \cap DOMAIN graph.adj) \ (rewritten \cup raced) :
        \/ \A n \in DOMAIN graph.adj[k] :
              /\ k \in DOMAIN docs
              /\ \E f \in Refs(docs[k]) : n = Target(docs[k], f) /\ graph.adj[k][n] = <<f>>
        \/ \E c \in Clients : At(c, "unlink") /\ key[c] = k

(* Where nobody ever posts a schema and every start loads it from its      *)
(* file, every stored document satisfies that of its type: also one that a *)
(* patch has merged from what it read before.                              *)
StoredIsValid ==
    \A k \in DOMAIN docs : k[1] \notin ungoverned => Valid(FileSchemas[k[1]], docs[k])

(* A cached answer is what the store holds, or a write of its type has not *)
(* yet invalidated it; or none will, because the write broke half-way, the *)
(* handler panicked or was cut off, or Redis failed; or the request that   *)
(* cached it was overtaken by a write, or List passed over a file for it.  *)
StaleMeansOverlap ==
    \A e \in DOMAIN cache :
        \/ Current(docs, e, cache[e])
        \/ e \in spoiled
        \/ \E c \in Unfinished : key[c][1] = e.type

(* A path, without its last field.                                         *)
Above(p) == SubSeq(p, 1, Len(p) - 1)

(* The levels of embedding a request gets.                                 *)
Levels(o) == IF Embeds(o) THEN o.depth ELSE 0

(* What is embedded stands in place of a reference of what is around it,   *)
(* and at most n levels down.                                              *)
Nests(view, n) ==
    /\ <<>> \in DOMAIN view
    /\ \A p \in DOMAIN view \ {<<>>} : /\ Len(p) \in 1 .. n /\ Above(p) \in DOMAIN view
                                      /\ p[Len(p)] \in Refs(view[Above(p)])

(* However references run in circles and documents change while they are   *)
(* read, an answer has no more levels than its request asks for, and an    *)
(* answer in the cache, which one of another depth may get, no more than   *)
(* the configuration allows.                                               *)
EmbeddingsNest ==
    /\ \A c \in Clients : pc[c] \in {"embed", "fill"} /\ req[c].kind = "get" =>
                             Nests(answer[c].view, Levels(req[c]))
    /\ \A e \in DOMAIN cache : e.what = "doc" => Nests(cache[e].view, MaxEmbedDepth)

(* How far a handler is when it comes to a call.                           *)
Stage == [cache |-> 1, exists |-> 1, schema |-> 1, get |-> 2, list |-> 2, embed |-> 3,
          validate |-> 3, fill |-> 4, store |-> 4, delete |-> 4, node |-> 5, unlink |-> 5,
          edges |-> 6, invalidate |-> 7, scan |-> 8, idle |-> 9]

(* Fields to link or cache keys to delete are fewer, or a path to embed is *)
(* done with: it is in the answer now, where there is room for finitely    *)
(* many, or will not be.                                                   *)
Fewer(c) ==
    \/ /\ todo'[c] \subseteq todo[c] /\ todo'[c] # todo[c]
       /\ At(c, "embed") => answer'[c].view = answer[c].view
    \/ /\ At(c, "embed")
       /\ \E p \in todo[c] \ DOMAIN answer[c].view :
             /\ Len(p) <= Levels(req[c])
             /\ DOMAIN answer'[c].view = DOMAIN answer[c].view \cup {p}

Forward(c) == Stage[pc[c]] < Stage[pc'[c]] \/ (pc'[c] = pc[c] /\ Fewer(c))

(* No handler goes back or round in a circle, whatever others do to the    *)
(* documents and the cache meanwhile: to answer every request it is enough *)
(* that handlers go on.                                                    *)
HandlersProgress == [][\A c \in Clients : Forward(c) \/ ~Handle(c)]_vars

(* Every request is answered or cut off by the end of the process, however *)
(* references run in circles below an embedded document, and whatever is   *)
(* cached while Redis is scanned.                                          *)
RequestsEnd == \A c \in Clients : (req[c] # NoReq) ~> (req[c] = NoReq)

(* Whoever follows the pages of a list that stays as it is, from the first *)
(* to the last of total_pages, meets every document once and no page       *)
(* without one, whatever the size of the pages, as long as an int can      *)
(* count the rows and one page less a row more.                            *)
PagesCover ==
    \A t \in Types : \A n \in 1 .. MaxPerPage :
        LET ids   == IdsOf(docs, t)
            pages == 1 .. TotalPages(Cardinality(ids), n)
        IN Cardinality(ids) + n - 1 <= IntMax =>
           /\ \A i \in ids : \E p \in pages : i \in PageIds(ids, p, n)
           /\ \A p, q \in pages : p # q => PageIds(ids, p, n) \cap PageIds(ids, q, n) = {}
           /\ \A p \in pages : PageIds(ids, p, n) # {} /\ ~Panics(p, n, Cardinality(ids))

(* A patch stores the merge with the present document if nobody wrote it   *)
(* since the patch read it.                                                *)
LonePatchKeeps ==
    [][\A c \in Clients :
         StoreUpdate(c) /\ req[c].kind = "patch" /\ c \in still /\ key[c] \in DOMAIN docs =>
             docs'[key[c]] = Patched(docs[key[c]], Decoded(req[c].body))]_vars

(* A patch leaves the fields alone that it does not name.                  *)
PatchKeepsRest ==
    [][\A c \in Clients : StoreUpdate(c) /\ req[c].kind = "patch" /\ key[c] \in DOMAIN docs =>
         \A f \in Fields : Decoded(req[c].body)[f] = Absent =>
                               docs'[key[c]][f] = docs[key[c]][f]]_vars

(* A delete leaves no document that refers to the one it deletes.          *)
CascadeCompletes ==
    [][\A c \in Clients : At(c, "invalidate") /\ req[c].kind = "delete" /\ Invalidate(c) =>
         \A k \in DOMAIN docs : \A f \in Refs(docs[k]) : Target(docs[k], f) # key[c]]_vars

(* A cached answer has the references embedded if the request asks for it. *)
EmbedsAsAsked ==
    [][\A c \in Clients :
         CacheGet(c) /\ At(c, "cache") /\ req[c].kind = "get" /\ Embeds(req[c]) /\ req'[c] = NoReq =>
            LET view == cache[EntryOf(c)].view IN
            \A f \in Refs(view[<<>>]) : Target(view[<<>>], f) \in DOMAIN docs =>
                                            <<f>> \in DOMAIN view]_vars

(* A schema that was posted stays in force.                                *)
SchemasStay == [][\A t \in Types : schemas[t] # NoSchema => schemas'[t] # NoSchema]_vars
==============================================================================
