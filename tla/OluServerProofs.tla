--------------------------- MODULE OluServerProofs ---------------------------
(***************************************************************************)
(* Proofs about OluServer, for any number of clients, types, fields,       *)
(* requests, schemas and restarts: types, the schemas of what is stored,   *)
(* the edges of references, what a delete detaches, the pages of lists.    *)
(***************************************************************************)
EXTENDS OluServer, FiniteSetTheorems, TLAPS

(***************************************************************************)
(* Types.                                                                  *)
(***************************************************************************)
LEMMA IdsAreInts == Ids \subseteq Int /\ 0 \in Ids
  BY IntWidth DEF Ids, MinInt

LEMMA RequestType ==
    ASSUME NEW o \in Requests
    PROVE  /\ o.kind \in Kinds /\ o.key \in Keys /\ Decoded(o.body) \in Documents
           /\ o.schema \in Schemas \cup {NoSchema} /\ o # NoReq
           /\ o.kind \in {"get", "list"} => EntryFor(o) \in ReadKeys
  <1>1. o \in Request /\ o # NoReq
    BY RequestsAreRequests
  <1>2. EmptyDoc \in Documents
    BY DEF EmptyDoc, Documents
  <1> QED
    BY <1>1, <1>2 DEF Request, Bodies, Decoded, ReadKeys

LEMMA NoKeyType == NoKey \in Keys /\ EmptyDoc \in Documents
  <1>1. (CHOOSE t \in Types : TRUE) \in Types
    BY SomeType
  <1> QED
    BY <1>1, IdsAreInts DEF NoKey, Keys, EmptyDoc, Documents

LEMMA PatchedType ==
    ASSUME NEW d \in Documents, NEW p \in Documents PROVE Patched(d, p) \in Documents
  BY DEF Patched, Documents

(* The kinds of requests that come to a step.                              *)
InStep(s, k) ==
    /\ s \in {"cache", "fill"} => k \in {"get", "list"}
    /\ s = "get" => k \in {"get", "patch"}
    /\ s = "list" => k = "list"
    /\ s = "embed" => k = "get"
    /\ s = "exists" => k \in {"delete", "save"}
    /\ s \in {"validate", "store", "node", "edges"} => k \in {"create", "update", "patch", "save"}
    /\ s \in {"delete", "unlink"} => k = "delete"
    /\ s \in {"invalidate", "scan"} => k \in {"create", "update", "patch", "save", "delete"}
    /\ s = "schema" => k = "schema"

LocalOK ==
    /\ req \in [Clients -> Requests \cup {NoReq}]
    /\ pc \in [Procs -> Steps]
    /\ key \in [Procs -> Keys] /\ doc \in [Procs -> Documents]
    /\ still \subseteq Clients
    /\ pc[Main] \in {"idle", "node", "edges"}
    /\ \A c \in Clients : /\ At(c, "idle") <=> req[c] = NoReq
                          /\ ~At(c, "idle") => InStep(pc[c], req[c].kind)

PhaseOK ==
    /\ phase \in {"loading", "serving", "exiting"} /\ stops \in 0 .. MaxStops
    /\ toLoad \subseteq DOMAIN docs
    /\ phase = "loading" => \A c \in Clients : At(c, "idle")
    /\ phase # "loading" => At(Main, "idle") /\ toLoad = {}

StoreOK == /\ DOMAIN docs \subseteq Keys /\ docs \in [DOMAIN docs -> Documents]
           /\ torn \subseteq Keys \ DOMAIN docs /\ (SQLite => torn = {})
           /\ DOMAIN seq \subseteq Types /\ seq \in [DOMAIN seq -> MinInt .. Overflow]

MarksOK == /\ schemas \in [Types -> Schemas \cup {NoSchema}]
           /\ DOMAIN cache \subseteq ReadKeys
           /\ cut \subseteq Keys /\ raced \subseteq Keys /\ rewritten \subseteq Keys
           /\ ungoverned \subseteq Types
           /\ spoiled \subseteq DOMAIN cache

TypeInv == LocalOK /\ PhaseOK /\ StoreOK /\ MarksOK

LEMMA TypeFollows == TypeInv => TypeOK
  BY DEF TypeInv, LocalOK, PhaseOK, StoreOK, MarksOK, TypeOK

LEMMA MainIsNoClient == Main \in Procs /\ Main \notin Clients /\ Clients \subseteq Procs
  BY ServerMarks DEF Procs

LEMMA LoadedType ==
    ASSUME NEW ts \in NotLoaded
    PROVE  ts \subseteq Types /\ LoadedBut(ts) \in [Types -> Schemas \cup {NoSchema}]
  BY SchemasAreSchemas DEF NotLoaded, LoadedBut

LEMMA TypeInit == Init => TypeInv
  <1> SUFFICES ASSUME Init PROVE TypeInv
    OBVIOUS
  <1>1. LocalOK
    BY NoKeyType, MainIsNoClient DEF Init, LocalOK, Steps, At
  <1>2. PhaseOK
    BY ServerFlags, MainIsNoClient DEF Init, PhaseOK, At
  <1>3. StoreOK
    BY DEF Init, StoreOK, EmptyMap
  <1>4. MarksOK
    BY LoadedType DEF Init, MarksOK, EmptyMap
  <1> QED
    BY <1>1, <1>2, <1>3, <1>4 DEF TypeInv

(* A client's step leaves main where it is.                                *)
LEMMA ClosesLocal ==
    ASSUME LocalOK, NEW c \in Clients, Closes(c), still' \subseteq Clients PROVE LocalOK'
  BY NoKeyType, MainIsNoClient DEF Closes, Advance, LocalOK, At, Steps

LEMMA FinishLocal == ASSUME LocalOK, NEW c \in Clients, Finish(c) PROVE LocalOK'
  BY ClosesLocal DEF Finish, LocalOK

LEMMA AdvanceLocal ==
    ASSUME LocalOK, NEW c \in Clients, ~At(c, "idle"), NEW s \in Steps \ {"idle"}, Advance(c, s),
           InStep(s, req[c].kind), req' = req,
           key' \in [Procs -> Keys], doc' \in [Procs -> Documents], still' \subseteq Clients
    PROVE  LocalOK'
  BY MainIsNoClient DEF Advance, LocalOK, At

LEMMA GotoLocal ==
    ASSUME LocalOK, NEW c \in Clients, ~At(c, "idle"), NEW s \in Steps \ {"idle"}, Goto(c, s),
           InStep(s, req[c].kind)
    PROVE  LocalOK'
  BY AdvanceLocal DEF Goto, local, LocalOK

LEMMA ClientPhase ==
    ASSUME LocalOK, PhaseOK, NEW c \in Clients, NEW s, Advance(c, s),
           ~At(c, "idle") \/ phase # "loading", UNCHANGED process
    PROVE  PhaseOK'
  BY MainIsNoClient DEF Advance, LocalOK, PhaseOK, At, process

LEMMA BeforeLocal ==
    ASSUME LocalOK, StoreOK, NEW c \in Clients, Receive(c) \/ Before(c) PROVE LocalOK'
  <1>1. CASE Receive(c)
    <2>1. PICK o \in Requests : /\ req' = [req EXCEPT ![c] = o]
                               /\ key' = [key EXCEPT ![c] = o.key]
                               /\ doc' = [doc EXCEPT ![c] = Decoded(o.body)]
                               /\ pc' = [pc EXCEPT ![c] = Entry(o)]
      BY <1>1 DEF Receive, Advance
    <2>2. Entry(o) \in Steps \ {"idle"} /\ InStep(Entry(o), o.kind)
      <3>1. o.kind \in Kinds
        BY RequestType
      <3> QED
        BY <3>1 DEF Entry, Kinds, Steps, InStep
    <2>3. still' = still
      BY <1>1 DEF Receive
    <2> QED
      BY <2>1, <2>2, <2>3, RequestType, MainIsNoClient DEF LocalOK, At
  <1>2. CASE Exists(c)
    <2>1. ~At(c, "idle") /\ (\/ Finish(c)
                             \/ req[c].kind = "delete" /\ Goto(c, "delete")
                             \/ req[c].kind = "save" /\ Goto(c, "validate"))
      BY <1>2 DEF Exists, At
    <2> QED
      BY <2>1, FinishLocal, GotoLocal DEF InStep, Steps
  <1>3. CASE PatchGet(c)
    <2>1. CASE key[c] \notin DOMAIN docs
      BY <1>3, <2>1, FinishLocal DEF PatchGet
    <2>2. CASE key[c] \in DOMAIN docs
      <3>1. req[c] \in Requests
        BY <1>3, MainIsNoClient DEF PatchGet, LocalOK, At
      <3>2. Patched(docs[key[c]], Decoded(req[c].body)) \in Documents
        BY <2>2, <3>1, PatchedType, RequestType DEF StoreOK
      <3>3. doc' \in [Procs -> Documents] /\ still' \subseteq Clients /\ UNCHANGED <<req, key>>
        BY <1>3, <2>2, <3>2 DEF PatchGet, LocalOK
      <3> QED
        BY <1>3, <2>2, <3>3, AdvanceLocal DEF PatchGet, InStep, Steps, At, LocalOK
    <2> QED
      BY <2>1, <2>2
  <1>4. CASE Validate(c)
    <2>1. ~At(c, "idle") /\ InStep("store", req[c].kind)
      BY <1>4 DEF Validate, At, LocalOK, InStep
    <2> QED
      BY <1>4, <2>1, FinishLocal, GotoLocal DEF Validate, Steps
  <1>5. CASE PostSchema(c)
    BY <1>5, FinishLocal DEF PostSchema
  <1> QED
    BY <1>1, <1>2, <1>3, <1>4, <1>5 DEF Before

LEMMA WroteLocal ==
    ASSUME LocalOK, NEW c \in Clients, At(c, "store"), NEW k \in Keys, NEW d, Wrote(c, k, d)
    PROVE  LocalOK'
  <1>1. key' \in [Procs -> Keys] /\ still' \subseteq Clients /\ UNCHANGED <<req, doc>>
    BY DEF Wrote, LocalOK, Overtake
  <1>2. InStep("node", req[c].kind) /\ InStep("invalidate", req[c].kind)
    BY DEF LocalOK, InStep, At
  <1> QED
    BY <1>1, <1>2, AdvanceLocal DEF Wrote, Steps, At, LocalOK

LEMMA StepKey ==
    ASSUME LocalOK, NEW c \in Clients PROVE key[c] \in Keys /\ doc[c] \in Documents
  BY MainIsNoClient DEF LocalOK

LEMMA CreatedKey ==
    ASSUME LocalOK, NEW c \in Clients, NEW i \in IdsLeft(key[c][1])
    PROVE  key[c][1] \in Types /\ i \in Ids /\ <<key[c][1], i>> \in Keys
  <1>1. key[c][1] \in Types /\ i \in Ids
    BY StepKey, ServerFlags DEF Keys, IdsLeft
  <1> QED
    BY <1>1 DEF Keys

(* The file a write of c breaks.                                           *)
LEMMA BrokenKey ==
    ASSUME LocalOK, NEW c \in Clients, WriteBreaks(c)
    PROVE  \E k \in Keys :
              /\ Breaks(c, k) /\ k[1] = key[c][1]
              /\ seq' = seq \/ \E i \in IdsLeft(key[c][1]) : seq' = Put(seq, key[c][1], i)
  <1>1. CASE Breaks(c, key[c]) /\ seq' = seq
    BY <1>1, StepKey
  <1>2. CASE \E i \in IdsLeft(key[c][1]) : seq' = Put(seq, key[c][1], i)
                                         /\ Breaks(c, <<key[c][1], i>>)
    BY <1>2, CreatedKey
  <1> QED
    BY <1>1, <1>2 DEF WriteBreaks

LEMMA StoreLocal ==
    ASSUME LocalOK, StoreOK, NEW c \in Clients, Store(c) PROVE LocalOK'
  <1>1. CASE StoreCreate(c)
    <2>1. CASE Finish(c)
      BY <2>1, FinishLocal
    <2>2. CASE ~Finish(c)
      <3>1. \E i \in IdsLeft(key[c][1]) : Wrote(c, <<key[c][1], i>>, doc[c])
        BY <1>1, <2>2 DEF StoreCreate
      <3> QED
        BY <1>1, <3>1, CreatedKey, WroteLocal DEF StoreCreate
    <2> QED
      BY <2>1, <2>2
  <1>2. CASE StoreUpdate(c) \/ StoreSave(c)
    <2>1. At(c, "store") /\ (Finish(c) \/ Wrote(c, key[c], doc[c]))
      BY <1>2 DEF StoreUpdate, StoreSave
    <2> QED
      BY <2>1, FinishLocal, WroteLocal, StepKey
  <1>3. CASE StoreDelete(c)
    <2>1. /\ InStep("unlink", req[c].kind) /\ InStep("invalidate", req[c].kind)
          /\ ~At(c, "idle") /\ UNCHANGED <<req, key, doc>> /\ still' \subseteq Clients
      BY <1>3 DEF StoreDelete, Overtake, LocalOK, InStep, At
    <2> QED
      BY <1>3, <2>1, AdvanceLocal DEF StoreDelete, AfterDelete, Steps, LocalOK
  <1>4. CASE DeleteFails(c)
    <2>1. InStep("unlink", req[c].kind) /\ InStep("invalidate", req[c].kind) /\ ~At(c, "idle")
      BY <1>4 DEF DeleteFails, LocalOK, InStep, At
    <2> QED
      BY <1>4, <2>1, FinishLocal, GotoLocal DEF DeleteFails, AfterDelete, Steps
  <1>5. CASE StoreFails(c)
    BY <1>5, FinishLocal DEF StoreFails
  <1>6. CASE WriteBreaks(c)
    <2>1. PICK k : Breaks(c, k)
      BY <1>6, BrokenKey
    <2>2. still' \subseteq Clients
      BY <2>1 DEF Breaks, LocalOK
    <2> QED
      BY <2>1, <2>2, ClosesLocal DEF Breaks
  <1> QED
    BY <1>1, <1>2, <1>3, <1>4, <1>5, <1>6 DEF Store

LEMMA RelinkLocal ==
    ASSUME LocalOK, NEW p \in Procs, Relink(p) PROVE LocalOK'
  <1>1. /\ pc[p] \in {"node", "edges"} /\ UNCHANGED <<req, key, doc, still>>
        /\ \/ Advance(p, "edges")
           \/ p = Main /\ Advance(p, "idle")
           \/ p \in Clients /\ Advance(p, "invalidate")
    BY DEF Relink, UpdateNode, UpdateEdge, LinkNext, At, Procs
  <1>2. CASE p \in Clients
    <2>1. /\ InStep("edges", req[p].kind) /\ InStep("invalidate", req[p].kind)
          /\ ~At(p, "idle") /\ p # Main
      BY <1>1, <1>2, MainIsNoClient DEF LocalOK, InStep, At
    <2> QED
      BY <1>1, <1>2, <2>1, AdvanceLocal DEF LocalOK, Steps
  <1>3. CASE p = Main
    BY <1>1, <1>3, MainIsNoClient DEF LocalOK, Advance, Steps, At
  <1> QED
    BY <1>2, <1>3 DEF Procs

LEMMA CleanLocal ==
    ASSUME LocalOK, NEW c \in Clients, Unlinks(c) \/ GraphPanics(c) \/ Clean(c) PROVE LocalOK'
  <1>1. CASE Finish(c)
    BY <1>1, FinishLocal
  <1>2. CASE Unlinks(c)
    <2>1. InStep("invalidate", req[c].kind) /\ ~At(c, "idle")
      BY <1>2 DEF Unlinks, LocalOK, InStep, At
    <2> QED
      BY <1>2, <2>1, GotoLocal DEF Unlinks, Steps
  <1>3. CASE Scan(c)
    <2>1. InStep("scan", req[c].kind) /\ ~At(c, "idle")
      BY <1>3 DEF Scan, LocalOK, InStep, At
    <2> QED
      BY <1>3, <2>1, AdvanceLocal DEF Scan, Steps, LocalOK
  <1>4. CASE DeletePage(c)
    BY <1>1, <1>4 DEF DeletePage, LocalOK, At
  <1> QED
    BY <1>1, <1>2, <1>3, <1>4 DEF GraphPanics, Clean, Invalidate, ScanFails

LEMMA QueryLocal ==
    ASSUME LocalOK, NEW c \in Clients, Query(c) PROVE LocalOK'
  <1>1. CASE Finish(c)
    BY <1>1, FinishLocal
  <1>2. CASE CacheGet(c) /\ ~Finish(c)
    <2>1. Goto(c, req[c].kind) /\ req[c].kind \in {"get", "list"} /\ ~At(c, "idle")
      BY <1>2 DEF CacheGet, LocalOK, InStep, At
    <2> QED
      BY <2>1, GotoLocal DEF InStep, Steps
  <1>3. CASE ~Finish(c) /\ (StoreGet(c) \/ EmbedOne(c))
    <2>1. PICK view, paths : Embed(c, view, paths)
      BY <1>3 DEF StoreGet, EmbedOne
    <2>2. /\ InStep("fill", req[c].kind) /\ InStep("embed", req[c].kind)
          /\ ~At(c, "idle") /\ still' \subseteq Clients
      BY <1>3 DEF StoreGet, EmbedOne, LocalOK, InStep, At
    <2> QED
      BY <2>1, <2>2, AdvanceLocal DEF Embed, Steps, LocalOK
  <1>4. CASE ~Finish(c) /\ StoreList(c)
    <2>1. /\ Advance(c, "fill") /\ InStep("fill", req[c].kind)
          /\ ~At(c, "idle") /\ still' \subseteq Clients /\ UNCHANGED <<req, key, doc>>
      BY <1>4 DEF StoreList, LocalOK, InStep, At
    <2> QED
      BY <2>1, AdvanceLocal DEF Steps, LocalOK
  <1> QED
    BY <1>1, <1>2, <1>3, <1>4 DEF Query, Fill, FillFails

(* Every step of a client moves the client alone.                          *)
Moves(c) == /\ UNCHANGED process /\ (~At(c, "idle") \/ phase # "loading")
            /\ (\E s : Advance(c, s)) \/ pc' = pc

LEMMA ClientMoves == ASSUME NEW c \in Clients, Receive(c) \/ Handle(c) PROVE Moves(c)
  <1>1. /\ Finish(c) => \E s : Advance(c, s)
        /\ \A k : Breaks(c, k) => \E s : Advance(c, s)
    BY DEF Finish, Breaks, Closes
  <1>2. \A s : Goto(c, s) => Advance(c, s)
    BY DEF Goto
  <1>3. ASSUME NEW k, NEW d, Wrote(c, k, d) PROVE \E s : Advance(c, s)
    BY <1>3 DEF Wrote
  <1>4. CASE Receive(c) \/ Before(c)
    BY <1>1, <1>2, <1>4 DEF Receive, Before, Exists, PatchGet, Validate, PostSchema, At, Moves
  <1>5. CASE StoreCreate(c)
    BY <1>1, <1>3, <1>5 DEF StoreCreate, At, Moves
  <1>6. CASE Store(c) /\ ~StoreCreate(c)
    BY <1>1, <1>2, <1>3, <1>6 DEF Store, StoreUpdate, StoreSave, StoreDelete, DeleteFails,
                                  StoreFails, WriteBreaks, At, Moves
  <1>7. CASE Regraph(c)
    <2>1. ASSUME NEW rest, LinkNext(c, rest) PROVE UNCHANGED process /\ \E s : Advance(c, s)
      BY <2>1 DEF LinkNext, process
    <2>2. CASE Relink(c)
      BY <2>1, <2>2 DEF Relink, UpdateNode, UpdateEdge, At, Moves
    <2> QED
      BY <1>1, <1>2, <1>7, <2>2 DEF Regraph, Unlinks, GraphPanics, At, Moves
  <1>8. CASE Clean(c)
    BY <1>1, <1>2, <1>8 DEF Clean, Invalidate, Scan, DeletePage, ScanFails, At, Moves
  <1>9. CASE Query(c)
    <2>1. ASSUME NEW view, NEW paths, Embed(c, view, paths) PROVE \E s : Advance(c, s)
      BY <2>1 DEF Embed
    <2>2. CASE EmbedOne(c)
      BY <2>1, <2>2 DEF EmbedOne, At, Moves
    <2> QED
      BY <1>1, <1>2, <1>9, <2>1, <2>2 DEF Query, CacheGet, StoreGet, StoreList, Fill, FillFails,
                                          At, Moves
  <1> QED
    BY <1>4, <1>5, <1>6, <1>7, <1>8, <1>9 DEF Handle

LEMMA ClientLocal ==
    ASSUME LocalOK, StoreOK, NEW c \in Clients, Receive(c) \/ Handle(c) PROVE LocalOK'
  BY BeforeLocal, StoreLocal, RelinkLocal, CleanLocal, QueryLocal, MainIsNoClient
     DEF Handle, Regraph

LEMMA ClientPhases ==
    ASSUME LocalOK, PhaseOK, NEW c \in Clients, Receive(c) \/ Handle(c) PROVE PhaseOK'
  <1>1. Moves(c)
    BY ClientMoves
  <1>2. CASE pc' = pc
    BY <1>1, <1>2 DEF Moves, PhaseOK, At, process, LocalOK
  <1> QED
    BY <1>1, <1>2, ClientPhase DEF Moves

LEMMA PutDoc ==
    ASSUME StoreOK, NEW k \in Keys, NEW d \in Documents
    PROVE  /\ DOMAIN Put(docs, k, d) \subseteq Keys
           /\ Put(docs, k, d) \in [DOMAIN Put(docs, k, d) -> Documents]
  BY DEF StoreOK, Put

LEMMA PutSeq ==
    ASSUME StoreOK, NEW t \in Types, NEW n \in MinInt .. Overflow, seq' = Put(seq, t, n)
    PROVE  DOMAIN seq' \subseteq Types /\ seq' \in [DOMAIN seq' -> MinInt .. Overflow]
  BY DEF StoreOK, Put

(* Only calls of the store change the store.                               *)
LEMMA OthersStore ==
    ASSUME NEW c \in Clients, Receive(c) \/ Handle(c), ~Store(c) PROVE UNCHANGED store
  BY DEF Handle, Receive, Before, Exists, PatchGet, Validate, PostSchema, Regraph, Relink,
         UpdateNode, UpdateEdge, LinkNext, Unlinks, GraphPanics, Clean, Invalidate, Scan,
         DeletePage, ScanFails, Query, CacheGet, StoreGet, EmbedOne, StoreList, Fill, FillFails

LEMMA SeqOfSave ==
    ASSUME StoreOK, NEW k \in Keys
    PROVE  SaveSeq(k) = seq \/ \E n \in MinInt .. Overflow : SaveSeq(k) = Put(seq, k[1], n)
  <1>1. k[2] \in MinInt .. MaxInt /\ k[1] \in Types
    BY DEF Keys, Ids
  <1>2. GoSucc(k[2]) \in MinInt .. MaxInt
    BY <1>1, IntWidth DEF GoSucc, MinInt
  <1>3. SqlSucc(GoSucc(k[2])) \in MinInt .. Overflow /\ GoSucc(k[2]) \in MinInt .. Overflow
    BY <1>2, IntWidth DEF SqlSucc, Overflow, MinInt
  <1>4. CASE k[1] \in DOMAIN seq
    <2>1. seq[k[1]] \in MinInt .. Overflow
      BY <1>4 DEF StoreOK
    <2>2. SqlMax(seq[k[1]], SqlSucc(GoSucc(k[2]))) \in MinInt .. Overflow
      BY <1>3, <2>1 DEF SqlMax
    <2> QED
      BY <1>4, <2>2 DEF SaveSeq
  <1>5. CASE k[1] \notin DOMAIN seq
    BY <1>3, <1>5 DEF SaveSeq
  <1> QED
    BY <1>4, <1>5

(* Nothing is both stored and torn, whatever is written, broken or deleted. *)
LEMMA TornApart ==
    ASSUME StoreOK, NEW k \in Keys,
           \/ (\E d : docs' = Put(docs, k, d)) /\ torn' = torn \ {k}
           \/ docs' = Drop(docs, k) /\ torn' = torn \ {k}
           \/ docs' = Drop(docs, k) /\ torn' = torn \cup {k} /\ ~SQLite
    PROVE  torn' \subseteq Keys \ DOMAIN docs' /\ (SQLite => torn' = {})
  BY DEF StoreOK, Put, Drop

LEMMA ClientStore ==
    ASSUME LocalOK, StoreOK, NEW c \in Clients, Receive(c) \/ Handle(c) PROVE StoreOK'
  <1> DEFINE t == key[c][1]
             SeqOK == DOMAIN seq \subseteq Types /\ seq \in [DOMAIN seq -> MinInt .. Overflow]
  <1>0. t \in Types /\ key[c] \in Keys /\ doc[c] \in Documents
    BY StepKey DEF Keys
  <1>1. CASE UNCHANGED store
    BY <1>1 DEF store, StoreOK
  <1>2. ASSUME seq' = seq \/ \E i \in IdsLeft(t) : seq' = Put(seq, t, i) PROVE SeqOK'
    <2>1. ASSUME NEW i \in IdsLeft(t), seq' = Put(seq, t, i) PROVE SeqOK'
      <3>1. i \in Ids
        BY <2>1, CreatedKey
      <3>2. i \in MinInt .. Overflow
        BY <3>1, IntWidth DEF Ids, MinInt, Overflow
      <3> QED
        BY <1>0, <2>1, <3>2, PutSeq
    <2> QED
      BY <1>2, <2>1 DEF StoreOK
  <1>3. ASSUME NEW k \in Keys, Wrote(c, k, doc[c]), SeqOK' PROVE StoreOK'
    <2>1. docs' = Put(docs, k, doc[c]) /\ torn' = torn \ {k}
      BY <1>3 DEF Wrote
    <2> QED
      BY <1>0, <1>3, <2>1, PutDoc, TornApart DEF StoreOK
  <1>4. CASE StoreCreate(c) /\ ~UNCHANGED store
    <2>1. PICK i \in IdsLeft(t) : /\ seq' = Put(seq, t, i)
                                  /\ UNCHANGED <<docs, torn>> \/ Wrote(c, <<t, i>>, doc[c])
      BY <1>4 DEF StoreCreate, store
    <2>2. SeqOK'
      BY <1>2, <2>1
    <2>3. <<t, i>> \in Keys
      BY <2>1, CreatedKey
    <2>4. CASE UNCHANGED <<docs, torn>>
      BY <2>2, <2>4 DEF StoreOK
    <2> QED
      BY <1>3, <2>1, <2>2, <2>3, <2>4
  <1>5. CASE StoreUpdate(c)
    <2>1. seq' = seq /\ (UNCHANGED <<docs, torn>> \/ Wrote(c, key[c], doc[c]))
      BY <1>5 DEF StoreUpdate
    <2>2. SeqOK'
      BY <1>2, <2>1
    <2>3. CASE UNCHANGED <<docs, torn>>
      BY <2>1, <2>3 DEF StoreOK
    <2> QED
      BY <1>0, <1>3, <2>1, <2>2, <2>3
  <1>6. CASE StoreSave(c) /\ ~UNCHANGED store
    <2>1. seq' = SaveSeq(key[c]) /\ Wrote(c, key[c], doc[c])
      BY <1>6 DEF StoreSave, store
    <2>2. SeqOK'
      BY <1>0, <2>1, SeqOfSave, PutSeq DEF StoreOK
    <2> QED
      BY <1>0, <1>3, <2>1, <2>2
  <1>7. CASE StoreDelete(c)
    <2>1. docs' = Drop(docs, key[c]) /\ torn' = torn \ {key[c]} /\ seq' = seq
      BY <1>7 DEF StoreDelete
    <2>2. DOMAIN docs' \subseteq Keys /\ docs' \in [DOMAIN docs' -> Documents]
      BY <2>1 DEF StoreOK, Drop
    <2> QED
      BY <1>0, <2>1, <2>2, TornApart DEF StoreOK
  <1>8. CASE StoreFails(c)
    <2>1. SeqOK'
      BY <1>2, <1>8 DEF StoreFails
    <2> QED
      BY <1>8, <2>1 DEF StoreFails, StoreOK
  <1>9. CASE WriteBreaks(c)
    <2>1. PICK k \in Keys :
             /\ Breaks(c, k)
             /\ seq' = seq \/ \E i \in IdsLeft(t) : seq' = Put(seq, t, i)
      BY <1>9, BrokenKey
    <2>2. docs' = Drop(docs, k) /\ torn' = torn \cup {k} /\ ~SQLite
      BY <1>9, <2>1 DEF Breaks, WriteBreaks
    <2>3. DOMAIN docs' \subseteq Keys /\ docs' \in [DOMAIN docs' -> Documents]
      BY <2>2 DEF StoreOK, Drop
    <2>4. SeqOK'
      BY <1>2, <2>1
    <2> QED
      BY <2>2, <2>3, <2>4, TornApart DEF StoreOK
  <1>10. CASE DeleteFails(c)
    BY <1>1, <1>10 DEF DeleteFails
  <1> QED
    BY <1>1, <1>4, <1>5, <1>6, <1>7, <1>8, <1>9, <1>10, OthersStore DEF Store

LEMMA FillEntry ==
    ASSUME LocalOK, NEW c \in Clients, pc[c] \in {"cache", "fill"}
    PROVE  EntryOf(c) \in ReadKeys /\ req[c] \in Requests
  <1>1. req[c] \in Requests /\ req[c].kind \in {"get", "list"}
    BY DEF LocalOK, At, InStep
  <1> QED
    BY <1>1, RequestType DEF EntryOf

LEMMA SpoilType ==
    ASSUME MarksOK, NEW c \in Clients, Spoil(c), cache' = cache
    PROVE  spoiled' \subseteq DOMAIN cache'
  BY DEF MarksOK, Spoil, Matching

LEMMA EvictType ==
    ASSUME MarksOK, NEW es, Evict(es)
    PROVE  DOMAIN cache' \subseteq ReadKeys /\ spoiled' \subseteq DOMAIN cache'
  BY DEF MarksOK, Evict, Without

LEMMA ClientMarks ==
    ASSUME LocalOK, StoreOK, MarksOK, NEW c \in Clients, Receive(c) \/ Handle(c) PROVE MarksOK'
  <1>1. CASE UNCHANGED <<schemas, cache, past>>
    BY <1>1 DEF MarksOK, past
  <1>2. CASE PostSchema(c)
    <2>1. /\ schemas' = [schemas EXCEPT ![key[c][1]] = req[c].schema]
          /\ ungoverned' = ungoverned \cup {key[c][1]} /\ UNCHANGED <<cache, cut, raced, spoiled, rewritten>>
      BY <1>2 DEF PostSchema
    <2>2. req[c] \in Requests /\ key[c][1] \in Types
      BY <1>2, StepKey DEF PostSchema, LocalOK, At, Keys
    <2>3. req[c].schema \in Schemas \cup {NoSchema}
      BY <2>2, RequestType
    <2> QED
      BY <2>1, <2>2, <2>3 DEF MarksOK
  <1>3. CASE StoreDelete(c)
    BY <1>3, StepKey DEF StoreDelete, MarksOK, memory
  <1>4. CASE GraphPanics(c) \/ ScanFails(c)
    <2>1. Spoil(c) /\ UNCHANGED <<schemas, cache, cut, raced, ungoverned, rewritten>>
      BY <1>4 DEF GraphPanics, ScanFails, memory
    <2> QED
      BY <2>1, SpoilType DEF MarksOK
  <1>5. CASE Invalidate(c) \/ DeletePage(c)
    <2>1. UNCHANGED <<schemas, cut, raced, ungoverned, rewritten>> /\ \E es : Evict(es)
      BY <1>5 DEF Invalidate, DeletePage
    <2> QED
      BY <2>1, EvictType DEF MarksOK
  <1>6. CASE Fill(c)
    <2>1. EntryOf(c) \in ReadKeys
      BY <1>6, FillEntry DEF Fill, At
    <2>2. /\ cache' = Put(cache, EntryOf(c), answer[c])
          /\ spoiled' \subseteq spoiled \cup {EntryOf(c)}
          /\ UNCHANGED <<schemas, cut, raced, ungoverned, rewritten>>
      BY <1>6 DEF Fill
    <2> QED
      BY <2>1, <2>2 DEF MarksOK, Put
  <1>7. CASE (Receive(c) \/ Before(c)) /\ ~PostSchema(c)
    BY <1>1, <1>7 DEF Receive, Before, Exists, PatchGet, Validate, memory
  <1>11. CASE WriteBreaks(c)
    <2>1. PICK k \in Keys : Breaks(c, k)
      BY <1>11, BrokenKey
    <2>2. /\ rewritten' = rewritten \cup {k} /\ (Spoil(c) \/ spoiled' = spoiled)
          /\ UNCHANGED <<schemas, cache, cut, raced, ungoverned>>
      BY <1>11, <2>1 DEF Breaks, WriteBreaks, memory
    <2>3. spoiled' \subseteq DOMAIN cache'
      BY <2>2, SpoilType DEF MarksOK
    <2> QED
      BY <2>2, <2>3 DEF MarksOK
  <1>8. CASE Store(c) /\ ~StoreDelete(c) /\ ~WriteBreaks(c)
    <2>1. UNCHANGED <<schemas, cache, cut, raced, ungoverned, spoiled>>
      BY <1>8 DEF Store, StoreCreate, StoreUpdate, StoreSave, DeleteFails, StoreFails, memory, past
    <2>2. ASSUME NEW k, NEW d, Wrote(c, k, d) PROVE rewritten' \subseteq rewritten \cup Present
      BY <2>2 DEF Wrote
    <2>3. rewritten' \subseteq rewritten \cup Present
      BY <1>8, <2>2 DEF Store, StoreCreate, StoreUpdate, StoreSave, DeleteFails, StoreFails, past
    <2> QED
      BY <2>1, <2>3 DEF MarksOK, StoreOK, Present
  <1>9. CASE Relink(c) \/ Unlinks(c)
    BY <1>1, <1>9 DEF Relink, UpdateNode, UpdateEdge, LinkNext, Unlinks
  <1>10. CASE Scan(c) \/ CacheGet(c) \/ StoreGet(c) \/ EmbedOne(c) \/ StoreList(c) \/ FillFails(c)
    BY <1>1, <1>10 DEF Scan, CacheGet, StoreGet, EmbedOne, StoreList, FillFails, memory
  <1> QED
    BY <1>2, <1>3, <1>4, <1>5, <1>6, <1>7, <1>8, <1>9, <1>10, <1>11
       DEF Handle, Regraph, Clean, Query

LEMMA ClientType ==
    ASSUME TypeInv, NEW c \in Clients, Receive(c) \/ Handle(c) PROVE TypeInv'
  BY ClientLocal, ClientPhases, ClientStore, ClientMarks DEF TypeInv

LEMMA ExpireType == ASSUME TypeInv, NEW e, Expire(e) PROVE TypeInv'
  <1>1. LocalOK' /\ PhaseOK' /\ StoreOK'
    BY DEF Expire, TypeInv, LocalOK, PhaseOK, StoreOK, At, local, store, process
  <1>2. MarksOK'
    BY EvictType DEF Expire, TypeInv, MarksOK
  <1> QED
    BY <1>1, <1>2 DEF TypeInv

LEMMA LoadedDocs ==
    ASSUME StoreOK, PhaseOK, NEW k \in toLoad PROVE k \in Keys /\ docs[k] \in Documents
  BY DEF StoreOK, PhaseOK

LEMMA RestartType == ASSUME TypeInv, Restart PROVE TypeInv'
  <1>1. LocalOK'
    BY NoKeyType, MainIsNoClient DEF Restart, LocalOK, Steps, At
  <1>2. PhaseOK'
    <2>1. toLoad' \subseteq DOMAIN docs' /\ stops' = stops + 1 /\ stops < MaxStops
      BY DEF Restart, store
    <2>2. stops' \in 0 .. MaxStops
      BY <2>1, ServerFlags DEF TypeInv, PhaseOK
    <2> QED
      BY <2>1, <2>2, MainIsNoClient DEF Restart, PhaseOK, At
  <1>3. StoreOK'
    BY DEF Restart, store, TypeInv, StoreOK
  <1>4. MarksOK'
    <2>1. cut' \subseteq DOMAIN docs /\ raced' = {} /\ rewritten' = {}
      BY DEF Restart, NotListed
    <2>2. DOMAIN cache' \subseteq DOMAIN cache /\ spoiled' \subseteq DOMAIN cache'
      BY DEF Restart, EmptyMap
    <2>3. PICK ts \in NotLoaded : schemas' = LoadedBut(ts) /\ ungoverned' = ungoverned \cup ts
      BY DEF Restart
    <2>4. schemas' \in [Types -> Schemas \cup {NoSchema}] /\ ungoverned' \subseteq Types
      BY <2>3, LoadedType DEF TypeInv, MarksOK
    <2> QED
      BY <2>1, <2>2, <2>4 DEF TypeInv, MarksOK, StoreOK
  <1> QED
    BY <1>1, <1>2, <1>3, <1>4 DEF TypeInv

LEMMA ProcessType == ASSUME TypeInv, Process PROVE TypeInv'
  <1>1. CASE SaveAtExit \/ Serve
    <2>1. LocalOK' /\ StoreOK' /\ MarksOK'
      BY <1>1 DEF SaveAtExit, Serve, TypeInv, LocalOK, StoreOK, MarksOK, At, local, store, memory,
                  past
    <2>2. PhaseOK'
      BY <1>1, <2>1 DEF SaveAtExit, Serve, TypeInv, PhaseOK, At, store
    <2> QED
      BY <2>1, <2>2 DEF TypeInv
  <1>2. CASE LoadNext
    <2>1. PICK k \in toLoad : /\ toLoad' = toLoad \ {k} /\ key' = [key EXCEPT ![Main] = k]
                             /\ doc' = [doc EXCEPT ![Main] = docs[k]]
      BY <1>2 DEF LoadNext
    <2>2. k \in Keys /\ docs[k] \in Documents
      BY LoadedDocs DEF TypeInv
    <2>3. pc' = [pc EXCEPT ![Main] = "node"] /\ phase = "loading"
          /\ UNCHANGED <<docs, torn, seq, schemas, cache, phase, stops, req, still, cut, raced,
                         ungoverned, spoiled, rewritten>>
      BY <1>2 DEF LoadNext, Advance, store, memory, past
    <2>4. LocalOK'
      BY <2>1, <2>2, <2>3, MainIsNoClient DEF TypeInv, LocalOK, Steps, At
    <2>5. PhaseOK' /\ StoreOK' /\ MarksOK'
      BY <2>1, <2>3, MainIsNoClient DEF TypeInv, PhaseOK, StoreOK, MarksOK, At, LocalOK
    <2> QED
      BY <2>4, <2>5 DEF TypeInv
  <1>3. CASE Relink(Main)
    <2>1. LocalOK'
      BY <1>3, RelinkLocal, MainIsNoClient DEF TypeInv
    <2>2. /\ pc[Main] \in {"node", "edges"} /\ \E s : pc' = [pc EXCEPT ![Main] = s]
          /\ UNCHANGED <<docs, torn, seq, schemas, cache, phase, toLoad, stops, cut, raced,
                         ungoverned, spoiled, rewritten>>
      BY <1>3 DEF Relink, UpdateNode, UpdateEdge, LinkNext, Advance, At, store, past
    <2>3. PhaseOK' /\ StoreOK' /\ MarksOK'
      BY <2>2, MainIsNoClient DEF TypeInv, PhaseOK, StoreOK, MarksOK, At, LocalOK
    <2> QED
      BY <2>1, <2>3 DEF TypeInv
  <1> QED
    BY <1>1, <1>2, <1>3, RestartType DEF Process

LEMMA StutterType == ASSUME TypeInv, UNCHANGED vars PROVE TypeInv'
  BY DEF vars, TypeInv, LocalOK, PhaseOK, StoreOK, MarksOK, At, store, memory, process, local, past

LEMMA TypeStep == TypeInv /\ [Next]_vars => TypeInv'
  BY ClientType, ExpireType, ProcessType, StutterType DEF Next

(* Handlers, and main, make their calls in the order of the code; nothing  *)
(* is served while the graph is loaded, and keys, ids, documents and       *)
(* cached answers stay what they are meant to be.                          *)
THEOREM TypeCorrect == Spec => []TypeOK
  BY TypeInit, TypeStep, TypeFollows, PTL DEF Spec

(***************************************************************************)
(* A step of a process changes no local variable of another.               *)
(***************************************************************************)
Set(f, g, p) == g = f \/ \E x : g = [f EXCEPT ![p] = x]

Touches(p) == /\ Set(pc, pc', p) /\ Set(key, key', p) /\ Set(doc, doc', p) /\ Set(todo, todo', p)
              /\ Set(req, req', p) /\ Set(answer, answer', p)

LEMMA ClosesTouches == ASSUME NEW c, Closes(c) PROVE Touches(c)
  BY DEF Closes, Advance, Touches, Set

LEMMA FinishTouches == ASSUME NEW c, Finish(c) PROVE Touches(c)
  BY ClosesTouches DEF Finish

LEMMA GotoTouches == ASSUME NEW p, NEW s, Goto(p, s) PROVE Touches(p)
  BY DEF Goto, Advance, Touches, Set, local

LEMMA ClientTouches == ASSUME NEW c \in Clients, Receive(c) \/ Handle(c) PROVE Touches(c)
  <1>1. ASSUME NEW k, NEW d, Wrote(c, k, d) PROVE Touches(c)
    BY <1>1 DEF Wrote, Advance, Touches, Set
  <1>2. CASE Receive(c)
    BY <1>2 DEF Receive, Advance, Touches, Set
  <1>3. CASE PatchGet(c)
    BY <1>3, FinishTouches DEF PatchGet, Advance, Touches, Set
  <1>4. CASE Before(c) /\ ~PatchGet(c)
    BY <1>4, FinishTouches, GotoTouches DEF Before, Exists, Validate, PostSchema
  <1>5. CASE StoreDelete(c)
    BY <1>5 DEF StoreDelete, Advance, Touches, Set
  <1>6. CASE StoreCreate(c)
    BY <1>1, <1>6, FinishTouches DEF StoreCreate
  <1>7. CASE StoreUpdate(c) \/ StoreSave(c) \/ DeleteFails(c) \/ StoreFails(c)
    BY <1>1, <1>7, FinishTouches, GotoTouches DEF StoreUpdate, StoreSave, DeleteFails, StoreFails
  <1>16. CASE WriteBreaks(c)
    <2>1. ASSUME NEW k, Breaks(c, k) PROVE Touches(c)
      BY <2>1, ClosesTouches DEF Breaks
    <2> QED
      BY <1>16, <2>1 DEF WriteBreaks
  <1>8. CASE Relink(c)
    BY <1>8 DEF Relink, UpdateNode, UpdateEdge, LinkNext, Advance, Touches, Set
  <1>9. CASE Regraph(c) /\ ~Relink(c)
    BY <1>9, FinishTouches, GotoTouches DEF Regraph, Unlinks, GraphPanics
  <1>10. CASE Scan(c)
    BY <1>10 DEF Scan, Advance, Touches, Set
  <1>11. CASE DeletePage(c)
    BY <1>11, FinishTouches DEF DeletePage, Touches, Set
  <1>12. CASE Invalidate(c) \/ ScanFails(c)
    BY <1>12, FinishTouches DEF Invalidate, ScanFails
  <1>13. ASSUME NEW v, NEW ps, Embed(c, v, ps) PROVE Touches(c)
    BY <1>13 DEF Embed, Advance, Touches, Set
  <1>14. CASE CacheGet(c) \/ StoreGet(c) \/ EmbedOne(c) \/ Fill(c) \/ FillFails(c)
    BY <1>13, <1>14, FinishTouches, GotoTouches DEF CacheGet, StoreGet, EmbedOne, Fill, FillFails
  <1>15. CASE StoreList(c)
    BY <1>15, FinishTouches DEF StoreList, Advance, Touches, Set
  <1> QED
    BY <1>2, <1>3, <1>4, <1>5, <1>6, <1>7, <1>8, <1>9, <1>10, <1>11, <1>12, <1>14, <1>15, <1>16
       DEF Handle, Store, Clean, Query

LEMMA MainTouches == ASSUME LoadNext \/ Relink(Main) PROVE Touches(Main)
  BY DEF LoadNext, Relink, UpdateNode, UpdateEdge, LinkNext, Advance, Touches, Set

Tables == todo = [p \in Procs |-> todo[p]] /\ answer = [c \in Clients |-> answer[c]]

LEMMA TableOK ==
    ASSUME NEW S, NEW f, NEW g, NEW p, f = [x \in S |-> f[x]], Set(f, g, p)
    PROVE  g = [x \in S |-> g[x]]
  BY DEF Set

LEMMA TablesStep == Tables /\ [Next]_vars => Tables'
  <1> SUFFICES ASSUME Tables, [Next]_vars PROVE Tables'
    OBVIOUS
  <1>1. ASSUME NEW p, Touches(p) PROVE Tables'
    BY <1>1, TableOK DEF Touches, Tables
  <1>2. ASSUME UNCHANGED <<todo, answer>> PROVE Tables'
    BY <1>2 DEF Tables
  <1>3. CASE \E e : Expire(e)
    BY <1>2, <1>3 DEF Expire, local
  <1>4. CASE SaveAtExit \/ Serve
    BY <1>2, <1>4 DEF SaveAtExit, Serve, local
  <1>5. CASE Restart
    BY <1>5 DEF Restart, Tables
  <1>6. CASE UNCHANGED vars
    BY <1>2, <1>6 DEF vars, local
  <1> QED
    BY <1>1, <1>3, <1>4, <1>5, <1>6, ClientTouches, MainTouches DEF Next, Process

LEMMA TablesInit == Init => Tables
  BY DEF Init, Tables

(* What Touches leaves alone.                                              *)
Alone(p) == /\ \A q \in Procs \ {p} : /\ pc'[q] = pc[q] /\ key'[q] = key[q]
                                     /\ doc'[q] = doc[q] /\ todo'[q] = todo[q]
            /\ \A d \in Clients \ {p} : req'[d] = req[d] /\ answer'[d] = answer[d]

LEMMA SetAlone ==
    ASSUME NEW S, NEW f, NEW g, NEW p, f = [x \in S |-> f[x]], Set(f, g, p)
    PROVE  \A q \in S \ {p} : g[q] = f[q]
  BY DEF Set

LEMMA TouchesAlone == ASSUME LocalOK, Tables, NEW p, Touches(p) PROVE Alone(p)
  <1>1. /\ pc = [x \in Procs |-> pc[x]] /\ key = [x \in Procs |-> key[x]]
        /\ doc = [x \in Procs |-> doc[x]] /\ req = [x \in Clients |-> req[x]]
    BY DEF LocalOK
  <1> QED
    BY <1>1, SetAlone DEF Touches, Tables, Alone

LEMMA ClientAlone ==
    ASSUME LocalOK, Tables, NEW c \in Clients, Receive(c) \/ Handle(c) PROVE Alone(c)
  BY ClientTouches, TouchesAlone

(* How a client changes the documents: one is put, or one is dropped.      *)
LEMMA ClientDocs ==
    ASSUME LocalOK, NEW c \in Clients, Receive(c) \/ Handle(c)
    PROVE  \/ UNCHANGED <<docs, torn>>
           \/ \E k : At(c, "store") /\ k[1] = key[c][1] /\ Wrote(c, k, doc[c])
           \/ StoreDelete(c)
           \/ WriteBreaks(c) /\ \E k \in Keys : k[1] = key[c][1] /\ Breaks(c, k)
  <1>1. CASE ~Store(c)
    BY <1>1, OthersStore DEF store
  <1>2. CASE StoreCreate(c)
    <2>1. UNCHANGED <<docs, torn>> \/ \E i : Wrote(c, <<key[c][1], i>>, doc[c])
      BY <1>2 DEF StoreCreate, store
    <2> QED
      BY <1>2, <2>1 DEF StoreCreate
  <1>3. CASE StoreUpdate(c) \/ StoreSave(c)
    BY <1>3 DEF StoreUpdate, StoreSave, store
  <1>4. CASE DeleteFails(c) \/ StoreFails(c)
    BY <1>4 DEF DeleteFails, StoreFails, store
  <1>5. CASE WriteBreaks(c)
    BY <1>5, BrokenKey
  <1> QED
    BY <1>1, <1>2, <1>3, <1>4, <1>5 DEF Store

LEMMA PcSet ==
    ASSUME LocalOK, NEW c \in Clients
    PROVE  /\ \A s : Advance(c, s) => pc'[c] = s
           /\ \A s : Goto(c, s) => pc'[c] = s
           /\ Finish(c) \/ WriteBreaks(c) => pc'[c] = "idle"
  BY MainIsNoClient DEF LocalOK, Advance, Goto, Finish, WriteBreaks, Breaks, Closes

LEMMA EntryNoStore ==
    ASSUME NEW o \in Requests PROVE Entry(o) \in {"cache", "exists", "validate", "get", "schema"}
  <1>1. o.kind \in Kinds
    BY RequestType
  <1> QED
    BY <1>1 DEF Entry, Kinds

(* Only what is accepted comes to the store.                               *)
LEMMA ToStore ==
    ASSUME LocalOK, NEW c \in Clients, Receive(c) \/ Handle(c), pc'[c] = "store"
    PROVE  Validate(c) /\ Accepts(c) /\ Goto(c, "store")
  <1>1. ~Finish(c) /\ ~WriteBreaks(c)
    BY PcSet
  <1>2. \A s : Advance(c, s) \/ Goto(c, s) => s = "store"
    BY PcSet
  <1>3. ASSUME NEW k, NEW d, Wrote(c, k, d) PROVE FALSE
    BY <1>2, <1>3 DEF Wrote
  <1>4. ~Receive(c)
    BY <1>2, EntryNoStore DEF Receive
  <1>5. ~Exists(c) /\ ~PatchGet(c) /\ ~PostSchema(c)
    BY <1>1, <1>2 DEF Exists, PatchGet, PostSchema
  <1>6. ~Store(c)
    BY <1>1, <1>2, <1>3 DEF Store, StoreCreate, StoreUpdate, StoreSave, StoreDelete, DeleteFails,
                            StoreFails, AfterDelete
  <1>7. ~Regraph(c)
    <2>1. ASSUME NEW rest, LinkNext(c, rest) PROVE FALSE
      BY <1>2, <2>1 DEF LinkNext
    <2> QED
      BY <1>1, <1>2, <2>1 DEF Regraph, Relink, UpdateNode, UpdateEdge, Unlinks, GraphPanics
  <1>8. ~Clean(c)
    <2>1. ~(At(c, "scan") /\ UNCHANGED pc)
      BY DEF At
    <2> QED
      BY <1>1, <1>2, <2>1 DEF Clean, Invalidate, Scan, DeletePage, ScanFails
  <1>9. ASSUME NEW v, NEW ps, Embed(c, v, ps) PROVE FALSE
    BY <1>2, <1>9 DEF Embed
  <1>10. ~CacheGet(c)
    BY <1>1, <1>2 DEF CacheGet, LocalOK, At, InStep
  <1>11. ~Query(c)
    BY <1>1, <1>2, <1>9, <1>10 DEF Query, StoreGet, EmbedOne, StoreList, Fill, FillFails
  <1>12. Validate(c)
    BY <1>4, <1>5, <1>6, <1>7, <1>8, <1>11 DEF Handle, Before
  <1> QED
    BY <1>1, <1>12 DEF Validate

(***************************************************************************)
(* Documents satisfy their schemas.                                        *)
(***************************************************************************)
ValidInv ==
    /\ StoredIsValid
    /\ \A t \in Types \ ungoverned : schemas[t] = FileSchemas[t]
    /\ \A c \in Clients : At(c, "store") /\ key[c][1] \notin ungoverned =>
          Valid(FileSchemas[key[c][1]], doc[c])

LEMMA ClientValid ==
    ASSUME TypeInv, Tables, ValidInv, NEW c \in Clients, Receive(c) \/ Handle(c) PROVE ValidInv'
  <1>1. LocalOK /\ Alone(c)
    BY ClientAlone DEF TypeInv
  <1>2. ungoverned \subseteq ungoverned'
    <2>1. CASE PostSchema(c)
      BY <2>1 DEF PostSchema
    <2>2. CASE \/ Fill(c) \/ GraphPanics(c) \/ ScanFails(c) \/ StoreDelete(c)
               \/ WriteBreaks(c) \/ Invalidate(c) \/ DeletePage(c)
      BY <2>2 DEF Fill, GraphPanics, ScanFails, StoreDelete, WriteBreaks, Invalidate, DeletePage
    <2>3. CASE ~(\/ Fill(c) \/ GraphPanics(c) \/ ScanFails(c) \/ StoreDelete(c)
                 \/ WriteBreaks(c) \/ Invalidate(c) \/ DeletePage(c) \/ PostSchema(c))
      BY <2>3 DEF Receive, Handle, Before, Exists, PatchGet, Validate, Store, StoreCreate,
                  StoreUpdate, StoreSave, DeleteFails, StoreFails, Regraph, Relink, UpdateNode,
                  UpdateEdge, LinkNext, Unlinks, Clean, Scan, Query, CacheGet, StoreGet, EmbedOne,
                  StoreList, FillFails, past
    <2> QED
      BY <2>1, <2>2, <2>3
  <1>3. \A t \in Types \ ungoverned' : schemas'[t] = FileSchemas[t]
    <2>1. CASE PostSchema(c)
      <3>1. /\ schemas' = [schemas EXCEPT ![key[c][1]] = req[c].schema]
            /\ ungoverned' = ungoverned \cup {key[c][1]}
        BY <2>1 DEF PostSchema
      <3> QED
        BY <3>1 DEF TypeInv, MarksOK, ValidInv
    <2>2. CASE ~PostSchema(c)
      <3>1. schemas' = schemas
        BY <2>2 DEF Receive, Handle, Before, Exists, PatchGet, Validate, Store, StoreCreate,
                    StoreUpdate, StoreSave, StoreDelete, DeleteFails, StoreFails, WriteBreaks,
                    Regraph, Relink, UpdateNode, UpdateEdge, LinkNext, Unlinks, GraphPanics, Clean,
                    Invalidate, Scan, DeletePage, ScanFails, Query, CacheGet, StoreGet, EmbedOne,
                    StoreList, Fill, FillFails, memory
      <3> QED
        BY <1>2, <3>1 DEF ValidInv
    <2> QED
      BY <2>1, <2>2
  <1>4. ASSUME NEW d \in Clients, pc'[d] = "store", key'[d][1] \notin ungoverned'
        PROVE  Valid(FileSchemas[key'[d][1]], doc'[d])
    <2>1. CASE d # c
      <3>1. pc'[d] = pc[d] /\ key'[d] = key[d] /\ doc'[d] = doc[d]
        BY <1>1, <2>1, MainIsNoClient DEF Alone
      <3> QED
        BY <1>2, <1>4, <3>1 DEF ValidInv, At
    <2>2. CASE d = c
      <3>1. Accepts(c) /\ Goto(c, "store")
        BY <1>1, <1>4, <2>2, ToStore
      <3>2. key' = key /\ doc' = doc /\ key[c][1] \in Types
        BY <1>1, <3>1, StepKey DEF Goto, local, Keys
      <3> QED
        BY <1>2, <1>4, <2>2, <3>1, <3>2 DEF Accepts, ValidInv
    <2> QED
      BY <2>1, <2>2
  <1>5. StoredIsValid'
    <2>1. CASE docs' = docs
      BY <1>2, <2>1 DEF ValidInv, StoredIsValid
    <2>2. ASSUME NEW k, At(c, "store"), k[1] = key[c][1], Wrote(c, k, doc[c]) PROVE StoredIsValid'
      <3>1. docs' = Put(docs, k, doc[c])
        BY <2>2 DEF Wrote
      <3> QED
        BY <1>2, <2>2, <3>1 DEF ValidInv, StoredIsValid, Put
    <2>3. CASE StoreDelete(c)
      <3>1. docs' = Drop(docs, key[c])
        BY <2>3 DEF StoreDelete
      <3> QED
        BY <1>2, <3>1 DEF ValidInv, StoredIsValid, Drop
    <2>4. ASSUME NEW k, Breaks(c, k) PROVE StoredIsValid'
      <3>1. docs' = Drop(docs, k)
        BY <2>4 DEF Breaks
      <3> QED
        BY <1>2, <3>1 DEF ValidInv, StoredIsValid, Drop
    <2> QED
      BY <1>1, <2>1, <2>2, <2>3, <2>4, ClientDocs
  <1> QED
    BY <1>3, <1>4, <1>5 DEF ValidInv, At

LEMMA OtherValid ==
    ASSUME TypeInv, ValidInv, Process \/ (\E e : Expire(e)) \/ UNCHANGED vars PROVE ValidInv'
  <1>1. docs' = docs
    BY DEF Process, SaveAtExit, Restart, LoadNext, Serve, Relink, UpdateNode, UpdateEdge, LinkNext,
           Expire, vars, store
  <1>2. CASE Restart
    <2>1. PICK ts \in NotLoaded : schemas' = LoadedBut(ts) /\ ungoverned' = ungoverned \cup ts
      BY <1>2 DEF Restart
    <2>2. \A t \in Types \ ungoverned' : schemas'[t] = FileSchemas[t]
      BY <2>1 DEF LoadedBut
    <2>3. \A c \in Clients : pc'[c] # "store"
      BY <1>2, MainIsNoClient DEF Restart
    <2> QED
      BY <1>1, <2>1, <2>2, <2>3 DEF ValidInv, StoredIsValid, At
  <1>3. CASE ~Restart
    <2>1. schemas' = schemas /\ ungoverned' = ungoverned
      BY <1>3 DEF Process, SaveAtExit, LoadNext, Serve, Relink, UpdateNode, UpdateEdge, LinkNext,
                  Expire, vars, memory, past
    <2>2. \A c \in Clients : pc'[c] = pc[c] /\ key'[c] = key[c] /\ doc'[c] = doc[c]
      <3>1. CASE LoadNext \/ Relink(Main)
        BY <3>1, MainTouches, MainIsNoClient DEF Touches, Set, TypeInv, LocalOK
      <3> QED
        BY <1>3, <3>1 DEF Process, SaveAtExit, Serve, Expire, vars, local
    <2> QED
      BY <1>1, <2>1, <2>2 DEF ValidInv, StoredIsValid, At
  <1> QED
    BY <1>2, <1>3

LEMMA ValidInit == Init => ValidInv
  BY MainIsNoClient DEF Init, ValidInv, StoredIsValid, EmptyMap, At, LoadedBut

LEMMA ValidStep == TypeInv /\ Tables /\ ValidInv /\ [Next]_vars => ValidInv'
  BY ClientValid, OtherValid DEF Next

(* No request gets a document into the store that the schema in the file   *)
(* of its type forbids, as long as nobody posts another and every start so *)
(* far loaded it: no failing call, overlap of requests or restart does.    *)
THEOREM StoredDocumentsAreValid == Spec => []StoredIsValid
  <1>1. ValidInv => StoredIsValid
    BY DEF ValidInv
  <1> QED
    BY <1>1, TypeInit, TablesInit, ValidInit, TypeStep, TablesStep, ValidStep, PTL DEF Spec

(***************************************************************************)
(* Where each action begins.                                               *)
(***************************************************************************)
LEMMA Departures ==
    ASSUME NEW c \in Clients
    PROVE  /\ Exists(c) => pc[c] = "exists"
           /\ PatchGet(c) => pc[c] = "get" /\ req[c].kind = "patch"
           /\ Validate(c) => pc[c] = "validate"
           /\ PostSchema(c) => pc[c] = "schema"
           /\ StoreCreate(c) => pc[c] = "store" /\ req[c].kind = "create"
           /\ StoreUpdate(c) => pc[c] = "store" /\ req[c].kind \in {"update", "patch"}
           /\ StoreSave(c) => pc[c] = "store" /\ req[c].kind = "save"
           /\ StoreFails(c) => pc[c] \in {"get", "list", "store"}
           /\ WriteBreaks(c) => pc[c] = "store"
           /\ StoreDelete(c) \/ DeleteFails(c) => pc[c] = "delete"
           /\ Relink(c) => pc[c] \in {"node", "edges"}
           /\ Unlinks(c) => pc[c] = "unlink"
           /\ GraphPanics(c) => pc[c] \in {"node", "unlink"}
           /\ Invalidate(c) \/ Scan(c) => pc[c] = "invalidate"
           /\ DeletePage(c) => pc[c] = "scan"
           /\ ScanFails(c) => pc[c] \in {"invalidate", "scan"}
           /\ CacheGet(c) => pc[c] = "cache"
           /\ StoreGet(c) => pc[c] = "get" /\ req[c].kind = "get"
           /\ EmbedOne(c) => pc[c] = "embed"
           /\ StoreList(c) => pc[c] = "list"
           /\ Fill(c) \/ FillFails(c) => pc[c] = "fill"
           /\ Receive(c) => pc[c] = "idle"
  <1>1. /\ Exists(c) => pc[c] = "exists"
        /\ PatchGet(c) => pc[c] = "get" /\ req[c].kind = "patch"
        /\ Validate(c) => pc[c] = "validate"
        /\ PostSchema(c) => pc[c] = "schema"
        /\ Receive(c) => pc[c] = "idle"
    BY DEF Exists, PatchGet, Validate, PostSchema, Receive, At
  <1>2. /\ StoreCreate(c) => pc[c] = "store" /\ req[c].kind = "create"
        /\ StoreUpdate(c) => pc[c] = "store" /\ req[c].kind \in {"update", "patch"}
        /\ StoreSave(c) => pc[c] = "store" /\ req[c].kind = "save"
        /\ StoreFails(c) => pc[c] \in {"get", "list", "store"}
        /\ WriteBreaks(c) => pc[c] = "store"
        /\ StoreDelete(c) \/ DeleteFails(c) => pc[c] = "delete"
    BY DEF StoreCreate, StoreUpdate, StoreSave, StoreFails, WriteBreaks, StoreDelete, DeleteFails,
           At
  <1>3. /\ Relink(c) => pc[c] \in {"node", "edges"}
        /\ Unlinks(c) => pc[c] = "unlink"
        /\ GraphPanics(c) => pc[c] \in {"node", "unlink"}
    BY DEF Relink, UpdateNode, UpdateEdge, Unlinks, GraphPanics, At
  <1>4. /\ Invalidate(c) \/ Scan(c) => pc[c] = "invalidate"
        /\ DeletePage(c) => pc[c] = "scan"
        /\ ScanFails(c) => pc[c] \in {"invalidate", "scan"}
    BY DEF Invalidate, Scan, DeletePage, ScanFails, At
  <1>5. /\ CacheGet(c) => pc[c] = "cache"
        /\ StoreGet(c) => pc[c] = "get" /\ req[c].kind = "get"
        /\ EmbedOne(c) => pc[c] = "embed"
        /\ StoreList(c) => pc[c] = "list"
        /\ Fill(c) \/ FillFails(c) => pc[c] = "fill"
    BY DEF CacheGet, StoreGet, EmbedOne, StoreList, Fill, FillFails, At
  <1> QED
    BY <1>1, <1>2, <1>3, <1>4, <1>5

LEMMA WroteArrives ==
    ASSUME LocalOK, NEW c \in Clients, NEW k, NEW d, Wrote(c, k, d)
    PROVE  pc'[c] = IF GraphEnabled THEN "node" ELSE "invalidate"
  BY PcSet DEF Wrote

(* Where each action ends.                                                 *)
LEMMA Arrivals ==
    ASSUME LocalOK, NEW c \in Clients
    PROVE  /\ Receive(c) => pc'[c] \in {"cache", "exists", "validate", "get", "schema"}
           /\ Exists(c) => pc'[c] \in {"delete", "validate", "idle"}
           /\ PatchGet(c) \/ Validate(c) \/ PostSchema(c) => pc'[c] \in {"validate", "store", "idle"}
           /\ StoreFails(c) \/ WriteBreaks(c) => pc'[c] = "idle"
           /\ StoreDelete(c) => pc'[c] = AfterDelete
           /\ DeleteFails(c) => pc'[c] \in {AfterDelete, "idle"}
           /\ Relink(c) => pc'[c] \in {"edges", "invalidate"}
           /\ Unlinks(c) \/ GraphPanics(c) \/ Clean(c) => pc'[c] \in {"invalidate", "scan", "idle"}
           /\ Query(c) => pc'[c] \in {"get", "list", "embed", "fill", "idle"}
  <1>1. Finish(c) => pc'[c] = "idle"
    BY PcSet
  <1>2. \A s : Advance(c, s) \/ Goto(c, s) => pc'[c] = s
    BY PcSet
  <1>3. /\ Receive(c) => pc'[c] \in {"cache", "exists", "validate", "get", "schema"}
        /\ Exists(c) => pc'[c] \in {"delete", "validate", "idle"}
        /\ PatchGet(c) \/ Validate(c) \/ PostSchema(c) => pc'[c] \in {"validate", "store", "idle"}
    BY <1>1, <1>2, EntryNoStore DEF Receive, Exists, PatchGet, Validate, PostSchema
  <1>4. /\ StoreFails(c) \/ WriteBreaks(c) => pc'[c] = "idle"
        /\ StoreDelete(c) => pc'[c] = AfterDelete
        /\ DeleteFails(c) => pc'[c] \in {AfterDelete, "idle"}
    BY <1>1, <1>2, PcSet DEF StoreFails, StoreDelete, DeleteFails
  <1>5. Relink(c) => pc'[c] \in {"edges", "invalidate"}
    <2>1. ASSUME NEW left, LinkNext(c, left) PROVE pc'[c] \in {"edges", "invalidate"}
      BY <1>2, <2>1, MainIsNoClient DEF LinkNext
    <2> QED
      BY <2>1 DEF Relink, UpdateNode, UpdateEdge
  <1>6. Unlinks(c) \/ GraphPanics(c) \/ Clean(c) => pc'[c] \in {"invalidate", "scan", "idle"}
    <2>1. At(c, "scan") /\ UNCHANGED pc => pc'[c] = "scan"
      BY DEF At
    <2> QED
      BY <1>1, <1>2, <2>1 DEF Unlinks, GraphPanics, Clean, Invalidate, Scan, DeletePage, ScanFails
  <1>7. Query(c) => pc'[c] \in {"get", "list", "embed", "fill", "idle"}
    <2>1. ASSUME NEW v, NEW ps, Embed(c, v, ps) PROVE pc'[c] \in {"embed", "fill"}
      BY <1>2, <2>1 DEF Embed
    <2>2. CASE CacheGet(c)
      BY <1>1, <1>2, <2>2 DEF CacheGet, LocalOK, At, InStep
    <2> QED
      BY <1>1, <1>2, <2>1, <2>2 DEF Query, StoreGet, EmbedOne, StoreList, Fill, FillFails
  <1> QED
    BY <1>3, <1>4, <1>5, <1>6, <1>7

(***************************************************************************)
(* What a create stores is what it was sent.                               *)
(***************************************************************************)
BodyInv == \A c \in Clients :
              ~At(c, "idle") /\ req[c].kind = "create" => doc[c] = Decoded(req[c].body)

LEMMA DocChanges ==
    ASSUME NEW c \in Clients, Handle(c)
    PROVE  \/ Finish(c) \/ WriteBreaks(c)
           \/ req' = req /\ (doc' = doc \/ req[c].kind = "patch")
  <1>1. ASSUME NEW s, Goto(c, s) PROVE req' = req /\ doc' = doc
    BY <1>1 DEF Goto, local
  <1>2. CASE Before(c)
    BY <1>1, <1>2 DEF Before, Exists, PatchGet, Validate, PostSchema
  <1>3. ASSUME NEW k, NEW d, Wrote(c, k, d) PROVE req' = req /\ doc' = doc
    BY <1>3 DEF Wrote
  <1>4. CASE Store(c)
    BY <1>1, <1>3, <1>4 DEF Store, StoreCreate, StoreUpdate, StoreSave, StoreDelete, DeleteFails,
                            StoreFails
  <1>5. CASE Regraph(c)
    <2>1. ASSUME NEW rest, LinkNext(c, rest) PROVE req' = req /\ doc' = doc
      BY <2>1 DEF LinkNext
    <2> QED
      BY <1>1, <1>5, <2>1 DEF Regraph, Relink, UpdateNode, UpdateEdge, Unlinks, GraphPanics
  <1>6. CASE Clean(c)
    BY <1>6 DEF Clean, Invalidate, Scan, DeletePage, ScanFails
  <1>7. CASE Query(c)
    <2>1. ASSUME NEW v, NEW ps, Embed(c, v, ps) PROVE req' = req /\ doc' = doc
      BY <2>1 DEF Embed
    <2> QED
      BY <1>1, <1>7, <2>1 DEF Query, CacheGet, StoreGet, EmbedOne, StoreList, Fill, FillFails
  <1> QED
    BY <1>2, <1>4, <1>5, <1>6, <1>7 DEF Handle

(* What neither a client nor a restart does leaves the clients alone.      *)
LEMMA OthersAlone ==
    ASSUME LocalOK, Tables, SaveAtExit \/ LoadNext \/ Serve \/ Relink(Main) \/ (\E e : Expire(e)) \/ UNCHANGED vars
    PROVE  /\ UNCHANGED <<docs, torn, cut, raced, still>>
           /\ spoiled \cap DOMAIN cache' \subseteq spoiled'
           /\ \A c \in Clients : /\ pc'[c] = pc[c] /\ key'[c] = key[c] /\ req'[c] = req[c]
                                /\ doc'[c] = doc[c] /\ todo'[c] = todo[c] /\ answer'[c] = answer[c]
  <1>1. /\ UNCHANGED <<docs, torn, cut, raced, still>>
        /\ spoiled \cap DOMAIN cache' \subseteq spoiled'
    BY DEF SaveAtExit, LoadNext, Serve, Relink, UpdateNode, UpdateEdge, LinkNext, Expire, Evict,
           Without, vars, store, local, past
  <1>2. CASE LoadNext \/ Relink(Main)
    <2>1. Alone(Main)
      BY <1>2, MainTouches, TouchesAlone
    <2> QED
      BY <1>1, <2>1, MainIsNoClient DEF Alone
  <1>3. CASE ~(LoadNext \/ Relink(Main))
    BY <1>1, <1>3 DEF SaveAtExit, Serve, Expire, vars, local
  <1> QED
    BY <1>2, <1>3

LEMMA BodyStep == TypeInv /\ Tables /\ BodyInv /\ [Next]_vars => BodyInv'
  <1> SUFFICES ASSUME TypeInv, Tables, BodyInv, [Next]_vars PROVE BodyInv'
    OBVIOUS
  <1>1. ASSUME NEW c \in Clients, Receive(c) \/ Handle(c), NEW d \in Clients,
               pc'[d] # "idle", req'[d].kind = "create"
        PROVE  doc'[d] = Decoded(req'[d].body)
    <2>1. LocalOK /\ Alone(c)
      BY <1>1, ClientAlone DEF TypeInv
    <2>2. CASE d # c
      <3>1. pc'[d] = pc[d] /\ doc'[d] = doc[d] /\ req'[d] = req[d]
        BY <2>1, <2>2, MainIsNoClient DEF Alone
      <3> QED
        BY <1>1, <3>1 DEF BodyInv, At
    <2>3. CASE d = c /\ Receive(c)
      <3>1. PICK o \in Requests : /\ req' = [req EXCEPT ![c] = o]
                                 /\ doc' = [doc EXCEPT ![c] = Decoded(o.body)]
        BY <2>3 DEF Receive
      <3> QED
        BY <2>1, <2>3, <3>1, MainIsNoClient DEF LocalOK
    <2>4. CASE d = c /\ Handle(c)
      <3>1. ~Finish(c) /\ ~WriteBreaks(c)
        BY <1>1, <2>1, <2>4, PcSet
      <3>2. ~At(c, "idle")
        BY <2>4 DEF Handle
      <3>3. req' = req /\ (doc' = doc \/ req[c].kind = "patch")
        BY <2>4, <3>1, DocChanges
      <3> QED
        BY <1>1, <2>4, <3>2, <3>3 DEF BodyInv
    <2> QED
      BY <1>1, <2>2, <2>3, <2>4
  <1>2. CASE \E c \in Clients : Receive(c) \/ Handle(c)
    BY <1>1, <1>2 DEF BodyInv, At
  <1>3. CASE Restart
    BY <1>3, MainIsNoClient DEF Restart, BodyInv, At
  <1>4. CASE SaveAtExit \/ LoadNext \/ Serve \/ Relink(Main) \/ (\E e : Expire(e)) \/ UNCHANGED vars
    <2>1. \A c \in Clients : pc'[c] = pc[c] /\ req'[c] = req[c] /\ doc'[c] = doc[c]
      BY <1>4, OthersAlone DEF TypeInv
    <2> QED
      BY <2>1 DEF BodyInv, At
  <1> QED
    BY <1>2, <1>3, <1>4 DEF Next, Process

LEMMA BodyInit == Init => BodyInv
  BY MainIsNoClient DEF Init, BodyInv, At

(***************************************************************************)
(* The graph: what a step does to its edges.                               *)
(***************************************************************************)
LEMMA EnsureAdj ==
    ASSUME NEW g, NEW n
    PROVE  /\ DOMAIN Ensure(g, n).adj = DOMAIN g.adj \cup {n}
           /\ \A m \in DOMAIN g.adj : Ensure(g, n).adj[m] = g.adj[m]
           /\ n \notin DOMAIN g.adj => Ensure(g, n).adj[n] = EmptyMap
  BY DEF Ensure, Graph, Put

LEMMA AddEdgeAdj ==
    ASSUME NEW g, NEW a, NEW b, NEW r
    PROVE  /\ DOMAIN AddEdge(g, a, b, r).adj = DOMAIN g.adj \cup {a, b}
           /\ \A m \in DOMAIN g.adj \ {a} : AddEdge(g, a, b, r).adj[m] = g.adj[m]
           /\ b \in DOMAIN AddEdge(g, a, b, r).adj[a]
           /\ a \in DOMAIN g.adj => DOMAIN g.adj[a] \subseteq DOMAIN AddEdge(g, a, b, r).adj[a]
           /\ b \notin DOMAIN g.adj \cup {a} => AddEdge(g, a, b, r).adj[b] = EmptyMap
  <1> DEFINE h == Ensure(Ensure(g, a), b)
  <1>1. /\ DOMAIN h.adj = DOMAIN g.adj \cup {a, b}
        /\ \A m \in DOMAIN g.adj : h.adj[m] = g.adj[m]
        /\ b \notin DOMAIN g.adj \cup {a} => h.adj[b] = EmptyMap
    BY EnsureAdj
  <1>2. AddEdge(g, a, b, r).adj = Put(h.adj, a, Put(h.adj[a], b, r))
    BY DEF AddEdge, Graph, Link
  <1> HIDE DEF h
  <1> QED
    BY <1>1, <1>2 DEF Put

LEMMA RemoveNodeAdj ==
    ASSUME NEW g, NEW n
    PROVE  /\ DOMAIN RemoveNode(g, n).adj = DOMAIN g.adj \ {n}
           /\ \A m \in DOMAIN g.adj \ {n} : RemoveNode(g, n).adj[m] = Drop(g.adj[m], n)
  BY DEF RemoveNode, Graph

(* A step of UpdateFromEntity.                                             *)
LEMMA RelinkEffect ==
    ASSUME LocalOK, Tables, NEW p \in Procs, Relink(p)
    PROVE  /\ UNCHANGED <<docs, torn, toLoad, phase, cut, raced, key, doc>>
           /\ pc[p] = "node" =>
                 /\ HasGraph
                 /\ graph' = Unindexed(AddNode(graph, key[p], NoType))
                 /\ todo'[p] = Refs(doc[p])
           /\ pc[p] # "node" =>
                 /\ pc[p] = "edges"
                 /\ \E f \in todo[p] :
                       /\ graph' = Unindexed(AddEdge(graph, key[p], Target(doc[p], f), <<f>>))
                       /\ todo'[p] = todo[p] \ {f}
           /\ todo'[p] # {} => pc'[p] = "edges"
  <1>1. ASSUME NEW left, LinkNext(p, left)
        PROVE  /\ UNCHANGED <<docs, torn, toLoad, phase, cut, raced, key, doc>>
               /\ todo'[p] = left /\ (left # {} => pc'[p] = "edges")
    BY <1>1 DEF LinkNext, Advance, store, past, Tables, LocalOK
  <1>2. CASE UpdateNode(p)
    <2>1. /\ pc[p] = "node" /\ HasGraph /\ LinkNext(p, Refs(doc[p]))
          /\ graph' = Unindexed(AddNode(graph, key[p], NoType))
      BY <1>2 DEF UpdateNode, At
    <2> QED
      BY <1>1, <2>1
  <1>3. CASE UpdateEdge(p)
    <2>1. PICK f \in todo[p] :
             /\ graph' = Unindexed(AddEdge(graph, key[p], Target(doc[p], f), <<f>>))
             /\ LinkNext(p, todo[p] \ {f})
      BY <1>3 DEF UpdateEdge
    <2>2. pc[p] = "edges"
      BY <1>3 DEF UpdateEdge, At
    <2> QED
      BY <1>1, <2>1, <2>2
  <1> QED
    BY <1>2, <1>3 DEF Relink

(* It adds a node or an edge and takes none away.                          *)
LEMMA RelinkAdj ==
    ASSUME LocalOK, Tables, NEW p \in Procs, Relink(p)
    PROVE  /\ \A k, n : Linked(k, n) => Linked(k, n)'
           /\ \A k \in DOMAIN graph'.adj \ {key[p]} :
                 IF k \in DOMAIN graph.adj THEN graph'.adj[k] = graph.adj[k]
                                           ELSE graph'.adj[k] = EmptyMap
           /\ pc[p] = "node" => key[p] \in DOMAIN graph.adj \/ graph'.adj[key[p]] = EmptyMap
  <1>1. CASE pc[p] = "node"
    <2>1. graph'.adj = Ensure(graph, key[p]).adj
      BY <1>1, RelinkEffect DEF Unindexed, AddNode, Graph
    <2>2. DOMAIN graph'.adj = DOMAIN graph.adj \cup {key[p]}
      BY <2>1, EnsureAdj
    <2>3. \A m \in DOMAIN graph.adj : graph'.adj[m] = graph.adj[m]
      BY <2>1, EnsureAdj
    <2>4. key[p] \notin DOMAIN graph.adj => graph'.adj[key[p]] = EmptyMap
      BY <2>1, EnsureAdj
    <2> QED
      BY <2>2, <2>3, <2>4 DEF Linked
  <1>2. CASE pc[p] # "node"
    <2>1. PICK f : graph' = Unindexed(AddEdge(graph, key[p], Target(doc[p], f), <<f>>))
      BY <1>2, RelinkEffect
    <2>2. PICK b : graph'.adj = AddEdge(graph, key[p], b, <<f>>).adj
      BY <2>1 DEF Unindexed, Graph
    <2>3. DOMAIN graph'.adj = DOMAIN graph.adj \cup {key[p], b}
      BY <2>2, AddEdgeAdj
    <2>4. \A m \in DOMAIN graph.adj \ {key[p]} : graph'.adj[m] = graph.adj[m]
      BY <2>2, AddEdgeAdj
    <2>5. /\ key[p] \in DOMAIN graph.adj => DOMAIN graph.adj[key[p]] \subseteq DOMAIN graph'.adj[key[p]]
          /\ b \notin DOMAIN graph.adj \cup {key[p]} => graph'.adj[b] = EmptyMap
      BY <2>2, AddEdgeAdj
    <2> QED
      BY <1>2, <2>3, <2>4, <2>5 DEF Linked
  <1> QED
    BY <1>1, <1>2

(* What other steps of a client do to it.                                  *)
LEMMA ClientGraph ==
    ASSUME NEW c \in Clients, Receive(c) \/ Handle(c)
    PROVE  /\ ~Relink(c) /\ ~Unlinks(c) => graph' = graph
           /\ ~StoreDelete(c) => cut' = cut /\ raced' = raced
           /\ toLoad' = toLoad /\ phase' = phase
  <1>1. ~Relink(c) /\ ~Unlinks(c) => graph' = graph
    BY DEF Receive, Handle, Before, Exists, PatchGet, Validate, PostSchema, Store, StoreCreate,
           StoreUpdate, StoreSave, StoreDelete, DeleteFails, StoreFails, WriteBreaks, Regraph,
           GraphPanics, Clean, Invalidate, Scan, DeletePage, ScanFails, Query, CacheGet, StoreGet, EmbedOne,
           StoreList, Fill, FillFails, memory
  <1>2. ~StoreDelete(c) /\ ~Relink(c) => cut' = cut /\ raced' = raced
    BY DEF Receive, Handle, Before, Exists, PatchGet, Validate, PostSchema, Store,
                StoreCreate, StoreUpdate, StoreSave, DeleteFails, StoreFails, WriteBreaks,
                Regraph, Unlinks, GraphPanics, Clean, Invalidate, Scan, DeletePage, ScanFails, Query, CacheGet,
                StoreGet, EmbedOne, StoreList, Fill, FillFails, past
  <1>3. Relink(c) => cut' = cut /\ raced' = raced
    BY DEF Relink, UpdateNode, UpdateEdge, LinkNext, past
  <1>4. toLoad' = toLoad /\ phase' = phase
    BY ClientMoves DEF Moves, process
  <1> QED
    BY <1>1, <1>2, <1>3, <1>4

(***************************************************************************)
(* The graph has the references between documents.                         *)
(***************************************************************************)
(* A write never makes a file disappear.                                   *)
LEMMA StaysPresent ==
    ASSUME LocalOK, NEW c \in Clients, Receive(c) \/ Handle(c), ~StoreDelete(c)
    PROVE  Present \subseteq Present'
  <1>1. CASE UNCHANGED <<docs, torn>>
    BY <1>1 DEF Present
  <1>2. ASSUME NEW k, NEW d, Wrote(c, k, d) PROVE Present \subseteq Present'
    BY <1>2 DEF Wrote, Present, Put
  <1>3. ASSUME NEW k, Breaks(c, k) PROVE Present \subseteq Present'
    BY <1>3 DEF Breaks, Present, Drop
  <1> QED
    BY <1>1, <1>2, <1>3, ClientDocs

(* A document that a handler deletes or takes out of the graph was there.  *)
DeleteInv == \A c \in Clients : /\ At(c, "delete") => key[c] \in Present \cup cut
                                /\ At(c, "unlink") => key[c] \in cut

LEMMA DeleteClient ==
    ASSUME ~(Faults /\ CascadingDelete), TypeInv, Tables, DeleteInv,
           NEW c \in Clients, Receive(c) \/ Handle(c)
    PROVE  DeleteInv'
  <1>1. LocalOK /\ Alone(c)
    BY ClientAlone DEF TypeInv
  <1>2. cut \subseteq cut' /\ Present \cup cut \subseteq Present' \cup cut'
    <2>1. CASE StoreDelete(c)
      BY <2>1 DEF StoreDelete, Drop, Present
    <2>2. CASE ~StoreDelete(c)
      BY <1>1, <2>2, ClientGraph, StaysPresent
    <2> QED
      BY <2>1, <2>2
  <1>3. ASSUME NEW d \in Clients \ {c}
        PROVE  /\ pc'[d] = "delete" => key'[d] \in Present' \cup cut'
               /\ pc'[d] = "unlink" => key'[d] \in cut'
    <2>1. pc'[d] = pc[d] /\ key'[d] = key[d]
      BY <1>1, MainIsNoClient DEF Alone
    <2> QED
      BY <1>2, <2>1 DEF DeleteInv, At
  <1>4. pc'[c] \in {"delete", "unlink"} => Exists(c) \/ StoreDelete(c) \/ DeleteFails(c)
    <2>1. ASSUME StoreCreate(c) \/ StoreUpdate(c) \/ StoreSave(c)
          PROVE  Finish(c) \/ \E k, d : Wrote(c, k, d)
      BY <2>1 DEF StoreCreate, StoreUpdate, StoreSave
    <2>2. StoreCreate(c) \/ StoreUpdate(c) \/ StoreSave(c) => pc'[c] \notin {"delete", "unlink"}
      BY <1>1, <2>1, WroteArrives, PcSet
    <2> QED
      BY <1>1, <2>2, Arrivals DEF Handle, Before, Store, Regraph
  <1>5. pc'[c] = "delete" => key'[c] \in Present'
    <2> HAVE pc'[c] = "delete"
    <2>1. Exists(c)
      BY <1>1, <1>4, Arrivals DEF AfterDelete
    <2>2. PICK there \in MayFail(key[c] \in Present) :
             CASE req[c].kind = "delete" /\ there -> Goto(c, "delete")
               [] req[c].kind = "save" /\ ~there  -> Goto(c, "validate")
               [] OTHER                           -> Finish(c)
      BY <2>1 DEF Exists
    <2>3. there /\ Goto(c, "delete")
      BY <1>1, <2>2, PcSet
    <2>4. key[c] \in Present
      BY <2>3 DEF MayFail
    <2> QED
      BY <2>1, <2>3, <2>4 DEF Exists, Goto, local, store, Present
  <1>6. pc'[c] = "unlink" => key'[c] \in cut'
    <2> HAVE pc'[c] = "unlink"
    <2>1. CASE StoreDelete(c)
      BY <2>1 DEF StoreDelete
    <2>2. CASE DeleteFails(c)
      <3>1. CascadingDelete /\ Goto(c, AfterDelete) /\ At(c, "delete")
        BY <1>1, <2>2, PcSet DEF DeleteFails
      <3>2. key[c] \notin Present
        BY <2>2, <3>1 DEF DeleteFails
      <3>3. key[c] \in cut /\ key' = key
        BY <3>1, <3>2 DEF DeleteInv, Goto, local
      <3> QED
        BY <1>2, <3>3
    <2>3. ~Exists(c)
      BY <1>1, Arrivals
    <2> QED
      BY <1>4, <2>1, <2>2, <2>3
  <1> QED
    BY <1>3, <1>5, <1>6 DEF DeleteInv, At

LEMMA DeleteStep ==
    ~(Faults /\ CascadingDelete) => (TypeInv /\ Tables /\ DeleteInv /\ [Next]_vars => DeleteInv')
  <1> SUFFICES ASSUME ~(Faults /\ CascadingDelete), TypeInv, Tables, DeleteInv, [Next]_vars
               PROVE  DeleteInv'
    OBVIOUS
  <1>1. CASE \E c \in Clients : Receive(c) \/ Handle(c)
    BY <1>1, DeleteClient
  <1>2. CASE Restart
    <2>1. \A c \in Clients : pc'[c] = "idle"
      BY <1>2, MainIsNoClient DEF Restart
    <2> QED
      BY <2>1 DEF DeleteInv, At
  <1>3. CASE SaveAtExit \/ LoadNext \/ Serve \/ Relink(Main) \/ (\E e : Expire(e)) \/ UNCHANGED vars
    <2>1. UNCHANGED <<docs, torn, cut>> /\ \A c \in Clients : pc'[c] = pc[c] /\ key'[c] = key[c]
      BY <1>3, OthersAlone DEF TypeInv
    <2> QED
      BY <2>1 DEF DeleteInv, At, Present
  <1> QED
    BY <1>1, <1>2, <1>3 DEF Next, Process

LEMMA DeleteInit == Init => DeleteInv
  BY MainIsNoClient DEF Init, DeleteInv, At

(* Every reference has its edge or some process has yet to add it.         *)
Kept(k, f) == Linked(k, Target(docs[k], f)) \/ LinkDue(k, f) \/ k \in toLoad

RefsInv ==
    HasGraph => \A k \in DOMAIN docs \ cut : \A f \in Refs(docs[k]) :
                    Target(docs[k], f) \notin cut => Kept(k, f)

LEMMA RefsFollow == TypeInv /\ RefsInv => LiveRefsLinked
  BY DEF TypeInv, PhaseOK, RefsInv, Kept, LiveRefsLinked

LEMMA RefFacts ==
    ASSUME NEW d, NEW f \in Refs(d)
    PROVE  f \in Fields /\ d[f] \in References /\ \A e : e[f] = d[f] => f \in Refs(e)
  BY DEF Refs, RefFields

(* A step of a process that was linking nothing.                           *)
LEMMA DueStays ==
    ASSUME NEW p \in Procs, Alone(p), pc[p] \notin {"node", "edges"}, NEW k, NEW f,
           LinkDue(k, f), docs'[k] = docs[k]
    PROVE  LinkDue(k, f)'
  <1>1. PICK q \in Procs : /\ pc[q] \in {"node", "edges"} /\ key[q] = k
                           /\ doc[q][f] = docs[k][f] /\ (pc[q] = "node" \/ f \in todo[q])
    BY DEF LinkDue, Linking, At
  <1>2. q # p
    BY <1>1
  <1>3. pc'[q] = pc[q] /\ key'[q] = key[q] /\ doc'[q] = doc[q] /\ todo'[q] = todo[q]
    BY <1>2 DEF Alone
  <1> QED
    BY <1>1, <1>3 DEF LinkDue, Linking, At

(* Of what is due a step of UpdateFromEntity does one, or leaves all due.  *)
LEMMA DueWorked ==
    ASSUME LocalOK, Tables, NEW p \in Procs, Relink(p), Alone(p), NEW k, NEW f \in Refs(docs[k]), Kept(k, f)
    PROVE  Kept(k, f)'
  <1>1. UNCHANGED <<docs, toLoad, key, doc>> /\ \A n : Linked(k, n) => Linked(k, n)'
    BY RelinkEffect, RelinkAdj
  <1>2. CASE Linked(k, Target(docs[k], f)) \/ k \in toLoad
    BY <1>1, <1>2 DEF Kept
  <1>3. CASE LinkDue(k, f)
    <2>1. PICK q \in Procs : /\ pc[q] \in {"node", "edges"} /\ key[q] = k
                             /\ doc[q][f] = docs[k][f] /\ (pc[q] = "node" \/ f \in todo[q])
      BY <1>3 DEF LinkDue, Linking, At
    <2>2. CASE q # p
      <3>1. pc'[q] = pc[q] /\ todo'[q] = todo[q]
        BY <2>2 DEF Alone
      <3> QED
        BY <1>1, <2>1, <3>1 DEF Kept, LinkDue, Linking, At
    <2>3. ASSUME q = p, f \in todo'[p] PROVE LinkDue(k, f)'
      <3>1. pc'[p] = "edges"
        BY <2>3, RelinkEffect
      <3> QED
        BY <1>1, <2>1, <2>3, <3>1 DEF LinkDue, Linking, At
    <2>4. CASE q = p /\ pc[p] = "node"
      <3>1. f \in todo'[p]
        BY <2>1, <2>4, RefFacts, RelinkEffect
      <3> QED
        BY <2>3, <2>4, <3>1 DEF Kept
    <2>5. CASE q = p /\ pc[p] # "node"
      <3>1. PICK g \in todo[p] :
               /\ graph' = Unindexed(AddEdge(graph, key[p], Target(doc[p], g), <<g>>))
               /\ todo'[p] = todo[p] \ {g}
        BY <2>5, RelinkEffect
      <3>2. CASE g # f
        BY <2>1, <2>3, <2>5, <3>1, <3>2 DEF Kept
      <3>3. CASE g = f
        <4>1. graph'.adj = AddEdge(graph, k, Target(docs[k], f), <<f>>).adj
          BY <2>1, <2>5, <3>1, <3>3 DEF Unindexed, Graph, Target
        <4>2. k \in DOMAIN graph'.adj /\ Target(docs[k], f) \in DOMAIN graph'.adj[k]
          BY <4>1, AddEdgeAdj
        <4> QED
          BY <1>1, <4>2 DEF Kept, Linked
      <3> QED
        BY <3>2, <3>3
    <2> QED
      BY <2>2, <2>4, <2>5
  <1> QED
    BY <1>2, <1>3 DEF Kept

(* A process that panics had nothing to link.                              *)
LEMMA DuePanics ==
    ASSUME BodyInv, HasGraph, NEW c \in Clients, GraphPanics(c), Alone(c), NEW k, NEW f \in Refs(docs[k]),
           LinkDue(k, f)
    PROVE  LinkDue(k, f)'
  <1>1. docs' = docs /\ (pc[c] = "unlink" \/ (pc[c] = "node" /\ NilMap(c)))
    BY DEF GraphPanics, At, store
  <1>2. CASE pc[c] = "unlink"
    BY <1>1, <1>2, DueStays, MainIsNoClient
  <1>3. CASE pc[c] = "node" /\ NilMap(c)
    <2>1. doc[c] = EmptyDoc
      BY <1>3 DEF BodyInv, NilMap, Decoded, At
    <2>2. PICK q \in Procs : /\ pc[q] \in {"node", "edges"} /\ key[q] = k
                             /\ doc[q][f] = docs[k][f] /\ (pc[q] = "node" \/ f \in todo[q])
      BY DEF LinkDue, Linking, At
    <2>3. q # c
      <3>1. EmptyDoc[f] \notin References
        BY RefFacts, ValuesAreDisjoint DEF EmptyDoc
      <3> QED
        BY <2>1, <2>2, <3>1, RefFacts
    <2>4. pc'[q] = pc[q] /\ key'[q] = key[q] /\ doc'[q] = doc[q] /\ todo'[q] = todo[q]
      BY <2>3 DEF Alone
    <2> QED
      BY <1>1, <2>2, <2>4 DEF LinkDue, Linking, At
  <1> QED
    BY <1>1, <1>2, <1>3

LEMMA RefsClient ==
    ASSUME TypeInv, Tables, BodyInv, DeleteInv, RefsInv, NEW c \in Clients, Receive(c) \/ Handle(c)
    PROVE  RefsInv'
  <1> SUFFICES ASSUME HasGraph, NEW k \in DOMAIN docs' \ cut', NEW f \in Refs(docs'[k]),
                      Target(docs'[k], f) \notin cut'
               PROVE  Kept(k, f)'
    BY DEF RefsInv
  <1>1. LocalOK /\ Alone(c) /\ c \in Procs /\ toLoad' = toLoad
    BY ClientAlone, ClientGraph, MainIsNoClient DEF TypeInv
  <1>2. ASSUME k \in DOMAIN docs, docs'[k] = docs[k], cut \subseteq cut' PROVE Kept(k, f)
    BY <1>2 DEF RefsInv
  <1>3. ASSUME pc[c] \notin {"node", "edges"}, graph' = graph, docs'[k] = docs[k], Kept(k, f)
        PROVE  Kept(k, f)'
    <2>1. LinkDue(k, f) => LinkDue(k, f)'
      BY <1>1, <1>3, DueStays
    <2> QED
      BY <1>1, <1>3, <2>1 DEF Kept, Linked
  <1>4. CASE StoreDelete(c)
    <2>1. docs' = Drop(docs, key[c]) /\ cut \subseteq cut' /\ pc[c] = "delete"
      BY <1>4, Departures DEF StoreDelete
    <2>2. graph' = graph
      BY <1>4 DEF StoreDelete, memory
    <2>3. k \in DOMAIN docs /\ docs'[k] = docs[k]
      BY <2>1 DEF Drop
    <2> QED
      BY <1>2, <1>3, <2>1, <2>2, <2>3
  <1>5. ASSUME NEW j, At(c, "store"), Wrote(c, j, doc[c]), ~StoreDelete(c) PROVE Kept(k, f)'
    <2>1. docs' = Put(docs, j, doc[c]) /\ key' = [key EXCEPT ![c] = j] /\ doc' = doc
      BY <1>5 DEF Wrote
    <2>2. pc[c] = "store" /\ pc'[c] = "node" /\ key'[c] = j
      BY <1>1, <1>5, <2>1, WroteArrives DEF At, GraphEnabled, HasGraph, LocalOK
    <2>3. CASE k = j
      <3>1. docs'[k] = doc'[c]
        BY <2>1, <2>3 DEF Put
      <3> QED
        BY <1>1, <2>2, <2>3, <3>1 DEF Kept, LinkDue, Linking, At
    <2>4. CASE k # j
      <3>1. k \in DOMAIN docs /\ docs'[k] = docs[k]
        BY <2>1, <2>4 DEF Put
      <3>2. cut' = cut /\ graph' = graph
        BY <1>5, <2>2, ClientGraph, Departures
      <3> QED
        BY <1>2, <1>3, <2>2, <3>1, <3>2
    <2> QED
      BY <2>3, <2>4
  <1>7. ASSUME NEW j, WriteBreaks(c), Breaks(c, j) PROVE Kept(k, f)'
    <2>1. docs' = Drop(docs, j) /\ pc[c] = "store"
      BY <1>7, Departures DEF Breaks
    <2>2. k \in DOMAIN docs /\ docs'[k] = docs[k]
      BY <2>1 DEF Drop
    <2>3. cut' = cut /\ graph' = graph
      BY <1>7 DEF WriteBreaks, memory
    <2> QED
      BY <1>2, <1>3, <2>1, <2>2, <2>3
  <1>6. CASE docs' = docs /\ ~StoreDelete(c)
    <2>1. cut' = cut /\ Kept(k, f) /\ f \in Refs(docs[k])
      BY <1>2, <1>6, ClientGraph
    <2>2. CASE Relink(c)
      BY <1>1, <2>1, <2>2, DueWorked
    <2>3. CASE Unlinks(c)
      <3>1. pc[c] = "unlink" /\ graph' = Unindexed(RemoveNode(graph, key[c]))
        BY <2>3, Departures DEF Unlinks
      <3>2. key[c] \in cut
        BY <3>1 DEF DeleteInv, At
      <3>3. PICK n : n = Target(docs[k], f)
        OBVIOUS
      <3>4. k # key[c] /\ n # key[c]
        BY <1>6, <2>1, <3>2, <3>3
      <3>5. graph'.adj = RemoveNode(graph, key[c]).adj
        BY <3>1 DEF Unindexed, Graph
      <3>6. Linked(k, n) => Linked(k, n)'
        <4> HAVE Linked(k, n)
        <4>1. k \in DOMAIN graph.adj \ {key[c]} /\ n \in DOMAIN graph.adj[k]
          BY <3>4 DEF Linked
        <4>2. k \in DOMAIN graph'.adj /\ graph'.adj[k] = Drop(graph.adj[k], key[c])
          BY <3>5, <4>1, RemoveNodeAdj
        <4>3. n \in DOMAIN graph'.adj[k]
          BY <3>4, <4>1, <4>2 DEF Drop
        <4> QED
          BY <4>2, <4>3 DEF Linked
      <3>7. LinkDue(k, f) => LinkDue(k, f)'
        BY <1>1, <1>6, <3>1, DueStays
      <3> QED
        BY <1>1, <1>6, <2>1, <3>3, <3>6, <3>7 DEF Kept
    <2>4. CASE GraphPanics(c)
      <3>1. LinkDue(k, f) => LinkDue(k, f)'
        BY <1>1, <2>1, <2>4, DuePanics
      <3>2. graph' = graph
        BY <2>4 DEF GraphPanics, memory
      <3> QED
        BY <1>1, <1>6, <2>1, <3>1, <3>2 DEF Kept, Linked
    <2>5. CASE ~Regraph(c)
      <3>1. graph' = graph
        BY <2>5, ClientGraph DEF Regraph
      <3>2. pc[c] \notin {"node", "edges"}
        BY <2>5, Departures DEF Handle, Before, Store, Clean, Query
      <3> QED
        BY <1>3, <1>6, <2>1, <3>1, <3>2
    <2> QED
      BY <2>2, <2>3, <2>4, <2>5 DEF Regraph
  <1> QED
    BY <1>1, <1>4, <1>5, <1>6, <1>7, ClientDocs

LEMMA RefsRest ==
    ASSUME TypeInv, Tables, RefsInv,
           SaveAtExit \/ LoadNext \/ Serve \/ Relink(Main) \/ (\E e : Expire(e)) \/ UNCHANGED vars
    PROVE  RefsInv'
  <1> SUFFICES ASSUME HasGraph, NEW k \in DOMAIN docs' \ cut', NEW f \in Refs(docs'[k]),
                      Target(docs'[k], f) \notin cut'
               PROVE  Kept(k, f)'
    BY DEF RefsInv
  <1>1. docs' = docs /\ cut' = cut /\ LocalOK /\ Main \in Procs
    BY MainIsNoClient DEF SaveAtExit, LoadNext, Serve, Relink, UpdateNode, UpdateEdge, LinkNext,
           Expire, vars, store, past, TypeInv
  <1>2. Kept(k, f) /\ k \in DOMAIN docs /\ f \in Refs(docs[k])
    BY <1>1 DEF RefsInv
  <1>3. CASE LoadNext
    <2>1. PICK j \in toLoad : /\ toLoad' = toLoad \ {j}
                              /\ key' = [key EXCEPT ![Main] = j]
                              /\ doc' = [doc EXCEPT ![Main] = docs[j]]
      BY <1>3 DEF LoadNext
    <2>2. pc[Main] = "idle" /\ pc'[Main] = "node" /\ graph' = graph
      BY <1>1, <1>3 DEF LoadNext, At, Advance, LocalOK, memory
    <2>3. CASE k = j
      <3>1. key'[Main] = k /\ doc'[Main] = docs[k]
        BY <1>1, <2>1, <2>3 DEF LocalOK
      <3> QED
        BY <1>1, <2>2, <3>1 DEF Kept, LinkDue, Linking, At
    <2>4. CASE k # j
      <3>1. Alone(Main)
        BY <1>1, <1>3, MainTouches, TouchesAlone
      <3>2. LinkDue(k, f) => LinkDue(k, f)'
        BY <1>1, <2>2, <3>1, DueStays
      <3> QED
        BY <1>1, <1>2, <2>1, <2>2, <2>4, <3>2 DEF Kept, Linked
    <2> QED
      BY <2>3, <2>4
  <1>4. CASE Relink(Main)
    <2>1. Alone(Main)
      BY <1>1, <1>4, MainTouches, TouchesAlone
    <2> QED
      BY <1>1, <1>2, <1>4, <2>1, DueWorked
  <1>5. CASE ~LoadNext /\ ~Relink(Main)
    <2>1. UNCHANGED <<graph, toLoad, pc, key, doc, todo>>
      BY <1>5 DEF SaveAtExit, Serve, Expire, vars, memory, local, process
    <2> QED
      BY <1>1, <1>2, <2>1 DEF Kept, Linked, LinkDue, Linking, At
  <1> QED
    BY <1>3, <1>4, <1>5

LEMMA RefsRestart ==
    ASSUME \A t \in Types : HasDir(t), TypeInv, Restart PROVE RefsInv'
  <1> SUFFICES ASSUME HasGraph, NEW k \in DOMAIN docs' \ cut' PROVE k \in toLoad'
    BY DEF RefsInv, Kept
  <1>1. PICK missed : /\ toLoad' = {x \in DOMAIN docs \ missed : HasGraph /\ HasDir(x[1])}
                      /\ cut' = missed
    BY DEF Restart
  <1>2. k \in DOMAIN docs /\ k[1] \in Types
    BY DEF Restart, store, TypeInv, StoreOK, Keys
  <1> QED
    BY <1>1, <1>2

LEMMA RefsInit == Init => RefsInv
  BY DEF Init, RefsInv, EmptyMap

LEMMA RefsStep ==
    (\A t \in Types : HasDir(t)) =>
        (TypeInv /\ Tables /\ BodyInv /\ DeleteInv /\ RefsInv /\ [Next]_vars => RefsInv')
  BY RefsClient, RefsRest, RefsRestart DEF Next, Process

(* However requests overlap, fail or are cut off: the graph has every      *)
(* reference between documents that were never deleted, where main finds   *)
(* all documents and no cascade can fail.                                  *)
THEOREM ReferencesAreLinked ==
    (\A t \in Types : HasDir(t)) /\ ~(Faults /\ CascadingDelete) => (Spec => []LiveRefsLinked)
  <1> SUFFICES ASSUME \A t \in Types : HasDir(t), ~(Faults /\ CascadingDelete)
               PROVE  Spec => []LiveRefsLinked
    OBVIOUS
  <1> DEFINE Inv == TypeInv /\ Tables /\ BodyInv /\ DeleteInv /\ RefsInv
  <1>1. Init => Inv
    BY TypeInit, TablesInit, BodyInit, DeleteInit, RefsInit
  <1>2. Inv /\ [Next]_vars => Inv'
    BY TypeStep, TablesStep, BodyStep, DeleteStep, RefsStep
  <1>3. Inv => LiveRefsLinked
    BY RefsFollow
  <1> QED
    BY <1>1, <1>2, <1>3, PTL DEF Spec

(***************************************************************************)
(* The graph has no edges of documents that are gone.                      *)
(***************************************************************************)
(* Without a graph nobody adds to it.  What is linked is stored, or was    *)
(* deleted meanwhile.                                                      *)
DetachInv ==
    /\ ~HasGraph => graph = EmptyGraph /\ \A p \in Procs : pc[p] # "edges"
    /\ \A p \in Procs : pc[p] \in {"node", "edges"} => key[p] \in Present \cup raced
    /\ DeletedIsDetached

(* The names in a file that is read have one part, those of documents two. *)
LEMMA LoadedApart ==
    ASSUME NEW ls, NEW g \in Loads(ls), NEW k \in Keys PROVE k \notin DOMAIN g.adj
  <1>1. DOMAIN g.adj = Ends(ls)
    BY DEF Loads, GraphOf, Graph
  <1>2. \A n \in Ends(ls) : \E x : n = <<x>>
    BY DEF Ends, Entries, LineNode, WordNode
  <1>3. \A x : k # <<x>>
    BY DEF Keys
  <1> QED
    BY <1>1, <1>2, <1>3

LEMMA StoredGrows ==
    ASSUME LocalOK, NEW c \in Clients, Receive(c) \/ Handle(c), ~StoreDelete(c)
    PROVE  Present \subseteq Present' /\ raced' = raced
  BY ClientGraph, StaysPresent

(* What a process links.                                                   *)
LEMMA LinkedIsStored ==
    ASSUME TypeInv, Tables, DetachInv, NEW c \in Clients, Receive(c) \/ Handle(c)
    PROVE  /\ \A p \in Procs : pc'[p] \in {"node", "edges"} => key'[p] \in Present' \cup raced'
           /\ ~HasGraph => \A p \in Procs : pc'[p] # "edges"
  <1>1. LocalOK /\ Alone(c) /\ c \in Procs
    BY ClientAlone, MainIsNoClient DEF TypeInv
  <1>2. ASSUME NEW p \in Procs \ {c}, pc'[p] \in {"node", "edges"}
        PROVE  key'[p] \in Present' \cup raced'
    <2>1. pc'[p] = pc[p] /\ key'[p] = key[p]
      BY <1>1 DEF Alone
    <2>2. key[p] \in Present \cup raced
      BY <1>2, <2>1 DEF DetachInv
    <2>3. CASE StoreDelete(c)
      <3>1. /\ docs' = Drop(docs, key[c]) /\ torn' = torn \ {key[c]}
            /\ raced' = IF Linking(key[c]) = {} THEN raced ELSE raced \cup {key[c]}
        BY <2>3 DEF StoreDelete
      <3>2. key[p] = key[c] => key[p] \in raced'
        BY <1>2, <2>1, <3>1 DEF Linking
      <3> QED
        BY <2>1, <2>2, <3>1, <3>2 DEF Drop, Present
    <2>4. CASE ~StoreDelete(c)
      BY <1>1, <2>1, <2>2, <2>4, StoredGrows
    <2> QED
      BY <2>3, <2>4
  <1>3. ASSUME pc'[c] \in {"node", "edges"}
        PROVE  (\E k : Wrote(c, k, doc[c])) \/ Relink(c)
    <2>1. StoreCreate(c) \/ StoreUpdate(c) \/ StoreSave(c) => Finish(c) \/ \E k : Wrote(c, k, doc[c])
      BY DEF StoreCreate, StoreUpdate, StoreSave
    <2>2. ~Finish(c)
      BY <1>1, <1>3, PcSet
    <2> QED
      BY <1>1, <1>3, <2>1, <2>2, Arrivals DEF Handle, Before, Store, Regraph, AfterDelete
  <1>4. ASSUME pc'[c] \in {"node", "edges"} PROVE key'[c] \in Present' \cup raced'
    <2>1. ASSUME NEW k, Wrote(c, k, doc[c]) PROVE key'[c] \in Present'
      <3>1. docs' = Put(docs, k, doc[c]) /\ key'[c] = k
        BY <1>1, <2>1 DEF Wrote, LocalOK
      <3> QED
        BY <3>1 DEF Put, Present
    <2>2. CASE Relink(c)
      <3>1. UNCHANGED <<docs, torn, raced, key>> /\ pc[c] \in {"node", "edges"}
        BY <1>1, <2>2, RelinkEffect
      <3> QED
        BY <1>1, <3>1 DEF DetachInv, Present
    <2> QED
      BY <1>3, <1>4, <2>1, <2>2
  <1>5. ASSUME ~HasGraph, NEW p \in Procs PROVE pc'[p] # "edges"
    <2>1. CASE p # c
      <3>1. pc'[p] = pc[p]
        BY <1>1, <2>1 DEF Alone
      <3> QED
        BY <1>5, <3>1 DEF DetachInv
    <2>2. CASE p = c
      <3>1. ~Relink(c)
        BY <1>1, <1>5, RelinkEffect DEF DetachInv
      <3>2. \A k : Wrote(c, k, doc[c]) => pc'[c] \in {"node", "invalidate"}
        BY <1>1, WroteArrives
      <3> QED
        BY <1>3, <2>2, <3>1, <3>2
    <2> QED
      BY <2>1, <2>2
  <1> QED
    BY <1>2, <1>4, <1>5

(* No edge leads out of document k.                                        *)
Detached(k) == k \in DOMAIN graph.adj => \/ graph.adj[k] = EmptyMap
                                         \/ \E c \in Clients : pc[c] = "unlink" /\ key[c] = k

LEMMA DetachedMeans == DeletedIsDetached <=> \A k \in Keys \ (Present \cup raced) : Detached(k)
  BY DEF DeletedIsDetached, Detached, At

(* A step of UpdateFromEntity about another document.                      *)
LEMMA DetachedRelink ==
    ASSUME LocalOK, Tables, NEW p \in Procs, Relink(p), Alone(p), NEW k, k # key[p], Detached(k)
    PROVE  Detached(k)'
  <1>1. key' = key /\ pc[p] \in {"node", "edges"}
    BY RelinkEffect
  <1>2. ASSUME NEW c \in Clients, pc[c] = "unlink", key[c] = k PROVE Detached(k)'
    <2>1. c # p
      BY <1>1, <1>2
    <2>2. pc'[c] = "unlink"
      BY <1>2, <2>1, MainIsNoClient DEF Alone
    <2> QED
      BY <1>1, <1>2, <2>2 DEF Detached
  <1>3. ASSUME k \in DOMAIN graph'.adj, k \notin DOMAIN graph.adj \/ graph.adj[k] = EmptyMap
        PROVE  Detached(k)'
    <2>1. graph'.adj[k] = EmptyMap
      BY <1>3, RelinkAdj
    <2> QED
      BY <2>1 DEF Detached
  <1> QED
    BY <1>2, <1>3 DEF Detached

LEMMA DetachedApart ==
    ASSUME NEW c \in Clients, Alone(c), pc[c] # "unlink", graph' = graph, NEW k, Detached(k)
    PROVE  Detached(k)'
  <1>1. ASSUME NEW d \in Clients, pc[d] = "unlink", key[d] = k PROVE Detached(k)'
    <2>1. pc'[d] = pc[d] /\ key'[d] = key[d]
      BY <1>1, MainIsNoClient DEF Alone
    <2> QED
      BY <1>1, <2>1 DEF Detached
  <1> QED
    BY <1>1 DEF Detached

LEMMA NoGraphStays ==
    ASSUME LocalOK, Tables, DetachInv, ~HasGraph, NEW p \in Procs, Relink(p) \/ Unlinks(p) PROVE FALSE
  <1>1. pc[p] # "edges"
    BY DEF DetachInv
  <1>2. ~Relink(p)
    BY <1>1, RelinkEffect
  <1> QED
    BY <1>2 DEF Unlinks

LEMMA DetachClient ==
    ASSUME TypeInv, Tables, DetachInv, NEW c \in Clients, Receive(c) \/ Handle(c) PROVE DetachInv'
  <1>1. LocalOK /\ Alone(c) /\ c \in Procs
    BY ClientAlone, MainIsNoClient DEF TypeInv
  <1>2. ~HasGraph => graph = EmptyGraph /\ graph' = EmptyGraph
    BY <1>1, NoGraphStays, ClientGraph DEF DetachInv
  <1>3. ASSUME NEW k \in Keys \ (Present' \cup raced') PROVE Detached(k)'
    <2>0. CASE ~HasGraph
      BY <1>2, <2>0 DEF Detached, EmptyGraph, Graph, EmptyMap
    <2>1. k \notin Present \cup raced => Detached(k)
      BY DetachedMeans DEF DetachInv
    <2>2. CASE HasGraph /\ StoreDelete(c)
      <3>1. /\ docs' = Drop(docs, key[c]) /\ torn' = torn \ {key[c]} /\ key' = key
            /\ raced \subseteq raced' /\ pc[c] = "delete" /\ graph' = graph
        BY <2>2, Departures DEF StoreDelete, memory
      <3>2. CASE k = key[c]
        <4>1. pc'[c] = "unlink"
          BY <1>1, <2>2, Arrivals DEF AfterDelete, GraphEnabled, HasGraph
        <4> QED
          BY <3>1, <3>2, <4>1 DEF Detached
      <3>3. CASE k # key[c]
        <4>1. k \notin Present \cup raced
          BY <3>1, <3>3 DEF Drop, Present
        <4> QED
          BY <1>1, <2>1, <3>1, <4>1, DetachedApart
      <3> QED
        BY <3>2, <3>3
    <2>3. CASE HasGraph /\ ~StoreDelete(c)
      <3>1. Detached(k)
        BY <1>1, <2>1, <2>3, StoredGrows
      <3>2. CASE Relink(c)
        <4>1. k # key[c]
          <5>1. UNCHANGED <<docs, torn, raced>> /\ pc[c] \in {"node", "edges"}
            BY <1>1, <3>2, RelinkEffect
          <5>2. key[c] \in Present \cup raced
            BY <1>1, <5>1 DEF DetachInv
          <5> QED
            BY <5>1, <5>2 DEF Present
        <4> QED
          BY <1>1, <3>1, <3>2, <4>1, DetachedRelink
      <3>3. CASE Unlinks(c)
        <4>1. graph'.adj = RemoveNode(graph, key[c]).adj
          BY <3>3 DEF Unlinks, Unindexed, Graph
        <4>2. ASSUME NEW d \in Clients, pc[d] = "unlink", key[d] = k, k # key[c] PROVE Detached(k)'
          <5>1. pc'[d] = pc[d] /\ key'[d] = key[d]
            BY <1>1, <4>2, MainIsNoClient DEF Alone
          <5> QED
            BY <4>2, <5>1 DEF Detached
        <4>3. ASSUME k \in DOMAIN graph.adj \ {key[c]}, graph.adj[k] = EmptyMap PROVE Detached(k)'
          <5>1. graph'.adj[k] = Drop(graph.adj[k], key[c])
            BY <4>1, <4>3, RemoveNodeAdj
          <5>2. Drop(EmptyMap, key[c]) = EmptyMap
            BY DEF Drop, EmptyMap
          <5> QED
            BY <4>3, <5>1, <5>2 DEF Detached
        <4>4. k \in DOMAIN graph'.adj => k \in DOMAIN graph.adj \ {key[c]}
          BY <4>1, RemoveNodeAdj
        <4>5. CASE k \notin DOMAIN graph'.adj
          BY <4>5 DEF Detached
        <4>6. CASE k \in DOMAIN graph'.adj
          BY <3>1, <4>2, <4>3, <4>4, <4>6 DEF Detached
        <4> QED
          BY <4>5, <4>6
      <3>4. CASE ~Relink(c) /\ ~Unlinks(c)
        <4>1. graph' = graph
          BY <3>4, ClientGraph
        <4>2. pc[c] # "unlink"
          <5>1. ~GraphPanics(c) => pc[c] # "unlink"
            BY <3>4, Departures DEF Handle, Before, Store, Regraph, Clean, Query
          <5>2. GraphPanics(c) => pc[c] = "node"
            BY <2>3 DEF GraphPanics, At
          <5> QED
            BY <5>1, <5>2
        <4> QED
          BY <1>1, <3>1, <4>1, <4>2, DetachedApart
      <3> QED
        BY <3>2, <3>3, <3>4
    <2> QED
      BY <2>0, <2>2, <2>3
  <1>4. DeletedIsDetached'
    BY <1>3 DEF DeletedIsDetached, Detached, At
  <1> QED
    BY <1>2, <1>4, LinkedIsStored DEF DetachInv

LEMMA DetachRest ==
    ASSUME TypeInv, Tables, DetachInv,
           SaveAtExit \/ LoadNext \/ Serve \/ Relink(Main) \/ (\E e : Expire(e)) \/ UNCHANGED vars
    PROVE  DetachInv'
  <1>1. docs' = docs /\ Present' = Present /\ raced' = raced /\ LocalOK /\ Main \in Procs
    BY MainIsNoClient DEF Present, SaveAtExit, LoadNext, Serve, Relink, UpdateNode, UpdateEdge, LinkNext,
           Expire, vars, store, past, TypeInv
  <1>2. CASE LoadNext
    <2>1. PICK j \in toLoad : key' = [key EXCEPT ![Main] = j]
      BY <1>2 DEF LoadNext
    <2>2. /\ pc' = [pc EXCEPT ![Main] = "node"] /\ graph' = graph
      BY <1>2 DEF LoadNext, Advance, memory
    <2>3. j \in DOMAIN docs
      BY <2>1 DEF TypeInv, PhaseOK
    <2>4. pc'[Main] = "node" /\ key'[Main] = j
      BY <1>1, <2>1, <2>2 DEF LocalOK
    <2>5. \A p \in Procs \ {Main} : pc'[p] = pc[p] /\ key'[p] = key[p]
      BY <1>1, <2>1, <2>2 DEF LocalOK
    <2>6. \A p \in Procs : pc'[p] \in {"node", "edges"} => key'[p] \in Present \cup raced
      BY <2>3, <2>4, <2>5 DEF DetachInv, Present
    <2>7. ~HasGraph => graph' = EmptyGraph /\ \A p \in Procs : pc'[p] # "edges"
      BY <2>2, <2>4, <2>5 DEF DetachInv
    <2>8. DeletedIsDetached'
      BY <1>1, <2>2, <2>5, MainIsNoClient DEF DetachInv, DeletedIsDetached, At
    <2> QED
      BY <1>1, <2>6, <2>7, <2>8 DEF DetachInv
  <1>3. CASE Relink(Main)
    <2>1. /\ Alone(Main) /\ HasGraph /\ key' = key /\ pc[Main] \in {"node", "edges"}
      BY <1>1, <1>3, MainTouches, TouchesAlone, NoGraphStays, RelinkEffect
    <2>2. key[Main] \in Present \cup raced
      BY <1>1, <2>1 DEF DetachInv
    <2>3. \A p \in Procs : pc'[p] \in {"node", "edges"} => key'[p] \in Present \cup raced
      <3> SUFFICES ASSUME NEW p \in Procs, p # Main, pc'[p] \in {"node", "edges"}
                   PROVE  key[p] \in Present \cup raced
        BY <2>1, <2>2
      <3>1. pc'[p] = pc[p]
        BY <2>1 DEF Alone
      <3> QED
        BY <3>1 DEF DetachInv
    <2>4. ASSUME NEW k \in Keys \ (Present \cup raced) PROVE Detached(k)'
      <3>1. Detached(k) /\ k # key[Main]
        BY <2>2, <2>4, DetachedMeans DEF DetachInv
      <3> QED
        BY <1>1, <1>3, <2>1, <3>1, DetachedRelink
    <2>5. DeletedIsDetached'
      BY <1>1, <2>4 DEF DeletedIsDetached, Detached, At
    <2> QED
      BY <1>1, <2>1, <2>3, <2>5 DEF DetachInv
  <1>4. CASE ~LoadNext /\ ~Relink(Main)
    <2>1. UNCHANGED <<graph, pc, key>>
      BY <1>4 DEF SaveAtExit, Serve, Expire, vars, memory, local
    <2> QED
      BY <1>1, <2>1 DEF DetachInv, DeletedIsDetached, At
  <1> QED
    BY <1>2, <1>3, <1>4

LEMMA DetachRestart == ASSUME DetachInv, Restart PROVE DetachInv'
  <1>1. \A p \in Procs : pc'[p] = "idle"
    BY DEF Restart
  <1>2. ~HasGraph => graph' = EmptyGraph
    BY DEF Restart, DetachInv
  <1>3. \A k \in Keys : k \notin DOMAIN graph'.adj
    <2>1. CASE HasGraph
      <3>1. PICK ls : graph' \in Loads(ls)
        BY <2>1 DEF Restart
      <3> QED
        BY <3>1, LoadedApart
    <2>2. CASE ~HasGraph
      BY <1>2, <2>2 DEF EmptyGraph, Graph, EmptyMap
    <2> QED
      BY <2>1, <2>2
  <1> QED
    BY <1>1, <1>2, <1>3 DEF DetachInv, DeletedIsDetached

LEMMA DetachInit == Init => DetachInv
  BY DEF Init, DetachInv, DeletedIsDetached, EmptyGraph, Graph, EmptyMap

LEMMA DetachStep == TypeInv /\ Tables /\ DetachInv /\ [Next]_vars => DetachInv'
  BY DetachClient, DetachRest, DetachRestart DEF Next, Process

(* Once handlers are through, a deleted document has no edges, unless its  *)
(* delete met a request that was linking it: also after a restart, since   *)
(* the file the graph is loaded from names no document.                    *)
THEOREM DeletedAreDetached == Spec => []DeletedIsDetached
  <1>1. DetachInv => DeletedIsDetached
    BY DEF DetachInv
  <1> QED
    BY <1>1, TypeInit, TablesInit, DetachInit, TypeStep, TablesStep, DetachStep, PTL DEF Spec

(***************************************************************************)
(* The edges of the graph are references of the documents.                 *)
(***************************************************************************)
Fresh(k) == k \notin rewritten \cup raced

(* What links a document that nothing replaced has what is stored of it.   *)
LinksInv ==
    /\ rewritten \subseteq Present
    /\ \A p \in Procs : /\ pc[p] = "edges" => todo[p] \subseteq Refs(doc[p])
                        /\ pc[p] \in {"node", "edges"} /\ Fresh(key[p]) =>
                              key[p] \in DOMAIN docs /\ docs[key[p]] = doc[p]

Refers(d, n, r) == \E f \in Refs(d) : n = Target(d, f) /\ r = <<f>>
EdgesRefer(k)   == k \in DOMAIN graph.adj =>
                      \A n \in DOMAIN graph.adj[k] : /\ k \in DOMAIN docs
                                                     /\ Refers(docs[k], n, graph.adj[k][n])
Leaving(k)      == \E c \in Clients : pc[c] = "unlink" /\ key[c] = k

LEMMA EdgesMean ==
    EdgesAreReferences <=> \A k \in Keys : Fresh(k) => EdgesRefer(k) \/ Leaving(k)
  BY DEF EdgesAreReferences, Fresh, EdgesRefer, Refers, Leaving, At

(* A step of a client that stores, deletes, or leaves the documents alone. *)
LEMMA ClientWrites ==
    ASSUME LocalOK, NEW c \in Clients, Receive(c) \/ Handle(c)
    PROVE  \/ raced' = raced /\ At(c, "store") /\ \E k : Wrote(c, k, doc[c])
           \/ StoreDelete(c)
           \/ raced' = raced /\ At(c, "store") /\ \E k : Breaks(c, k) /\ graph' = graph
           \/ UNCHANGED <<docs, torn, rewritten, raced>>
  <1>1. ~StoreDelete(c) => raced' = raced
    BY ClientGraph
  <1>2. CASE StoreCreate(c) \/ StoreUpdate(c) \/ StoreSave(c)
    <2>1. At(c, "store") /\ (UNCHANGED <<docs, torn, rewritten>> \/ \E k : Wrote(c, k, doc[c]))
      BY <1>2 DEF StoreCreate, StoreUpdate, StoreSave, store
    <2>2. ~StoreDelete(c)
      BY <2>1 DEF StoreDelete, At
    <2> QED
      BY <1>1, <2>1, <2>2
  <1>4. CASE WriteBreaks(c)
    BY <1>4, BrokenKey DEF WriteBreaks, memory
  <1>3. CASE ~StoreCreate(c) /\ ~StoreUpdate(c) /\ ~StoreSave(c) /\ ~StoreDelete(c) /\ ~WriteBreaks(c)
    <2>1. CASE Receive(c) \/ Before(c)
      BY <2>1 DEF Receive, Before, Exists, PatchGet, Validate, PostSchema, store, past
    <2>2. CASE DeleteFails(c) \/ StoreFails(c)
      BY <2>2 DEF DeleteFails, StoreFails, store, past
    <2>3. CASE Regraph(c)
      BY <2>3 DEF Regraph, Relink, UpdateNode, UpdateEdge, LinkNext, Unlinks, GraphPanics, store, past
    <2>4. CASE Clean(c)
      BY <2>4 DEF Clean, Invalidate, Scan, DeletePage, ScanFails, store, past
    <2>5. CASE Query(c)
      BY <2>5 DEF Query, CacheGet, StoreGet, EmbedOne, StoreList, Fill, FillFails, store, past
    <2> QED
      BY <1>3, <2>1, <2>2, <2>3, <2>4, <2>5 DEF Handle, Store
  <1> QED
    BY <1>2, <1>3, <1>4

LEMMA WroteEffect ==
    ASSUME LocalOK, NEW c \in Clients, NEW k, Wrote(c, k, doc[c])
    PROVE  /\ docs' = Put(docs, k, doc[c]) /\ torn' = torn \ {k}
           /\ rewritten' = rewritten \cup ({k} \cap Present)
           /\ key'[c] = k /\ doc' = doc
           /\ pc'[c] \in {"node", "invalidate"}
  BY WroteArrives, MainIsNoClient DEF Wrote, LocalOK

LEMMA DeleteEffect ==
    ASSUME NEW c, StoreDelete(c)
    PROVE  /\ docs' = Drop(docs, key[c]) /\ torn' = torn \ {key[c]}
           /\ rewritten' = rewritten \ {key[c]}
           /\ raced' = IF Linking(key[c]) = {} THEN raced ELSE raced \cup {key[c]}
           /\ pc[c] = "delete" /\ key' = key /\ graph' = graph
  BY DEF StoreDelete, At, memory

(* The edges out of the node an edge is added to.                          *)
LEMMA AddEdgeRels ==
    ASSUME NEW g, NEW a, NEW b, NEW r, NEW x \in DOMAIN AddEdge(g, a, b, r).adj[a]
    PROVE  \/ x = b /\ AddEdge(g, a, b, r).adj[a][x] = r
           \/ /\ a \in DOMAIN g.adj /\ x \in DOMAIN g.adj[a]
              /\ AddEdge(g, a, b, r).adj[a][x] = g.adj[a][x]
  <1> DEFINE h == Ensure(Ensure(g, a), b)
  <1>1. IF a \in DOMAIN g.adj THEN h.adj[a] = g.adj[a] ELSE h.adj[a] = EmptyMap
    BY EnsureAdj
  <1>2. AddEdge(g, a, b, r).adj = Put(h.adj, a, Put(h.adj[a], b, r))
    BY DEF AddEdge, Graph, Link
  <1> HIDE DEF h
  <1>3. AddEdge(g, a, b, r).adj[a] = Put(h.adj[a], b, r)
    BY <1>2 DEF Put
  <1> QED
    BY <1>1, <1>3 DEF Put, EmptyMap

(* A step of UpdateFromEntity keeps what it links, and adds references of  *)
(* what it is given.                                                       *)
LEMMA LinksRelink ==
    ASSUME LocalOK, Tables, LinksInv, NEW p \in Procs, Relink(p), Alone(p), rewritten' = rewritten
    PROVE  LinksInv'
  <1>1. UNCHANGED <<docs, torn, key, doc, raced>> /\ pc[p] \in {"node", "edges"}
    BY RelinkEffect
  <1>2. todo'[p] \subseteq Refs(doc[p])
    BY RelinkEffect DEF LinksInv
  <1>3. \A q \in Procs \ {p} : pc'[q] = pc[q] /\ todo'[q] = todo[q]
    BY DEF Alone
  <1> QED
    BY <1>1, <1>2, <1>3 DEF LinksInv, Fresh, Present

LEMMA LinksClient ==
    ASSUME TypeInv, Tables, DetachInv, LinksInv, NEW c \in Clients, Receive(c) \/ Handle(c)
    PROVE  LinksInv'
  <1>1. LocalOK /\ Alone(c) /\ c \in Procs
    BY ClientAlone, MainIsNoClient DEF TypeInv
  <1>2. CASE Relink(c)
    <2>1. rewritten' = rewritten
      BY <1>2 DEF Relink, UpdateNode, UpdateEdge, LinkNext, past
    <2> QED
      BY <1>1, <1>2, <2>1, LinksRelink
  <1>3. ASSUME NEW k, Wrote(c, k, doc[c]), raced' = raced PROVE LinksInv'
    <2>1. /\ docs' = Put(docs, k, doc[c]) /\ torn' = torn \ {k}
          /\ rewritten' = rewritten \cup ({k} \cap Present)
          /\ key'[c] = k /\ doc' = doc /\ pc'[c] \in {"node", "invalidate"}
      BY <1>1, <1>3, WroteEffect
    <2>2. rewritten' \subseteq Present'
      BY <2>1 DEF LinksInv, Put, Present
    <2>3. ASSUME NEW p \in Procs \ {c}, pc'[p] \in {"node", "edges"}, Fresh(key[p])'
          PROVE  key'[p] \in DOMAIN docs' /\ docs'[key'[p]] = doc'[p]
      <3>1. pc'[p] = pc[p] /\ key'[p] = key[p]
        BY <1>1 DEF Alone
      <3>2. key[p] \in DOMAIN docs /\ docs[key[p]] = doc[p]
        BY <1>3, <2>1, <2>3, <3>1 DEF LinksInv, Fresh
      <3>3. key[p] # k
        BY <2>1, <2>3, <3>1, <3>2 DEF Fresh, Present
      <3> QED
        BY <2>1, <3>1, <3>2, <3>3 DEF Put
    <2>4. ASSUME NEW p \in Procs, pc'[p] = "edges" PROVE todo'[p] \subseteq Refs(doc'[p])
      BY <1>1, <2>1, <2>4 DEF LinksInv, Alone
    <2>5. key'[c] \in DOMAIN docs' /\ docs'[key'[c]] = doc'[c]
      BY <2>1 DEF Put
    <2> QED
      BY <2>2, <2>3, <2>4, <2>5 DEF LinksInv
  <1>4. ASSUME ~Relink(c), pc'[c] \in {"node", "edges"} PROVE \E k : Wrote(c, k, doc[c])
    <2>1. StoreCreate(c) \/ StoreUpdate(c) \/ StoreSave(c) => Finish(c) \/ \E k : Wrote(c, k, doc[c])
      BY DEF StoreCreate, StoreUpdate, StoreSave
    <2>2. ~Finish(c)
      BY <1>1, <1>4, PcSet
    <2> QED
      BY <1>1, <1>4, <2>1, <2>2, Arrivals DEF Handle, Before, Store, Regraph, AfterDelete
  <1>5. ASSUME NEW p \in Procs, pc'[p] \in {"node", "edges"}, ~Relink(c),
               ~\E k : Wrote(c, k, doc[c])
        PROVE  /\ p # c /\ pc'[p] = pc[p] /\ key'[p] = key[p] /\ doc'[p] = doc[p]
               /\ todo'[p] = todo[p]
    BY <1>1, <1>4, <1>5 DEF Alone
  <1>6. CASE StoreDelete(c)
    <2>1. /\ docs' = Drop(docs, key[c]) /\ torn' = torn \ {key[c]}
          /\ rewritten' = rewritten \ {key[c]} /\ key' = key /\ pc[c] = "delete"
          /\ raced' = IF Linking(key[c]) = {} THEN raced ELSE raced \cup {key[c]}
      BY <1>6, DeleteEffect
    <2>2. ~Relink(c) /\ ~\E k : Wrote(c, k, doc[c])
      <3>1. ~Relink(c)
        BY <2>1, Departures
      <3>2. ASSUME NEW k, Wrote(c, k, doc[c]) PROVE FALSE
        <4>1. docs' = Put(docs, k, doc[c]) /\ key'[c] = k
          BY <1>1, <3>2, WroteEffect
        <4>2. k \in DOMAIN docs'
          BY <4>1 DEF Put
        <4> QED
          BY <2>1, <4>1, <4>2 DEF Drop
      <3> QED
        BY <3>1, <3>2
    <2>3. rewritten' \subseteq Present'
      BY <2>1 DEF LinksInv, Drop, Present
    <2>4. ASSUME NEW p \in Procs, pc'[p] \in {"node", "edges"}, Fresh(key[p])'
          PROVE  key'[p] \in DOMAIN docs' /\ docs'[key'[p]] = doc'[p]
      <3>1. /\ pc'[p] = pc[p] /\ key'[p] = key[p] /\ doc'[p] = doc[p]
        BY <1>5, <2>2, <2>4
      <3>2. key[p] # key[c]
        BY <2>1, <2>4, <3>1 DEF Linking, Fresh
      <3>3. Fresh(key[p])
        BY <2>1, <2>4, <3>1, <3>2 DEF Fresh
      <3>4. key[p] \in DOMAIN docs /\ docs[key[p]] = doc[p]
        BY <2>4, <3>1, <3>3 DEF LinksInv
      <3> QED
        BY <2>1, <3>1, <3>2, <3>4 DEF Drop
    <2>5. ASSUME NEW p \in Procs, pc'[p] = "edges" PROVE todo'[p] \subseteq Refs(doc'[p])
      BY <1>5, <2>2, <2>5 DEF LinksInv
    <2> QED
      BY <2>3, <2>4, <2>5 DEF LinksInv
  <1>9. CASE raced' = raced /\ At(c, "store") /\ \E k : Breaks(c, k)
    <2>1. PICK k : Breaks(c, k)
      BY <1>9
    <2>2. docs' = Drop(docs, k) /\ torn' = torn \cup {k} /\ rewritten' = rewritten \cup {k}
      BY <2>1 DEF Breaks
    <2>3. pc'[c] = "idle"
      BY <1>1, <2>1 DEF Breaks, Closes, Advance, LocalOK
    <2>4. rewritten' \subseteq Present'
      BY <2>2 DEF LinksInv, Present, Drop
    <2>5. ASSUME NEW p \in Procs, pc'[p] \in {"node", "edges"}
          PROVE  /\ pc'[p] = "edges" => todo'[p] \subseteq Refs(doc'[p])
                 /\ Fresh(key[p])' => key'[p] \in DOMAIN docs' /\ docs'[key'[p]] = doc'[p]
      <3>1. /\ pc'[p] = pc[p] /\ key'[p] = key[p] /\ doc'[p] = doc[p] /\ todo'[p] = todo[p]
        BY <1>1, <2>3, <2>5 DEF Alone
      <3>2. Fresh(key[p])' => key[p] # k /\ Fresh(key[p])
        BY <1>9, <2>2, <3>1 DEF Fresh
      <3> QED
        BY <2>2, <2>5, <3>1, <3>2 DEF LinksInv, Drop
    <2> QED
      BY <2>4, <2>5 DEF LinksInv
  <1>7. CASE UNCHANGED <<docs, torn, rewritten, raced>> /\ ~Relink(c) /\ ~\E k : Wrote(c, k, doc[c])
    <2>1. ASSUME NEW p \in Procs, pc'[p] \in {"node", "edges"}
          PROVE  /\ pc'[p] = "edges" => todo'[p] \subseteq Refs(doc'[p])
                 /\ Fresh(key[p])' => key'[p] \in DOMAIN docs' /\ docs'[key'[p]] = doc'[p]
      <3>1. /\ pc'[p] = pc[p] /\ key'[p] = key[p] /\ doc'[p] = doc[p] /\ todo'[p] = todo[p]
        BY <1>5, <1>7, <2>1
      <3> QED
        BY <1>7, <2>1, <3>1 DEF LinksInv, Fresh
    <2> QED
      BY <1>7, <2>1 DEF LinksInv, Present
  <1>8. UNCHANGED <<docs, torn, rewritten, raced>> => raced' = raced
    OBVIOUS
  <1> QED
    BY <1>1, <1>2, <1>3, <1>6, <1>7, <1>8, <1>9, ClientWrites

(* A step of UpdateFromEntity and the edges of a document.                 *)
LEMMA EdgesRelink ==
    ASSUME LocalOK, Tables, DetachInv, LinksInv, NEW p \in Procs, Relink(p), Alone(p),
           rewritten' = rewritten, NEW k, Fresh(k), EdgesRefer(k) \/ Leaving(k)
    PROVE  EdgesRefer(k)' \/ Leaving(k)'
  <1>1. UNCHANGED <<docs, key, doc, raced>> /\ pc[p] \in {"node", "edges"}
    BY RelinkEffect
  <1>2. CASE Leaving(k)
    <2>1. PICK d \in Clients : pc[d] = "unlink" /\ key[d] = k
      BY <1>2 DEF Leaving
    <2>2. pc'[d] = "unlink"
      BY <1>1, <2>1, MainIsNoClient DEF Alone
    <2> QED
      BY <1>1, <2>1, <2>2 DEF Leaving
  <1>3. CASE EdgesRefer(k) /\ (k # key[p] \/ pc[p] = "node")
    <2>1. k \in DOMAIN graph'.adj =>
             \/ k \in DOMAIN graph.adj /\ graph'.adj[k] = graph.adj[k]
             \/ graph'.adj[k] = EmptyMap
      <3>1. CASE k # key[p]
        BY <3>1, RelinkAdj
      <3>2. CASE k = key[p] /\ pc[p] = "node"
        <4>1. graph'.adj = Ensure(graph, k).adj
          BY <3>2, RelinkEffect DEF Unindexed, AddNode, Graph
        <4> QED
          BY <4>1, EnsureAdj
      <3> QED
        BY <1>3, <3>1, <3>2
    <2>2. CASE k \in DOMAIN graph.adj /\ graph'.adj[k] = graph.adj[k]
      BY <1>1, <1>3, <2>2 DEF EdgesRefer
    <2>3. CASE graph'.adj[k] = EmptyMap
      BY <2>3 DEF EdgesRefer, EmptyMap
    <2>4. CASE k \notin DOMAIN graph'.adj
      BY <2>4 DEF EdgesRefer
    <2> QED
      BY <2>1, <2>2, <2>3, <2>4
  <1>4. CASE EdgesRefer(k) /\ k = key[p] /\ pc[p] = "edges"
    <2>1. k \in DOMAIN docs /\ docs[k] = doc[p]
      BY <1>1, <1>4 DEF LinksInv
    <2>2. PICK f \in todo[p] : graph' = Unindexed(AddEdge(graph, k, Target(doc[p], f), <<f>>))
      BY <1>4, RelinkEffect
    <2>3. graph'.adj = AddEdge(graph, k, Target(doc[p], f), <<f>>).adj
      BY <2>2 DEF Unindexed, Graph
    <2>4. f \in Refs(docs[k])
      BY <1>4, <2>1, <2>2 DEF LinksInv
    <2>5. ASSUME NEW n \in DOMAIN graph'.adj[k] PROVE Refers(docs[k], n, graph'.adj[k][n])
      <3>1. CASE n = Target(doc[p], f) /\ graph'.adj[k][n] = <<f>>
        BY <2>1, <2>4, <3>1 DEF Refers
      <3>2. CASE k \in DOMAIN graph.adj /\ n \in DOMAIN graph.adj[k]
                 /\ graph'.adj[k][n] = graph.adj[k][n]
        BY <1>4, <3>2 DEF EdgesRefer
      <3> QED
        BY <2>3, <2>5, <3>1, <3>2, AddEdgeRels
    <2> QED
      BY <1>1, <2>1, <2>5 DEF EdgesRefer
  <1> QED
    BY <1>1, <1>2, <1>3, <1>4

(* A step that leaves the graph alone, what is stored of the document, and *)
(* who takes it out.                                                       *)
LEMMA EdgesApart ==
    ASSUME NEW c \in Clients, Alone(c), pc[c] # "unlink", graph' = graph, NEW k,
           EdgesRefer(k) \/ Leaving(k),
           k \in DOMAIN docs => k \in DOMAIN docs' /\ docs'[k] = docs[k]
    PROVE  EdgesRefer(k)' \/ Leaving(k)'
  <1>1. CASE Leaving(k)
    <2>1. PICK d \in Clients : pc[d] = "unlink" /\ key[d] = k
      BY <1>1 DEF Leaving
    <2>2. pc'[d] = "unlink" /\ key'[d] = k
      BY <2>1, MainIsNoClient DEF Alone
    <2> QED
      BY <2>2 DEF Leaving
  <1>2. CASE EdgesRefer(k)
    BY <1>2 DEF EdgesRefer
  <1> QED
    BY <1>1, <1>2

LEMMA EdgesClient ==
    ASSUME TypeInv, Tables, DetachInv, LinksInv, NEW c \in Clients, Receive(c) \/ Handle(c),
           NEW k \in Keys, Fresh(k)', Fresh(k) => EdgesRefer(k) \/ Leaving(k)
    PROVE  EdgesRefer(k)' \/ Leaving(k)'
  <1>1. LocalOK /\ Alone(c) /\ c \in Procs
    BY ClientAlone, MainIsNoClient DEF TypeInv
  <1>2. CASE ~HasGraph
    <2>1. graph' = EmptyGraph
      BY <1>1, <1>2, NoGraphStays, ClientGraph DEF DetachInv
    <2> QED
      BY <2>1 DEF EdgesRefer, EmptyGraph, Graph, EmptyMap
  <1>3. CASE HasGraph /\ StoreDelete(c)
    <2>1. /\ docs' = Drop(docs, key[c]) /\ rewritten' = rewritten \ {key[c]}
          /\ raced' = IF Linking(key[c]) = {} THEN raced ELSE raced \cup {key[c]}
          /\ pc[c] = "delete" /\ key' = key /\ graph' = graph
      BY <1>3, DeleteEffect
    <2>2. CASE k = key[c]
      <3>1. pc'[c] = "unlink"
        BY <1>1, <1>3, Arrivals DEF AfterDelete, GraphEnabled, HasGraph
      <3> QED
        BY <2>1, <2>2, <3>1 DEF Leaving
    <2>3. CASE k # key[c]
      <3>1. EdgesRefer(k) \/ Leaving(k)
        BY <2>1, <2>3 DEF Fresh
      <3>2. k \in DOMAIN docs => k \in DOMAIN docs' /\ docs'[k] = docs[k]
        BY <2>1, <2>3 DEF Drop
      <3> QED
        BY <1>1, <2>1, <3>1, <3>2, EdgesApart
    <2> QED
      BY <2>2, <2>3
  <1>4. CASE raced' = raced /\ At(c, "store") /\ \E n : Wrote(c, n, doc[c])
    <2>1. PICK n : Wrote(c, n, doc[c])
      BY <1>4
    <2>2. docs' = Put(docs, n, doc[c]) /\ rewritten' = rewritten \cup ({n} \cap Present)
      BY <1>1, <2>1, WroteEffect
    <2>3. pc[c] = "store" /\ graph' = graph
      <3>1. pc[c] = "store"
        BY <1>4 DEF At
      <3>2. ~Relink(c) /\ ~Unlinks(c)
        BY <3>1, Departures
      <3> QED
        BY <3>1, <3>2, ClientGraph
    <2>4. Fresh(k)
      BY <1>4, <2>2 DEF Fresh
    <2>5. k \in DOMAIN docs => k \in DOMAIN docs' /\ docs'[k] = docs[k]
      BY <2>2 DEF Put, Fresh, Present
    <2> QED
      BY <1>1, <2>3, <2>4, <2>5, EdgesApart
  <1>6. CASE raced' = raced /\ At(c, "store") /\ \E n : Breaks(c, n) /\ graph' = graph
    <2>1. PICK n : Breaks(c, n)
      BY <1>6
    <2>2. docs' = Drop(docs, n) /\ rewritten' = rewritten \cup {n} /\ graph' = graph
      BY <1>6, <2>1 DEF Breaks
    <2>3. Fresh(k) /\ k # n
      BY <1>6, <2>2 DEF Fresh
    <2>4. k \in DOMAIN docs => k \in DOMAIN docs' /\ docs'[k] = docs[k]
      BY <2>2, <2>3 DEF Drop
    <2>5. pc[c] # "unlink"
      BY <1>6 DEF At
    <2> QED
      BY <1>1, <2>2, <2>3, <2>4, <2>5, EdgesApart
  <1>5. CASE HasGraph /\ UNCHANGED <<docs, torn, rewritten, raced>>
    <2>1. EdgesRefer(k) \/ Leaving(k)
      BY <1>5 DEF Fresh
    <2>2. CASE Relink(c)
      BY <1>1, <1>5, <2>1, <2>2, EdgesRelink DEF Fresh
    <2>3. CASE Unlinks(c)
      <3>1. graph'.adj = RemoveNode(graph, key[c]).adj
        BY <2>3 DEF Unlinks, Unindexed, Graph
      <3>2. CASE k = key[c]
        <4>1. k \notin DOMAIN graph'.adj
          BY <3>1, <3>2, RemoveNodeAdj
        <4> QED
          BY <4>1 DEF EdgesRefer
      <3>3. CASE k # key[c] /\ Leaving(k)
        <4>1. PICK d \in Clients : pc[d] = "unlink" /\ key[d] = k
          BY <3>3 DEF Leaving
        <4>2. pc'[d] = "unlink" /\ key'[d] = k
          BY <1>1, <3>3, <4>1, MainIsNoClient DEF Alone
        <4> QED
          BY <4>2 DEF Leaving
      <3>4. CASE k # key[c] /\ EdgesRefer(k)
        <4>1. /\ k \in DOMAIN graph'.adj => k \in DOMAIN graph.adj
              /\ k \in DOMAIN graph.adj => graph'.adj[k] = Drop(graph.adj[k], key[c])
          BY <3>1, <3>4, RemoveNodeAdj
        <4>2. ASSUME k \in DOMAIN graph'.adj, NEW n \in DOMAIN graph'.adj[k]
              PROVE  k \in DOMAIN docs /\ Refers(docs[k], n, graph'.adj[k][n])
          <5>1. n \in DOMAIN graph.adj[k] /\ graph'.adj[k][n] = graph.adj[k][n]
            BY <4>1, <4>2 DEF Drop
          <5> QED
            BY <3>4, <4>1, <4>2, <5>1 DEF EdgesRefer
        <4> QED
          BY <1>5, <4>2 DEF EdgesRefer
      <3> QED
        BY <2>1, <3>2, <3>3, <3>4
    <2>4. CASE ~Relink(c) /\ ~Unlinks(c)
      <3>1. graph' = graph
        BY <2>4, ClientGraph
      <3>2. pc[c] # "unlink"
        <4>1. ~GraphPanics(c) /\ ~StoreDelete(c) => pc[c] # "unlink"
          BY <2>4, Departures DEF Handle, Before, Store, Regraph, Clean, Query
        <4>2. GraphPanics(c) => pc[c] = "node"
          BY <1>5 DEF GraphPanics, At
        <4>3. StoreDelete(c) => pc[c] = "delete"
          BY Departures
        <4> QED
          BY <4>1, <4>2, <4>3
      <3> QED
        BY <1>1, <1>5, <2>1, <3>1, <3>2, EdgesApart
    <2> QED
      BY <2>2, <2>3, <2>4
  <1> QED
    BY <1>1, <1>2, <1>3, <1>4, <1>5, <1>6, ClientWrites

EdgesInv == LinksInv /\ EdgesAreReferences

LEMMA EdgesClients ==
    ASSUME TypeInv, Tables, DetachInv, EdgesInv, NEW c \in Clients, Receive(c) \/ Handle(c)
    PROVE  EdgesInv'
  <1>1. LinksInv'
    BY LinksClient DEF EdgesInv
  <1>2. \A k \in Keys : Fresh(k)' => EdgesRefer(k)' \/ Leaving(k)'
    BY EdgesClient, EdgesMean DEF EdgesInv
  <1>3. EdgesAreReferences'
    BY <1>2 DEF EdgesAreReferences, Fresh, EdgesRefer, Refers, Leaving, At
  <1> QED
    BY <1>1, <1>3 DEF EdgesInv

LEMMA EdgesRest ==
    ASSUME TypeInv, Tables, DetachInv, EdgesInv,
           SaveAtExit \/ LoadNext \/ Serve \/ Relink(Main) \/ (\E e : Expire(e)) \/ UNCHANGED vars
    PROVE  EdgesInv'
  <1>1. /\ UNCHANGED <<docs, torn, rewritten, raced>> /\ LocalOK /\ Main \in Procs
    BY MainIsNoClient DEF SaveAtExit, LoadNext, Serve, Relink, UpdateNode, UpdateEdge, LinkNext,
           Expire, vars, store, past, TypeInv
  <1>2. CASE Relink(Main)
    <2>1. Alone(Main)
      BY <1>1, <1>2, MainTouches, TouchesAlone
    <2>2. LinksInv'
      BY <1>1, <1>2, <2>1, LinksRelink DEF EdgesInv
    <2>3. ASSUME NEW k \in Keys, Fresh(k)' PROVE EdgesRefer(k)' \/ Leaving(k)'
      <3>1. Fresh(k)
        BY <1>1, <2>3 DEF Fresh
      <3>2. EdgesRefer(k) \/ Leaving(k)
        BY <3>1, EdgesMean DEF EdgesInv
      <3> QED
        BY <1>1, <1>2, <2>1, <3>1, <3>2, EdgesRelink DEF EdgesInv
    <2>4. EdgesAreReferences'
      BY <2>3 DEF EdgesAreReferences, Fresh, EdgesRefer, Refers, Leaving, At
    <2> QED
      BY <2>2, <2>4 DEF EdgesInv
  <1>3. CASE LoadNext
    <2>1. PICK j \in toLoad : /\ key' = [key EXCEPT ![Main] = j]
                              /\ doc' = [doc EXCEPT ![Main] = docs[j]]
      BY <1>3 DEF LoadNext
    <2>2. /\ pc' = [pc EXCEPT ![Main] = "node"] /\ graph' = graph /\ todo' = todo
      BY <1>3 DEF LoadNext, Advance, memory
    <2>3. pc'[Main] = "node" /\ key'[Main] = j /\ doc'[Main] = docs[j]
      BY <1>1, <2>1, <2>2 DEF LocalOK
    <2>4. \A p \in Procs \ {Main} : pc'[p] = pc[p] /\ key'[p] = key[p] /\ doc'[p] = doc[p]
      BY <1>1, <2>1, <2>2 DEF LocalOK
    <2>5. \A p \in Procs : pc'[p] = "edges" => todo'[p] \subseteq Refs(doc'[p])
      BY <2>2, <2>3, <2>4 DEF EdgesInv, LinksInv
    <2>6. ASSUME NEW p \in Procs, pc'[p] \in {"node", "edges"}, Fresh(key[p])'
          PROVE  key'[p] \in DOMAIN docs' /\ docs'[key'[p]] = doc'[p]
      <3>1. j \in DOMAIN docs
        BY <2>1 DEF TypeInv, PhaseOK
      <3> QED
        BY <1>1, <2>3, <2>4, <2>6, <3>1 DEF EdgesInv, LinksInv, Fresh
    <2>7. EdgesAreReferences'
      BY <1>1, <2>2, <2>4, MainIsNoClient DEF EdgesInv, EdgesAreReferences, At
    <2> QED
      BY <1>1, <2>5, <2>6, <2>7 DEF EdgesInv, LinksInv, Present
  <1>4. CASE ~Relink(Main) /\ ~LoadNext
    <2>1. UNCHANGED <<graph, pc, key, doc, todo>>
      BY <1>4 DEF SaveAtExit, Serve, Expire, vars, memory, local
    <2> QED
      BY <1>1, <2>1 DEF EdgesInv, LinksInv, Fresh, EdgesAreReferences, At, Present
  <1> QED
    BY <1>2, <1>3, <1>4

LEMMA EdgesRestart == ASSUME DetachInv, Restart PROVE EdgesInv'
  <1>1. /\ \A p \in Procs : pc'[p] = "idle"
        /\ rewritten' = {}
    BY DEF Restart
  <1>2. \A k \in Keys : k \notin DOMAIN graph'.adj
    <2>1. CASE HasGraph
      <3>1. PICK ls : graph' \in Loads(ls)
        BY <2>1 DEF Restart
      <3> QED
        BY <3>1, LoadedApart
    <2>2. CASE ~HasGraph
      <3>1. graph' = EmptyGraph
        BY <2>2 DEF Restart, DetachInv
      <3> QED
        BY <3>1 DEF EmptyGraph, Graph, EmptyMap
    <2> QED
      BY <2>1, <2>2
  <1>3. EdgesAreReferences'
    BY <1>2 DEF EdgesAreReferences
  <1> QED
    BY <1>1, <1>3 DEF EdgesInv, LinksInv

LEMMA EdgesInit == Init => EdgesInv
  BY DEF Init, EdgesInv, LinksInv, EdgesAreReferences, EmptyGraph, Graph, EmptyMap

LEMMA EdgesStep == TypeInv /\ Tables /\ DetachInv /\ EdgesInv /\ [Next]_vars => EdgesInv'
  BY EdgesClients, EdgesRest, EdgesRestart DEF Next, Process

(* Every edge out of a document is one of its references and bears the     *)
(* name of its field, unless the document was written over since the start *)
(* or deleted while a request linked it, or its delete has yet to take it  *)
(* out of the graph.                                                       *)
THEOREM EdgesOfDocuments == Spec => []EdgesAreReferences
  <1>1. EdgesInv => EdgesAreReferences
    BY DEF EdgesInv
  <1> QED
    BY <1>1, TypeInit, TablesInit, DetachInit, EdgesInit, TypeStep, TablesStep, DetachStep,
       EdgesStep, PTL DEF Spec

(***************************************************************************)
(* The pages of a list.                                                    *)
(***************************************************************************)
LEMMA WrapFits ==
    ASSUME NEW x \in Int, -IntMax - 1 <= x, x <= IntMax
    PROVE  Wrap(x) = x
  <1>1. IntMax \in Nat \ {0}
    BY PagesHaveRows
  <1>2. \A a \in Nat, m \in Nat \ {0} : a < m => a % m = a
    OBVIOUS
  <1>3. x + IntMax + 1 \in Nat /\ 2 * IntMax + 2 \in Nat \ {0} /\ x + IntMax + 1 < 2 * IntMax + 2
    BY <1>1
  <1>4. (x + IntMax + 1) % (2 * IntMax + 2) = x + IntMax + 1
    BY <1>2, <1>3
  <1> QED
    BY <1>1, <1>4 DEF Wrap

(* The number of pages, and where each begins and ends.                    *)
LEMMA PageBounds ==
    ASSUME NEW N \in Nat, NEW n \in Nat \ {0}, N + n - 1 <= IntMax
    PROVE  /\ TotalPages(N, n) \in Nat
           /\ N <= TotalPages(N, n) * n
           /\ \A p \in 1 .. TotalPages(N, n) :
                 /\ Start(p, n) = (p - 1) * n /\ Start(p, n) \in Nat /\ Start(p, n) < N
                 /\ End(p, n, N) = IF (p - 1) * n + n > N THEN N ELSE (p - 1) * n + n
  <1> DEFINE T == TotalPages(N, n)
  <1>1. IntMax \in Nat \ {0}
    BY PagesHaveRows
  <1>2. \A a \in Nat, m \in Nat \ {0} :
           (a \div m) * m <= a /\ a < (a \div m) * m + m /\ a \div m \in Nat
    OBVIOUS
  <1>3. N + n - 1 \in Nat /\ T = (N + n - 1) \div n
    BY <1>1, WrapFits DEF TotalPages
  <1>4. T \in Nat /\ T * n <= N + n - 1 /\ N + n - 1 < T * n + n
    BY <1>2, <1>3
  <1> HIDE DEF T
  <1>5. T * n \in Nat
    BY <1>4
  <1>6. ASSUME NEW p \in 1 .. T
        PROVE  /\ Start(p, n) = (p - 1) * n /\ Start(p, n) \in Nat /\ Start(p, n) < N
               /\ End(p, n, N) = IF (p - 1) * n + n > N THEN N ELSE (p - 1) * n + n
    <2>0. p \in Nat /\ 1 <= p /\ p <= T
      BY <1>4, <1>6
    <2>1. \A a, b \in Nat : a <= b => a * n <= b * n
      OBVIOUS
    <2>2. p * n <= T * n /\ (p - 1) * n = p * n - n /\ (p - 1) * n \in Nat /\ p * n \in Nat
      BY <1>4, <2>0, <2>1
    <2>3. (p - 1) * n <= N - 1 /\ (p - 1) * n + n <= IntMax
      <3> DEFINE x == p * n
                 y == T * n
      <3>1. x \in Nat /\ y \in Nat /\ x <= y /\ y <= N + n - 1 /\ (p - 1) * n = x - n
        BY <1>4, <1>5, <2>2
      <3> HIDE DEF x, y
      <3> QED
        BY <1>1, <3>1
    <2>4. Wrap(p - 1) = p - 1
      <3>0. \A a \in Nat : a <= a * n
        OBVIOUS
      <3>1. p - 1 \in Nat /\ p - 1 <= (p - 1) * n
        BY <2>0, <3>0
      <3> QED
        BY <1>1, <2>0, <2>2, <2>3, <3>1, WrapFits
    <2>5. Start(p, n) = (p - 1) * n
      <3>1. Wrap((p - 1) * n) = (p - 1) * n
        BY <1>1, <2>2, <2>3, WrapFits
      <3> QED
        BY <2>4, <3>1 DEF Start
    <2>6. Wrap(Start(p, n) + n) = (p - 1) * n + n
      BY <1>1, <2>2, <2>3, <2>5, WrapFits
    <2> QED
      BY <2>2, <2>3, <2>5, <2>6 DEF End
  <1> QED
    BY <1>4, <1>5, <1>6 DEF T

(* The ranks of a list number its rows from zero.                          *)
LEMMA RankType ==
    ASSUME NEW ids \in SUBSET Ids, IsFiniteSet(ids), NEW i \in ids
    PROVE  Rank(ids, i) \in 0 .. Cardinality(ids) - 1
  <1> DEFINE B == {j \in ids : Place[j] < Place[i]}
  <1>1. IsFiniteSet(B) /\ Cardinality(B) <= Cardinality(ids) /\ (Cardinality(B) = Cardinality(ids) => B = ids)
    BY FS_Subset
  <1>2. i \notin B
    BY ListsHaveOrder
  <1>3. Cardinality(B) \in Nat /\ Cardinality(ids) \in Nat
    BY <1>1, FS_CardinalityType
  <1> HIDE DEF B
  <1>4. Cardinality(B) < Cardinality(ids)
    BY <1>1, <1>2, <1>3
  <1> QED
    BY <1>3, <1>4 DEF Rank, B

LEMMA RankGrows ==
    ASSUME NEW ids \in SUBSET Ids, IsFiniteSet(ids), NEW i \in ids, NEW j \in ids,
           Place[i] < Place[j]
    PROVE  Rank(ids, i) < Rank(ids, j)
  <1> DEFINE A == {x \in ids : Place[x] < Place[i]}
             B == {x \in ids : Place[x] < Place[j]}
  <1>1. A \subseteq B /\ i \in B /\ i \notin A
    <2>1. \A x \in ids : Place[x] < Place[i] => Place[x] < Place[j]
      <3>1. \A x, y, z \in Int : x < y /\ y < z => x < z
        OBVIOUS
      <3> QED
        BY <3>1, ListsHaveOrder
    <2>2. ~(Place[i] < Place[i])
      BY ListsHaveOrder
    <2> QED
      BY <2>1, <2>2
  <1>2. B \in SUBSET ids /\ IsFiniteSet(B)
    <2>1. B \in SUBSET ids
      OBVIOUS
    <2> QED
      BY <2>1, FS_Subset
  <1>3. IsFiniteSet(A) /\ Cardinality(A) <= Cardinality(B) /\ (Cardinality(B) = Cardinality(A) => B = A)
    BY <1>1, <1>2, FS_Subset
  <1>4. Cardinality(A) \in Nat /\ Cardinality(B) \in Nat
    BY <1>2, <1>3, FS_CardinalityType
  <1> HIDE DEF A, B
  <1>5. Cardinality(A) < Cardinality(B)
    BY <1>1, <1>3, <1>4
  <1> QED
    BY <1>5 DEF Rank, A, B

LEMMA RanksAreAll ==
    ASSUME NEW ids \in SUBSET Ids, IsFiniteSet(ids), NEW r \in 0 .. Cardinality(ids) - 1
    PROVE  \E i \in ids : Rank(ids, i) = r
  <1> DEFINE R == 0 .. Cardinality(ids) - 1
             f == [i \in ids |-> Rank(ids, i)]
  <1>1. Cardinality(ids) \in Nat
    BY FS_CardinalityType
  <1>2. IsFiniteSet(R) /\ Cardinality(R) = Cardinality(ids)
    BY <1>1, FS_Interval
  <1>3. f \in [ids -> R]
    BY RankType
  <1>4. \A i, j \in ids : f[i] = f[j] => i = j
    <2> SUFFICES ASSUME NEW i \in ids, NEW j \in ids, f[i] = f[j] PROVE i = j
      OBVIOUS
    <2>1. ~(Place[i] < Place[j]) /\ ~(Place[j] < Place[i])
      <3>1. f[i] \in Int
        BY <1>1, <1>3
      <3>2. Place[i] < Place[j] => f[i] < f[j]
        BY RankGrows
      <3>3. Place[j] < Place[i] => f[j] < f[i]
        BY RankGrows
      <3> HIDE DEF f
      <3> QED
        BY <3>1, <3>2, <3>3
    <2>2. i \in Ids /\ j \in Ids /\ Place[i] \in Int /\ Place[j] \in Int
      BY ListsHaveOrder
    <2>3. Place[i] = Place[j]
      BY <2>1, <2>2
    <2> QED
      BY <2>2, <2>3, ListsHaveOrder
  <1> HIDE DEF R, f
  <1>5. f \in Injection(ids, R)
    BY <1>3, <1>4 DEF Injection, IsInjective
  <1>6. f \in Surjection(ids, R)
    BY <1>2, <1>5, FS_Injection
  <1>7. r \in R
    BY DEF R
  <1>8. \E i \in ids : f[i] = r
    BY <1>6, <1>7 DEF Surjection
  <1> QED
    BY <1>8 DEF f

LEMMA IdsOfFinite ==
    ASSUME TypeInv, NEW t \in Types
    PROVE  IdsOf(docs, t) \in SUBSET Ids /\ IsFiniteSet(IdsOf(docs, t))
  <1>1. IdsOf(docs, t) \in SUBSET Ids
    BY DEF IdsOf, TypeInv, StoreOK, Keys
  <1>2. MinInt \in Int /\ MaxInt \in Nat /\ MinInt = -MaxInt - 1
    BY IntWidth DEF MinInt
  <1>3. IsFiniteSet(Ids)
    BY <1>2, FS_Interval DEF Ids
  <1> QED
    BY <1>1, <1>3, FS_Subset

(* The pages of size n of one list.                                        *)
Covers(ids, n) ==
    LET pages == 1 .. TotalPages(Cardinality(ids), n) IN
    /\ \A i \in ids : \E p \in pages : i \in PageIds(ids, p, n)
    /\ \A p, q \in pages : p # q => PageIds(ids, p, n) \cap PageIds(ids, q, n) = {}
    /\ \A p \in pages : PageIds(ids, p, n) # {} /\ ~Panics(p, n, Cardinality(ids))

LEMMA ListsAreCovered ==
    ASSUME NEW ids \in SUBSET Ids, IsFiniteSet(ids), NEW n \in Nat \ {0},
           Cardinality(ids) + n - 1 <= IntMax
    PROVE  Covers(ids, n)
  <1> DEFINE N == Cardinality(ids)
             T == TotalPages(N, n)
  <1>1. N \in Nat
    BY FS_CardinalityType
  <1>2. /\ T \in Nat /\ N <= T * n
        /\ \A p \in 1 .. T :
              /\ Start(p, n) = (p - 1) * n /\ Start(p, n) \in Nat /\ Start(p, n) < N
              /\ End(p, n, N) = IF (p - 1) * n + n > N THEN N ELSE (p - 1) * n + n
    BY <1>1, PageBounds
  <1>3. \A i \in ids : Rank(ids, i) \in 0 .. N - 1
    BY RankType
  <1>4. \A p : \A i \in PageIds(ids, p, n) :
           i \in ids /\ Rank(ids, i) \in Start(p, n) .. End(p, n, N) - 1
    BY DEF PageIds
  <1>5. \A p : \A i \in ids : Rank(ids, i) \in Start(p, n) .. End(p, n, N) - 1 =>
                                i \in PageIds(ids, p, n)
    BY DEF PageIds
  <1> HIDE DEF T, N
  <1>6. ASSUME NEW i \in ids PROVE \E p \in 1 .. T : i \in PageIds(ids, p, n)
    <2>1. PICK r \in Nat : r = Rank(ids, i) /\ r < N
      BY <1>1, <1>3
    <2>2. PICK q \in Nat : q * n <= r /\ r < q * n + n
      <3>1. \A a \in Nat, m \in Nat \ {0} :
               (a \div m) * m <= a /\ a < (a \div m) * m + m /\ a \div m \in Nat
        OBVIOUS
      <3> QED
        BY <3>1
    <2>3. q < T
      <3>1. \A a, b \in Nat : a * n < b * n => a < b
        OBVIOUS
      <3>2. q * n < T * n
        <4> DEFINE x == q * n
                   y == T * n
        <4>1. x \in Nat /\ y \in Nat /\ x <= r /\ N <= y
          BY <1>2, <2>2
        <4> HIDE DEF x, y
        <4>2. x < y
          BY <1>1, <2>1, <4>1
        <4> QED
          BY <4>2 DEF x, y
      <3> QED
        BY <1>2, <3>1, <3>2
    <2>4. q + 1 \in 1 .. T
      BY <1>2, <2>3
    <2>5. Start(q + 1, n) = q * n /\ End(q + 1, n, N) = IF q * n + n > N THEN N ELSE q * n + n
      <3>1. q + 1 - 1 = q
        OBVIOUS
      <3> QED
        BY <1>2, <2>4, <3>1
    <2>6. r \in Start(q + 1, n) .. End(q + 1, n, N) - 1
      <3> DEFINE x == q * n
      <3>1. x \in Nat /\ x <= r /\ r < x + n
        BY <2>2
      <3>2. Start(q + 1, n) = x /\ End(q + 1, n, N) = IF x + n > N THEN N ELSE x + n
        BY <2>5
      <3> HIDE DEF x
      <3> QED
        BY <1>1, <2>1, <3>1, <3>2
    <2> QED
      BY <1>5, <2>1, <2>4, <2>6
  <1>7. ASSUME NEW p \in 1 .. T, NEW q \in 1 .. T, p < q
        PROVE  PageIds(ids, p, n) \cap PageIds(ids, q, n) = {}
    <2>1. (p - 1) * n + n <= (q - 1) * n
      <3>1. \A a, b \in Nat : a < b => a * n + n <= b * n
        OBVIOUS
      <3> QED
        BY <1>2, <1>7, <3>1
    <2>2. Start(p, n) \in Nat /\ Start(q, n) \in Nat /\ Start(p, n) + n <= Start(q, n)
      BY <1>2, <2>1
    <2>3. End(p, n, N) = IF Start(p, n) + n > N THEN N ELSE Start(p, n) + n
      BY <1>2
    <2>4. ASSUME NEW i \in PageIds(ids, p, n), i \in PageIds(ids, q, n) PROVE FALSE
      <3>1. /\ Rank(ids, i) \in Int /\ Rank(ids, i) < End(p, n, N)
            /\ Start(q, n) <= Rank(ids, i)
        BY <1>1, <1>3, <1>4, <2>2, <2>3, <2>4
      <3> QED
        BY <1>1, <2>2, <2>3, <3>1
    <2> QED
      BY <2>4
  <1>8. ASSUME NEW p \in 1 .. T PROVE PageIds(ids, p, n) # {} /\ ~Panics(p, n, N)
    <2>1. /\ Start(p, n) \in Nat /\ Start(p, n) < N
          /\ End(p, n, N) = IF Start(p, n) + n > N THEN N ELSE Start(p, n) + n
      BY <1>2
    <2>2. PICK i \in ids : Rank(ids, i) = Start(p, n)
      <3>1. Start(p, n) \in 0 .. N - 1
        BY <1>1, <2>1
      <3> QED
        BY <3>1, RanksAreAll DEF N
    <2>3. Start(p, n) \in Start(p, n) .. End(p, n, N) - 1
      BY <1>1, <2>1
    <2>4. ~Panics(p, n, N)
      BY <1>1, <2>1 DEF Panics
    <2> QED
      BY <1>5, <2>2, <2>3, <2>4
  <1>9. ASSUME NEW p \in 1 .. T, NEW q \in 1 .. T, p # q
        PROVE  PageIds(ids, p, n) \cap PageIds(ids, q, n) = {}
    <2>1. p < q \/ q < p
      BY <1>2, <1>9
    <2> QED
      BY <1>7, <2>1
  <1> QED
    BY <1>6, <1>8, <1>9 DEF Covers, T, N

(* Whatever the size of the pages: those of a list whose rows an int can   *)
(* count, with one page less a row on top, cover the list.  Every document *)
(* is on one page, and no page is empty or panics.                         *)
THEOREM PagesAreWhole == Spec => []PagesCover
  <1>1. TypeInv => PagesCover
    <2> SUFFICES ASSUME TypeInv, NEW t \in Types, NEW n \in 1 .. MaxPerPage,
                        Cardinality(IdsOf(docs, t)) + n - 1 <= IntMax
                 PROVE  Covers(IdsOf(docs, t), n)
      BY DEF PagesCover, Covers
    <2>1. n \in Nat \ {0}
      BY PagesHaveRows
    <2> QED
      BY <2>1, IdsOfFinite, ListsAreCovered
  <1> QED
    BY <1>1, TypeInit, TypeStep, PTL DEF Spec
==============================================================================
