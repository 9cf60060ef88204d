------------------------- MODULE OluServerCacheProofs -------------------------
(***************************************************************************)
(* Proofs about OluServer: what handlers read before others write, and     *)
(* what the cache answers.                                                 *)
(***************************************************************************)
EXTENDS OluServerProofs, SequenceTheorems

(***************************************************************************)
(* The key of a request that is no create stays its own.                   *)
(***************************************************************************)
KeyInv == \A c \in Clients : ~At(c, "idle") /\ req[c].kind # "create" => key[c] = req[c].key

(* A client's key changes when it receives, ends or creates.               *)
LEMMA KeyChanges ==
    ASSUME NEW c \in Clients, Handle(c)
    PROVE  \/ Finish(c) \/ WriteBreaks(c)
           \/ req' = req /\ (key' = key \/ req[c].kind = "create"
                             \/ key' = [key EXCEPT ![c] = key[c]])
  <1>1. ASSUME NEW s, Goto(c, s) PROVE req' = req /\ key' = key
    BY <1>1 DEF Goto, local
  <1>2. CASE Before(c)
    BY <1>1, <1>2 DEF Before, Exists, PatchGet, Validate, PostSchema
  <1>3. ASSUME NEW k, NEW d, Wrote(c, k, d) PROVE req' = req /\ key' = [key EXCEPT ![c] = k]
    BY <1>3 DEF Wrote
  <1>4. CASE StoreCreate(c)
    BY <1>3, <1>4 DEF StoreCreate
  <1>5. CASE Store(c) /\ ~StoreCreate(c)
    BY <1>1, <1>3, <1>5 DEF Store, StoreUpdate, StoreSave, StoreDelete, DeleteFails, StoreFails
  <1>6. CASE Regraph(c)
    <2>1. ASSUME NEW rest, LinkNext(c, rest) PROVE req' = req /\ key' = key
      BY <2>1 DEF LinkNext
    <2> QED
      BY <1>1, <1>6, <2>1 DEF Regraph, Relink, UpdateNode, UpdateEdge, Unlinks, GraphPanics
  <1>7. CASE Clean(c)
    BY <1>7 DEF Clean, Invalidate, Scan, DeletePage, ScanFails
  <1>8. CASE Query(c)
    <2>1. ASSUME NEW v, NEW ps, Embed(c, v, ps) PROVE req' = req /\ key' = key
      BY <2>1 DEF Embed
    <2> QED
      BY <1>1, <1>8, <2>1 DEF Query, CacheGet, StoreGet, EmbedOne, StoreList, Fill, FillFails
  <1> QED
    BY <1>2, <1>4, <1>5, <1>6, <1>7, <1>8 DEF Handle

LEMMA KeyClient ==
    ASSUME TypeInv, Tables, KeyInv, NEW c \in Clients, Receive(c) \/ Handle(c) PROVE KeyInv'
  <1>1. LocalOK /\ Alone(c)
    BY ClientAlone DEF TypeInv
  <1>2. ASSUME NEW d \in Clients, pc'[d] # "idle", req'[d].kind # "create"
        PROVE  key'[d] = req'[d].key
    <2>1. CASE d # c
      <3>1. pc'[d] = pc[d] /\ key'[d] = key[d] /\ req'[d] = req[d]
        BY <1>1, <2>1, MainIsNoClient DEF Alone
      <3> QED
        BY <1>2, <3>1 DEF KeyInv, At
    <2>2. CASE d = c /\ Receive(c)
      <3>1. PICK o \in Requests : /\ req' = [req EXCEPT ![c] = o]
                                 /\ key' = [key EXCEPT ![c] = o.key]
        BY <2>2 DEF Receive
      <3> QED
        BY <1>1, <2>2, <3>1, MainIsNoClient DEF LocalOK
    <2>3. CASE d = c /\ Handle(c)
      <3>1. pc'[c] # "idle" => ~Finish(c) /\ ~WriteBreaks(c)
        BY <1>1, PcSet
      <3>2. ~At(c, "idle")
        BY <2>3 DEF Handle
      <3> QED
        BY <1>1, <1>2, <2>3, <3>1, <3>2, KeyChanges, MainIsNoClient DEF KeyInv, LocalOK
    <2> QED
      BY <2>1, <2>2, <2>3
  <1> QED
    BY <1>2 DEF KeyInv, At

LEMMA KeyStep == TypeInv /\ Tables /\ KeyInv /\ [Next]_vars => KeyInv'
  <1> SUFFICES ASSUME TypeInv, Tables, KeyInv, [Next]_vars PROVE KeyInv'
    OBVIOUS
  <1>1. CASE \E c \in Clients : Receive(c) \/ Handle(c)
    BY <1>1, KeyClient
  <1>2. CASE Restart
    BY <1>2, MainIsNoClient DEF Restart, KeyInv, At
  <1>3. CASE SaveAtExit \/ LoadNext \/ Serve \/ Relink(Main) \/ (\E e : Expire(e)) \/ UNCHANGED vars
    BY <1>3, OthersAlone DEF KeyInv, At, TypeInv
  <1> QED
    BY <1>1, <1>2, <1>3 DEF Next, Process

LEMMA KeyInit == Init => KeyInv
  BY MainIsNoClient DEF Init, KeyInv, At

(***************************************************************************)
(* What a write leaves of a page and of a document.                        *)
(***************************************************************************)
LEMMA PairKey == ASSUME NEW k \in Keys PROVE k = <<k[1], k[2]>> /\ k[1] \in Types
  BY DEF Keys

LEMMA PageApart ==
    ASSUME StoreOK, NEW t, NEW e, e.type # t,
           \A k \in DOMAIN docs : k[1] # t => k \in DOMAIN docs' /\ docs'[k] = docs[k],
           \A k \in DOMAIN docs' : k[1] # t => k \in DOMAIN docs
    PROVE  PageIn(docs', e) = PageIn(docs, e)
  <1> DEFINE ids == IdsOf(docs, e.type)
  <1>1. IdsOf(docs', e.type) = ids
    BY DEF IdsOf
  <1>2. \A i \in ids : docs'[<<e.type, i>>] = docs[<<e.type, i>>]
    <2> TAKE i \in ids
    <2>1. PICK k \in DOMAIN docs : k[1] = e.type /\ k[2] = i
      BY DEF IdsOf
    <2>2. k = <<e.type, i>>
      BY <2>1, PairKey DEF StoreOK
    <2> QED
      BY <2>1, <2>2
  <1>3. PageIds(ids, e.n, e.per) \subseteq ids
    BY DEF PageIds
  <1>4. {<<i, docs'[<<e.type, i>>]>> : i \in PageIds(ids, e.n, e.per)}
            = {<<i, docs[<<e.type, i>>]>> : i \in PageIds(ids, e.n, e.per)}
    BY <1>2, <1>3
  <1> HIDE DEF ids
  <1> QED
    BY <1>1, <1>4 DEF PageIn, ids

(* A write of another document, or to another list, leaves an answer       *)
(* current.                                                                *)
LEMMA CurrentApart ==
    ASSUME StoreOK, NEW k \in Keys, NEW d, docs' = Put(docs, k, d) \/ docs' = Drop(docs, k),
           NEW e, NEW a, Current(docs, e, a),
           IF e.what = "list" THEN e.type # k[1] ELSE <<e.type, e.n>> # k
    PROVE  Current(docs', e, a)
  <1>1. CASE e.what = "list"
    <2>1. /\ \A x \in DOMAIN docs : x[1] # k[1] => x \in DOMAIN docs' /\ docs'[x] = docs[x]
          /\ \A x \in DOMAIN docs' : x[1] # k[1] => x \in DOMAIN docs
      <3>1. CASE docs' = Put(docs, k, d)
        BY <3>1 DEF Put
      <3>2. CASE docs' = Drop(docs, k)
        BY <3>2 DEF Drop
      <3> QED
        BY <3>1, <3>2
    <2>2. PageIn(docs', e) = PageIn(docs, e)
      <3>1. e.type # k[1] /\ DOMAIN docs \subseteq Keys
        BY <1>1 DEF StoreOK
      <3> QED
        BY <2>1, <3>1, PageApart
    <2> QED
      BY <1>1, <2>2 DEF Current
  <1>2. CASE e.what # "list"
    <2>1. <<e.type, e.n>> \in DOMAIN docs /\ a.view[<<>>] = docs[<<e.type, e.n>>]
      BY <1>2 DEF Current
    <2>2. <<e.type, e.n>> \in DOMAIN docs' /\ docs'[<<e.type, e.n>>] = docs[<<e.type, e.n>>]
      BY <1>2, <2>1 DEF Put, Drop
    <2> QED
      BY <1>2, <2>1, <2>2 DEF Current
  <1> QED
    BY <1>1, <1>2

(***************************************************************************)
(* What a handler reads, and nobody has written since.                     *)
(***************************************************************************)
EmbedInv == \A c \in Clients : At(c, "embed") =>
                /\ <<>> \in DOMAIN answer[c].view
                /\ \A p \in todo[c] : p \in Seq(Fields) /\ p # <<>>

Merged(c) == /\ req[c].kind = "patch" /\ pc[c] \in {"validate", "store"}
             /\ key[c] \in DOMAIN docs
             /\ doc[c] = Patched(docs[key[c]], Decoded(req[c].body))

Answered(c) == /\ req[c].kind \in {"get", "list"} /\ pc[c] \in {"embed", "fill"}
               /\ Current(docs, EntryOf(c), answer[c])

StillInv == \A c \in still : Merged(c) \/ Answered(c)

ReadInv == KeyInv /\ EmbedInv /\ StillInv

LEMMA EmbedEffect ==
    ASSUME LocalOK, Tables, NEW c \in Clients, NEW view, NEW paths, Embed(c, view, paths)
    PROVE  /\ answer'[c] = DocAnswer(view) /\ todo'[c] = paths /\ UNCHANGED <<req, key, doc>>
           /\ pc'[c] = IF paths = {} THEN "fill" ELSE "embed"
  BY MainIsNoClient DEF Embed, Advance, LocalOK, Tables

LEMMA RefsAreFields == ASSUME NEW d PROVE Refs(d) \subseteq Fields
  BY DEF Refs, RefFields

(* The two steps of embedding.                                             *)
LEMMA GotEffect ==
    ASSUME TypeInv, Tables, NEW c \in Clients, StoreGet(c), ~Finish(c)
    PROVE  /\ key[c] \in DOMAIN docs /\ answer'[c].view = [p \in {<<>>} |-> docs[key[c]]]
           /\ \A p \in todo'[c] : p \in Seq(Fields) /\ p # <<>>
           /\ pc'[c] \in {"embed", "fill"} /\ still' = still \cup {c}
           /\ UNCHANGED <<docs, req, key>>
  <1> DEFINE d     == docs[key[c]]
             paths == IF Embeds(req[c]) THEN {<<f>> : f \in Refs(d)} ELSE {}
  <1>1. /\ key[c] \in DOMAIN docs /\ Embed(c, [p \in {<<>>} |-> d], paths)
        /\ still' = still \cup {c} /\ docs' = docs
    BY DEF StoreGet, store
  <1>2. \A p \in paths : p \in Seq(Fields) /\ p # <<>>
    <2>1. \A f \in Refs(d) : <<f>> \in Seq(Fields) /\ <<f>> # <<>>
      BY RefsAreFields
    <2> QED
      BY <2>1
  <1> HIDE DEF paths
  <1>3. /\ answer'[c] = DocAnswer([p \in {<<>>} |-> d]) /\ todo'[c] = paths
        /\ UNCHANGED <<req, key>> /\ pc'[c] = IF paths = {} THEN "fill" ELSE "embed"
    BY <1>1, EmbedEffect DEF TypeInv
  <1> QED
    BY <1>1, <1>2, <1>3 DEF DocAnswer

LEMMA EmbeddedEffect ==
    ASSUME TypeInv, Tables, EmbedInv, NEW c \in Clients, EmbedOne(c)
    PROVE  /\ <<>> \in DOMAIN answer'[c].view /\ answer'[c].view[<<>>] = answer[c].view[<<>>]
           /\ \A p \in todo'[c] : p \in Seq(Fields) /\ p # <<>>
           /\ pc'[c] \in {"embed", "fill"}
           /\ UNCHANGED <<docs, req, key, still>>
  <1> DEFINE view == answer[c].view
             To(p) == Target(view[SubSeq(p, 1, Len(p) - 1)], p[Len(p)])
             More(p) == {Append(p, f) : f \in {g \in Refs(docs[To(p)]) : Len(p) < req[c].depth}}
  <1>1. PICK p \in todo[c] :
           \/ Embed(c, view, todo[c] \ {p})
           \/ Embed(c, Put(view, p, docs[To(p)]), (todo[c] \ {p}) \cup More(p))
    BY DEF EmbedOne, Longest
  <1>2. /\ <<>> \in DOMAIN view
        /\ \A q \in todo[c] : q \in Seq(Fields) /\ q # <<>>
    BY DEF EmbedInv, EmbedOne
  <1>3. \A q \in More(p) : q \in Seq(Fields) /\ q # <<>>
    <2> TAKE q \in More(p)
    <2>1. PICK f \in Fields : q = Append(p, f)
      BY RefsAreFields
    <2> HIDE DEF More
    <2> QED
      BY <1>2, <2>1
  <1>4. docs' = docs /\ still' = still
    BY DEF EmbedOne, store
  <1> HIDE DEF view, More, To
  <1>5. CASE Embed(c, view, todo[c] \ {p})
    <2>1. /\ answer'[c] = DocAnswer(view) /\ todo'[c] = todo[c] \ {p}
          /\ UNCHANGED <<req, key>> /\ pc'[c] \in {"embed", "fill"}
      BY <1>5, EmbedEffect DEF TypeInv
    <2> QED
      BY <1>2, <1>4, <2>1 DEF DocAnswer, view
  <1>6. CASE Embed(c, Put(view, p, docs[To(p)]), (todo[c] \ {p}) \cup More(p))
    <2>1. /\ answer'[c] = DocAnswer(Put(view, p, docs[To(p)]))
          /\ todo'[c] = (todo[c] \ {p}) \cup More(p)
          /\ pc'[c] \in {"embed", "fill"} /\ UNCHANGED <<req, key>>
      BY <1>6, EmbedEffect DEF TypeInv
    <2>2. /\ <<>> \in DOMAIN Put(view, p, docs[To(p)])
          /\ Put(view, p, docs[To(p)])[<<>>] = view[<<>>]
      BY <1>2 DEF Put
    <2> QED
      BY <1>2, <1>3, <1>4, <2>1, <2>2 DEF DocAnswer, view
  <1> QED
    BY <1>1, <1>5, <1>6

(* How a handler comes to embed and to fill the cache.                     *)
LEMMA ToAnswer ==
    ASSUME LocalOK, NEW c \in Clients, Receive(c) \/ Handle(c), pc'[c] \in {"embed", "fill"}
    PROVE  \/ EmbedOne(c) \/ (StoreGet(c) /\ ~Finish(c))
           \/ StoreList(c) /\ ~Finish(c) /\ pc'[c] = "fill"
  <1>1. ~Finish(c) /\ \A s : Advance(c, s) \/ Goto(c, s) => s \in {"embed", "fill"}
    BY PcSet
  <1>2. ~Receive(c) /\ ~Before(c) /\ ~Regraph(c) /\ ~Clean(c)
    BY Arrivals DEF Before, Regraph
  <1>3. ~Store(c)
    BY <1>1, PcSet DEF Store, StoreCreate, StoreUpdate, StoreSave, StoreDelete, DeleteFails, StoreFails,
                AfterDelete, Wrote
  <1>4. ~CacheGet(c)
    BY <1>1 DEF CacheGet, LocalOK, At, InStep
  <1>5. StoreList(c) => Advance(c, "fill")
    BY <1>1 DEF StoreList
  <1> QED
    BY <1>1, <1>2, <1>3, <1>4, <1>5, PcSet DEF Handle, Query, Fill, FillFails

LEMMA EmbedClient ==
    ASSUME TypeInv, Tables, EmbedInv, NEW c \in Clients, Receive(c) \/ Handle(c) PROVE EmbedInv'
  <1>1. LocalOK /\ Alone(c)
    BY ClientAlone DEF TypeInv
  <1>2. ASSUME NEW d \in Clients, d # c, pc'[d] = "embed"
        PROVE  /\ <<>> \in DOMAIN answer'[d].view
               /\ \A p \in todo'[d] : p \in Seq(Fields) /\ p # <<>>
    <2>1. pc'[d] = pc[d] /\ answer'[d] = answer[d] /\ todo'[d] = todo[d]
      BY <1>1, <1>2, MainIsNoClient DEF Alone
    <2> QED
      BY <1>2, <2>1 DEF EmbedInv, At
  <1>3. pc'[c] = "embed" => EmbedOne(c) \/ (StoreGet(c) /\ ~Finish(c))
    BY <1>1, ToAnswer
  <1>4. ASSUME pc'[c] = "embed"
        PROVE  /\ <<>> \in DOMAIN answer'[c].view
               /\ \A p \in todo'[c] : p \in Seq(Fields) /\ p # <<>>
    BY <1>3, <1>4, GotEffect, EmbeddedEffect
  <1> QED
    BY <1>2, <1>4 DEF EmbedInv, At

LEMMA EmbedInit == Init => EmbedInv
  BY MainIsNoClient DEF Init, EmbedInv, At

LEMMA EmbedStep == TypeInv /\ Tables /\ EmbedInv /\ [Next]_vars => EmbedInv'
  <1> SUFFICES ASSUME TypeInv, Tables, EmbedInv, [Next]_vars PROVE EmbedInv'
    OBVIOUS
  <1>1. CASE \E c \in Clients : Receive(c) \/ Handle(c)
    BY <1>1, EmbedClient
  <1>2. CASE Restart
    BY <1>2, MainIsNoClient DEF Restart, EmbedInv, At
  <1>3. CASE SaveAtExit \/ LoadNext \/ Serve \/ Relink(Main) \/ (\E e : Expire(e)) \/ UNCHANGED vars
    BY <1>3, OthersAlone DEF EmbedInv, At, TypeInv
  <1> QED
    BY <1>1, <1>2, <1>3 DEF Next, Process

(***************************************************************************)
(* What is embedded in an answer.                                          *)
(***************************************************************************)
(* A path at which a reference in the answer is to be replaced.            *)
Slot(view, n, p) == /\ p \in Seq(Fields) /\ Len(p) \in 1 .. n /\ p \notin DOMAIN view
                     /\ Above(p) \in DOMAIN view /\ p[Len(p)] \in Refs(view[Above(p)])

NestInv ==
    /\ \A c \in Clients : pc[c] \in {"embed", "fill"} /\ req[c].kind = "get" =>
                             Nests(answer[c].view, Levels(req[c]))
    /\ \A c \in Clients : pc[c] = "embed" =>
          \A p \in todo[c] : Slot(answer[c].view, Levels(req[c]), p)
    /\ \A e \in DOMAIN cache : e.what = "doc" => Nests(cache[e].view, MaxEmbedDepth)

LEMMA ShortPath ==
    ASSUME NEW f \in Fields
    PROVE  /\ <<f>> \in Seq(Fields) /\ Len(<<f>>) = 1 /\ <<f>> # <<>> /\ Above(<<f>>) = <<>>
           /\ <<f>>[Len(<<f>>)] = f
  <1>1. Above(<<f>>) = <<>>
    BY SubSeqEmpty DEF Above
  <1> QED
    BY <1>1

LEMMA LongerPath ==
    ASSUME NEW p \in Seq(Fields), NEW f \in Fields
    PROVE  /\ Append(p, f) \in Seq(Fields) /\ Len(Append(p, f)) = Len(p) + 1
           /\ Append(p, f) # <<>> /\ Append(p, f) # p
           /\ Above(Append(p, f)) = p /\ Append(p, f)[Len(Append(p, f))] = f
  <1> DEFINE q == Append(p, f)
  <1>1. /\ q \in Seq(Fields) /\ q # <<>> /\ Len(q) = Len(p) + 1 /\ Len(p) \in Nat
        /\ \A i \in 1 .. Len(p) : q[i] = p[i] /\ p[i] \in Fields
        /\ q[Len(p) + 1] = f
    BY AppendProperties, LenProperties
  <1> HIDE DEF q
  <1>2. SubSeq(q, 1, Len(p)) = p
    <2>1. /\ SubSeq(q, 1, Len(p)) \in Seq(Fields)
          /\ Len(SubSeq(q, 1, Len(p))) = IF 1 <= Len(p) THEN Len(p) - 1 + 1 ELSE 0
          /\ \A i \in 1 .. Len(p) - 1 + 1 : SubSeq(q, 1, Len(p))[i] = q[1 + i - 1]
      <3>1. 1 \in Int /\ Len(p) \in Int /\ \A i \in 1 .. Len(p) : q[i] \in Fields
        BY <1>1
      <3> QED
        BY <3>1, SubSeqProperties
    <2>2. Len(SubSeq(q, 1, Len(p))) = Len(p)
      BY <1>1, <2>1
    <2>3. \A i \in 1 .. Len(p) : SubSeq(q, 1, Len(p))[i] = p[i]
      BY <1>1, <2>1
    <2> QED
      BY <2>1, <2>2, <2>3, SeqEqual
  <1>3. Above(q) = p
    <2>1. Len(q) - 1 = Len(p)
      BY <1>1
    <2> QED
      BY <1>2, <2>1 DEF Above
  <1>4. q # p
    BY <1>1
  <1> QED
    BY <1>1, <1>3, <1>4 DEF q

LEMMA NestStart ==
    ASSUME NEW d, NEW n \in Nat
    PROVE  /\ Nests([p \in {<<>>} |-> d], n)
           /\ n # 0 => \A f \in Refs(d) : Slot([p \in {<<>>} |-> d], n, <<f>>)
  <1>1. ASSUME n # 0, NEW f \in Refs(d) PROVE Slot([p \in {<<>>} |-> d], n, <<f>>)
    <2>1. f \in Fields
      BY <1>1, RefsAreFields
    <2>2. 1 \in 1 .. n
      BY <1>1
    <2> QED
      BY <2>1, <2>2, ShortPath DEF Slot
  <1>2. Nests([p \in {<<>>} |-> d], n)
    BY DEF Nests
  <1> QED
    BY <1>1, <1>2

LEMMA NestGrows ==
    ASSUME NEW view, NEW n \in Nat, Nests(view, n), NEW p, Slot(view, n, p), NEW d
    PROVE  /\ Nests(Put(view, p, d), n)
           /\ \A r : r # p /\ Slot(view, n, r) => Slot(Put(view, p, d), n, r)
           /\ \A f \in Refs(d) : Len(p) < n => Slot(Put(view, p, d), n, Append(p, f))
  <1> DEFINE w == Put(view, p, d)
  <1>1. /\ DOMAIN w = DOMAIN view \cup {p} /\ w[p] = d
        /\ \A x \in DOMAIN view : w[x] = view[x]
    BY DEF Put, Slot
  <1> HIDE DEF w
  <1>2. \A x \in DOMAIN view \ {<<>>} : Above(x) \in DOMAIN view /\ Len(x) \in 1 .. n
                                       /\ x[Len(x)] \in Refs(view[Above(x)])
    BY DEF Nests
  <1>3. Nests(w, n)
    BY <1>1, <1>2 DEF Nests, Slot
  <1>4. ASSUME NEW r, r # p, Slot(view, n, r) PROVE Slot(w, n, r)
    BY <1>1, <1>4 DEF Slot
  <1>5. ASSUME NEW f \in Refs(d), Len(p) < n PROVE Slot(w, n, Append(p, f))
    <2>1. f \in Fields /\ p \in Seq(Fields) /\ Len(p) \in 1 .. n
      BY <1>5, RefsAreFields DEF Slot
    <2> PICK q : q = Append(p, f)
      OBVIOUS
    <2>2. /\ q \in Seq(Fields) /\ Len(q) = Len(p) + 1 /\ q # <<>> /\ q # p
          /\ Above(q) = p /\ q[Len(q)] = f
      BY <2>1, LongerPath
    <2>3. q \notin DOMAIN view
      BY <1>2, <2>2 DEF Slot
    <2>4. Len(q) \in 1 .. n
      BY <1>5, <2>1, <2>2
    <2> QED
      BY <1>1, <1>5, <2>2, <2>3, <2>4 DEF Slot
  <1> QED
    BY <1>3, <1>4, <1>5 DEF w

LEMMA LevelsFit ==
    ASSUME NEW o \in Requests
    PROVE  /\ Levels(o) \in Nat /\ Levels(o) <= MaxEmbedDepth
           /\ Embeds(o) => Levels(o) = o.depth /\ Levels(o) # 0
  BY ServerFlags, RequestType DEF Levels, Embeds

(* The first answer, and every replacement in it.                          *)
LEMMA GotNests ==
    ASSUME TypeInv, Tables, NEW c \in Clients, StoreGet(c), ~Finish(c)
    PROVE  /\ Nests(answer'[c].view, Levels(req'[c]))
           /\ \A p \in todo'[c] : Slot(answer'[c].view, Levels(req'[c]), p)
  <1> DEFINE d     == docs[key[c]]
             paths == IF Embeds(req[c]) THEN {<<f>> : f \in Refs(d)} ELSE {}
             n     == Levels(req[c])
  <1>1. Embed(c, [p \in {<<>>} |-> d], paths)
    BY DEF StoreGet
  <1>2. req[c] \in Requests
    BY Departures DEF TypeInv, LocalOK, At
  <1>3. n \in Nat /\ (Embeds(req[c]) => n # 0)
    BY <1>2, LevelsFit
  <1>4. Nests([p \in {<<>>} |-> d], n) /\ \A p \in paths : Slot([q \in {<<>>} |-> d], n, p)
    BY <1>3, NestStart
  <1> HIDE DEF paths, n
  <1>5. answer'[c] = DocAnswer([p \in {<<>>} |-> d]) /\ todo'[c] = paths /\ req' = req
    BY <1>1, EmbedEffect DEF TypeInv
  <1> QED
    BY <1>4, <1>5 DEF DocAnswer, n

LEMMA EmbeddedNests ==
    ASSUME TypeInv, Tables, NestInv, NEW c \in Clients, EmbedOne(c)
    PROVE  /\ Nests(answer'[c].view, Levels(req'[c]))
           /\ \A p \in todo'[c] : Slot(answer'[c].view, Levels(req'[c]), p)
  <1> DEFINE view == answer[c].view
             n    == Levels(req[c])
             To(p)   == Target(view[SubSeq(p, 1, Len(p) - 1)], p[Len(p)])
             More(p) == {Append(p, f) : f \in {g \in Refs(docs[To(p)]) : Len(p) < req[c].depth}}
  <1>1. PICK p \in todo[c] :
           \/ Embed(c, view, todo[c] \ {p})
           \/ Embed(c, Put(view, p, docs[To(p)]), (todo[c] \ {p}) \cup More(p))
    BY DEF EmbedOne, Longest
  <1>2. /\ pc[c] = "embed" /\ req[c].kind = "get" /\ req[c] \in Requests
    BY Departures DEF TypeInv, LocalOK, InStep, At
  <1>3. Nests(view, n) /\ \A q \in todo[c] : Slot(view, n, q)
    BY <1>2 DEF NestInv
  <1>4. n \in Nat /\ n = req[c].depth
    <2>1. n \in Nat /\ (Embeds(req[c]) => n = req[c].depth)
      BY <1>2, LevelsFit
    <2>2. Len(p) \in 1 .. n
      BY <1>3 DEF Slot
    <2> QED
      BY <2>1, <2>2 DEF Levels
  <1>5. Slot(view, n, p)
    BY <1>3
  <1> PICK d : d = docs[To(p)]
    OBVIOUS
  <1>6. /\ Nests(Put(view, p, d), n)
        /\ \A q \in (todo[c] \ {p}) \cup More(p) : Slot(Put(view, p, d), n, q)
    <2>1. /\ Nests(Put(view, p, d), n)
          /\ \A q \in todo[c] \ {p} : Slot(Put(view, p, d), n, q)
      BY <1>3, <1>4, <1>5, NestGrows
    <2>2. \A f \in Refs(d) : Len(p) < n => Slot(Put(view, p, d), n, Append(p, f))
      BY <1>3, <1>4, <1>5, NestGrows
    <2>3. \A q \in More(p) : Slot(Put(view, p, d), n, q)
      BY <1>4, <2>2
    <2> HIDE DEF More
    <2> QED
      BY <2>1, <2>3
  <1> HIDE DEF view, n, More, To
  <1>7. CASE Embed(c, view, todo[c] \ {p})
    <2>1. answer'[c] = DocAnswer(view) /\ todo'[c] = todo[c] \ {p} /\ req' = req
      BY <1>7, EmbedEffect DEF TypeInv
    <2> QED
      BY <1>3, <2>1 DEF DocAnswer, n
  <1>8. CASE Embed(c, Put(view, p, d), (todo[c] \ {p}) \cup More(p))
    <2>1. /\ answer'[c] = DocAnswer(Put(view, p, d)) /\ req' = req
          /\ todo'[c] = (todo[c] \ {p}) \cup More(p)
      BY <1>8, EmbedEffect DEF TypeInv
    <2> QED
      BY <1>6, <2>1 DEF DocAnswer, n
  <1> QED
    BY <1>1, <1>7, <1>8

(* What a step leaves in the cache, and what it puts there.                *)
LEMMA CacheChanges ==
    ASSUME [Next]_vars, NEW e \in DOMAIN cache'
    PROVE  \/ e \in DOMAIN cache /\ cache'[e] = cache[e]
           \/ \E c \in Clients : Fill(c) /\ e = EntryOf(c) /\ cache'[e] = answer[c]
  <1>1. ASSUME NEW c \in Clients, Receive(c) \/ Handle(c), ~Fill(c)
        PROVE  cache' = cache \/ \E es : cache' = Without(cache, es)
    <2>1. CASE Clean(c)
      BY <2>1 DEF Clean, Invalidate, Scan, DeletePage, ScanFails, Evict, memory
    <2>2. CASE Store(c)
      BY <2>2 DEF Store, StoreCreate, StoreUpdate, StoreSave, StoreDelete, DeleteFails, StoreFails,
                  WriteBreaks, memory
    <2>3. CASE Regraph(c)
      BY <2>3 DEF Regraph, Relink, UpdateNode, UpdateEdge, LinkNext, Unlinks, GraphPanics, memory
    <2>4. CASE Receive(c) \/ Before(c) \/ Query(c)
      BY <1>1, <2>4 DEF Receive, Before, Exists, PatchGet, Validate, PostSchema, Query, CacheGet,
                        StoreGet, EmbedOne, StoreList, FillFails, memory
    <2> QED
      BY <1>1, <2>1, <2>2, <2>3, <2>4 DEF Handle
  <1>2. CASE \E c \in Clients : (Receive(c) \/ Handle(c)) /\ ~Fill(c)
    BY <1>1, <1>2 DEF Without
  <1>3. CASE \E c \in Clients : Fill(c)
    BY <1>3 DEF Fill, Put
  <1>4. CASE \E x : Expire(x)
    BY <1>4 DEF Expire, Evict, Without
  <1>5. CASE Restart
    BY <1>5 DEF Restart, EmptyMap
  <1>6. CASE SaveAtExit \/ LoadNext \/ Serve \/ Relink(Main) \/ UNCHANGED vars
    BY <1>6 DEF SaveAtExit, LoadNext, Serve, Relink, UpdateNode, UpdateEdge, LinkNext, vars, memory
  <1> QED
    BY <1>2, <1>3, <1>4, <1>5, <1>6 DEF Next, Process

LEMMA NestCache ==
    ASSUME TypeInv, NestInv, [Next]_vars, NEW e \in DOMAIN cache', e.what = "doc"
    PROVE  Nests(cache'[e].view, MaxEmbedDepth)
  <1>1. CASE e \in DOMAIN cache /\ cache'[e] = cache[e]
    BY <1>1 DEF NestInv
  <1>2. ASSUME NEW c \in Clients, Fill(c), e = EntryOf(c), cache'[e] = answer[c]
        PROVE  Nests(cache'[e].view, MaxEmbedDepth)
    <2>1. pc[c] = "fill" /\ req[c] \in Requests
      BY <1>2, Departures DEF TypeInv, LocalOK, At
    <2>2. req[c].kind = "get"
      BY <1>2, <2>1 DEF TypeInv, LocalOK, InStep, At, EntryOf, EntryFor, ListEntry
    <2>3. Nests(answer[c].view, Levels(req[c]))
      BY <2>1, <2>2 DEF NestInv
    <2>4. Levels(req[c]) \in Nat /\ Levels(req[c]) <= MaxEmbedDepth /\ MaxEmbedDepth \in Nat
      BY <2>1, LevelsFit, ServerFlags
    <2>5. \A i : i \in 1 .. Levels(req[c]) => i \in 1 .. MaxEmbedDepth
      BY <2>4
    <2> QED
      BY <1>2, <2>3, <2>5 DEF Nests
  <1> QED
    BY <1>1, <1>2, CacheChanges

LEMMA NestClient ==
    ASSUME TypeInv, Tables, NestInv, NEW c \in Clients, Receive(c) \/ Handle(c), NEW d \in Clients
    PROVE  /\ pc'[d] \in {"embed", "fill"} /\ req'[d].kind = "get" =>
                 Nests(answer'[d].view, Levels(req'[d]))
           /\ pc'[d] = "embed" => \A p \in todo'[d] : Slot(answer'[d].view, Levels(req'[d]), p)
  <1>1. LocalOK /\ Alone(c)
    BY ClientAlone DEF TypeInv
  <1>2. CASE d # c
    <2>1. pc'[d] = pc[d] /\ req'[d] = req[d] /\ answer'[d] = answer[d] /\ todo'[d] = todo[d]
      BY <1>1, <1>2, MainIsNoClient DEF Alone
    <2> QED
      BY <2>1 DEF NestInv
  <1>3. CASE d = c /\ StoreList(c) /\ ~Finish(c) /\ pc'[c] = "fill"
    <2>1. req' = req
      BY <1>3 DEF StoreList
    <2>2. req[c].kind = "list"
      BY <1>1, <1>3, Departures DEF LocalOK, InStep, At
    <2> QED
      BY <1>3, <2>1, <2>2
  <1>4. CASE d = c /\ (EmbedOne(c) \/ (StoreGet(c) /\ ~Finish(c)))
    BY <1>4, EmbeddedNests, GotNests
  <1> QED
    BY <1>1, <1>2, <1>3, <1>4, ToAnswer

LEMMA NestStep == TypeInv /\ Tables /\ NestInv /\ [Next]_vars => NestInv'
  <1> SUFFICES ASSUME TypeInv, Tables, NestInv, [Next]_vars PROVE NestInv'
    OBVIOUS
  <1>1. \A e \in DOMAIN cache' : e.what = "doc" => Nests(cache'[e].view, MaxEmbedDepth)
    BY NestCache
  <1>2. CASE \E c \in Clients : Receive(c) \/ Handle(c)
    BY <1>1, <1>2, NestClient DEF NestInv
  <1>3. CASE Restart
    BY <1>1, <1>3, MainIsNoClient DEF Restart, NestInv
  <1>4. CASE SaveAtExit \/ LoadNext \/ Serve \/ Relink(Main) \/ (\E e : Expire(e)) \/ UNCHANGED vars
    <2>1. \A c \in Clients : /\ pc'[c] = pc[c] /\ req'[c] = req[c]
                             /\ todo'[c] = todo[c] /\ answer'[c] = answer[c]
      BY <1>4, OthersAlone DEF TypeInv
    <2> QED
      BY <1>1, <2>1 DEF NestInv
  <1> QED
    BY <1>2, <1>3, <1>4 DEF Next, Process

LEMMA NestInit == Init => NestInv
  BY MainIsNoClient DEF Init, NestInv, EmptyMap

(* What is embedded in an answer stands in place of a reference, no deeper *)
(* than asked for, and in the cache no deeper than configured.             *)
THEOREM EmbeddingsAreNested == Spec => []EmbeddingsNest
  <1>1. NestInv => EmbeddingsNest
    BY DEF NestInv, EmbeddingsNest
  <1> QED
    BY <1>1, TypeInit, TablesInit, NestInit, TypeStep, TablesStep, NestStep, PTL DEF Spec

(***************************************************************************)
(* No handler goes back.                                                   *)
(***************************************************************************)
LEMMA BeforeForward ==
    ASSUME TypeInv, NEW c \in Clients, Before(c) \/ Store(c) PROVE Stage[pc[c]] < Stage[pc'[c]]
  <1>1. LocalOK
    BY DEF TypeInv
  <1>2. CASE Exists(c)
    BY <1>1, <1>2, Departures, Arrivals DEF Stage
  <1>3. CASE PatchGet(c)
    <2>1. pc'[c] \in {"validate", "idle"}
      BY <1>1, <1>3, PcSet DEF PatchGet
    <2> QED
      BY <1>3, <2>1, Departures DEF Stage
  <1>4. CASE Validate(c)
    <2>1. pc'[c] \in {"store", "idle"}
      BY <1>1, <1>4, PcSet DEF Validate
    <2> QED
      BY <1>4, <2>1, Departures DEF Stage
  <1>5. CASE PostSchema(c)
    <2>1. pc'[c] = "idle"
      BY <1>1, <1>5, PcSet DEF PostSchema
    <2> QED
      BY <1>5, <2>1, Departures DEF Stage
  <1>6. CASE StoreCreate(c) \/ StoreUpdate(c) \/ StoreSave(c)
    <2>1. pc'[c] \in {"node", "invalidate", "idle"}
      BY <1>1, <1>6, PcSet DEF StoreCreate, StoreUpdate, StoreSave, Wrote
    <2> QED
      BY <1>6, <2>1, Departures DEF Stage
  <1>7. CASE StoreDelete(c) \/ DeleteFails(c)
    <2>1. pc'[c] \in {"unlink", "invalidate", "idle"}
      BY <1>1, <1>7, Arrivals DEF AfterDelete
    <2> QED
      BY <1>7, <2>1, Departures DEF Stage
  <1>8. CASE StoreFails(c) \/ WriteBreaks(c)
    BY <1>1, <1>8, Departures, Arrivals DEF Stage
  <1> QED
    BY <1>2, <1>3, <1>4, <1>5, <1>6, <1>7, <1>8 DEF Before, Store

(* A field that is linked is no longer due.                                *)
LEMMA RelinkForward == ASSUME TypeInv, Tables, NEW c \in Clients, Relink(c) PROVE Forward(c)
  <1>1. LocalOK /\ c \in Procs /\ pc[c] \in {"node", "edges"}
    BY Departures, MainIsNoClient DEF TypeInv
  <1>2. pc'[c] \in {"edges", "invalidate"}
    BY <1>1, Arrivals
  <1>3. CASE pc[c] = "node" \/ pc'[c] = "invalidate"
    BY <1>1, <1>2, <1>3 DEF Forward, Stage
  <1>4. CASE pc[c] = "edges" /\ pc'[c] = "edges"
    <2>1. PICK f \in todo[c] : todo'[c] = todo[c] \ {f}
      BY <1>1, <1>4, RelinkEffect
    <2>2. todo'[c] \subseteq todo[c] /\ todo'[c] # todo[c]
      BY <2>1
    <2> QED
      BY <1>4, <2>2 DEF Forward, Fewer, At
  <1> QED
    BY <1>1, <1>2, <1>3, <1>4

(* A page that takes no key that is left ends the scan.                    *)
LEMMA CleanForward == ASSUME TypeInv, Tables, NEW c \in Clients, Clean(c) PROVE Forward(c)
  <1>1. LocalOK
    BY DEF TypeInv
  <1>2. CASE Finish(c)
    <2>1. pc[c] \in {"invalidate", "scan"} /\ pc'[c] = "idle"
      BY <1>1, <1>2, PcSet, Departures DEF Clean
    <2> QED
      BY <2>1 DEF Forward, Stage
  <1>3. CASE Scan(c)
    <2>1. pc[c] = "invalidate" /\ pc'[c] = "scan"
      BY <1>1, <1>3, PcSet, Departures DEF Scan
    <2> QED
      BY <2>1 DEF Forward, Stage
  <1>4. CASE DeletePage(c) /\ ~Finish(c)
    <2>1. PICK page :
             /\ todo[c] \cap DOMAIN cache = {} \/ todo[c] \cap page # {}
             /\ LeftAfter(c, page) # {} /\ pc' = pc
             /\ todo' = [todo EXCEPT ![c] = LeftAfter(c, page)]
      BY <1>4 DEF DeletePage
    <2>2. todo'[c] = (todo[c] \cap DOMAIN cache) \ page
      BY <2>1, MainIsNoClient DEF Tables, LeftAfter
    <2>3. todo'[c] \subseteq todo[c] /\ todo'[c] # todo[c]
      BY <2>1, <2>2 DEF LeftAfter
    <2>4. pc[c] = "scan"
      BY <1>4, Departures
    <2> QED
      BY <2>1, <2>3, <2>4 DEF Forward, Fewer, At
  <1> QED
    BY <1>2, <1>3, <1>4 DEF Clean, Invalidate, ScanFails

(* A path is replaced, which happens once for each, or given up.           *)
LEMMA EmbedForward ==
    ASSUME TypeInv, Tables, NestInv, NEW c \in Clients, EmbedOne(c) PROVE Forward(c)
  <1> DEFINE view == answer[c].view
             To(p)   == Target(view[SubSeq(p, 1, Len(p) - 1)], p[Len(p)])
             More(p) == {Append(p, f) : f \in {g \in Refs(docs[To(p)]) : Len(p) < req[c].depth}}
  <1>1. PICK p \in todo[c] :
           \/ Embed(c, view, todo[c] \ {p})
           \/ Embed(c, Put(view, p, docs[To(p)]), (todo[c] \ {p}) \cup More(p))
    BY DEF EmbedOne, Longest
  <1>2. pc[c] = "embed" /\ req[c] \in Requests /\ LocalOK
    BY Departures DEF TypeInv, LocalOK, At
  <1>3. p \notin DOMAIN view /\ Len(p) <= Levels(req[c])
    <2>1. Slot(view, Levels(req[c]), p) /\ Levels(req[c]) \in Nat
      BY <1>2, LevelsFit DEF NestInv
    <2> HIDE DEF view
    <2> QED
      BY <2>1 DEF Slot
  <1> HIDE DEF view, More, To
  <1>4. ASSUME NEW v, NEW ps, Embed(c, v, ps)
        PROVE  answer'[c].view = v /\ todo'[c] = ps /\ pc'[c] \in {"embed", "fill"}
    <2>1. /\ answer'[c] = DocAnswer(v) /\ todo'[c] = ps
          /\ pc'[c] = IF ps = {} THEN "fill" ELSE "embed"
      BY <1>2, <1>4, EmbedEffect
    <2> QED
      BY <2>1 DEF DocAnswer
  <1>5. pc'[c] \in {"embed", "fill"} /\ Fewer(c)
    <2>1. CASE Embed(c, view, todo[c] \ {p})
      <3>1. answer'[c].view = view /\ todo'[c] = todo[c] \ {p} /\ pc'[c] \in {"embed", "fill"}
        BY <1>4, <2>1
      <3>2. todo'[c] \subseteq todo[c] /\ todo'[c] # todo[c]
        BY <3>1
      <3> QED
        BY <3>1, <3>2 DEF Fewer, view
    <2>2. CASE Embed(c, Put(view, p, docs[To(p)]), (todo[c] \ {p}) \cup More(p))
      <3>1. answer'[c].view = Put(view, p, docs[To(p)]) /\ pc'[c] \in {"embed", "fill"}
        BY <1>4, <2>2
      <3>2. DOMAIN answer'[c].view = DOMAIN view \cup {p}
        BY <3>1 DEF Put
      <3> QED
        BY <1>2, <1>3, <3>1, <3>2 DEF Fewer, At, view
    <2> QED
      BY <1>1, <2>1, <2>2
  <1> QED
    BY <1>2, <1>5 DEF Forward, Stage

LEMMA QueryForward ==
    ASSUME TypeInv, Tables, NestInv, NEW c \in Clients, Query(c) PROVE Forward(c)
  <1>1. LocalOK
    BY DEF TypeInv
  <1>2. CASE Finish(c)
    <2>1. pc[c] \in {"cache", "get", "list", "fill", "embed"} /\ pc'[c] = "idle"
      BY <1>1, <1>2, PcSet, Departures DEF Query
    <2> QED
      BY <2>1 DEF Forward, Stage
  <1>3. CASE CacheGet(c) /\ ~Finish(c)
    <2>1. pc[c] = "cache" /\ pc'[c] = req[c].kind
      BY <1>1, <1>3, PcSet, Departures DEF CacheGet
    <2>2. req[c].kind \in {"get", "list"}
      BY <1>1, <2>1 DEF LocalOK, InStep, At
    <2> QED
      BY <2>1, <2>2 DEF Forward, Stage
  <1>4. CASE StoreGet(c) /\ ~Finish(c)
    <2>1. pc[c] = "get" /\ pc'[c] \in {"embed", "fill"}
      BY <1>4, GotEffect, Departures
    <2> QED
      BY <2>1 DEF Forward, Stage
  <1>5. CASE StoreList(c) /\ ~Finish(c)
    <2>1. pc[c] = "list" /\ pc'[c] = "fill"
      BY <1>1, <1>5, PcSet, Departures DEF StoreList
    <2> QED
      BY <2>1 DEF Forward, Stage
  <1>6. CASE EmbedOne(c)
    BY <1>6, EmbedForward
  <1> QED
    BY <1>2, <1>3, <1>4, <1>5, <1>6 DEF Query, Fill, FillFails

LEMMA HandlerForward ==
    ASSUME TypeInv, Tables, NestInv, NEW c \in Clients, Handle(c) PROVE Forward(c)
  <1>1. CASE Unlinks(c) \/ GraphPanics(c)
    <2>1. LocalOK /\ pc[c] \in {"node", "unlink"}
      BY <1>1, Departures DEF TypeInv
    <2>2. pc'[c] \in {"invalidate", "idle"}
      BY <1>1, <2>1, PcSet DEF Unlinks, GraphPanics
    <2> QED
      BY <2>1, <2>2 DEF Forward, Stage
  <1>2. CASE Relink(c)
    BY <1>2, RelinkForward
  <1>3. CASE Before(c) \/ Store(c)
    BY <1>3, BeforeForward DEF Forward
  <1>4. CASE Clean(c)
    BY <1>4, CleanForward
  <1>5. CASE Query(c)
    BY <1>5, QueryForward
  <1> QED
    BY <1>1, <1>2, <1>3, <1>4, <1>5 DEF Handle, Regraph

(* Every step of a handler brings it nearer to its answer.                 *)
THEOREM HandlersGoForward == Spec => HandlersProgress
  <1>1. TypeInv /\ Tables /\ NestInv => [\A c \in Clients : Forward(c) \/ ~Handle(c)]_vars
    BY HandlerForward
  <1> QED
    BY <1>1, TypeInit, TablesInit, NestInit, TypeStep, TablesStep, NestStep, PTL
       DEF Spec, HandlersProgress

(* Only the three reads of the store mark a client.                        *)
LEMMA StillGrows ==
    ASSUME NEW c \in Clients, Receive(c) \/ Handle(c)
    PROVE  \/ still' \subseteq still
           \/ (PatchGet(c) \/ StoreGet(c) \/ StoreList(c)) /\ still' \subseteq still \cup {c}
  <1>1. Finish(c) => still' \subseteq still
    BY DEF Finish
  <1>2. \A s : Goto(c, s) => still' = still
    BY DEF Goto, local
  <1>3. CASE Receive(c) \/ Before(c)
    BY <1>1, <1>2, <1>3 DEF Receive, Before, Exists, PatchGet, Validate, PostSchema
  <1>4. CASE Store(c) /\ ~WriteBreaks(c)
    BY <1>1, <1>2, <1>4 DEF Store, StoreCreate, StoreUpdate, StoreSave, StoreDelete, DeleteFails,
                            StoreFails, Wrote, Overtake
  <1>8. CASE WriteBreaks(c)
    BY <1>8 DEF WriteBreaks, Breaks
  <1>5. CASE Regraph(c)
    BY <1>1, <1>2, <1>5 DEF Regraph, Relink, UpdateNode, UpdateEdge, LinkNext, Unlinks, GraphPanics
  <1>6. CASE Clean(c)
    BY <1>1, <1>2, <1>6 DEF Clean, Invalidate, Scan, DeletePage, ScanFails
  <1>7. CASE Query(c)
    BY <1>1, <1>2, <1>7 DEF Query, CacheGet, StoreGet, EmbedOne, StoreList, Fill, FillFails
  <1> QED
    BY <1>3, <1>4, <1>5, <1>6, <1>7, <1>8 DEF Handle

(* Another client's write of what was read takes the mark away.            *)
LEMMA StillOther ==
    ASSUME TypeInv, Tables, ReadInv, NEW c \in Clients, Receive(c) \/ Handle(c),
           NEW d \in still', d # c
    PROVE  (Merged(d) \/ Answered(d))'
  <1>1. LocalOK /\ StoreOK /\ Alone(c) /\ d \in still /\ d \in Clients
    BY ClientAlone, StillGrows DEF TypeInv, LocalOK
  <1>2. /\ pc'[d] = pc[d] /\ key'[d] = key[d] /\ req'[d] = req[d] /\ doc'[d] = doc[d]
        /\ answer'[d] = answer[d]
    BY <1>1, MainIsNoClient DEF Alone
  <1>3. CASE docs' = docs
    BY <1>1, <1>2, <1>3 DEF ReadInv, StillInv, Merged, Answered, EntryOf
  <1>4. ASSUME NEW k \in Keys, NEW x, docs' = Put(docs, k, x) \/ docs' = Drop(docs, k), ~Reads(d, k)
        PROVE  (Merged(d) \/ Answered(d))'
    <2>1. CASE Merged(d)
      <3>1. key[d] # k
        BY <1>4, <2>1 DEF Merged, Reads
      <3>2. key[d] \in DOMAIN docs' /\ docs'[key[d]] = docs[key[d]]
        BY <1>4, <2>1, <3>1 DEF Merged, Put, Drop
      <3> QED
        BY <1>2, <2>1, <3>2 DEF Merged
    <2>2. CASE Answered(d)
      <3> DEFINE e == EntryOf(d)
      <3>1. req[d] \in Requests /\ req[d].key = key[d] /\ key[d] \in Keys
        BY <1>1, <2>2, StepKey DEF ReadInv, KeyInv, Answered, LocalOK, At
      <3>2. IF e.what = "list" THEN e.type # k[1] ELSE <<e.type, e.n>> # k
        BY <1>4, <2>2, <3>1, PairKey DEF EntryOf, EntryFor, ListEntry, DocEntry, Reads, Answered
      <3>3. Current(docs', e, answer[d])
        BY <1>1, <1>4, <2>2, <3>2, CurrentApart DEF Answered
      <3> QED
        BY <1>2, <2>2, <3>3 DEF Answered, EntryOf
    <2> QED
      BY <1>1, <2>1, <2>2 DEF ReadInv, StillInv
  <1>5. ASSUME NEW k, At(c, "store"), k[1] = key[c][1], Wrote(c, k, doc[c])
        PROVE  (Merged(d) \/ Answered(d))'
    <2>1. docs' = Put(docs, k, doc[c]) /\ ~Reads(d, k)
      BY <1>5 DEF Wrote, Overtake
    <2>2. k \in Keys
      <3>1. StoreOK' /\ k \in DOMAIN docs'
        BY <2>1, ClientType DEF TypeInv, Put
      <3> QED
        BY <3>1 DEF StoreOK
    <2> QED
      BY <1>4, <2>1, <2>2
  <1>6. CASE StoreDelete(c)
    <2>1. docs' = Drop(docs, key[c]) /\ ~Reads(d, key[c]) /\ key[c] \in Keys
      BY <1>1, <1>6, StepKey DEF StoreDelete, Overtake
    <2> QED
      BY <1>4, <2>1
  <1>7. ASSUME NEW k \in Keys, Breaks(c, k) PROVE (Merged(d) \/ Answered(d))'
    <2>1. docs' = Drop(docs, k) /\ ~Reads(d, k)
      BY <1>7 DEF Breaks
    <2> QED
      BY <1>4, <2>1
  <1> QED
    BY <1>1, <1>3, <1>5, <1>6, <1>7, ClientDocs

LEMMA StillOwn ==
    ASSUME TypeInv, Tables, ReadInv, NEW c \in Clients, Receive(c) \/ Handle(c), c \in still'
    PROVE  (Merged(c) \/ Answered(c))'
  <1>1. LocalOK /\ ~Finish(c) /\ ~WriteBreaks(c)
    BY DEF TypeInv, Finish, WriteBreaks, Breaks
  <1>2. CASE PatchGet(c)
    <2>1. key[c] \in DOMAIN docs /\ UNCHANGED <<docs, req, key>> /\ Advance(c, "validate")
          /\ doc' = [doc EXCEPT ![c] = Patched(docs[key[c]], Decoded(req[c].body))]
      BY <1>1, <1>2 DEF PatchGet, store
    <2>2. doc'[c] = Patched(docs[key[c]], Decoded(req[c].body)) /\ pc'[c] = "validate"
      BY <1>1, <2>1, PcSet, MainIsNoClient DEF LocalOK
    <2> QED
      BY <1>2, <2>1, <2>2, Departures DEF Merged
  <1>3. CASE StoreGet(c)
    <2>1. req[c].key = key[c] /\ key[c] \in Keys /\ req[c].kind = "get"
      BY <1>1, <1>3, StepKey, Departures DEF ReadInv, KeyInv, At
    <2>2. /\ key[c] \in DOMAIN docs /\ answer'[c].view = [p \in {<<>>} |-> docs[key[c]]]
          /\ pc'[c] \in {"embed", "fill"} /\ UNCHANGED <<docs, req, key>>
      BY <1>1, <1>3, GotEffect
    <2>3. Current(docs, EntryOf(c), answer'[c])
      BY <2>1, <2>2, PairKey DEF EntryOf, EntryFor, DocEntry, Current
    <2> QED
      BY <2>1, <2>2, <2>3 DEF Answered, EntryOf
  <1>4. CASE StoreList(c)
    <2>0. c \notin still
      BY <1>4, Departures DEF ReadInv, StillInv, Merged, Answered
    <2>1. /\ answer' = [answer EXCEPT ![c] = PageIn(docs, EntryOf(c))]
          /\ Advance(c, "fill") /\ UNCHANGED <<docs, req>>
      <3>1. PICK missed :
               /\ answer' = [answer EXCEPT ![c] = PageIn(Without(docs, missed), EntryOf(c))]
               /\ still' = IF missed = {} THEN still \cup {c} ELSE still
               /\ Advance(c, "fill") /\ UNCHANGED <<docs, req>>
        BY <1>1, <1>4 DEF StoreList, store
      <3>2. missed = {}
        BY <2>0, <3>1
      <3>3. Without(docs, {}) = docs
        BY DEF Without, TypeInv, StoreOK
      <3> QED
        BY <3>1, <3>2, <3>3
    <2>2. req[c].kind = "list"
      BY <1>1, <1>4, Departures DEF LocalOK, InStep, At
    <2>3. answer'[c] = PageIn(docs, EntryOf(c)) /\ pc'[c] = "fill"
      BY <1>1, <2>1, PcSet DEF Tables
    <2>4. Current(docs, EntryOf(c), answer'[c])
      BY <2>2, <2>3 DEF EntryOf, EntryFor, ListEntry, Current
    <2> QED
      BY <2>1, <2>2, <2>3, <2>4 DEF Answered, EntryOf
  <1>5. CASE ~(PatchGet(c) \/ StoreGet(c) \/ StoreList(c))
    <2>1. Merged(c) \/ Answered(c)
      BY <1>5, StillGrows DEF ReadInv, StillInv
    <2>2. pc[c] \in {"validate", "store", "embed", "fill"}
      BY <2>1 DEF Merged, Answered
    <2>3. CASE Validate(c)
      <3>1. Goto(c, "store") /\ docs' = docs
        BY <1>1, <2>3 DEF Validate, store
      <3>2. Merged(c) /\ UNCHANGED <<req, key, doc>> /\ pc'[c] = "store"
        BY <1>1, <2>1, <2>3, <3>1, Departures, PcSet DEF Answered, Goto, local
      <3> QED
        BY <3>1, <3>2 DEF Merged
    <2>4. CASE EmbedOne(c)
      <3>1. Answered(c) /\ req[c].kind = "get"
        BY <1>1, <2>1, <2>4, Departures DEF Merged, LocalOK, InStep, At
      <3>2. /\ answer'[c].view[<<>>] = answer[c].view[<<>>] /\ pc'[c] \in {"embed", "fill"}
            /\ UNCHANGED <<docs, req, key, still>>
        BY <2>4, EmbeddedEffect DEF ReadInv
      <3>3. Current(docs, EntryOf(c), answer'[c])
        BY <3>1, <3>2 DEF Answered, EntryOf, EntryFor, DocEntry, Current
      <3> QED
        BY <3>1, <3>2, <3>3 DEF Answered, EntryOf
    <2>5. CASE StoreCreate(c) \/ StoreSave(c)
      BY <2>1, <2>5, Departures DEF Merged, Answered
    <2>6. CASE StoreUpdate(c)
      <3>1. Merged(c) /\ Wrote(c, key[c], doc[c])
        BY <1>1, <2>1, <2>6, Departures DEF StoreUpdate, Answered
      <3> QED
        BY <3>1 DEF Merged, Wrote, Overtake, Reads
    <2>7. CASE StoreFails(c) \/ Fill(c) \/ FillFails(c)
      BY <1>1, <2>7 DEF StoreFails, Fill, FillFails
    <2>8. \/ Validate(c) \/ EmbedOne(c) \/ StoreCreate(c) \/ StoreSave(c) \/ StoreUpdate(c)
          \/ StoreFails(c) \/ Fill(c) \/ FillFails(c)
      <3>1. /\ ~Receive(c) /\ ~Exists(c) /\ ~PostSchema(c) /\ ~StoreDelete(c) /\ ~DeleteFails(c)
            /\ ~Regraph(c) /\ ~Clean(c) /\ ~CacheGet(c)
        BY <2>2, Departures DEF Regraph, Clean
      <3> QED
        BY <1>1, <1>5, <3>1 DEF Handle, Before, Store, Query
    <2> QED
      BY <2>3, <2>4, <2>5, <2>6, <2>7, <2>8
  <1> QED
    BY <1>2, <1>3, <1>4, <1>5

LEMMA StillStep == TypeInv /\ Tables /\ ReadInv /\ [Next]_vars => StillInv'
  <1> SUFFICES ASSUME TypeInv, Tables, ReadInv, [Next]_vars PROVE StillInv'
    OBVIOUS
  <1>1. ASSUME NEW c \in Clients, Receive(c) \/ Handle(c) PROVE StillInv'
    BY <1>1, StillOther, StillOwn DEF StillInv
  <1>2. CASE Restart
    BY <1>2 DEF Restart, StillInv
  <1>3. CASE SaveAtExit \/ LoadNext \/ Serve \/ Relink(Main) \/ (\E e : Expire(e)) \/ UNCHANGED vars
    <2>1. still \subseteq Clients
      BY DEF TypeInv, LocalOK
    <2> QED
      BY <1>3, <2>1, OthersAlone DEF ReadInv, StillInv, Merged, Answered, EntryOf, TypeInv
  <1> QED
    BY <1>1, <1>2, <1>3 DEF Next, Process

LEMMA ReadInit == Init => ReadInv
  <1>1. Init => StillInv
    BY DEF Init, StillInv
  <1> QED
    BY <1>1, KeyInit, EmbedInit DEF ReadInv

LEMMA ReadStep == TypeInv /\ Tables /\ ReadInv /\ [Next]_vars => ReadInv'
  BY KeyStep, EmbedStep, StillStep DEF ReadInv

(* A patch that nobody overtook stores the merge with what is there.       *)
THEOREM LonePatchesKeep == Spec => LonePatchKeeps
  <1>1. TypeInv /\ Tables /\ ReadInv =>
           [\A c \in Clients :
              StoreUpdate(c) /\ req[c].kind = "patch" /\ c \in still /\ key[c] \in DOMAIN docs =>
                docs'[key[c]] = Patched(docs[key[c]], Decoded(req[c].body))]_vars
    <2> SUFFICES ASSUME TypeInv, ReadInv, NEW c \in Clients, StoreUpdate(c), req[c].kind = "patch",
                        c \in still, key[c] \in DOMAIN docs
                 PROVE  docs'[key[c]] = Patched(docs[key[c]], Decoded(req[c].body))
      OBVIOUS
    <2>1. Merged(c)
      BY Departures DEF ReadInv, StillInv, Answered
    <2>2. docs' = Put(docs, key[c], doc[c])
      BY DEF StoreUpdate, Wrote, Present
    <2> QED
      BY <2>1, <2>2 DEF Merged, Put
  <1> QED
    BY <1>1, TypeInit, TablesInit, ReadInit, TypeStep, TablesStep, ReadStep, PTL
       DEF Spec, LonePatchKeeps

(***************************************************************************)
(* What the cache holds.                                                   *)
(***************************************************************************)
(* c has written the type of e, and is going to take e out of the cache.   *)
Pending(e, c) == /\ key[c][1] = e.type
                 /\ \/ pc[c] \in {"node", "edges", "unlink", "invalidate"}
                    \/ pc[c] = "scan" /\ e \in todo[c]

Covered(e) == \/ Current(docs, e, cache[e])
              \/ e \in spoiled
              \/ \E c \in Clients : Pending(e, c)

CacheInv == \A e \in DOMAIN cache : Covered(e)

LEMMA StaleFollows == CacheInv => StaleMeansOverlap
  BY DEF CacheInv, Covered, Pending, StaleMeansOverlap, Unfinished

(* A key begins with the name of its type.                                 *)
LEMMA OwnMatch ==
    ASSUME TypeInv, NEW c \in Clients, NEW e \in DOMAIN cache, key[c][1] = e.type
    PROVE  e \in Matching(DOMAIN cache, key[c][1])
  <1>1. key[c][1] \in Types
    BY StepKey DEF TypeInv, Keys
  <1> QED
    BY <1>1, NamesBegin DEF Matching

(* What is pending stays so when others move.                              *)
LEMMA PendingOther ==
    ASSUME TypeInv, Tables, NEW c \in Clients, Receive(c) \/ Handle(c), NEW e,
           NEW d \in Clients \ {c}, Pending(e, d)
    PROVE  Pending(e, d)'
  <1>1. Alone(c)
    BY ClientAlone DEF TypeInv
  <1>2. pc'[d] = pc[d] /\ key'[d] = key[d] /\ todo'[d] = todo[d]
    BY <1>1, MainIsNoClient DEF Alone
  <1> QED
    BY <1>2 DEF Pending

(* A step that leaves documents, cache and marks alone, and is no end of   *)
(* an invalidation.                                                        *)
LEMMA CacheApart ==
    ASSUME TypeInv, Tables, CacheInv, NEW c \in Clients, Receive(c) \/ Handle(c),
           UNCHANGED <<docs, cache>>, spoiled \subseteq spoiled',
           \A e \in DOMAIN cache : Pending(e, c) => Pending(e, c)' \/ e \in spoiled'
    PROVE  CacheInv'
  <1> SUFFICES ASSUME NEW e \in DOMAIN cache PROVE Covered(e)'
    BY DEF CacheInv
  <1>1. CASE Current(docs, e, cache[e]) \/ e \in spoiled
    BY <1>1 DEF Covered
  <1>2. CASE \E d \in Clients : Pending(e, d)
    BY <1>2, PendingOther DEF Covered
  <1> QED
    BY <1>1, <1>2 DEF CacheInv, Covered

(* A write.                                                                *)
LEMMA CacheWrite ==
    ASSUME TypeInv, Tables, CacheInv, NEW c \in Clients, Receive(c) \/ Handle(c),
           NEW k \in Keys, NEW d, docs' = Put(docs, k, d) \/ docs' = Drop(docs, k),
           UNCHANGED <<cache, spoiled>>, pc[c] \in {"store", "delete"},
           key'[c] = k, pc'[c] \in {"node", "unlink", "invalidate"}
    PROVE  CacheInv'
  <1> SUFFICES ASSUME NEW e \in DOMAIN cache PROVE Covered(e)'
    BY DEF CacheInv
  <1>1. CASE e.type = k[1]
    BY <1>1 DEF Covered, Pending
  <1>2. CASE e.type # k[1] /\ Current(docs, e, cache[e])
    <2>1. StoreOK /\ <<e.type, e.n>> # k
      BY <1>2 DEF TypeInv
    <2>2. Current(docs', e, cache[e])
      BY <1>2, <2>1, CurrentApart
    <2> QED
      BY <2>2 DEF Covered
  <1>3. CASE e \in spoiled
    BY <1>3 DEF Covered
  <1>4. CASE \E b \in Clients : Pending(e, b)
    <2>1. PICK b \in Clients : Pending(e, b)
      BY <1>4
    <2>2. b # c
      BY <2>1 DEF Pending
    <2> QED
      BY <2>1, <2>2, PendingOther DEF Covered
  <1> QED
    BY <1>1, <1>2, <1>3, <1>4 DEF CacheInv, Covered

(* A write that breaks marks what is cached of what it destroys.           *)
LEMMA CacheBreak ==
    ASSUME TypeInv, Tables, CacheInv, NEW c \in Clients, Handle(c), WriteBreaks(c) PROVE CacheInv'
  <1>1. PICK k \in Keys : Breaks(c, k) /\ k[1] = key[c][1]
    BY BrokenKey DEF TypeInv
  <1>2. /\ docs' = Drop(docs, k) /\ cache' = cache /\ pc[c] = "store"
        /\ IF k \in DOMAIN docs THEN Spoil(c) ELSE spoiled' = spoiled
    BY <1>1, Departures DEF Breaks, WriteBreaks, memory
  <1>3. spoiled \subseteq spoiled' /\ \A e : ~Pending(e, c)
    BY <1>2 DEF Spoil, Pending
  <1>4. CASE k \notin DOMAIN docs
    <2>1. docs' = docs
      BY <1>2, <1>4 DEF Drop, TypeInv, StoreOK
    <2> QED
      BY <1>2, <1>3, <2>1, CacheApart
  <1>5. ASSUME k \in DOMAIN docs, NEW e \in DOMAIN cache PROVE Covered(e)'
    <2>1. CASE e.type = key[c][1]
      <3>1. e \in spoiled'
        BY <1>2, <1>5, <2>1, OwnMatch DEF Spoil
      <3> QED
        BY <3>1 DEF Covered
    <2>2. CASE e.type # key[c][1] /\ Current(docs, e, cache[e])
      <3>1. StoreOK /\ e.type # k[1] /\ <<e.type, e.n>> # k
        BY <1>1, <2>2 DEF TypeInv
      <3>2. Current(docs', e, cache[e])
        BY <1>2, <2>2, <3>1, CurrentApart
      <3> QED
        BY <1>2, <3>2 DEF Covered
    <2>3. CASE e \in spoiled
      BY <1>3, <2>3 DEF Covered
    <2>4. CASE \E d \in Clients : Pending(e, d)
      BY <1>3, <2>4, PendingOther DEF Covered
    <2> QED
      BY <1>5, <2>1, <2>2, <2>3, <2>4 DEF CacheInv, Covered
  <1> QED
    BY <1>2, <1>4, <1>5 DEF CacheInv

(* No handler is idle.                                                     *)
LEMMA Handles ==
    ASSUME NEW c \in Clients, Store(c) \/ Regraph(c) \/ Clean(c) \/ Fill(c) PROVE Handle(c)
  <1>1. ~At(c, "idle")
    BY Departures DEF Store, Regraph, Clean, At
  <1> QED
    BY <1>1 DEF Handle, Query

LEMMA CacheStore ==
    ASSUME TypeInv, Tables, CacheInv, NEW c \in Clients, Store(c), ~WriteBreaks(c) PROVE CacheInv'
  <1>1. LocalOK /\ Handle(c) /\ UNCHANGED <<cache, spoiled>>
    <2>1. UNCHANGED <<cache, spoiled>>
      BY DEF Store, StoreCreate, StoreUpdate, StoreSave, StoreDelete, DeleteFails, StoreFails,
             memory, past
    <2> QED
      BY <2>1, Handles DEF TypeInv
  <1>2. CASE docs' = docs
    <2>1. pc[c] \in {"get", "list", "store", "delete"}
      BY <1>1, Departures DEF Store
    <2>2. \A e : ~Pending(e, c)
      BY <2>1 DEF Pending
    <2> QED
      BY <1>1, <1>2, <2>2, CacheApart
  <1>3. CASE StoreDelete(c)
    <2>1. docs' = Drop(docs, key[c]) /\ key' = key /\ Advance(c, AfterDelete) /\ key[c] \in Keys
      BY <1>1, <1>3, StepKey DEF StoreDelete
    <2>2. pc[c] = "delete" /\ pc'[c] \in {"unlink", "invalidate"}
      BY <1>1, <1>3, <2>1, PcSet, Departures DEF AfterDelete
    <2> QED
      BY <1>1, <2>1, <2>2, CacheWrite
  <1>4. ASSUME NEW k, At(c, "store"), Wrote(c, k, doc[c]) PROVE CacheInv'
    <2>1. docs' = Put(docs, k, doc[c]) /\ key' = [key EXCEPT ![c] = k]
      BY <1>4 DEF Wrote
    <2>2. k \in Keys
      <3>1. StoreOK' /\ k \in DOMAIN docs'
        BY <1>1, <2>1, ClientType DEF TypeInv, Put
      <3> QED
        BY <3>1 DEF StoreOK
    <2>3. pc[c] = "store" /\ pc'[c] \in {"node", "invalidate"}
      BY <1>1, <1>4, PcSet DEF Wrote, At
    <2>4. key'[c] = k
      BY <1>1, <2>1, MainIsNoClient DEF LocalOK
    <2> QED
      BY <1>1, <2>1, <2>2, <2>3, <2>4, CacheWrite
  <1> QED
    BY <1>1, <1>2, <1>3, <1>4, ClientDocs

LEMMA CacheRegraph ==
    ASSUME TypeInv, Tables, CacheInv, NEW c \in Clients, Regraph(c) PROVE CacheInv'
  <1>1. LocalOK /\ Handle(c)
    BY Handles DEF TypeInv
  <1>2. CASE Relink(c)
    <2>1. /\ UNCHANGED <<docs, cache, spoiled, key>>
          /\ Advance(c, "edges") \/ Advance(c, "invalidate")
      BY <1>2, MainIsNoClient DEF Relink, UpdateNode, UpdateEdge, LinkNext, store, past
    <2>2. pc[c] \in {"node", "edges"} /\ pc'[c] \in {"edges", "invalidate"}
      BY <1>1, <1>2, <2>1, PcSet, Departures
    <2>3. \A e : Pending(e, c) => Pending(e, c)'
      BY <2>1, <2>2 DEF Pending
    <2> QED
      BY <1>1, <2>1, <2>3, CacheApart
  <1>3. CASE Unlinks(c)
    <2>1. UNCHANGED <<docs, cache, spoiled, key>> /\ pc'[c] = "invalidate"
      BY <1>1, <1>3, PcSet DEF Unlinks, Goto, local, store, past
    <2>2. \A e : Pending(e, c) => Pending(e, c)'
      BY <2>1 DEF Pending
    <2> QED
      BY <1>1, <2>1, <2>2, CacheApart
  <1>4. CASE GraphPanics(c)
    <2>1. UNCHANGED <<docs, cache>> /\ spoiled' = spoiled \cup Matching(DOMAIN cache, key[c][1])
      BY <1>4 DEF GraphPanics, Spoil, store, memory
    <2>2. \A e \in DOMAIN cache : Pending(e, c) => e \in spoiled'
      BY <2>1, OwnMatch DEF Pending
    <2> QED
      BY <1>1, <2>1, <2>2, CacheApart
  <1> QED
    BY <1>2, <1>3, <1>4 DEF Regraph

(* Entries that c takes out of the cache, and what is pending.             *)
LEMMA CacheRemove ==
    ASSUME TypeInv, Tables, CacheInv, NEW c \in Clients, Handle(c), NEW es,
           Evict(es), docs' = docs,
           \A e \in DOMAIN cache \ es : Pending(e, c) => Pending(e, c)'
    PROVE  CacheInv'
  <1> SUFFICES ASSUME NEW e \in DOMAIN cache \ es PROVE Covered(e)'
    BY DEF CacheInv, Evict, Without
  <1>1. cache'[e] = cache[e] /\ (e \in spoiled => e \in spoiled')
    BY DEF Evict, Without
  <1>2. CASE Current(docs, e, cache[e]) \/ e \in spoiled
    BY <1>1, <1>2 DEF Covered
  <1>3. CASE \E d \in Clients : Pending(e, d)
    BY <1>3, PendingOther DEF Covered
  <1> QED
    BY <1>2, <1>3 DEF CacheInv, Covered

LEMMA CacheClean ==
    ASSUME TypeInv, Tables, CacheInv, NEW c \in Clients, Clean(c) PROVE CacheInv'
  <1>1. LocalOK /\ Handle(c) /\ docs' = docs
    <2>1. docs' = docs
      BY DEF Clean, Invalidate, Scan, DeletePage, ScanFails, store
    <2> QED
      BY <2>1, Handles DEF TypeInv
  <1>2. CASE Invalidate(c)
    <2>1. Evict(Matching(DOMAIN cache, key[c][1]))
      BY <1>2 DEF Invalidate
    <2>2. \A e \in DOMAIN cache : Pending(e, c) => e \in Matching(DOMAIN cache, key[c][1])
      BY OwnMatch DEF Pending
    <2> QED
      BY <1>1, <2>1, <2>2, CacheRemove
  <1>3. CASE Scan(c)
    <2>1. /\ UNCHANGED <<cache, spoiled, key>> /\ Advance(c, "scan")
          /\ todo' = [todo EXCEPT ![c] = Matching(DOMAIN cache, key[c][1])]
      BY <1>3 DEF Scan, memory, past
    <2>2. pc'[c] = "scan" /\ todo'[c] = Matching(DOMAIN cache, key[c][1])
      BY <1>1, <2>1, PcSet, MainIsNoClient DEF Tables
    <2>3. \A e \in DOMAIN cache : Pending(e, c) => Pending(e, c)'
      BY <2>1, <2>2, OwnMatch DEF Pending
    <2> QED
      BY <1>1, <2>1, <2>3, CacheApart
  <1>4. CASE DeletePage(c)
    <2>1. PICK page :
             /\ Evict(page)
             /\ IF LeftAfter(c, page) = {} THEN Finish(c)
                ELSE /\ todo' = [todo EXCEPT ![c] = LeftAfter(c, page)]
                     /\ UNCHANGED <<pc, req, key, doc, answer, still>>
      BY <1>4 DEF DeletePage
    <2>2. pc[c] = "scan"
      BY <1>4, Departures
    <2>3. ASSUME NEW e \in DOMAIN cache \ page, Pending(e, c) PROVE Pending(e, c)'
      <3>1. e \in LeftAfter(c, page)
        BY <2>2, <2>3 DEF Pending, LeftAfter
      <3>2. todo'[c] = LeftAfter(c, page) /\ UNCHANGED <<pc, key>>
        BY <2>1, <3>1, MainIsNoClient DEF Tables
      <3> QED
        BY <2>2, <2>3, <3>1, <3>2 DEF Pending
    <2> QED
      BY <1>1, <2>1, <2>2, <2>3, CacheRemove
  <1>5. CASE ScanFails(c)
    <2>1. cache' = cache /\ spoiled' = spoiled \cup Matching(DOMAIN cache, key[c][1])
      BY <1>5 DEF ScanFails, Spoil, memory
    <2>2. \A e \in DOMAIN cache : Pending(e, c) => e \in spoiled'
      BY <2>1, OwnMatch DEF Pending
    <2> QED
      BY <1>1, <2>1, <2>2, CacheApart
  <1> QED
    BY <1>2, <1>3, <1>4, <1>5 DEF Clean

(* An answer goes into the cache current, or marked.                       *)
LEMMA CacheFill ==
    ASSUME TypeInv, Tables, CacheInv, ReadInv, NEW c \in Clients, Fill(c) PROVE CacheInv'
  <1> PICK x : x = EntryOf(c)
    OBVIOUS
  <1>1. /\ Handle(c) /\ docs' = docs /\ cache' = Put(cache, x, answer[c]) /\ pc[c] = "fill"
        /\ spoiled' = IF c \in still THEN spoiled \ {x} ELSE spoiled \cup {x}
    BY Handles DEF Fill, store, At
  <1>2. Covered(x)'
    <2>1. CASE c \in still
      <3>1. Answered(c)
        BY <1>1, <2>1 DEF ReadInv, StillInv, Merged
      <3>2. Current(docs', x, cache'[x])
        BY <1>1, <3>1 DEF Answered, Put
      <3> QED
        BY <3>2 DEF Covered
    <2>2. CASE c \notin still
      BY <1>1, <2>2 DEF Covered
    <2> QED
      BY <2>1, <2>2
  <1>3. ASSUME NEW e \in DOMAIN cache, e # x PROVE Covered(e)'
    <2>1. cache'[e] = cache[e] /\ (e \in spoiled => e \in spoiled')
      BY <1>1, <1>3 DEF Put
    <2>2. CASE Current(docs, e, cache[e]) \/ e \in spoiled
      BY <1>1, <2>1, <2>2 DEF Covered
    <2>3. CASE \E d \in Clients : Pending(e, d)
      <3>1. PICK d \in Clients : Pending(e, d)
        BY <2>3
      <3>2. d # c
        BY <1>1, <3>1 DEF Pending
      <3> QED
        BY <1>1, <3>1, <3>2, PendingOther DEF Covered
    <2> QED
      BY <1>3, <2>2, <2>3 DEF CacheInv, Covered
  <1>4. DOMAIN cache' = DOMAIN cache \cup {x}
    BY <1>1 DEF Put
  <1> QED
    BY <1>2, <1>3, <1>4 DEF CacheInv

LEMMA CacheClient ==
    ASSUME TypeInv, Tables, CacheInv, ReadInv, NEW c \in Clients, Receive(c) \/ Handle(c)
    PROVE  CacheInv'
  <1>1. CASE Receive(c) \/ Before(c) \/ (Query(c) /\ ~Fill(c))
    <2>1. UNCHANGED <<docs, cache, spoiled>>
      BY <1>1 DEF Receive, Before, Exists, PatchGet, Validate, PostSchema, Query, CacheGet,
                  StoreGet, EmbedOne, StoreList, FillFails, store, memory, past
    <2>2. pc[c] \in {"idle", "exists", "get", "validate", "schema", "cache", "embed", "list", "fill"}
      BY <1>1, Departures DEF Before, Query
    <2>3. \A e : ~Pending(e, c)
      BY <2>2 DEF Pending
    <2> QED
      BY <2>1, <2>3, CacheApart
  <1> QED
    BY <1>1, CacheStore, CacheBreak, CacheRegraph, CacheClean, CacheFill DEF Handle, Query

LEMMA CacheRest ==
    ASSUME TypeInv, Tables, CacheInv,
           SaveAtExit \/ LoadNext \/ Serve \/ Relink(Main) \/ (\E e : Expire(e)) \/ UNCHANGED vars
    PROVE  CacheInv'
  <1>1. \A e \in DOMAIN cache' : Covered(e) /\ cache'[e] = cache[e] => Covered(e)'
    BY OthersAlone DEF Covered, Pending, TypeInv
  <1>2. \A e \in DOMAIN cache' : e \in DOMAIN cache /\ cache'[e] = cache[e]
    <2>1. CASE \E e : Expire(e)
      BY <2>1 DEF Expire, Evict, Without
    <2>2. CASE ~\E e : Expire(e)
      BY <2>2 DEF SaveAtExit, LoadNext, Serve, Relink, UpdateNode, UpdateEdge, LinkNext, vars, memory
    <2> QED
      BY <2>1, <2>2
  <1> QED
    BY <1>1, <1>2 DEF CacheInv

LEMMA CacheRestart == ASSUME TypeInv, CacheInv, Restart PROVE CacheInv'
  <1> SUFFICES ASSUME NEW e \in DOMAIN cache' PROVE Covered(e)'
    BY DEF CacheInv
  <1>1. /\ docs' = docs
        /\ spoiled' = (spoiled \cup UNION {Matching(DOMAIN cache, key[c][1]) : c \in Unfinished})
                         \cap DOMAIN cache'
    BY DEF Restart, store
  <1>2. cache' = cache
    BY DEF Restart, EmptyMap
  <1>3. CASE Current(docs, e, cache[e]) \/ e \in spoiled
    BY <1>1, <1>2, <1>3 DEF Covered
  <1>4. ASSUME NEW c \in Clients, Pending(e, c) PROVE e \in spoiled'
    <2>1. c \in Unfinished /\ e \in Matching(DOMAIN cache, key[c][1])
      BY <1>2, <1>4, OwnMatch DEF Pending, Unfinished
    <2> QED
      BY <1>1, <2>1
  <1> QED
    BY <1>2, <1>3, <1>4 DEF CacheInv, Covered

LEMMA CacheStep == TypeInv /\ Tables /\ ReadInv /\ CacheInv /\ [Next]_vars => CacheInv'
  BY CacheClient, CacheRest, CacheRestart DEF Next, Process

LEMMA CacheInit == Init => CacheInv
  BY DEF Init, CacheInv, EmptyMap

(* A stale answer in the cache has a reason: a write of its type that has  *)
(* not invalidated it yet, or could not, or broke half-way, or overtook    *)
(* its reader; or a List that passed over a file for it.                   *)
THEOREM StaleAnswersHaveReasons == Spec => []StaleMeansOverlap
  BY TypeInit, TablesInit, ReadInit, CacheInit, TypeStep, TablesStep, ReadStep, CacheStep,
     StaleFollows, PTL DEF Spec
==============================================================================
