------------------------ MODULE SQLiteStoreRefinement ------------------------
(***************************************************************************)
(* SQLiteStore implements DocStore: a call takes effect at its Commit, its *)
(* query, or the statement that refuses it.                                *)
(***************************************************************************)
EXTENDS SQLiteStoreProofs

RInv == TypeOK /\ Control /\ Private /\ SeqBoundsIds

(* DocStore evaluates the same operators on the same constants.            *)
LEMMA SameNumbers ==
    /\ Abstract!MinInt = MinInt /\ Abstract!Overflow = Overflow /\ Abstract!Ids = Ids
    /\ \A a, b : Abstract!SqlMax(a, b) = SqlMax(a, b)
  BY DEF Abstract!MinInt, MinInt, Abstract!Overflow, Overflow, Abstract!Ids, Ids,
         Abstract!SqlMax, SqlMax

LEMMA SameDocuments ==
    /\ Abstract!EmptyDoc = EmptyDoc
    /\ \A t, k, v : Abstract!Put(t, k, v) = Put(t, k, v)
    /\ \A t, k : Abstract!Drop(t, k) = Drop(t, k)
    /\ \A d, p : Abstract!Merge(d, p) = Merge(d, p)
  BY DEF Abstract!EmptyDoc, EmptyDoc, Abstract!Put, Put, Abstract!Drop, Drop,
         Abstract!Merge, Merge

LEMMA SameEdges ==
    /\ \A k, d : Abstract!SyncEdges(k, d) = SyncEdges(k, d)
    /\ \A k, d : Abstract!RebuildEdges(k, d) = RebuildEdges(k, d)
    /\ \A rows : Abstract!Scans(rows) = Scans(rows)
    /\ \A es, k : Abstract!OutOf(es, k) = OutOf(es, k)
    /\ \A es, k : Abstract!Touching(es, k) = Touching(es, k)
  <1>1. Abstract!References = References
    BY SameNumbers DEF Abstract!References, References
  <1>2. \A d : Abstract!RefFields(d) = RefFields(d)
    BY <1>1 DEF Abstract!RefFields, RefFields
  <1>3. \A k, d, f : Abstract!Edge(k, d, f) = Edge(k, d, f)
    BY DEF Abstract!Edge, Edge
  <1> QED
    BY <1>2, <1>3 DEF Abstract!SyncEdges, SyncEdges, Abstract!RebuildEdges, RebuildEdges,
       Abstract!Scans, Scans, Abstract!OutOf, OutOf, Abstract!Touching, Touching

LEMMA SameReturns ==
    /\ \A s : Abstract!Ret(s) = Ret(s)
    /\ \A i : Abstract!RetId(i) = RetId(i)
    /\ \A o, ds, es : o.kind \in Readers => Abstract!Answer(o, ds, es) = Answer(o, ds, es)
  <1>1. /\ \A s : Abstract!Ret(s) = Ret(s)
        /\ \A i : Abstract!RetId(i) = RetId(i)
        /\ \A rs : Abstract!RetRows(rs) = RetRows(rs)
        /\ \A ds, k, f : Abstract!AsRow(ds, k, f) = AsRow(ds, k, f)
    BY DEF Abstract!Ret, Ret, Abstract!RetId, RetId, Abstract!RetRows, RetRows,
           Abstract!AsRow, AsRow
  <1>2. ASSUME NEW o, NEW ds, NEW es, o.kind \in Readers
        PROVE  Abstract!Answer(o, ds, es) = Answer(o, ds, es)
    <2>1. CASE o.kind = "get"
      BY <1>1, <2>1 DEF Abstract!Answer, Answer
    <2>2. CASE o.kind = "list"
      BY <1>1, <2>2 DEF Abstract!Answer, Answer
    <2>3. CASE o.kind = "out"
      BY <1>1, <2>3 DEF Abstract!Answer, Answer
    <2>4. CASE o.kind = "in"
      BY <1>1, <2>4 DEF Abstract!Answer, Answer
    <2> QED
      BY <1>2, <2>1, <2>2, <2>3, <2>4 DEF Readers
  <1> QED
    BY <1>1, <1>2

(* Steps that touch neither the tables nor what a caller sees.             *)
LEMMA Stutter ==
    ASSUME UNCHANGED <<db, call, ret>>
    PROVE  UNCHANGED Abstract!vars
  BY DEF Abstract!vars, Floor

LEMMA InitRefines == Init => Abstract!Init
  <1> SUFFICES ASSUME Init PROVE Abstract!Init
    OBVIOUS
  <1>1. /\ db.docs = [k \in {} |-> EmptyDoc] /\ db.edges = {}
        /\ db.seq = [t \in {} |-> 0]
    BY TablesFields DEF Init
  <1>2. Floor = [t \in Types |-> MinInt - 1]
    BY <1>1 DEF Floor
  <1> QED
    BY <1>1, <1>2, SameNumbers, SameDocuments DEF Init, Abstract!Init

(* What a commit does to the bound that Create counts from.                *)
LEMMA FloorOfPut ==
    ASSUME NEW t \in Types, NEW n, db'.seq = Put(db.seq, t, n)
    PROVE  Floor' = [Floor EXCEPT ![t] = n]
  BY DEF Floor, Put

LEMMA FloorKept == ASSUME db'.seq = db.seq PROVE Floor' = Floor
  BY DEF Floor

LEMMA CommitRefines ==
    ASSUME NoLastId, RInv, NEW c \in Clients, Commit(c)
    PROVE  Abstract!Do(c)
  <1>0. PICK seen \in Scans(DOMAIN DocsOf(c)) : db'.edges = EdgesOf(c, seen)
    BY CommitEffect DEF RInv
  <1>1. /\ db'.docs = DocsOf(c) /\ db'.edges = EdgesOf(c, seen) /\ db'.seq = SeqOf(c)
        /\ LocalInv(c) /\ ControlInv(c) /\ pc[c] = "commit"
    BY <1>0, CommitEffect DEF RInv, Private, Control, Commit
  <1>2. call[c] \in Ops /\ call[c].kind \notin Readers
    BY <1>1 DEF ControlInv, WriteSteps, InTx
  <1>3. /\ call[c].kind \in Kinds /\ call[c].key \in Keys
        /\ IsSeq(db.seq) /\ IsDocs(db.docs)
    BY <1>2, OpsType DEF RInv, TypeOK, IsTables
  <1>4. Abstract!Pending(c) /\ UNCHANGED call
    BY <1>1, <1>2, OpsAreCalls DEF Abstract!Pending, ControlInv, Commit
  <1>5. ret' = [ret EXCEPT ![c] = IF call[c].kind = "create"
                                  THEN RetId(key[c][2]) ELSE Ret("ok")]
    BY DEF Commit, Return
  <1>6. CASE call[c].kind = "create"
    <2> DEFINE t == call[c].key[1]
               n == NextId(db.seq, t)
    <2>1. key[c] = <<t, n>> /\ data[c] = call[c].data /\ n # Overflow
      BY <1>1, <1>6 DEF LocalInv, Late
    <2>2. t \in Types
      BY <1>3 DEF Keys
    <2>3. n \in Ids /\ n \in n .. Overflow
      BY <1>3, <2>1, <2>2, SeqType, IdBounds DEF Ids
    <2>4. n > Floor[t]
      <3>1. CASE t \in DOMAIN db.seq
        BY <1>3, <2>1, <2>2, <3>1, NextIdGrows DEF Floor
      <3>2. CASE t \notin DOMAIN db.seq
        BY <2>2, <2>3, <3>2, IdBounds DEF Floor, Ids
      <3> QED
        BY <3>1, <3>2
    <2>5. Abstract!Write(<<t, n>>, call[c].data)
      BY <1>1, <1>6, <2>1, SameDocuments, SameEdges DEF Abstract!Write, DocsOf, EdgesOf, Wiped, Linked
    <2>6. Floor' = [Floor EXCEPT ![t] = n]
      BY <1>1, <1>6, <2>1, <2>2, FloorOfPut DEF SeqOf
    <2>7. Abstract!Reply(c, RetId(n))
      BY <1>4, <1>5, <1>6, <2>1 DEF Abstract!Reply
    <2> HIDE DEF n
    <2> QED
      BY <1>4, <1>6, <2>3, <2>4, <2>5, <2>6, <2>7, SameNumbers, SameReturns
         DEF Abstract!DoCreate, Abstract!Do
  <1>7. CASE call[c].kind = "save"
    <2> DEFINE k == call[c].key
               n == SavedSeq(db.seq, k[1], k[2])
    <2>1. key[c] = k /\ data[c] = call[c].data /\ k \notin DOMAIN db.docs
      BY <1>1, <1>7 DEF LocalInv, Late, InTx
    <2>2. k[1] \in Types /\ k[2] \in Ids /\ k[2] # MaxInt
      BY <1>2, <1>3, <1>7 DEF Keys, NoLastId
    <2>3. /\ n \in MinInt .. Overflow /\ n >= k[2]
          /\ k[1] \in DOMAIN db.seq => n >= db.seq[k[1]]
      BY <1>3, <2>2, SeqType, SavedSeqGrows
    <2>4. n \in SqlMax(Floor[k[1]], k[2]) .. Overflow
      <3>1. n >= Floor[k[1]] /\ Floor[k[1]] \in Int
        BY <1>3, <2>2, <2>3, IdBounds DEF Floor, IsSeq
      <3> QED
        BY <2>2, <2>3, <3>1, IdBounds DEF SqlMax, Ids
    <2>5. Abstract!Write(k, call[c].data)
      BY <1>1, <1>7, <2>1, SameDocuments, SameEdges DEF Abstract!Write, DocsOf, EdgesOf, Wiped, Linked
    <2>6. Floor' = [Floor EXCEPT ![k[1]] = n]
      BY <1>1, <1>7, <2>1, <2>2, FloorOfPut DEF SeqOf
    <2>7. Abstract!Reply(c, Ret("ok"))
      BY <1>4, <1>5, <1>7 DEF Abstract!Reply
    <2> HIDE DEF n
    <2> QED
      BY <1>4, <1>7, <2>1, <2>4, <2>5, <2>6, <2>7, SameNumbers, SameReturns
         DEF Abstract!DoSave, Abstract!Do
  <1>8. CASE call[c].kind \in {"update", "patch"}
    <2> DEFINE k == call[c].key
               d == IF call[c].kind = "patch" THEN Merge(db.docs[k], call[c].data)
                                              ELSE call[c].data
    <2>1. key[c] = k /\ data[c] = d /\ k \in DOMAIN db.docs
      BY <1>1, <1>8 DEF LocalInv, Late
    <2>2. Abstract!Write(k, d)
      BY <1>1, <1>8, <2>1, SameDocuments, SameEdges DEF Abstract!Write, DocsOf, EdgesOf, Wiped, Linked
    <2>3. Floor' = Floor
      BY <1>1, <1>8, FloorKept DEF SeqOf
    <2>4. Abstract!Reply(c, Ret("ok"))
      BY <1>4, <1>5, <1>8 DEF Abstract!Reply
    <2> QED
      BY <1>4, <1>8, <2>1, <2>2, <2>3, <2>4, SameDocuments, SameReturns
         DEF Abstract!DoUpdate, Abstract!Do
  <1>9. CASE call[c].kind = "delete"
    <2>1. key[c] = call[c].key /\ key[c] \in DOMAIN db.docs
      BY <1>1, <1>9 DEF LocalInv, Late
    <2>2. db'.docs = Drop(db.docs, key[c]) /\ db'.edges = db.edges \ Touching(db.edges, key[c])
      BY <1>1, <1>9 DEF DocsOf, EdgesOf, Wiped
    <2>3. Floor' = Floor
      BY <1>1, <1>9, FloorKept DEF SeqOf
    <2>4. Abstract!Reply(c, Ret("ok"))
      BY <1>4, <1>5, <1>9 DEF Abstract!Reply
    <2> QED
      BY <1>4, <1>9, <2>1, <2>2, <2>3, <2>4, SameDocuments, SameEdges, SameReturns
         DEF Abstract!DoDelete, Abstract!Do
  <1>10. CASE call[c].kind = "rebuild"
    <2>1. /\ db'.docs = db.docs
          /\ db'.edges = UNION {RebuildEdges(k, db.docs[k]) : k \in seen}
          /\ seen \in Scans(DOMAIN db.docs)
      BY <1>0, <1>1, <1>10 DEF DocsOf, EdgesOf, Wiped, Linked
    <2>2. Floor' = Floor
      BY <1>1, <1>10, FloorKept DEF SeqOf
    <2>3. Abstract!Reply(c, Ret("ok"))
      BY <1>4, <1>5, <1>10 DEF Abstract!Reply
    <2> QED
      BY <1>4, <1>10, <2>1, <2>2, <2>3, SameEdges, SameReturns
         DEF Abstract!DoRebuild, Abstract!Do
  <1> QED
    BY <1>2, <1>3, <1>6, <1>7, <1>8, <1>9, <1>10 DEF Kinds, Readers

(* A call refused because of what the tables hold.                         *)
LEMMA RefusalRefines ==
    ASSUME RInv, NEW c \in Clients, UNCHANGED <<db, call>>,
           \/ /\ pc[c] = "check" /\ key[c] \in DOMAIN db.docs
              /\ ret' = [ret EXCEPT ![c] = Ret("exists")]
           \/ /\ pc[c] = "merge" \/ (pc[c] = "row" /\ call[c].kind \in {"update", "patch", "delete"})
              /\ key[c] \notin DOMAIN tx[c].docs
              /\ ret' = [ret EXCEPT ![c] = Ret("notfound")]
    PROVE  Abstract!Do(c)
  <1>1. ControlInv(c) /\ LocalInv(c) /\ TxInv(c)
    BY DEF RInv, Control, Private
  <1>2. call[c] \in Ops
    BY <1>1 DEF ControlInv
  <1>3. Abstract!Pending(c)
    BY <1>1, <1>2, OpsAreCalls DEF Abstract!Pending, ControlInv
  <1>4. UNCHANGED <<db.docs, db.edges, Floor>>
    BY FloorKept
  <1>5. CASE pc[c] = "check"
    <2>1. call[c].kind = "save" /\ key[c] = call[c].key
      BY <1>1, <1>5 DEF ControlInv, LocalInv, Early
    <2> QED
      BY <1>3, <1>4, <1>5, <2>1, SameReturns
         DEF Abstract!Do, Abstract!DoSave, Abstract!Reply, Abstract!store
  <1>6. CASE pc[c] \in {"merge", "row"}
    <2>1. call[c].kind \in {"update", "patch", "delete"} /\ key[c] = call[c].key
      BY <1>1, <1>6 DEF ControlInv, LocalInv, Early, Late
    <2>2. tx[c].docs = db.docs
      BY <1>1, <1>6, TablesFields DEF TxInv
    <2> QED
      BY <1>3, <1>4, <1>6, <2>1, <2>2, SameReturns
         DEF Abstract!Do, Abstract!DoUpdate, Abstract!DoDelete, Abstract!Reply,
             Abstract!store
  <1> QED
    BY <1>5, <1>6

LEMMA StepRefines == NoLastId /\ RInv /\ [Next]_vars => [Abstract!Next]_(Abstract!vars)
  <1> SUFFICES ASSUME NoLastId, RInv, [Next]_vars
               PROVE  Abstract!Next \/ UNCHANGED Abstract!vars
    OBVIOUS
  <1> USE DEF Abstract!Next
  <1>s. ASSUME UNCHANGED <<db, call, ret>> PROVE UNCHANGED Abstract!vars
    BY <1>s, Stutter
  <1>1. ASSUME NEW c \in Clients, Call(c) PROVE Abstract!Next
    <2>1. call[c] = NoOp
      BY <1>1 DEF Call, RInv, Control, ControlInv
    <2>2. UNCHANGED <<db.docs, db.edges, Floor, ret>>
      BY <1>1, FloorKept DEF Call
    <2> QED
      BY <1>1, <2>1, <2>2 DEF Call, Abstract!Invoke
  <1>2. ASSUME NEW c \in Clients,
               \/ Lock(c) \/ RLock(c) \/ Begin(c) \/ NextID(c) \/ BumpSequence(c)
               \/ InsertRow(c) \/ WipeEdges(c) \/ LinkEdges(c) \/ Rollback(c)
        PROVE  UNCHANGED Abstract!vars
    BY <1>2, <1>s DEF Lock, RLock, Begin, NextID, BumpSequence, InsertRow, WipeEdges,
                      LinkEdges, Rollback, locals
  <1>3. ASSUME NEW c \in Clients, CheckExists(c) \/ ReadAndMerge(c) \/ UpdateRow(c) \/ DeleteRow(c)
        PROVE  Abstract!Do(c) \/ UNCHANGED Abstract!vars
    BY <1>3, <1>s, RefusalRefines
       DEF CheckExists, ReadAndMerge, UpdateRow, DeleteRow, Return
  <1>4. ASSUME NEW c \in Clients, Commit(c) PROVE Abstract!Do(c)
    BY <1>4, CommitRefines
  <1>5. ASSUME NEW c \in Clients, Read(c) \/ Fail(c) PROVE Abstract!Do(c)
    <2>1. call[c] \in Ops /\ ret[c] = NoRet
      BY <1>5 DEF Read, Fail, RInv, Control, ControlInv, InTx
    <2>2. Abstract!Pending(c)
      BY <2>1, OpsAreCalls DEF Abstract!Pending
    <2>3. UNCHANGED <<db.docs, db.edges, Floor, call>>
      BY <1>5, FloorKept DEF Read, Fail
    <2>4. CASE Read(c)
      <3>1. call[c].kind \in Readers
        BY <2>4 DEF Read, RInv, Control, ControlInv
      <3>2. Abstract!Answer(call[c], db.docs, db.edges) = Answer(call[c], db.docs, db.edges)
        BY <3>1, SameReturns
      <3>3. Abstract!Reply(c, Abstract!Answer(call[c], db.docs, db.edges))
        BY <2>3, <2>4, <3>2 DEF Read, Return, Abstract!Reply
      <3> QED
        BY <2>2, <2>3, <3>1, <3>3
           DEF Readers, Abstract!Do, Abstract!DoRead, Abstract!store
    <2>5. CASE Fail(c)
      BY <2>2, <2>3, <2>5, SameReturns
         DEF Fail, Return, Abstract!Do, Abstract!Fail, Abstract!Reply, Abstract!store
    <2> QED
      BY <1>5, <2>4, <2>5
  <1>6. ASSUME NEW c \in Clients, Unlock(c) PROVE Abstract!Next
    <2>1. ret[c] # NoRet
      BY <1>6 DEF Unlock, RInv, Control, ControlInv
    <2>2. UNCHANGED <<db.docs, db.edges, Floor>>
      BY <1>6, FloorKept DEF Unlock
    <2> QED
      BY <1>6, <2>1, <2>2 DEF Unlock, Abstract!Return, Abstract!store
  <1>7. ASSUME Crash PROVE Abstract!Next
    <2>1. UNCHANGED <<db.docs, db.edges, Floor>>
      BY <1>7, FloorKept DEF Crash
    <2> QED
      BY <1>7, <2>1 DEF Crash, Abstract!Crash, Abstract!store
  <1>8. ASSUME NEW a \in Auditors, QueryEntities(a) \/ QueryEdges(a)
        PROVE  UNCHANGED Abstract!vars
    BY <1>8, <1>s DEF QueryEntities, QueryEdges, locals
  <1>9. ASSUME UNCHANGED vars PROVE UNCHANGED Abstract!vars
    BY <1>9, <1>s DEF vars, locals
  <1> QED
    BY <1>1, <1>2, <1>3, <1>4, <1>5, <1>6, <1>7, <1>8, <1>9
       DEF Next, Acquire, Proceed, Statement

(* SQLiteStore is linearizable: unless Save brings the largest integer,    *)
(* callers cannot tell it from DocStore, where each call is one atomic     *)
(* step or an error without effect and ids only ever grow.                 *)
THEOREM ImplementsDocStore == NoLastId => (Spec => IsDocStore)
  <1> SUFFICES ASSUME NoLastId PROVE Spec => Abstract!Spec
    BY DEF IsDocStore
  <1>1. Init => RInv
    <2>1. Init => SeqBoundsIds
      BY TablesFields DEF Init, SeqBoundsIds
    <2> QED
      BY <2>1, TypeInit, ControlInit, PrivateInit DEF RInv
  <1>2. RInv /\ [Next]_vars => RInv'
    BY TypeStep, ControlStep, PrivateStep, SeqBoundsIdsStep DEF RInv
  <1>3. RInv /\ [Next]_vars => [Abstract!Next]_(Abstract!vars)
    BY StepRefines
  <1> QED
    BY <1>1, <1>2, <1>3, InitRefines, PTL DEF Spec, Abstract!Spec
==============================================================================
