----------------------------- MODULE SQLiteStore -----------------------------
(***************************************************************************)
(* pkg/storage/sqlite.go.  A call takes the store's RWMutex, a writer then *)
(* works on its own transaction, statement by statement, and commits it.   *)
(* Any statement of a transaction can fail (the database, a cancelled      *)
(* context, a violated primary key); the deferred Rollback and Unlock then *)
(* run, in that order.  VerifyGraphIntegrity takes no lock.                *)
(***************************************************************************)
EXTENDS StoreCalls

CONSTANTS
    Auditors,   \* goroutines that run VerifyGraphIntegrity
    NoTx,       \* no transaction open
    NoClient    \* nobody holds the write lock

ASSUME NoClientIsNone == NoClient \notin Clients

VARIABLES
    db,         \* the committed tables: entities, graph_edges, entity_sequences
    tx,         \* per client, the tables as its open transaction sees them
    writer,     \* holder of mu.Lock
    readers,    \* holders of mu.RLock
    pc,         \* per client, the next statement
    call,       \* per client, the call in progress
    key,        \* per client, the entity and id the call works on
    data,       \* per client, dataCopy, or the merged document of Patch
    ret,        \* per client, the return value once it is decided
    audit       \* per auditor, its next query, the edges it expects, the verdict

locks == <<writer, readers>>
locals == <<call, key, data, ret>>
vars == <<db, tx, locks, pc, locals, audit>>

Steps == {"idle", "lock", "check", "begin", "seq", "merge", "row", "wipe",
          "link", "commit", "read", "rollback", "unlock"}

InTx == {"seq", "merge", "row", "wipe", "link", "commit"}

WriteSteps == {"check", "begin", "rollback"} \cup InTx

Readers == {"get", "list", "out", "in"}

Tables(ds, es, sq) == [docs |-> ds, edges |-> es, seq |-> sq]

IsDocs(ds) == DOMAIN ds \subseteq Keys /\ ds \in [DOMAIN ds -> Documents]

IsSeq(sq) == DOMAIN sq \subseteq Types /\ sq \in [DOMAIN sq -> MinInt .. Overflow]

IsTables(x) == /\ x = Tables(x.docs, x.edges, x.seq)
               /\ IsDocs(x.docs) /\ x.edges \subseteq Edges /\ IsSeq(x.seq)

TypeOK ==
    /\ IsTables(db)
    /\ tx = [c \in Clients |-> tx[c]]
    /\ \A c \in Clients : pc[c] \in InTx => IsTables(tx[c])
    /\ writer \in Clients \cup {NoClient}
    /\ readers \subseteq Clients
    /\ pc \in [Clients -> Steps]
    /\ call \in [Clients -> Ops \cup {NoOp}]
    /\ key \in [Clients -> Keys]
    /\ data \in [Clients -> Documents]
    /\ ret \in [Clients -> Returns \cup {NoRet}]
    /\ audit \in [Auditors -> [at : {"idle", "edges"}, expects : SUBSET Edges,
                               verdict : {"ok", "missing", "unexpected"}]]

AnyKey == CHOOSE k \in Keys : TRUE

Init ==
    /\ db = Tables([k \in {} |-> EmptyDoc], {}, [t \in {} |-> 0])
    /\ tx = [c \in Clients |-> NoTx]
    /\ writer = NoClient
    /\ readers = {}
    /\ pc = [c \in Clients |-> "idle"]
    /\ call = [c \in Clients |-> NoOp]
    /\ key = [c \in Clients |-> AnyKey]
    /\ data = [c \in Clients |-> EmptyDoc]
    /\ ret = [c \in Clients |-> NoRet]
    /\ audit = [a \in Auditors |-> [at |-> "idle", expects |-> {}, verdict |-> "ok"]]

Goto(c, l) == pc' = [pc EXCEPT ![c] = l]

Return(c, r, l) == ret' = [ret EXCEPT ![c] = r] /\ Goto(c, l)

(***************************************************************************)
(* Entering and leaving a call.                                            *)
(***************************************************************************)
Call(c) ==
    /\ pc[c] = "idle"
    /\ \E o \in Ops : /\ call' = [call EXCEPT ![c] = o]
                      /\ key' = [key EXCEPT ![c] = o.key]
                      /\ data' = [data EXCEPT ![c] = o.data]
    /\ Goto(c, "lock")
    /\ UNCHANGED <<db, tx, locks, ret, audit>>

(* Fault: the write lock keeps nobody out.                                 *)
LockShared(c) ==
    /\ pc[c] = "lock" /\ call[c].kind \notin Readers
    /\ writer' = c
    /\ Goto(c, IF call[c].kind = "save" THEN "check" ELSE "begin")
    /\ UNCHANGED <<db, tx, readers, locals, audit>>

Lock(c) ==
    /\ pc[c] = "lock" /\ call[c].kind \notin Readers
    /\ writer = NoClient /\ readers = {}
    /\ writer' = c
    /\ Goto(c, IF call[c].kind = "save" THEN "check" ELSE "begin")
    /\ UNCHANGED <<db, tx, readers, locals, audit>>

RLock(c) ==
    /\ pc[c] = "lock" /\ call[c].kind \in Readers
    /\ writer = NoClient
    /\ readers' = readers \cup {c}
    /\ Goto(c, "read")
    /\ UNCHANGED <<db, tx, writer, locals, audit>>

(* The deferred tx.Rollback of a call that returns without committing.     *)
Rollback(c) ==
    /\ pc[c] = "rollback"
    /\ tx' = [tx EXCEPT ![c] = NoTx]
    /\ Goto(c, "unlock")
    /\ UNCHANGED <<db, locks, locals, audit>>

(* Fault: a method without the deferred RUnlock.                           *)
UnlockWriters(c) ==
    /\ pc[c] = "unlock"
    /\ writer' = IF writer = c THEN NoClient ELSE writer
    /\ call' = [call EXCEPT ![c] = NoOp]
    /\ ret' = [ret EXCEPT ![c] = NoRet]
    /\ key' = [key EXCEPT ![c] = AnyKey]
    /\ data' = [data EXCEPT ![c] = EmptyDoc]
    /\ Goto(c, "idle")
    /\ UNCHANGED <<db, tx, readers, audit>>

(* The deferred mu.Unlock or mu.RUnlock, and the return to the caller.     *)
Unlock(c) ==
    /\ pc[c] = "unlock"
    /\ writer' = IF writer = c THEN NoClient ELSE writer
    /\ readers' = readers \ {c}
    /\ call' = [call EXCEPT ![c] = NoOp]
    /\ ret' = [ret EXCEPT ![c] = NoRet]
    /\ key' = [key EXCEPT ![c] = AnyKey]
    /\ data' = [data EXCEPT ![c] = EmptyDoc]
    /\ Goto(c, "idle")
    /\ UNCHANGED <<db, tx, audit>>

(* A statement returns an error: the driver's, or the context's, which is  *)
(* cancelled when the HTTP request is.                                     *)
Fail(c) ==
    /\ pc[c] \in {"check", "begin", "read"} \cup InTx
    /\ Return(c, Ret("error"), IF pc[c] \in InTx THEN "rollback" ELSE "unlock")
    /\ UNCHANGED <<db, tx, locks, call, key, data, audit>>

(***************************************************************************)
(* The statements.                                                         *)
(***************************************************************************)
CheckExists(c) ==
    /\ pc[c] = "check"
    /\ IF key[c] \in DOMAIN db.docs
       THEN Return(c, Ret("exists"), "unlock")
       ELSE Goto(c, "begin") /\ UNCHANGED ret
    /\ UNCHANGED <<db, tx, locks, call, key, data, audit>>

FirstStatement == [create |-> "seq", save |-> "seq", update |-> "row",
                   delete |-> "row", patch |-> "merge", rebuild |-> "wipe"]

Begin(c) ==
    /\ pc[c] = "begin"
    /\ tx' = [tx EXCEPT ![c] = db]
    /\ Goto(c, FirstStatement[call[c].kind])
    /\ UNCHANGED <<db, locks, locals, audit>>

(* Fault: RETURNING answers with the value before the increment.           *)
NextIdBefore(seq, t) == IF t \in DOMAIN seq THEN seq[t] ELSE 1

(* INSERT ... VALUES (?, 1) ON CONFLICT ... next_id + 1 RETURNING next_id.  *)
NextId(seq, t) == IF t \in DOMAIN seq THEN SqlSucc(seq[t]) ELSE 1

(* Fault: ON CONFLICT DO NOTHING.                                          *)
SavedSeqOnce(seq, t, id) == IF t \in DOMAIN seq THEN seq[t] ELSE GoSucc(id)

(* The sequence row written by Save, id + 1 being computed in Go.          *)
SavedSeq(seq, t, id) ==
    IF t \in DOMAIN seq THEN SqlMax(seq[t], SqlSucc(GoSucc(id))) ELSE GoSucc(id)

(* Fault: NextID takes whatever number the row holds.                      *)
NextIDUnscanned(c) ==
    /\ pc[c] = "seq" /\ call[c].kind = "create"
    /\ LET t == key[c][1]
           n == NextId(tx[c].seq, t)
       IN /\ tx' = [tx EXCEPT ![c] = Tables(@.docs, @.edges, Put(@.seq, t, n))]
          /\ key' = [key EXCEPT ![c] = <<t, n>>]
    /\ Goto(c, "row")
    /\ UNCHANGED <<db, locks, call, data, ret, audit>>

(* Scan refuses the REAL that next_id becomes past the largest integer, so *)
(* that Create then only fails.                                            *)
NextID(c) ==
    /\ pc[c] = "seq" /\ call[c].kind = "create"
    /\ LET t == key[c][1]
           n == NextId(tx[c].seq, t)
       IN /\ n # Overflow
          /\ tx' = [tx EXCEPT ![c] = Tables(@.docs, @.edges, Put(@.seq, t, n))]
          /\ key' = [key EXCEPT ![c] = <<t, n>>]
    /\ Goto(c, "row")
    /\ UNCHANGED <<db, locks, call, data, ret, audit>>

BumpSequence(c) ==
    /\ pc[c] = "seq" /\ call[c].kind = "save"
    /\ LET t == key[c][1] IN
       tx' = [tx EXCEPT ![c] = Tables(@.docs, @.edges,
                                      Put(@.seq, t, SavedSeq(@.seq, t, key[c][2])))]
    /\ Goto(c, "row")
    /\ UNCHANGED <<db, locks, locals, audit>>

(* Patch reads the document inside its transaction and merges.             *)
ReadAndMerge(c) ==
    /\ pc[c] = "merge"
    /\ IF key[c] \in DOMAIN tx[c].docs
       THEN /\ data' = [data EXCEPT ![c] = Merge(tx[c].docs[key[c]], @)]
            /\ Goto(c, "row") /\ UNCHANGED ret
       ELSE Return(c, Ret("notfound"), "rollback") /\ UNCHANGED data
    /\ UNCHANGED <<db, tx, locks, call, key, audit>>

(* The primary key refuses a second row; Create and Save then only fail.   *)
InsertRow(c) ==
    /\ pc[c] = "row" /\ call[c].kind \in {"create", "save"}
    /\ key[c] \notin DOMAIN tx[c].docs
    /\ tx' = [tx EXCEPT ![c] = Tables(Put(@.docs, key[c], data[c]), @.edges, @.seq)]
    /\ Goto(c, "wipe")
    /\ UNCHANGED <<db, locks, locals, audit>>

(* Fault: an upsert, which never affects zero rows.                        *)
UpsertRow(c) ==
    /\ pc[c] = "row" /\ call[c].kind \in {"update", "patch"}
    /\ tx' = [tx EXCEPT ![c] = Tables(Put(@.docs, key[c], data[c]), @.edges, @.seq)]
    /\ Goto(c, "wipe")
    /\ UNCHANGED <<db, locks, locals, audit>>

UpdateRow(c) ==
    /\ pc[c] = "row" /\ call[c].kind \in {"update", "patch"}
    /\ IF key[c] \in DOMAIN tx[c].docs
       THEN /\ tx' = [tx EXCEPT ![c] = Tables(Put(@.docs, key[c], data[c]), @.edges, @.seq)]
            /\ Goto(c, "wipe") /\ UNCHANGED ret
       ELSE Return(c, Ret("notfound"), "rollback") /\ UNCHANGED tx
    /\ UNCHANGED <<db, locks, call, key, data, audit>>

DeleteRow(c) ==
    /\ pc[c] = "row" /\ call[c].kind = "delete"
    /\ IF key[c] \in DOMAIN tx[c].docs
       THEN /\ tx' = [tx EXCEPT ![c] = Tables(Drop(@.docs, key[c]), @.edges, @.seq)]
            /\ Goto(c, "wipe") /\ UNCHANGED ret
       ELSE Return(c, Ret("notfound"), "rollback") /\ UNCHANGED tx
    /\ UNCHANGED <<db, locks, call, key, data, audit>>

(* Fault: no DELETE before the INSERTs; a DELETE by target as well.         *)
WipedNothing(o, k, es) == {}
WipedTouching(o, k, es) == IF o.kind = "rebuild" THEN es ELSE Touching(es, k)

(* DELETE FROM graph_edges: the document's rows, those that touch it when  *)
(* it is deleted, all of them in RebuildGraph.                             *)
Wiped(o, k, es) == IF o.kind = "rebuild" THEN es
                   ELSE IF o.kind = "delete" THEN Touching(es, k)
                   ELSE OutOf(es, k)

WipeEdges(c) ==
    /\ pc[c] = "wipe"
    /\ tx' = [tx EXCEPT ![c] = Tables(@.docs, @.edges \ Wiped(call[c], key[c], @.edges), @.seq)]
    /\ Goto(c, IF call[c].kind = "delete" THEN "commit" ELSE "link")
    /\ UNCHANGED <<db, locks, locals, audit>>

(* The INSERTs of syncGraphEdges or RebuildGraph, seen by nobody else.      *)
(* RebuildGraph commits what its cursor saw of the documents.              *)
Linked(o, k, d, ds, seen) ==
    IF o.kind = "rebuild" THEN UNION {RebuildEdges(j, ds[j]) : j \in seen}
                          ELSE SyncEdges(k, d)

LinkEdges(c) ==
    /\ pc[c] = "link"
    /\ \E seen \in Scans(DOMAIN tx[c].docs) :
         tx' = [tx EXCEPT ![c] =
                  Tables(@.docs,
                         @.edges \cup Linked(call[c], key[c], data[c], @.docs, seen), @.seq)]
    /\ Goto(c, "commit")
    /\ UNCHANGED <<db, locks, locals, audit>>

Commit(c) ==
    /\ pc[c] = "commit"
    /\ db' = tx[c]
    /\ tx' = [tx EXCEPT ![c] = NoTx]
    /\ Return(c, IF call[c].kind = "create" THEN RetId(key[c][2]) ELSE Ret("ok"),
              "unlock")
    /\ UNCHANGED <<locks, call, key, data, audit>>

(* Get, List and GetNeighbors in both directions: one query each.          *)
Read(c) ==
    /\ pc[c] = "read"
    /\ Return(c, Answer(call[c], db.docs, db.edges), "unlock")
    /\ UNCHANGED <<db, tx, locks, call, key, data, audit>>

(***************************************************************************)
(* VerifyGraphIntegrity: two queries, each on the tables committed when it *)
(* runs, neither asked whether its cursor reached the end.                 *)
(***************************************************************************)
ExpectedOf(ds, seen) == UNION {VerifyEdges(k, ds[k]) : k \in seen}
Expected(ds) == ExpectedOf(ds, DOMAIN ds)

QueryEntities(a) ==
    /\ audit[a].at = "idle"
    /\ \E seen \in Scans(DOMAIN db.docs) :
         audit' = [audit EXCEPT ![a] =
                      [at |-> "edges", expects |-> ExpectedOf(db.docs, seen), verdict |-> "ok"]]
    /\ UNCHANGED <<db, tx, locks, pc, locals>>

Verdict(es, actual) == IF ~(es \subseteq actual) THEN "missing"
                       ELSE IF ~(actual \subseteq es) THEN "unexpected" ELSE "ok"

QueryEdges(a) ==
    /\ audit[a].at = "edges"
    /\ \E actual \in Scans(db.edges) :
         audit' = [audit EXCEPT ![a] =
                      [at |-> "idle", expects |-> {},
                       verdict |-> Verdict(audit[a].expects, actual)]]
    /\ UNCHANGED <<db, tx, locks, pc, locals>>

(* The process stops and NewSQLiteStore opens the file again: transactions *)
(* that did not commit are gone.                                           *)
Crash ==
    /\ tx' = [c \in Clients |-> NoTx]
    /\ writer' = NoClient
    /\ readers' = {}
    /\ pc' = [c \in Clients |-> "idle"]
    /\ call' = [c \in Clients |-> NoOp]
    /\ key' = [c \in Clients |-> AnyKey]
    /\ data' = [c \in Clients |-> EmptyDoc]
    /\ ret' = [c \in Clients |-> NoRet]
    /\ audit' = [a \in Auditors |-> [at |-> "idle", expects |-> {}, verdict |-> "ok"]]
    /\ UNCHANGED db

Acquire(c) == Lock(c) \/ RLock(c)

Statement(c) ==
    \/ CheckExists(c) \/ Begin(c) \/ NextID(c) \/ BumpSequence(c)
    \/ ReadAndMerge(c) \/ InsertRow(c) \/ UpdateRow(c) \/ DeleteRow(c)
    \/ WipeEdges(c) \/ LinkEdges(c) \/ Commit(c) \/ Read(c)

Proceed(c) == Statement(c) \/ Fail(c) \/ Rollback(c) \/ Unlock(c)

Next == \/ \E c \in Clients : Call(c) \/ Acquire(c) \/ Proceed(c)
        \/ \E a \in Auditors : QueryEntities(a) \/ QueryEdges(a)
        \/ Crash

Spec == Init /\ [][Next]_vars

(* A goroutine inside a call keeps running, and Go's RWMutex starves nobody *)
(* who waits for it: SF on the acquisition.                                *)
Fairness == \A c \in Clients : SF_vars(Acquire(c)) /\ WF_vars(Proceed(c))

FairSpec == Spec /\ Fairness

(***************************************************************************)
(* What it promises.                                                       *)
(***************************************************************************)

(* Nothing of a write runs beside another write or a query of the store,   *)
(* and whichever way a method returns, nothing of its lock is left to keep *)
(* others out: who is in no call, or waits for a lock, holds none.         *)
LocksAreHeld ==
    /\ writer = NoClient \/ readers = {}
    /\ \A c \in Clients : /\ pc[c] \in WriteSteps => writer = c
                          /\ pc[c] = "read" => c \in readers
                          /\ pc[c] \in {"idle", "lock"} => writer # c /\ c \notin readers

(* Every row of graph_edges is a REF field its source document still has:  *)
(* an edge outlives neither the field nor the document (Update, Patch and  *)
(* Delete replace or remove the rows together with the document).          *)
EdgesSound ==
    \A e \in db.edges : /\ e.src \in DOMAIN db.docs
                         /\ e \in SyncEdges(e.src, db.docs[e.src])

(* The sequence row of a type is at or above every id stored under it,     *)
(* whether Create counted it or Save brought it.                           *)
SeqBoundsIds ==
    \A k \in DOMAIN db.docs : k[1] \in DOMAIN db.seq /\ k[2] <= db.seq[k[1]]

(* The id Create takes from the sequence never meets a row at its INSERT,  *)
(* although Save puts rows at ids the sequence did not hand out.           *)
FreshIdIsFree ==
    \A c \in Clients : pc[c] = "row" /\ call[c].kind = "create"
                           => key[c] \notin DOMAIN tx[c].docs

(* Create's ids are new, whatever ids Save brings in between.              *)
IdsAreFresh == SeqBoundsIds /\ FreshIdIsFree

(* Between two stored documents every REF field has its edge.  Delete drops *)
(* the rows of fields that still name the deleted document, which can only *)
(* stay harmless while no id is ever used twice.                           *)
LiveLinksPresent ==
    \A k \in DOMAIN db.docs : \A e \in SyncEdges(k, db.docs[k]) :
        e.dst \in DOMAIN db.docs => e \in db.edges

(* The tables agree on the graph in every committed state, as              *)
(* VerifyGraphIntegrity compares them.                                     *)
GraphMatchesDocs == db.edges = Expected(db.docs)

(* VerifyGraphIntegrity complains of a store whose writes keep the graph   *)
(* in step only when a write committed between its two queries, or of the  *)
(* missing edge of a field that names a deleted document.                  *)
AlarmMeansRace ==
    [][\A a \in Auditors :
          QueryEdges(a) /\ audit[a].expects = Expected(db.docs)
             => \/ audit'[a].verdict = "ok"
                \/ /\ audit'[a].verdict = "missing"
                   /\ \E e \in Expected(db.docs) : e.dst \notin DOMAIN db.docs]_vars

(* VerifyGraphIntegrity reports an error only of a graph that is wrong.    *)
AuditsPass == \A a \in Auditors : audit[a].verdict = "ok"

(* Every call returns, whatever the other calls do and whichever statement *)
(* fails: each path out of each method gives its lock back.                *)
CallsReturn == \A c \in Clients : (pc[c] # "idle") ~> (pc[c] = "idle")

Floor == [t \in Types |-> IF t \in DOMAIN db.seq THEN db.seq[t] ELSE MinInt - 1]

Abstract == INSTANCE DocStore WITH docs <- db.docs, edges <- db.edges,
                                   floor <- Floor

(* Each call takes effect at one instant, its Commit, its query or the     *)
(* statement that refuses it, as DocStore says.                            *)
IsDocStore == Abstract!Spec

(***************************************************************************)
(* The inductive invariant.  A writer's transaction is, statement after    *)
(* statement, a function of the committed tables and of its call.          *)
(***************************************************************************)
Early == {"lock", "check", "begin", "read", "seq", "merge"}
Late  == {"row", "wipe", "link", "commit"}

(* Which calls reach which statement, and that a writer holds the lock.    *)
ControlInv(c) ==
    /\ pc[c] # "idle" => call[c] \in Ops
    /\ pc[c] = "idle" => call[c] = NoOp
    /\ pc[c] \in WriteSteps => writer = c /\ call[c].kind \notin Readers
    /\ pc[c] = "read"  => call[c].kind \in Readers
    /\ pc[c] = "check" => call[c].kind = "save"
    /\ pc[c] = "seq"   => call[c].kind \in {"create", "save"}
    /\ pc[c] = "merge" => call[c].kind = "patch"
    /\ pc[c] = "row"   => call[c].kind # "rebuild"
    /\ pc[c] = "link"  => call[c].kind # "delete"
    /\ ret[c] # NoRet <=> pc[c] \in {"rollback", "unlock"}

(* The entity, id and document the call works on.                          *)
LocalInv(c) ==
    /\ pc[c] \in Early => key[c] = call[c].key /\ data[c] = call[c].data
    /\ pc[c] \in Late =>
         /\ call[c].kind # "create" => key[c] = call[c].key
         /\ call[c].kind = "create" =>
              /\ key[c] = <<call[c].key[1], NextId(db.seq, call[c].key[1])>>
              /\ key[c][2] # Overflow
         /\ call[c].kind # "patch" => data[c] = call[c].data
         /\ call[c].kind = "patch" =>
              /\ key[c] \in DOMAIN db.docs
              /\ data[c] = Merge(db.docs[key[c]], call[c].data)
    /\ pc[c] \in {"begin"} \cup InTx /\ call[c].kind = "save" =>
         key[c] \notin DOMAIN db.docs
    /\ pc[c] \in {"wipe", "link", "commit"} =>
         /\ call[c].kind = "create" => key[c] \notin DOMAIN db.docs
         /\ call[c].kind \in {"update", "delete"} => key[c] \in DOMAIN db.docs

SeqOf(c) ==
    LET t == key[c][1] IN
    IF call[c].kind = "create" THEN Put(db.seq, t, NextId(db.seq, t))
    ELSE IF call[c].kind = "save" THEN Put(db.seq, t, SavedSeq(db.seq, t, key[c][2]))
    ELSE db.seq

DocsOf(c) ==
    IF call[c].kind = "rebuild" THEN db.docs
    ELSE IF call[c].kind = "delete" THEN Drop(db.docs, key[c])
    ELSE Put(db.docs, key[c], data[c])

EdgesOf(c, seen) ==
    (db.edges \ Wiped(call[c], key[c], db.edges)) \cup
    (IF call[c].kind = "delete" THEN {}
     ELSE Linked(call[c], key[c], data[c], DocsOf(c), seen))

TxInv(c) ==
    /\ pc[c] \in {"seq", "merge"} => tx[c] = db
    /\ pc[c] = "row" => tx[c] = Tables(db.docs, db.edges, SeqOf(c))
    /\ pc[c] \in {"wipe", "link", "commit"} => tx[c].docs = DocsOf(c) /\ tx[c].seq = SeqOf(c)
    /\ pc[c] = "wipe" => tx[c].edges = db.edges
    /\ pc[c] = "link" => tx[c].edges = db.edges \ Wiped(call[c], key[c], db.edges)
    /\ pc[c] = "commit" =>
         \E seen \in Scans(DOMAIN DocsOf(c)) : tx[c].edges = EdgesOf(c, seen)

CallInv == \A c \in Clients : ControlInv(c) /\ LocalInv(c) /\ TxInv(c)

(* Save never brings the largest integer, whose successor wraps.           *)
NoLastId == \A o \in Ops : o.kind = "save" => o.key[2] # MaxInt
==============================================================================
