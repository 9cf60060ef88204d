-------------------------- MODULE SQLiteStoreProofs --------------------------
(***************************************************************************)
(* Proofs about SQLiteStore, for any number of callers, any documents and  *)
(* any width of the integers.                                              *)
(***************************************************************************)
EXTENDS SQLiteStore, TLAPS

(***************************************************************************)
(* The operators of the data.                                              *)
(***************************************************************************)
LEMMA MergeType ==
    ASSUME NEW d \in Documents, NEW p \in Documents
    PROVE  Merge(d, p) \in Documents
  BY DEF Merge, Documents, Values

LEMMA DocsType ==
    ASSUME NEW ds, IsDocs(ds)
    PROVE  /\ \A k \in Keys, d \in Documents : IsDocs(Put(ds, k, d))
           /\ \A k \in Keys : IsDocs(Drop(ds, k))
  BY DEF IsDocs, Put, Drop

LEMMA PutSeq ==
    ASSUME NEW sq, IsSeq(sq), NEW t \in Types, NEW n \in MinInt .. Overflow
    PROVE  IsSeq(Put(sq, t, n))
  BY DEF IsSeq, Put

LEMMA IdBounds == /\ MaxInt \in Int /\ MinInt \in Int /\ Overflow \in Int
                  /\ MinInt < 0 /\ 0 < MaxInt /\ Overflow = MaxInt + 1
                  /\ 0 \in Ids /\ 1 \in Ids
  BY IntWidth DEF MinInt, Overflow, Ids

LEMMA ScansAreSubsets == \A rows : \A seen \in Scans(rows) : seen \subseteq rows
  BY DEF Scans

LEMMA ScansExist == \A rows : \E seen : seen \in Scans(rows)
  BY DEF Scans

LEMMA EdgeType ==
    ASSUME NEW k \in Keys, NEW d \in Documents
    PROVE  /\ SyncEdges(k, d) \subseteq Edges
           /\ VerifyEdges(k, d) \subseteq Edges
           /\ RebuildEdges(k, d) \subseteq SyncEdges(k, d)
  <1>1. ASSUME NEW g \in RefFields(d), d[g].entity # NoEntity
        PROVE  Edge(k, d, g) \in Edges
    BY <1>1 DEF RefFields, References, Edge, Edges, Keys
  <1>2. ASSUME NEW g \in RefFields(d), d[g].id > 0
        PROVE  d[g].id # 0
    BY <1>2, IdBounds DEF RefFields, References, Ids
  <1> QED
    BY <1>1, <1>2 DEF SyncEdges, RebuildEdges, VerifyEdges

LEMMA TablesFields ==
    ASSUME NEW ds, NEW es, NEW sq
    PROVE  /\ Tables(ds, es, sq).docs = ds
           /\ Tables(ds, es, sq).edges = es
           /\ Tables(ds, es, sq).seq = sq
  BY DEF Tables

LEMMA TablesType ==
    ASSUME NEW ds, IsDocs(ds), NEW es \in SUBSET Edges, NEW sq, IsSeq(sq)
    PROVE  IsTables(Tables(ds, es, sq))
  BY TablesFields DEF IsTables

LEMMA SeqType ==
    ASSUME NEW s, IsSeq(s), NEW t \in Types
    PROVE  /\ NextId(s, t) \in MinInt .. Overflow
           /\ NextId(s, t) # Overflow => NextId(s, t) \in Ids
           /\ \A i \in Ids : SavedSeq(s, t, i) \in MinInt .. Overflow
  BY IdBounds DEF IsSeq, NextId, SavedSeq, SqlSucc, SqlMax, GoSucc, Ids

LEMMA RetType == /\ \A s \in {"ok", "notfound", "exists", "error"} : Ret(s) \in Returns
                 /\ \A i \in Ids : RetId(i) \in Returns
                 /\ \A rs \in SUBSET Row : RetRows(rs) \in Returns
  BY IdBounds DEF Ret, RetId, RetRows, Returns

LEMMA AnswerType ==
    ASSUME NEW o \in Ops, o.kind \in Readers,
           NEW ds, IsDocs(ds),
           NEW es \in SUBSET Edges
    PROVE  Answer(o, ds, es) \in Returns
  <1>1. ASSUME NEW k \in DOMAIN ds, NEW g \in Fields \cup {Absent}
        PROVE  AsRow(ds, k, g) \in Row
    BY <1>1 DEF AsRow, Row, IsDocs
  <1>2. \A e \in es : e.rel \in Fields
    BY DEF Edges
  <1>3. CASE o.kind = "get"
    BY <1>1, <1>3, RetType DEF Answer
  <1>4. CASE o.kind = "list"
    BY <1>1, <1>4, RetType DEF Answer
  <1>5. CASE o.kind = "out"
    BY <1>1, <1>2, <1>5, RetType DEF Answer
  <1>6. CASE o.kind = "in"
    BY <1>1, <1>2, <1>6, RetType DEF Answer
  <1> QED
    BY <1>3, <1>4, <1>5, <1>6 DEF Readers

(***************************************************************************)
(* Types.                                                                  *)
(***************************************************************************)
LEMMA OpsType ==
    ASSUME NEW o \in Ops
    PROVE  o.kind \in Kinds /\ o.key \in Keys /\ o.data \in Documents
  BY OpsAreCalls DEF Operations

LEMMA AnyKeyType == AnyKey \in Keys /\ EmptyDoc \in Documents
  <1>1. PICK t \in Types : TRUE
    BY SomeType
  <1>2. <<t, 0>> \in Keys
    BY IdBounds DEF Keys
  <1> QED
    BY <1>2 DEF AnyKey, EmptyDoc, Documents

(* The control part needs nothing of the tables.                           *)
Control == \A c \in Clients : ControlInv(c)

LEMMA TypeInit == Init => TypeOK
  <1> SUFFICES ASSUME Init PROVE TypeOK
    OBVIOUS
  <1>1. IsTables(db)
    <2>1. IsDocs([k \in {} |-> EmptyDoc])
      BY DEF IsDocs
    <2>2. IsSeq([t \in {} |-> 0])
      BY DEF IsSeq
    <2> QED
      BY <2>1, <2>2, TablesType DEF Init
  <1>2. \A c \in Clients : pc[c] \notin InTx
    BY DEF Init, InTx
  <1> QED
    BY <1>1, <1>2, AnyKeyType DEF Init, TypeOK, Steps

LEMMA ControlInit == Init => Control
  BY DEF Init, Control, ControlInv, WriteSteps, InTx

(* ControlInv speaks of one caller and the write lock.                     *)
LEMMA ControlStep == TypeOK /\ Control /\ [Next]_vars => Control'
  <1> SUFFICES ASSUME TypeOK, Control, [Next]_vars PROVE Control'
    OBVIOUS
  <1> USE DEF InTx, WriteSteps, Readers
  <1>t. /\ pc \in [Clients -> Steps] /\ call \in [Clients -> Ops \cup {NoOp}]
        /\ ret \in [Clients -> Returns \cup {NoRet}]
        /\ writer \in Clients \cup {NoClient}
    BY DEF TypeOK
  <1>n. \A x \in Returns : x # NoRet
    BY NoRetIsNone
  <1>r. /\ \A s \in {"ok", "notfound", "exists", "error"} : Ret(s) # NoRet
        /\ \A i \in Ids : RetId(i) # NoRet
    BY RetType, <1>n
  <1>1. ASSUME NEW c \in Clients, Call(c) PROVE Control'
    BY <1>1, <1>t DEF Call, Goto, Control, ControlInv, locks
  <1>2. ASSUME NEW c \in Clients, Lock(c) PROVE Control'
    BY <1>2, <1>t, NoClientIsNone DEF Lock, Goto, Control, ControlInv, locals
  <1>3. ASSUME NEW c \in Clients, RLock(c) PROVE Control'
    BY <1>3, <1>t DEF RLock, Goto, Control, ControlInv, locals
  <1>4. ASSUME NEW c \in Clients, CheckExists(c) PROVE Control'
    BY <1>4, <1>t, <1>r DEF CheckExists, Goto, Return, Control, ControlInv, locks
  <1>5. ASSUME NEW c \in Clients, Begin(c) PROVE Control'
    <2>1. call[c] \in Ops /\ call[c].kind \notin Readers
      BY <1>5 DEF Begin, Control, ControlInv
    <2>2. call[c].kind \in {"create", "save", "update", "delete", "patch", "rebuild"}
      BY <2>1, OpsType DEF Kinds
    <2>3. LET l == FirstStatement[call[c].kind]
          IN /\ l = "seq" => call[c].kind \in {"create", "save"}
             /\ l = "merge" => call[c].kind = "patch"
             /\ l = "row" => call[c].kind # "rebuild"
             /\ l \in {"seq", "row", "merge", "wipe"}
      BY <2>2 DEF FirstStatement
    <2> QED
      BY <1>5, <1>t, <2>1, <2>3 DEF Begin, Goto, Control, ControlInv, locks, locals
  <1>6. ASSUME NEW c \in Clients, NextID(c) PROVE Control'
    BY <1>6, <1>t DEF NextID, Goto, Control, ControlInv, locks
  <1>7. ASSUME NEW c \in Clients, BumpSequence(c) PROVE Control'
    BY <1>7, <1>t DEF BumpSequence, Goto, Control, ControlInv, locks, locals
  <1>8. ASSUME NEW c \in Clients, ReadAndMerge(c) PROVE Control'
    BY <1>8, <1>t, <1>r DEF ReadAndMerge, Goto, Return, Control, ControlInv, locks
  <1>9. ASSUME NEW c \in Clients, InsertRow(c) PROVE Control'
    BY <1>9, <1>t DEF InsertRow, Goto, Control, ControlInv, locks, locals
  <1>10. ASSUME NEW c \in Clients, UpdateRow(c) PROVE Control'
    BY <1>10, <1>t, <1>r DEF UpdateRow, Goto, Return, Control, ControlInv, locks
  <1>11. ASSUME NEW c \in Clients, DeleteRow(c) PROVE Control'
    BY <1>11, <1>t, <1>r DEF DeleteRow, Goto, Return, Control, ControlInv, locks
  <1>12. ASSUME NEW c \in Clients, WipeEdges(c) PROVE Control'
    BY <1>12, <1>t DEF WipeEdges, Goto, Control, ControlInv, locks, locals
  <1>13. ASSUME NEW c \in Clients, LinkEdges(c) PROVE Control'
    BY <1>13, <1>t DEF LinkEdges, Goto, Control, ControlInv, locks, locals
  <1>14. ASSUME NEW c \in Clients, Commit(c) PROVE Control'
    <2>1. call[c].kind = "create" => key[c][2] \in Ids
      BY <1>14 DEF TypeOK, Keys
    <2> QED
      BY <1>14, <1>t, <1>r, <2>1 DEF Commit, Goto, Return, Control, ControlInv, locks
  <1>15. ASSUME NEW c \in Clients, Read(c) PROVE Control'
    <2>1. Answer(call[c], db.docs, db.edges) \in Returns
      BY <1>15, AnswerType DEF Read, Control, ControlInv, TypeOK, IsTables
    <2> QED
      BY <1>15, <1>t, <1>n, <2>1 DEF Read, Goto, Return, Control, ControlInv, locks
  <1>16. ASSUME NEW c \in Clients, Fail(c) PROVE Control'
    BY <1>16, <1>t, <1>r DEF Fail, Goto, Return, Control, ControlInv, locks
  <1>17. ASSUME NEW c \in Clients, Rollback(c) PROVE Control'
    BY <1>17, <1>t DEF Rollback, Goto, Control, ControlInv, locks, locals
  <1>18. ASSUME NEW c \in Clients, Unlock(c) PROVE Control'
    BY <1>18, <1>t DEF Unlock, Goto, Control, ControlInv
  <1>19. ASSUME NEW a \in Auditors, QueryEntities(a) \/ QueryEdges(a) PROVE Control'
    BY <1>19 DEF QueryEntities, QueryEdges, Control, ControlInv, locks, locals
  <1>20. ASSUME Crash PROVE Control'
    BY <1>20 DEF Crash, Control, ControlInv
  <1>21. ASSUME UNCHANGED vars PROVE Control'
    BY <1>21 DEF vars, Control, ControlInv, locks, locals
  <1> QED
    BY <1>1, <1>2, <1>3, <1>4, <1>5, <1>6, <1>7, <1>8, <1>9, <1>10, <1>11, <1>12,
       <1>13, <1>14, <1>15, <1>16, <1>17, <1>18, <1>19, <1>20, <1>21
       DEF Next, Acquire, Proceed, Statement

(* A statement that changes only transaction c, to well-typed tables.      *)
LEMMA TypeOfTx ==
    ASSUME TypeOK, NEW c \in Clients, NEW x, NEW l \in Steps,
           tx' = [tx EXCEPT ![c] = x],
           l \in InTx => IsTables(x),
           Goto(c, l), UNCHANGED <<db, locks, call, audit>>,
           key' \in [Clients -> Keys], data' \in [Clients -> Documents],
           ret' \in [Clients -> Returns \cup {NoRet}]
    PROVE  TypeOK'
  <1>1. tx' = [d \in Clients |-> tx'[d]]
    BY DEF TypeOK
  <1>2. pc' \in [Clients -> Steps]
    BY DEF TypeOK, Goto
  <1>3. ASSUME NEW d \in Clients, pc'[d] \in InTx PROVE IsTables(tx[d])'
    <2>1. CASE d = c
      <3>1. tx'[d] = x /\ pc'[d] = l
        BY <2>1 DEF TypeOK, Goto
      <3> QED
        BY <3>1, <1>3 DEF IsTables, Tables
    <2>2. CASE d # c
      <3>1. tx'[d] = tx[d] /\ pc'[d] = pc[d]
        BY <2>2 DEF TypeOK, Goto
      <3> QED
        BY <3>1, <1>3 DEF TypeOK, IsTables
    <2> QED
      BY <2>1, <2>2
  <1>4. IsTables(db)'
    BY DEF TypeOK, IsTables
  <1> QED
    BY <1>1, <1>2, <1>3, <1>4 DEF TypeOK, locks

(* A step that changes no table keeps the types when its locals have them  *)
(* and it enters no transaction.                                           *)
LEMMA TypeOfRest ==
    ASSUME TypeOK, UNCHANGED <<db, tx>>,
           \A c \in Clients : pc'[c] \in InTx => pc[c] \in InTx,
           writer' \in Clients \cup {NoClient}, readers' \subseteq Clients,
           pc' \in [Clients -> Steps],
           call' \in [Clients -> Ops \cup {NoOp}],
           key' \in [Clients -> Keys], data' \in [Clients -> Documents],
           ret' \in [Clients -> Returns \cup {NoRet}],
           audit' \in [Auditors -> [at : {"idle", "edges"}, expects : SUBSET Edges,
                                    verdict : {"ok", "missing", "unexpected"}]]
    PROVE  TypeOK'
  BY DEF TypeOK, IsTables

LEMMA TypeStep == TypeOK /\ Control /\ [Next]_vars => TypeOK'
  <1> SUFFICES ASSUME TypeOK, Control, [Next]_vars PROVE TypeOK'
    OBVIOUS
  <1> USE DEF InTx
  <1>1. ASSUME NEW c \in Clients, Call(c) PROVE TypeOK'
    <2>1. PICK o \in Ops : /\ call' = [call EXCEPT ![c] = o]
                           /\ key' = [key EXCEPT ![c] = o.key]
                           /\ data' = [data EXCEPT ![c] = o.data]
      BY <1>1 DEF Call
    <2>2. o.key \in Keys /\ o.data \in Documents
      BY OpsType
    <2> QED
      BY <1>1, <2>1, <2>2, TypeOfRest DEF Call, Goto, TypeOK, locks, Steps
  <1>2. ASSUME NEW c \in Clients, Lock(c) \/ RLock(c) PROVE TypeOK'
    BY <1>2, TypeOfRest DEF Lock, RLock, Goto, TypeOK, locals, Steps
  <1>3. ASSUME NEW c \in Clients, CheckExists(c) PROVE TypeOK'
    BY <1>3, TypeOfRest, RetType DEF CheckExists, Return, Goto, TypeOK, locks, Steps
  <1>4. ASSUME NEW c \in Clients, Begin(c) PROVE TypeOK'
    <2>1. call[c].kind \in {"create", "save", "update", "delete", "patch", "rebuild"}
      BY <1>4, OpsType DEF Begin, Control, ControlInv, Kinds, Readers, WriteSteps
    <2>2. FirstStatement[call[c].kind] \in Steps
      BY <2>1 DEF FirstStatement, Steps
    <2> QED
      BY <1>4, <2>2, TypeOfTx DEF Begin, TypeOK, locals
  <1>5. ASSUME NEW c \in Clients, NextID(c) PROVE TypeOK'
    <2> DEFINE t == key[c][1]
               n == NextId(tx[c].seq, t)
               x == Tables(tx[c].docs, tx[c].edges, Put(tx[c].seq, t, n))
    <2>1. IsTables(tx[c]) /\ t \in Types
      BY <1>5 DEF NextID, TypeOK, Keys
    <2>2. n \in MinInt .. Overflow /\ n \in Ids
      BY <1>5, <2>1, SeqType DEF NextID, IsTables
    <2>3. IsTables(x)
      BY <2>1, <2>2, PutSeq, TablesType DEF IsTables
    <2>4. key' \in [Clients -> Keys]
      BY <1>5, <2>1, <2>2 DEF NextID, TypeOK, Keys
    <2>5. tx' = [tx EXCEPT ![c] = x] /\ Goto(c, "row") /\ "row" \in Steps
      BY <1>5 DEF NextID, Steps
    <2>6. /\ UNCHANGED <<db, locks, call, audit>>
          /\ key' \in [Clients -> Keys] /\ data' \in [Clients -> Documents]
          /\ ret' \in [Clients -> Returns \cup {NoRet}]
      BY <1>5, <2>4 DEF NextID, TypeOK
    <2> HIDE DEF x
    <2> QED
      BY <2>3, <2>5, <2>6, TypeOfTx
  <1>6. ASSUME NEW c \in Clients, BumpSequence(c) PROVE TypeOK'
    <2> DEFINE t == key[c][1]
               n == SavedSeq(tx[c].seq, t, key[c][2])
               x == Tables(tx[c].docs, tx[c].edges, Put(tx[c].seq, t, n))
    <2>1. IsTables(tx[c]) /\ t \in Types /\ key[c][2] \in Ids
      BY <1>6 DEF BumpSequence, TypeOK, Keys
    <2>2. n \in MinInt .. Overflow
      BY <2>1, SeqType DEF IsTables, Tables
    <2>3. IsTables(x)
      BY <2>1, <2>2, PutSeq, TablesType DEF IsTables
    <2>5. tx' = [tx EXCEPT ![c] = x] /\ Goto(c, "row") /\ "row" \in Steps
      BY <1>6 DEF BumpSequence, Steps
    <2>6. /\ UNCHANGED <<db, locks, call, audit>>
          /\ key' \in [Clients -> Keys] /\ data' \in [Clients -> Documents]
          /\ ret' \in [Clients -> Returns \cup {NoRet}]
      BY <1>6 DEF BumpSequence, TypeOK, locals
    <2> HIDE DEF x
    <2> QED
      BY <2>3, <2>5, <2>6, TypeOfTx
  <1>7. ASSUME NEW c \in Clients, ReadAndMerge(c) PROVE TypeOK'
    <2>1. key[c] \in DOMAIN tx[c].docs =>
            Merge(tx[c].docs[key[c]], data[c]) \in Documents
      BY <1>7, MergeType DEF ReadAndMerge, TypeOK, IsTables, IsDocs
    <2> QED
      BY <1>7, <2>1, TypeOfRest, RetType DEF ReadAndMerge, Return, Goto, TypeOK, locks, Steps
  <1>8. ASSUME NEW c \in Clients, InsertRow(c) \/ UpdateRow(c) PROVE TypeOK'
    <2>1. CASE UNCHANGED tx
      BY <1>8, <2>1, TypeOfRest, RetType
         DEF InsertRow, UpdateRow, Return, Goto, TypeOK, locks, locals, Steps
    <2>2. CASE tx' = [tx EXCEPT ![c] = Tables(Put(@.docs, key[c], data[c]), @.edges, @.seq)] /\ Goto(c, "wipe")
      <3> DEFINE x == Tables(Put(tx[c].docs, key[c], data[c]), tx[c].edges, tx[c].seq)
      <3>1. IsTables(tx[c])
        BY <1>8 DEF InsertRow, UpdateRow, TypeOK
      <3>2. IsTables(x)
        BY <3>1, DocsType, TablesType DEF TypeOK, IsTables
      <3>3. tx' = [tx EXCEPT ![c] = x]
        BY <2>2
      <3>4. /\ UNCHANGED <<db, locks, call, audit>>
            /\ key' \in [Clients -> Keys] /\ data' \in [Clients -> Documents]
            /\ ret' \in [Clients -> Returns \cup {NoRet}]
        BY <1>8, RetType DEF InsertRow, UpdateRow, Return, locals, TypeOK
      <3>5. "wipe" \in Steps
        BY DEF Steps
      <3> HIDE DEF x
      <3> QED
        BY <2>2, <3>2, <3>3, <3>4, <3>5, TypeOfTx
    <2> QED
      BY <1>8, <2>1, <2>2 DEF InsertRow, UpdateRow
  <1>9. ASSUME NEW c \in Clients, DeleteRow(c) PROVE TypeOK'
    <2>1. CASE UNCHANGED tx
      BY <1>9, <2>1, TypeOfRest, RetType
         DEF DeleteRow, Return, Goto, TypeOK, locks, Steps
    <2>2. CASE tx' = [tx EXCEPT ![c] = Tables(Drop(@.docs, key[c]), @.edges, @.seq)] /\ Goto(c, "wipe")
      <3> DEFINE x == Tables(Drop(tx[c].docs, key[c]), tx[c].edges, tx[c].seq)
      <3>1. IsTables(tx[c])
        BY <1>9 DEF DeleteRow, TypeOK
      <3>2. IsTables(x)
        BY <3>1, DocsType, TablesType DEF TypeOK, IsTables
      <3>3. tx' = [tx EXCEPT ![c] = x]
        BY <2>2
      <3>4. /\ UNCHANGED <<db, locks, call, audit>>
            /\ key' \in [Clients -> Keys] /\ data' \in [Clients -> Documents]
            /\ ret' \in [Clients -> Returns \cup {NoRet}]
        BY <1>9, RetType DEF DeleteRow, Return, TypeOK
      <3>5. "wipe" \in Steps
        BY DEF Steps
      <3> HIDE DEF x
      <3> QED
        BY <2>2, <3>2, <3>3, <3>4, <3>5, TypeOfTx
    <2> QED
      BY <1>9, <2>1, <2>2 DEF DeleteRow
  <1>10. ASSUME NEW c \in Clients, WipeEdges(c) PROVE TypeOK'
    <2> DEFINE x == Tables(tx[c].docs, tx[c].edges \ Wiped(call[c], key[c], tx[c].edges),
                           tx[c].seq)
               l == IF call[c].kind = "delete" THEN "commit" ELSE "link"
    <2>1. IsTables(x)
      BY <1>10, TablesType DEF WipeEdges, TypeOK, IsTables
    <2>2. tx' = [tx EXCEPT ![c] = x] /\ Goto(c, l) /\ l \in Steps
      BY <1>10 DEF WipeEdges, Steps
    <2>3. /\ UNCHANGED <<db, locks, call, audit>>
          /\ key' \in [Clients -> Keys] /\ data' \in [Clients -> Documents]
          /\ ret' \in [Clients -> Returns \cup {NoRet}]
      BY <1>10 DEF WipeEdges, TypeOK, locals
    <2> HIDE DEF x, l
    <2> QED
      BY <2>1, <2>2, <2>3, TypeOfTx
  <1>11. ASSUME NEW c \in Clients, LinkEdges(c) PROVE TypeOK'
    <2>0. PICK seen \in Scans(DOMAIN tx[c].docs) :
             tx' = [tx EXCEPT ![c] =
                      Tables(tx[c].docs,
                             tx[c].edges \cup Linked(call[c], key[c], data[c], tx[c].docs, seen),
                             tx[c].seq)]
      BY <1>11 DEF LinkEdges
    <2> DEFINE new == Linked(call[c], key[c], data[c], tx[c].docs, seen)
               x == Tables(tx[c].docs, tx[c].edges \cup new, tx[c].seq)
    <2>1. IsTables(tx[c]) /\ key[c] \in Keys /\ data[c] \in Documents
      BY <1>11 DEF LinkEdges, TypeOK
    <2>2. \A j \in DOMAIN tx[c].docs : RebuildEdges(j, tx[c].docs[j]) \subseteq Edges
      BY <2>1, EdgeType DEF IsTables, IsDocs
    <2>3. new \subseteq Edges
      BY <2>0, <2>1, <2>2, EdgeType, ScansAreSubsets DEF Linked
    <2>4. IsTables(x)
      BY <2>1, <2>3, TablesType DEF IsTables
    <2>5. tx' = [tx EXCEPT ![c] = x] /\ Goto(c, "commit") /\ "commit" \in Steps
      BY <1>11, <2>0 DEF LinkEdges, Steps
    <2>6. /\ UNCHANGED <<db, locks, call, audit>>
          /\ key' \in [Clients -> Keys] /\ data' \in [Clients -> Documents]
          /\ ret' \in [Clients -> Returns \cup {NoRet}]
      BY <1>11 DEF LinkEdges, TypeOK, locals
    <2> HIDE DEF x
    <2> QED
      BY <2>4, <2>5, <2>6, TypeOfTx
  <1>12. ASSUME NEW c \in Clients, Commit(c) PROVE TypeOK'
    <2>1. IsTables(tx[c])
      BY <1>12 DEF Commit, TypeOK
    <2>2. IsTables(db)'
      BY <1>12, <2>1 DEF Commit, IsTables
    <2>3. ret' \in [Clients -> Returns \cup {NoRet}]
      BY <1>12, RetType DEF Commit, Return, TypeOK, Keys
    <2>4. /\ pc' = [pc EXCEPT ![c] = "unlock"] /\ tx' = [tx EXCEPT ![c] = NoTx]
          /\ UNCHANGED <<locks, call, key, data, audit>>
      BY <1>12 DEF Commit, Return, Goto
    <2>5. \A d \in Clients : pc'[d] \in InTx => pc[d] \in InTx /\ tx'[d] = tx[d]
      BY <2>4 DEF TypeOK
    <2>6. tx' = [d \in Clients |-> tx'[d]] /\ pc' \in [Clients -> Steps]
      BY <2>4 DEF TypeOK, Steps
    <2> QED
      BY <2>2, <2>3, <2>4, <2>5, <2>6 DEF TypeOK, IsTables, locks
  <1>13. ASSUME NEW c \in Clients, Read(c) PROVE TypeOK'
    <2>1. Answer(call[c], db.docs, db.edges) \in Returns
      BY <1>13, AnswerType DEF Read, Control, ControlInv, TypeOK, IsTables
    <2> QED
      BY <1>13, <2>1, TypeOfRest DEF Read, Return, Goto, TypeOK, locks, Steps
  <1>14. ASSUME NEW c \in Clients, Fail(c) PROVE TypeOK'
    BY <1>14, TypeOfRest, RetType DEF Fail, Return, Goto, TypeOK, locks, Steps
  <1>15. ASSUME NEW c \in Clients, Rollback(c) PROVE TypeOK'
    BY <1>15, TypeOfTx DEF Rollback, TypeOK, Steps, locals
  <1>16. ASSUME NEW c \in Clients, Unlock(c) PROVE TypeOK'
    BY <1>16, TypeOfRest, AnyKeyType DEF Unlock, Goto, TypeOK, Steps
  <1>17. ASSUME NEW a \in Auditors, QueryEntities(a) PROVE TypeOK'
    <2>1. \A k \in DOMAIN db.docs : VerifyEdges(k, db.docs[k]) \subseteq Edges
      BY EdgeType DEF TypeOK, IsTables, IsDocs
    <2>2. \A seen \in Scans(DOMAIN db.docs) : ExpectedOf(db.docs, seen) \subseteq Edges
      BY <2>1, ScansAreSubsets DEF ExpectedOf
    <2> QED
      BY <1>17, <2>2, TypeOfRest DEF QueryEntities, TypeOK, locks, locals
  <1>18. ASSUME NEW a \in Auditors, QueryEdges(a) PROVE TypeOK'
    <2>1. \A actual : Verdict(audit[a].expects, actual) \in {"ok", "missing", "unexpected"}
      BY DEF Verdict
    <2> QED
      BY <1>18, <2>1, TypeOfRest DEF QueryEdges, TypeOK, locks, locals
  <1>19. ASSUME Crash PROVE TypeOK'
    BY <1>19, AnyKeyType DEF Crash, TypeOK, IsTables, Steps
  <1>20. ASSUME UNCHANGED vars PROVE TypeOK'
    BY <1>20 DEF vars, TypeOK, IsTables, locks, locals
  <1> QED
    BY <1>1, <1>2, <1>3, <1>4, <1>5, <1>6, <1>7, <1>8, <1>9, <1>10, <1>11, <1>12,
       <1>13, <1>14, <1>15, <1>16, <1>17, <1>18, <1>19, <1>20
       DEF Next, Acquire, Proceed, Statement

(* Every variable keeps its type, and each caller reaches only statements  *)
(* of its call, the writing ones under the write lock.                     *)
THEOREM TypeCorrect == Spec => [](TypeOK /\ Control)
  <1>1. Init => TypeOK /\ Control
    BY TypeInit, ControlInit
  <1>2. TypeOK /\ Control /\ [Next]_vars => (TypeOK /\ Control)'
    BY TypeStep, ControlStep
  <1> QED
    BY <1>1, <1>2, PTL DEF Spec

(***************************************************************************)
(* The locks.                                                              *)
(***************************************************************************)
(* Inside a call the locks stay as they are.                               *)
LEMMA LocksKept ==
    ASSUME TypeOK, LocksAreHeld, NEW c \in Clients, UNCHANGED locks, NEW l, Goto(c, l),
           l \notin {"idle", "lock", "read"}, l \in WriteSteps => pc[c] \in WriteSteps
    PROVE  LocksAreHeld'
  <1>1. \A d \in Clients : pc'[d] = IF d = c THEN l ELSE pc[d]
    BY DEF TypeOK, Goto
  <1>2. writer' = writer /\ readers' = readers
    BY DEF locks
  <1> QED
    BY <1>1, <1>2 DEF LocksAreHeld

LEMMA LocksTaken ==
    ASSUME TypeOK, LocksAreHeld, NEW c \in Clients, Acquire(c) PROVE LocksAreHeld'
  <1> USE DEF InTx, WriteSteps
  <1>1. pc \in [Clients -> Steps] /\ writer = NoClient
    BY DEF TypeOK, Acquire, Lock, RLock
  <1>2. CASE Lock(c)
    BY <1>1, <1>2, NoClientIsNone DEF Lock, Goto, LocksAreHeld
  <1>3. CASE RLock(c)
    BY <1>1, <1>3, NoClientIsNone DEF RLock, Goto, LocksAreHeld
  <1> QED
    BY <1>2, <1>3 DEF Acquire

LEMMA LocksReleased ==
    ASSUME TypeOK, LocksAreHeld, NEW c \in Clients, Unlock(c) PROVE LocksAreHeld'
  <1>1. \A d \in Clients : pc'[d] = IF d = c THEN "idle" ELSE pc[d]
    BY DEF TypeOK, Unlock, Goto
  <1>2. writer' = (IF writer = c THEN NoClient ELSE writer) /\ readers' = readers \ {c}
    BY DEF Unlock
  <1> QED
    BY <1>1, <1>2, NoClientIsNone DEF LocksAreHeld, WriteSteps, InTx

LEMMA LocksStep == TypeOK /\ Control /\ LocksAreHeld /\ [Next]_vars => LocksAreHeld'
  <1> SUFFICES ASSUME TypeOK, Control, LocksAreHeld, [Next]_vars PROVE LocksAreHeld'
    OBVIOUS
  <1>1. ASSUME NEW c \in Clients, Call(c) PROVE LocksAreHeld'
    BY <1>1 DEF Call, Goto, TypeOK, LocksAreHeld, locks, WriteSteps, InTx
  <1>2. ASSUME NEW c \in Clients, Statement(c) \/ Fail(c) \/ Rollback(c) PROVE LocksAreHeld'
    <2>1. UNCHANGED locks
      BY <1>2 DEF Statement, CheckExists, Begin, NextID, BumpSequence, ReadAndMerge, InsertRow,
                  UpdateRow, DeleteRow, WipeEdges, LinkEdges, Commit, Read, Fail, Rollback, locks
    <2>2. CASE Begin(c)
      <3>1. call[c].kind \in {"create", "save", "update", "delete", "patch", "rebuild"}
        BY <2>2, OpsType DEF Begin, Control, ControlInv, WriteSteps, Kinds, Readers
      <3>2. FirstStatement[call[c].kind] \in InTx
        BY <3>1 DEF FirstStatement, InTx
      <3> QED
        BY <2>1, <2>2, <3>2, LocksKept DEF Begin, WriteSteps, InTx
    <2>3. CASE ~Begin(c)
      <3>1. \E l \in {"begin", "row", "wipe", "link", "commit", "rollback", "unlock"} :
               /\ Goto(c, l)
               /\ l \in WriteSteps => pc[c] \in WriteSteps
        BY <1>2, <2>3 DEF Statement, CheckExists, NextID, BumpSequence, ReadAndMerge, InsertRow,
                         UpdateRow, DeleteRow, WipeEdges, LinkEdges, Commit, Read, Fail, Rollback,
                         Return, WriteSteps, InTx
      <3> QED
        BY <2>1, <3>1, LocksKept
    <2> QED
      BY <2>2, <2>3
  <1>3. ASSUME NEW a \in Auditors, QueryEntities(a) \/ QueryEdges(a) PROVE LocksAreHeld'
    BY <1>3 DEF QueryEntities, QueryEdges, LocksAreHeld, locks
  <1>4. CASE Crash
    BY <1>4, NoClientIsNone DEF Crash, LocksAreHeld, WriteSteps, InTx
  <1>5. CASE UNCHANGED vars
    BY <1>5 DEF vars, locks, LocksAreHeld
  <1> QED
    BY <1>1, <1>2, <1>3, <1>4, <1>5, LocksTaken, LocksReleased DEF Next, Proceed

(* Every statement runs under its lock, and every return gives it back.    *)
THEOREM LocksAreGivenBack == Spec => []LocksAreHeld
  <1>1. Init => LocksAreHeld
    BY NoClientIsNone DEF Init, LocksAreHeld, WriteSteps, InTx
  <1> QED
    BY <1>1, TypeInit, ControlInit, TypeStep, ControlStep, LocksStep, PTL DEF Spec

(***************************************************************************)
(* What a transaction holds.                                               *)
(***************************************************************************)
Private == \A c \in Clients : LocalInv(c) /\ TxInv(c)

(* A step touches only the locals and the transaction of its caller.       *)
Others(c) == \A d \in Clients \ {c} :
                /\ pc'[d] = pc[d] /\ call'[d] = call[d] /\ key'[d] = key[d]
                /\ data'[d] = data[d] /\ tx'[d] = tx[d]

LEMMA Frame ==
    ASSUME NEW d \in Clients, LocalInv(d), TxInv(d), UNCHANGED db,
           pc'[d] = pc[d], call'[d] = call[d], key'[d] = key[d],
           data'[d] = data[d], tx'[d] = tx[d]
    PROVE  LocalInv(d)' /\ TxInv(d)'
  BY DEF LocalInv, TxInv, SeqOf, DocsOf, EdgesOf

(* While the tables stay, or their writer commits, the others keep theirs. *)
LEMMA OthersKept ==
    ASSUME Control, Private, NEW c \in Clients, Others(c),
           UNCHANGED db \/ pc[c] = "commit"
    PROVE  \A d \in Clients \ {c} : LocalInv(d)' /\ TxInv(d)'
  <1> SUFFICES ASSUME NEW d \in Clients \ {c} PROVE LocalInv(d)' /\ TxInv(d)'
    OBVIOUS
  <1>1. CASE UNCHANGED db
    BY <1>1, Frame DEF Others, Private
  <1>2. CASE pc[c] = "commit"
    <2>1. pc[d] \notin WriteSteps
      BY <1>2 DEF Control, ControlInv, WriteSteps, InTx
    <2> QED
      BY <2>1 DEF Others, Private, LocalInv, TxInv, WriteSteps, InTx, Early, Late
  <1> QED
    BY <1>1, <1>2

LEMMA PrivateInit == Init => Private
  BY DEF Init, Private, LocalInv, TxInv, Early, Late, InTx

LEMMA PrivateStep == TypeOK /\ Control /\ Private /\ [Next]_vars => Private'
  <1> SUFFICES ASSUME TypeOK, Control, Private, [Next]_vars PROVE Private'
    OBVIOUS
  <1> USE DEF InTx, Early, Late
  <1>t. /\ pc \in [Clients -> Steps] /\ tx = [c \in Clients |-> tx[c]]
        /\ call \in [Clients -> Ops \cup {NoOp}] /\ key \in [Clients -> Keys]
        /\ data \in [Clients -> Documents]
    BY DEF TypeOK
  <1>k. ASSUME NEW c \in Clients, Others(c), UNCHANGED db \/ pc[c] = "commit",
               LocalInv(c)', TxInv(c)'
        PROVE  Private'
    BY <1>k, OthersKept DEF Private
  <1>1. ASSUME NEW c \in Clients, Call(c) PROVE Private'
    <2>1. LocalInv(c)' /\ TxInv(c)'
      BY <1>1, <1>t DEF Call, Goto, LocalInv, TxInv
    <2> QED
      BY <1>1, <1>t, <1>k, <2>1 DEF Call, Goto, Others
  <1>2. ASSUME NEW c \in Clients, Lock(c) \/ RLock(c) PROVE Private'
    <2>1. LocalInv(c)' /\ TxInv(c)'
      BY <1>2, <1>t DEF Lock, RLock, Goto, locals, LocalInv, TxInv, Private
    <2> QED
      BY <1>2, <1>t, <1>k, <2>1 DEF Lock, RLock, Goto, locals, Others
  <1>3. ASSUME NEW c \in Clients, CheckExists(c) PROVE Private'
    <2>1. LocalInv(c)' /\ TxInv(c)'
      BY <1>3, <1>t DEF CheckExists, Goto, Return, LocalInv, TxInv, Private
    <2> QED
      BY <1>3, <1>t, <1>k, <2>1 DEF CheckExists, Goto, Return, Others
  <1>4. ASSUME NEW c \in Clients, Begin(c) PROVE Private'
    <2>1. call[c].kind \in {"create", "save", "update", "delete", "patch", "rebuild"}
      BY <1>4, OpsType DEF Begin, Control, ControlInv, Kinds, Readers, WriteSteps
    <2> DEFINE l == FirstStatement[call[c].kind]
    <2>2. /\ l \in {"seq", "row", "merge", "wipe"}
          /\ l = "row" => call[c].kind \in {"update", "delete"}
          /\ l = "wipe" => call[c].kind = "rebuild"
      BY <2>1 DEF FirstStatement
    <2>3. /\ pc'[c] = l /\ tx'[c] = db
          /\ UNCHANGED <<db, call, key, data>> /\ Others(c)
      BY <1>4, <1>t DEF Begin, Goto, locals, Others
    <2>4. db = Tables(db.docs, db.edges, db.seq)
      BY DEF TypeOK, IsTables
    <2>5. LocalInv(c) /\ pc[c] = "begin"
      BY <1>4 DEF Begin, Private
    <2> HIDE DEF l
    <2>6. LocalInv(c)'
      BY <2>2, <2>3, <2>5 DEF LocalInv
    <2>7. TxInv(c)'
      BY <2>2, <2>3, <2>4 DEF TxInv, SeqOf, DocsOf
    <2> QED
      BY <1>k, <2>3, <2>6, <2>7
  <1>5. ASSUME NEW c \in Clients, NextID(c) PROVE Private'
    <2>1. tx[c] = db /\ key[c] = call[c].key /\ data[c] = call[c].data
      BY <1>5 DEF NextID, Private, LocalInv, TxInv
    <2> DEFINE t == key[c][1]
               n == NextId(db.seq, t)
    <2>2. /\ n # Overflow /\ call[c].kind = "create"
          /\ tx'[c] = Tables(db.docs, db.edges, Put(db.seq, t, n))
          /\ key'[c] = <<t, n>> /\ pc'[c] = "row"
          /\ UNCHANGED <<db, call, data>> /\ Others(c)
      BY <1>5, <1>t, <2>1 DEF NextID, Goto, Others
    <2>3. LocalInv(c)'
      BY <2>1, <2>2 DEF LocalInv
    <2>4. TxInv(c)'
      BY <2>1, <2>2 DEF TxInv, SeqOf
    <2> QED
      BY <1>k, <2>2, <2>3, <2>4
  <1>6. ASSUME NEW c \in Clients, BumpSequence(c) PROVE Private'
    <2>1. /\ tx[c] = db /\ key[c] = call[c].key /\ data[c] = call[c].data
          /\ key[c] \notin DOMAIN db.docs
      BY <1>6 DEF BumpSequence, Private, LocalInv, TxInv
    <2>2. /\ call[c].kind = "save" /\ pc'[c] = "row"
          /\ tx'[c] = Tables(db.docs, db.edges,
                             Put(db.seq, key[c][1], SavedSeq(db.seq, key[c][1], key[c][2])))
          /\ UNCHANGED <<db, call, key, data>> /\ Others(c)
      BY <1>6, <1>t, <2>1 DEF BumpSequence, Goto, Others, locals
    <2>3. LocalInv(c)'
      BY <2>1, <2>2 DEF LocalInv
    <2>4. TxInv(c)'
      BY <2>1, <2>2 DEF TxInv, SeqOf
    <2> QED
      BY <1>k, <2>2, <2>3, <2>4
  <1>7. ASSUME NEW c \in Clients, ReadAndMerge(c) PROVE Private'
    <2>1. /\ tx[c] = db /\ key[c] = call[c].key /\ data[c] = call[c].data
          /\ call[c].kind = "patch" /\ pc[c] = "merge"
      BY <1>7 DEF ReadAndMerge, Private, LocalInv, TxInv, Control, ControlInv
    <2>2. UNCHANGED <<db, tx, call, key>> /\ Others(c)
      BY <1>7, <1>t DEF ReadAndMerge, Goto, Return, Others
    <2>3. CASE key[c] \in DOMAIN db.docs
      <3>1. pc'[c] = "row" /\ data'[c] = Merge(db.docs[key[c]], data[c])
        BY <1>7, <1>t, <2>1, <2>3 DEF ReadAndMerge, Goto
      <3>2. db = Tables(db.docs, db.edges, db.seq)
        BY DEF TypeOK, IsTables
      <3>3. LocalInv(c)'
        BY <2>1, <2>2, <2>3, <3>1 DEF LocalInv
      <3>4. TxInv(c)'
        BY <2>1, <2>2, <3>1, <3>2 DEF TxInv, SeqOf
      <3> QED
        BY <1>k, <2>2, <3>3, <3>4
    <2>4. CASE key[c] \notin DOMAIN db.docs
      <3>1. pc'[c] = "rollback"
        BY <1>7, <1>t, <2>1, <2>4 DEF ReadAndMerge, Goto, Return
      <3> QED
        BY <1>k, <2>2, <3>1 DEF LocalInv, TxInv
    <2> QED
      BY <2>3, <2>4
  <1>8. ASSUME NEW c \in Clients, InsertRow(c) \/ UpdateRow(c) PROVE Private'
    <2>1. /\ tx[c] = Tables(db.docs, db.edges, SeqOf(c)) /\ LocalInv(c)
          /\ call[c].kind \in {"create", "save", "update", "patch"}
          /\ pc[c] = "row"
      BY <1>8 DEF InsertRow, UpdateRow, Private, TxInv
    <2>2. tx[c].docs = db.docs /\ tx[c].edges = db.edges /\ tx[c].seq = SeqOf(c)
      BY <2>1, TablesFields
    <2>3. UNCHANGED <<db, call, key, data>> /\ Others(c)
      BY <1>8, <1>t DEF InsertRow, UpdateRow, Goto, Return, Others, locals
    <2>4. CASE pc'[c] = "wipe"
      <3>1. tx'[c] = Tables(Put(db.docs, key[c], data[c]), db.edges, SeqOf(c))
        BY <1>8, <1>t, <2>2, <2>4 DEF InsertRow, UpdateRow, Goto, Return
      <3>2. /\ call[c].kind \in {"create", "save"} => key[c] \notin DOMAIN db.docs
            /\ call[c].kind \in {"update", "patch"} => key[c] \in DOMAIN db.docs
        BY <1>8, <1>t, <2>2, <2>4 DEF InsertRow, UpdateRow, Goto, Return
      <3>3. LocalInv(c)'
        BY <2>1, <2>3, <2>4, <3>2 DEF LocalInv
      <3>4. SeqOf(c)' = SeqOf(c) /\ DocsOf(c)' = Put(db.docs, key[c], data[c])
        BY <2>1, <2>3 DEF SeqOf, DocsOf
      <3>5. TxInv(c)'
        BY <2>3, <2>4, <3>1, <3>4, TablesFields DEF TxInv
      <3> QED
        BY <1>k, <2>3, <3>3, <3>5
    <2>5. CASE pc'[c] = "rollback"
      BY <1>k, <2>3, <2>5 DEF LocalInv, TxInv
    <2> QED
      BY <1>8, <1>t, <2>4, <2>5 DEF InsertRow, UpdateRow, Goto, Return
  <1>9. ASSUME NEW c \in Clients, DeleteRow(c) PROVE Private'
    <2>1. /\ tx[c] = Tables(db.docs, db.edges, SeqOf(c)) /\ LocalInv(c)
          /\ call[c].kind = "delete" /\ pc[c] = "row"
      BY <1>9 DEF DeleteRow, Private, TxInv
    <2>2. tx[c].docs = db.docs /\ tx[c].edges = db.edges /\ tx[c].seq = SeqOf(c)
      BY <2>1, TablesFields
    <2>3. UNCHANGED <<db, call, key, data>> /\ Others(c)
      BY <1>9, <1>t DEF DeleteRow, Goto, Return, Others
    <2>4. CASE key[c] \in DOMAIN db.docs
      <3>1. /\ tx'[c] = Tables(Drop(db.docs, key[c]), db.edges, SeqOf(c))
            /\ pc'[c] = "wipe"
        BY <1>9, <1>t, <2>2, <2>4 DEF DeleteRow, Goto
      <3>2. LocalInv(c)'
        BY <2>1, <2>3, <2>4, <3>1 DEF LocalInv
      <3>3. SeqOf(c)' = SeqOf(c) /\ DocsOf(c)' = Drop(db.docs, key[c])
        BY <2>1, <2>3 DEF SeqOf, DocsOf
      <3>4. TxInv(c)'
        BY <2>3, <3>1, <3>3, TablesFields DEF TxInv
      <3> QED
        BY <1>k, <2>3, <3>2, <3>4
    <2>5. CASE key[c] \notin DOMAIN db.docs
      <3>1. pc'[c] = "rollback"
        BY <1>9, <1>t, <2>2, <2>5 DEF DeleteRow, Goto, Return
      <3> QED
        BY <1>k, <2>3, <3>1 DEF LocalInv, TxInv
    <2> QED
      BY <2>4, <2>5
  <1>10. ASSUME NEW c \in Clients, WipeEdges(c) PROVE Private'
    <2>1. /\ tx[c].docs = DocsOf(c) /\ tx[c].seq = SeqOf(c) /\ tx[c].edges = db.edges
          /\ LocalInv(c) /\ pc[c] = "wipe"
      BY <1>10 DEF WipeEdges, Private, TxInv
    <2>2. /\ tx'[c] = Tables(DocsOf(c), db.edges \ Wiped(call[c], key[c], db.edges), SeqOf(c))
          /\ pc'[c] = IF call[c].kind = "delete" THEN "commit" ELSE "link"
          /\ UNCHANGED <<db, call, key, data>> /\ Others(c)
      BY <1>10, <1>t, <2>1 DEF WipeEdges, Goto, Others, locals
    <2>3. LocalInv(c)'
      BY <2>1, <2>2 DEF LocalInv
    <2>4. /\ SeqOf(c)' = SeqOf(c) /\ DocsOf(c)' = DocsOf(c)
          /\ \A seen : EdgesOf(c, seen)' = EdgesOf(c, seen)
      BY <2>2 DEF SeqOf, DocsOf, EdgesOf
    <2>5. call[c].kind = "delete" =>
            \A seen : EdgesOf(c, seen) = db.edges \ Wiped(call[c], key[c], db.edges)
      BY DEF EdgesOf
    <2>6. /\ tx'[c].docs = DocsOf(c)' /\ tx'[c].seq = SeqOf(c)'
          /\ tx'[c].edges = db.edges \ Wiped(call[c], key[c], db.edges)
      BY <2>2, <2>4, TablesFields
    <2>7. CASE call[c].kind = "delete"
      <3>1. pc'[c] = "commit" /\ \A seen : tx'[c].edges = EdgesOf(c, seen)'
        BY <2>2, <2>4, <2>5, <2>6, <2>7
      <3>2. \E seen : seen \in Scans(DOMAIN DocsOf(c))'
        BY ScansExist
      <3> QED
        BY <1>k, <2>2, <2>3, <2>6, <3>1, <3>2 DEF TxInv
    <2>8. CASE call[c].kind # "delete"
      <3>1. pc'[c] = "link"
        BY <2>2, <2>8
      <3> QED
        BY <1>k, <2>2, <2>3, <2>6, <3>1 DEF TxInv
    <2> QED
      BY <2>7, <2>8
  <1>11. ASSUME NEW c \in Clients, LinkEdges(c) PROVE Private'
    <2>1. /\ tx[c].docs = DocsOf(c) /\ tx[c].seq = SeqOf(c)
          /\ tx[c].edges = db.edges \ Wiped(call[c], key[c], db.edges)
          /\ LocalInv(c) /\ pc[c] = "link" /\ call[c].kind # "delete"
      BY <1>11 DEF LinkEdges, Private, TxInv, Control, ControlInv
    <2>0. PICK seen \in Scans(DOMAIN tx[c].docs) :
             tx' = [tx EXCEPT ![c] =
                      Tables(tx[c].docs,
                             tx[c].edges \cup Linked(call[c], key[c], data[c], tx[c].docs, seen),
                             tx[c].seq)]
      BY <1>11 DEF LinkEdges
    <2>2. /\ tx'[c] = Tables(DocsOf(c), EdgesOf(c, seen), SeqOf(c)) /\ pc'[c] = "commit"
          /\ UNCHANGED <<db, call, key, data>> /\ Others(c)
      BY <1>11, <1>t, <2>0, <2>1 DEF LinkEdges, Goto, Others, locals, EdgesOf
    <2>3. LocalInv(c)'
      BY <2>1, <2>2 DEF LocalInv
    <2>4. /\ SeqOf(c)' = SeqOf(c) /\ DocsOf(c)' = DocsOf(c)
          /\ EdgesOf(c, seen)' = EdgesOf(c, seen)
      BY <2>2 DEF SeqOf, DocsOf, EdgesOf
    <2>6. seen \in Scans(DOMAIN DocsOf(c))'
      BY <2>0, <2>1, <2>4
    <2>5. TxInv(c)'
      BY <2>2, <2>4, <2>6, TablesFields DEF TxInv
    <2> QED
      BY <1>k, <2>2, <2>3, <2>5
  <1>12. ASSUME NEW c \in Clients, Commit(c) PROVE Private'
    <2>1. pc'[c] = "unlock" /\ pc[c] = "commit" /\ Others(c)
      BY <1>12, <1>t DEF Commit, Goto, Return, Others
    <2> QED
      BY <1>k, <2>1 DEF LocalInv, TxInv
  <1>13. ASSUME NEW c \in Clients, Read(c) \/ Fail(c) \/ Rollback(c) \/ Unlock(c)
         PROVE  Private'
    <2>1. pc'[c] \in {"rollback", "unlock", "idle"} /\ UNCHANGED db
      BY <1>13, <1>t DEF Read, Fail, Rollback, Unlock, Goto, Return
    <2>2. Others(c)
      <3>1. CASE Read(c) \/ Fail(c)
        BY <3>1, <1>t DEF Read, Fail, Goto, Return, Others
      <3>2. CASE Rollback(c) \/ Unlock(c)
        BY <3>2, <1>t DEF Rollback, Unlock, Goto, Others, locals
      <3> QED
        BY <1>13, <3>1, <3>2
    <2> QED
      BY <1>k, <2>1, <2>2 DEF LocalInv, TxInv
  <1>14. ASSUME NEW a \in Auditors, QueryEntities(a) \/ QueryEdges(a) PROVE Private'
    BY <1>14, Frame DEF QueryEntities, QueryEdges, locals, Private
  <1>15. ASSUME Crash PROVE Private'
    BY <1>15 DEF Crash, Private, LocalInv, TxInv
  <1>16. ASSUME UNCHANGED vars PROVE Private'
    BY <1>16, Frame DEF vars, locals, Private
  <1> QED
    BY <1>1, <1>2, <1>3, <1>4, <1>5, <1>6, <1>7, <1>8, <1>9, <1>10, <1>11, <1>12,
       <1>13, <1>14, <1>15, <1>16 DEF Next, Acquire, Proceed, Statement

(* Every statement of a transaction leaves it the function of the committed *)
(* tables and of the call that CallInv states.                             *)
THEOREM TransactionsCorrect == Spec => []CallInv
  <1>1. TypeOK /\ Control /\ Private /\ [Next]_vars => (TypeOK /\ Control /\ Private)'
    BY TypeStep, ControlStep, PrivateStep
  <1>2. Init => TypeOK /\ Control /\ Private
    BY TypeInit, ControlInit, PrivateInit
  <1>3. Control /\ Private => CallInv
    BY DEF Control, Private, CallInv
  <1> QED
    BY <1>1, <1>2, <1>3, PTL DEF Spec

(***************************************************************************)
(* The tables a commit leaves.                                             *)
(***************************************************************************)
LEMMA CommitEffect ==
    ASSUME Private, NEW c \in Clients, Commit(c)
    PROVE  /\ db'.docs = DocsOf(c) /\ db'.seq = SeqOf(c)
           /\ \E seen \in Scans(DOMAIN DocsOf(c)) : db'.edges = EdgesOf(c, seen)
  BY DEF Commit, Private, TxInv

LEMMA OnlyCommits ==
    ASSUME [Next]_vars, \A c \in Clients : ~Commit(c)
    PROVE  UNCHANGED db
  BY DEF Next, Acquire, Proceed, Statement, Call, Lock, RLock, CheckExists, Begin,
         NextID, BumpSequence, ReadAndMerge, InsertRow, UpdateRow, DeleteRow,
         WipeEdges, LinkEdges, Read, Fail, Rollback, Unlock, QueryEntities,
         QueryEdges, Crash, vars

(* The three fields of a key that SyncEdges and RebuildEdges produce.      *)
LEMMA SyncSource ==
    \A k, d : \A e \in SyncEdges(k, d) : e.src = k
  BY DEF SyncEdges, Edge

LEMMA EdgesSoundStep ==
    ASSUME TypeOK, Control, Private, EdgesSound, [Next]_vars
    PROVE  EdgesSound'
  <1>1. ASSUME NEW c \in Clients, Commit(c) PROVE EdgesSound'
    <2>1. db'.docs = DocsOf(c) /\ LocalInv(c) /\ pc[c] = "commit"
      BY <1>1, CommitEffect DEF Private, Commit
    <2>0. PICK seen \in Scans(DOMAIN DocsOf(c)) : db'.edges = EdgesOf(c, seen)
      BY <1>1, CommitEffect
    <2>2. CASE call[c].kind = "rebuild"
      <3>1. db'.docs = db.docs
            /\ db'.edges = UNION {RebuildEdges(j, db.docs[j]) : j \in seen}
            /\ seen \subseteq DOMAIN db.docs
        BY <2>0, <2>1, <2>2, ScansAreSubsets DEF DocsOf, EdgesOf, Wiped, Linked
      <3> SUFFICES ASSUME NEW e \in db'.edges
                   PROVE  e.src \in DOMAIN db.docs /\ e \in SyncEdges(e.src, db.docs[e.src])
        BY <3>1 DEF EdgesSound
      <3>2. PICK j \in DOMAIN db.docs : e \in RebuildEdges(j, db.docs[j])
        BY <3>1
      <3>3. j \in Keys /\ db.docs[j] \in Documents
        BY DEF TypeOK, IsTables, IsDocs
      <3>4. e \in SyncEdges(j, db.docs[j])
        BY <3>2, <3>3, EdgeType
      <3> QED
        BY <3>4, SyncSource
    <2>3. CASE call[c].kind = "delete"
      <3>1. db'.docs = Drop(db.docs, key[c]) /\ db'.edges = db.edges \ Touching(db.edges, key[c])
        BY <2>0, <2>1, <2>3 DEF DocsOf, EdgesOf, Wiped
      <3>2. ASSUME NEW e \in db'.edges
            PROVE  e \in db.edges /\ e.src # key[c]
        BY <3>1, <3>2 DEF Touching
      <3>3. /\ DOMAIN db'.docs = DOMAIN db.docs \ {key[c]}
            /\ \A k \in DOMAIN db'.docs : db'.docs[k] = db.docs[k]
        BY <3>1 DEF Drop
      <3> QED
        BY <3>2, <3>3 DEF EdgesSound
    <2>4. CASE call[c].kind \notin {"rebuild", "delete"}
      <3>1. /\ db'.docs = Put(db.docs, key[c], data[c])
            /\ db'.edges = (db.edges \ OutOf(db.edges, key[c])) \cup SyncEdges(key[c], data[c])
        BY <2>0, <2>1, <2>4 DEF DocsOf, EdgesOf, Wiped, Linked
      <3>2. /\ DOMAIN db'.docs = DOMAIN db.docs \cup {key[c]}
            /\ db'.docs[key[c]] = data[c]
            /\ \A k \in DOMAIN db.docs \ {key[c]} : db'.docs[k] = db.docs[k]
        BY <3>1 DEF Put
      <3>3. ASSUME NEW e \in db'.edges
            PROVE  e.src \in DOMAIN db'.docs /\ e \in SyncEdges(e.src, db'.docs[e.src])
        <4>1. CASE e \in SyncEdges(key[c], data[c])
          <5>1. e.src = key[c]
            BY <4>1, SyncSource
          <5> QED
            BY <4>1, <5>1, <3>2
        <4>2. CASE e \in db.edges /\ e.src # key[c]
          BY <4>2, <3>2 DEF EdgesSound
        <4> QED
          BY <3>1, <4>1, <4>2 DEF OutOf
      <3> QED
        BY <3>3 DEF EdgesSound
    <2> QED
      BY <2>2, <2>3, <2>4
  <1>2. CASE UNCHANGED db
    BY <1>2 DEF EdgesSound
  <1> QED
    BY <1>1, <1>2, OnlyCommits

(* Whatever the calls, and however their statements fail or interleave,    *)
(* graph_edges never holds an edge its source document does not.           *)
THEOREM EdgesAreSound == Spec => []EdgesSound
  <1>1. Init => TypeOK /\ Control /\ Private /\ EdgesSound
    <2>1. Init => EdgesSound
      BY TablesFields DEF Init, EdgesSound
    <2> QED
      BY <2>1, TypeInit, ControlInit, PrivateInit
  <1>2. TypeOK /\ Control /\ Private /\ EdgesSound /\ [Next]_vars
          => (TypeOK /\ Control /\ Private /\ EdgesSound)'
    BY TypeStep, ControlStep, PrivateStep, EdgesSoundStep
  <1> QED
    BY <1>1, <1>2, PTL DEF Spec

(***************************************************************************)
(* The sequence.                                                           *)
(***************************************************************************)
LEMMA NextIdGrows ==
    ASSUME NEW sq, IsSeq(sq), NEW t \in DOMAIN sq
    PROVE  /\ NextId(sq, t) >= sq[t]
           /\ NextId(sq, t) # Overflow => NextId(sq, t) > sq[t]
  <1>1. sq[t] \in MinInt .. Overflow
    BY DEF IsSeq
  <1> QED
    BY <1>1, IdBounds DEF NextId, SqlSucc

LEMMA SavedSeqGrows ==
    ASSUME NEW sq, IsSeq(sq), NEW t, NEW i \in Ids, i # MaxInt
    PROVE  /\ SavedSeq(sq, t, i) >= i
           /\ t \in DOMAIN sq => SavedSeq(sq, t, i) >= sq[t]
  <1>1. t \in DOMAIN sq => sq[t] \in MinInt .. Overflow
    BY DEF IsSeq
  <1> QED
    BY <1>1, IdBounds DEF SavedSeq, SqlMax, SqlSucc, GoSucc, Ids

LEMMA SeqBoundsIdsStep ==
    ASSUME NoLastId, TypeOK, Control, Private, SeqBoundsIds, [Next]_vars
    PROVE  SeqBoundsIds'
  <1>1. ASSUME NEW c \in Clients, Commit(c) PROVE SeqBoundsIds'
    <2>1. /\ db'.docs = DocsOf(c) /\ db'.seq = SeqOf(c)
          /\ LocalInv(c) /\ pc[c] = "commit" /\ call[c] \in Ops
      BY <1>1, CommitEffect DEF Private, Commit, Control, ControlInv
    <2>2. /\ IsSeq(db.seq) /\ IsDocs(db.docs) /\ key[c] \in Keys
      BY DEF TypeOK, IsTables
    <2> DEFINE t == key[c][1]
               i == key[c][2]
    <2>3. /\ t \in Types /\ i \in Ids /\ key[c] = <<t, i>>
          /\ \A k \in DOMAIN db.docs : k[2] \in Ids
      BY <2>2 DEF Keys, IsDocs
    <2>4. \A x \in DOMAIN db.seq : db.seq[x] \in Int
      BY <2>2, IdBounds DEF IsSeq
    <2>5. \A k \in DOMAIN db.docs : k[1] \in DOMAIN db.seq /\ k[2] <= db.seq[k[1]]
      BY DEF SeqBoundsIds
    <2>6. CASE call[c].kind \in {"create", "save"}
      <3> DEFINE n == IF call[c].kind = "create" THEN NextId(db.seq, t)
                                                 ELSE SavedSeq(db.seq, t, i)
      <3>1. db'.docs = Put(db.docs, key[c], data[c]) /\ db'.seq = Put(db.seq, t, n)
        BY <2>1, <2>6 DEF DocsOf, SeqOf
      <3>2. n \in Int
        BY <2>2, <2>3, SeqType, IdBounds
      <3>3. n >= i /\ (t \in DOMAIN db.seq => n >= db.seq[t])
        <4>1. CASE call[c].kind = "create"
          <5>1. i = NextId(db.seq, t)
            BY <2>1, <4>1 DEF LocalInv, Late
          <5> QED
            BY <4>1, <5>1, <2>2, <2>3, NextIdGrows DEF Ids
        <4>2. CASE call[c].kind = "save"
          <5>1. i # MaxInt
            BY <2>1, <4>2 DEF LocalInv, Late, NoLastId
          <5> QED
            BY <4>2, <5>1, <2>2, <2>3, SavedSeqGrows
        <4> QED
          BY <2>6, <4>1, <4>2
      <3> HIDE DEF n
      <3>a. /\ DOMAIN db'.docs = DOMAIN db.docs \cup {key[c]}
            /\ DOMAIN db'.seq = DOMAIN db.seq \cup {t}
            /\ db'.seq[t] = n
            /\ \A x \in DOMAIN db.seq \ {t} : db'.seq[x] = db.seq[x]
        BY <3>1 DEF Put
      <3>4. ASSUME NEW k \in DOMAIN db'.docs
            PROVE  k[1] \in DOMAIN db'.seq /\ k[2] <= db'.seq[k[1]]
        <4>1. k = key[c] \/ k \in DOMAIN db.docs
          BY <3>a
        <4>2. CASE k = key[c]
          BY <4>2, <3>a, <3>3
        <4>3. CASE k \in DOMAIN db.docs /\ k[1] = t
          <5>1. k[2] <= db.seq[t] /\ db.seq[t] \in Int /\ k[2] \in Int
            BY <4>3, <2>3, <2>4, <2>5 DEF Ids
          <5>2. n >= db.seq[t]
            BY <4>3, <2>5, <3>3
          <5> QED
            BY <4>3, <5>1, <5>2, <3>2, <3>a
        <4>4. CASE k \in DOMAIN db.docs /\ k[1] # t
          BY <4>4, <2>5, <3>a
        <4> QED
          BY <4>1, <4>2, <4>3, <4>4
      <3> QED
        BY <3>4 DEF SeqBoundsIds
    <2>7. CASE call[c].kind \notin {"create", "save"}
      <3>1. DOMAIN db'.docs \subseteq DOMAIN db.docs /\ db'.seq = db.seq
        <4>1. call[c].kind \in {"update", "patch", "delete", "rebuild"}
          BY <1>1, <2>1, <2>7, OpsType
             DEF Kinds, Control, ControlInv, WriteSteps, InTx, Readers
        <4>2. call[c].kind \in {"update", "patch"} => key[c] \in DOMAIN db.docs
          BY <2>1 DEF LocalInv, Late
        <4> QED
          BY <2>1, <4>1, <4>2 DEF DocsOf, SeqOf, Put, Drop
      <3> QED
        BY <3>1, <2>5 DEF SeqBoundsIds
    <2> QED
      BY <2>6, <2>7
  <1>2. CASE UNCHANGED db
    BY <1>2 DEF SeqBoundsIds
  <1> QED
    BY <1>1, <1>2, OnlyCommits

LEMMA FreshFromBound ==
    ASSUME TypeOK, Control, Private, SeqBoundsIds
    PROVE  FreshIdIsFree
  <1> SUFFICES ASSUME NEW c \in Clients, pc[c] = "row", call[c].kind = "create",
                      key[c] \in DOMAIN tx[c].docs
               PROVE  FALSE
    BY DEF FreshIdIsFree
  <1>1. tx[c].docs = db.docs
    BY TablesFields DEF Private, TxInv
  <1>2. key[c] = <<call[c].key[1], NextId(db.seq, call[c].key[1])>> /\ key[c][2] # Overflow
    BY DEF Private, LocalInv, Late
  <1>3. key[c][1] \in DOMAIN db.seq /\ key[c][2] <= db.seq[key[c][1]]
    BY <1>1 DEF SeqBoundsIds
  <1>4. IsSeq(db.seq)
    BY DEF TypeOK, IsTables
  <1>5. NextId(db.seq, key[c][1]) > db.seq[key[c][1]]
    BY <1>2, <1>3, <1>4, NextIdGrows
  <1>6. db.seq[key[c][1]] \in Int /\ NextId(db.seq, key[c][1]) \in Int
    BY <1>2, <1>3, <1>4, SeqType, IdBounds DEF IsSeq
  <1> QED
    BY <1>2, <1>3, <1>5, <1>6

(* Unless Save brings the largest integer, every id in use stays at or     *)
(* below its type's sequence, and Create never meets the row of another    *)
(* document: neither Saves in between, nor failures, nor crashes matter.   *)
THEOREM SequenceCorrect == NoLastId => (Spec => []IdsAreFresh)
  <1> SUFFICES ASSUME NoLastId PROVE Spec => []IdsAreFresh
    OBVIOUS
  <1> DEFINE Inv == TypeOK /\ Control /\ Private /\ SeqBoundsIds
  <1>1. Init => Inv
    <2>1. Init => SeqBoundsIds
      BY TablesFields DEF Init, SeqBoundsIds
    <2> QED
      BY <2>1, TypeInit, ControlInit, PrivateInit
  <1>2. Inv /\ [Next]_vars => Inv'
    BY TypeStep, ControlStep, PrivateStep, SeqBoundsIdsStep
  <1>3. Inv => IdsAreFresh
    BY FreshFromBound DEF IdsAreFresh
  <1> HIDE DEF Inv
  <1> QED
    BY <1>1, <1>2, <1>3, PTL DEF Spec

(***************************************************************************)
(* The edges between stored documents, where Create alone picks the ids.   *)
(***************************************************************************)
NoSave == \A o \in Ops : o.kind # "save"

Rebuilds == \E o \in Ops : o.kind = "rebuild"

(* The references on which the three scanners agree.                       *)
Plainly(r) == r.entity # NoEntity => r.id > 0 \/ (r.id = 0 /\ ~r.frac)
Agreed(d)  == \A f \in RefFields(d) : Plainly(d[f])

OpsAgreed == \A o \in Ops : Agreed(o.data)

(* RebuildGraph links what the other calls link: its cursor reaches the    *)
(* last row, and no call brings a reference it takes for none.             *)
SafeRebuilds == Rebuilds => ~CursorBreaks /\ OpsAgreed

(* An id the sequence has passed.                                          *)
Passed(sq, k) == k[1] \in DOMAIN sq /\ k[2] <= sq[k[1]]

LinkedIn(x, e) == e \in x.edges \/ (e.dst \notin DOMAIN x.docs /\ Passed(x.seq, e.dst))

(* A field without its edge names a document that was deleted, whose id    *)
(* Create does not give out again.                                         *)
LinksInv ==
    /\ \A k \in DOMAIN db.docs : \A e \in SyncEdges(k, db.docs[k]) : LinkedIn(db, e)
    /\ OpsAgreed => \A k \in DOMAIN db.docs : Agreed(db.docs[k])

LEMMA MergeAgrees ==
    ASSUME NEW d, NEW p, Agreed(d), Agreed(p)
    PROVE  Agreed(Merge(d, p))
  <1> SUFFICES ASSUME NEW f \in RefFields(Merge(d, p)) PROVE Plainly(Merge(d, p)[f])
    BY DEF Agreed
  <1>1. f \in Fields /\ Merge(d, p)[f] \in References
    BY DEF RefFields
  <1>2. Absent \notin References
    BY ValuesAreDisjoint
  <1>3. Merge(d, p)[f] = d[f] \/ Merge(d, p)[f] = p[f]
    BY <1>1, <1>2 DEF Merge
  <1> QED
    BY <1>1, <1>3 DEF Agreed, RefFields

LEMMA ScannersAgree ==
    ASSUME NEW k, NEW d, Agreed(d)
    PROVE  SyncEdges(k, d) \subseteq RebuildEdges(k, d) /\ SyncEdges(k, d) = VerifyEdges(k, d)
  <1>1. ASSUME NEW f \in RefFields(d), d[f].entity # NoEntity
        PROVE  /\ d[f].id # 0 => d[f].id > 0
               /\ d[f].id # 0 <=> (d[f].id > 0 \/ (d[f].id = 0 /\ d[f].frac))
    <2>1. d[f].id \in Int /\ Plainly(d[f])
      BY <1>1, IdBounds DEF Agreed, RefFields, References, Ids
    <2> QED
      BY <1>1, <2>1 DEF Plainly
  <1> QED
    BY <1>1 DEF SyncEdges, RebuildEdges, VerifyEdges

LEMMA LinksInvStep ==
    ASSUME NoSave, SafeRebuilds, TypeOK, Control, Private, SeqBoundsIds, LinksInv, [Next]_vars
    PROVE  LinksInv'
  <1>1. ASSUME NEW c \in Clients, Commit(c) PROVE LinksInv'
    <2>1. /\ db'.docs = DocsOf(c) /\ db'.seq = SeqOf(c)
          /\ LocalInv(c) /\ pc[c] = "commit" /\ call[c] \in Ops /\ call[c].kind # "save"
      BY <1>1, CommitEffect DEF Private, Commit, Control, ControlInv, NoSave
    <2>0. PICK seen \in Scans(DOMAIN DocsOf(c)) : db'.edges = EdgesOf(c, seen)
      BY <1>1, CommitEffect
    <2>2. /\ IsSeq(db.seq) /\ IsDocs(db.docs) /\ key[c] \in Keys
      BY DEF TypeOK, IsTables
    <2>4. CASE call[c].kind = "rebuild"
      <3>1. /\ db'.docs = db.docs /\ db'.seq = db.seq /\ Rebuilds
            /\ seen = DOMAIN db.docs
            /\ db'.edges = UNION {RebuildEdges(j, db.docs[j]) : j \in seen}
        BY <2>0, <2>1, <2>4 DEF DocsOf, SeqOf, EdgesOf, Wiped, Linked, Scans, SafeRebuilds, Rebuilds
      <3>2. ASSUME NEW k \in DOMAIN db.docs PROVE SyncEdges(k, db.docs[k]) \subseteq db'.edges
        <4>1. SyncEdges(k, db.docs[k]) \subseteq RebuildEdges(k, db.docs[k])
          BY <3>1, ScannersAgree DEF LinksInv, SafeRebuilds
        <4> QED
          BY <3>1, <4>1
      <3> QED
        BY <3>1, <3>2 DEF LinksInv, LinkedIn
    <2>5. CASE call[c].kind = "delete"
      <3>1. /\ db'.docs = Drop(db.docs, key[c]) /\ db'.seq = db.seq
            /\ db'.edges = db.edges \ Touching(db.edges, key[c])
            /\ key[c] \in DOMAIN db.docs
        BY <2>0, <2>1, <2>5 DEF DocsOf, SeqOf, EdgesOf, Wiped, LocalInv
      <3>2. /\ DOMAIN db'.docs = DOMAIN db.docs \ {key[c]}
            /\ \A k \in DOMAIN db'.docs : db'.docs[k] = db.docs[k]
        BY <3>1 DEF Drop
      <3>3. ASSUME NEW k \in DOMAIN db'.docs, NEW e \in SyncEdges(k, db'.docs[k])
            PROVE  LinkedIn(db', e)
        <4>1. e.src = k /\ k # key[c] /\ LinkedIn(db, e)
          BY <3>2, SyncSource DEF LinksInv
        <4>2. CASE e.dst = key[c]
          <5>1. Passed(db.seq, e.dst)
            BY <3>1, <4>2 DEF SeqBoundsIds, Passed
          <5> QED
            BY <3>1, <3>2, <4>2, <5>1 DEF LinkedIn
        <4>3. CASE e.dst # key[c]
          BY <3>1, <3>2, <4>1, <4>3 DEF LinkedIn, Touching
        <4> QED
          BY <4>2, <4>3
      <3> QED
        BY <3>2, <3>3 DEF LinksInv
    <2>6. CASE call[c].kind \in {"create", "update", "patch"}
      <3>1. /\ db'.docs = Put(db.docs, key[c], data[c])
            /\ db'.edges = (db.edges \ OutOf(db.edges, key[c])) \cup SyncEdges(key[c], data[c])
        BY <2>0, <2>1, <2>6 DEF DocsOf, EdgesOf, Wiped, Linked
      <3>2. /\ DOMAIN db'.docs = DOMAIN db.docs \cup {key[c]}
            /\ db'.docs[key[c]] = data[c]
            /\ \A k \in DOMAIN db.docs \ {key[c]} : db'.docs[k] = db.docs[k]
        BY <3>1 DEF Put
      <3>3. ASSUME NEW k \in Keys, Passed(db.seq, k), k \notin DOMAIN db.docs
            PROVE  Passed(db'.seq, k) /\ k \notin DOMAIN db'.docs
        <4>1. CASE call[c].kind # "create"
          <5>1. db'.seq = db.seq /\ key[c] \in DOMAIN db.docs
            BY <2>1, <2>6, <4>1 DEF SeqOf, LocalInv, Late
          <5> QED
            BY <3>2, <3>3, <5>1
        <4>2. CASE call[c].kind = "create"
          <5> DEFINE t == key[c][1]
          <5>1. /\ db'.seq = Put(db.seq, t, NextId(db.seq, t))
                /\ key[c][2] = NextId(db.seq, t) /\ key[c][2] # Overflow
            BY <2>1, <4>2 DEF SeqOf, LocalInv, Late
          <5>2. /\ DOMAIN db'.seq = DOMAIN db.seq \cup {t}
                /\ db'.seq[t] = NextId(db.seq, t)
                /\ \A x \in DOMAIN db.seq \ {t} : db'.seq[x] = db.seq[x]
            BY <5>1 DEF Put
          <5>3. CASE k[1] # t
            BY <3>2, <3>3, <5>2, <5>3 DEF Passed
          <5>4. CASE k[1] = t
            <6>1. t \in DOMAIN db.seq /\ k[2] <= db.seq[t]
              BY <3>3, <5>4 DEF Passed
            <6>2. NextId(db.seq, t) > db.seq[t]
              BY <2>2, <5>1, <6>1, NextIdGrows
            <6>3. db.seq[t] \in Int /\ NextId(db.seq, t) \in Int
              BY <2>2, <6>1, SeqType, IdBounds DEF IsSeq
            <6>4. k[2] \in Int /\ key[c][2] \in Int
              BY <2>2, IdBounds DEF Keys, Ids
            <6>5. k # key[c]
              BY <5>1, <6>1, <6>2, <6>3, <6>4
            <6>6. k[1] \in DOMAIN db'.seq /\ k[2] <= db'.seq[k[1]]
              BY <5>2, <5>4, <6>1, <6>2, <6>3, <6>4
            <6> QED
              BY <3>2, <3>3, <6>5, <6>6 DEF Passed
          <5> QED
            BY <5>3, <5>4
        <4> QED
          BY <4>1, <4>2
      <3>4. ASSUME NEW k \in DOMAIN db'.docs, NEW e \in SyncEdges(k, db'.docs[k])
            PROVE  LinkedIn(db', e)
        <4>1. CASE k = key[c]
          BY <3>1, <3>2, <4>1 DEF LinkedIn
        <4>2. CASE k # key[c]
          <5>1. e.src = k /\ LinkedIn(db, e)
            BY <3>2, <4>2, SyncSource DEF LinksInv
          <5>2. e.dst \in Keys
            <6>1. k \in Keys /\ db'.docs[k] \in Documents
              BY <2>2, <3>2, <4>2 DEF IsDocs
            <6> QED
              BY <6>1, EdgeType DEF Edges
          <5> QED
            BY <3>1, <3>3, <4>2, <5>1, <5>2 DEF LinkedIn, OutOf
        <4> QED
          BY <4>1, <4>2
      <3>5. ASSUME OpsAgreed, NEW k \in DOMAIN db'.docs PROVE Agreed(db'.docs[k])
        <4>1. Agreed(call[c].data)
          BY <2>1, <3>5 DEF OpsAgreed
        <4>2. Agreed(data[c])
          <5>1. CASE call[c].kind # "patch"
            BY <2>1, <4>1, <5>1 DEF LocalInv, Late
          <5>2. CASE call[c].kind = "patch"
            <6>1. /\ key[c] \in DOMAIN db.docs
                  /\ data[c] = Merge(db.docs[key[c]], call[c].data)
              BY <2>1, <5>2 DEF LocalInv, Late
            <6>2. Agreed(db.docs[key[c]])
              BY <3>5, <6>1 DEF LinksInv
            <6> QED
              BY <4>1, <6>1, <6>2, MergeAgrees
          <5> QED
            BY <5>1, <5>2
        <4> QED
          BY <3>2, <3>5, <4>2 DEF LinksInv
      <3> QED
        BY <3>4, <3>5 DEF LinksInv
    <2>7. call[c].kind \in {"create", "update", "patch", "delete", "rebuild"}
      BY <1>1, <2>1, OpsType DEF Kinds, Control, ControlInv, WriteSteps, InTx, Readers
    <2> QED
      BY <2>4, <2>5, <2>6, <2>7
  <1>2. CASE UNCHANGED db
    BY <1>2 DEF LinksInv
  <1> QED
    BY <1>1, <1>2, OnlyCommits

LinkedInv == TypeOK /\ Control /\ Private /\ SeqBoundsIds /\ LinksInv

LEMMA LinkedInvHolds == NoSave /\ SafeRebuilds => (Spec => []LinkedInv)
  <1> SUFFICES ASSUME NoSave, SafeRebuilds PROVE Spec => []LinkedInv
    OBVIOUS
  <1>0. NoLastId
    BY DEF NoSave, NoLastId
  <1>1. Init => LinkedInv
    <2>1. Init => SeqBoundsIds /\ LinksInv
      BY TablesFields DEF Init, SeqBoundsIds, LinksInv
    <2> QED
      BY <2>1, TypeInit, ControlInit, PrivateInit DEF LinkedInv
  <1>2. LinkedInv /\ [Next]_vars => LinkedInv'
    BY <1>0, TypeStep, ControlStep, PrivateStep, SeqBoundsIdsStep, LinksInvStep DEF LinkedInv
  <1> QED
    BY <1>1, <1>2, PTL DEF Spec

(* Where Create alone picks the ids, and RebuildGraph reads every row and  *)
(* no reference it takes for none, every reference between stored          *)
(* documents has its edge, although Delete leaves the fields that name its *)
(* document behind.                                                        *)
THEOREM LiveLinksArePresent == NoSave /\ SafeRebuilds => (Spec => []LiveLinksPresent)
  <1>1. LinkedInv => LiveLinksPresent
    BY DEF LinkedInv, LinksInv, LinkedIn, LiveLinksPresent
  <1> QED
    BY <1>1, LinkedInvHolds, PTL

LEMMA AlarmStep ==
    ASSUME OpsAgreed, ~CursorBreaks, LinkedInv, EdgesSound, NEW a \in Auditors,
           QueryEdges(a), audit[a].expects = Expected(db.docs)
    PROVE  \/ audit'[a].verdict = "ok"
           \/ /\ audit'[a].verdict = "missing"
              /\ \E e \in Expected(db.docs) : e.dst \notin DOMAIN db.docs
  <1>1. audit'[a].verdict = Verdict(Expected(db.docs), db.edges)
    <2>1. Scans(db.edges) = {db.edges}
      BY DEF Scans
    <2>2. audit = [b \in Auditors |-> audit[b]]
      BY DEF LinkedInv, TypeOK
    <2> QED
      BY <2>1, <2>2 DEF QueryEdges
  <1>2. \A k \in DOMAIN db.docs : SyncEdges(k, db.docs[k]) = VerifyEdges(k, db.docs[k])
    BY ScannersAgree DEF LinkedInv, LinksInv
  <1>3. db.edges \subseteq Expected(db.docs)
    <2> SUFFICES ASSUME NEW e \in db.edges PROVE e \in Expected(db.docs)
      OBVIOUS
    <2>1. e.src \in DOMAIN db.docs /\ e \in VerifyEdges(e.src, db.docs[e.src])
      BY <1>2 DEF EdgesSound
    <2> QED
      BY <2>1 DEF Expected, ExpectedOf
  <1>4. ASSUME NEW e \in Expected(db.docs), e \notin db.edges PROVE e.dst \notin DOMAIN db.docs
    <2>1. PICK k \in DOMAIN db.docs : e \in VerifyEdges(k, db.docs[k])
      BY DEF Expected, ExpectedOf
    <2> QED
      BY <1>2, <1>4, <2>1 DEF LinkedInv, LinksInv, LinkedIn
  <1>5. CASE Expected(db.docs) \subseteq db.edges
    BY <1>1, <1>3, <1>5 DEF Verdict
  <1>6. CASE ~(Expected(db.docs) \subseteq db.edges)
    <2>1. audit'[a].verdict = "missing"
      BY <1>1, <1>6 DEF Verdict
    <2>2. PICK e \in Expected(db.docs) : e \notin db.edges
      BY <1>6
    <2>3. e.dst \notin DOMAIN db.docs
      BY <1>4, <2>2
    <2> QED
      BY <2>1, <2>3
  <1> QED
    BY <1>5, <1>6

(* Under the same assumptions, with cursors that reach the last row,       *)
(* VerifyGraphIntegrity complains only if a write came between its two     *)
(* queries, or of a field that names a deleted document.                   *)
THEOREM AlarmsMeanRaces ==
    NoSave /\ OpsAgreed /\ ~CursorBreaks => (Spec => AlarmMeansRace)
  <1> SUFFICES ASSUME NoSave, OpsAgreed, ~CursorBreaks PROVE Spec => AlarmMeansRace
    OBVIOUS
  <1>0. Spec => []LinkedInv
    BY LinkedInvHolds DEF SafeRebuilds
  <1> DEFINE Sound == \A a \in Auditors :
                        QueryEdges(a) /\ audit[a].expects = Expected(db.docs)
                          => \/ audit'[a].verdict = "ok"
                             \/ /\ audit'[a].verdict = "missing"
                                /\ \E e \in Expected(db.docs) : e.dst \notin DOMAIN db.docs
  <1>1. LinkedInv /\ EdgesSound => Sound
    BY AlarmStep
  <1>2. AlarmMeansRace <=> [][Sound]_vars
    BY DEF AlarmMeansRace
  <1> HIDE DEF Sound
  <1> QED
    BY <1>0, <1>1, <1>2, EdgesAreSound, PTL

(***************************************************************************)
(* The whole graph, where no call deletes: then no field outlives the      *)
(* document it names, and the tables agree, whoever picks the ids.         *)
(***************************************************************************)
NoDelete == \A o \in Ops : o.kind # "delete"

(* The documents have all their edges, and references the scanners agree on. *)
InStep == \A k \in DOMAIN db.docs : /\ Agreed(db.docs[k])
                                    /\ SyncEdges(k, db.docs[k]) \subseteq db.edges

(* What a call is about to store has such references, if those it brings   *)
(* and those that are stored do.                                           *)
LEMMA WrittenAgrees ==
    ASSUME OpsAgreed, InStep, NEW c \in Clients, LocalInv(c), pc[c] \in Late, call[c] \in Ops
    PROVE  Agreed(data[c])
  <1>1. Agreed(call[c].data)
    BY DEF OpsAgreed
  <1>2. CASE call[c].kind # "patch"
    BY <1>1, <1>2 DEF LocalInv
  <1>3. CASE call[c].kind = "patch"
    <2>1. /\ key[c] \in DOMAIN db.docs
          /\ data[c] = Merge(db.docs[key[c]], call[c].data)
      BY <1>3 DEF LocalInv
    <2>2. Agreed(db.docs[key[c]])
      BY <2>1 DEF InStep
    <2> QED
      BY <1>1, <2>1, <2>2, MergeAgrees
  <1> QED
    BY <1>2, <1>3

LEMMA InStepKept ==
    ASSUME NoDelete, OpsAgreed, SafeRebuilds, Control, Private, InStep, [Next]_vars
    PROVE  InStep'
  <1>1. ASSUME NEW c \in Clients, Commit(c) PROVE InStep'
    <2>1. /\ db'.docs = DocsOf(c) /\ LocalInv(c) /\ pc[c] = "commit"
          /\ call[c] \in Ops /\ call[c].kind # "delete"
      BY <1>1, CommitEffect DEF Private, Commit, Control, ControlInv, NoDelete
    <2>2. PICK seen \in Scans(DOMAIN DocsOf(c)) : db'.edges = EdgesOf(c, seen)
      BY <1>1, CommitEffect
    <2>3. CASE call[c].kind = "rebuild"
      <3>1. /\ db'.docs = db.docs /\ seen = DOMAIN db.docs
            /\ db'.edges = UNION {RebuildEdges(j, db.docs[j]) : j \in seen}
        BY <2>1, <2>2, <2>3 DEF DocsOf, EdgesOf, Wiped, Linked, Scans, SafeRebuilds, Rebuilds
      <3>2. ASSUME NEW k \in DOMAIN db.docs
            PROVE  SyncEdges(k, db.docs[k]) \subseteq RebuildEdges(k, db.docs[k])
        BY ScannersAgree DEF InStep
      <3> QED
        BY <3>1, <3>2 DEF InStep
    <2>4. CASE call[c].kind # "rebuild"
      <3>1. /\ db'.docs = Put(db.docs, key[c], data[c])
            /\ db'.edges = (db.edges \ OutOf(db.edges, key[c])) \cup SyncEdges(key[c], data[c])
        BY <2>1, <2>2, <2>4 DEF DocsOf, EdgesOf, Wiped, Linked
      <3>2. /\ DOMAIN db'.docs = DOMAIN db.docs \cup {key[c]}
            /\ db'.docs[key[c]] = data[c]
            /\ \A k \in DOMAIN db.docs \ {key[c]} : db'.docs[k] = db.docs[k]
        BY <3>1 DEF Put
      <3>3. Agreed(data[c])
        BY <2>1, WrittenAgrees DEF Late
      <3>4. ASSUME NEW k \in DOMAIN db'.docs
            PROVE  Agreed(db'.docs[k]) /\ SyncEdges(k, db'.docs[k]) \subseteq db'.edges
        <4>1. CASE k = key[c]
          BY <4>1, <3>1, <3>2, <3>3
        <4>2. CASE k # key[c]
          <5>1. /\ k \in DOMAIN db.docs /\ db'.docs[k] = db.docs[k]
                /\ Agreed(db.docs[k]) /\ SyncEdges(k, db.docs[k]) \subseteq db.edges
            BY <4>2, <3>2 DEF InStep
          <5>2. \A e \in SyncEdges(k, db.docs[k]) : e.src = k
            BY SyncSource
          <5> QED
            BY <4>2, <5>1, <5>2, <3>1 DEF OutOf
        <4> QED
          BY <4>1, <4>2
      <3> QED
        BY <3>4 DEF InStep
    <2> QED
      BY <2>3, <2>4
  <1>2. CASE UNCHANGED db
    BY <1>2 DEF InStep
  <1> QED
    BY <1>1, <1>2, OnlyCommits

(* Without Delete, with references on which the scanners agree, and unless *)
(* the cursor of a RebuildGraph breaks, graph_edges is what the documents  *)
(* say in every committed state: after any Creates, Saves, Updates,        *)
(* Patches and rebuilds, failures and crashes.                             *)
THEOREM GraphsMatch ==
    NoDelete /\ OpsAgreed /\ SafeRebuilds => (Spec => []GraphMatchesDocs)
  <1> SUFFICES ASSUME NoDelete, OpsAgreed, SafeRebuilds PROVE Spec => []GraphMatchesDocs
    OBVIOUS
  <1> DEFINE Inv == TypeOK /\ Control /\ Private /\ InStep
  <1>1. Init => Inv
    <2>1. Init => InStep
      BY TablesFields DEF Init, InStep
    <2> QED
      BY <2>1, TypeInit, ControlInit, PrivateInit
  <1>2. Inv /\ [Next]_vars => Inv'
    BY TypeStep, ControlStep, PrivateStep, InStepKept
  <1>3. ASSUME InStep, EdgesSound PROVE GraphMatchesDocs
    <2>1. \A k \in DOMAIN db.docs : SyncEdges(k, db.docs[k]) = VerifyEdges(k, db.docs[k])
      BY <1>3, ScannersAgree DEF InStep
    <2>2. db.edges \subseteq Expected(db.docs)
      <3> SUFFICES ASSUME NEW e \in db.edges PROVE e \in Expected(db.docs)
        OBVIOUS
      <3>1. e.src \in DOMAIN db.docs /\ e \in VerifyEdges(e.src, db.docs[e.src])
        BY <1>3, <2>1 DEF EdgesSound
      <3> QED
        BY <3>1 DEF Expected, ExpectedOf
    <2>3. Expected(db.docs) \subseteq db.edges
      BY <1>3, <2>1 DEF Expected, ExpectedOf, InStep
    <2> QED
      BY <2>2, <2>3 DEF GraphMatchesDocs
  <1>4. Inv /\ EdgesSound => GraphMatchesDocs
    BY <1>3
  <1> HIDE DEF Inv
  <1> QED
    BY <1>1, <1>2, <1>4, EdgesAreSound, PTL DEF Spec
==============================================================================
