------------------------- MODULE JSONFileStoreProofs --------------------------
(***************************************************************************)
(* Proofs about JSONFileStore, for any number of clients, types and        *)
(* fields: types, why a file can be torn, the ids of NextID, what List     *)
(* misses, what Update and Patch write over, and the files of Create.     *)
(***************************************************************************)
EXTENDS JSONFileStore, FiniteSetTheorems, TLAPS

LEMMA FileParts == ASSUME NEW d, NEW n PROVE File(d, n).doc = d /\ File(d, n).size = n
  BY DEF File

LEMMA SizeType == ASSUME NEW d PROVE Size(d) \in Nat \ {0}
  <1>1. IsFiniteSet({f \in Fields : d[f] # Absent})
    BY ObjectsAreFinite, FS_Subset
  <1> QED
    BY <1>1, FS_CardinalityType DEF Size

LEMMA IdsAreIntegers == Ids \subseteq Int /\ 0 \in Ids /\ 1 \in Ids
  BY IntWidth DEF Ids, MinInt

LEMMA SuccType == ASSUME NEW n \in Ids PROVE GoSucc(n) \in Ids
  BY IntWidth DEF GoSucc, Ids, MinInt

LEMMA CallType ==
    ASSUME TypeOK, NEW c \in Clients, pc[c] # "idle"
    PROVE  /\ call[c] \in Ops /\ call[c].data \in Documents
           /\ TypeOf(c) \in Types /\ KeyOf(c) \in Keys
  <1>1. call[c] \in Ops
    BY DEF TypeOK
  <1>2. call[c] \in Operations
    BY <1>1, JSONOpsAreCalls
  <1>3. call[c].key \in Types \X Ids /\ call[c].data \in Documents
    BY <1>2 DEF Operations, Keys
  <1>4. id[c] \in Ids
    BY DEF TypeOK
  <1> QED
    BY <1>1, <1>3, <1>4 DEF TypeOf, KeyOf, Keys

LEMMA MergeType ==
    ASSUME NEW d \in Documents, NEW p \in Documents
    PROVE  Overlay(d, p) \in Documents
  BY DEF Overlay, Documents

LEMMA EmptyDocType == EmptyDoc \in Documents
  BY DEF EmptyDoc, Documents

(* What TypeOK says of the files.                                          *)
FilesOK(fs) == /\ DOMAIN fs \subseteq Keys
               /\ \A k \in DOMAIN fs : /\ fs[k].doc \in Documents \cup {Torn}
                                       /\ fs[k].size \in Nat

LEMMA PutFile ==
    ASSUME NEW fs, FilesOK(fs), NEW k \in Keys, NEW d \in Documents \cup {Torn}, NEW n \in Nat
    PROVE  FilesOK(Put(fs, k, File(d, n)))
  BY FileParts DEF FilesOK, Put

(* The part of TypeOK about who is where.                                  *)
Control(c) ==
    /\ pc[c] = "idle" <=> call[c] = NoOp
    /\ \A t \in Types : lock[t] = c <=> pc[c] = "putid" /\ TypeOf(c) = t
    /\ pc[c] \in {"seq", "putid"} => call[c].kind = "create"

LEMMA TypeParts == TypeOK <=>
    /\ FilesOK(files)
    /\ seq \in [Types -> Ids \cup {NoFile, Torn}]
    /\ lock \in [Types -> Clients \cup {NoClient}]
    /\ call \in [Clients -> Ops \cup {NoOp}]
    /\ pc \in [Clients -> Steps]
    /\ id \in [Clients -> Ids]
    /\ doc \in [Clients -> Documents]
    /\ open \subseteq {c \in Clients : pc[c] = "write"}
    /\ ret \in [Clients -> {"ok", "notfound", "exists", "error"}]
    /\ \A c \in Clients : Control(c)
  BY DEF TypeOK, FilesOK, Control

LEMMA TypeNext ==
    ASSUME FilesOK(files)',
           seq' \in [Types -> Ids \cup {NoFile, Torn}],
           lock' \in [Types -> Clients \cup {NoClient}],
           call' \in [Clients -> Ops \cup {NoOp}],
           pc' \in [Clients -> Steps],
           id' \in [Clients -> Ids],
           doc' \in [Clients -> Documents],
           open' \subseteq {c \in Clients : pc'[c] = "write"},
           ret' \in [Clients -> {"ok", "notfound", "exists", "error"}],
           \A c \in Clients : Control(c)'
    PROVE  TypeOK'
  BY DEF TypeOK, FilesOK, Control, TypeOf

(* A call that moves from one step to another outside of NextID.           *)
LEMMA MoveType ==
    ASSUME TypeOK, NEW c \in Clients, pc[c] \notin {"idle", "putid"},
           NEW s \in Steps \ {"idle", "seq", "putid"}, pc' = [pc EXCEPT ![c] = s],
           UNCHANGED <<lock, call>>
    PROVE  /\ pc' \in [Clients -> Steps] /\ pc[c] # "idle"
           /\ \A d \in Clients : Control(d)'
           /\ \A d \in Clients : pc'[d] = IF d = c THEN s ELSE pc[d]
  BY DEF TypeOK, Control, Steps, TypeOf

LEMMA FinishType ==
    ASSUME TypeOK, NEW c \in Clients, NEW r \in {"ok", "notfound", "exists", "error"}, Finish(c, r)
    PROVE  ret' \in [Clients -> {"ok", "notfound", "exists", "error"}]
  BY DEF TypeOK, Finish

LEMMA InvokeType == ASSUME TypeOK, NEW c \in Clients, Invoke(c) PROVE TypeOK'
  <1>1. PICK o \in Ops : /\ call' = [call EXCEPT ![c] = o] /\ doc' = [doc EXCEPT ![c] = o.data]
                         /\ pc' = [pc EXCEPT ![c] = Entry(o)] /\ UNCHANGED ret
    BY DEF Invoke, Goto
  <1>2. o.data \in Documents /\ o # NoOp
    BY JSONOpsAreCalls DEF Operations
  <1>3. Entry(o) \in Steps \ {"idle", "putid", "write"} /\ (Entry(o) = "seq" => o.kind = "create")
    BY DEF Entry, Steps
  <1>4. UNCHANGED <<files, seq, lock, id, open>> /\ pc[c] = "idle"
    BY DEF Invoke, At, disk
  <1>5. \A d \in Clients : Control(d)'
    BY <1>1, <1>2, <1>3, <1>4 DEF TypeOK, Control, TypeOf
  <1>6. FilesOK(files)'
    BY <1>4, TypeParts DEF FilesOK
  <1> QED
    BY <1>1, <1>2, <1>3, <1>4, <1>5, <1>6, TypeParts, TypeNext DEF TypeOK

LEMMA ReturnType == ASSUME TypeOK, NEW c \in Clients, Return(c) PROVE TypeOK'
  <1>1. UNCHANGED <<files, seq, lock, open>>
    BY DEF Return, disk
  <1>2. \A d \in Clients : Control(d)'
    BY <1>1, JSONOpsAreCalls DEF TypeOK, Control, TypeOf, Return, At
  <1>3. FilesOK(files)'
    BY <1>1, TypeParts DEF FilesOK
  <1> QED
    BY <1>1, <1>2, <1>3, TypeParts, TypeNext, EmptyDocType, IdsAreIntegers DEF Return, Steps, At

LEMMA NextIDType == ASSUME TypeOK, NEW c \in Clients, NextID(c) PROVE TypeOK'
  <1>1. CASE TakeId(c)
    <2>1. TypeOf(c) \in Types
      BY <1>1, CallType DEF TakeId, At
    <2>2. NextOf(seq[TypeOf(c)]) \subseteq Ids
      BY IdsAreIntegers DEF NextOf
    <2>3. UNCHANGED <<files, call, doc, open, ret>> /\ pc[c] = "seq" /\ pc' = [pc EXCEPT ![c] = "putid"]
      BY <1>1 DEF TakeId, At, Goto
    <2>4. \A d \in Clients : Control(d)'
      BY <1>1, <2>1, <2>3, NobodyIsNoClient DEF TakeId, TypeOK, Control, TypeOf
    <2>5. FilesOK(files)'
      BY <2>3, TypeParts DEF FilesOK
    <2>6. id' \in [Clients -> Ids]
      BY <1>1, <2>2, TypeParts DEF TakeId
    <2> QED
      BY <1>1, <2>1, <2>3, <2>4, <2>5, <2>6, TypeParts, TypeNext DEF TakeId, Steps
  <1>2. CASE PutId(c)
    <2>1. TypeOf(c) \in Types
      BY <1>2, CallType DEF PutId, At
    <2>2. UNCHANGED <<files, id, call, doc, open, ret>> /\ pc[c] = "putid" /\ pc' = [pc EXCEPT ![c] = "open"]
      BY <1>2 DEF PutId, At, Goto, locals
    <2>3. \A d \in Clients : Control(d)'
      BY <1>2, <2>1, <2>2, NobodyIsNoClient DEF PutId, TypeOK, Control, TypeOf
    <2>4. FilesOK(files)'
      BY <2>2, TypeParts DEF FilesOK
    <2>5. NextAfter(id[c]) \in Ids
      BY SuccType, TypeParts DEF NextAfter
    <2> QED
      BY <1>2, <2>1, <2>2, <2>3, <2>4, <2>5, TypeParts, TypeNext DEF PutId, Steps
  <1>3. CASE NoId(c)
    <2>1. UNCHANGED <<files, seq, id, call, doc, open>> /\ pc' = [pc EXCEPT ![c] = "done"]
      BY <1>3 DEF NoId, disk, locals, Finish
    <2>2. FilesOK(files)'
      BY <2>1, TypeParts DEF FilesOK
    <2>3. ret' \in [Clients -> {"ok", "notfound", "exists", "error"}]
      BY <1>3, FinishType DEF NoId
    <2>4. (\A d \in Clients : Control(d)') /\ lock' \in [Types -> Clients \cup {NoClient}] /\ pc[c] # "write"
      <3>1. CASE At(c, "seq") /\ UNCHANGED lock
        BY <2>1, <3>1 DEF TypeOK, Control, TypeOf, At
      <3>2. CASE At(c, "putid") /\ lock' = [lock EXCEPT ![TypeOf(c)] = NoClient]
        <4>1. TypeOf(c) \in Types
          BY <3>2, CallType DEF At
        <4> QED
          BY <2>1, <3>2, <4>1, NobodyIsNoClient DEF TypeOK, Control, TypeOf, At
      <3> QED
        BY <1>3, <3>1, <3>2 DEF NoId
    <2> QED
      BY <2>1, <2>2, <2>3, <2>4, TypeParts, TypeNext DEF Steps
  <1> QED
    BY <1>1, <1>2, <1>3 DEF NextID

(* Steps that touch neither the lock nor the files.                        *)
LEMMA QuietType ==
    ASSUME TypeOK, NEW c \in Clients, pc[c] \notin {"idle", "putid", "write"},
           NEW s \in Steps \ {"idle", "seq", "putid"}, pc' = [pc EXCEPT ![c] = s],
           UNCHANGED <<files, seq, lock, call, id, open>>,
           doc' \in [Clients -> Documents],
           ret' \in [Clients -> {"ok", "notfound", "exists", "error"}]
    PROVE  TypeOK'
  <1>1. FilesOK(files)'
    BY TypeParts DEF FilesOK
  <1>2. \A d \in Clients : Control(d)'
    BY MoveType
  <1>3. open' \subseteq {d \in Clients : pc'[d] = "write"}
    BY MoveType, TypeParts
  <1> QED
    BY <1>1, <1>2, <1>3, MoveType, TypeParts, TypeNext

LEMMA StatType == ASSUME TypeOK, NEW c \in Clients, Stat(c) PROVE TypeOK'
  <1>1. UNCHANGED <<files, seq, lock, call, id, doc, open>> /\ pc[c] = "stat"
    BY DEF Stat, At, disk, locals
  <1>2. \/ \E r \in {"exists", "notfound"} : Finish(c, r)
        \/ \E s \in {"open", "remove"} : Goto(c, s)
    BY DEF Stat
  <1>3. ASSUME NEW r \in {"exists", "notfound"}, Finish(c, r) PROVE TypeOK'
    BY <1>1, <1>3, FinishType, QuietType, TypeParts DEF Finish, Steps
  <1>4. ASSUME NEW s \in {"open", "remove"}, Goto(c, s) PROVE TypeOK'
    BY <1>1, <1>4, QuietType, TypeParts DEF Goto, Steps
  <1> QED
    BY <1>2, <1>3, <1>4

LEMMA ReadType == ASSUME TypeOK, NEW c \in Clients, Read(c) PROVE TypeOK'
  <1>1. UNCHANGED <<files, seq, lock, call, id, open>> /\ pc[c] = "read"
    BY DEF Read, At, disk
  <1>2. CASE Goto(c, "stat") /\ Whole(KeyOf(c)) /\ doc' = [doc EXCEPT ![c] = Overlay(files[KeyOf(c)].doc, @)]
    <2>1. files[KeyOf(c)].doc \in Documents
      BY <1>2, TypeParts DEF Whole, FilesOK
    <2>2. doc' \in [Clients -> Documents]
      BY <1>2, <2>1, MergeType, TypeParts
    <2> QED
      BY <1>1, <1>2, <2>2, QuietType, TypeParts DEF Goto, Steps
  <1>3. ASSUME NEW r \in {"ok", "notfound", "error"}, Finish(c, r), UNCHANGED doc PROVE TypeOK'
    BY <1>1, <1>3, FinishType, QuietType, TypeParts DEF Finish, Steps
  <1> QED
    BY <1>2, <1>3 DEF Read

(* Steps that finish a call or go on, and change files and open.           *)
LEMMA DiskType ==
    ASSUME TypeOK, NEW c \in Clients, pc[c] \notin {"idle", "putid"},
           NEW s \in Steps \ {"idle", "seq", "putid"}, pc' = [pc EXCEPT ![c] = s],
           UNCHANGED <<seq, lock, call, id, doc>>,
           FilesOK(files'),
           open' \subseteq open \cup {c}, s # "write" => c \notin open',
           ret' \in [Clients -> {"ok", "notfound", "exists", "error"}]
    PROVE  TypeOK'
  <1>1. FilesOK(files)'
    BY DEF FilesOK
  <1>2. \A d \in Clients : Control(d)'
    BY MoveType
  <1>3. open' \subseteq {d \in Clients : pc'[d] = "write"}
    BY MoveType, TypeParts
  <1> QED
    BY <1>1, <1>2, <1>3, MoveType, TypeParts, TypeNext

(* A file that can be written by name is there.                            *)
OpenHave == \A c \in open : KeyOf(c) \in DOMAIN files

LEMMA WriteFileType == ASSUME TypeOK, OpenHave, NEW c \in Clients, WriteFile(c) PROVE TypeOK'
  <1>1. pc[c] \in {"open", "write"} /\ UNCHANGED <<seq, lock, call, id, doc>>
    BY DEF WriteFile, Open, Write, FailToOpen, FailToWrite, At, disk, locals
  <1>2. KeyOf(c) \in Keys /\ doc[c] \in Documents
    BY <1>1, CallType, TypeParts
  <1>3. CASE Open(c)
    <2>1. FilesOK(files')
      <3>1. FilesOK(Put(files, KeyOf(c), File(Torn, 0)))
        BY <1>2, PutFile, TypeParts
      <3> QED
        BY <1>3, <3>1 DEF Open, Opened, Hollow
    <2> QED
      BY <1>1, <1>3, <2>1, DiskType, TypeParts DEF Open, Goto, Steps
  <1>4. CASE Write(c)
    <2>1. FilesOK(files')
      <3>1. CASE c \in open
        <4>1. files' = Put(files, KeyOf(c), Written(files[KeyOf(c)], doc[c]))
          BY <1>4, <3>1 DEF Write
        <4>2. CASE files[KeyOf(c)].size > Size(doc[c])
          <5>1. files[KeyOf(c)].size \in Nat
            BY <3>1, TypeParts DEF FilesOK, OpenHave
          <5>2. Written(files[KeyOf(c)], doc[c]) = File(Torn, files[KeyOf(c)].size)
            BY <4>2 DEF Written
          <5> QED
            BY <1>2, <4>1, <5>1, <5>2, PutFile, TypeParts
        <4>3. CASE ~(files[KeyOf(c)].size > Size(doc[c]))
          <5>1. Written(files[KeyOf(c)], doc[c]) = File(doc[c], Size(doc[c]))
            BY <4>3 DEF Written
          <5> QED
            BY <1>2, <4>1, <5>1, PutFile, SizeType, TypeParts
        <4> QED
          BY <4>2, <4>3
      <3>2. CASE c \notin open
        BY <1>4, <3>2, TypeParts DEF Write
      <3> QED
        BY <3>1, <3>2
    <2>2. Finish(c, "ok") /\ open' = open \ {c}
      BY <1>4 DEF Write
    <2> QED
      BY <1>1, <2>1, <2>2, FinishType, DiskType DEF Finish, Steps
  <1>5. CASE FailToOpen(c)
    BY <1>1, <1>5, FinishType, QuietType, TypeParts DEF FailToOpen, Finish, Steps, At, disk, locals
  <1>6. CASE FailToWrite(c)
    <2>1. FilesOK(files')
      <3>1. CASE c \in open
        <4>1. PICK n \in 0 .. Size(doc[c]) - 1 :
                 files' = Put(files, KeyOf(c), Spilled(files[KeyOf(c)], n))
          BY <1>6, <3>1 DEF FailToWrite
        <4>2. KeyOf(c) \in DOMAIN files
          BY <3>1 DEF OpenHave
        <4>3. CASE n = 0
          BY <4>1, <4>2, <4>3, TypeParts DEF Spilled, Put, FilesOK
        <4>4. CASE n # 0
          <5>1. n \in Nat /\ files[KeyOf(c)].size \in Nat
            BY <4>2, SizeType, TypeParts DEF FilesOK
          <5>2. \E i \in Nat : Spilled(files[KeyOf(c)], n) = File(Torn, i)
            BY <4>4, <5>1 DEF Spilled
          <5> QED
            BY <1>2, <4>1, <5>2, PutFile, TypeParts
        <4> QED
          BY <4>3, <4>4
      <3>2. CASE c \notin open
        BY <1>6, <3>2, TypeParts DEF FailToWrite
      <3> QED
        BY <3>1, <3>2
    <2>2. Finish(c, "error") /\ open' = open \ {c}
      BY <1>6 DEF FailToWrite
    <2> QED
      BY <1>1, <2>1, <2>2, FinishType, DiskType DEF Finish, Steps
  <1> QED
    BY <1>3, <1>4, <1>5, <1>6 DEF WriteFile

LEMMA RemoveType == ASSUME TypeOK, NEW c \in Clients, Remove(c) PROVE TypeOK'
  <1>1. pc[c] = "remove" /\ UNCHANGED <<seq, lock, call, id, doc>>
    BY DEF Remove, At, locals
  <1>2. /\ files' = Drop(files, KeyOf(c)) \/ files' = files
        /\ open' \subseteq open
        /\ \E r \in {"ok", "error"} : Finish(c, r)
    BY DEF Remove
  <1>3. FilesOK(files')
    BY <1>2, TypeParts DEF FilesOK, Drop
  <1>4. c \notin open
    BY <1>1, TypeParts
  <1> QED
    BY <1>1, <1>2, <1>3, <1>4, FinishType, DiskType DEF Finish, Steps

LEMMA ListType == ASSUME TypeOK, NEW c \in Clients, List(c) PROVE TypeOK'
  <1>1. pc[c] \in {"dir", "scan"} /\ UNCHANGED <<files, seq, lock, call, id, doc, open>>
    BY DEF List, ReadDir, ReadOne, FailToReadDir, At, disk, locals
  <1>2. \/ \E r \in {"ok", "error"} : Finish(c, r)
        \/ Goto(c, "scan")
        \/ UNCHANGED <<pc, ret>>
    BY DEF List, ReadDir, ReadOne, FailToReadDir
  <1>3. ASSUME NEW r \in {"ok", "error"}, Finish(c, r) PROVE TypeOK'
    BY <1>1, <1>3, FinishType, QuietType, TypeParts DEF Finish, Steps
  <1>4. CASE Goto(c, "scan")
    BY <1>1, <1>4, QuietType, TypeParts DEF Goto, Steps
  <1>5. CASE UNCHANGED <<pc, ret>>
    BY <1>1, <1>5 DEF TypeOK, TypeOf
  <1> QED
    BY <1>2, <1>3, <1>4, <1>5

LEMMA CrashType == ASSUME TypeOK, Crash PROVE TypeOK'
  BY TypeNext, EmptyDocType, IdsAreIntegers, NobodyIsNoClient, TypeParts
     DEF Crash, Control, Steps, disk, FilesOK, TypeOf

LEMMA TypeStep == ASSUME TypeOK, OpenHave, [Next]_vars PROVE TypeOK'
  <1>1. CASE UNCHANGED vars
    BY <1>1 DEF TypeOK, TypeOf, vars, disk, locals
  <1>2. ASSUME NEW c \in Clients, Step(c) PROVE TypeOK'
    BY <1>2, NextIDType, StatType, ReadType, WriteFileType, RemoveType, ListType, ReturnType DEF Step
  <1> QED
    BY <1>1, <1>2, InvokeType, CrashType DEF Next

(* A client with a file to open or to write keeps its call and its id.     *)
LEMMA SameWriters ==
    ASSUME TypeOK, [Next]_vars, NEW d \in Clients, pc[d] \in {"open", "write"}, ~Crash
    PROVE  call'[d] = call[d] /\ id'[d] = id[d] /\ KeyOf(d)' = KeyOf(d)
  <1>1. call'[d] = call[d] /\ id'[d] = id[d]
    BY DEF Next, Invoke, Step, NextID, TakeId, PutId, NoId, Stat, Read, WriteFile, Open, Write,
           FailToOpen, FailToWrite, Remove, List, ReadDir, ReadOne, FailToReadDir, Return,
           vars, disk, locals, At, TypeOK
  <1> QED
    BY <1>1 DEF KeyOf, TypeOf

(***************************************************************************)
(* Why a file is torn.  A file nobody shook is whole and has no writer, or *)
(* is still empty and has one.                                             *)
(***************************************************************************)
Explained(k) == \/ Whole(k) /\ WritersOf(k) = {}
                \/ k \in shaken
                \/ files[k].size = 0 /\ \E c \in open : WritersOf(k) = {c}

FileInv == OpenHave /\ \A k \in DOMAIN files : Explained(k)

LEMMA OpenStep ==
    ASSUME TypeOK, FileInv, NEW c \in Clients, Open(c), [Next]_vars PROVE FileInv'
  <1> DEFINE q == KeyOf(c)
  <1>1. /\ c \notin open /\ open' = open \cup {c} /\ pc[c] = "open"
        /\ files' = Put(files, q, Hollow)
        /\ shaken' = IF WritersOf(q) = {} THEN shaken ELSE shaken \cup {q}
    BY TypeParts DEF Open, Opened, At
  <1>2. ~Crash
    BY <1>1 DEF Crash
  <1>3. \A d \in open' : KeyOf(d)' = KeyOf(d)
    BY <1>1, <1>2, SameWriters, TypeParts
  <1>4. \A k : WritersOf(k)' = WritersOf(k) \cup (IF k = q THEN {c} ELSE {})
    BY <1>1, <1>3 DEF WritersOf
  <1>5. OpenHave'
    BY <1>1, <1>3 DEF OpenHave, FileInv, Put
  <1>6. ASSUME NEW k \in DOMAIN files' PROVE Explained(k)'
    <2>1. CASE k = q
      <3>1. files'[k].size = 0
        BY <1>1, <2>1, FileParts DEF Put, Hollow
      <3>2. WritersOf(k) = {} => WritersOf(k)' = {c}
        BY <1>4, <2>1
      <3> QED
        BY <1>1, <2>1, <3>1, <3>2 DEF Explained
    <2>2. CASE k # q
      <3>1. k \in DOMAIN files /\ files'[k] = files[k] /\ WritersOf(k)' = WritersOf(k)
        BY <1>1, <1>4, <2>2 DEF Put
      <3> QED
        BY <1>1, <3>1 DEF Explained, FileInv, Whole
    <2> QED
      BY <2>1, <2>2
  <1> QED
    BY <1>5, <1>6 DEF FileInv

LEMMA WriteStep ==
    ASSUME TypeOK, FileInv, NEW c \in Clients, Write(c) \/ FailToWrite(c), [Next]_vars
    PROVE  FileInv'
  <1> DEFINE q == KeyOf(c)
  <1>1. open' = open \ {c} /\ pc[c] = "write" /\ doc[c] \in Documents
    BY TypeParts DEF Write, FailToWrite, At
  <1>2. ~Crash
    BY <1>1, JSONOpsAreCalls DEF Crash, Write, FailToWrite, Finish, TypeOK, Steps
  <1>3. \A d \in open' : KeyOf(d)' = KeyOf(d)
    BY <1>1, <1>2, SameWriters, TypeParts
  <1>4. \A k : WritersOf(k)' = WritersOf(k) \ {c}
    BY <1>1, <1>3 DEF WritersOf
  <1>5. DOMAIN files' = DOMAIN files
    BY DEF Write, FailToWrite, Put, FileInv, OpenHave
  <1>6. OpenHave'
    BY <1>1, <1>3, <1>5 DEF OpenHave, FileInv
  <1>7. ASSUME NEW k \in DOMAIN files PROVE Explained(k)'
    <2>1. CASE c \notin open
      <3>1. UNCHANGED <<files, shaken>> /\ WritersOf(k)' = WritersOf(k) /\ open' = open
        BY <1>1, <1>4, <2>1 DEF Write, FailToWrite, WritersOf
      <3> QED
        BY <3>1 DEF Explained, FileInv, Whole
    <2>2. CASE c \in open /\ k # q
      <3>1. files'[k] = files[k] /\ shaken \subseteq shaken'
        BY <2>2 DEF Write, FailToWrite, Put
      <3>2. WritersOf(k)' = WritersOf(k) /\ c \notin WritersOf(k)
        BY <1>4, <2>2 DEF WritersOf
      <3>3. \A d \in open : WritersOf(k) = {d} => d \in open'
        BY <1>1, <3>2
      <3> QED
        BY <1>5, <3>1, <3>2, <3>3 DEF Explained, FileInv, Whole
    <2>3. CASE c \in open /\ k = q /\ FailToWrite(c)
      BY <2>3 DEF FailToWrite, Explained
    <2>4. CASE c \in open /\ k = q /\ Write(c) /\ k \notin shaken
      <3>1. c \in WritersOf(k)
        BY <2>4 DEF WritersOf
      <3>2. files[k].size = 0 /\ WritersOf(k) = {c}
        BY <2>4, <3>1 DEF FileInv, Explained
      <3>3. files' = Put(files, k, Written(files[k], doc[c]))
        BY <2>4 DEF Write
      <3>4. Written(files[k], doc[c]) = File(doc[c], Size(doc[c]))
        BY <3>2, SizeType DEF Written
      <3>5. files'[k].doc = doc[c]
        BY <3>3, <3>4, FileParts DEF Put
      <3>6. Whole(k)' /\ WritersOf(k)' = {}
        BY <1>1, <1>4, <1>5, <3>2, <3>5, MarksAreMarks DEF Whole
      <3> QED
        BY <3>6 DEF Explained
    <2>5. CASE k \in shaken /\ Write(c)
      BY <2>5 DEF Write, Explained
    <2> QED
      BY <2>1, <2>2, <2>3, <2>4, <2>5
  <1> QED
    BY <1>5, <1>6, <1>7 DEF FileInv

LEMMA RemoveStep ==
    ASSUME TypeOK, FileInv, NEW c \in Clients, Remove(c), [Next]_vars PROVE FileInv'
  <1> DEFINE q == KeyOf(c)
  <1>1. pc[c] = "remove" /\ open' \subseteq open
    BY DEF Remove, At
  <1>2. ~Crash
    BY <1>1, JSONOpsAreCalls DEF Crash, Remove, Finish, TypeOK, Steps
  <1>3. \A d \in open : KeyOf(d)' = KeyOf(d)
    BY <1>2, SameWriters, TypeParts
  <1>4. CASE UNCHANGED <<files, open, shaken>>
    <2>1. \A k : WritersOf(k)' = WritersOf(k)
      BY <1>3, <1>4 DEF WritersOf
    <2> QED
      BY <1>3, <1>4, <2>1 DEF FileInv, Explained, Whole, OpenHave
  <1>5. CASE files' = Drop(files, q) /\ open' = open \ WritersOf(q) /\ shaken' = shaken \ {q}
    <2>1. \A k : k # q => WritersOf(k)' = WritersOf(k)
      BY <1>3, <1>5 DEF WritersOf
    <2>2. OpenHave'
      BY <1>3, <1>5 DEF OpenHave, FileInv, Drop, WritersOf
    <2>3. ASSUME NEW k \in DOMAIN files' PROVE Explained(k)'
      <3>1. k \in DOMAIN files /\ k # q /\ files'[k] = files[k]
        BY <1>5 DEF Drop
      <3>2. \A d \in open : WritersOf(k) = {d} => d \in open'
        BY <1>5, <3>1 DEF WritersOf
      <3> QED
        BY <1>5, <2>1, <3>1, <3>2 DEF Explained, FileInv, Whole
    <2> QED
      BY <2>2, <2>3 DEF FileInv
  <1> QED
    BY <1>4, <1>5 DEF Remove

LEMMA CrashStep == ASSUME TypeOK, FileInv, Crash PROVE FileInv'
  <1>1. /\ files' = files /\ open' = {} /\ shaken' = shaken \cup {KeyOf(c) : c \in open}
    BY DEF Crash, disk
  <1>2. ASSUME NEW k \in DOMAIN files PROVE Explained(k)'
    <2>1. WritersOf(k)' = {}
      BY <1>1 DEF WritersOf
    <2>2. ASSUME NEW c \in open, WritersOf(k) = {c} PROVE k \in shaken'
      BY <1>1, <2>2 DEF WritersOf
    <2> QED
      BY <1>1, <2>1, <2>2 DEF FileInv, Explained, Whole
  <1> QED
    BY <1>1, <1>2 DEF FileInv, OpenHave

LEMMA OtherStep ==
    ASSUME TypeOK, FileInv, [Next]_vars, ~Crash, UNCHANGED <<files, open, shaken>>
    PROVE  FileInv'
  <1>1. \A d \in open : KeyOf(d)' = KeyOf(d)
    BY SameWriters, TypeParts
  <1>2. \A k : WritersOf(k)' = WritersOf(k)
    BY <1>1 DEF WritersOf
  <1> QED
    BY <1>1, <1>2 DEF FileInv, Explained, Whole, OpenHave

LEMMA FileStep == ASSUME TypeOK, FileInv, [Next]_vars PROVE FileInv'
  <1>1. CASE Crash
    BY <1>1, CrashStep
  <1>2. CASE UNCHANGED <<files, open, shaken>> /\ ~Crash
    BY <1>2, OtherStep
  <1>3. ASSUME NEW c \in Clients, Step(c) \/ Invoke(c)
        PROVE  \/ UNCHANGED <<files, open, shaken>>
               \/ Open(c) \/ Write(c) \/ FailToWrite(c) \/ Remove(c)
    BY <1>3 DEF Step, NextID, TakeId, PutId, NoId, Stat, Read, WriteFile, FailToOpen,
                List, ReadDir, ReadOne, FailToReadDir, Return, Invoke, disk, history
  <1>4. \/ Crash \/ UNCHANGED vars
        \/ \E c \in Clients : Invoke(c) \/ Step(c)
    BY DEF Next
  <1>5. CASE UNCHANGED vars
    BY <1>1, <1>2, <1>5 DEF vars, disk, history
  <1> QED
    BY <1>1, <1>2, <1>3, <1>4, <1>5, OpenStep, WriteStep, RemoveStep

LEMMA TypeInit == Init => TypeOK
  <1> SUFFICES ASSUME Init PROVE TypeOK
    OBVIOUS
  <1> QED
    BY TypeParts, EmptyDocType, IdsAreIntegers, NobodyIsNoClient
       DEF Init, Control, Steps, FilesOK, TypeOf, EmptyMap

LEMMA FileInit == Init => FileInv
  BY DEF Init, FileInv, OpenHave, EmptyMap

LEMMA BothNext == TypeOK /\ FileInv /\ [Next]_vars => (TypeOK /\ FileInv)'
  BY TypeStep, FileStep DEF FileInv

(* The calls go from one system call to the next in the order of the code, *)
(* and a type's lock is held exactly by the Create between the reading and *)
(* the writing of its id.                                                  *)
THEOREM TypeCorrect == Spec => []TypeOK
  BY TypeInit, FileInit, BothNext, PTL DEF Spec

(* A file that does not parse is being written, or its writers overlapped, *)
(* failed or were stopped.                                                 *)
THEOREM TearsAreExplained == Spec => []TornIsExplained
  <1>1. FileInv => TornIsExplained
    BY DEF FileInv, Explained, TornIsExplained
  <1> QED
    BY <1>1, TypeInit, FileInit, BothNext, PTL DEF Spec

(***************************************************************************)
(* The ids of a process that is not stopped, on a disk that does not fail: *)
(* a free type's file holds a number above all ids it gave away.           *)
(***************************************************************************)
Above(t, n) == MaxInt \in issued[t] \/ \A i \in issued[t] : i < n

Counts(t) == /\ issued[t] \subseteq Ids
             /\ seq[t] = NoFile => issued[t] = {}
             /\ lock[t] = NoClient => seq[t] # Torn
             /\ lock[t] = NoClient /\ seq[t] \in Ids => Above(t, seq[t])
             /\ \A c \in Clients : lock[t] = c => Above(t, id[c])

SeqInv == /\ issued = [t \in Types |-> issued[t]]
          /\ \A t \in Types : Counts(t)

LEMMA TakeStep ==
    ASSUME TypeOK, SeqInv, ~Faults, NEW c \in Clients, TakeId(c) PROVE SeqInv'
  <1>1. PICK u \in Types : u = TypeOf(c)
    BY CallType DEF TakeId, At
  <1>2. PICK n : n = IF seq[u] \in Ids THEN seq[u] ELSE 1
    OBVIOUS
  <1>3. /\ lock[u] = NoClient /\ lock' = [lock EXCEPT ![u] = c]
        /\ seq' = [seq EXCEPT ![u] = Torn] /\ issued' = issued
        /\ id' = [id EXCEPT ![c] = n] /\ pc[c] = "seq"
    BY <1>1, <1>2 DEF TakeId, NextOf, history, At
  <1>4. Counts(u)
    BY DEF SeqInv
  <1>5. Above(u, n)
    BY <1>2, <1>3, <1>4 DEF TypeOK, Counts, Above
  <1>6. lock'[u] = c /\ id'[c] = n /\ seq'[u] = Torn
    BY <1>3 DEF TypeOK
  <1>7. Counts(u)'
    BY <1>3, <1>4, <1>5, <1>6, MarksAreMarks, NobodyIsNoClient DEF Counts, Above
  <1>8. ASSUME NEW t \in Types, t # u PROVE Counts(t)'
    <2>1. \A d \in Clients : lock[t] = d => d # c
      BY <1>3 DEF TypeOK
    <2>2. seq'[t] = seq[t] /\ lock'[t] = lock[t]
      BY <1>3, <1>8 DEF TypeOK
    <2>3. \A d \in Clients : lock[t] = d => id'[d] = id[d]
      BY <1>3, <2>1 DEF TypeOK
    <2> QED
      BY <1>3, <2>2, <2>3 DEF SeqInv, Counts, Above
  <1> QED
    BY <1>3, <1>7, <1>8 DEF SeqInv

LEMMA PutStep ==
    ASSUME TypeOK, SeqInv, NEW c \in Clients, PutId(c) PROVE SeqInv'
  <1>1. PICK u \in Types : u = TypeOf(c)
    BY CallType DEF PutId, At
  <1>2. PICK n \in Ids : n = id[c]
    BY DEF TypeOK
  <1>3. /\ lock' = [lock EXCEPT ![u] = NoClient] /\ seq' = [seq EXCEPT ![u] = GoSucc(n)]
        /\ issued' = [issued EXCEPT ![u] = @ \cup {n}] /\ id' = id
    BY <1>1, <1>2 DEF PutId, NextAfter, locals
  <1>4. DOMAIN issued = Types /\ DOMAIN seq = Types /\ DOMAIN lock = Types
    BY DEF SeqInv, TypeOK
  <1>5. issued'[u] = issued[u] \cup {n} /\ seq'[u] = GoSucc(n) /\ lock'[u] = NoClient
    BY <1>3, <1>4
  <1>6. lock[u] = c /\ Counts(u)
    BY <1>1 DEF PutId, At, TypeOK, SeqInv
  <1>7. GoSucc(n) \in Ids /\ (n # MaxInt => n < GoSucc(n))
    BY SuccType, IntWidth DEF GoSucc, Ids, MinInt
  <1>8. MaxInt \in issued'[u] \/ \A i \in issued'[u] : i < GoSucc(n)
    <2>1. CASE n = MaxInt \/ MaxInt \in issued[u]
      BY <1>5, <2>1
    <2>2. CASE n # MaxInt /\ MaxInt \notin issued[u]
      <3>1. \A i \in issued[u] : i \in Int /\ i < n
        BY <1>2, <1>6, <2>2, IdsAreIntegers DEF Counts, Above
      <3>2. n \in Int /\ GoSucc(n) \in Int
        BY <1>7, IdsAreIntegers
      <3> HIDE DEF GoSucc
      <3> QED
        BY <1>5, <1>7, <2>2, <3>1, <3>2
    <2> QED
      BY <2>1, <2>2
  <1>9. Counts(u)'
    BY <1>5, <1>6, <1>7, <1>8, MarksAreMarks, NobodyIsNoClient DEF Counts, Above
  <1>10. ASSUME NEW t \in Types, t # u PROVE Counts(t)'
    <2>1. issued'[t] = issued[t] /\ seq'[t] = seq[t] /\ lock'[t] = lock[t]
      BY <1>3, <1>4, <1>10
    <2> QED
      BY <1>3, <2>1 DEF SeqInv, Counts, Above
  <1>11. issued' = [t \in Types |-> issued'[t]]
    BY <1>3 DEF SeqInv
  <1> QED
    BY <1>9, <1>10, <1>11 DEF SeqInv

LEMMA SeqStep ==
    ASSUME TypeOK, SeqInv, ~Faults, ~Crashes, [Next]_vars PROVE SeqInv'
  <1>1. ASSUME UNCHANGED <<seq, lock, id, issued>> PROVE SeqInv'
    BY <1>1 DEF SeqInv, Counts, Above
  <1>2. ASSUME NEW c \in Clients, Return(c) PROVE SeqInv'
    <2>1. UNCHANGED <<seq, lock, issued>> /\ pc[c] = "done" /\ id' = [id EXCEPT ![c] = 0]
      BY <1>2 DEF Return, At, disk
    <2>2. \A t \in Types : \A d \in Clients : lock[t] = d => id'[d] = id[d]
      BY <2>1 DEF TypeOK
    <2> QED
      BY <2>1, <2>2 DEF SeqInv, Counts, Above
  <1>3. ASSUME NEW c \in Clients, Step(c) \/ Invoke(c)
        PROVE  TakeId(c) \/ PutId(c) \/ Return(c) \/ UNCHANGED <<seq, lock, id, issued>>
    BY <1>3 DEF Step, NextID, NoId, Stat, Read, WriteFile, Open, Write, FailToOpen, FailToWrite,
                Remove, List, ReadDir, ReadOne, FailToReadDir, Invoke, disk, locals, history
  <1>4. ~Crash
    BY DEF Crash
  <1>5. CASE UNCHANGED vars
    BY <1>1, <1>5 DEF vars, disk, locals, history
  <1> QED
    BY <1>1, <1>2, <1>3, <1>4, <1>5, TakeStep, PutStep DEF Next

LEMMA SeqInit == Init => SeqInv
  BY NobodyIsNoClient, MarksAreMarks DEF Init, SeqInv, Counts, Above

LEMMA IdIsFresh ==
    ASSUME TypeOK, SeqInv, NEW c \in Clients, PutId(c), MaxInt \notin issued[TypeOf(c)]
    PROVE  id[c] \notin issued[TypeOf(c)]
  <1>1. TypeOf(c) \in Types /\ lock[TypeOf(c)] = c /\ id[c] \in Ids
    BY CallType DEF PutId, At, TypeOK
  <1>2. Above(TypeOf(c), id[c])
    BY <1>1 DEF SeqInv, Counts
  <1>3. \A i \in Int : ~(i < i)
    OBVIOUS
  <1>4. id[c] \in Int
    BY <1>1, IdsAreIntegers
  <1> QED
    BY <1>2, <1>3, <1>4 DEF Above

(* While the disk works and the process lives, NextID returns no id twice, *)
(* whatever calls interleave.                                              *)
THEOREM IdsAreFresh == ~Faults /\ ~Crashes => (Spec => FreshIds)
  <1> DEFINE Act == \A c \in Clients : PutId(c) /\ MaxInt \notin issued[TypeOf(c)]
                                       => id[c] \notin issued[TypeOf(c)]
  <1> SUFFICES ASSUME ~Faults, ~Crashes PROVE Spec => FreshIds
    OBVIOUS
  <1>1. TypeOK /\ SeqInv => Act
    BY IdIsFresh
  <1>2. TypeOK /\ SeqInv /\ FileInv /\ [Next]_vars => (TypeOK /\ SeqInv /\ FileInv)'
    BY SeqStep, BothNext
  <1>3. Spec => [][Act]_vars
    <2> HIDE DEF Act
    <2> QED
      BY <1>1, <1>2, TypeInit, FileInit, SeqInit, PTL DEF Spec
  <1> QED
    BY <1>3 DEF FreshIds

(***************************************************************************)
(* What a call has seen and nobody has touched since: a List has it among  *)
(* its rows or before it, an Update and a Patch write over it.             *)
(***************************************************************************)
Listed(c, k) == Matches(files[k].doc, call[c].data) => <<k, files[k].doc>> \in rows[c]

Merged(c, k) == call[c].kind = "patch" => doc[c] = Overlay(files[k].doc, call[c].data)

Seen(c, k) ==
    /\ k \in DOMAIN files
    /\ pc[c] \in {"stat", "open"} => k = KeyOf(c) /\ Merged(c, k)
    /\ pc[c] = "scan" => Whole(k) /\ (k \in left[c] \/ Listed(c, k))
    /\ pc[c] = "done" /\ call[c].kind = "list" /\ ret[c] = "ok" => Listed(c, k)

Looks(c) ==
    /\ pc[c] \in {"idle", "seq", "putid", "read", "dir"} => still[c] = {}
    /\ pc[c] = "read" => doc[c] = call[c].data
    /\ pc[c] \notin {"idle", "dir", "scan", "done"} => call[c].kind # "list"
    /\ \A k \in still[c] : Seen(c, k)

PerClient == /\ left = [c \in Clients |-> left[c]] /\ rows = [c \in Clients |-> rows[c]]
             /\ still = [c \in Clients |-> still[c]]

StillInv == PerClient /\ \A c \in Clients : Looks(c)

LEMMA StillInit == Init => StillInv
  BY DEF Init, StillInv, PerClient, Looks

(* A file that a client still has is not changed.                          *)
LEMMA StillFiles ==
    ASSUME TypeOK, PerClient, NEW d \in Clients, Invoke(d) \/ Step(d),
           NEW c \in Clients, NEW k \in still'[c], c # d \/ (k \in still[c] /\ ~Open(d))
    PROVE  /\ k \in still[c]
           /\ k \in DOMAIN files => k \in DOMAIN files' /\ files'[k] = files[k]
  <1>1. CASE UNCHANGED files /\ (c # d => still'[c] = still[c])
    BY <1>1
  <1>2. CASE \/ \E x : files' = Put(files, KeyOf(d), x) /\ Touch(KeyOf(d))
             \/ files' = Drop(files, KeyOf(d)) /\ Touch(KeyOf(d))
    BY <1>2 DEF Touch, Put, Drop, PerClient
  <1>5. CASE Open(d)
    <2>1. files' = Put(files, KeyOf(d), Hollow) /\ c # d /\ still'[c] = still[c] \ {KeyOf(d)}
      BY <1>5 DEF Open, Opened, Truncate
    <2> QED
      BY <2>1 DEF Put
  <1>3. CASE Write(d) \/ FailToWrite(d) \/ Remove(d)
    BY <1>1, <1>2, <1>3 DEF Write, FailToWrite, Remove
  <1>4. CASE ~(Open(d) \/ Write(d) \/ FailToWrite(d) \/ Remove(d))
    <2>1. UNCHANGED files
      BY <1>4 DEF Invoke, Step, NextID, TakeId, PutId, NoId, Stat, Read, WriteFile, FailToOpen,
                  List, ReadDir, ReadOne, FailToReadDir, Return, disk
    <2>2. still' = still \/ \E s : still' = [still EXCEPT ![d] = s]
      BY <1>4 DEF Invoke, Step, NextID, TakeId, PutId, NoId, Stat, Read, WriteFile, FailToOpen,
                  List, ReadDir, ReadOne, FailToReadDir, Return, See, history
    <2> QED
      BY <1>1, <2>1, <2>2 DEF PerClient
  <1> QED
    BY <1>3, <1>4, <1>5

(* A client keeps what is its own in the steps of others.                  *)
LEMMA OwnKept ==
    ASSUME TypeOK, PerClient, NEW d \in Clients, Invoke(d) \/ Step(d), NEW c \in Clients, c # d
    PROVE  /\ pc'[c] = pc[c] /\ call'[c] = call[c] /\ id'[c] = id[c] /\ doc'[c] = doc[c]
           /\ ret'[c] = ret[c] /\ left'[c] = left[c] /\ rows'[c] = rows[c]
  BY DEF Invoke, Step, NextID, TakeId, PutId, NoId, Stat, Read, WriteFile, Open, Write, FailToOpen,
         FailToWrite, Remove, List, ReadDir, ReadOne, FailToReadDir, Return, Goto, Finish, TypeOK,
         PerClient, locals, listing

LEMMA StaysPerClient ==
    ASSUME TypeOK, PerClient, [Next]_vars PROVE PerClient'
  <1>1. CASE Crash
    BY <1>1 DEF Crash, PerClient
  <1>2. CASE UNCHANGED vars
    BY <1>2 DEF vars, listing, history, PerClient
  <1>3. ASSUME NEW d \in Clients, Invoke(d) \/ Step(d) PROVE PerClient'
    <2>1. /\ left' = left \/ \E x : left' = [left EXCEPT ![d] = x]
          /\ rows' = rows \/ \E x : rows' = [rows EXCEPT ![d] = x]
      BY <1>3 DEF Invoke, Step, NextID, TakeId, PutId, NoId, Stat, Read, WriteFile, Open, Write,
              FailToOpen, FailToWrite, Remove, List, ReadDir, ReadOne, FailToReadDir, Return, listing
    <2>2. \/ still' = still \/ \E x : still' = [still EXCEPT ![d] = x]
          \/ \E k : still' = [c \in Clients |-> still[c] \ {k}]
          \/ \E k : still' = [c \in Clients |-> IF c = d THEN {k} ELSE still[c] \ {k}]
      BY <1>3 DEF Invoke, Step, NextID, TakeId, PutId, NoId, Stat, Read, WriteFile, Open, Write,
              FailToOpen, FailToWrite, Remove, List, ReadDir, ReadOne, FailToReadDir, Return,
              See, Touch, Truncate, history
    <2> QED
      BY <2>1, <2>2 DEF PerClient
  <1> QED
    BY <1>1, <1>2, <1>3 DEF Next

LEMMA LooksElsewhere ==
    ASSUME TypeOK, StillInv, NEW d \in Clients, Invoke(d) \/ Step(d), NEW c \in Clients, c # d
    PROVE  Looks(c)'
  <1>1. /\ pc'[c] = pc[c] /\ call'[c] = call[c] /\ id'[c] = id[c] /\ doc'[c] = doc[c]
        /\ ret'[c] = ret[c] /\ left'[c] = left[c] /\ rows'[c] = rows[c]
    BY OwnKept DEF StillInv
  <1>2. KeyOf(c)' = KeyOf(c) /\ Looks(c)
    BY <1>1 DEF KeyOf, TypeOf, StillInv
  <1>3. ASSUME NEW k \in still'[c] PROVE k \in still[c] /\ Seen(c, k)'
    <2>1. k \in still[c] /\ Seen(c, k)
      BY <1>2, <1>3, StillFiles DEF Looks, StillInv
    <2>2. k \in DOMAIN files' /\ files'[k] = files[k]
      BY <1>3, <2>1, StillFiles DEF Seen, StillInv
    <2> QED
      BY <1>1, <1>2, <2>1, <2>2 DEF Seen, Listed, Merged, Whole
  <1> QED
    BY <1>1, <1>2, <1>3 DEF Looks

(* ... and in its own.                                                     *)
LEMMA LooksHere ==
    ASSUME TypeOK, StillInv, ~Faults, NEW c \in Clients, Invoke(c) \/ Step(c) PROVE Looks(c)'
  <1>t. /\ pc \in [Clients -> Steps] /\ doc \in [Clients -> Documents]
        /\ call \in [Clients -> Ops \cup {NoOp}] /\ ret = [d \in Clients |-> ret[d]]
        /\ PerClient /\ Looks(c)
    BY DEF TypeOK, StillInv
  <1>s. ASSUME NEW k \in still'[c], k \in still[c], k \in DOMAIN files, ~Open(c)
        PROVE  k \in DOMAIN files' /\ files'[k] = files[k]
    BY <1>s, StillFiles DEF StillInv
  <1>1. CASE Invoke(c)
    <2>1. PICK o \in Ops : /\ call' = [call EXCEPT ![c] = o] /\ doc' = [doc EXCEPT ![c] = o.data]
                           /\ pc' = [pc EXCEPT ![c] = Entry(o)]
      BY <1>1 DEF Invoke, Goto
    <2>2. pc[c] = "idle" /\ still' = still
      BY <1>1 DEF Invoke, At, history
    <2>3. call'[c] = o /\ doc'[c] = o.data /\ pc'[c] = Entry(o) /\ still'[c] = {}
      BY <1>t, <2>1, <2>2 DEF Looks
    <2>4. o.kind = "list" => Entry(o) = "dir"
      BY DEF Entry
    <2> QED
      BY <2>3, <2>4 DEF Looks
  <1>2. CASE Return(c)
    BY <1>t, <1>2 DEF Return, Looks, PerClient
  <1>3. CASE NextID(c)
    <2>1. /\ pc[c] \in {"seq", "putid"} /\ call[c].kind = "create" /\ still' = still /\ call' = call
          /\ pc'[c] \in {"putid", "open"}
      BY <1>t, <1>3 DEF NextID, TakeId, PutId, NoId, At, Goto, TypeOK, history, locals
    <2> QED
      BY <1>t, <2>1 DEF Looks
  <1>4. CASE Stat(c)
    <2>1. /\ pc[c] = "stat" /\ call[c].kind # "list" /\ UNCHANGED <<files, call, id, doc>>
          /\ pc'[c] \in {"open", "remove", "done"}
          /\ pc'[c] = "open" /\ call[c].kind # "save" => KeyOf(c) \in DOMAIN files
      BY <1>t, <1>4 DEF Stat, Exists, At, Goto, Finish, Looks, disk, locals
    <2>2. KeyOf(c)' = KeyOf(c)
      BY <2>1 DEF KeyOf, TypeOf
    <2>3. CASE call[c].kind = "update" /\ pc'[c] = "open"
      <3>1. still'[c] = {KeyOf(c)}
        BY <1>t, <1>4, <2>3 DEF Stat, See, PerClient
      <3> QED
        BY <2>1, <2>2, <2>3, <3>1 DEF Looks, Seen, Merged
    <2>4. CASE ~(call[c].kind = "update" /\ pc'[c] = "open")
      <3>1. still'[c] = still[c]
        BY <1>4, <2>4 DEF Stat
      <3> QED
        BY <1>t, <2>1, <2>2, <3>1 DEF Looks, Seen, Merged
    <2> QED
      BY <2>3, <2>4
  <1>5. CASE Read(c)
    <2>1. /\ pc[c] = "read" /\ call[c].kind # "list" /\ UNCHANGED <<files, call, id>>
          /\ still[c] = {} /\ doc[c] = call[c].data
      BY <1>t, <1>5 DEF Read, At, Looks, disk
    <2>2. KeyOf(c)' = KeyOf(c)
      BY <2>1 DEF KeyOf, TypeOf
    <2>3. CASE pc'[c] = "done" /\ still' = still
      BY <2>1, <2>3 DEF Looks
    <2>4. CASE /\ Whole(KeyOf(c)) /\ Goto(c, "stat") /\ still' = See(c)
               /\ doc' = [doc EXCEPT ![c] = Overlay(files[KeyOf(c)].doc, @)]
      <3>1. /\ pc'[c] = "stat" /\ still'[c] = {KeyOf(c)}
            /\ doc'[c] = Overlay(files[KeyOf(c)].doc, call[c].data)
        BY <1>t, <2>1, <2>4 DEF Goto, See, PerClient
      <3> QED
        BY <2>1, <2>2, <2>4, <3>1 DEF Looks, Seen, Merged, Whole
    <2> QED
      BY <1>t, <1>5, <2>3, <2>4 DEF Read, Finish
  <1>6. CASE WriteFile(c) \/ Remove(c)
    <2>1. /\ pc[c] \in {"open", "write", "remove"} /\ pc'[c] \in {"write", "done"}
          /\ call[c].kind # "list" /\ call' = call
      BY <1>t, <1>6 DEF WriteFile, Open, Write, FailToOpen, FailToWrite, Remove, At, Goto, Finish,
                        Looks, locals
    <2>2. CASE Open(c)
      <3>1. still'[c] = {KeyOf(c)} /\ KeyOf(c) \in DOMAIN files'
        BY <2>2 DEF Open, Opened, Truncate, Put
      <3>2. pc'[c] = "write"
        BY <1>t, <2>2 DEF Open, Goto
      <3> QED
        BY <2>1, <3>1, <3>2 DEF Looks, Seen
    <2>3. CASE ~Open(c)
      <3>1. still'[c] \subseteq still[c]
        BY <1>t, <1>6, <2>3 DEF WriteFile, Write, FailToOpen, FailToWrite, Remove, Touch, history
      <3>2. \A k \in still'[c] : k \in DOMAIN files'
        BY <1>t, <1>s, <2>3, <3>1 DEF Looks, Seen
      <3> QED
        BY <2>1, <3>2 DEF Looks, Seen
    <2> QED
      BY <2>2, <2>3
  <1>7. CASE ReadDir(c)
    <2> DEFINE names == {k \in DOMAIN files : k[1] = TypeOf(c)}
    <2>1. /\ UNCHANGED <<files, call>> /\ left'[c] = names
          /\ still'[c] = {k \in names : Whole(k)}
          /\ pc'[c] = IF names = {} THEN "done" ELSE "scan"
      BY <1>t, <1>7 DEF ReadDir, Goto, Finish, PerClient, disk, locals
    <2> HIDE DEF names
    <2>2. \A k \in still'[c] : Whole(k) /\ k \in DOMAIN files /\ k \in names
      BY <2>1 DEF Whole
    <2> QED
      BY <2>1, <2>2 DEF Looks, Seen, Whole
  <1>8. CASE ReadOne(c)
    <2>1. PICK k \in left[c] :
             /\ rows' = [rows EXCEPT ![c] = @ \cup Found(c, k)]
             /\ left' = [left EXCEPT ![c] = @ \ {k}]
             /\ IF left[c] \ {k} = {} THEN Finish(c, "ok") ELSE UNCHANGED <<pc, ret>>
      BY <1>8 DEF ReadOne, RestAfter
    <2>2. /\ pc[c] = "scan" /\ UNCHANGED <<files, call, doc, still>>
          /\ rows'[c] = rows[c] \cup Found(c, k) /\ left'[c] = left[c] \ {k}
          /\ pc'[c] = "scan" \/ (pc'[c] = "done" /\ left'[c] = {})
      BY <1>t, <1>8, <2>1 DEF ReadOne, At, Finish, PerClient, disk, locals, history
    <2>3. ASSUME NEW j \in still[c] PROVE j \in DOMAIN files /\ Whole(j) /\ (j \in left'[c] \/ Listed(c, j)')
      <3>1. j \in DOMAIN files /\ Whole(j) /\ (j \in left[c] \/ Listed(c, j))
        BY <1>t, <2>2, <2>3 DEF Looks, Seen
      <3>2. CASE j = k
        BY <2>2, <3>1, <3>2 DEF Found, Listed
      <3>3. CASE j # k
        BY <2>2, <3>1, <3>3 DEF Listed
      <3> QED
        BY <3>1, <3>2, <3>3
    <2> QED
      BY <2>2, <2>3 DEF Looks, Seen, Whole
  <1>9. CASE FailToReadDir(c)
    BY <1>9 DEF FailToReadDir
  <1> QED
    BY <1>1, <1>2, <1>3, <1>4, <1>5, <1>6, <1>7, <1>8, <1>9 DEF Step, List

LEMMA StillStep ==
    ASSUME TypeOK, StillInv, ~Faults, [Next]_vars PROVE StillInv'
  <1>1. CASE UNCHANGED vars
    BY <1>1 DEF StillInv, PerClient, Looks, Seen, Listed, Merged, Whole, KeyOf, TypeOf, vars, disk,
                locals, listing, history
  <1>2. CASE Crash
    BY <1>2 DEF Crash, StillInv, PerClient, Looks
  <1>3. ASSUME NEW d \in Clients, Invoke(d) \/ Step(d) PROVE StillInv'
    <2>1. \A c \in Clients : Looks(c)'
      BY <1>3, LooksHere, LooksElsewhere
    <2> QED
      BY <2>1, StaysPerClient DEF StillInv
  <1> QED
    BY <1>1, <1>2, <1>3 DEF Next

LEMMA StillHolds == ~Faults => (Spec => [](TypeOK /\ StillInv))
  <1>1. ~Faults /\ TypeOK /\ FileInv /\ StillInv /\ [Next]_vars => (TypeOK /\ FileInv /\ StillInv)'
    BY BothNext, StillStep
  <1> SUFFICES ASSUME ~Faults PROVE Spec => [](TypeOK /\ StillInv)
    OBVIOUS
  <1> QED
    BY <1>1, TypeInit, FileInit, StillInit, PTL DEF Spec

(* While the disk works, List and Search miss nothing that nobody touches, *)
(* whatever they pass over and wherever the process stops.                 *)
THEOREM ListsSeeWhatStays == ~Faults => (Spec => []ListSeesStill)
  <1>1. StillInv => ListSeesStill
    BY DEF StillInv, Looks, Seen, Listed, ListSeesStill, At
  <1> QED
    BY <1>1, StillHolds, PTL

(* While the disk works, Update and Patch write over what they have found  *)
(* unless another call touched it since.                                   *)
THEOREM LoneWritesBuild == ~Faults => (Spec => LoneWritesBuildOn)
  <1> DEFINE Act(c) == Open(c) /\ KeyOf(c) \in still[c] =>
         /\ KeyOf(c) \in DOMAIN files
         /\ call[c].kind = "patch" =>
               \A f \in Fields : doc[c][f] = IF call[c].data[f] # Absent THEN call[c].data[f]
                                             ELSE files[KeyOf(c)].doc[f]
  <1>1. ASSUME TypeOK, StillInv, NEW c \in Clients PROVE Act(c)
    <2> SUFFICES ASSUME Open(c), KeyOf(c) \in still[c] PROVE Act(c)
      OBVIOUS
    <2>1. Seen(c, KeyOf(c)) /\ pc[c] = "open"
      BY <1>1 DEF StillInv, Looks, Open, At
    <2> QED
      BY <2>1 DEF Seen, Merged, Overlay
  <1>2. LoneWritesBuildOn <=> [][\A c \in Clients : Act(c)]_vars
    BY DEF LoneWritesBuildOn
  <1>3. TypeOK /\ StillInv => \A c \in Clients : Act(c)
    BY <1>1
  <1> DEFINE Acts == \A c \in Clients : Act(c)
  <1>4. TypeOK /\ StillInv => Acts
    BY <1>3
  <1>5. LoneWritesBuildOn <=> [][Acts]_vars
    BY <1>2
  <1> HIDE DEF Acts
  <1> QED
    BY <1>4, <1>5, StillHolds, PTL

(***************************************************************************)
(* A file that a write has truncated stays empty until somebody touches it. *)
(***************************************************************************)
Empties(c) == /\ pc[c] \in {"idle", "seq", "putid"} => still[c] = {}
              /\ pc[c] = "write" => \A k \in still[c] : /\ k = KeyOf(c) /\ c \in open
                                                        /\ k \in DOMAIN files /\ files[k] = Hollow

EmptyInv == PerClient /\ \A c \in Clients : Empties(c)

(* Another client's step that takes the file away from c touches it.       *)
LEMMA EmptyElsewhere ==
    ASSUME TypeOK, EmptyInv, NEW d \in Clients, Invoke(d) \/ Step(d), NEW c \in Clients, c # d
    PROVE  Empties(c)'
  <1>1. /\ pc'[c] = pc[c] /\ call'[c] = call[c] /\ id'[c] = id[c]
    BY OwnKept DEF EmptyInv
  <1>2. KeyOf(c)' = KeyOf(c) /\ Empties(c)
    BY <1>1 DEF KeyOf, TypeOf, EmptyInv
  <1>3. ASSUME NEW k \in still'[c]
        PROVE  /\ k \in still[c]
               /\ k \in DOMAIN files => k \in DOMAIN files' /\ files'[k] = files[k]
    BY <1>3, StillFiles DEF EmptyInv
  <1>4. ASSUME NEW k \in still'[c], k = KeyOf(c), c \in open PROVE c \in open'
    <2>1. CASE Remove(d)
      <3>1. \/ open' = open
            \/ open' = open \ WritersOf(KeyOf(d)) /\ still'[c] = still[c] \ {KeyOf(d)}
        BY <2>1 DEF Remove, Touch
      <3> QED
        BY <1>4, <3>1 DEF WritersOf
    <2>2. CASE ~Remove(d)
      <3>1. open' = open \/ open' = open \cup {d} \/ open' = open \ {d}
        BY <2>2 DEF Invoke, Step, NextID, TakeId, PutId, NoId, Stat, Read, WriteFile, Open, Write,
                    FailToOpen, FailToWrite, List, ReadDir, ReadOne, FailToReadDir, Return
      <3> QED
        BY <1>4, <3>1
    <2> QED
      BY <2>1, <2>2
  <1> QED
    BY <1>1, <1>2, <1>3, <1>4 DEF Empties

LEMMA EmptyHere ==
    ASSUME TypeOK, EmptyInv, NEW c \in Clients, Invoke(c) \/ Step(c) PROVE Empties(c)'
  <1>t. pc \in [Clients -> Steps] /\ PerClient /\ Empties(c)
    BY DEF TypeOK, EmptyInv
  <1>1. CASE Open(c)
    <2>1. /\ pc'[c] = "write" /\ still'[c] = {KeyOf(c)} /\ files' = Put(files, KeyOf(c), Hollow)
          /\ c \in open' /\ UNCHANGED <<call, id>>
      BY <1>t, <1>1 DEF Open, Opened, Truncate, Goto, locals
    <2>2. KeyOf(c)' = KeyOf(c)
      BY <2>1 DEF KeyOf, TypeOf
    <2> QED
      BY <2>1, <2>2 DEF Empties, Put
  <1>2. CASE Return(c)
    BY <1>t, <1>2 DEF Return, Empties, PerClient
  <1>3. CASE Invoke(c) \/ NextID(c)
    <2>1. still' = still /\ pc[c] \in {"idle", "seq", "putid"} /\ pc'[c] # "write"
      BY <1>t, <1>3 DEF Invoke, Entry, NextID, TakeId, PutId, NoId, At, Goto, Finish, history
    <2> QED
      BY <1>t, <2>1 DEF Empties
  <1>4. CASE Stat(c) \/ Read(c) \/ List(c) \/ Remove(c) \/ (WriteFile(c) /\ ~Open(c))
    <2>1. pc'[c] \notin {"idle", "seq", "putid", "write"}
      BY <1>t, <1>4 DEF Stat, Read, List, ReadDir, ReadOne, FailToReadDir, Remove, WriteFile, Write,
                        FailToOpen, FailToWrite, At, Goto, Finish
    <2> QED
      BY <2>1 DEF Empties
  <1> QED
    BY <1>1, <1>2, <1>3, <1>4 DEF Step

LEMMA EmptyStep == ASSUME TypeOK, EmptyInv, [Next]_vars PROVE EmptyInv'
  <1>1. CASE UNCHANGED vars
    BY <1>1 DEF EmptyInv, PerClient, Empties, KeyOf, TypeOf, vars, disk, locals, listing, history
  <1>2. CASE Crash
    BY <1>2 DEF Crash, EmptyInv, PerClient, Empties
  <1>3. ASSUME NEW d \in Clients, Invoke(d) \/ Step(d) PROVE EmptyInv'
    <2>1. \A c \in Clients : Empties(c)'
      BY <1>3, EmptyHere, EmptyElsewhere
    <2> QED
      BY <2>1, StaysPerClient DEF EmptyInv
  <1> QED
    BY <1>1, <1>2, <1>3 DEF Next

(* Whatever fails and wherever the process stops, a write that nobody      *)
(* disturbs after its truncation leaves its whole document.                *)
THEOREM LoneWritesMend == Spec => LoneWritesLand
  <1> DEFINE Act(c) == Write(c) /\ KeyOf(c) \in still[c] =>
                           files'[KeyOf(c)] = File(doc[c], Size(doc[c]))
             Acts   == \A c \in Clients : Act(c)
  <1>1. ASSUME EmptyInv, NEW c \in Clients, Write(c), KeyOf(c) \in still[c]
        PROVE  files'[KeyOf(c)] = File(doc[c], Size(doc[c]))
    <2>1. c \in open /\ files[KeyOf(c)] = Hollow
      BY <1>1 DEF EmptyInv, Empties, Write, At
    <2>2. files' = Put(files, KeyOf(c), Written(Hollow, doc[c]))
      BY <1>1, <2>1 DEF Write
    <2>3. Written(Hollow, doc[c]) = File(doc[c], Size(doc[c]))
      BY SizeType, FileParts DEF Written, Hollow
    <2> QED
      BY <2>2, <2>3 DEF Put
  <1>2. EmptyInv => Acts
    BY <1>1
  <1>3. LoneWritesLand <=> [][Acts]_vars
    BY DEF LoneWritesLand
  <1>4. Init => EmptyInv
    BY DEF Init, EmptyInv, PerClient, Empties
  <1>5. TypeOK /\ FileInv /\ EmptyInv /\ [Next]_vars => (TypeOK /\ FileInv /\ EmptyInv)'
    BY BothNext, EmptyStep
  <1> HIDE DEF Acts
  <1> QED
    BY <1>2, <1>3, <1>4, <1>5, TypeInit, FileInit, PTL DEF Spec

(***************************************************************************)
(* Without Save every file has an id NextID gave out, and the file of a    *)
(* Create that is about to open it is nobody's yet.                        *)
(***************************************************************************)
FilesAreNumbered == \A o \in Ops : o.kind # "save"

Virgin(c) ==
    At(c, "open") /\ call[c].kind = "create" /\ MaxInt \notin issued[TypeOf(c)] =>
        /\ KeyOf(c) \notin DOMAIN files
        /\ \A d \in Clients \ {c} : At(d, "open") => KeyOf(d) # KeyOf(c)

MadeInv ==
    /\ \A k \in DOMAIN files : k[2] \in issued[k[1]]
    /\ \A c \in Clients : At(c, "open") => KeyOf(c)[2] \in issued[TypeOf(c)]
    /\ \A c \in Clients : pc[c] \in {"read", "stat"} => call[c].kind # "create"
    /\ \A c \in Clients : Virgin(c)

LEMMA MadeInit == Init => MadeInv
  BY DEF Init, MadeInv, Virgin, At, EmptyMap

LEMMA OpenersKept ==
    ASSUME TypeOK, ~Crashes, [Next]_vars, NEW c \in Clients, At(c, "open")
    PROVE  KeyOf(c)' = KeyOf(c) /\ TypeOf(c)' = TypeOf(c) /\ call'[c] = call[c]
  <1>1. ~Crash
    BY DEF Crash
  <1> QED
    BY <1>1, SameWriters DEF At, TypeOf

LEMMA PutIdMakes ==
    ASSUME TypeOK, SeqInv, MadeInv, ~Crashes, NEW d \in Clients, PutId(d), [Next]_vars
    PROVE  MadeInv'
  <1> DEFINE t == TypeOf(d)
             i == id[d]
  <1>1. /\ UNCHANGED <<files, call, id>> /\ t \in Types /\ call[d].kind = "create"
        /\ issued' = [issued EXCEPT ![t] = @ \cup {i}] /\ pc' = [pc EXCEPT ![d] = "open"]
        /\ pc[d] = "putid"
    BY CallType DEF PutId, At, TypeOK, Goto, locals
  <1>2. /\ DOMAIN issued = Types /\ issued'[t] = issued[t] \cup {i}
        /\ \A u \in Types \ {t} : issued'[u] = issued[u]
        /\ \A c \in Clients \ {d} : At(c, "open")' = At(c, "open")
    BY <1>1 DEF SeqInv, TypeOK, At
  <1>3. /\ \A c \in Clients : KeyOf(c)' = KeyOf(c) /\ TypeOf(c)' = TypeOf(c)
        /\ KeyOf(d) = <<t, i>> /\ At(d, "open")'
    BY <1>1 DEF KeyOf, TypeOf, At, TypeOK
  <1>4. \A k \in DOMAIN files : k[1] \in Types /\ k \in Keys
    BY DEF TypeOK, Keys
  <1>5. \A c \in Clients : At(c, "open") => TypeOf(c) \in Types /\ KeyOf(c)[1] = TypeOf(c)
    BY CallType DEF At, KeyOf
  <1>6. MaxInt \notin issued'[t] => i \notin issued[t]
    BY <1>2, IdIsFresh
  <1> HIDE DEF t, i
  <1>7. ASSUME MaxInt \notin issued'[t]
        PROVE  /\ KeyOf(d) \notin DOMAIN files
               /\ \A c \in Clients \ {d} : At(c, "open") => KeyOf(c) # KeyOf(d)
    <2>1. i \notin issued[t]
      BY <1>6, <1>7
    <2>2. KeyOf(d) \notin DOMAIN files
      BY <1>3, <2>1 DEF MadeInv
    <2>3. ASSUME NEW c \in Clients, At(c, "open"), KeyOf(c) = KeyOf(d) PROVE FALSE
      BY <1>3, <1>5, <2>1, <2>3 DEF MadeInv
    <2> QED
      BY <2>2, <2>3
  <1>8. \A k \in DOMAIN files' : k[2] \in issued'[k[1]]
    BY <1>1, <1>2, <1>4 DEF MadeInv
  <1>9. ASSUME NEW c \in Clients, At(c, "open")' PROVE KeyOf(c)'[2] \in issued'[TypeOf(c)']
    <2>1. CASE c = d
      BY <1>2, <1>3, <2>1 DEF t
    <2>2. CASE c # d
      BY <1>2, <1>3, <1>5, <1>9, <2>2 DEF MadeInv
    <2> QED
      BY <2>1, <2>2
  <1>10. ASSUME NEW c \in Clients PROVE Virgin(c)'
    <2>1. CASE c = d
      BY <1>1, <1>2, <1>3, <1>7, <2>1 DEF Virgin, t
    <2>2. CASE c # d /\ At(c, "open") /\ call[c].kind = "create" /\ MaxInt \notin issued'[TypeOf(c)]
      <3>1. MaxInt \notin issued[TypeOf(c)] /\ KeyOf(c) \notin DOMAIN files
        BY <1>2, <1>5, <2>2 DEF MadeInv, Virgin
      <3>2. \A e \in Clients \ {c, d} : At(e, "open") => KeyOf(e) # KeyOf(c)
        BY <2>2, <3>1 DEF MadeInv, Virgin
      <3>3. KeyOf(c) # KeyOf(d)
        <4>1. CASE TypeOf(c) = t
          BY <1>7, <2>2, <4>1
        <4>2. CASE TypeOf(c) # t
          BY <1>3, <1>5, <2>2, <4>2
        <4> QED
          BY <4>1, <4>2
      <3> QED
        BY <1>1, <1>2, <1>3, <3>1, <3>2, <3>3 DEF Virgin
    <2>3. CASE c # d /\ ~(At(c, "open") /\ call[c].kind = "create" /\ MaxInt \notin issued'[TypeOf(c)])
      BY <1>1, <1>2, <1>3, <2>3 DEF Virgin
    <2> QED
      BY <2>1, <2>2, <2>3
  <1>11. \A c \in Clients : pc'[c] \in {"read", "stat"} => call'[c].kind # "create"
    BY <1>1 DEF MadeInv, TypeOK
  <1> QED
    BY <1>8, <1>9, <1>10, <1>11 DEF MadeInv

LEMMA OpenMakes ==
    ASSUME TypeOK, MadeInv, ~Crashes, NEW d \in Clients, Open(d), [Next]_vars
    PROVE  MadeInv'
  <1>1. /\ issued' = issued /\ call' = call /\ At(d, "open") /\ KeyOf(d) \in Keys
        /\ DOMAIN files' = DOMAIN files \cup {KeyOf(d)} /\ ~At(d, "open")'
        /\ \A c \in Clients : At(c, "open")' => At(c, "open")
    BY CallType DEF Open, Opened, Put, At, Goto, TypeOK, locals
  <1>2. \A c \in Clients : At(c, "open") => KeyOf(c)' = KeyOf(c) /\ TypeOf(c)' = TypeOf(c)
    BY OpenersKept
  <1>3. KeyOf(d)[1] = TypeOf(d)
    BY DEF KeyOf
  <1>4. ASSUME NEW c \in Clients, At(c, "open")', call'[c].kind = "create",
               MaxInt \notin issued'[TypeOf(c)']
        PROVE  /\ KeyOf(c)' \notin DOMAIN files'
               /\ \A e \in Clients \ {c} : At(e, "open")' => KeyOf(e)' # KeyOf(c)'
    <2>1. /\ c # d /\ At(c, "open") /\ KeyOf(c) \notin DOMAIN files
          /\ \A e \in Clients \ {c} : At(e, "open") => KeyOf(e) # KeyOf(c)
      BY <1>1, <1>2, <1>4 DEF MadeInv, Virgin
    <2> QED
      BY <1>1, <1>2, <2>1
  <1>5. \A c \in Clients : pc'[c] \in {"read", "stat"} => call'[c].kind # "create"
    BY <1>1 DEF MadeInv, TypeOK, Open, Goto
  <1> QED
    BY <1>1, <1>2, <1>3, <1>4, <1>5 DEF MadeInv, Virgin

LEMMA StatMakes ==
    ASSUME TypeOK, MadeInv, FilesAreNumbered, ~Crashes, NEW d \in Clients, Stat(d), [Next]_vars
    PROVE  MadeInv'
  <1>1. /\ UNCHANGED <<files, issued, call, id>> /\ pc[d] = "stat" /\ call[d] \in Ops
        /\ \A c \in Clients \ {d} : At(c, "open")' = At(c, "open")
        /\ At(d, "open")' => KeyOf(d) \in DOMAIN files
    <2>1. /\ UNCHANGED <<files, issued, call, id>> /\ pc[d] = "stat" /\ call[d] \in Ops
      BY CallType DEF Stat, At, disk, locals
    <2>2. \E s : pc' = [pc EXCEPT ![d] = s]
      BY DEF Stat, Goto, Finish
    <2>3. call[d].kind # "save"
      BY <2>1 DEF FilesAreNumbered
    <2>4. PICK there \in Exists(KeyOf(d)) :
             IF ~there THEN Finish(d, "notfound")
             ELSE Goto(d, IF call[d].kind = "delete" THEN "remove" ELSE "open")
      BY <2>3 DEF Stat
    <2>5. there => KeyOf(d) \in DOMAIN files
      BY <2>4 DEF Exists
    <2>6. pc'[d] = "open" => there
      BY <2>4 DEF Finish, TypeOK
    <2> QED
      BY <2>1, <2>2, <2>5, <2>6 DEF At, TypeOK
  <1>2. /\ \A c : KeyOf(c)' = KeyOf(c) /\ TypeOf(c)' = TypeOf(c)
        /\ KeyOf(d)[1] = TypeOf(d)
    BY <1>1 DEF KeyOf, TypeOf
  <1>3. ASSUME NEW c \in Clients PROVE Virgin(c)'
    <2>1. CASE c = d
      <3>1. call[d].kind # "create"
        BY <1>1 DEF MadeInv
      <3> QED
        BY <1>1, <2>1, <3>1 DEF Virgin
    <2>2. CASE c # d
      BY <1>1, <1>2, <2>2 DEF MadeInv, Virgin
    <2> QED
      BY <2>1, <2>2
  <1>4. \A c \in Clients : pc'[c] \in {"read", "stat"} => call'[c].kind # "create"
    BY <1>1 DEF MadeInv, TypeOK, Stat, Goto, Finish
  <1> QED
    BY <1>1, <1>2, <1>3, <1>4 DEF MadeInv

LEMMA OthersMake ==
    ASSUME TypeOK, MadeInv, ~Crashes, [Next]_vars,
           DOMAIN files' \subseteq DOMAIN files, issued' = issued,
           \A c \in Clients : /\ At(c, "open")' => At(c, "open")
                              /\ pc'[c] \in {"read", "stat"} => call'[c].kind # "create"
    PROVE  MadeInv'
  <1>1. \A c \in Clients : At(c, "open") =>
            KeyOf(c)' = KeyOf(c) /\ TypeOf(c)' = TypeOf(c) /\ call'[c] = call[c]
    BY OpenersKept
  <1>2. \A c \in Clients : Virgin(c)'
    BY <1>1 DEF MadeInv, Virgin
  <1> QED
    BY <1>1, <1>2 DEF MadeInv

LEMMA MadeStep ==
    ASSUME TypeOK, SeqInv, MadeInv, FilesAreNumbered, OpenHave, ~Crashes, [Next]_vars
    PROVE  MadeInv'
  <1>1. CASE UNCHANGED vars
    BY <1>1, OthersMake DEF vars, disk, history, At, MadeInv, locals
  <1>2. ASSUME NEW d \in Clients, Invoke(d) \/ Step(d),
               ~(PutId(d) \/ Open(d) \/ Stat(d))
        PROVE  MadeInv'
    <2>1. issued' = issued
      BY <1>2 DEF Invoke, Step, NextID, TakeId, NoId, Read, WriteFile, Write, FailToOpen,
                  FailToWrite, Remove, List, ReadDir, ReadOne, FailToReadDir, Return, history
    <2>2. DOMAIN files' \subseteq DOMAIN files
      BY <1>2 DEF Invoke, Step, NextID, TakeId, NoId, Read, WriteFile, Write, FailToOpen,
                  FailToWrite, Remove, List, ReadDir, ReadOne, FailToReadDir, Return, disk,
                  Put, Drop, OpenHave
    <2>3. ASSUME NEW c \in Clients
          PROVE  /\ At(c, "open")' => At(c, "open")
                 /\ pc'[c] \in {"read", "stat"} => call'[c].kind # "create"
      <3>1. CASE Invoke(d)
        <4>1. PICK o \in Ops : call' = [call EXCEPT ![d] = o] /\ pc' = [pc EXCEPT ![d] = Entry(o)]
          BY <3>1 DEF Invoke, Goto
        <4>2. Entry(o) # "open" /\ (Entry(o) \in {"read", "stat"} => o.kind # "create")
          BY DEF Entry
        <4> QED
          BY <4>1, <4>2 DEF TypeOK, At, MadeInv
      <3>2. CASE Return(d)
        BY <3>2 DEF Return, TypeOK, At, MadeInv
      <3>3. CASE ~Invoke(d) /\ ~Return(d)
        <4>1. /\ call' = call
              /\ \/ pc' = pc
                 \/ \E s \in {"putid", "done", "scan"} : pc' = [pc EXCEPT ![d] = s]
                 \/ At(d, "read") /\ pc' = [pc EXCEPT ![d] = "stat"]
          BY <1>2, <3>3 DEF Step, NextID, TakeId, NoId, Read, WriteFile, Write, FailToOpen,
                  FailToWrite, Remove, List, ReadDir, ReadOne, FailToReadDir, Goto, Finish, locals
        <4> QED
          BY <4>1 DEF TypeOK, At, MadeInv
      <3> QED
        BY <3>1, <3>2, <3>3
    <2> QED
      BY <2>1, <2>2, <2>3, OthersMake
  <1> QED
    BY <1>1, <1>2, PutIdMakes, OpenMakes, StatMakes DEF Next, Crash

(* Without Save, on a disk that works and while the process lives, Create  *)
(* never opens the file of another document, nor gets the id of another    *)
(* Create.                                                                 *)
THEOREM CreatesFindNoFile ==
    FilesAreNumbered /\ ~Faults /\ ~Crashes => (Spec => IdsAreNew)
  <1> SUFFICES ASSUME FilesAreNumbered, ~Faults, ~Crashes PROVE Spec => IdsAreNew
    OBVIOUS
  <1> DEFINE Act == \A c \in Clients :
                /\ Open(c) /\ call[c].kind \in {"create", "save"}
                /\ MaxInt \notin issued[TypeOf(c)]
                => KeyOf(c) \notin DOMAIN files
             Inv == TypeOK /\ FileInv /\ SeqInv /\ MadeInv
  <1>1. Inv => Act
    <2> SUFFICES ASSUME Inv, NEW c \in Clients, Open(c), call[c].kind \in {"create", "save"},
                        MaxInt \notin issued[TypeOf(c)]
                 PROVE  KeyOf(c) \notin DOMAIN files
      OBVIOUS
    <2>1. At(c, "open") /\ call[c] \in Ops
      BY CallType DEF Open, At
    <2>2. call[c].kind = "create"
      BY <2>1 DEF FilesAreNumbered
    <2> QED
      BY <2>1, <2>2 DEF MadeInv, Virgin
  <1>2. Inv /\ [Next]_vars => Inv'
    BY SeqStep, BothNext, MadeStep DEF FileInv
  <1>3. Init => Inv
    BY TypeInit, FileInit, SeqInit, MadeInit
  <1>4. CreatesAreNew <=> [][Act]_vars
    BY DEF CreatesAreNew
  <1>5. Spec => CreatesAreNew
    <2> HIDE DEF Act, Inv
    <2> QED
      BY <1>1, <1>2, <1>3, <1>4, PTL DEF Spec
  <1> QED
    BY <1>5, IdsAreFresh DEF IdsAreNew
==============================================================================
