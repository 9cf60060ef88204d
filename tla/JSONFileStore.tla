---------------------------- MODULE JSONFileStore ----------------------------
(***************************************************************************)
(* pkg/storage/jsonfile.go.  A document is a file of its own and the next  *)
(* id of a type is another.  Only NextID takes a lock; every other call is *)
(* a sequence of system calls that interleave with those of other calls:   *)
(* os.Stat, os.ReadFile, os.Remove, os.ReadDir, and os.WriteFile, which    *)
(* first opens and truncates the file and then writes it.                  *)
(***************************************************************************)
EXTENDS OluData, FiniteSets

CONSTANTS
    Clients,    \* goroutines that call the store
    Ops,        \* the calls they make
    NoOp,       \* no call in progress
    NoClient,   \* nobody holds a type's lock
    NoFile,     \* _next_id.json does not exist
    Torn,       \* a text that is not JSON
    Faults,     \* whether system calls may fail
    Crashes     \* whether the process may stop

Kinds == {"create", "update", "patch", "delete", "save", "get", "list"}

Operations == [kind : Kinds, key : Keys, data : Documents]

ASSUME JSONOpsAreCalls == Ops \subseteq Operations /\ NoOp \notin Operations

ASSUME NobodyIsNoClient == NoClient \notin Clients

ASSUME MarksAreMarks == /\ {NoFile, Torn} \cap Ids = {} /\ NoFile # Torn
                        /\ Torn \notin Documents

ASSUME ObjectsAreFinite == IsFiniteSet(Fields)

ASSUME FaultsAreFlags == Faults \in BOOLEAN /\ Crashes \in BOOLEAN

VARIABLES
    files,      \* the entity files there are
    seq,        \* per type, what _next_id.json holds
    lock,       \* per type, the holder of its mutex in idLocks
    call,       \* per client, the call in progress
    pc,         \* per client, the next system call
    id,         \* per client, the id NextID gave to its Create
    doc,        \* per client, the document it writes
    open,       \* clients whose open file still has its name
    left,       \* per client, the directory entries List has not read
    rows,       \* per client, what List and Get found
    ret,        \* per client, the error a finished call returns
    issued,     \* history: the ids NextID returned, per type
    shaken,     \* history: files with overlapping, failed or stopped writers
    still       \* history: per client, the files it saw or truncated and nobody touched since

disk == <<files, seq>>
locals == <<call, id, doc>>
listing == <<left, rows>>
history == <<issued, shaken, still>>
vars == <<disk, lock, locals, pc, open, listing, ret, history>>

(***************************************************************************)
(* Files.  The length of a document's text grows with its fields.  A write *)
(* begins at offset 0: over a longer text that another writer left since   *)
(* the truncation, the end of that text remains.                           *)
(***************************************************************************)
File(d, n) == [doc |-> d, size |-> n]

Hollow == File(Torn, 0)

Size(d) == 1 + Cardinality({f \in Fields : d[f] # Absent})

Written(x, d) == IF x.size > Size(d) THEN File(Torn, x.size) ELSE File(d, Size(d))

(* The disk is full after n bytes.                                         *)
Spilled(x, n) == IF n = 0 THEN x ELSE File(Torn, IF n > x.size THEN n ELSE x.size)

Whole(k) == k \in DOMAIN files /\ files[k].doc # Torn

(* Fault: a null in a patch is passed over.                                *)
OverlayNoNull(d, p) == [f \in Fields |-> IF p[f] \in {Absent, Null} THEN d[f] ELSE p[f]]

(* The merge of Patch; unlike the SQLite store it keeps a null.            *)
Overlay(d, p) == [f \in Fields |-> IF p[f] = Absent THEN d[f] ELSE p[f]]

(* Search on one field; List is the search that asks for none.             *)
Matches(d, p) == \A f \in Fields : p[f] = Absent \/ d[f] = p[f]

Steps == {"idle", "seq", "putid", "stat", "read", "open", "write", "remove",
          "dir", "scan", "done"}

TypeOf(c) == call[c].key[1]

TypeOK ==
    /\ DOMAIN files \subseteq Keys
    /\ \A k \in DOMAIN files : /\ files[k].doc \in Documents \cup {Torn}
                               /\ files[k].size \in Nat
    /\ seq \in [Types -> Ids \cup {NoFile, Torn}]
    /\ lock \in [Types -> Clients \cup {NoClient}]
    /\ call \in [Clients -> Ops \cup {NoOp}]
    /\ pc \in [Clients -> Steps]
    /\ id \in [Clients -> Ids]
    /\ doc \in [Clients -> Documents]
    /\ open \subseteq {c \in Clients : pc[c] = "write"}
    /\ ret \in [Clients -> {"ok", "notfound", "exists", "error"}]
    /\ \A c \in Clients :
          /\ pc[c] = "idle" <=> call[c] = NoOp
          /\ \A t \in Types : lock[t] = c <=> pc[c] = "putid" /\ TypeOf(c) = t
          /\ pc[c] \in {"seq", "putid"} => call[c].kind = "create"

KeyOf(c) == <<TypeOf(c), IF call[c].kind = "create" THEN id[c] ELSE call[c].key[2]>>

Init == /\ files = EmptyMap
        /\ seq = [t \in Types |-> NoFile]
        /\ lock = [t \in Types |-> NoClient]
        /\ call = [c \in Clients |-> NoOp]
        /\ pc = [c \in Clients |-> "idle"]
        /\ id = [c \in Clients |-> 0]
        /\ doc = [c \in Clients |-> EmptyDoc]
        /\ open = {}
        /\ left = [c \in Clients |-> {}]
        /\ rows = [c \in Clients |-> {}]
        /\ ret = [c \in Clients |-> "ok"]
        /\ issued = [t \in Types |-> {}]
        /\ shaken = {}
        /\ still = [c \in Clients |-> {}]

Goto(c, s)   == pc' = [pc EXCEPT ![c] = s] /\ UNCHANGED ret
Finish(c, r) == pc' = [pc EXCEPT ![c] = "done"] /\ ret' = [ret EXCEPT ![c] = r]

At(c, s) == pc[c] = s

Touch(k) == still' = [c \in Clients |-> still[c] \ {k}]

(* ... but the client, who has just emptied it.                            *)
Truncate(c, k) == still' = [d \in Clients |-> IF d = c THEN {k} ELSE still[d] \ {k}]

(***************************************************************************)
(* A call begins and returns.                                              *)
(***************************************************************************)
Entry(o) == IF o.kind = "create" THEN "seq"
            ELSE IF o.kind \in {"patch", "get"} THEN "read"
            ELSE IF o.kind = "list" THEN "dir" ELSE "stat"

(* Bound: nobody creates once the last id of the type is taken.            *)
IdsLeft(o) == o.kind = "create" => MaxInt \notin issued[o.key[1]]

Invoke(c) ==
    /\ At(c, "idle")
    /\ \E o \in Ops : /\ IdsLeft(o)
                      /\ call' = [call EXCEPT ![c] = o]
                      /\ doc' = [doc EXCEPT ![c] = o.data]
                      /\ Goto(c, Entry(o))
    /\ UNCHANGED <<disk, lock, id, open, listing, history>>

Return(c) ==
    /\ At(c, "done")
    /\ call' = [call EXCEPT ![c] = NoOp]
    /\ pc' = [pc EXCEPT ![c] = "idle"]
    /\ id' = [id EXCEPT ![c] = 0]
    /\ doc' = [doc EXCEPT ![c] = EmptyDoc]
    /\ rows' = [rows EXCEPT ![c] = {}]
    /\ ret' = [ret EXCEPT ![c] = "ok"]
    /\ still' = [still EXCEPT ![c] = {}]
    /\ UNCHANGED <<disk, lock, open, left, issued, shaken>>

(***************************************************************************)
(* NextID, under the lock of the type.                                     *)
(***************************************************************************)
(* What is read from _next_id.json; 1 when it cannot be read or parsed.    *)
NextOf(x) == {IF x \in Ids THEN x ELSE 1} \cup (IF Faults THEN {1} ELSE {})

(* Fault: nobody asks who holds the lock.                                  *)
TakeIdUnlocked(c) ==
    /\ At(c, "seq")
    /\ lock' = [lock EXCEPT ![TypeOf(c)] = c]
    /\ \E n \in NextOf(seq[TypeOf(c)]) : id' = [id EXCEPT ![c] = n]
    /\ seq' = [seq EXCEPT ![TypeOf(c)] = Torn]
    /\ Goto(c, "putid")
    /\ UNCHANGED <<files, call, doc, open, listing, history>>

(* Lock, read the file, and open it again to write, which truncates it.    *)
TakeId(c) ==
    /\ At(c, "seq") /\ lock[TypeOf(c)] = NoClient
    /\ lock' = [lock EXCEPT ![TypeOf(c)] = c]
    /\ \E n \in NextOf(seq[TypeOf(c)]) : id' = [id EXCEPT ![c] = n]
    /\ seq' = [seq EXCEPT ![TypeOf(c)] = Torn]
    /\ Goto(c, "putid")
    /\ UNCHANGED <<files, call, doc, open, listing, history>>

(* Fault: the id is not counted on.                                        *)
Counted(n) == n

NextAfter(n) == GoSucc(n)

(* Write the next id and unlock.                                           *)
PutId(c) ==
    /\ At(c, "putid")
    /\ seq' = [seq EXCEPT ![TypeOf(c)] = NextAfter(id[c])]
    /\ lock' = [lock EXCEPT ![TypeOf(c)] = NoClient]
    /\ issued' = [issued EXCEPT ![TypeOf(c)] = @ \cup {id[c]}]
    /\ Goto(c, "open")
    /\ UNCHANGED <<files, locals, open, listing, shaken, still>>

(* MkdirAll or the opening fails, and the file is as it was; or the write  *)
(* fails.  The deferred Unlock runs in either case.                        *)
NoId(c) ==
    /\ Faults
    /\ \/ At(c, "seq") /\ lock[TypeOf(c)] = NoClient /\ UNCHANGED lock
       \/ At(c, "putid") /\ lock' = [lock EXCEPT ![TypeOf(c)] = NoClient]
    /\ Finish(c, "error")
    /\ UNCHANGED <<disk, locals, open, listing, history>>

(***************************************************************************)
(* os.Stat: Update and Delete need the file, Save must not find one.  A    *)
(* Stat that fails for whatever reason says that there is none.            *)
(***************************************************************************)
Exists(k) == {k \in DOMAIN files} \cup (IF Faults THEN {FALSE} ELSE {})

See(c) == [still EXCEPT ![c] = {KeyOf(c)}]

(* Fault: nothing is required of the file.                                 *)
StatAndGo(c) ==
    /\ At(c, "stat")
    /\ Goto(c, IF call[c].kind = "delete" THEN "remove" ELSE "open")
    /\ still' = IF call[c].kind = "update" /\ KeyOf(c) \in DOMAIN files THEN See(c) ELSE still
    /\ UNCHANGED <<disk, lock, locals, open, listing, issued, shaken>>

Stat(c) ==
    /\ At(c, "stat")
    /\ \E there \in Exists(KeyOf(c)) :
          IF call[c].kind = "save"
          THEN IF there THEN Finish(c, "exists") ELSE Goto(c, "open")
          ELSE IF ~there THEN Finish(c, "notfound")
               ELSE Goto(c, IF call[c].kind = "delete" THEN "remove" ELSE "open")
    /\ still' = IF call[c].kind = "update" /\ pc'[c] = "open" THEN See(c) ELSE still
    /\ UNCHANGED <<disk, lock, locals, open, listing, issued, shaken>>

(***************************************************************************)
(* os.ReadFile and json.Unmarshal in Get, and in the Get that Patch makes  *)
(* before it merges and calls Update.                                      *)
(***************************************************************************)
Read(c) ==
    /\ At(c, "read")
    /\ LET k == KeyOf(c) IN
       \/ /\ Whole(k)
          /\ IF call[c].kind = "get"
             THEN /\ rows' = [rows EXCEPT ![c] = {<<k, files[k].doc>>}]
                  /\ Finish(c, "ok") /\ UNCHANGED <<doc, still>>
             ELSE /\ doc' = [doc EXCEPT ![c] = Overlay(files[k].doc, @)]
                  /\ still' = See(c)
                  /\ Goto(c, "stat") /\ UNCHANGED rows
       \/ /\ k \notin DOMAIN files
          /\ Finish(c, "notfound") /\ UNCHANGED <<doc, rows, still>>
       \/ /\ k \in DOMAIN files /\ (~Whole(k) \/ Faults)
          /\ Finish(c, "error") /\ UNCHANGED <<doc, rows, still>>
    /\ UNCHANGED <<disk, lock, call, id, open, left, issued, shaken>>

(***************************************************************************)
(* os.WriteFile: open, which creates or truncates, and write.              *)
(***************************************************************************)
(* Fault: the file is opened without O_TRUNC.                              *)
OpenedAsIs(k) == Put(files, k, IF k \in DOMAIN files THEN files[k] ELSE Hollow)

Opened(k) == Put(files, k, Hollow)

(* Clients that would write to what is now the file of k.                  *)
WritersOf(k) == {d \in open : KeyOf(d) = k}

Open(c) ==
    /\ At(c, "open")
    /\ LET k == KeyOf(c) IN
       /\ files' = Opened(k)
       /\ shaken' = IF WritersOf(k) = {} THEN shaken ELSE shaken \cup {k}
       /\ Truncate(c, k)
    /\ open' = open \cup {c}
    /\ Goto(c, "write")
    /\ UNCHANGED <<seq, lock, locals, listing, issued>>

(* A file that was removed since is written too, but has no name.          *)
Write(c) ==
    /\ At(c, "write")
    /\ LET k == KeyOf(c) IN
       IF c \in open
       THEN files' = Put(files, k, Written(files[k], doc[c])) /\ Touch(k)
       ELSE UNCHANGED <<files, still>>
    /\ open' = open \ {c}
    /\ Finish(c, "ok")
    /\ UNCHANGED <<seq, lock, locals, listing, issued, shaken>>

FailToOpen(c) == /\ Faults /\ At(c, "open") /\ Finish(c, "error")
                 /\ UNCHANGED <<disk, lock, locals, open, listing, history>>

FailToWrite(c) ==
    /\ Faults /\ At(c, "write")
    /\ LET k == KeyOf(c) IN
       IF c \in open
       THEN /\ \E n \in 0 .. Size(doc[c]) - 1 : files' = Put(files, k, Spilled(files[k], n))
            /\ Touch(k) /\ shaken' = shaken \cup {k}
       ELSE UNCHANGED <<files, still, shaken>>
    /\ open' = open \ {c}
    /\ Finish(c, "error")
    /\ UNCHANGED <<seq, lock, locals, listing, issued>>

(***************************************************************************)
(* os.Remove: open files live on without their name.                       *)
(***************************************************************************)
Remove(c) ==
    /\ At(c, "remove")
    /\ LET k == KeyOf(c) IN
       \/ /\ k \in DOMAIN files
          /\ files' = Drop(files, k)
          /\ open' = open \ WritersOf(k)
          /\ shaken' = shaken \ {k}
          /\ Touch(k)
          /\ Finish(c, "ok")
       \/ /\ k \notin DOMAIN files \/ Faults
          /\ Finish(c, "error")
          /\ UNCHANGED <<files, open, shaken, still>>
    /\ UNCHANGED <<seq, lock, locals, listing, issued>>

(***************************************************************************)
(* List and Search: os.ReadDir and then one file after the other.          *)
(***************************************************************************)
ReadDir(c) ==
    /\ At(c, "dir")
    /\ LET names == {k \in DOMAIN files : k[1] = TypeOf(c)} IN
       /\ left' = [left EXCEPT ![c] = names]
       /\ still' = [still EXCEPT ![c] = {k \in names : Whole(k)}]
       /\ IF names = {} THEN Finish(c, "ok") ELSE Goto(c, "scan")
    /\ UNCHANGED <<disk, lock, locals, open, rows, issued, shaken>>

FailToReadDir(c) == /\ Faults /\ At(c, "dir") /\ Finish(c, "error")
                    /\ UNCHANGED <<disk, lock, locals, open, listing, history>>

Found(c, k) == IF Whole(k) /\ Matches(files[k].doc, call[c].data)
               THEN {<<k, files[k].doc>>} ELSE {}

(* Fault: the first file that is gone or does not parse ends the loop.     *)
RestAfterBad(c, k) == IF Whole(k) THEN left[c] \ {k} ELSE {}

(* Fault: such a file is tried again.                                      *)
RestAfterGood(c, k) == IF Whole(k) THEN left[c] \ {k} ELSE left[c]

RestAfter(c, k) == left[c] \ {k}

(* A file that is gone or does not parse is passed over.                   *)
ReadOne(c) ==
    /\ At(c, "scan")
    /\ \E k \in left[c] :
       /\ \E found \in {Found(c, k)} \cup (IF Faults THEN {{}} ELSE {}) :
             rows' = [rows EXCEPT ![c] = @ \cup found]
       /\ left' = [left EXCEPT ![c] = RestAfter(c, k)]
       /\ IF RestAfter(c, k) = {} THEN Finish(c, "ok") ELSE UNCHANGED <<pc, ret>>
    /\ UNCHANGED <<disk, lock, locals, open, history>>

(***************************************************************************)
(* The process stops; files that were open stay truncated.                 *)
(***************************************************************************)
Crash ==
    /\ Crashes
    /\ lock' = [t \in Types |-> NoClient]
    /\ call' = [c \in Clients |-> NoOp]
    /\ pc' = [c \in Clients |-> "idle"]
    /\ id' = [c \in Clients |-> 0]
    /\ doc' = [c \in Clients |-> EmptyDoc]
    /\ open' = {}
    /\ left' = [c \in Clients |-> {}]
    /\ rows' = [c \in Clients |-> {}]
    /\ ret' = [c \in Clients |-> "ok"]
    /\ shaken' = shaken \cup {KeyOf(c) : c \in open}
    /\ still' = [c \in Clients |-> {}]
    /\ UNCHANGED <<disk, issued>>

NextID(c) == TakeId(c) \/ PutId(c) \/ NoId(c)
WriteFile(c) == Open(c) \/ Write(c) \/ FailToOpen(c) \/ FailToWrite(c)
List(c) == ReadDir(c) \/ ReadOne(c) \/ FailToReadDir(c)

Step(c) == NextID(c) \/ Stat(c) \/ Read(c) \/ WriteFile(c) \/ Remove(c) \/ List(c) \/ Return(c)

Next == Crash \/ \E c \in Clients : Invoke(c) \/ Step(c)

Spec == Init /\ [][Next]_vars

(* The Go scheduler runs every goroutine, and a sync.Mutex hands itself to *)
(* a waiter that has been passed over.                                     *)
FairSpec == Spec /\ \A c \in Clients : WF_vars(Step(c)) /\ SF_vars(NextID(c))

(***************************************************************************)
(* What it promises.                                                       *)
(***************************************************************************)

(* NextID never returns an id twice while integers last, whatever Creates  *)
(* overlap: the lock covers the reading and the writing of _next_id.json.  *)
FreshIds ==
    [][\A c \in Clients : PutId(c) /\ MaxInt \notin issued[TypeOf(c)]
                          => id[c] \notin issued[TypeOf(c)]]_vars

(* A file that does not parse is being written, or its writers overlapped, *)
(* failed or were stopped: one writer at a time leaves JSON behind.        *)
TornIsExplained ==
    \A k \in DOMAIN files : Whole(k) \/ k \in shaken \/ WritersOf(k) # {}

(* List and Search return what nobody touches while they run, as it is, in *)
(* spite of the files they pass over.                                      *)
ListSeesStill ==
    \A c \in Clients :
        At(c, "done") /\ call[c].kind = "list" /\ ret[c] = "ok" =>
            \A k \in still[c] : Matches(files[k].doc, call[c].data) =>
                                    <<k, files[k].doc>> \in rows[c]

(* Create and Save write a file that was not there, while integers last.   *)
CreatesAreNew ==
    [][\A c \in Clients : /\ Open(c) /\ call[c].kind \in {"create", "save"}
                          /\ MaxInt \notin issued[TypeOf(c)]
                          => KeyOf(c) \notin DOMAIN files]_vars

(* Create's ids are new, and so are its documents.                         *)
IdsAreNew == FreshIds /\ CreatesAreNew

(* Update and Patch write a file that was there.                           *)
UpdatesAreOld ==
    [][\A c \in Clients : Open(c) /\ call[c].kind \in {"update", "patch"}
                          => KeyOf(c) \in DOMAIN files]_vars

(* Patch leaves the fields alone that it does not name.                    *)
PatchKeepsRest ==
    [][\A c \in Clients : Open(c) /\ call[c].kind = "patch" /\ Whole(KeyOf(c)) =>
         \A f \in Fields : call[c].data[f] = Absent =>
                               files[KeyOf(c)].doc[f] = doc[c][f]]_vars

(* What Update found, and Patch read, and nobody touched since, is what    *)
(* they write over: the file is there, and a patch adds to it as it is.    *)
LoneWritesBuildOn ==
    [][\A c \in Clients : Open(c) /\ KeyOf(c) \in still[c] =>
         /\ KeyOf(c) \in DOMAIN files
         /\ call[c].kind = "patch" =>
               \A f \in Fields : doc[c][f] = IF call[c].data[f] # Absent THEN call[c].data[f]
                                             ELSE files[KeyOf(c)].doc[f]]_vars

(* What a write has truncated and nobody touched since, it leaves as the   *)
(* document it was called with, however long or torn the file was before:  *)
(* what overlapping writers or a crash have done, the next write mends.    *)
LoneWritesLand ==
    [][\A c \in Clients : Write(c) /\ KeyOf(c) \in still[c] =>
         files'[KeyOf(c)] = File(doc[c], Size(doc[c]))]_vars

(* When no call is in progress every file holds JSON.                      *)
QuietIsWhole ==
    (\A c \in Clients : At(c, "idle")) => \A k \in DOMAIN files : Whole(k)

(* Every call returns, unless the process stops first.                     *)
CallsEnd == \A c \in Clients : call[c] # NoOp ~> call[c] = NoOp
==============================================================================
