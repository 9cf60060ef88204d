------------------------------ MODULE DocStore -------------------------------
(***************************************************************************)
(* What a document store with a synchronised graph promises its callers:   *)
(* every call takes effect at one instant between its invocation and its   *)
(* return, or fails and changes nothing; an id that Create picks is above  *)
(* every id the type ever had; and a write replaces the edges of the       *)
(* document it writes together with the document.                          *)
(***************************************************************************)
EXTENDS StoreCalls

VARIABLES
    docs,   \* documents by key
    edges,  \* edge rows
    floor,  \* per type, a bound on the ids in use; Create picks above it
    call,   \* the call each client has in progress
    ret     \* what it returned, once it has taken effect

vars == <<docs, edges, floor, call, ret>>
store == <<docs, edges, floor>>

(* Store document d under k with the edges of its REF fields.              *)
Write(k, d) == /\ docs' = Put(docs, k, d)
               /\ edges' = (edges \ OutOf(edges, k)) \cup SyncEdges(k, d)

TypeOK ==
    /\ DOMAIN docs \subseteq Keys
    /\ docs \in [DOMAIN docs -> Documents]
    /\ edges \subseteq Edges
    /\ floor \in [Types -> (MinInt - 1) .. Overflow]
    /\ call \in [Clients -> Ops \cup {NoOp}]
    /\ ret \in [Clients -> Returns \cup {NoRet}]

Init == /\ docs = [k \in {} |-> EmptyDoc]
        /\ edges = {}
        /\ floor = [t \in Types |-> MinInt - 1]
        /\ call = [c \in Clients |-> NoOp]
        /\ ret = [c \in Clients |-> NoRet]

Invoke(c) == /\ call[c] = NoOp
             /\ \E o \in Ops : call' = [call EXCEPT ![c] = o]
             /\ UNCHANGED <<docs, edges, floor, ret>>

Pending(c) == call[c] # NoOp /\ ret[c] = NoRet

Reply(c, r) == ret' = [ret EXCEPT ![c] = r] /\ UNCHANGED call

DoCreate(c) ==
    /\ Pending(c) /\ call[c].kind = "create"
    /\ LET t == call[c].key[1] IN
       \E i \in Ids : /\ i > floor[t]
                      /\ Write(<<t, i>>, call[c].data)
                      /\ \E n \in i .. Overflow : floor' = [floor EXCEPT ![t] = n]
                      /\ Reply(c, RetId(i))

DoSave(c) ==
    /\ Pending(c) /\ call[c].kind = "save"
    /\ LET k == call[c].key IN
       IF k \in DOMAIN docs
       THEN Reply(c, Ret("exists")) /\ UNCHANGED store
       ELSE /\ Write(k, call[c].data)
            /\ \E n \in SqlMax(floor[k[1]], k[2]) .. Overflow :
                   floor' = [floor EXCEPT ![k[1]] = n]
            /\ Reply(c, Ret("ok"))

DoUpdate(c) ==
    /\ Pending(c) /\ call[c].kind \in {"update", "patch"}
    /\ LET k == call[c].key
           d == IF call[c].kind = "patch" THEN Merge(docs[k], call[c].data)
                                          ELSE call[c].data
       IN IF k \notin DOMAIN docs
          THEN Reply(c, Ret("notfound")) /\ UNCHANGED store
          ELSE Write(k, d) /\ Reply(c, Ret("ok")) /\ UNCHANGED floor

DoDelete(c) ==
    /\ Pending(c) /\ call[c].kind = "delete"
    /\ LET k == call[c].key IN
       IF k \notin DOMAIN docs
       THEN Reply(c, Ret("notfound")) /\ UNCHANGED store
       ELSE /\ docs' = Drop(docs, k)
            /\ edges' = edges \ Touching(edges, k)
            /\ Reply(c, Ret("ok")) /\ UNCHANGED floor

DoRebuild(c) ==
    /\ Pending(c) /\ call[c].kind = "rebuild"
    /\ \E seen \in Scans(DOMAIN docs) :
           edges' = UNION {RebuildEdges(k, docs[k]) : k \in seen}
    /\ Reply(c, Ret("ok")) /\ UNCHANGED <<docs, floor>>

DoRead(c) ==
    /\ Pending(c) /\ call[c].kind \in {"get", "list", "out", "in"}
    /\ Reply(c, Answer(call[c], docs, edges)) /\ UNCHANGED store

(* The database fails, the request is cancelled or the ids have run out.   *)
Fail(c) == Pending(c) /\ Reply(c, Ret("error")) /\ UNCHANGED store

Return(c) == /\ ret[c] # NoRet
             /\ call' = [call EXCEPT ![c] = NoOp]
             /\ ret' = [ret EXCEPT ![c] = NoRet]
             /\ UNCHANGED store

(* The process stops: calls in progress vanish, what took effect stays.    *)
Crash == /\ call' = [c \in Clients |-> NoOp]
         /\ ret' = [c \in Clients |-> NoRet]
         /\ UNCHANGED store

Do(c) == \/ DoCreate(c) \/ DoSave(c) \/ DoUpdate(c) \/ DoDelete(c)
         \/ DoRebuild(c) \/ DoRead(c) \/ Fail(c)

Next == Crash \/ \E c \in Clients : Invoke(c) \/ Do(c) \/ Return(c)

Spec == Init /\ [][Next]_vars
==============================================================================
