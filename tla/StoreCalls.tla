----------------------------- MODULE StoreCalls ------------------------------
(***************************************************************************)
(* The Store interface of pkg/storage/storage.go: the calls, what they     *)
(* return, and what the reading calls answer on given tables.              *)
(***************************************************************************)
EXTENDS OluData

CONSTANTS
    Clients,    \* goroutines that call the store
    Ops,        \* the calls they make
    NoOp,       \* no call in progress
    NoRet,      \* the call in progress has not taken effect
    CursorBreaks \* whether a database cursor may end before its last row

ASSUME CursorIsFlag == CursorBreaks \in BOOLEAN

Kinds == {"create", "update", "patch", "delete", "save", "rebuild",
          "get", "list", "out", "in"}

Operations == [kind : Kinds, key : Keys, data : Documents]

Row == [key : Keys, doc : Documents, rel : Fields \cup {Absent}]

ASSUME OpsAreCalls == /\ Ops \subseteq Operations
                      /\ NoOp \notin Operations

Returns == [status : {"ok", "notfound", "exists", "error"},
            id     : Ids,
            rows   : SUBSET Row]

ASSUME NoRetIsNone == NoRet \notin Returns

Ret(s)      == [status |-> s, id |-> 0, rows |-> {}]
RetId(i)    == [status |-> "ok", id |-> i, rows |-> {}]
RetRows(rs) == [status |-> "ok", id |-> 0, rows |-> rs]

AsRow(ds, k, f) == [key |-> k, doc |-> ds[k], rel |-> f]

(* What the four reading calls answer on tables ds and es.                 *)
Answer(o, ds, es) ==
    CASE o.kind = "get"  -> IF o.key \in DOMAIN ds
                            THEN RetRows({AsRow(ds, o.key, Absent)})
                            ELSE Ret("notfound")
      [] o.kind = "list" -> RetRows({AsRow(ds, k, Absent) :
                                      k \in {x \in DOMAIN ds : x[1] = o.key[1]}})
      [] o.kind = "out"  -> RetRows({AsRow(ds, e.dst, e.rel) :
                                      e \in {x \in es : /\ x.src = o.key
                                                        /\ x.dst \in DOMAIN ds}})
      [] o.kind = "in"   -> RetRows({AsRow(ds, e.src, e.rel) :
                                      e \in {x \in es : /\ x.dst = o.key
                                                        /\ x.src \in DOMAIN ds}})

(* The rows a loop over rows.Next sees when rows.Err is not asked why it   *)
(* ended.  The queries have no ORDER BY: any rows may be the missing ones. *)
Scans(rows) == IF CursorBreaks THEN SUBSET rows ELSE {rows}

OutOf(es, k)   == {e \in es : e.src = k}
Touching(es, k) == {e \in es : e.src = k \/ e.dst = k}
==============================================================================
