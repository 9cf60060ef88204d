---------------------------- MODULE MCSQLiteStore ----------------------------
(***************************************************************************)
(* Small instances of SQLiteStore: integers of three bits, so that the     *)
(* sequence reaches its end in two Creates, and one reference field whose  *)
(* values meet every case of the three scanners.                           *)
(***************************************************************************)
EXTENDS SQLiteStore, TLC

CONSTANTS user, f, c1, c2, auditor

Symmetry == Permutations(Clients)

Ref(i, x) == [entity |-> user, id |-> i, frac |-> x]
NoTarget  == [entity |-> NoEntity, id |-> 1, frac |-> FALSE]
Doc(v)    == [g \in Fields |-> v]

Op(k, i, v) == [kind |-> k, key |-> <<user, i>>, data |-> Doc(v)]

(* Every call, with a Save in the middle and one at the end of the range.  *)
AllOps ==
    {Op("create", 0, Ref(1, FALSE)), Op("create", 0, Null),
     Op("update", 1, Ref(2, FALSE)), Op("patch", 1, Null),
     Op("patch", 1, Ref(-1, FALSE)),
     Op("delete", 1, Absent), Op("save", -1, NoTarget), Op("save", 2, Ref(0, TRUE)),
     Op("rebuild", 0, Absent), Op("get", 1, Absent), Op("list", 0, Absent),
     Op("out", 1, Absent), Op("in", 1, Absent)}

(* Everything but Save, so that Create alone picks ids; every reference is *)
(* to a positive one.                                                      *)
SyncedOps ==
    {Op("create", 0, Ref(1, FALSE)), Op("update", 1, Ref(2, FALSE)), Op("patch", 2, Ref(1, TRUE)),
     Op("delete", 1, Absent), Op("delete", 2, Absent), Op("rebuild", 0, Absent),
     Op("get", 1, Absent)}

(* ... and nothing removes the target of a reference.                      *)
WriteOps == {o \in SyncedOps : o.kind # "delete"}

DeleteOps   == {Op("create", 0, Ref(2, FALSE)), Op("delete", 2, Absent)}
NegativeOps == {Op("create", 0, Ref(-1, FALSE))}
RelinkOps   == DeleteOps \cup {Op("save", 2, Null)}
LastIdOps   == {Op("create", 0, Null), Op("save", MaxInt, Null)}
==============================================================================
