--------------------------- MODULE MCJSONFileStore ---------------------------
(***************************************************************************)
(* Small instances of JSONFileStore: documents of no, one and two fields,  *)
(* so that an overlapping write can be shorter than the one before it.     *)
(***************************************************************************)
EXTENDS JSONFileStore, TLC

CONSTANTS user, f, g, v, c1, c2

Symmetry == Permutations(Clients)

Doc(x, y) == [h \in Fields |-> IF h = f THEN x ELSE y]

Op(kind, i, d) == [kind |-> kind, key |-> <<user, i>>, data |-> d]

Short == Doc(v, Absent)
Long  == Doc(v, v)

CreateOps ==
    {Op("create", 0, Long), Op("update", 1, Short), Op("patch", 1, Doc(Absent, Null)),
     Op("delete", 1, EmptyDoc), Op("get", 2, EmptyDoc), Op("list", 0, Short)}

(* The lock, and calls that wait for nothing, with system calls that fail. *)
FaultOps ==
    {Op("create", 0, Long), Op("update", 1, Short), Op("patch", 1, Doc(Absent, v)),
     Op("delete", 1, EmptyDoc), Op("save", 1, Short), Op("get", 1, EmptyDoc),
     Op("list", 0, EmptyDoc)}

IdOps      == {Op("create", 0, Long)}
SaveIdOps  == {Op("create", 0, Long), Op("save", 1, Short)}
OverlapOps == {Op("save", 1, Short), Op("update", 1, Long), Op("update", 1, Short)}
DeleteOps  == {Op("save", 1, Short), Op("update", 1, Long), Op("delete", 1, EmptyDoc)}
PatchOps   == {Op("save", 1, EmptyDoc), Op("patch", 1, Doc(v, Absent)),
               Op("patch", 1, Doc(Absent, v))}
==============================================================================
