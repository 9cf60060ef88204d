-------------------------------- MODULE Maps ---------------------------------
(***************************************************************************)
(* Tables and Go maps as functions on the keys they hold.                  *)
(***************************************************************************)
EmptyMap     == [x \in {} |-> {}]
Put(t, k, v) == [x \in DOMAIN t \cup {k} |-> IF x = k THEN v ELSE t[x]]
Drop(t, k)   == [x \in DOMAIN t \ {k} |-> t[x]]
==============================================================================
