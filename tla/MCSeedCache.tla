---------------------------- MODULE MCSeedCache ----------------------------
(***************************************************************************)
(* An instance of SeedCache: the ranges that are entered begin and end on   *)
(* first and last days of weeks and months, and within them.                *)
(***************************************************************************)
EXTENDS SeedCache

Bounds == [first : {1, 4, 7, 8}, last : {7, 10, 14, 15}]
Ordered == {r \in Bounds : r.first <= r.last}
=============================================================================
