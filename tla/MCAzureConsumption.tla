------------------------- MODULE MCAzureConsumption -------------------------
(* Two subscriptions: one with days of both kinds, one with a known row     *)
(* over two days.                                                          *)
EXTENDS AzureConsumption

Row(s, f, l, k) == [sub |-> s, first |-> f, last |-> l, known |-> k]

MCRows == {Row(1, 0, 0, TRUE), Row(1, 2, 2, FALSE), Row(2, 1, 2, TRUE), Row(2, 0, 0, FALSE)}

\* Without its known row the first subscription can say nothing of the other.
MCUsages == {MCRows, MCRows \ {Row(1, 0, 0, TRUE)}}
=============================================================================
