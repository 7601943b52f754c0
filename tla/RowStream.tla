----------------------------- MODULE RowStream -----------------------------
(***************************************************************************)
(* What a row transformer promises to the two pipelines that use it: the   *)
(* consumer receives every row that yields something, once, and is told    *)
(* that the stream is over only after the last of them; a failure ends the *)
(* stream without that signal.                                             *)
(***************************************************************************)
EXTENDS Naturals, Sequences

CONSTANT Rows   \* the rows whose handler yields something

VARIABLES
  ordered,    \* whether the rows come out in the order they went in
  delivered,  \* the rows handed to the consumer, in order
  status      \* what the consumer knows of the stream

avars == <<ordered, delivered, status>>

Delivered == {delivered[i] : i \in 1..Len(delivered)}

Init ==
  /\ ordered \in BOOLEAN
  /\ delivered = <<>>
  /\ status = "open"

Deliver(r) ==
  /\ status = "open"
  /\ r \notin Delivered
  /\ ordered => \A q \in Rows : q < r => q \in Delivered
  /\ delivered' = Append(delivered, r)
  /\ UNCHANGED <<ordered, status>>

Close ==
  /\ status = "open"
  /\ Delivered = Rows
  /\ status' = "closed"
  /\ UNCHANGED <<ordered, delivered>>

Abort ==
  /\ status = "open"
  /\ status' = "failed"
  /\ UNCHANGED <<ordered, delivered>>

Next == (\E r \in Rows : Deliver(r)) \/ Close \/ Abort

Spec == Init /\ [][Next]_avars
=============================================================================
