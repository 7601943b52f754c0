------------------------- MODULE MCStreamTransform -------------------------
(***************************************************************************)
(* Instances of StreamTransform for TLC.                                   *)
(***************************************************************************)
EXTENDS StreamTransform

\* One row in the middle yields nothing: its handler calls back without a chunk.
AllButThird == 1..NRows \ {3}
=============================================================================
