----------------------------- MODULE Selection -----------------------------
(***************************************************************************)
(* What queries and filters do to a list of estimates, for the caches.     *)
(***************************************************************************)
EXTENDS Naturals, Sequences

Elements(s) == {s[i] : i \in DOMAIN s}

\* The items of a sequence that are in a set.
Select(s, S) ==
  LET Taken[n \in 0..Len(s)] ==
        IF n = 0 THEN <<>>
        ELSE IF s[n] \in S THEN Append(Taken[n - 1], s[n]) ELSE Taken[n - 1]
  IN  Taken[Len(s)]
=============================================================================
