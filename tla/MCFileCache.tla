---------------------------- MODULE MCFileCache ----------------------------
(***************************************************************************)
(* Instances of FileCache: the requests the clients make.                  *)
(***************************************************************************)
EXTENDS FileCache, TLC

Symmetry == Permutations(Clients)

Plain(first, last) ==
  [first |-> first, last |-> last, aligned |-> TRUE, ignoreCache |-> FALSE]

\* Every range, from its first timestamp on.
Ranges == {Plain(r[1], r[2]) : r \in {s \in Periods \X Periods : s[1] <= s[2]}}

\* A dashboard with a fixed start date.
SameStart == {Plain(1, last) : last \in Periods}

\* Ranges that begin within their first period, too.
AllRanges == Ranges \cup {[r EXCEPT !.aligned = FALSE] : r \in Ranges}

WithIgnoring == SameStart \cup {[r EXCEPT !.ignoreCache = TRUE] : r \in SameStart}

\* Both: overlapping and changing ranges, and one request after the other.
AllRequests == AllRanges \cup WithIgnoring
=============================================================================
