-------------------------- MODULE MCPagedEstimates --------------------------
(***************************************************************************)
(* Instances of PagedEstimates: the ranges that views and seedings have.   *)
(***************************************************************************)
EXTENDS PagedEstimates

View(first, last) ==
  [first |-> first, last |-> last, ignoreCache |-> FALSE, seed |-> 0, capitals |-> TRUE]

\* A view of everything, one of the newest period, one past the cache, and the
\* seeding of one provider, by a name in capitals and in small letters.
Views ==
  {View(1, NPeriods), View(NPeriods, NPeriods),
   [View(1, NPeriods) EXCEPT !.ignoreCache = TRUE],
   [View(1, NPeriods) EXCEPT !.seed = 1],
   [View(1, NPeriods) EXCEPT !.seed = 1, !.capitals = FALSE]}
=============================================================================
