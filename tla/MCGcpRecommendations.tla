------------------------ MODULE MCGcpRecommendations ------------------------
(* Two projects, one with two zones and one with one.                      *)
EXTENDS GcpRecommendations

MCProjectOf == [a |-> 1, b |-> 1, c |-> 2]
MCZones == DOMAIN MCProjectOf

Rec(z, i, kind, disks, cost, kwh, flaw) ==
  [zone |-> z, recommender |-> i, kind |-> kind, disks |-> disks, cost |-> cost,
   kwh |-> kwh, flaw |-> flaw]

Address(z, i, cost) == Rec(z, i, "address", 0, cost, 0, "none")

\* Costs and energies whose sums tell the recommendations apart; a change of
\* machine type may save money and cost energy.
Stop   == Rec("a", 2, "stop", 1, 1, 1, "none")
Change == Rec("c", 1, "change", 0, 4, -4, "none")
Other  == Rec("b", 1, "other", 0, 2, 7, "none")
Image  == Rec("a", 2, "image", 0, 8, 16, "none")
NoCost == Rec("c", 1, "disk", 0, 1, 8, "cost")
NoOperations == Rec("a", 1, "disk", 0, 1, 32, "operations")

\* Unknown recommendations beside known ones of both projects, beside those of the
\* other project only, alone, and with flaws.
MCServices ==
  {{Address("a", 1, 3), Stop, Address("c", 2, 5), Change},
   {Address("a", 1, 3), Address("c", 2, 5), Other, Image},
   {Address("c", 2, 5)},
   {Address("a", 1, 3), NoCost, Other},
   {NoOperations, Change}}

MCRecs == UNION MCServices
=============================================================================
