------------------------ MODULE MCDashboardFilters ------------------------
(* What four sets of loaded rows make of the filter bars. *)
EXTENDS DashboardFilters

CONSTANTS a1, a2, a3, s1, s2, s3, r1, r2, r3, t1, t2

MCNames == {a1, a2, a3, s1, s2, s3, r1, r2, r3, t1, t2}

Row(p, age, account, x, f, y, g) ==
  [provider |-> p, age |-> age,
   name |-> [k \in {"accounts", f, g} |-> CASE k = "accounts" -> account [] k = f -> x [] OTHER -> y]]

Estimate(p, age, account, service, region) ==
  Row(p, age, account, service, "services", region, "regions")
Recommendation(p, account, region, type) ==
  Row(p, 0, account, region, "regions", type, "types")

\* The second provider has no recommendation, the third has no rows.
OneWithoutRecommendations ==
  {Estimate(1, 0, a1, s1, r1), Estimate(1, 2, a1, s2, r1), Estimate(1, 1, a2, s1, r2),
   Estimate(2, 0, a3, s3, r3), Estimate(2, 2, Null, Null, r3),
   Recommendation(1, a1, r1, t1), Recommendation(1, a2, r2, t2)}

\* Both have recommendations; some names are shared, null or empty.
SharedNames ==
  {Estimate(1, 0, a1, s1, Null), Estimate(1, 0, Blank, s2, r1),
   Estimate(2, 1, a3, s1, r3), Estimate(2, 1, Null, s3, r3),
   Recommendation(1, a1, r1, t1), Recommendation(2, a3, r3, Null),
   Recommendation(2, a3, r3, t1)}

\* One provider, one account.
Single == {Estimate(1, 0, a1, s1, r1), Estimate(1, 1, a1, s2, r1)}

MCDataSets == {OneWithoutRecommendations, SharedNames, Single, {}}
===========================================================================
