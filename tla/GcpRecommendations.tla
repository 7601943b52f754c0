------------------------- MODULE GcpRecommendations -------------------------
(***************************************************************************)
(* Recommendations for Google Cloud: getRecommendations of Recommendations *)
(* with the ServiceWrapper it asks.                                        *)
(*                                                                         *)
(* The zones of the active projects are asked for chunk by chunk.  Then    *)
(* all projects run at once: each zone asks its recommenders one after the *)
(* other, waiting and asking again when the quota is exceeded, and when a  *)
(* project's zones are listed the details of its recommendations are asked *)
(* for.  What is saved is added up in one object for the request; what     *)
(* nothing is known of is estimated from it when its project is complete.  *)
(***************************************************************************)
EXTENDS Integers, FiniteSets, FiniteSetsExt

CONSTANTS
  NProjects,     \* active projects, in the order the search lists them
  Zones,
  ProjectOf,     \* the project of a zone
  ChunkSize,     \* 150 in getActiveProjectsAndZones
  NRecommenders, \* length of RECOMMENDER_IDS
  Recs,          \* recommendations: see RecsAssumption
  Services,      \* the sets of them the service may have
  MaxRefusals    \* bound: how often the quota is exceeded

Projects == 1..NProjects
Recommenders == 1..NRecommenders
Kinds == {"stop", "change", "disk", "image", "address", "other"}

\* A recommendation without operations, or without a cost, throws.
Flaws == {"none", "operations", "cost"}

ASSUME RecsAssumption ==
  /\ NProjects \in Nat /\ NRecommenders \in Nat /\ MaxRefusals \in Nat
  /\ ChunkSize \in Nat \ {0}
  /\ ProjectOf \in [Zones -> Projects]
  /\ IsFiniteSet(Recs) /\ Services \subseteq SUBSET Recs
  /\ Recs \subseteq [zone : Zones, recommender : Recommenders, kind : Kinds,
                     disks : Nat, cost : Nat, kwh : Int, flaw : Flaws]

VARIABLES
  given,    \* the recommendations the service has
  request,  \* "new", "zones", "recommending", "answered" or "refused"
  project,  \* "new", "asked", "left out", "active" or "done"
  lister,   \* the recommender a zone asks, NRecommenders + 1 after the last
  waiting,  \* zones that wait for the quota
  refusals, \* how often the quota was exceeded
  skipped,  \* recommenders that were given up, with their zone
  listed,   \* recommendations the zones have listed
  details,  \* of a recommendation: calls answered, and whether one failed
  fate,     \* "open", "counted", "unknown" or "thrown"
  totals,   \* costAndCo2eTotals
  unknown   \* energy of unknown recommendations, as a quotient

vars == <<given, request, project, lister, waiting, refusals, skipped, listed,
          details, fate, totals, unknown>>

Init ==
  /\ given \in Services
  /\ request = "new"
  /\ project = [p \in Projects |-> "new"]
  /\ lister = [z \in Zones |-> 1]
  /\ waiting = {}
  /\ refusals = 0
  /\ skipped = {}
  /\ listed = {}
  /\ details = [rec \in Recs |-> [answered |-> 0, failed |-> FALSE]]
  /\ fate = [rec \in Recs |-> "open"]
  /\ totals = [cost |-> 0, kwh |-> 0]
  /\ unknown = [rec \in Recs |-> [of |-> 0, per |-> 1]]

RecsOf(p) == {rec \in listed : ProjectOf[rec.zone] = p}

(***************************************************************************)
(* Projects and their zones.                                               *)
(***************************************************************************)
listing == <<lister, waiting, refusals, skipped, listed>>
estimating == <<details, fate, totals, unknown>>

SearchProjects ==
  /\ request = "new"
  /\ request' = "zones"
  /\ UNCHANGED <<given, project, listing, estimating>>

SearchFails ==
  /\ request = "new"
  /\ request' = "refused"
  /\ UNCHANGED <<given, project, listing, estimating>>

Chunk(c) == {p \in Projects : c * ChunkSize < p /\ p <= (c + 1) * ChunkSize}

Settled(p) == project[p] \in {"left out", "active", "done"}

\* Faulty variant: nothing awaits the Promise.all of a chunk.
UnawaitedChunks(c) == c \in Nat

EarlierChunks(c) == \A p \in Projects : p <= c * ChunkSize => Settled(p)

AskChunk(c) ==
  /\ request = "zones"
  /\ Chunk(c) # {}
  /\ \A p \in Chunk(c) : project[p] = "new"
  /\ EarlierChunks(c)
  /\ project' = [p \in Projects |-> IF p \in Chunk(c) THEN "asked" ELSE project[p]]
  /\ UNCHANGED <<given, request, listing, estimating>>

\* Instances, disks and addresses are listed one after the other; an error of
\* one of them is caught and the project is left out.
ZonesAnswer(p) ==
  /\ project[p] = "asked"
  /\ \E outcome \in {"active", "left out"} : project' = [project EXCEPT ![p] = outcome]
  /\ UNCHANGED <<given, request, listing, estimating>>

StartRecommending ==
  /\ request = "zones"
  /\ \A p \in Projects : Settled(p)
  /\ request' = "recommending"
  /\ UNCHANGED <<given, project, listing, estimating>>

(***************************************************************************)
(* Recommenders of a zone.  A request that was refused goes on working.    *)
(***************************************************************************)
Asking(z) ==
  /\ request \notin {"new", "zones"}
  /\ project[ProjectOf[z]] = "active"
  /\ lister[z] \in Recommenders
  /\ z \notin waiting

NextRecommender(z) == lister' = [lister EXCEPT ![z] = @ + 1]

Lists(z) ==
  /\ Asking(z)
  /\ listed' = listed \cup {rec \in given : rec.zone = z /\ rec.recommender = lister[z]}
  /\ NextRecommender(z)
  /\ UNCHANGED <<given, request, project, waiting, refusals, skipped, estimating>>

\* Faulty variant: the loop goes on while it waits.
QuotaExceededMovesOn(z) ==
  /\ Asking(z)
  /\ refusals < MaxRefusals
  /\ refusals' = refusals + 1
  /\ waiting' = waiting \cup {z}
  /\ NextRecommender(z)
  /\ UNCHANGED <<given, request, project, skipped, listed, estimating>>

QuotaExceeded(z) ==
  /\ Asking(z)
  /\ refusals < MaxRefusals
  /\ refusals' = refusals + 1
  /\ waiting' = waiting \cup {z}
  /\ UNCHANGED <<given, request, project, lister, skipped, listed, estimating>>

\* Faulty variant: after the wait the next recommender is asked.
WaitOverGivesUp(z) ==
  /\ z \in waiting
  /\ waiting' = waiting \ {z}
  /\ NextRecommender(z)
  /\ UNCHANGED <<given, request, project, refusals, skipped, listed, estimating>>

WaitOver(z) ==
  /\ z \in waiting
  /\ waiting' = waiting \ {z}
  /\ UNCHANGED <<given, request, project, lister, refusals, skipped, listed, estimating>>

\* Faulty variant: any error is waited for.
RecommenderFailsAgain(z) ==
  /\ Asking(z)
  /\ waiting' = waiting \cup {z}
  /\ UNCHANGED <<given, request, project, lister, refusals, skipped, listed, estimating>>

RecommenderFails(z) ==
  /\ Asking(z)
  /\ skipped' = skipped \cup {[zone |-> z, recommender |-> lister[z]]}
  /\ NextRecommender(z)
  /\ UNCHANGED <<given, request, project, waiting, refusals, listed, estimating>>

AllListed(p) ==
  /\ project[p] = "active"
  /\ \A z \in Zones : ProjectOf[z] = p => lister[z] \notin Recommenders

(***************************************************************************)
(* Details of a recommendation.  stop: the instance, its type and, at      *)
(* once, its disks; change: both types, then the instance's name.          *)
(***************************************************************************)
Calls(rec) ==
  [stop |-> 2 + rec.disks, change |-> 3, disk |-> 1, image |-> 1, address |-> 1,
   other |-> 0][rec.kind]

\* How many answers its energy takes, where it has one.
Measured(rec) ==
  /\ rec.kind \notin {"address", "other"}
  /\ details[rec].answered >= IF rec.kind = "change" THEN 2 ELSE Calls(rec)

\* After a call that fails the estimate is what it was before: zero, or, if only
\* the name is missing, the one already made.
Savings(rec) == IF Measured(rec) THEN rec.kwh ELSE 0

Detailed(rec) == details[rec].failed \/ details[rec].answered = Calls(rec)

InDetail(rec) ==
  /\ rec \in listed
  /\ AllListed(ProjectOf[rec.zone])
  /\ fate[rec] = "open"

DetailCall(rec) ==
  /\ InDetail(rec)
  /\ rec.flaw # "operations"
  /\ ~Detailed(rec)
  /\ \/ details' = [details EXCEPT ![rec].answered = @ + 1]
     \/ details' = [details EXCEPT ![rec].failed = TRUE]
  /\ UNCHANGED <<given, request, project, listing, fate, totals, unknown>>

\* Faulty variant: a detail that fails is not caught.
ThrowsUncaught(rec) ==
  /\ InDetail(rec)
  /\ details[rec].failed
  /\ fate' = [fate EXCEPT ![rec] = "thrown"]
  /\ request' = "refused"
  /\ UNCHANGED <<given, project, listing, details, totals, unknown>>

\* Outside of the try: the promise of the request is rejected.
Throws(rec) ==
  /\ InDetail(rec)
  /\ rec.flaw = "operations" \/ (rec.flaw = "cost" /\ Detailed(rec))
  /\ fate' = [fate EXCEPT ![rec] = "thrown"]
  /\ request' = "refused"
  /\ UNCHANGED <<given, project, listing, details, totals, unknown>>

\* Faulty variant: what goes to the unknown ones is added up too.
CountsAny(rec) == rec.kind \in Kinds

\* Of an address nothing is known.
Counts(rec) == rec.kind # "address"

Accumulate(rec) ==
  /\ InDetail(rec)
  /\ rec.flaw = "none"
  /\ Detailed(rec)
  /\ fate' = [fate EXCEPT ![rec] = IF rec.kind = "address" THEN "unknown" ELSE "counted"]
  /\ totals' = IF Counts(rec)
               THEN [cost |-> totals.cost + rec.cost, kwh |-> totals.kwh + Savings(rec)]
               ELSE totals
  /\ UNCHANGED <<given, request, project, listing, details, unknown>>

(***************************************************************************)
(* The end of a project and of the request.                                *)
(***************************************************************************)
\* Faulty variant: the unknown ones do not wait for the others.
UnknownsReady(p) ==
  \A rec \in RecsOf(p) : fate[rec] # "thrown" /\ (rec.kind = "address" => fate[rec] = "unknown")

Complete(p) == \A rec \in RecsOf(p) : fate[rec] \in {"counted", "unknown"}

\* getCo2eEstimationsForUnknowns, with what the totals are at that moment.
ByCost(rec) ==
  IF totals.cost = 0 THEN [of |-> 0, per |-> 1]
  ELSE [of |-> rec.cost * totals.kwh, per |-> totals.cost]

EstimateUnknowns(p) ==
  /\ AllListed(p)
  /\ request \notin {"new", "zones"}
  /\ Complete(p)
  /\ project' = [project EXCEPT ![p] = "done"]
  /\ unknown' = [rec \in Recs |->
                   IF rec \in RecsOf(p) /\ fate[rec] = "unknown" THEN ByCost(rec)
                   ELSE unknown[rec]]
  /\ UNCHANGED <<given, request, listing, details, fate, totals>>

Answer ==
  /\ request = "recommending"
  /\ \A p \in Projects : project[p] \in {"left out", "done"}
  /\ request' = "answered"
  /\ UNCHANGED <<given, project, listing, estimating>>

ZoneStep(z) == Lists(z) \/ QuotaExceeded(z) \/ WaitOver(z) \/ RecommenderFails(z)

RecStep(rec) == DetailCall(rec) \/ Throws(rec) \/ Accumulate(rec)

Next ==
  \/ SearchProjects \/ SearchFails \/ StartRecommending \/ Answer
  \/ \E c \in 0..NProjects : AskChunk(c)
  \/ \E p \in Projects : ZonesAnswer(p) \/ EstimateUnknowns(p)
  \/ \E z \in Zones : ZoneStep(z)
  \/ \E rec \in Recs : RecStep(rec)

(***************************************************************************)
(* Calls end, timers fire and callbacks run; with which outcome is not     *)
(* fair.  The bound on refusals says that the quota is granted some day.   *)
(***************************************************************************)
Fairness ==
  /\ WF_vars(SearchProjects \/ SearchFails)
  /\ WF_vars(StartRecommending)
  /\ WF_vars(Answer)
  /\ \A c \in 0..NProjects : WF_vars(AskChunk(c))
  /\ \A p \in Projects : WF_vars(ZonesAnswer(p)) /\ WF_vars(EstimateUnknowns(p))
  /\ \A z \in Zones : WF_vars(ZoneStep(z))
  /\ \A rec \in Recs : WF_vars(RecStep(rec))

Spec == Init /\ [][Next]_vars /\ Fairness

-----------------------------------------------------------------------------
\* Types: no more projects than a chunk has are asked at a time, a zone waits only
\* for a recommender it will ask again, and of no recommendation more details are
\* answered than asked for.
TypeOK ==
  /\ given \subseteq Recs /\ listed \subseteq given
  /\ request \in {"new", "zones", "recommending", "answered", "refused"}
  /\ project \in [Projects -> {"new", "asked", "left out", "active", "done"}]
  /\ Cardinality({p \in Projects : project[p] = "asked"}) <= ChunkSize
  /\ lister \in [Zones -> 1..(NRecommenders + 1)]
  /\ waiting \subseteq {z \in Zones : lister[z] \in Recommenders}
  /\ refusals \in 0..MaxRefusals
  /\ skipped \subseteq [zone : Zones, recommender : Recommenders]
  /\ \A rec \in Recs : details[rec] \in [answered : 0..Calls(rec), failed : BOOLEAN]
  /\ fate \in [Recs -> {"open", "counted", "unknown", "thrown"}]
  /\ totals \in [cost : Nat, kwh : Int]
  /\ unknown \in [Recs -> [of : Int, per : Nat \ {0}]]

Cost(recs) == SumFunctionOnSet([rec \in Recs |-> rec.cost], recs)
Energy(recs) == SumFunctionOnSet([rec \in Recs |-> Savings(rec)], recs)

\* The unknown recommendations of a project all rest on the same recommendations:
\* on all its own, and on some other projects' that are counted.
UnknownRestOnOwn ==
  \A p \in Projects : project[p] = "done" =>
    LET own    == {rec \in RecsOf(p) : rec.kind # "address"}
        others == {rec \in Recs : fate[rec] = "counted"} \ own
    IN  \E more \in SUBSET others :
          \A rec \in RecsOf(p) : rec.kind = "address" =>
            LET cost == Cost(own \cup more) IN
            unknown[rec] = IF cost = 0 THEN [of |-> 0, per |-> 1]
                           ELSE [of |-> rec.cost * Energy(own \cup more), per |-> cost]

\* What fails takes nothing else with it.  A request that is answered has every
\* recommendation of the projects whose zones are known but for those of
\* recommenders that were given up after an error: neither a wait for the quota
\* nor a detail that fails loses one.  Once the projects are found it is refused
\* only for a recommendation that is flawed itself.
FailuresStayLocal ==
  /\ request = "answered" =>
       {rec \in Recs : fate[rec] \in {"counted", "unknown"}} =
         {rec \in given :
            /\ project[ProjectOf[rec.zone]] = "done"
            /\ [zone |-> rec.zone, recommender |-> rec.recommender] \notin skipped}
  /\ (request = "refused" /\ \E p \in Projects : project[p] # "new") =>
       \E rec \in listed : rec.flaw # "none"

\* Both: an answer is as whole as the failures leave it, and rests on its own data.
AnswerIsSound == UnknownRestOnOwn /\ FailuresStayLocal

\* Once the projects are found the request is answered or refused, if the quota
\* is granted some day, however many recommenders and details fail.
AlwaysEnds == (request = "zones") ~> (request \in {"answered", "refused"})

=============================================================================
