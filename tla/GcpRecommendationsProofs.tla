---------------------- MODULE GcpRecommendationsProofs ----------------------
(***************************************************************************)
(* What an answer with recommendations holds, for every number of projects, *)
(* zones, recommenders and recommendations and every order of the answers.  *)
(*                                                                         *)
(* The inductive invariant says at every moment what has been listed: of    *)
(* each zone exactly what the recommenders it has passed had to say, but    *)
(* for those that were given up.  On top of it, the totals are the sums of *)
(* what has been counted, now and when each project ended, which takes the *)
(* laws of sums over finite sets, by induction on their size.              *)
(***************************************************************************)
EXTENDS GcpRecommendations, CollectionProofs

\* The stages of a request, as far as its projects and zones show them.
Stages ==
  /\ request = "new" => \A p \in Projects : project[p] = "new"
  /\ request = "zones" => \A p \in Projects : project[p] # "done"
  /\ request = "answered" => \A p \in Projects : project[p] \in {"left out", "done"}
  /\ \A p \in Projects : project[p] = "done" =>
       \A z \in Zones : ProjectOf[z] = p => lister[z] = NRecommenders + 1
  /\ \A z \in Zones :
       \/ lister[z] = 1
       \/ project[ProjectOf[z]] \in {"active", "done"}

\* What a zone has listed is what its recommenders had, up to the one it asks.
ListedSoFar ==
  /\ \A s \in skipped : s.recommender < lister[s.zone]
  /\ listed = {rec \in given :
                 /\ rec.recommender < lister[rec.zone]
                 /\ [zone |-> rec.zone, recommender |-> rec.recommender] \notin skipped}

\* Only what is listed has a fate, and of a project that is done everything has.
FatesAreListed ==
  /\ \A rec \in Recs : fate[rec] # "open" => rec \in listed
  /\ \A rec \in listed :
       project[ProjectOf[rec.zone]] = "done" => fate[rec] \in {"counted", "unknown"}

RefusedForFlaw ==
  request = "refused" =>
    \/ \A p \in Projects : project[p] = "new"
    \/ \E rec \in listed : rec.flaw # "none"

\* Those that are asked are of one chunk, with all before it settled.
OneChunk ==
  \E c \in 0..NProjects :
    \A p \in Projects : project[p] = "asked" => p \in Chunk(c) /\ EarlierChunks(c)

IInv ==
  /\ TypeOK
  /\ details \in [Recs -> [answered : Nat, failed : BOOLEAN]]
  /\ Stages
  /\ ListedSoFar
  /\ FatesAreListed
  /\ RefusedForFlaw
  /\ OneChunk
-----------------------------------------------------------------------------
LEMMA RecTypes ==
  ASSUME NEW rec \in Recs
  PROVE /\ rec.zone \in Zones /\ rec.recommender \in Recommenders
        /\ rec.kind \in Kinds /\ rec.disks \in Nat /\ rec.cost \in Nat
        /\ rec.kwh \in Int
        /\ ProjectOf[rec.zone] \in Projects
  BY RecsAssumption

LEMMA CallsNat == ASSUME NEW rec \in Recs PROVE Calls(rec) \in Nat
  <1>1. rec.disks \in Nat /\ rec.kind \in Kinds
    BY RecTypes
  <1> QED
    BY <1>1 DEF Calls, Kinds

LEMMA ChunkIsSmall ==
  ASSUME NEW c \in Nat
  PROVE IsFiniteSet(Chunk(c)) /\ Cardinality(Chunk(c)) <= ChunkSize
  <1> DEFINE a == c * ChunkSize + 1
             b == c * ChunkSize + ChunkSize
  <1>1. ChunkSize \in Nat /\ c * ChunkSize \in Nat /\ a \in Int /\ b \in Int
    BY RecsAssumption
  <1>2. Chunk(c) \subseteq a..b
    <2>1. (c + 1) * ChunkSize = b
      BY <1>1
    <2> QED
      BY <1>1, <2>1, RecsAssumption DEF Chunk, Projects
  <1>3. IsFiniteSet(a..b) /\ Cardinality(a..b) = ChunkSize
    <2>1. Cardinality(a..b) = IF a > b THEN 0 ELSE b - a + 1
      BY <1>1, FS_Interval
    <2>2. IsFiniteSet(a..b)
      BY <1>1, FS_Interval
    <2>3. b - a + 1 = ChunkSize /\ (a > b => ChunkSize = 0)
      BY <1>1
    <2> QED
      BY <2>1, <2>2, <2>3
  <1> QED
    BY <1>2, <1>3, FS_Subset

LEMMA ChunksGrow ==
  ASSUME NEW i \in Nat, NEW j \in Nat, i <= j
  PROVE i * ChunkSize <= j * ChunkSize
  BY RecsAssumption

LEMMA LaterChunk ==
  ASSUME NEW c \in Nat, NEW d \in Nat, (c + 1) * ChunkSize < (d + 1) * ChunkSize
  PROVE c < d
  <1> SUFFICES ASSUME d <= c PROVE FALSE
    OBVIOUS
  <1>1. (d + 1) * ChunkSize <= (c + 1) * ChunkSize
    <2>1. c + 1 \in Nat /\ d + 1 \in Nat /\ d + 1 <= c + 1
      OBVIOUS
    <2> QED
      BY <2>1, ChunksGrow
  <1>2. (c + 1) * ChunkSize \in Int /\ (d + 1) * ChunkSize \in Int
    BY RecsAssumption
  <1> QED
    BY <1>1, <1>2

\* The first conjunct of the types that is not local to a step.
LEMMA AskedFewEnough ==
  ASSUME OneChunk
  PROVE Cardinality({p \in Projects : project[p] = "asked"}) <= ChunkSize
  <1> DEFINE asked == {p \in Projects : project[p] = "asked"}
  <1>1. PICK c \in 0..NProjects : asked \subseteq Chunk(c)
    BY DEF OneChunk
  <1>2. c \in Nat
    BY RecsAssumption
  <1>3. IsFiniteSet(Chunk(c)) /\ Cardinality(Chunk(c)) <= ChunkSize
    BY <1>2, ChunkIsSmall
  <1>4. IsFiniteSet(asked) /\ Cardinality(asked) <= Cardinality(Chunk(c))
    BY <1>1, <1>3, FS_Subset
  <1>5. Cardinality(asked) \in Nat /\ Cardinality(Chunk(c)) \in Nat
    BY <1>3, <1>4, FS_CardinalityType
  <1> QED
    BY <1>3, <1>4, <1>5, RecsAssumption

LEMMA AskedFewEnoughNext ==
  ASSUME OneChunk'
  PROVE (Cardinality({p \in Projects : project[p] = "asked"}) <= ChunkSize)'
  BY AskedFewEnough, PTL
-----------------------------------------------------------------------------
LEMMA InitIInv == Init => IInv
  <1> SUFFICES ASSUME Init PROVE IInv
    OBVIOUS
  <1>1. OneChunk
    <2>1. 0 \in 0..NProjects
      BY RecsAssumption
    <2>2. {p \in Projects : project[p] = "asked"} = {}
      BY DEF Init
    <2> QED
      BY <2>1, <2>2 DEF OneChunk
  <1>2. details \in [Recs -> [answered : Nat, failed : BOOLEAN]]
    BY DEF Init
  <1>3. TypeOK
    <2>1. given \subseteq Recs /\ listed \subseteq given
      BY RecsAssumption DEF Init
    <2>2. \A rec \in Recs : details[rec] \in [answered : 0..Calls(rec), failed : BOOLEAN]
      BY CallsNat DEF Init
    <2>3. lister \in [Zones -> 1..(NRecommenders + 1)]
      BY RecsAssumption DEF Init
    <2>4. unknown \in [Recs -> [of : Int, per : Nat \ {0}]]
      BY DEF Init
    <2>5. totals \in [cost : Nat, kwh : Int]
      BY DEF Init
    <2>6. Cardinality({p \in Projects : project[p] = "asked"}) <= ChunkSize
      BY <1>1, AskedFewEnough
    <2>7. /\ request \in {"new", "zones", "recommending", "answered", "refused"}
          /\ project \in [Projects -> {"new", "asked", "left out", "active", "done"}]
          /\ waiting \subseteq {z \in Zones : lister[z] \in Recommenders}
          /\ refusals \in 0..MaxRefusals
          /\ skipped \subseteq [zone : Zones, recommender : Recommenders]
          /\ fate \in [Recs -> {"open", "counted", "unknown", "thrown"}]
      BY RecsAssumption DEF Init
    <2> QED
      BY <2>1, <2>2, <2>3, <2>4, <2>5, <2>6, <2>7 DEF TypeOK
  <1>4. Stages
    BY DEF Init, Stages
  <1>5. ListedSoFar
    <2>1. \A rec \in Recs : rec.recommender \in Nat /\ rec.recommender >= 1
                            /\ rec.zone \in Zones
      BY RecTypes, RecsAssumption DEF Recommenders
    <2>2. given \subseteq Recs
      BY RecsAssumption DEF Init
    <2> QED
      BY <2>1, <2>2 DEF Init, ListedSoFar
  <1>6. FatesAreListed /\ RefusedForFlaw
    BY DEF Init, FatesAreListed, RefusedForFlaw
  <1> QED
    BY <1>1, <1>2, <1>3, <1>4, <1>5, <1>6 DEF IInv
-----------------------------------------------------------------------------
(***************************************************************************)
(* Steps that change the request or the projects only.                     *)
(***************************************************************************)
LEMMA ProjectSteps ==
  ASSUME IInv,
         \/ SearchProjects \/ SearchFails \/ StartRecommending \/ Answer
         \/ \E c \in 0..NProjects : AskChunk(c)
         \/ \E p \in Projects : ZonesAnswer(p)
  PROVE IInv'
  <1>1. UNCHANGED <<given, listing, estimating>>
    BY DEF SearchProjects, SearchFails, StartRecommending, Answer, AskChunk,
           ZonesAnswer
  <1>2. /\ request' \in {"new", "zones", "recommending", "answered", "refused"}
        /\ project' \in [Projects -> {"new", "asked", "left out", "active", "done"}]
    BY DEF SearchProjects, SearchFails, StartRecommending, Answer, AskChunk,
           ZonesAnswer, IInv, TypeOK
  <1>3. OneChunk'
    <2>1. CASE \E c \in 0..NProjects : AskChunk(c)
      <3>1. PICK c \in 0..NProjects : AskChunk(c)
        BY <2>1
      <3>2. c \in Nat /\ ChunkSize \in Nat \ {0} /\ c * ChunkSize \in Nat
        BY RecsAssumption
      <3>3. \A p \in Projects : project[p] # "asked"
        <4> SUFFICES ASSUME NEW p \in Projects, project[p] = "asked" PROVE FALSE
          OBVIOUS
        <4>1. ~(p <= c * ChunkSize)
          BY <3>1 DEF AskChunk, EarlierChunks, Settled
        <4>2. p \notin Chunk(c)
          BY <3>1 DEF AskChunk
        <4>3. PICK d \in 0..NProjects : p \in Chunk(d) /\ EarlierChunks(d)
          BY DEF IInv, OneChunk
        <4>4. PICK q \in Chunk(c) : project[q] = "new"
          BY <3>1 DEF AskChunk
        <4>5. d \in Nat /\ d * ChunkSize \in Nat /\ p \in Nat /\ q \in Nat
          BY <3>2, RecsAssumption DEF Projects, Chunk
        <4>6. (c + 1) * ChunkSize < p /\ p <= (d + 1) * ChunkSize
          BY <3>2, <4>1, <4>2, <4>3, <4>5 DEF Chunk
        <4>7. c < d
          <5>1. (c + 1) * ChunkSize \in Int /\ (d + 1) * ChunkSize \in Int
            BY <3>2, <4>5
          <5>2. (c + 1) * ChunkSize < (d + 1) * ChunkSize
            BY <4>5, <4>6, <5>1
          <5> QED
            BY <3>2, <4>5, <5>2, LaterChunk
        <4>8. (c + 1) * ChunkSize <= d * ChunkSize
          <5>1. c + 1 \in Nat /\ c + 1 <= d
            BY <3>2, <4>5, <4>7
          <5> QED
            BY <3>2, <4>5, <5>1, ChunksGrow
        <4>9. q <= d * ChunkSize /\ q \in Projects
          BY <3>2, <4>4, <4>5, <4>8 DEF Chunk
        <4> QED
          BY <4>3, <4>4, <4>9 DEF EarlierChunks, Settled
      <3> QED
        BY <3>1, <3>3 DEF AskChunk, OneChunk, EarlierChunks, Settled
    <2>2. CASE \E p \in Projects : ZonesAnswer(p)
      BY <2>2 DEF ZonesAnswer, IInv, TypeOK, OneChunk, EarlierChunks, Settled
    <2>3. CASE SearchProjects \/ SearchFails \/ StartRecommending \/ Answer
      BY <2>3 DEF SearchProjects, SearchFails, StartRecommending, Answer, IInv,
                  OneChunk, EarlierChunks, Settled
    <2> QED
      BY <2>1, <2>2, <2>3
  <1>4. TypeOK' /\ (details \in [Recs -> [answered : Nat, failed : BOOLEAN]])'
    <2>1. (Cardinality({p \in Projects : project[p] = "asked"}) <= ChunkSize)'
      BY <1>3, AskedFewEnoughNext
    <2> QED
      BY <1>1, <1>2, <2>1 DEF IInv, TypeOK, listing, estimating
  <1>5. Stages'
    <2>1. \A p \in Projects :
            /\ project[p] \in {"active", "done", "left out"} =>
                 project'[p] = project[p] \/ request = "new"
            /\ project'[p] = "done" => project[p] = "done"
      BY DEF SearchProjects, SearchFails, StartRecommending, Answer, AskChunk,
             ZonesAnswer, IInv, TypeOK
    <2>2. /\ request' = "new" => request = "new" /\ project' = project
          /\ request' = "zones" => request \in {"new", "zones"}
          /\ request' = "answered" =>
               \/ request = "answered"
               \/ /\ project' = project
                  /\ \A p \in Projects : project[p] \in {"left out", "done"}
      BY DEF SearchProjects, SearchFails, StartRecommending, Answer, AskChunk,
             ZonesAnswer, IInv, TypeOK, Stages
    <2>3. \A z \in Zones : ProjectOf[z] \in Projects
      BY RecsAssumption
    <2>4. UNCHANGED lister
      BY <1>1 DEF listing
    <2> USE DEF IInv, Stages
    <2>5. request' = "new" => \A p \in Projects : project'[p] = "new"
      BY <2>2
    <2>6. request' = "zones" => \A p \in Projects : project'[p] # "done"
      BY <2>1, <2>2
    <2>7. request' = "answered" => \A p \in Projects : project'[p] \in {"left out", "done"}
      BY <2>1, <2>2
    <2>8. \A p \in Projects : project'[p] = "done" =>
            \A z \in Zones : ProjectOf[z] = p => lister'[z] = NRecommenders + 1
      BY <2>1, <2>4
    <2>9. \A z \in Zones :
            lister'[z] = 1 \/ project'[ProjectOf[z]] \in {"active", "done"}
      BY <2>1, <2>3, <2>4
    <2> QED
      BY <2>5, <2>6, <2>7, <2>8, <2>9
  <1>6. ListedSoFar'
    BY <1>1 DEF IInv, ListedSoFar, listing
  <1>7. FatesAreListed'
    <2>1. \A p \in Projects : project'[p] = "done" => project[p] = "done"
      BY DEF SearchProjects, SearchFails, StartRecommending, Answer, AskChunk,
             ZonesAnswer, IInv, TypeOK
    <2>2. \A rec \in listed : ProjectOf[rec.zone] \in Projects
      BY RecTypes DEF IInv, TypeOK
    <2> QED
      BY <1>1, <2>1, <2>2 DEF IInv, FatesAreListed, listing, estimating
  <1>8. RefusedForFlaw'
    BY <1>1 DEF SearchProjects, SearchFails, StartRecommending, Answer, AskChunk,
                ZonesAnswer, IInv, TypeOK, Stages, RefusedForFlaw, listing
  <1> QED
    BY <1>3, <1>4, <1>5, <1>6, <1>7, <1>8 DEF IInv

LEMMA ZoneTypes ==
  ASSUME TypeOK
  PROVE /\ \A rec \in given : rec.zone \in Zones /\ rec.recommender \in Nat
        /\ \A s \in skipped : s.zone \in Zones /\ s.recommender \in Nat
        /\ \A y \in Zones : lister[y] \in Nat
  <1>1. Recommenders \subseteq Nat /\ NRecommenders \in Nat
    BY RecsAssumption DEF Recommenders
  <1>2. /\ given \subseteq Recs
        /\ skipped \subseteq [zone : Zones, recommender : Recommenders]
        /\ lister \in [Zones -> 1..(NRecommenders + 1)]
    BY DEF TypeOK
  <1>3. ASSUME NEW rec \in given PROVE rec.zone \in Zones /\ rec.recommender \in Nat
    <2>1. rec.zone \in Zones /\ rec.recommender \in Recommenders
      BY <1>2, RecTypes
    <2> QED
      BY <1>1, <2>1
  <1>4. ASSUME NEW s \in skipped PROVE s.zone \in Zones /\ s.recommender \in Nat
    BY <1>1, <1>2
  <1>5. ASSUME NEW y \in Zones PROVE lister[y] \in Nat
    BY <1>1, <1>2
  <1> QED
    BY <1>3, <1>4, <1>5

(***************************************************************************)
(* Steps of a zone.                                                        *)
(***************************************************************************)
LEMMA ZoneSteps ==
  ASSUME IInv, NEW z \in Zones, ZoneStep(z)
  PROVE IInv'
  <1> DEFINE r == lister[z]
             this == [zone |-> z, recommender |-> r]
  <1>0. TypeOK
    BY DEF IInv
  <1>1. NRecommenders \in Nat /\ MaxRefusals \in Nat /\ ProjectOf[z] \in Projects
    BY RecsAssumption
  <1>2. UNCHANGED <<given, request, project, estimating>>
    BY DEF ZoneStep, Lists, QuotaExceeded, WaitOver, RecommenderFails
  <1>3. r \in Recommenders
    BY DEF ZoneStep, Lists, QuotaExceeded, WaitOver, RecommenderFails, Asking,
           IInv, TypeOK
  <1>4. \/ lister' = lister /\ skipped' = skipped /\ listed' = listed
        \/ /\ Asking(z) /\ lister' = [lister EXCEPT ![z] = r + 1]
           /\ \/ /\ skipped' = skipped
                 /\ listed' = listed \cup
                      {rec \in given : rec.zone = z /\ rec.recommender = r}
              \/ skipped' = skipped \cup {this} /\ listed' = listed
    BY DEF ZoneStep, Lists, QuotaExceeded, WaitOver, RecommenderFails,
           NextRecommender
  <1>5. \A y \in Zones : lister'[y] = lister[y] \/ (y = z /\ lister'[y] = r + 1 /\ Asking(z))
    BY <1>4 DEF IInv, TypeOK
  <1>6. lister' \in [Zones -> 1..(NRecommenders + 1)]
    <2>1. lister \in [Zones -> 1..(NRecommenders + 1)]
      BY DEF IInv, TypeOK
    <2>2. r + 1 \in 1..(NRecommenders + 1)
      BY <1>1, <1>3 DEF Recommenders
    <2> QED
      BY <1>4, <2>1, <2>2
  <1>7. OneChunk'
    BY <1>2 DEF IInv, OneChunk, EarlierChunks, Settled
  <1>8. TypeOK' /\ (details \in [Recs -> [answered : Nat, failed : BOOLEAN]])'
    <2>1. listed' \subseteq given
      BY <1>4 DEF IInv, TypeOK
    <2>2. waiting' \subseteq {y \in Zones : lister'[y] \in Recommenders}
      <3>1. waiting' \subseteq waiting \cup {z}
        BY DEF ZoneStep, Lists, QuotaExceeded, WaitOver, RecommenderFails
      <3>2. z \in waiting' => lister'[z] = r
        BY DEF ZoneStep, Lists, QuotaExceeded, WaitOver, RecommenderFails, Asking
      <3>3. \A y \in waiting : y \in Zones /\ lister[y] \in Recommenders
        BY DEF IInv, TypeOK
      <3> QED
        BY <1>3, <1>5, <3>1, <3>2, <3>3
    <2>3. refusals' \in 0..MaxRefusals
      <3>1. refusals \in 0..MaxRefusals
        BY DEF IInv, TypeOK
      <3>2. \/ refusals' = refusals
            \/ refusals < MaxRefusals /\ refusals' = refusals + 1
        BY DEF ZoneStep, Lists, QuotaExceeded, WaitOver, RecommenderFails
      <3> QED
        BY <1>1, <3>1, <3>2
    <2>4. skipped' \subseteq [zone : Zones, recommender : Recommenders]
      <3>1. skipped \subseteq [zone : Zones, recommender : Recommenders]
        BY DEF IInv, TypeOK
      <3>2. this \in [zone : Zones, recommender : Recommenders]
        BY <1>3
      <3>3. skipped' = skipped \/ skipped' = skipped \cup {this}
        BY <1>4
      <3> QED
        BY <3>1, <3>2, <3>3
    <2> QED
      BY <1>2, <1>6, <2>1, <2>2, <2>3, <2>4 DEF IInv, TypeOK, estimating
  <1>9. Stages'
    <2>1. Asking(z) => project[ProjectOf[z]] = "active"
      BY DEF Asking
    <2> USE DEF IInv, Stages
    <2>2. \A p \in Projects : project[p] = "done" =>
            \A y \in Zones : ProjectOf[y] = p => lister'[y] = NRecommenders + 1
      BY <1>5, <2>1
    <2>3. \A y \in Zones :
            lister'[y] = 1 \/ project[ProjectOf[y]] \in {"active", "done"}
      BY <1>5, <2>1
    <2> QED
      BY <1>2, <2>2, <2>3
  <1>10. ListedSoFar'
    <2>1. \A rec \in given : /\ rec.zone \in Zones
                              /\ rec.recommender \in Nat
      BY <1>0, ZoneTypes
    <2>2. \A s \in skipped : s.zone \in Zones /\ s.recommender \in Nat
      BY <1>0, ZoneTypes
    <2>3. \A y \in Zones : lister[y] \in Nat
      BY <1>0, ZoneTypes
    <2>4. CASE lister' = lister /\ skipped' = skipped /\ listed' = listed
      BY <1>2, <2>4 DEF IInv, ListedSoFar
    <2>5. CASE Asking(z) /\ lister' = [lister EXCEPT ![z] = r + 1]
      <3>1. r \in Nat /\ lister'[z] = r + 1
            /\ \A y \in Zones \ {z} : lister'[y] = lister[y]
        BY <2>3, <2>5 DEF IInv, TypeOK
      <3>2. \A s \in skipped : s.recommender < lister'[s.zone]
        BY <2>2, <2>3, <3>1 DEF IInv, ListedSoFar
      <3>3. this \notin skipped
        BY <3>1 DEF IInv, ListedSoFar
      <3>4. listed = {rec \in given :
                       /\ rec.recommender < lister[rec.zone]
                       /\ [zone |-> rec.zone, recommender |-> rec.recommender]
                            \notin skipped}
        BY DEF IInv, ListedSoFar
      <3>5. \A rec \in given :
              rec.recommender < lister'[rec.zone] <=>
                \/ rec.recommender < lister[rec.zone]
                \/ rec.zone = z /\ rec.recommender = r
        BY <2>1, <2>3, <3>1
      <3>6. \A rec \in given :
              [zone |-> rec.zone, recommender |-> rec.recommender] = this <=>
                rec.zone = z /\ rec.recommender = r
        OBVIOUS
      <3>7. CASE skipped' = skipped /\ listed' = listed \cup
                   {rec \in given : rec.zone = z /\ rec.recommender = r}
        <4>1. listed' = {rec \in given :
                          /\ rec.recommender < lister'[rec.zone]
                          /\ [zone |-> rec.zone, recommender |-> rec.recommender]
                               \notin skipped'}
          BY <3>3, <3>4, <3>5, <3>6, <3>7
        <4> QED
          BY <1>2, <3>2, <3>7, <4>1 DEF ListedSoFar
      <3>8. CASE skipped' = skipped \cup {this} /\ listed' = listed
        <4>1. \A s \in skipped' : s.recommender < lister'[s.zone]
          BY <3>1, <3>2, <3>8
        <4>2. \A rec \in given : rec \in listed <=>
                /\ rec.recommender < lister'[rec.zone]
                /\ [zone |-> rec.zone, recommender |-> rec.recommender] \notin skipped'
          <5> SUFFICES ASSUME NEW rec \in given
                       PROVE rec \in listed <=>
                /\ rec.recommender < lister'[rec.zone]
                /\ [zone |-> rec.zone, recommender |-> rec.recommender] \notin skipped'
            OBVIOUS
          <5>1. CASE rec.zone = z /\ rec.recommender = r
            BY <3>1, <3>4, <3>6, <3>8, <5>1
          <5>2. CASE ~(rec.zone = z /\ rec.recommender = r)
            BY <3>4, <3>5, <3>6, <3>8, <5>2
          <5> QED
            BY <5>1, <5>2
        <4>3. listed \subseteq given
          BY DEF IInv, TypeOK
        <4>4. listed' = {rec \in given :
                          /\ rec.recommender < lister'[rec.zone]
                          /\ [zone |-> rec.zone, recommender |-> rec.recommender]
                               \notin skipped'}
          BY <3>8, <4>2, <4>3
        <4> QED
          BY <1>2, <4>1, <4>4 DEF ListedSoFar
      <3> QED
        BY <1>4, <2>5, <3>1, <3>7, <3>8
    <2> QED
      BY <1>4, <2>4, <2>5
  <1>11. FatesAreListed'
    <2>1. listed \subseteq listed'
      BY <1>4
    <2>2. \A rec \in listed' :
            rec \in listed \/ project[ProjectOf[rec.zone]] = "active"
      BY <1>4 DEF Asking
    <2> QED
      BY <1>2, <2>1, <2>2 DEF IInv, FatesAreListed, estimating
  <1>12. RefusedForFlaw'
    <2>1. listed \subseteq listed'
      BY <1>4
    <2> QED
      BY <1>2, <2>1 DEF IInv, RefusedForFlaw
  <1> QED
    BY <1>7, <1>8, <1>9, <1>10, <1>11, <1>12 DEF IInv

(***************************************************************************)
(* Steps of a recommendation, and the end of a project.                    *)
(***************************************************************************)
LEMMA RecSteps ==
  ASSUME IInv, NEW rec \in Recs, RecStep(rec)
  PROVE IInv'
  <1>1. /\ UNCHANGED <<given, project, listing, unknown>>
        /\ InDetail(rec)
    BY DEF RecStep, DetailCall, Throws, Accumulate
  <1>2. /\ rec \in listed /\ fate[rec] = "open"
        /\ project[ProjectOf[rec.zone]] = "active"
        /\ ProjectOf[rec.zone] \in Projects
    BY <1>1, RecTypes DEF InDetail, AllListed
  <1>3. \/ request' = request
        \/ request' = "refused" /\ rec.flaw # "none"
    BY DEF RecStep, DetailCall, Throws, Accumulate
  <1>4. /\ fate' \in [Recs -> {"open", "counted", "unknown", "thrown"}]
        /\ \A other \in Recs \ {rec} : fate'[other] = fate[other]
    BY DEF RecStep, DetailCall, Throws, Accumulate, IInv, TypeOK
  <1>5. OneChunk'
    BY <1>1 DEF IInv, OneChunk, EarlierChunks, Settled
  <1>6. /\ details' \in [Recs -> [answered : Nat, failed : BOOLEAN]]
        /\ \A other \in Recs :
             details'[other] \in [answered : 0..Calls(other), failed : BOOLEAN]
    <2>1. CASE DetailCall(rec)
      <3>1. Calls(rec) \in Nat /\ details[rec].answered \in 0..Calls(rec)
            /\ details[rec].failed \in BOOLEAN
        BY CallsNat DEF IInv, TypeOK
      <3>2. details[rec].answered + 1 \in 0..Calls(rec)
        <4>1. details[rec].answered # Calls(rec)
          BY <2>1 DEF DetailCall, Detailed
        <4> QED
          BY <3>1, <4>1
      <3>3. \/ details' = [details EXCEPT ![rec].answered = details[rec].answered + 1]
            \/ details' = [details EXCEPT ![rec].failed = TRUE]
        BY <2>1 DEF DetailCall
      <3>4. details' \in [Recs -> [answered : Nat, failed : BOOLEAN]]
        <4>1. details[rec].answered + 1 \in Nat
          BY <3>1, <3>2
        <4>2. details \in [Recs -> [answered : Nat, failed : BOOLEAN]]
          BY DEF IInv
        <4>3. CASE details' = [details EXCEPT ![rec].answered = details[rec].answered + 1]
          BY <4>1, <4>2, <4>3
        <4>4. CASE details' = [details EXCEPT ![rec].failed = TRUE]
          BY <4>2, <4>4
        <4> QED
          BY <3>3, <4>3, <4>4
      <3>5. \A other \in Recs \ {rec} : details'[other] = details[other]
        BY <3>3 DEF IInv
      <3>6. details'[rec] \in [answered : 0..Calls(rec), failed : BOOLEAN]
        BY <3>1, <3>2, <3>3 DEF IInv
      <3> QED
        BY <3>4, <3>5, <3>6 DEF IInv, TypeOK
    <2>2. CASE Throws(rec) \/ Accumulate(rec)
      BY <2>2 DEF Throws, Accumulate, IInv, TypeOK
    <2> QED
      BY <2>1, <2>2 DEF RecStep
  <1>7. totals' \in [cost : Nat, kwh : Int]
    <2>1. rec.cost \in Nat /\ Savings(rec) \in Int
      BY RecTypes DEF Savings
    <2>2. totals.cost \in Nat /\ totals.kwh \in Int
      BY DEF IInv, TypeOK
    <2>3. \/ totals' = totals
          \/ totals' = [cost |-> totals.cost + rec.cost,
                        kwh |-> totals.kwh + Savings(rec)]
      BY DEF RecStep, DetailCall, Throws, Accumulate
    <2>4. totals \in [cost : Nat, kwh : Int]
      BY DEF IInv, TypeOK
    <2>5. totals.cost + rec.cost \in Nat /\ totals.kwh + Savings(rec) \in Int
      BY <2>1, <2>2
    <2> QED
      BY <2>3, <2>4, <2>5
  <1>8. TypeOK'
    BY <1>1, <1>3, <1>4, <1>6, <1>7 DEF IInv, TypeOK, listing
  <1>9. Stages'
    <2>1. request # "answered" => request' # "answered"
      BY <1>3
    <2>2. request' = "new" => request = "new"
      BY <1>3
    <2>3. request' = "zones" => request = "zones"
      BY <1>3
    <2> QED
      BY <1>1, <2>1, <2>2, <2>3 DEF IInv, Stages, listing
  <1>10. ListedSoFar'
    BY <1>1 DEF IInv, ListedSoFar, listing
  <1>11. FatesAreListed'
    <2>1. listed \subseteq Recs
      BY DEF IInv, TypeOK
    <2> QED
      BY <1>1, <1>2, <1>4, <2>1 DEF IInv, FatesAreListed, listing
  <1>12. RefusedForFlaw'
    BY <1>1, <1>2, <1>3 DEF IInv, RefusedForFlaw, listing
  <1> QED
    BY <1>5, <1>6, <1>8, <1>9, <1>10, <1>11, <1>12 DEF IInv

LEMMA ProjectEnds ==
  ASSUME IInv, NEW q \in Projects, EstimateUnknowns(q)
  PROVE IInv'
  <1>1. /\ UNCHANGED <<given, request, listing, details, fate, totals>>
        /\ project' = [project EXCEPT ![q] = "done"]
        /\ project[q] = "active" /\ request \notin {"new", "zones"}
        /\ \A z \in Zones : ProjectOf[z] = q => lister[z] \notin Recommenders
        /\ Complete(q)
    BY DEF EstimateUnknowns, AllListed
  <1>2. /\ project' \in [Projects -> {"new", "asked", "left out", "active", "done"}]
        /\ \A p \in Projects \ {q} : project'[p] = project[p]
        /\ project'[q] = "done"
    BY <1>1 DEF IInv, TypeOK
  <1>3. OneChunk'
    BY <1>1, <1>2 DEF IInv, OneChunk, EarlierChunks, Settled
  <1>4. unknown' \in [Recs -> [of : Int, per : Nat \ {0}]]
    <2>1. \A rec \in Recs : ByCost(rec) \in [of : Int, per : Nat \ {0}]
      <3> SUFFICES ASSUME NEW rec \in Recs
                   PROVE ByCost(rec) \in [of : Int, per : Nat \ {0}]
        OBVIOUS
      <3>1. rec.cost \in Int /\ totals.kwh \in Int /\ totals.cost \in Nat
        <4>1. rec.cost \in Nat
          BY RecTypes
        <4>2. totals \in [cost : Nat, kwh : Int]
          BY DEF IInv, TypeOK
        <4> QED
          BY <4>1, <4>2
      <3>2. rec.cost * totals.kwh \in Int
        BY <3>1
      <3>3. totals.cost # 0 => totals.cost \in Nat \ {0}
        BY <3>1
      <3>4. [of |-> 0, per |-> 1] \in [of : Int, per : Nat \ {0}]
        OBVIOUS
      <3> QED
        BY <3>2, <3>3, <3>4 DEF ByCost
    <2>2. \A rec \in Recs : unknown[rec] \in [of : Int, per : Nat \ {0}]
      BY DEF IInv, TypeOK
    <2> QED
      BY <2>1, <2>2 DEF EstimateUnknowns
  <1>5. TypeOK' /\ (details \in [Recs -> [answered : Nat, failed : BOOLEAN]])'
    <2>1. (Cardinality({p \in Projects : project[p] = "asked"}) <= ChunkSize)'
      BY <1>3, AskedFewEnoughNext
    <2> QED
      BY <1>1, <1>2, <1>4, <2>1 DEF IInv, TypeOK, listing
  <1>6. Stages'
    <2>1. \A z \in Zones : ProjectOf[z] = q => lister[z] = NRecommenders + 1
      <3>1. lister \in [Zones -> 1..(NRecommenders + 1)] /\ NRecommenders \in Nat
        BY RecsAssumption DEF IInv, TypeOK
      <3> QED
        BY <1>1, <3>1 DEF Recommenders
    <2>2. \A z \in Zones : ProjectOf[z] \in Projects
      BY RecsAssumption
    <2>3. UNCHANGED <<request, lister>>
      BY <1>1 DEF listing
    <2> USE DEF IInv, Stages
    <2>4. request = "answered" => \A p \in Projects : project'[p] \in {"left out", "done"}
      BY <1>2
    <2>5. \A p \in Projects : project'[p] = "done" =>
            \A z \in Zones : ProjectOf[z] = p => lister[z] = NRecommenders + 1
      BY <1>2, <2>1
    <2>6. \A z \in Zones :
            lister[z] = 1 \/ project'[ProjectOf[z]] \in {"active", "done"}
      BY <1>2, <2>2
    <2> QED
      BY <1>1, <2>3, <2>4, <2>5, <2>6
  <1>7. ListedSoFar'
    BY <1>1 DEF IInv, ListedSoFar, listing
  <1>8. FatesAreListed'
    <2>1. \A rec \in listed : rec \in Recs /\ ProjectOf[rec.zone] \in Projects
      BY RecTypes DEF IInv, TypeOK
    <2>2. \A rec \in listed :
            ProjectOf[rec.zone] = q => fate[rec] \in {"counted", "unknown"}
      BY <1>1 DEF Complete, RecsOf
    <2> QED
      BY <1>1, <1>2, <2>1, <2>2 DEF IInv, FatesAreListed, listing
  <1>9. RefusedForFlaw'
    BY <1>1 DEF IInv, Stages, RefusedForFlaw, listing
  <1> QED
    BY <1>3, <1>5, <1>6, <1>7, <1>8, <1>9 DEF IInv
-----------------------------------------------------------------------------
LEMMA Unchanged ==
  ASSUME IInv, UNCHANGED vars PROVE IInv'
  <1>1. OneChunk'
    BY DEF vars, IInv, OneChunk, EarlierChunks, Settled
  <1> QED
    BY <1>1 DEF vars, IInv, TypeOK, Stages, ListedSoFar, FatesAreListed,
                RefusedForFlaw

LEMMA NextIInv == IInv /\ [Next]_vars => IInv'
  <1> SUFFICES ASSUME IInv, [Next]_vars PROVE IInv'
    OBVIOUS
  <1>1. CASE UNCHANGED vars
    BY <1>1, Unchanged
  <1>2. CASE \/ SearchProjects \/ SearchFails \/ StartRecommending \/ Answer
             \/ \E c \in 0..NProjects : AskChunk(c)
             \/ \E p \in Projects : ZonesAnswer(p)
    BY <1>2, ProjectSteps
  <1>3. CASE \E p \in Projects : EstimateUnknowns(p)
    BY <1>3, ProjectEnds
  <1>4. CASE \E z \in Zones : ZoneStep(z)
    BY <1>4, ZoneSteps
  <1>5. CASE \E rec \in Recs : RecStep(rec)
    BY <1>5, RecSteps
  <1> QED
    BY <1>1, <1>2, <1>3, <1>4, <1>5 DEF Next

LEMMA Inductive == Spec => []IInv
  BY InitIInv, NextIInv, PTL DEF Spec

\* Types, for every number of projects and of zones: no more projects than a chunk
\* has are asked at a time, and no detail is asked for more often than there are.
THEOREM TypeCorrect == Spec => []TypeOK
  <1>1. IInv => TypeOK
    BY DEF IInv
  <1> QED
    BY <1>1, Inductive, PTL

LEMMA WholeAnswer == IInv => FailuresStayLocal
  <1> SUFFICES ASSUME IInv PROVE FailuresStayLocal
    OBVIOUS
  <1>1. ASSUME request = "answered"
        PROVE {rec \in Recs : fate[rec] \in {"counted", "unknown"}} =
                {rec \in given :
                   /\ project[ProjectOf[rec.zone]] = "done"
                   /\ [zone |-> rec.zone, recommender |-> rec.recommender] \notin skipped}
    <2>1. \A rec \in given :
            /\ rec \in Recs /\ rec.zone \in Zones
            /\ ProjectOf[rec.zone] \in Projects
            /\ rec.recommender \in 1..NRecommenders
      BY RecTypes DEF IInv, TypeOK, Recommenders
    <2>2. ASSUME NEW rec \in Recs, fate[rec] \in {"counted", "unknown"}
          PROVE /\ rec \in given /\ project[ProjectOf[rec.zone]] = "done"
                /\ [zone |-> rec.zone, recommender |-> rec.recommender] \notin skipped
      <3>1. rec \in listed
        BY <2>2 DEF IInv, FatesAreListed
      <3>2. /\ rec \in given /\ rec.recommender < lister[rec.zone]
            /\ [zone |-> rec.zone, recommender |-> rec.recommender] \notin skipped
        BY <3>1 DEF IInv, ListedSoFar
      <3>3. lister[rec.zone] # 1
        BY <2>1, <3>2
      <3>4. project[ProjectOf[rec.zone]] \in {"active", "done"}
        BY <2>1, <3>2, <3>3 DEF IInv, Stages
      <3>5. project[ProjectOf[rec.zone]] = "done"
        BY <1>1, <2>1, <3>2, <3>4 DEF IInv, Stages
      <3> QED
        BY <3>2, <3>5
    <2>3. ASSUME NEW rec \in given, project[ProjectOf[rec.zone]] = "done",
                 [zone |-> rec.zone, recommender |-> rec.recommender] \notin skipped
          PROVE rec \in Recs /\ fate[rec] \in {"counted", "unknown"}
      <3>1. lister[rec.zone] = NRecommenders + 1
        BY <2>1, <2>3 DEF IInv, Stages
      <3>2. rec.recommender < lister[rec.zone]
        BY <2>1, <3>1, RecsAssumption
      <3>3. rec \in listed
        BY <2>3, <3>2 DEF IInv, ListedSoFar
      <3> QED
        BY <2>1, <2>3, <3>3 DEF IInv, FatesAreListed
    <2> QED
      BY <2>2, <2>3
  <1>2. ASSUME request = "refused", \E p \in Projects : project[p] # "new"
        PROVE \E rec \in listed : rec.flaw # "none"
    BY <1>2 DEF IInv, RefusedForFlaw
  <1> QED
    BY <1>1, <1>2 DEF FailuresStayLocal

\* For every number of projects, zones and recommenders: an answer has every
\* recommendation of the projects whose zones are known, but for those of
\* recommenders that were given up, and only a flawed recommendation refuses it.
THEOREM FailuresAreLocal == Spec => []FailuresStayLocal
  BY WholeAnswer, Inductive, PTL
-----------------------------------------------------------------------------
(***************************************************************************)
(* The totals, and what the unknown recommendations rest on.               *)
(***************************************************************************)
\* The recommendations that are added to the totals.
Counted == {rec \in Recs : fate[rec] = "counted"}
\* The recommendations of a project of which something is known.
Own(p) == {rec \in RecsOf(p) : rec.kind # "address"}

\* The unknown recommendations of a project are estimated from those in S.
RestsOn(p, S) ==
  \A rec \in RecsOf(p) : rec.kind = "address" =>
    unknown[rec] = IF Cost(S) = 0 THEN [of |-> 0, per |-> 1]
                   ELSE [of |-> rec.cost * Energy(S), per |-> Cost(S)]

\* The totals are the sums of what is counted, and they were so when a project ended.
BasisInv ==
  /\ totals.cost = Cost(Counted) /\ totals.kwh = Energy(Counted)
  /\ \A rec \in Recs : /\ fate[rec] = "counted" => rec.kind # "address"
                       /\ fate[rec] = "unknown" => rec.kind = "address"
  /\ \A p \in Projects : project[p] = "done" =>
       \E S \in SUBSET Counted : Own(p) \subseteq S /\ RestsOn(p, S)

\* What a recommendation saves is an integer.
LEMMA SavingsType ==
  ASSUME NEW rec \in Recs
  PROVE Savings(rec) \in Int
  BY RecTypes DEF Savings

\* The laws of sums, for the costs and the energies of recommendations.
LEMMA SumsOfRecs ==
  ASSUME NEW S \in SUBSET Recs
  PROVE /\ IsFiniteSet(S) /\ Cost(S) \in Int /\ Energy(S) \in Int
        /\ \A rec \in Recs \ S : /\ Cost(S \cup {rec}) = Cost(S) + rec.cost
                                 /\ Energy(S \cup {rec}) = Energy(S) + Savings(rec)
  <1> DEFINE w == [rec \in Recs |-> rec.cost]
  <1> DEFINE v == [rec \in Recs |-> Savings(rec)]
  <1>1. IsFiniteSet(Recs) /\ IsFiniteSet(S)
    BY RecsAssumption, FS_Subset
  <1>2. \A rec \in Recs : w[rec] \in Int /\ w[rec] = rec.cost
    BY RecTypes
  <1>3. \A rec \in Recs : v[rec] \in Int /\ v[rec] = Savings(rec)
    BY SavingsType
  <1>4. \A T : Cost(T) = SumFunctionOnSet(w, T) /\ Energy(T) = SumFunctionOnSet(v, T)
    BY DEF Cost, Energy
  <1> HIDE DEF w, v
  <1>5. Cost(S) \in Int /\ Energy(S) \in Int
    BY <1>1, <1>2, <1>3, <1>4, SumType
  <1>6. \A rec \in Recs \ S : SumFunctionOnSet(w, S \cup {rec}) = SumFunctionOnSet(w, S) + w[rec]
    BY <1>1, <1>2, SumAdd
  <1>7. \A rec \in Recs \ S : SumFunctionOnSet(v, S \cup {rec}) = SumFunctionOnSet(v, S) + v[rec]
    BY <1>1, <1>3, SumAdd
  <1> QED
    BY <1>1, <1>2, <1>3, <1>4, <1>5, <1>6, <1>7

\* Sums over recommendations whose details do not change.
LEMMA SameSums ==
  ASSUME NEW S \in SUBSET Recs, \A rec \in S : details'[rec] = details[rec]
  PROVE Cost(S)' = Cost(S) /\ Energy(S)' = Energy(S)
  <1> DEFINE w == [rec \in Recs |-> Savings(rec)]
  <1> DEFINE v == [rec \in Recs |-> Savings(rec)']
  <1>1. IsFiniteSet(S)
    BY RecsAssumption, FS_Subset
  <1>2. \A rec \in S : Savings(rec)' = Savings(rec)
    BY DEF Savings, Measured, Calls
  <1>3. \A rec \in S : w[rec] = v[rec]
    BY <1>2
  <1>4. Energy(S) = SumFunctionOnSet(w, S)
    BY DEF Energy
  <1>5. Energy(S)' = SumFunctionOnSet(v, S)
    BY DEF Energy
  <1> HIDE DEF w, v
  <1>6. SumFunctionOnSet(w, S) = SumFunctionOnSet(v, S)
    BY <1>1, <1>3, SumAlike
  <1> QED
    BY <1>4, <1>5, <1>6 DEF Cost

\* A project that is done stays as it was.
LEMMA StillRests ==
  ASSUME IInv, BasisInv, NEW p \in Projects, project[p] = "done",
         RecsOf(p)' = RecsOf(p), Counted \subseteq Counted',
         \A rec \in Counted : details'[rec] = details[rec],
         \A rec \in RecsOf(p) : unknown'[rec] = unknown[rec]
  PROVE (\E S \in SUBSET Counted : Own(p) \subseteq S /\ RestsOn(p, S))'
  <1>1. PICK S \in SUBSET Counted : Own(p) \subseteq S /\ RestsOn(p, S)
    BY DEF BasisInv
  <1>2. S \in SUBSET Recs /\ \A rec \in S : details'[rec] = details[rec]
    BY DEF Counted
  <1>3. Cost(S)' = Cost(S) /\ Energy(S)' = Energy(S)
    BY <1>2, SameSums
  <1>4. Own(p)' = Own(p)
    BY DEF Own
  <1>5. RestsOn(p, S)'
    BY <1>1, <1>3 DEF RestsOn
  <1> QED
    BY <1>1, <1>4, <1>5

LEMMA InitBasis == Init => BasisInv
  <1> SUFFICES ASSUME Init PROVE BasisInv
    OBVIOUS
  <1>1. Counted = {}
    BY DEF Init, Counted
  <1>2. Cost(Counted) = 0 /\ Energy(Counted) = 0
    BY <1>1, SumEmpty DEF Cost, Energy
  <1>3. totals.cost = 0 /\ totals.kwh = 0
    BY DEF Init
  <1>4. \A rec \in Recs : fate[rec] = "open"
    BY DEF Init
  <1>5. \A p \in Projects : project[p] # "done"
    BY DEF Init
  <1> QED
    BY <1>2, <1>3, <1>4, <1>5 DEF BasisInv

\* Steps that count nothing and end no project.
LEMMA ListingKeepsBasis ==
  ASSUME IInv, BasisInv, UNCHANGED <<details, fate, totals, unknown>>,
         \A p \in Projects : project'[p] = "done" =>
           project[p] = "done" /\ RecsOf(p)' = RecsOf(p)
  PROVE BasisInv'
  <1>1. Counted' = Counted /\ Counted \in SUBSET Recs
    BY DEF Counted
  <1>2. Cost(Counted)' = Cost(Counted) /\ Energy(Counted)' = Energy(Counted)
    <2>1. Energy(Counted)' = Energy(Counted)
      BY <1>1 DEF Energy, Savings, Measured, Calls
    <2>2. Cost(Counted)' = Cost(Counted)
      BY <1>1 DEF Cost
    <2> QED
      BY <2>1, <2>2
  <1>3. ASSUME NEW p \in Projects, project'[p] = "done"
        PROVE (\E S \in SUBSET Counted : Own(p) \subseteq S /\ RestsOn(p, S))'
    BY <1>1, <1>3, StillRests
  <1> QED
    BY <1>2, <1>3 DEF BasisInv

\* Steps of the request and of the projects.
LEMMA ProjectsKeepBasis ==
  ASSUME IInv, BasisInv,
         \/ SearchProjects \/ SearchFails \/ StartRecommending \/ Answer
         \/ \E c \in 0..NProjects : AskChunk(c)
         \/ \E p \in Projects : ZonesAnswer(p)
  PROVE BasisInv'
  <1>1. UNCHANGED <<given, listing, estimating>>
    BY DEF SearchProjects, SearchFails, StartRecommending, Answer, AskChunk,
           ZonesAnswer
  <1>2. \A p \in Projects : project'[p] = "done" => project[p] = "done"
    BY DEF SearchProjects, SearchFails, StartRecommending, Answer, AskChunk,
           ZonesAnswer, IInv, TypeOK
  <1>3. \A p \in Projects : RecsOf(p)' = RecsOf(p)
    BY <1>1 DEF RecsOf, listing
  <1> QED
    BY <1>1, <1>2, <1>3, ListingKeepsBasis DEF estimating

\* A zone lists for a project that is not done.
LEMMA ZonesKeepBasis ==
  ASSUME IInv, BasisInv, NEW z \in Zones, ZoneStep(z)
  PROVE BasisInv'
  <1>1. UNCHANGED <<given, request, project, estimating>>
    BY DEF ZoneStep, Lists, QuotaExceeded, WaitOver, RecommenderFails
  <1>2. ASSUME NEW p \in Projects, project'[p] = "done"
        PROVE project[p] = "done" /\ RecsOf(p)' = RecsOf(p)
    <2>1. CASE Lists(z)
      <3>1. project[ProjectOf[z]] = "active"
        BY <2>1 DEF Lists, Asking
      <3>2. ProjectOf[z] # p
        BY <1>1, <1>2, <3>1
      <3> QED
        BY <1>1, <1>2, <2>1, <3>2 DEF Lists, RecsOf
    <2>2. CASE QuotaExceeded(z) \/ WaitOver(z) \/ RecommenderFails(z)
      BY <1>1, <1>2, <2>2 DEF QuotaExceeded, WaitOver, RecommenderFails, RecsOf
    <2> QED
      BY <2>1, <2>2 DEF ZoneStep
  <1> QED
    BY <1>1, <1>2, ListingKeepsBasis DEF estimating

\* A detail, or a throw, is of a recommendation that is not counted.
LEMMA DetailKeepsBasis ==
  ASSUME IInv, BasisInv, NEW rec \in Recs, DetailCall(rec) \/ Throws(rec)
  PROVE BasisInv'
  <1>1. /\ UNCHANGED <<given, project, listing, totals, unknown>>
        /\ fate[rec] = "open" /\ rec \in listed
    BY DEF DetailCall, Throws, InDetail
  <1>2. \A other \in Recs \ {rec} : details'[other] = details[other]
    BY DEF DetailCall, Throws, IInv
  <1>3. /\ fate'[rec] \in {"open", "thrown"}
        /\ \A other \in Recs \ {rec} : fate'[other] = fate[other]
    BY <1>1 DEF DetailCall, Throws, IInv, TypeOK
  <1>4. Counted' = Counted /\ Counted \in SUBSET Recs /\ rec \notin Counted
    BY <1>1, <1>3 DEF Counted
  <1>5. \A other \in Counted : details'[other] = details[other]
    BY <1>2, <1>4
  <1>6. Cost(Counted)' = Cost(Counted) /\ Energy(Counted)' = Energy(Counted)
    <2> DEFINE S == Counted
    <2>1. S \in SUBSET Recs /\ \A other \in S : details'[other] = details[other]
      BY <1>4, <1>5
    <2>2. \A S0 \in SUBSET Recs : (\A other \in S0 : details'[other] = details[other]) =>
            Cost(S0)' = Cost(S0) /\ Energy(S0)' = Energy(S0)
      BY SameSums
    <2> QED
      BY <1>4, <2>1, <2>2 DEF Cost, Energy
  <1>7. ASSUME NEW p \in Projects, project'[p] = "done"
        PROVE (\E S \in SUBSET Counted : Own(p) \subseteq S /\ RestsOn(p, S))'
    <2>1. project[p] = "done" /\ RecsOf(p)' = RecsOf(p)
      BY <1>1, <1>7 DEF RecsOf, listing
    <2> QED
      BY <1>1, <1>4, <1>5, <2>1, StillRests
  <1>8. \A other \in Recs : /\ fate'[other] = "counted" => other.kind # "address"
                            /\ fate'[other] = "unknown" => other.kind = "address"
    BY <1>3 DEF BasisInv
  <1> QED
    BY <1>1, <1>6, <1>7, <1>8 DEF BasisInv

\* What is counted is added to the totals.
LEMMA CountingKeepsBasis ==
  ASSUME IInv, BasisInv, NEW rec \in Recs, Accumulate(rec)
  PROVE BasisInv'
  <1>1. /\ UNCHANGED <<given, project, listing, details, unknown>>
        /\ fate[rec] = "open" /\ rec \in listed
    BY DEF Accumulate, InDetail
  <1>2. /\ fate'[rec] = IF rec.kind = "address" THEN "unknown" ELSE "counted"
        /\ \A other \in Recs \ {rec} : fate'[other] = fate[other]
    BY DEF Accumulate, IInv, TypeOK
  <1>3. Counted \in SUBSET Recs /\ rec \in Recs \ Counted
    BY <1>1 DEF Counted
  <1>4. Counted' = IF rec.kind = "address" THEN Counted ELSE Counted \cup {rec}
    <2>1. rec.kind = "address" => fate'[rec] # "counted" /\ fate[rec] # "counted"
      BY <1>1, <1>2
    <2>2. rec.kind # "address" => fate'[rec] = "counted"
      BY <1>2
    <2> QED
      BY <1>2, <2>1, <2>2 DEF Counted
  <1>5. totals'.cost = Cost(Counted') /\ totals'.kwh = Energy(Counted')
    <2>1. totals.cost = Cost(Counted) /\ totals.kwh = Energy(Counted)
      BY DEF BasisInv
    <2>2. CASE rec.kind = "address"
      BY <1>4, <2>1, <2>2 DEF Accumulate, Counts
    <2>3. CASE rec.kind # "address"
      <3>1. totals' = [cost |-> totals.cost + rec.cost, kwh |-> totals.kwh + Savings(rec)]
        BY <2>3 DEF Accumulate, Counts
      <3>2. /\ Cost(Counted \cup {rec}) = Cost(Counted) + rec.cost
            /\ Energy(Counted \cup {rec}) = Energy(Counted) + Savings(rec)
        BY <1>3, SumsOfRecs
      <3> QED
        BY <1>4, <2>1, <2>3, <3>1, <3>2
    <2> QED
      BY <2>2, <2>3
  <1>6. totals'.cost = Cost(Counted)' /\ totals'.kwh = Energy(Counted)'
    BY <1>1, <1>5 DEF Cost, Energy, Savings, Measured, Calls
  <1>7. ASSUME NEW p \in Projects, project'[p] = "done"
        PROVE (\E S \in SUBSET Counted : Own(p) \subseteq S /\ RestsOn(p, S))'
    <2>1. project[p] = "done" /\ RecsOf(p)' = RecsOf(p)
      BY <1>1, <1>7 DEF RecsOf, listing
    <2> QED
      BY <1>1, <1>4, <2>1, StillRests
  <1>8. \A other \in Recs : /\ fate'[other] = "counted" => other.kind # "address"
                            /\ fate'[other] = "unknown" => other.kind = "address"
    BY <1>2 DEF BasisInv
  <1> QED
    BY <1>6, <1>7, <1>8 DEF BasisInv

\* A project that ends is estimated from what is counted then, its own included.
LEMMA EndKeepsBasis ==
  ASSUME IInv, BasisInv, NEW q \in Projects, EstimateUnknowns(q)
  PROVE BasisInv'
  <1>1. /\ UNCHANGED <<given, request, listing, details, fate, totals>>
        /\ project' = [project EXCEPT ![q] = "done"]
        /\ Complete(q)
    BY DEF EstimateUnknowns
  <1>2. \A p \in Projects \ {q} : project'[p] = project[p]
    BY <1>1 DEF IInv, TypeOK
  <1>3. Counted' = Counted /\ Counted \in SUBSET Recs
    BY <1>1 DEF Counted
  <1>4. listed \subseteq Recs
    BY DEF IInv, TypeOK
  <1>5. \A p \in Projects : RecsOf(p)' = RecsOf(p) /\ RecsOf(p) \subseteq Recs
    BY <1>1, <1>4 DEF RecsOf, listing
  <1>6. Cost(Counted)' = Cost(Counted) /\ Energy(Counted)' = Energy(Counted)
    BY <1>1, <1>3 DEF Cost, Energy, Savings, Measured, Calls
  <1>7. ASSUME NEW p \in Projects \ {q}, project'[p] = "done"
        PROVE (\E S \in SUBSET Counted : Own(p) \subseteq S /\ RestsOn(p, S))'
    <2>1. project[p] = "done"
      BY <1>2, <1>7
    <2>2. \A rec \in RecsOf(p) : unknown'[rec] = unknown[rec]
      <3>1. \A rec \in RecsOf(p) : rec \in Recs /\ rec \notin RecsOf(q)
        BY <1>5 DEF RecsOf
      <3> QED
        BY <3>1 DEF EstimateUnknowns
    <2> QED
      BY <1>1, <1>3, <1>5, <2>1, <2>2, StillRests
  <1>8. (\E S \in SUBSET Counted : Own(q) \subseteq S /\ RestsOn(q, S))'
    <2>1. ASSUME NEW rec \in RecsOf(q)
          PROVE rec.kind # "address" => rec \in Counted
      BY <1>1, <1>5, <2>1 DEF Complete, BasisInv, Counted
    <2>2. Own(q)' \subseteq Counted
      BY <1>5, <2>1 DEF Own
    <2>3. ASSUME NEW rec \in RecsOf(q), rec.kind = "address"
          PROVE unknown'[rec] = IF Cost(Counted) = 0 THEN [of |-> 0, per |-> 1]
                                ELSE [of |-> rec.cost * Energy(Counted), per |-> Cost(Counted)]
      <3>1. rec \in Recs /\ fate[rec] = "unknown"
        BY <1>1, <1>5, <2>3 DEF Complete, BasisInv
      <3>2. unknown'[rec] = ByCost(rec)
        BY <2>3, <3>1 DEF EstimateUnknowns
      <3> QED
        BY <3>2 DEF ByCost, BasisInv
    <2>4. RestsOn(q, Counted)'
      BY <1>3, <1>5, <1>6, <2>3 DEF RestsOn
    <2> QED
      BY <1>3, <2>2, <2>4
  <1> QED
    BY <1>1, <1>6, <1>7, <1>8 DEF BasisInv

LEMMA BasisStays == IInv /\ BasisInv /\ [Next]_vars => BasisInv'
  <1> SUFFICES ASSUME IInv, BasisInv, [Next]_vars PROVE BasisInv'
    OBVIOUS
  <1>1. CASE UNCHANGED vars
    <2>1. \A p \in Projects : project'[p] = "done" =>
            project[p] = "done" /\ RecsOf(p)' = RecsOf(p)
      BY <1>1 DEF vars, RecsOf
    <2> QED
      BY <1>1, <2>1, ListingKeepsBasis DEF vars
  <1>2. CASE \/ SearchProjects \/ SearchFails \/ StartRecommending \/ Answer
             \/ \E c \in 0..NProjects : AskChunk(c)
             \/ \E p \in Projects : ZonesAnswer(p)
    BY <1>2, ProjectsKeepBasis
  <1>3. CASE \E p \in Projects : EstimateUnknowns(p)
    BY <1>3, EndKeepsBasis
  <1>4. CASE \E z \in Zones : ZoneStep(z)
    BY <1>4, ZonesKeepBasis
  <1>5. CASE \E rec \in Recs : RecStep(rec)
    BY <1>5, DetailKeepsBasis, CountingKeepsBasis DEF RecStep
  <1> QED
    BY <1>1, <1>2, <1>3, <1>4, <1>5 DEF Next

\* What was counted when the project ended is the project's own and more.
LEMMA RestOnOwn == IInv /\ BasisInv => UnknownRestOnOwn
  <1> SUFFICES ASSUME IInv, BasisInv, NEW p \in Projects, project[p] = "done"
               PROVE \E more \in SUBSET (Counted \ Own(p)) :
                       \A rec \in RecsOf(p) : rec.kind = "address" =>
                         LET cost == Cost(Own(p) \cup more) IN
                         unknown[rec] =
                           IF cost = 0 THEN [of |-> 0, per |-> 1]
                           ELSE [of |-> rec.cost * Energy(Own(p) \cup more), per |-> cost]
    BY DEF UnknownRestOnOwn, Counted, Own
  <1>1. PICK S \in SUBSET Counted : Own(p) \subseteq S /\ RestsOn(p, S)
    BY DEF BasisInv
  <1>2. Own(p) \cup (S \ Own(p)) = S /\ S \ Own(p) \in SUBSET (Counted \ Own(p))
    BY <1>1
  <1> WITNESS S \ Own(p) \in SUBSET (Counted \ Own(p))
  <1> QED
    BY <1>1, <1>2 DEF RestsOn

\* For every number of projects, zones, recommenders and recommendations: an answer
\* is as whole as its failures leave it, and what is unknown of a project is
\* estimated from one set of recommendations, all its own among them.
THEOREM AnswersAreSound == Spec => []AnswerIsSound
  <1>1. Spec => [](IInv /\ BasisInv)
    BY Inductive, InitBasis, BasisStays, PTL DEF Spec
  <1>2. IInv /\ BasisInv => AnswerIsSound
    BY RestOnOwn, WholeAnswer DEF AnswerIsSound
  <1> QED
    BY <1>1, <1>2, PTL
=============================================================================
