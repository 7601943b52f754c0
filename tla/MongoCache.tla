----------------------------- MODULE MongoCache -----------------------------
(***************************************************************************)
(* The MongoDB cache manager below the cache decorator: what one request   *)
(* for a page of estimates does to the collection of its grouping.          *)
(*                                                                         *)
(* Every estimate of a provider for a period is one document, documents are *)
(* inserted one after the other while other requests read, and errors of   *)
(* the database are warnings in the log: the request goes on with what it   *)
(* has.  Requests are in different stages at the same time.                 *)
(***************************************************************************)
EXTENDS Selection, FiniteSets

CONSTANTS
  Clients,     \* requests that may be in progress at the same time
  NPeriods,
  NProviders,  \* clouds, each with one estimate for a period in which it was used
  Limit,       \* documents on a page
  MaxFaults    \* bound: failures of the database, the providers and the process

ASSUME MongoAssumption ==
  /\ NPeriods \in Nat \ {0}
  /\ NProviders \in Nat \ {0}
  /\ Limit \in Nat \ {0}
  /\ MaxFaults \in Nat

Periods == 1..NPeriods
Providers == 1..NProviders
Documents == Periods \X Providers

\* seed is the provider that seeding is restricted to, 0 if none; capitals is
\* whether its name was entered the way documents have it.
RequestType ==
  [first : Periods, last : Periods, ignoreCache : BOOLEAN,
   seed : 0..NProviders, capitals : BOOLEAN]

VARIABLES
  usage,      \* what the providers report
  exists,     \* the collection is there
  docs,       \* its documents, in natural order
  creating,   \* createCollection commands that have not been answered
  stage,      \* what the request of a client is doing
  request,
  skip,       \* documents before the page
  missing,    \* missing dates
  inserting,  \* documents it has still to insert, in their order
  page,       \* the answer: a sequence of estimation results
  faults,
  disturbed   \* what happened that a request cannot know of

database == <<exists, docs, creating>>
progress == <<request, skip, missing, inserting, page>>
events == <<faults, disturbed>>
server == <<usage, database, stage, progress, events>>

Least(a, b) == IF a < b THEN a ELSE b

Ascending(S) == Select([p \in Periods |-> p], S)

Active == {"missing", "fetch", "insert", "read"}

\* Faulty variant: the date after the end is requested, too.
WantedPastEnd(c) == request[c].first..request[c].last + 1

\* getDatesWithinRequestTimeFrame
Wanted(c) == request[c].first..request[c].last
Sources(c) == IF request[c].seed = 0 THEN Providers ELSE {request[c].seed}

Goto(c, s) == stage' = [stage EXCEPT ![c] = s]
Fault == faults < MaxFaults /\ faults' = faults + 1 /\ disturbed' = disturbed \cup {"fault"}

\* A request for the page from document n on.
Send(c, r, n) ==
  /\ request' = [request EXCEPT ![c] = r]
  /\ skip' = [skip EXCEPT ![c] = n]
  /\ page' = [page EXCEPT ![c] = <<>>]
  /\ Goto(c, "missing")

(***************************************************************************)
(* getMissingDates                                                         *)
(***************************************************************************)

\* $addToSet collects the dates of all documents, or of those of the provider,
\* whose name is compared as it was entered.
Cached(c) ==
  {d[1] : d \in {e \in Elements(docs) :
     request[c].seed = 0 \/ (request[c].capitals /\ e[2] = request[c].seed)}}

\* Faulty variants: all dates are missing; one document is enough to take
\* everything for cached.
GapsEverywhere(c) == Wanted(c)
GapsIfEmpty(c) == IF docs = <<>> THEN Wanted(c) ELSE {}

Gaps(c) == IF request[c].ignoreCache THEN Wanted(c) ELSE Wanted(c) \ Cached(c)

GetMissingDates(c) ==
  /\ stage[c] = "missing"
  /\ missing' = [missing EXCEPT ![c] = Gaps(c)]
  /\ Goto(c, IF Gaps(c) = {} THEN "read" ELSE "fetch")
  /\ UNCHANGED <<usage, database, request, skip, inserting, page, events>>

NothingMissing(c) ==
  /\ stage[c] = "missing"
  /\ ~request[c].ignoreCache
  /\ missing' = [missing EXCEPT ![c] = {}]
  /\ Goto(c, "read")
  /\ UNCHANGED <<usage, database, request, skip, inserting, page>>

\* The count of an empty collection and the aggregation over it are sent
\* together: if the aggregation is answered first it has no result to look
\* into, which counts as an error.
EmptyAggregate(c) ==
  /\ exists /\ docs = <<>>
  /\ NothingMissing(c)
  /\ disturbed' = disturbed \cup {"race"}
  /\ UNCHANGED faults

\* After an error, no date is missing.
MissingDatesFail(c) == NothingMissing(c) /\ Fault

(***************************************************************************)
(* getEstimatesForMissingDates and setEstimates                            *)
(***************************************************************************)
Estimates(c) == {d \in usage : d[1] \in missing[c] /\ d[2] \in Sources(c)}

\* By period, then by provider.
NotAfter(d, e) == d[1] < e[1] \/ (d[1] = e[1] /\ d[2] <= e[2])

InOrder(S) == Select([i \in 1..NPeriods * NProviders |->
                        <<((i - 1) \div NProviders) + 1, ((i - 1) % NProviders) + 1>>], S)

\* Estimation results: one for each period, with the providers in the order of
\* the documents.
Grouped(s) ==
  LET periods == Ascending({d[1] : d \in Elements(s)})
      Result(p) == LET documents == Select(s, {p} \X Providers)
                   IN  [period |-> p,
                        providers |-> [i \in DOMAIN documents |-> documents[i][2]]]
  IN  [k \in DOMAIN periods |-> Result(periods[k])]

Fetch(c) ==
  /\ stage[c] = "fetch"
  /\ ~request[c].ignoreCache
  /\ inserting' = [inserting EXCEPT ![c] = Estimates(c)]
  /\ Goto(c, IF Estimates(c) = {} THEN "read" ELSE "insert")
  /\ UNCHANGED <<usage, database, request, skip, missing, page, events>>

FetchIgnoringCache(c) ==
  /\ stage[c] = "fetch"
  /\ request[c].ignoreCache
  /\ \E fetched \in {InOrder(Estimates(c))} : page' = [page EXCEPT ![c] = Grouped(fetched)]
  /\ Goto(c, "answered")
  /\ UNCHANGED <<usage, database, request, skip, missing, inserting, events>>

FetchFails(c) ==
  /\ stage[c] = "fetch"
  /\ Fault
  /\ Goto(c, "failed")
  /\ UNCHANGED <<usage, database, progress>>

\* insertMany creates the collection if need be; readers see each document.
InsertDocument(c) ==
  /\ stage[c] = "insert"
  /\ \E d \in inserting[c] :
       /\ \A e \in inserting[c] : NotAfter(d, e)
       /\ docs' = Append(docs, d)
       /\ inserting' = [inserting EXCEPT ![c] = @ \ {d}]
       /\ Goto(c, IF inserting[c] = {d} THEN "read" ELSE "insert")
  /\ exists' = TRUE
  /\ UNCHANGED <<usage, creating, request, skip, missing, page, events>>

\* The documents from the first one that fails on are not inserted.
InsertFails(c) ==
  /\ stage[c] = "insert"
  /\ Fault
  /\ inserting' = [inserting EXCEPT ![c] = {}]
  /\ Goto(c, "read")
  /\ UNCHANGED <<usage, database, request, skip, missing, page>>

(***************************************************************************)
(* getEstimates                                                            *)
(***************************************************************************)
InRange(c, s) == Select(s, Wanted(c) \X Providers)

\* Faulty variant: the documents are sorted before the page is cut out.
SortedMatches(c) ==
  LET InPeriod(p) == Select(docs, {p} \X Providers)
      UpTo[p \in 0..NPeriods] == IF p = 0 THEN <<>> ELSE UpTo[p - 1] \o InPeriod(p)
  IN  InRange(c, UpTo[NPeriods])

\* $match; $sort comes after $skip and $limit.
Matches(c) == InRange(c, docs)

PageOf(c) ==
  LET found == Matches(c)
  IN  SubSeq(found, skip[c] + 1, Least(skip[c] + Limit, Len(found)))

ReadPage(c) ==
  /\ stage[c] = "read"
  /\ exists
  /\ \E found \in {PageOf(c)} : page' = [page EXCEPT ![c] = Grouped(found)]
  /\ Goto(c, "answered")
  /\ UNCHANGED <<usage, database, request, skip, missing, inserting, events>>

\* Faulty variant: the request starts over.
StartOver(c) ==
  /\ stage[c] = "read"
  /\ ~exists
  /\ Goto(c, "missing")
  /\ UNCHANGED <<usage, database, progress, events>>

\* Nobody waits for the collection to be created.
ReadNoCollection(c) ==
  /\ stage[c] = "read"
  /\ ~exists
  /\ creating' = creating + 1
  /\ Goto(c, "answered")
  /\ UNCHANGED <<usage, exists, docs, progress, events>>

ReadFails(c) ==
  /\ stage[c] = "read"
  /\ Fault
  /\ Goto(c, "answered")
  /\ UNCHANGED <<usage, database, progress>>

(***************************************************************************)
(* The database and the process.                                           *)
(***************************************************************************)

\* The requests of one process end: of the API server or of the seeding script.
InProcess(c, seeding) == stage[c] \in Active /\ seeding = (request[c].seed # 0)

RequestsEnd(seeding) ==
  /\ stage' = [c \in Clients |-> IF InProcess(c, seeding) THEN "failed" ELSE stage[c]]
  /\ inserting' = [c \in Clients |->
                     IF InProcess(c, seeding) THEN {} ELSE inserting[c]]

CreateCollection ==
  /\ creating > 0
  /\ ~exists
  /\ creating' = creating - 1
  /\ exists' = TRUE
  /\ UNCHANGED <<usage, docs, stage, progress, events>>

\* The command for a collection that exists is refused by some versions of the
\* database: a rejection that nobody handles, which ends the process.
CreateExistingCollection ==
  /\ creating > 0
  /\ exists
  /\ creating' = creating - 1
  /\ \/ /\ disturbed' = disturbed \cup {"fault"}
        /\ \E seeding \in BOOLEAN : RequestsEnd(seeding)
     \/ UNCHANGED <<stage, inserting, disturbed>>
  /\ UNCHANGED <<usage, exists, docs, request, skip, missing, page, faults>>

ProcessDies ==
  /\ Fault
  /\ \E seeding \in BOOLEAN :
       /\ \E c \in Clients : InProcess(c, seeding)
       /\ RequestsEnd(seeding)
  /\ UNCHANGED <<usage, database, request, skip, missing, page>>

\* The request goes on by itself.
Serve(c) ==
  \/ GetMissingDates(c)
  \/ Fetch(c)
  \/ FetchIgnoringCache(c)
  \/ InsertDocument(c)
  \/ ReadPage(c)
  \/ ReadNoCollection(c)

Disturb ==
  \/ \E c \in Clients :
       \/ EmptyAggregate(c)
       \/ MissingDatesFail(c)
       \/ FetchFails(c)
       \/ InsertFails(c)
       \/ ReadFails(c)
  \/ CreateCollection
  \/ CreateExistingCollection
  \/ ProcessDies
=============================================================================
