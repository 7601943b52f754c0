----------------------------- MODULE AwsQueries -----------------------------
(***************************************************************************)
(* The queries behind the estimates of an AWS account.                      *)
(*                                                                         *)
(* With billing data there is one Athena query, which is polled and then    *)
(* read page by page.  Otherwise the regions are taken one after the other,  *)
(* and in a region all services at once: EC2 reads metrics for windows of   *)
(* 30 days, Lambda runs log queries for windows of 60 days and for one group *)
(* of log groups after the other, with a limit on how many may run.  All    *)
(* requests are in one process: a loop that does not await stops everything. *)
(***************************************************************************)
EXTENDS Integers, Sequences, FiniteSets

CONSTANTS
  Requests,       \* requests that may be in progress at the same time
  Setups,         \* what is configured and who asks: see SetupType
  NDays,          \* days of the calendar
  FirstOfMonth,   \* for each of them, the first day of its month
  Ranges,         \* what a request may ask for: days from start to end
  MaxGroups,      \* groups of at most LOG_GROUP_SIZE_REQUEST_LIMIT log groups
  MaxConcurrent,  \* MAX_CONCURRENT_LOG_QUERIES
  ServiceLimit,   \* queries the service lets run
  MaxWindows,     \* bound: windows of one loop that are told apart
  MaxOthers,      \* bound: log queries that others run
  NPages          \* pages of the result of an Athena query

\* The source is "reports" with USE_BILLING_DATA; regions are CURRENT_REGIONS.
SetupType ==
  [source : {"reports", "services"}, requests : SUBSET Requests,
   regions : Nat \ {0}, groups : 0..MaxGroups, others : 0..MaxOthers]

ASSUME AwsAssumption ==
  /\ Setups \subseteq SetupType
  /\ NDays \in Nat
  /\ FirstOfMonth \in [1..NDays -> 1..NDays]
  /\ \A d \in 1..NDays : d - FirstOfMonth[d] \in 0..30
  /\ \A r \in Requests :
       /\ Ranges[r] \subseteq [start : 1..NDays, end : 1..NDays] /\ Ranges[r] # {}
       /\ \A x \in Ranges[r] : x.start <= x.end
  /\ MaxGroups \in Nat /\ MaxWindows \in Nat \ {0}
  /\ MaxConcurrent \in Nat \ {0} /\ ServiceLimit \in Nat
  /\ MaxOthers \in Nat /\ NPages \in Nat \ {0}
  /\ IsFiniteSet(Requests)

Groups == 1..MaxGroups
Interval == [EC2 |-> 30, Lambda |-> 60]
Services == DOMAIN Interval
Queries == Requests \X Groups \X (1..MaxWindows)

(***************************************************************************)
(* A date is the number of its day.                                         *)
(***************************************************************************)
DayOfMonth(d) == d - FirstOfMonth[d] + 1

\* Date.setDate: days past the end of the month count on in the next ones.
SetDate(d, day) == FirstOfMonth[d] + day - 1

VARIABLES
  setup,
  range,     \* what a request asks for
  pc,        \* what it is doing
  region,    \* the region it is in
  athena,    \* state of its Athena query
  pages,     \* pages of its result it has read
  split,     \* the loop of getQueryByInterval that is running, if any
  windows,   \* the windows of a request and a service
  unread,    \* calls for metrics and costs that have not been answered
  lambda,    \* what the Lambda service is doing
  ngroups,   \* groups of log groups in the region
  group,     \* the group it is at
  query,     \* how far each log query is
  poll,      \* how far getResults is with it
  uncounted, \* a query was started that does not count as running yet
  others,    \* log queries of others that are running
  othersLeft \* those that are still to come

athenaVars == <<athena, pages>>
lambdaVars == <<lambda, ngroups, group>>
queryVars == <<query, poll, uncounted>>
otherVars == <<others, othersLeft>>
vars == <<setup, range, pc, region, athenaVars, split, windows, unread, lambdaVars,
          queryVars, otherVars>>

None == [request |-> "none"]
Running == {q \in Queries : query[q] = "Running"}
Active == {q \in Queries : query[q] \in {"Scheduled", "Running"}}
OfGroup(r, g) == {q \in Queries : q[1] = r /\ q[2] = g /\ query[q] # "none"}

Init ==
  /\ setup \in Setups
  /\ range = [r \in Requests |-> CHOOSE x \in Ranges[r] : TRUE]
  /\ pc = [r \in Requests |-> "idle"]
  /\ region = [r \in Requests |-> 1]
  /\ athena = [r \in Requests |-> "none"]
  /\ pages = [r \in Requests |-> <<>>]
  /\ split = None
  /\ windows = [r \in Requests |-> [s \in Services |-> <<>>]]
  /\ unread = [r \in Requests |-> 0]
  /\ lambda = [r \in Requests |-> "off"]
  /\ ngroups = [r \in Requests |-> 0]
  /\ group = [r \in Requests |-> 0]
  /\ query = [q \in Queries |-> "none"]
  /\ poll = [q \in Queries |-> "no"]
  /\ uncounted = FALSE
  /\ others = 0 /\ othersLeft = setup.others

Goto(r, label) == pc' = [pc EXCEPT ![r] = label]

\* The process runs a callback only when no loop is running.
Free == split = None

\* A promise of the request is rejected: the request fails, and what else it
\* has under way goes on.
Fail(r) == pc' = [pc EXCEPT ![r] = IF @ = "estimate" THEN "failed" ELSE @]

(***************************************************************************)
(* getQueryByInterval                                                      *)
(***************************************************************************)
Loop(r, s, from) ==
  [request |-> r, service |-> s, from |-> from,
   to |-> SetDate(from, DayOfMonth(from) + Interval[s])]

\* Faulty variant: the next window begins a day after the end of this one.
NextStartWithGap(s, from, start) ==
  SetDate(from, DayOfMonth(start) + Interval[s]) + 1

\* The next window begins the interval after the day of the month on which the
\* first one began, in the month in which this one begins.
NextStart(s, from, start) == SetDate(from, DayOfMonth(start) + Interval[s])

\* func is called for the window: it runs until it awaits.
Push(r, s, window) ==
  LET n == Len(windows[r][s]) + 1
  IN  /\ n <= MaxWindows
      /\ windows' = [windows EXCEPT ![r][s] = Append(@, window)]
      /\ IF s = "EC2"
         THEN unread' = [unread EXCEPT ![r] = @ + 1] /\ UNCHANGED query
         ELSE query' = [query EXCEPT ![<<r, group[r], n>>] = "ask"] /\ UNCHANGED unread

\* More windows than are told apart.
PushTooMany(r, s) ==
  /\ Len(windows[r][s]) = MaxWindows
  /\ UNCHANGED <<windows, unread, query>>

SplitWindow ==
  /\ ~Free
  /\ LET r == split.request
         s == split.service
         start == range[r].start
         next == NextStart(s, split.from, start)
     IN  /\ split.to < range[r].end
         /\ Push(r, s, [from |-> split.from, to |-> split.to]) \/ PushTooMany(r, s)
         /\ split' = [split EXCEPT !.from = next,
                                   !.to = SetDate(next, DayOfMonth(start) + Interval[s])]
  /\ UNCHANGED <<setup, range, pc, region, athenaVars, lambdaVars, poll, uncounted,
                 otherVars>>

SplitLast ==
  /\ ~Free
  /\ LET r == split.request
     IN  /\ split.to >= range[r].end
         /\ \/ Push(r, split.service, [from |-> split.from, to |-> range[r].end])
            \/ PushTooMany(r, split.service)
  /\ split' = None
  /\ UNCHANGED <<setup, range, pc, region, athenaVars, lambdaVars, poll, uncounted,
                 otherVars>>

(***************************************************************************)
(* getDataForRegions and Region.getEstimates                               *)
(***************************************************************************)

\* EC2 gets to its loop without awaiting, Lambda asks for its log groups first.
EnterRegion(r, n, x) ==
  /\ region' = [region EXCEPT ![r] = n]
  /\ windows' = [windows EXCEPT ![r] = [s \in Services |-> <<>>]]
  /\ unread' = [unread EXCEPT ![r] = 1]
  /\ lambda' = [lambda EXCEPT ![r] = "names"]
  /\ group' = [group EXCEPT ![r] = 0]
  /\ split' = Loop(r, "EC2", x.start)
  /\ query' = [q \in Queries |-> IF q[1] = r THEN "none" ELSE query[q]]
  /\ poll' = [q \in Queries |-> IF q[1] = r THEN "no" ELSE poll[q]]

Estimate(r, x) ==
  /\ Free
  /\ setup.source = "services"
  /\ r \in setup.requests
  /\ pc[r] = "idle"
  /\ range' = [range EXCEPT ![r] = x]
  /\ Goto(r, "estimate")
  /\ EnterRegion(r, 1, x)
  /\ UNCHANGED <<setup, athenaVars, ngroups, uncounted, otherVars>>

\* All services and the costs have been answered.
RegionDone(r) == unread[r] = 0 /\ lambda[r] = "done"

NextRegion(r) ==
  /\ Free
  /\ pc[r] = "estimate"
  /\ RegionDone(r)
  /\ region[r] < setup.regions
  /\ EnterRegion(r, region[r] + 1, range[r])
  /\ UNCHANGED <<setup, range, pc, athenaVars, ngroups, uncounted, otherVars>>

AnswerServices(r) ==
  /\ Free
  /\ pc[r] = "estimate"
  /\ RegionDone(r)
  /\ region[r] = setup.regions
  /\ Goto(r, "answered")
  /\ UNCHANGED <<setup, range, region, athenaVars, split, windows, unread, lambdaVars,
                 queryVars, otherVars>>

\* All pages of a window of EC2, or all calls of the other services and the
\* costs, which count as one.
ReadMetrics(r) ==
  /\ Free
  /\ unread[r] > 0
  /\ unread' = [unread EXCEPT ![r] = @ - 1]
  /\ UNCHANGED <<setup, range, pc, region, athenaVars, split, windows, lambdaVars,
                 queryVars, otherVars>>

\* An error, or a page with partial data.
ReadMetricsFails(r) ==
  /\ Free
  /\ unread[r] > 0
  /\ unread' = [unread EXCEPT ![r] = @ - 1]
  /\ Fail(r)
  /\ UNCHANGED <<setup, range, region, athenaVars, split, windows, lambdaVars,
                 queryVars, otherVars>>

(***************************************************************************)
(* Lambda                                                                  *)
(***************************************************************************)

\* getLambdaLogGroupNames; the first group is split into windows at once.
GroupNames(r, n) ==
  /\ Free
  /\ lambda[r] = "names"
  /\ ngroups' = [ngroups EXCEPT ![r] = n]
  /\ IF n = 0
     THEN /\ lambda' = [lambda EXCEPT ![r] = "done"]
          /\ UNCHANGED <<group, split>>
     ELSE /\ lambda' = [lambda EXCEPT ![r] = "start"]
          /\ group' = [group EXCEPT ![r] = 1]
          /\ split' = Loop(r, "Lambda", range[r].start)
  /\ UNCHANGED <<setup, range, pc, region, athenaVars, windows, unread, queryVars,
                 otherVars>>

NamesFail(r) ==
  /\ Free
  /\ lambda[r] = "names"
  /\ lambda' = [lambda EXCEPT ![r] = "failed"]
  /\ Fail(r)
  /\ UNCHANGED <<setup, range, region, athenaVars, split, windows, unread, ngroups,
                 group, queryVars, otherVars>>

\* Faulty variant: one place too many.
HasPlaceAtLimit == Cardinality(Running) + others <= MaxConcurrent

HasPlace == Cardinality(Running) + others < MaxConcurrent

\* runQuery counts the running queries, and asks again while there are too many.
CountRunning(q) ==
  /\ Free
  /\ query[q] = "ask"
  /\ HasPlace
  /\ query' = [query EXCEPT ![q] = "start"]
  /\ UNCHANGED <<setup, range, pc, region, athenaVars, split, windows, unread,
                 lambdaVars, poll, uncounted, otherVars>>

\* A query of the group is rejected, and with it the whole service.
Refuse(q) ==
  /\ query' = [query EXCEPT ![q] = "refused"]
  /\ lambda' = [lambda EXCEPT ![q[1]] = "failed"]
  /\ Fail(q[1])
  /\ UNCHANGED <<setup, range, region, athenaVars, split, windows, unread, ngroups,
                 group, poll, uncounted, otherVars>>

CountFails(q) == Free /\ query[q] = "ask" /\ Refuse(q)

\* The service runs the query at once or schedules it.
StartQuery(q) ==
  /\ Free
  /\ query[q] = "start"
  /\ Cardinality(Active) + others < ServiceLimit
  /\ \/ query' = [query EXCEPT ![q] = "Running"] /\ UNCHANGED uncounted
     \/ query' = [query EXCEPT ![q] = "Scheduled"] /\ uncounted' = TRUE
  /\ UNCHANGED <<setup, range, pc, region, athenaVars, split, windows, unread,
                 lambdaVars, poll, otherVars>>

StartRefused(q) ==
  /\ Free
  /\ query[q] = "start"
  /\ Cardinality(Active) + others >= ServiceLimit
  /\ Refuse(q)

\* Faulty variant: the next group does not wait for the queries of this one.
GroupStartedAtOnce(r) == Free /\ lambda[r] = "start"

GroupStarted(r) ==
  /\ Free
  /\ lambda[r] = "start"
  /\ \A q \in OfGroup(r, group[r]) : query[q] \notin {"ask", "start"}

\* All windows of the group have their query ids; the next group is split.
NextGroup(r) ==
  /\ GroupStarted(r)
  /\ group[r] < ngroups[r]
  /\ group' = [group EXCEPT ![r] = @ + 1]
  /\ windows' = [windows EXCEPT ![r]["Lambda"] = <<>>]
  /\ split' = Loop(r, "Lambda", range[r].start)
  /\ UNCHANGED <<setup, range, pc, region, athenaVars, unread, lambda, ngroups,
                 queryVars, otherVars>>

\* getResults for all queries of a group at once.
Collect(r, g) ==
  /\ group' = [group EXCEPT ![r] = g]
  /\ poll' = [q \in Queries |-> IF q \in OfGroup(r, g) THEN "polling" ELSE poll[q]]

CollectFirst(r) ==
  /\ GroupStarted(r)
  /\ group[r] = ngroups[r]
  /\ lambda' = [lambda EXCEPT ![r] = "collect"]
  /\ Collect(r, 1)
  /\ UNCHANGED <<setup, range, pc, region, athenaVars, split, windows, unread, ngroups,
                 query, uncounted, otherVars>>

GroupCollected(r) ==
  /\ Free
  /\ lambda[r] = "collect"
  /\ \A q \in OfGroup(r, group[r]) : poll[q] = "got"

CollectNext(r) ==
  /\ GroupCollected(r)
  /\ group[r] < ngroups[r]
  /\ Collect(r, group[r] + 1)
  /\ UNCHANGED <<setup, range, pc, region, athenaVars, split, windows, unread, lambda,
                 ngroups, query, uncounted, otherVars>>

CollectedAll(r) ==
  /\ GroupCollected(r)
  /\ group[r] = ngroups[r]
  /\ lambda' = [lambda EXCEPT ![r] = "done"]
  /\ UNCHANGED <<setup, range, pc, region, athenaVars, split, windows, unread, ngroups,
                 group, queryVars, otherVars>>

\* Faulty variant: a scheduled query counts as answered.
UnfinishedIfRunning == {"Running"}

Unfinished == {"Running", "Scheduled"}

\* Every other status is an answer, that of a failed query, too.
GetResult(q) ==
  /\ Free
  /\ poll[q] = "polling"
  /\ query[q] \notin Unfinished
  /\ poll' = [poll EXCEPT ![q] = "got"]
  /\ UNCHANGED <<setup, range, pc, region, athenaVars, split, windows, unread,
                 lambdaVars, query, uncounted, otherVars>>

\* The call fails, or the query is unfinished TIMEOUT after the first one.
NoResult(q) ==
  /\ Free
  /\ poll[q] = "polling"
  /\ poll' = [poll EXCEPT ![q] = "late"]
  /\ lambda' = [lambda EXCEPT ![q[1]] = "failed"]
  /\ Fail(q[1])
  /\ UNCHANGED <<setup, range, region, athenaVars, split, windows, unread, ngroups,
                 group, query, uncounted, otherVars>>

(***************************************************************************)
(* CostAndUsageReports.getUsage                                            *)
(***************************************************************************)
StartAthena(r) ==
  /\ setup.source = "reports"
  /\ r \in setup.requests
  /\ pc[r] = "idle"
  /\ \/ athena' = [athena EXCEPT ![r] = "QUEUED"] /\ Goto(r, "poll")
     \/ UNCHANGED athena /\ Goto(r, "failed")
  /\ UNCHANGED <<setup, range, region, pages, split, windows, unread, lambdaVars,
                 queryVars, otherVars>>

\* Faulty variant: no state is seen as a failure.
NoFailedStates == {}

\* ('FAILED' || 'CANCELLED')
FailedStates == {"FAILED"}

PollFailed(r) ==
  /\ pc[r] = "poll"
  /\ athena[r] \in FailedStates
  /\ Goto(r, "failed")
  /\ UNCHANGED <<setup, range, region, athenaVars, split, windows, unread, lambdaVars,
                 queryVars, otherVars>>

PollFails(r) ==
  /\ pc[r] = "poll"
  /\ Goto(r, "failed")
  /\ UNCHANGED <<setup, range, region, athenaVars, split, windows, unread, lambdaVars,
                 queryVars, otherVars>>

PollSucceeded(r) ==
  /\ pc[r] = "poll"
  /\ athena[r] = "SUCCEEDED"
  /\ Goto(r, "pages")
  /\ UNCHANGED <<setup, range, region, athenaVars, split, windows, unread, lambdaVars,
                 queryVars, otherVars>>

(***************************************************************************)
(* enablePagination                                                        *)
(***************************************************************************)

\* Faulty variant: the last page has a token, too.
TokenAlways(page) == page + 1

\* A response says which page is next, 0 if none.
TokenOf(page) == IF page < NPages THEN page + 1 ELSE 0

\* Faulty variant: the token of the first response.
TokenOfFirst(read) == IF read = <<>> THEN 1 ELSE TokenOf(read[1])

\* The request asks with the token of the latest response.
TokenToSend(read) == IF read = <<>> THEN 1 ELSE TokenOf(read[Len(read)])

ReadPage(r) ==
  /\ pc[r] = "pages"
  /\ LET page == TokenToSend(pages[r])
     IN  /\ pages' = [pages EXCEPT ![r] = Append(@, page)]
         /\ IF TokenOf(page) = 0 THEN Goto(r, "answered") ELSE UNCHANGED pc
  /\ UNCHANGED <<setup, range, region, athena, split, windows, unread, lambdaVars,
                 queryVars, otherVars>>

ReadPageFails(r) ==
  /\ pc[r] = "pages"
  /\ Goto(r, "failed")
  /\ UNCHANGED <<setup, range, region, athenaVars, split, windows, unread, lambdaVars,
                 queryVars, otherVars>>

(***************************************************************************)
(* The services                                                            *)
(***************************************************************************)
FinishAthena(r) ==
  /\ athena[r] = "QUEUED"
  /\ athena' = [athena EXCEPT ![r] = "SUCCEEDED"]
     \/ athena' = [athena EXCEPT ![r] = "FAILED"]
     \/ athena' = [athena EXCEPT ![r] = "CANCELLED"]
  /\ UNCHANGED <<setup, range, pc, region, pages, split, windows, unread, lambdaVars,
                 queryVars, otherVars>>

RunScheduled(q) ==
  /\ query[q] = "Scheduled"
  /\ query' = [query EXCEPT ![q] = "Running"]
  /\ UNCHANGED <<setup, range, pc, region, athenaVars, split, windows, unread,
                 lambdaVars, poll, uncounted, otherVars>>

\* Complete, or one of Failed, Cancelled, Timeout and Unknown.
FinishQuery(q) ==
  /\ query[q] = "Running"
  /\ \/ query' = [query EXCEPT ![q] = "Complete"]
     \/ query' = [query EXCEPT ![q] = "Failed"]
  /\ UNCHANGED <<setup, range, pc, region, athenaVars, split, windows, unread,
                 lambdaVars, poll, uncounted, otherVars>>

OtherStarts ==
  /\ othersLeft > 0
  /\ othersLeft' = othersLeft - 1 /\ others' = others + 1
  /\ UNCHANGED <<setup, range, pc, region, athenaVars, split, windows, unread,
                 lambdaVars, queryVars>>

OtherFinishes ==
  /\ others > 0
  /\ others' = others - 1
  /\ UNCHANGED <<setup, range, pc, region, athenaVars, split, windows, unread,
                 lambdaVars, queryVars, othersLeft>>

Process(r) ==
  \/ NextRegion(r) \/ AnswerServices(r)
  \/ ReadMetrics(r) \/ ReadMetricsFails(r)
  \/ \E n \in 0..setup.groups : GroupNames(r, n)
  \/ NextGroup(r) \/ CollectFirst(r) \/ CollectNext(r) \/ CollectedAll(r)
  \/ PollFailed(r) \/ PollSucceeded(r) \/ ReadPage(r) \/ ReadPageFails(r)

ProcessQuery(q) ==
  CountRunning(q) \/ StartQuery(q) \/ StartRefused(q) \/ GetResult(q)

Next ==
  \/ SplitWindow \/ SplitLast
  \/ \E r \in Requests :
       \/ \E x \in Ranges[r] : Estimate(r, x)
       \/ StartAthena(r)
       \/ Process(r)
       \/ NamesFail(r) \/ PollFails(r)
       \/ FinishAthena(r)
  \/ \E q \in Queries :
       \/ ProcessQuery(q)
       \/ CountFails(q) \/ NoResult(q)
       \/ RunScheduled(q) \/ FinishQuery(q)
  \/ OtherStarts \/ OtherFinishes

\* Loops run, answers arrive, polls are repeated; the services and the others
\* finish what they run.
Fairness ==
  /\ WF_vars(SplitWindow \/ SplitLast)
  /\ \A r \in Requests : WF_vars(Process(r)) /\ WF_vars(FinishAthena(r))
  /\ \A q \in Queries :
       WF_vars(ProcessQuery(q)) /\ WF_vars(RunScheduled(q)) /\ WF_vars(FinishQuery(q))
  /\ WF_vars(OtherFinishes)

Spec == Init /\ [][Next]_vars /\ Fairness
-----------------------------------------------------------------------------
(***************************************************************************)
(* Properties.                                                             *)
(***************************************************************************)
Window == [from : Nat, to : Nat]

TypeOK ==
  /\ setup \in Setups
  /\ \A r \in Requests : range[r] \in Ranges[r]
  /\ pc \in [Requests -> {"idle", "estimate", "poll", "pages", "answered", "failed"}]
  /\ region \in [Requests -> 1..setup.regions]
  /\ athena \in [Requests -> {"none", "QUEUED", "SUCCEEDED", "FAILED", "CANCELLED"}]
  /\ pages \in [Requests -> Seq(1..NPages)]
  /\ split \in {None} \cup [request : Requests, service : Services, from : Nat, to : Nat]
  /\ windows \in [Requests -> [Services -> Seq(Window)]]
  /\ unread \in [Requests -> 0..MaxWindows + 1]
  /\ lambda \in [Requests -> {"off", "names", "start", "collect", "done", "failed"}]
  /\ ngroups \in [Requests -> 0..MaxGroups] /\ group \in [Requests -> 0..MaxGroups]
  /\ query \in [Queries -> {"none", "ask", "start", "refused", "Scheduled", "Running",
                            "Complete", "Failed"}]
  /\ poll \in [Queries -> {"no", "polling", "got", "late"}]
  /\ uncounted \in BOOLEAN
  /\ others \in 0..MaxOthers /\ othersLeft \in 0..MaxOthers

Splitting(r, s) == ~Free /\ split.request = r /\ split.service = s

\* The loop does not advance: the last day of the interval is in the month.
Stuck == ~Free /\ split.from = split.to /\ split.to < range[split.request].end

\* The windows of a service begin with the range, and each begins where the one
\* before ends: no usage is between them and none is queried twice.
WindowsFit ==
  \A r \in Requests, s \in Services :
    LET ws == windows[r][s]
    IN  ws # <<>> =>
          /\ ws[1].from = range[r].start
          /\ \A i \in 1..Len(ws) - 1 : ws[i + 1].from = ws[i].to

\* That, and the last one ends with the range, unless there are more windows than
\* are told apart.  The loop advances unless it cuts a range that begins on the
\* first of a month in windows of 30 days and arrives at a 31st.
WindowsMeet ==
  /\ WindowsFit
  /\ \A r \in Requests, s \in Services :
       LET ws == windows[r][s]
       IN  /\ ws # <<>> /\ ~Splitting(r, s) /\ Len(ws) < MaxWindows =>
                ws[Len(ws)].to = range[r].end
           /\ ~Stuck => \A i \in DOMAIN ws :
                          ws[i].from < ws[i].to \/ range[r].start = range[r].end
  /\ Stuck =>
       /\ split.service = "EC2"
       /\ DayOfMonth(range[split.request].start) = 1
       /\ DayOfMonth(split.from) = 31

\* Windows of a group: as many as of the first one.
AtOnce(r) == {q \in Queries : q[1] = r /\ q[2] = 1 /\ query[q] # "none"}

\* Every window that counts the running queries before it starts its own may be
\* one of several that see the same free place: the limit is passed by as many
\* queries as there are windows at once, less one, and not by more, whatever others
\* run, as long as the service has scheduled no query, which is then not counted.
OvershootIsBounded ==
  ~uncounted =>
    Cardinality(Active) <=
      MaxConcurrent - 1 + Cardinality(UNION {AtOnce(r) : r \in Requests})

\* An answer rests on the result of every window of every group, and on every
\* page once and in order.  Nothing of the request is still running, and what is
\* missing in it are the queries that failed, whose status nobody looks at.
AnswerIsWhole ==
  \A r \in Requests : pc[r] = "answered" =>
    IF setup.source = "reports"
    THEN athena[r] = "SUCCEEDED" /\ pages[r] = [i \in 1..NPages |-> i]
    ELSE /\ unread[r] = 0
         /\ \A g \in 1..ngroups[r] : \A q \in OfGroup(r, g) :
              poll[q] = "got" /\ query[q] \in {"Complete", "Failed"}
         /\ \A q \in Active : q[1] # r

InProgress(r) == pc[r] \in {"estimate", "poll", "pages"}

\* A request ends, with places for queries taken by others and by requests that
\* failed meanwhile, unless its Athena query was cancelled, which is polled for
\* ever, or a loop does not advance, which stops all requests.
RequestsEnd ==
  \A r \in Requests :
    InProgress(r) ~> (~InProgress(r) \/ athena[r] = "CANCELLED" \/ Stuck)
=============================================================================
