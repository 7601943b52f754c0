-------------------------- MODULE AzureConsumption --------------------------
(***************************************************************************)
(* Estimates for Azure: getDataFromConsumptionManagement of AzureAccount   *)
(* and getEstimates of ConsumptionManagementService.                       *)
(*                                                                         *)
(* A request lists the subscriptions and queries them in groups; within a  *)
(* group each subscription is a chain of callbacks of its own.  One query  *)
(* per window of days is paged through, waiting and starting over when the  *)
(* service limits the rate.  Known rows are counted in an accumulator that  *)
(* all requests of the process share and nothing resets; the estimates of  *)
(* unknown rows rest on what it holds when their subscription is complete.  *)
(***************************************************************************)
EXTENDS Integers, FiniteSets

CONSTANTS
  Requests,      \* estimation requests of the process
  Troubled,      \* bound: those the service may limit or refuse
  Subscriptions, \* 1..n, in the order the account lists them
  Rows,          \* usage rows: [sub, first, last, known]
  Usages,        \* the sets of rows the service may have
  Days,          \* the request ends with day Days - 1 or as the next begins
  ChunkSizes,    \* values of CONSUMPTION_CHUNKS_DAYS, 0 for no windows
  GroupSizes,    \* values of SUBSCRIPTION_CHUNKS, 0 for a single group
  MaxRetries

ASSUME AzureAssumption ==
  /\ Subscriptions \subseteq Nat \ {0} /\ IsFiniteSet(Subscriptions)
  /\ Days \in Nat \ {0}
  /\ Rows \subseteq [sub : Subscriptions, first : 0..Days, last : 0..Days, known : BOOLEAN]
  /\ \A row \in Rows : row.first <= row.last
  /\ IsFiniteSet(Requests) /\ Troubled \subseteq Requests
  /\ Usages \subseteq SUBSET Rows
  /\ ChunkSizes \subseteq Nat
  /\ GroupSizes \subseteq Nat
  /\ MaxRetries \in Nat

(***************************************************************************)
(* A day has three moments that matter: its first millisecond, 23:59:59,   *)
(* where daily usage ends, and the millisecond before midnight.            *)
(***************************************************************************)
DayStart(d) == 3 * d
UsageEnd(d) == 3 * d + 1

VARIABLES
  usage,     \* the rows the service has
  step,      \* CONSUMPTION_CHUNKS_DAYS
  size,      \* SUBSCRIPTION_CHUNKS
  endDate,   \* of every request; they begin with day 0
  request,   \* "new", "fetching", "answered" or "refused"
  listed,    \* the subscriptions a request queries
  job,       \* the query of a request for a subscription
  collected, \* how often getConsumptionUsageDetails has each row
  counted,   \* how often the accumulator has each known row
  basis      \* the accumulator when a subscription's unknown rows used it

config == <<usage, step, size, endDate>>
vars == <<config, request, listed, job, collected, counted, basis>>

Zero == [row \in Rows |-> 0]

\* from is the day the window begins with, try the number of the attempt, page
\* and unread the rows read and left of that attempt's pages.
Waiting == [at |-> "waiting", from |-> 0, try |-> 0, page |-> Zero, unread |-> {}]

Init ==
  /\ usage \in Usages
  /\ step \in ChunkSizes
  /\ size \in GroupSizes
  /\ endDate \in {DayStart(Days) - 1, DayStart(Days)}
  /\ request = [r \in Requests |-> "new"]
  /\ listed = [r \in Requests |-> {}]
  /\ job = [r \in Requests |-> [s \in Subscriptions |-> Waiting]]
  /\ collected = [r \in Requests |-> [s \in Subscriptions |-> Zero]]
  /\ counted = Zero
  /\ basis = [r \in Requests |-> [s \in Subscriptions |-> Zero]]

At(r, s) == job[r][s].at
Settled(r, s) == At(r, s) \in {"done", "failed"}

(***************************************************************************)
(* Subscriptions: listed, or looked up one by one when their ids are       *)
(* configured, where one that cannot be found is left out.                 *)
(***************************************************************************)
ListSubscriptions(r) ==
  /\ request[r] = "new"
  /\ request' = [request EXCEPT ![r] = "fetching"]
  /\ \E found \in SUBSET Subscriptions : listed' = [listed EXCEPT ![r] = found]
  /\ UNCHANGED <<config, job, collected, counted, basis>>

ListFails(r) ==
  /\ request[r] = "new"
  /\ request' = [request EXCEPT ![r] = "refused"]
  /\ UNCHANGED <<config, listed, job, collected, counted, basis>>

(***************************************************************************)
(* Windows.  All but the last end a millisecond early and exclude their    *)
(* end; a request that ends with a window begins one more at its end.      *)
(***************************************************************************)
NextWindow(from) == from + step

IsLast(from) == step = 0 \/ DayStart(NextWindow(from)) >= endDate

HasNext(from) == step # 0 /\ DayStart(NextWindow(from)) <= endDate

\* What the service answers to the filter of a query.
Matching(s, from) ==
  {row \in usage :
     /\ row.sub = s
     /\ row.first >= from
     /\ IF IsLast(from) THEN UsageEnd(row.last) <= endDate
                        ELSE UsageEnd(row.last) < DayStart(NextWindow(from)) - 1}

Query(s, from) ==
  [at |-> "reading", from |-> from, try |-> 1, page |-> Zero, unread |-> Matching(s, from)]

\* Faulty variant: rows read before the error are kept.
AgainWithPage(j, s) == [j EXCEPT !.at = "reading", !.try = @ + 1, !.unread = Matching(s, j.from)]

\* Faulty variant: the attempt is not counted.
AgainUncounted(j, s) == [Query(s, j.from) EXCEPT !.try = j.try]

Again(j, s) == [Query(s, j.from) EXCEPT !.try = j.try + 1]

(***************************************************************************)
(* Groups.  Promise.all waits for every subscription of a group, none of   *)
(* which rejects.                                                          *)
(***************************************************************************)
Earlier(r, s) == {t \in listed[r] : t < s}

\* splitEvery: the g-th group has the next size subscriptions of the list.
GroupOf(r, g) ==
  {s \in listed[r] :
     LET place == Cardinality(Earlier(r, s)) IN
     IF size = 0 THEN g = 0 ELSE g * size <= place /\ place < (g + 1) * size}

\* Faulty variant: nothing awaits the Promise.all of a group.
Unawaited(r, g) == g \in Nat

Before(r, g) == \A h \in 0..(g - 1) : \A s \in GroupOf(r, h) : Settled(r, s)

StartGroup(r) ==
  \E g \in 0..Cardinality(listed[r]) :
    /\ request[r] = "fetching"
    /\ GroupOf(r, g) # {}
    /\ \A s \in GroupOf(r, g) : At(r, s) = "waiting"
    /\ Before(r, g)
    /\ job' = [job EXCEPT ![r] =
                 [s \in Subscriptions |-> IF s \in GroupOf(r, g) THEN Query(s, 0) ELSE @[s]]]
    /\ UNCHANGED <<config, request, listed, collected, counted, basis>>

Answer(r) ==
  /\ request[r] = "fetching"
  /\ \A s \in listed[r] : Settled(r, s)
  /\ request' = [request EXCEPT ![r] = "answered"]
  /\ UNCHANGED <<config, listed, job, collected, counted, basis>>

(***************************************************************************)
(* One query.                                                              *)
(***************************************************************************)
TakeRow(j, row) ==
  [at |-> j.at, from |-> j.from, try |-> j.try,
   page |-> [j.page EXCEPT ![row] = @ + 1], unread |-> j.unread \ {row}]

ReadRow(r, s) ==
  /\ At(r, s) = "reading"
  /\ \E row \in job[r][s].unread :
       job' = [job EXCEPT ![r][s] = TakeRow(@, row)]
  /\ UNCHANGED <<config, request, listed, collected, counted, basis>>

Together(some, more) == [row \in Rows |-> some[row] + more[row]]

\* Rows of getEstimates, by what it can say of them.
Known(rows) == [row \in Rows |-> IF row.known THEN rows[row] ELSE 0]

\* Faulty variant: what a window has is counted as it arrives.
CountWindow(r, s) ==
  counted' = Together(counted, Known(job[r][s].page))

\* getEstimates runs to its end when the last window is there: all known rows
\* are counted, then unknown ones rest on the accumulator.  Its filter on date
\* repeats what the queries asked for.
CountAll(r, s) ==
  counted' = IF HasNext(job[r][s].from) THEN counted
             ELSE Together(counted, Known(collected'[r][s]))

\* Faulty variant: a known row's estimate is counted after the unknown ones'.
StaleBasis(r, s) == basis' = [basis EXCEPT ![r][s] = counted]

TakeBasis(r, s) == basis' = [basis EXCEPT ![r][s] = counted']

EndOfPages(r, s) ==
  LET j == job[r][s] IN
  /\ j.at = "reading"
  /\ j.unread = {}
  /\ collected' = [collected EXCEPT ![r][s] = Together(@, j.page)]
  /\ CountAll(r, s)
  /\ IF HasNext(j.from)
     THEN /\ job' = [job EXCEPT ![r][s] = Query(s, NextWindow(j.from))]
          /\ UNCHANGED basis
     ELSE /\ job' = [job EXCEPT ![r][s] = [Waiting EXCEPT !.at = "done"]]
          /\ TakeBasis(r, s)
  /\ UNCHANGED <<config, request, listed>>

\* An error that says no request remains.
RateLimited(r, s) ==
  /\ r \in Troubled
  /\ At(r, s) = "reading"
  /\ job' = [job EXCEPT ![r][s].at = "limited"]
  /\ UNCHANGED <<config, request, listed, collected, counted, basis>>

Fail(r, s) == job' = [job EXCEPT ![r][s] = [Waiting EXCEPT !.at = "failed"]]

\* Faulty variant: one attempt more than the limit allows.
WaitOverOnceMore(r, s) ==
  /\ At(r, s) = "limited"
  /\ IF job[r][s].try <= MaxRetries + 1
     THEN job' = [job EXCEPT ![r][s] = Again(@, s)]
     ELSE Fail(r, s)
  /\ UNCHANGED <<config, request, listed, collected, counted, basis>>

\* The wait is over: try again from the first page, or give up.
WaitOver(r, s) ==
  /\ At(r, s) = "limited"
  /\ IF job[r][s].try <= MaxRetries
     THEN job' = [job EXCEPT ![r][s] = Again(@, s)]
     ELSE Fail(r, s)
  /\ UNCHANGED <<config, request, listed, collected, counted, basis>>

\* Any other error: logged, and the subscription has no estimates.
QueryFails(r, s) ==
  /\ r \in Troubled
  /\ At(r, s) = "reading"
  /\ Fail(r, s)
  /\ UNCHANGED <<config, request, listed, collected, counted, basis>>

QueryStep(r, s) ==
  ReadRow(r, s) \/ EndOfPages(r, s) \/ RateLimited(r, s) \/ WaitOver(r, s) \/ QueryFails(r, s)

Next ==
  \E r \in Requests :
    \/ ListSubscriptions(r) \/ ListFails(r) \/ StartGroup(r) \/ Answer(r)
    \/ \E s \in Subscriptions : QueryStep(r, s)

(***************************************************************************)
(* The service answers, waits end and callbacks run; which of a query's     *)
(* outcomes comes is not fair, so each attempt may be limited.             *)
(***************************************************************************)
Fairness ==
  \A r \in Requests :
    /\ WF_vars(ListSubscriptions(r) \/ ListFails(r))
    /\ WF_vars(StartGroup(r))
    /\ WF_vars(Answer(r))
    /\ \A s \in Subscriptions : WF_vars(QueryStep(r, s))

Spec == Init /\ [][Next]_vars /\ Fairness

-----------------------------------------------------------------------------
\* What getEstimates makes estimates of: unknown rows only beside known ones.
Estimated(r, s) ==
  {row \in Rows :
     /\ collected[r][s][row] > 0
     /\ row.known \/ \E other \in Rows : other.known /\ collected[r][s][other] > 0}

Jobs == [at : {"waiting", "reading", "limited", "done", "failed"},
         from : 0..Days, try : 0..(MaxRetries + 1),
         page : [Rows -> {0, 1}], unread : SUBSET usage]

\* Types: attempts stay within the limit, windows within the range, and no row
\* is read twice in an attempt nor kept twice by a query.
TypeOK ==
  /\ usage \subseteq Rows
  /\ step \in ChunkSizes /\ size \in GroupSizes
  /\ request \in [Requests -> {"new", "fetching", "answered", "refused"}]
  /\ listed \in [Requests -> SUBSET Subscriptions]
  /\ job \in [Requests -> [Subscriptions -> Jobs]]
  /\ collected \in [Requests -> [Subscriptions -> [Rows -> {0, 1}]]]
  /\ counted \in [Rows -> Nat]
  /\ basis \in [Requests -> [Subscriptions -> [Rows -> Nat]]]

InRange(row) == row \in usage /\ UsageEnd(row.last) <= endDate

InOneWindow(row) ==
  step = 0 \/ \E k \in 0..Days : k * step <= row.first /\ row.last < (k + 1) * step

\* Whatever was limited and retried, a subscription that is done has exactly
\* once each of its rows in the range, but for those whose usage goes on from
\* one window to the next: windows leave no day out and share none.
EachRowOnce ==
  \A r \in Requests, s \in Subscriptions : At(r, s) = "done" =>
    \A row \in Rows :
      collected[r][s][row] =
        IF row.sub = s /\ InRange(row) /\ InOneWindow(row) THEN 1 ELSE 0

\* A request never queries more subscriptions at a time than configured.
GroupLimit ==
  \A r \in Requests :
    size # 0 => Cardinality({s \in Subscriptions : At(r, s) \in {"reading", "limited"}}) <= size

\* The shared accumulator is made of complete subscriptions: attempts that were
\* limited and subscriptions that failed after some of their windows leave
\* nothing in it, and a request counts a known row once.
WholeSubscriptions ==
  \A row \in Rows :
    counted[row] =
      Cardinality({r \in Requests : /\ At(r, row.sub) = "done"
                                    /\ Known(collected[r][row.sub])[row] > 0})

\* An unknown row that is estimated rests on at least one known row, and on
\* all of its own subscription's, whoever else uses the accumulator meanwhile.
UnknownRestOnOwn ==
  \A r \in Requests, s \in Subscriptions : At(r, s) = "done" =>
    \A unknown \in Estimated(r, s) : ~unknown.known =>
      /\ \E row \in Rows : basis[r][s][row] > 0
      /\ \A row \in Rows : basis[r][s][row] >= Known(collected[r][s])[row]

\* Both: what the accumulator has, and what was estimated from it.
AccumulatorIsSound == WholeSubscriptions /\ UnknownRestOnOwn

\* Once subscriptions are listed the request is answered, not refused, with
\* each of them done or failed, however often the service limits the rate.
AlwaysAnswered ==
  \A r \in Requests :
    (request[r] = "fetching") ~>
      (request[r] = "answered" /\ \A s \in listed[r] : Settled(r, s))

=============================================================================
