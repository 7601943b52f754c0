----------------------------- MODULE SeedCache -----------------------------
(***************************************************************************)
(* From a range of dates to requests for estimates, and the script that     *)
(* fills the cache with one request or window by window.                    *)
(*                                                                         *)
(* A request wants the periods (days, weeks, months) its range touches.     *)
(* Those the cache lacks are put together to ranges of whole periods, and   *)
(* each of these ranges is asked of the cloud providers.  Days are numbers, *)
(* day 1 is a Monday; an estimate holds the days it counts the whole usage  *)
(* of, and the day on which it was made: providers report what was used     *)
(* until then.                                                             *)
(***************************************************************************)
EXTENDS CacheFile, Integers, SequencesExt

CONSTANTS
  NDays,        \* bound: days of the calendar
  MonthStarts,  \* days that begin a month
  Groupings,    \* values of groupBy
  Modes,        \* values of CACHE_MODE: "LOCAL", "MONGODB"
  FirstDays,    \* days on which a behaviour may begin
  Ranges,       \* bound: first and last days that users enter
  Windows,      \* bound: days for each request that users enter
  MaxSessions   \* bound: how often the script is run

Days == 1..NDays

ASSUME CalendarAssumption ==
  /\ NDays \in Nat
  /\ 1 \in MonthStarts /\ MonthStarts \subseteq Days
  /\ Groupings \subseteq {"day", "week", "month"}
  /\ Modes \subseteq {"LOCAL", "MONGODB"}
  /\ FirstDays \subseteq Days
  /\ Ranges \subseteq [first : Days, last : Days]
  /\ Windows \subseteq Nat \ {0}
  /\ MaxSessions \in Nat

VARIABLES
  grouping,  \* groupBy: each has a file, or a collection, of its own
  mode,      \* CACHE_MODE
  today,
  store,     \* the file, or the documents of the collection
  pc,        \* what the script is doing
  range,     \* the dates the user entered
  step,      \* daysPerRequest
  current,   \* currentDate: the first day of the window
  kept,      \* cachedEstimates of the local manager
  missing,   \* missing dates
  fetched,   \* new estimates
  sessions

given == <<grouping, mode>>
entered == <<range, step>>
progress == <<current, kept, missing, fetched>>
seedVars == <<given, today, store, pc, entered, progress, sessions>>

(***************************************************************************)
(* moment's units                                                          *)
(***************************************************************************)
Largest(S) == CHOOSE x \in S : \A y \in S : y <= x
Smallest(S) == CHOOSE x \in S : \A y \in S : x <= y
NextMonth(d) == Smallest({m \in MonthStarts \cup {NDays + 1} : m > d})

\* startOf, where weeks are 'isoWeek' and begin on Monday.
StartOf(d) ==
  CASE grouping = "day" -> d
    [] grouping = "week" -> d - ((d - 1) % 7)
    [] grouping = "month" -> Largest({m \in MonthStarts : m <= d})

\* Faulty variant: one week more.
EndOfNext(d) ==
  CASE grouping = "day" -> d + 1
    [] grouping = "week" -> d - (d % 7) + 13
    [] grouping = "month" -> NextMonth(d)

\* endOf, where weeks are 'week' and end on Saturday.
EndOf(d) ==
  CASE grouping = "day" -> d
    [] grouping = "week" -> d - (d % 7) + 6
    [] grouping = "month" -> NextMonth(d) - 1

\* The period after the one that begins with d.
Following(d) ==
  CASE grouping = "day" -> d + 1
    [] grouping = "week" -> d + 7
    [] grouping = "month" -> NextMonth(d)

\* The day the window ends with: nextDate.
Until == IF current + step - 1 > range.last THEN range.last ELSE current + step - 1

\* Faulty variant: the period after the range, too.
WantedPastEnd(first, last) == {d \in StartOf(first)..last + 1 : StartOf(d) = d}

\* getDatesWithinRequestTimeFrame
Wanted(first, last) == {d \in StartOf(first)..last : StartOf(d) = d}

-----------------------------------------------------------------------------
SeedInit ==
  /\ grouping \in Groupings
  /\ mode \in Modes
  /\ today \in FirstDays
  /\ store = Absent
  /\ pc = "idle"
  /\ range = [first |-> 1, last |-> 1]
  /\ step = 1
  /\ current = 1
  /\ kept = <<>> /\ missing = {} /\ fetched = <<>>
  /\ sessions = 0

\* The day passes, whatever the script is doing.
Midnight ==
  /\ today < NDays
  /\ today' = today + 1
  /\ UNCHANGED <<given, store, pc, entered, progress, sessions>>

\* The prompts, and the validation of the request: the end is not in the future.
Prompt(r, days) ==
  /\ pc \in {"idle", "done", "failed"}
  /\ sessions < MaxSessions
  /\ sessions' = sessions + 1
  /\ r.first <= r.last /\ r.last <= today
  /\ range' = r
  /\ step' = days
  /\ current' = r.first
  /\ kept' = <<>> /\ missing' = {} /\ fetched' = <<>>
  /\ pc' = "load"
  /\ UNCHANGED <<given, today, store>>

StartSingle == \E r \in Ranges : Prompt(r, r.last + 1 - r.first)

StartSplit == \E r \in Ranges, days \in Windows : Prompt(r, days)

(***************************************************************************)
(* getMissingDates of the managers                                         *)
(***************************************************************************)
PeriodsOf(estimates) == {e.period : e \in Elements(estimates)}

\* filterEstimatesForRequest
InWindow(estimates) ==
  Select(estimates, {e \in Elements(estimates) : e.period \in current..Until})

LoadFile ==
  /\ mode = "LOCAL"
  /\ pc = "load"
  /\ store.state # "torn"
  /\ store' = Sound(store.lines)        \* a missing file is created
  /\ kept' = InWindow(store.lines)
  /\ missing' = Wanted(current, Until) \ PeriodsOf(kept')
  /\ pc' = "fetch"
  /\ UNCHANGED <<given, today, entered, current, fetched, sessions>>

LoadTornFile ==
  /\ mode = "LOCAL"
  /\ pc = "load"
  /\ store.state = "torn"
  /\ pc' = "failed"
  /\ UNCHANGED <<given, today, store, entered, progress, sessions>>

\* The dates of all documents; the answers of the manager are not looked at.
LoadDates ==
  /\ mode = "MONGODB"
  /\ pc = "load"
  /\ kept' = <<>>
  /\ missing' = Wanted(current, Until) \ PeriodsOf(store.lines)
  /\ pc' = "fetch"
  /\ UNCHANGED <<given, today, store, entered, current, fetched, sessions>>

(***************************************************************************)
(* getMissingDataRequests                                                  *)
(***************************************************************************)

\* Faulty variant: a request for each of the dates.
EachDate(p, q) == p = q

\* The missing periods p to q follow each other, and no other one joins them.
Group(p, q) ==
  /\ p <= q
  /\ \A d \in missing : d \in p..q - 1 => Following(d) \in missing
  /\ \A d \in missing : Following(d) # p
  /\ Following(q) \notin missing

Requests ==
  LET groups == {pair \in missing \X missing : Group(pair[1], pair[2])}
  IN  {[from |-> g[1], to |-> EndOf(g[2])] : g \in groups}

(***************************************************************************)
(* getCostAndEstimates of the providers for each request: a result for each *)
(* period with usage, which begins on the first day of the period.  Every   *)
(* day has usage.                                                          *)
(***************************************************************************)
Reported(r) == {d \in r.from..r.to : d <= today}

Estimate(r, p) ==
  [period |-> p, on |-> today,
   days |-> {d \in Reported(r) : StartOf(d) = p /\ d < today}]

\* The results of a request, by their first days.
Results(r) ==
  LET first == {StartOf(d) : d \in Reported(r)}
      sorted == Select([d \in 1..today |-> d], first)
  IN  [i \in DOMAIN sorted |-> Estimate(r, sorted[i])]

\* All answers.  The requests are for ranges that follow each other, so that
\* sorting the estimates by their timestamps leaves them as they are.
Estimates ==
  LET requests == Requests
  IN  FlattenSeq(
        [d \in 1..today |->
           IF \E r \in requests : r.from = d
           THEN Results(CHOOSE r \in requests : r.from = d) ELSE <<>>])

NothingMissing ==
  /\ pc = "fetch"
  /\ missing = {}
  /\ fetched' = <<>>
  /\ pc' = "slide"
  /\ UNCHANGED <<given, today, store, entered, current, kept, missing, sessions>>

Fetch ==
  /\ pc = "fetch"
  /\ missing # {}
  /\ fetched' = Estimates
  /\ pc' = "write"
  /\ UNCHANGED <<given, today, store, entered, current, kept, missing, sessions>>

FetchFails ==
  /\ pc = "fetch"
  /\ missing # {}
  /\ pc' = "failed"
  /\ UNCHANGED <<given, today, store, entered, progress, sessions>>

(***************************************************************************)
(* setEstimates of the managers                                            *)
(***************************************************************************)
WriteFile ==
  /\ mode = "LOCAL"
  /\ pc = "write"
  /\ store' \in Overwritten(kept \o fetched, store.lines)
  /\ pc' = "slide"
  /\ UNCHANGED <<given, today, entered, progress, sessions>>

InsertDocuments ==
  /\ mode = "MONGODB"
  /\ pc = "write"
  /\ store' = Sound(store.lines \o fetched)
  /\ pc' = "slide"
  /\ UNCHANGED <<given, today, entered, progress, sessions>>

\* Faulty variant: the day after the window is left out.
SlideTooFar ==
  /\ pc = "slide"
  /\ current' = current + step + 1
  /\ pc' = IF current' <= range.last THEN "load" ELSE "done"
  /\ UNCHANGED <<given, today, store, entered, kept, missing, fetched, sessions>>

\* The window slides until it is past the end.
Slide ==
  /\ pc = "slide"
  /\ current' = current + step
  /\ pc' = IF current' <= range.last THEN "load" ELSE "done"
  /\ UNCHANGED <<given, today, store, entered, kept, missing, fetched, sessions>>

SeedNext ==
  \/ Midnight
  \/ StartSingle \/ StartSplit
  \/ LoadFile \/ LoadTornFile \/ LoadDates
  \/ NothingMissing \/ Fetch \/ FetchFails
  \/ WriteFile \/ InsertDocuments
  \/ Slide

SeedSpec == SeedInit /\ [][SeedNext]_seedVars
-----------------------------------------------------------------------------
(***************************************************************************)
(* Properties.                                                             *)
(***************************************************************************)
Estimated == [period : Days, on : Days, days : SUBSET Days]

SeedTypeOK ==
  /\ grouping \in Groupings /\ mode \in Modes
  /\ today \in Days
  /\ store.state \in {"absent", "sound", "torn"}
  /\ store.lines \in Seq(Estimated)
  /\ pc \in {"idle", "load", "fetch", "write", "slide", "done", "failed"}
  /\ range \in [first : Days, last : Days]
  /\ step \in Nat /\ current \in Nat
  /\ kept \in Seq(Estimated) /\ fetched \in Seq(Estimated)
  /\ missing \subseteq Days
  /\ sessions \in 0..MaxSessions

InPeriod(p) == {d \in p..Following(p) - 1 : TRUE}
Sunday(p) == p + 6

\* The request for a group of weeks ends on the Saturday of the last one.
IsLost(d, p) ==
  grouping = "week" /\ d = Sunday(p) /\ Following(p) \notin missing

\* What is fetched has each missing period once, and counts each day of it that
\* is over, also those before and after the range.  A Sunday is left out if the
\* week after it is not missing.
FetchedIsWhole ==
  pc = "write" =>
    /\ PeriodsOf(fetched) = missing
    /\ \A i, j \in DOMAIN fetched : fetched[i].period = fetched[j].period => i = j
    /\ \A e \in Elements(fetched) :
         e.days = {d \in InPeriod(e.period) : d < e.on /\ ~IsLost(d, e.period)}

\* Whatever a cached estimate went through since, it has the days of its period
\* until the day it was made, Sundays excepted: a period that was not over then
\* stays as it is.
StoredIsWhole ==
  \A e \in Elements(store.lines) :
    LET over == {d \in InPeriod(e.period) : d < e.on}
    IN  /\ e.days \subseteq over
        /\ over \ e.days \subseteq (IF grouping = "week" THEN {Sunday(e.period)} ELSE {})

EstimatesAreWhole == FetchedIsWhole /\ StoredIsWhole

Times(p) == Cardinality({i \in DOMAIN store.lines : store.lines[i].period = p})

\* The periods of the last window, which is the whole range of a single request.
LastWindow == Wanted(current - step, range.last)

\* When the script says it is done, a collection has every period of the range,
\* and whatever windows it was filled by it has none twice.  A file has the last
\* window, unless what is left of an older content tears it.
SeededIsCached ==
  /\ pc = "done" =>
       IF mode = "MONGODB"
       THEN Wanted(range.first, range.last) \subseteq PeriodsOf(store.lines)
       ELSE store.state = "torn" \/ LastWindow \subseteq PeriodsOf(store.lines)
  /\ mode = "MONGODB" => \A p \in PeriodsOf(store.lines) : Times(p) = 1
=============================================================================
