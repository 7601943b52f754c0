# Specifications of Cloud Carbon Footprint

Cloud Carbon Footprint estimates the energy and the emissions of what an
organisation uses of AWS, Google Cloud and Azure. This directory holds TLA+
specifications of the parts of it in which steps overlap, fail, are repeated or
depend on what an earlier step left behind, configurations that model-check them
with TLC, and proofs checked by TLAPS. Paths below are relative to
`src/packages/`.

    tlc -config FileCache_any.cfg MCFileCache      # one run
    tlapm ReportProofs.tla                         # the proofs of a module

`PROJECT.json` lists the runs, which lines of the source every definition stands
for, the faulty variants each property was tried against, the hazards, and the
theorems.

## 1. Inventory

| component | state it keeps | operations | talks to |
|---|---|---|---|
| Row transform stream, `report-processing/src/services/stream-transform/index.ts` | counters of started, running and finished rows, the last answer of `push`, the write callback kept for later | `_transform`, `__done`, `_flush` | CSV parser and destination, by node streams |
| Report accumulation, `report-processing.ts`, `app/src/App.ts`, `core/src/FootprintEstimate.ts`, `azure/src/lib/ConsumptionManagement.ts` | the process-wide sums of energy by service and unit | `getAccumulateData`, `enrichReport`, `getCostAndEstimateSingleRow`, `accumulateKnownRowData`, get/set of the sums | provider services, in one process |
| Report queue worker, `pulling.ts`, `report-processing.ts` | none but the process | `run`, `processMessage` | queue, source and destination storage |
| Cache decorator, `app/src/Cache.ts` with `LocalCacheManager`, `GoogleCloudCacheManager` | one file or object; two fields of the one cache manager | `getMissingDates`, `getEstimates`, `setEstimates` | `App.getCostAndEstimates`, the file system, a bucket |
| MongoDB cache manager, `app/src/MongoDbCacheManager.ts` | one collection for each grouping | the same, paged | MongoDB |
| Footprint hook of the client, `client/src/utils/hooks/FootprintServiceHook.ts` | the results put together so far, the page number | the loop that reads pages | API server, by HTTP |
| Seeding script, `cli/src/SeedCacheFile`, and the calendar of `app/src/Cache.ts` | first day of the window | one request, or one for each window of days; missing periods, requests for groups of them | `App`, the cache |
| App, `app/src/App.ts` | none | estimates and recommendations of each configured provider in turn | the providers' accounts |
| Request validation, `app/src/CreateValidRequest.ts` | none | checks of dates, grouping, limit, skip | API server, scripts |
| API server, `api/src` | none but its process | routes | `App`, MongoDB connection |
| Azure accounts, `azure/src` | none | subscriptions by chunks, usage by chunks of days, pages, retries after a rate limit | Azure management API |
| Usage rows, `getEstimates` of `CostAndUsageReports`, `BillingExportTable`, `ConsumptionManagement`; `UnknownEstimator` | the process-wide sums again, unknown rows put aside, results | a row is dropped, put aside, estimated or throws; unknown rows at the end | estimators, accumulation |
| AWS accounts, `aws/src` | none | Athena query and its polling, CloudWatch queries with a limit on how many run, pagination | AWS API |
| Google Cloud accounts, `gcp/src` | the totals of recommendations, for a request | BigQuery query; projects, zones, recommenders with a quota retry, details | Google API |
| Estimators, `core/src` | none (their sums belong to report accumulation) | energy from usage | nobody |
| Configuration and logging, `common/src` | environment, read once | `configLoader` | everybody |
| Filter bars of the client, `client/src/common/FilterBar`, `pages/*/…Filters` | selected options of each dropdown, month filter, range of dates | a click on an option rebuilds all dropdowns of the page; rows are filtered | the hook's rows, views |
| Command line, `cli/src`; views of the client, `client/src` | none that outlives a drawing | tables, charts, maps, CSV | `App`; the filters |
| On-premise estimates, `on-premise/src` | none | sum over the rows of a file | `App` |
| Templates, `create-app`; integration tests, `microsite`, `helm`, `terraform`, `cloudformation` | - | - | - |

Where behaviour is hard:

* *Callbacks and back-pressure* (row transform stream). The write callback of a
  row is given back before its handler is done, so that several run at once; the
  counters decide when the next row is asked for, when the end is announced, and
  whether the pipeline hangs. Correct: no more than `parallel` handlers, bounded
  memory however slow the destination is, each row once, the end after the last
  row, and always an end or an error.
* *A process-wide accumulator with references to it* (report accumulation).
  Rows of unknown usage are estimated from the sums of all known rows, and
  estimating a known row adds to these sums again. Correct: every unknown row
  rests on every known row of every file, once.
* *Redelivery, several workers, crashes in the middle* (queue worker). Correct:
  success means everything was uploaded; after any failure the destination has
  an initial part of the files; two reports never mix.
* *Shared fields across awaits, a file that several requests write, kills while
  it is written* (file cache). Correct: answers contain the usage of the range,
  each estimate once; the file stays loadable and without duplicates.
* *Inserts that others see half done, pages counted in an order that inserts
  change, a client that decides from two equal results that it is done* (MongoDB
  cache and hook). Correct: pages fit together, nothing is sent or inserted twice,
  nothing is missed, the loop ends.
* *Rate limits, retries and fan-out over one accumulator* (Azure consumption).
  Subscriptions are queried in groups, each window by window and page by page; a
  rate limit starts a window over. Correct: windows meet exactly, no row is read
  twice, waits end, and the sums that other subscriptions rest on hold complete
  subscriptions only.
* *A long switch over rows that feeds sums which outlive the request* (usage rows).
  Lists overlap, tables of machines have holes, sums are entered in four ways, and
  NaN stays in a sum for ever. Correct: each row is estimated once or left out for a
  reason, a ratio relates the energy and the cost of the same rows, unknown rows do
  not depend on the order of the answer, and what the tables lack makes no number
  unusable.
* *One pair of totals under projects that run at once, with waits and failures at
  every level* (Google Cloud recommendations). Correct: a wait for the quota loses no
  recommender, a failure takes nothing else with it, the totals hold each counted
  recommendation once, and what is estimated from them rests on its own project.
* *Polling, windows and a limit on what runs* (AWS). One query is polled until its
  state is final; ranges are cut into windows by calendar arithmetic on mutable
  dates; before a log query starts, the running ones are counted, with an answer
  that may be old when it is used. Correct: windows meet and cover the range, the
  limit is passed only as far as windows see the same free place, an answer rests
  on all windows and pages, polls end.
* *Whole periods out of ranges, and ranges out of windows* (calendar, seeding). A
  request's range becomes periods, those the cache lacks become requests, and the
  script does that window by window. Correct: a cached estimate has all days of its
  period whatever ranges it was asked by, and seeding leaves the range in the cache.
* *Long sequences of clicks* (filter bars). Each click recomputes the selections of
  all dropdowns from the one that was clicked and decides what "all" means from the
  lengths of lists; options are matched by name, once with and once without their
  provider. Correct: dropdowns agree after any sequence of clicks, a click leaves
  other providers alone, and what is shown is what is selected.

## 2. Modules

| module | what it is |
|---|---|
| `RowStream` | what a row transformer promises: rows delivered once, in order if handlers are synchronous, closed only when complete, or failed |
| `StreamTransform`, `MCStreamTransform` | the transformer with node's buffering around it |
| `ReportAccumulation` | the two passes over the files of a message and the objects the accumulator's references mean |
| `ReportQueue` | messages, workers, uploads |
| `ReportProofs` | theorems about these three |
| `Selection` | the elements of a list and those of them in a set; extended by `CacheFile` and `MongoCache` |
| `CacheFile` | the JSON file that is written over its old content; extended by `FileCache` and `SeedCache` |
| `FileCache`, `MCFileCache` | the cache decorator with the local file and with the bucket |
| `FileCacheProofs` | theorems about it |
| `SeedCache`, `MCSeedCache` | from ranges of dates to requests, and the script that fills the cache by windows |
| `MongoCache` | one request for a page below the cache decorator |
| `PagedEstimates`, `MCPagedEstimates` | the client's loop and the seeding script over `MongoCache`, which it extends |
| `PagedEstimatesProofs` | theorems about the collection and the views |
| `AzureConsumption`, `MCAzureConsumption` | requests that query Azure subscriptions, and the accumulator they share |
| `UsageRows`, `MCUsageRows` | what becomes of the rows of usage of each provider, and the sums they leave |
| `ConsumptionProofs` | theorems about both |
| `GcpRecommendations`, `MCGcpRecommendations` | a request for the recommendations of Google Cloud |
| `GcpRecommendationsProofs` | theorems about it |
| `AwsQueries`, `MCAwsQueries` | the queries of an AWS account: Athena, CloudWatch metrics, log queries |
| `AwsQueriesProofs` | theorems about it |
| `DashboardFilters`, `MCDashboardFilters` | the filter bars of the client |
| `SeedAndFiltersProofs` | theorems about these and about `SeedCache` |
| `CollectionProofs` | lemmas on induction, selections and sums that several of the proofs rest on |

### RowStream, StreamTransform

The transformer's state record is `running`, `started`, `finished` and
`backPressure`; `inflight` are the rows whose handler has not called back,
`late` the row whose write callback `_transform` kept because the limit was
reached or the last `push` answered false. `Transform` is `_transform`, `Done(r)`
and `DoneError(r)` are `__done`, `Flush` is `_flush`. What node's `Transform`
does around them is modelled from how this file uses it: `Write` and
`EndOfInput` are the parser, which writes while the writable buffer is below
`HWM`; `Take` and `EndOfOutput` the destination; `parked` is a write callback
that node itself holds until the next read because the chunk filled the readable
buffer (`Park`), `ReadMore` that read; `PeerFails` is `pipeline()` destroying the
stream because of another stage. `sync` says which kind of handler the stream was
given and never changes: with a synchronous one no other step happens between the
start of a handler and its callback (`Settled`), which is how the handlers of
`report-processing` behave. A chunk is the number of its row; a row whose handler
yields nothing is not in `Emits`.

`RowStream` is the abstract specification. `StreamTransform` implements it with
the chunks taken so far as what is delivered and the consumer's `end` event as
closing.

### ReportAccumulation

`content` is what every file holds: rows that are known, unknown, unsupported,
without an estimate, or malformed. The question is which object a reference
means, so the heap is part of the state: `live` is the object that the provider's
constants refer to, `accData` the one `processMessage` remembers, and
`heap` has two cells, the remembered object and the newest parsed copy; older
copies are not reachable. An object is how often each row was counted in it;
the sums are a function of that. `AccumulateRow`, `AccumulateNextFile` and
`AccumulationDone` are the first loop of `processMessage`; `OpenFile`,
`EnrichRow` and `CloseFile` the second. `EnrichRow` is the whole of
`App.getCostAndEstimateSingleRow`: dump the sums as text, estimate the row in
the live object, install the parsed dump. `RowThrows` and `StreamFails` end the
message with an error.

### ReportQueue

`Receive` is the first half of `run` for a message, with the early returns of
`processMessage`; `AccumulateFile`, `StartFile`, `Enrich`, `Commit`, `UploadDone`
are its loops for one file. Where errors go matters: those that reach the
`catch` of `processMessage` are returned and ignored (`Return`), those that do
not end the process (`Crash`): the queue's own, a body that is not JSON, and an
upload that rejects before it is awaited. A worker that finished is `"idle"`: it
keeps its health check open and does not ask again. The queue hands a message
out at most `MaxDeliveries` times, hides it, and shows it again at any moment
(`Reappear`): the visibility timeout knows nothing of the worker. Nothing
deletes messages, since that call is commented out. `blob` is the delivery whose
upload of a file was committed last.

### FileCache

An estimate is the number of its period; `usage` is what providers report, fixed
for a behaviour. The decorator is `Ask`, the load actions, `Fetch...`, the write
and `Respond`; in between other requests run. `cached` and `fetched` are the
fields `cachedEstimates` and `fetchedEstimates` of the one manager, `missing`
and `output` are local to a request. Which of both managers is in use is the
variable `mode`.

The local manager opens the file with `r+` and writes from its start without
truncating. `Overwritten` is the set of what may then be in the file. Which one
it is depends on lengths of texts, which are abstracted: content that begins with
the old estimates is certainly longer and replaces them; fewer of the same
estimates are certainly shorter; otherwise the end of the new text may meet the
end of the old one, a line boundary, or the middle of a line (`Torn`).
`LoadTornFile` is `JSON.parse` throwing in a listener of the read stream, which
ends the process. The bucket manager replaces the object as a whole, but does
not wait for the upload (`StartUpload`, `UploadEnds`), and a load that fails counts
as an empty object.

`alone`, `fresh` and `orderly` are history variables for the properties: whether any
request overlapped a client's, whether the process had fetched anything before, and
whether requests have come one at a time so far and all begun with the first
period. The file stays sound and free of duplicates only while they have: that is
what the conditions of the two parts of `CacheStaysSound` say.

### SeedCache

`FileCache` numbers periods; here they have days. `StartOf`, `EndOf` and `Following`
are moment's units as `Cache.ts` uses them, `Wanted` is
`getDatesWithinRequestTimeFrame`, `Requests` the loop of `getMissingDataRequests`
that puts missing dates together, `Results` what a provider returns for a range:
one estimate for each period with a day in it, of the days in it. An estimate is
these days and the day on which it was made. `StartSingle` and `StartSplit` are the
two methods of the script, `Slide` its loop over windows, and in between are
`getMissingDates`, the fetch and `setEstimates` of the file and of MongoDB. A
behaviour begins on day 14 of 15, so that the range may reach today, which is not
over, and midnight may pass anywhere (`Midnight`). Every day is taken to have usage.
The script awaits each window, so that there is one request at a time; overlapping
ones are in `FileCache` and `PagedEstimates`.

### MongoCache, PagedEstimates

A document is a pair of a period and a provider, `docs` the collection in natural
order. `GetMissingDates` to `ReadPage` are the manager's methods under the
decorator; `InsertDocument` inserts one document, which others may read at once.
Errors of the database are logged and the request goes on (`MissingDatesFail`,
`InsertFails`, `ReadFails`), except for a failed fetch and for the rejection of
`createCollection`, which nobody awaits (`CreateExistingCollection`).
`EmptyAggregate` is the race of the count and the aggregation that
`getMissingDates` sends together. `PageOf` takes `$skip` and `$limit` before the
sort, as the pipeline does. `Select`, of the module `Selection`, which the files'
caches filter by, too, is a recursive function, of which more can be proved than of the
library's.

`NextPage` and `LastPage` are the hook's loop: put the page's results to those
read before (`Concatenate`), go on unless the page is empty or its last estimate
equals the last one before (`LoopExit`). Estimates carry no timestamp; `steady`
says whether a provider's estimates are equal in all periods, which makes that
comparison true. `disturbed` is a history variable: it collects what a request
cannot know of (a failure, the race, an overlap, the seeding of one provider, its name
in small letters), and
properties of undisturbed requests refer to it.

### AzureConsumption

`ListSubscriptions` and `ListFails` are `getSubscriptions`, `StartGroup` and
`Answer` the loop of `getDataFromConsumptionManagement` over the groups: each waits
for all of the group before, none of which rejects, since
`createSubscriptionRequests` catches every error (`Fail`). A subscription is a `job`:
`from` is the day its window begins with, `try` the attempt, `page` and `unread` the
rows that attempt has read and not yet read. `ReadRow` is the paging loop,
`EndOfPages` its end, which goes on with the next window (`HasNext`) or, after the
last, runs `getEstimates` without an `await` in between: known rows are counted in
`counted`, the accumulator, then unknown rows rest on it (`basis`). `RateLimited` and
`WaitOver` are the wait and the recursion with one attempt more.

A day is three numbers long, since three of its moments are compared: its first
millisecond, the end of a day's usage, and the millisecond before midnight, where
all windows but the last end. That usage ends at 23:59:59 and that the service
compares exactly are assumptions about the service (`UsageEnd` is external).
`getEstimates` filters rows by date once more with the bounds of the queries, which
changes nothing and is left out. Requests begin with day 0. Unsupported rows, and
rows whose estimate is empty, are left out, and which unknown rows are estimated is
`Estimated`. Rows are taken to be estimated without an error here: `UsageRows` has
those whose estimation throws, and then the accumulator keeps a part of a
subscription. `WholeSubscriptions` is about failures of queries.

### UsageRows

A row has what the code looks at: a service, a usage unit by kind, the lists its
usage type and service are found in, what the tables of machines and disks say of
it, and a cost (AWS) or usage (Google Cloud, Azure) as its `base`. `FateOf` is
`getFootprintEstimateFromUsageRow` and says what happens to a row; `AwsEstimate`,
`GcpEstimate` and `AzureEstimate` are the three switches over the unit, and which of
their branches call `accumulateKilowattHours`. Energies are weights that tell the
parts of an estimate apart in a sum, with NaN as JavaScript has it. `total` and
`byService` are the two halves of `KILOWATT_HOURS_BY_SERVICE_AND_USAGE_UNIT`;
`EstimateUnknownUsage` is `UnknownEstimator`, whose quotients are kept as pairs so
that they can be compared exactly. `EstimateRow` is one row of the map in
`getEstimates`, `EstimateUnknown` one of the second, `RowThrows` the pattern of a
disk's name that does not match. The lookup table (`getEstimatesFromInputData`) walks
its rows in the same way and is not modelled apart. Results are the places of rows by
service, which is as far as `appendOrAccumulateEstimatesByDay` matters here.

Read in this code, and in the model only as far as the weights go: machines of
`INSTANCE_FAMILY_TO_INSTANCE_TYPE_MAPPING` have their memory (index 1) read as
manufacture, which the comment at `AWSInstanceTypes.ts:865` puts third; the vCPU-hours
of Redshift without a vCPU column are divided by 3600 a second time
(`CostAndUsageReportsRow.ts:115`); the estimate of a managed disk of Azure does not
depend on its usage amount (`ConsumptionManagement.ts:834`); a unit of Azure that only
contains a known one has an estimate of zero.

### GcpRecommendations

`SearchProjects`, `AskChunk`, `ZonesAnswer` and `StartRecommending` are
`getActiveProjectsAndZones` (`project`; the three lists a project's zones come from
are one step, which may fail), `Projects` the active ones. From then on every zone is
a loop over recommenders (`lister`, `Lists`, `RecommenderFails`), in which
`QuotaExceeded` and `WaitOver` ask for the same one again. When all zones of a project
are through, its recommendations run at once: `DetailCall` is an answered or a failed
call for the instance, the machine types, disks, image or address, `Savings` what
`getEstimatedCO2eSavings` returns after as many answers, `Accumulate` the rest of the
callback, which runs without an `await`, and `Throws` what is outside of its `try`.
`EstimateUnknowns` is the end of a project. A request that was refused goes on
working, as rejected promises do.

The totals are a field of one `Recommendations` object that all projects share, so
`EstimateUnknowns` divides what they hold when its project happens to be complete.
The run shows that this contains the project's own recommendations and any selection
of those of other projects: two requests for the same account may be answered
differently. A change of machine type may have negative energy, and so may then an
address. Energies and costs are weights; regions, names and identifiers are left out.

### AwsQueries

`setup` says which source is configured. With billing data, `StartAthena`,
`PollFails`, `PollFailed`, `PollSucceeded` and `ReadPage` are the query, its polling
and `getQueryResultSetRows`; `FinishAthena` is the service. Polling a query that is
`CANCELLED` is a step that changes nothing, as in the code, whose comparison with
`('FAILED' || 'CANCELLED')` is one with `'FAILED'`. Otherwise `NextRegion` takes the
regions in turn and starts both services. `SplitWindow` and `SplitLast` are
`getQueryByInterval`, one turn of the loop at a time. A date is the number of its day,
and the calendar says of each day the first of its month (`FirstOfMonth`), from which
`setDate` counts on as JavaScript's does; nothing else happens while it runs (`Free`), since it does not await.
`ReadMetrics` is an answer to EC2's calls. Lambda is `GroupNames`, then for each group
a query for every window at once: `CountRunning` and `StartQuery` with the question
between them, then `CollectFirst`, `CollectNext` and `GetResult`, one window after the
other. A query is `Scheduled` before it is `Running`, and the code counts running ones
only (`uncounted` remembers that one was missed). `others` are log queries of the same
account that this process did not start, `ServiceLimit` the service's own limit, beyond
which a start is refused.

### DashboardFilters

`selected` is the options chosen in each dropdown of the open page, with the option
`All` among them or not. `Toggle` is a click: Material UI's autocomplete adds the option
or takes away one with the same key, then `Choose` is `handleSelection` of
`OptionChooser` with its subclasses for each page. `Others` is what they make of the
other dropdowns: `Carried` for those that compare providers, `ServicesOf` and
`ProvidersOfServices` where the page of emissions finds services by name. `Shown` is
`filter` of both pages; the page of recommendations filters its estimates too, by
account and region. `ShownIsSelected` says what that comes to without the code's
shortcuts (the option for all, the timeframe of -1): `Ticked` for each field of a row,
`Asked` for its time. The timeframe of -1 is how the code says that a range of dates
is in force. Rows are loaded once, before a page opens (`App.tsx`); options, and
what is selected, are sets, since the order of a list decides only which of several
options of one name goes, and the model lets any of them go. Providers of rows are
taken to be configured in the client.

## 3. Runs

| run | instance | distinct states | shows |
|---|---|---|---|
| `stream` | 6 rows, one without output, 3 at a time, marks of 2, both kinds of handler | 26 thousand | handlers that call back at once, or in any order, and errors: limits, memory, nothing after the end, every pipeline ends, `RowStream` implemented |
| `report` | 2 files of up to 3 rows of 5 kinds, every report | 283 thousand | what unknown rows rest on, and the exact extent to which rows are counted twice |
| `queue` | 2 workers, 2 messages of up to 2 files, 2 deliveries | 814 thousand | what is in the destination when; workers get to an end |
| `cache_any` | 2 clients, 2 periods, every range, 3 requests, 1 kill, both managers | 5.4 million | a request that overlaps no other misses nothing, whatever survived in the file; the file stays sound and without duplicates, and the first answers are exact, while requests come one at a time from the same date |
| `cache_twice` | 1 client, 2 requests | violation | estimates once fetched are added to every later answer |
| `views` | 2 clients, 2 periods, 2 providers, pages of 2, 1 failure, 2 views or seedings | 883 thousand | nothing in the collection twice, nothing sent twice, nothing missed by a view alone, views end |
| `azure` | 2 requests, one of which meets limits and errors, 2 subscriptions with 2 rows each, 3 days, windows of 2 or 3 days or none, groups of 1 or all, 1 retry | 225 thousand | each row once whatever is retried, group sizes, an accumulator of complete subscriptions, every request answered |
| `rows` | 42 kinds of rows, 2 services, requests of up to 2 rows, 2 requests of a process | 656 thousand | what becomes of a row, what the sums relate, what unknown rows rest on, when an estimate is not a number |
| `gcp_recs` | 2 projects in chunks of 1, 3 zones, 2 recommenders, 5 sets of up to 4 recommendations, 2 refusals | 185 thousand | what totals and unknown recommendations hold, nothing lost, chunks, refused for flaws only, the request ends |
| `seed` | 15 days in 3 months, days, weeks and months, both caches, 2 runs of the script, windows of 3 and 7 days | 3.0 million | cached estimates have their whole periods whatever they were asked by; what a finished seeding leaves in either cache |
| `aws` | January to April, ranges from the 1st, 2nd and 31st, 2 regions, 2 groups or 2 requests at once, 3 windows told apart, 1 query of others, 2 pages | 279 thousand | windows meet, by how much the limit is passed, answers rest on everything, requests end but for two named loops |
| `filters` | 3 providers, 4 sets of rows with shared, null and empty names, both pages, every click | 13 thousand | dropdowns agree, shown is selected, a click is local |

A property of a run is a conjunction where the parts say one thing together:
`WithinLimits` is the limit of handlers, the bound of memory and the silence after the
end; `EstimatesAreSound` of `report` what unknown rows rest on and the drift;
`DestinationIsSound` that an upload which counts is complete and results are a
beginning of the files; `AnswersAreRight` and `CacheStaysSound` what a file cache
answers and keeps; `ViewIsComplete` what the client is sent of MongoDB's collection and shows; `AccumulatorIsSound` what Azure's subscriptions share; `SumsServeAll` and
`AnswerIsWhole` of `rows` the sums and the fate of rows; `AnswerIsSound` of `gcp_recs`
its totals, failures and chunks.

Why these bounds. The transformer's decisions compare `running` with `parallel`
and the buffer with the mark; three handlers over marks of two let every
comparison go both ways while other handlers run, and six rows are more than both
buffers and the handlers hold together. Accumulation counts rows twice only
through the first row of an earlier file: two files and three rows have a first,
a middle and a last row before and after. Two workers and two deliveries let a
message be in two hands and return after a success or a failure; two files give a
partial upload. For the cache, two overlapping requests are all the shared fields
can tell apart, and three requests allow a write, an overwrite with less and a
load of what remains. In `views` pages of two documents are full, half full and empty, so that documents
inserted meanwhile come onto a page or between two.
For Azure, windows of 2 days divide
3 days with a rest, windows of 3 days without, which is when one more window begins
at the end; of the rows two lie in one day, one in a later window, and one over the
boundary of two windows; two requests and two subscriptions are enough for one to
count while another is half read.
For usage rows, two rows in every order are a known and an unknown one, the first
and the second of a unit or a service, one before another that throws; the second
request is what tells sums that outlive the first. The kinds of rows are one for each
branch of each provider, with lists that overlap where the order of tests decides.
For seeding, two runs of the script are one that fills the cache and one that meets it
filled, in part, by another range or window; ranges begin and end on first and last
days of weeks and months and within them, windows are shorter than a week or as long.
For AWS, the range from January 31 steps through a shorter month, and the one from
January 1 arrives at a 31st, which is where the loop stops advancing; two windows at
once over a limit of one are what can pass it; the third place is the service's.
For filters, the sets of rows have a provider without recommendations, one without
rows, names that two providers share, and nothing at all; options are few, so the
states are all combinations of selections that clicks reach.
For recommendations, two projects are one that estimates its addresses and one that
adds to the totals before, between or after; the sets of recommendations put known
ones beside an address, in the other project only, or nowhere, and have each of the
two flaws. Two refusals let a zone wait twice or two zones wait at once.

Deadlock is checked for `queue` and `filters`, the systems here that never stop;
elsewhere requests are bounded or rows are finite.

Symmetry is used in `cache_any` only, whose properties are invariants.

### Fairness

* `StreamTransform`: weak fairness of every step but failures. Node runs each
  callback that is due; a file is finite; handlers return (both are synchronous
  functions); the destination is assumed to keep reading. Which row calls back is
  fair for each row since handlers do not wait for each other.
* `ReportQueue`: weak fairness of a worker's own steps as a whole, of the restart
  by the container platform, of sending and of the visibility timeout. Which
  outcome a step has is not fair: a worker may fail each time.
* `PagedEstimates`: weak fairness of the server's own steps and of the loop: the
  database and the providers answer, the browser goes on. Failures are not fair.
* `AzureConsumption`: weak fairness of listing, starting a group and answering for
  each request, and of a query's steps for each subscription: the service answers,
  timers fire, and callbacks of one subscription do not wait for those of another.
  Which outcome a query has is not fair: each attempt may be limited.
* `GcpRecommendations`: weak fairness of the request's steps, and for each project,
  zone and recommendation of its own: calls end, timers fire. Outcomes are not fair:
  every recommender and every detail may fail. That the quota is refused a bounded
  number of times (`MaxRefusals`) is an assumption about the service: the code asks
  without limit, and `AlwaysEnds` rests on it.
* `AwsQueries`: weak fairness of the loop that cuts windows, of each request's and each
  log query's own steps, of the services that run a query and of the queries of others:
  timers fire, answers arrive, what runs comes to an end. How it ends is not fair, and
  neither are failing calls (`NamesFail`, `PollFails`, `CountFails`) or a result that is
  late (`NoResult`).

`report`, `cache_any`, `rows`, `seed` and `filters` check no liveness: their steps are
one loop each that ends with its input, or wait for a user.

### Disagreements

One run, `cache_twice`, checks what a comment says and finds that the code does
something else: an answer from the file cache contains estimates fetched by earlier
requests. `findings` in `PROJECT.json` quotes both. The others were met while
modelling. Where a model has them, its properties carry them as a condition, which is
said at the property.

Caches and the client's loop:

* The fields of the one cache manager are shared by all requests
  (`LocalCacheManager.ts:55`): a request that loads while another fetches makes the
  other answer without what it had found, which is why `AnswersAreRight` speaks of
  requests that overlap no other.
* A request that ignores the cache is answered by the file cache without the periods
  the file has, though `Cache.test.ts:363` expects fetched estimates.
* A period that the end of a page splits loses its second page's part in the hook
  (`FootprintServiceHook.ts:126`, and its test at line 215).
* The hook advances by the whole limit after a page that was not full: what another
  request inserts before the next page is passed over for as many documents as the page
  lacked. `NothingAgain` therefore says of every view that nothing is sent twice, and
  `NothingMissed` that nothing is missing only of one that was alone.
* The script's prompt offers provider names in small letters (`seedCacheFile.ts:60`), and
  documents have capitals: entered as offered, the name matches none of them
  (`MongoDbCacheManager.ts:195`), every date is missing, and all estimates of the provider
  are inserted once more at each seeding. `EachEstimateOnce` excepts such names.
* A missing week is requested without its Sunday (`Cache.ts:153`): weeks begin as
  `isoWeek` and end as `week`. `EstimatesAreWhole` excepts exactly these Sundays.
* A period that was not over when it was fetched stays as it was.
* Seeding by windows into the file keeps of older content what the window selects, so
  that only the last window is certain to be there when the script prints that it is
  done (`seedCacheFile.ts:98`, 110). A negative number of days for each request never
  ends the loop.

Sums:

* `DriftOnlyFromFirstRows`: what `App.ts:302` calls a 'hack to prevent modify global
  data' does not do so for the first row of a file, which is added to the very object
  that the next file starts from and counted twice in it.
* An unknown row is never estimated from its own service, other than
  `ClassifyingUsageTypes.md:46` describes.
* Two requests for recommendations of one account may be answered differently, see
  `GcpRecommendations` above.

AWS:

* A cancelled Athena query is polled for ever (`CostAndUsageReports.ts:688`).
* The windows of EC2 do not advance once they arrive at a 31st in a range that begins
  on the first of a month (`ServiceWrapper.ts:80`); the loop does not await, and so
  stops the process. `WindowsMeet` and `RequestsEnd` name both cases.
* The count of running queries leaves out those that are `Scheduled`, and is old when
  the next query starts (`Lambda.ts:142`): `OvershootIsBounded` says how far the limit
  is passed.
* A log query that failed contributes nothing, and nobody is told: its status is not
  looked at. Log groups and the metrics of S3 are read from the first page only.
* Estimates from CloudWatch have the days' timestamps whatever the grouping.

Filters:

* On the page of recommendations a provider that has estimates but no recommendation
  loses all its selections when a type of recommendation is clicked; this is the
  condition in `ClickIsLocal`.
* Services of one name in two providers are taken for one another on the page of
  emissions, by clicks and by the filter, which compares names only (`Distinct`).
* A row whose name is empty (`accountName || ''`, `CostAndUsageReports.ts:167`), and a
  recommendation whose type is null, disappear once not everything is selected,
  though their option, "Unknown", stays ticked.
* Deleting the start of a complete range of dates shows nothing, since the timeframe
  stays -1.

## 4. Proofs

TLAPS checks, for every value of the constants that satisfies the modules'
assumptions:

*`ReportProofs`, the row stream*. The inductive invariant has three parts. `Counted`:
types, and `running` is the number of handlers that have not called back.
`FlowInv`: the buffers. `MemoryBound` is not inductive, since a state within the
bound may have a write callback given back early over a full buffer and leave it in
the next step. It becomes so by saying that back-pressure is off only while the
buffer is below the mark, that a held write callback takes a place in the writable
buffer, and how long the readable buffer was when the row that holds the callback
was written, which node compares with its later length. `RowInv`: rows pushed, in
flight and not yet started are disjoint and together all rows; with synchronous
handlers at most the newest row is in flight, so they stay in order. From the three
follow `StreamTypeCorrect`, `ParallelLimitHolds`, `MemoryBounded`, `NothingAfterEnd` and
`LimitsHold`, which is those three in one, and `ImplementsRowStream`: the transformer's
steps map to steps of `RowStream` or stutter.

*`ReportProofs`, accumulation*. The inductive invariant says, for the object that is
live and for the one that `accData` means, exactly how often each row is counted at
each point of both passes. `UnknownRestOnAllKnown`, `SameBasisWithinFile`,
`FirstFileCountsOnce` and `DriftOnlyFromFirstRows` are read off from it, and
`SoundEstimates`, the run's property, from these. `accData`
and `live` are the same object at exactly one row of each file, its first, and
that is why the drift is one for each earlier file's first row and no more.

*`ConsumptionProofs`, Azure's consumption*. The invariant `JobInv` says of each query what it has
read: windows begin at multiples of their length, what is collected is exactly the
rows due that end before the current window, and the page exactly the window's rows
that are not unread. `WindowIsNext` is the arithmetic: the rows of a window, with the
comparisons of the code, are those due that end before the next window and not
before this one, or all that remain if it is the last; it rests on `WindowOfRow`,
that a row which ends in a window lies within one window if and only if it begins in
this one. A retry leaves what was collected alone and empties the page, which is why
rows are not doubled. `BasisInv` relates the accumulator's past to one subscription:
it was at least what that subscription had. From these follow `TypeCorrect`,
`EveryRowOnce` and `UnknownRest`, for every window length, number of days, retries,
requests and subscriptions. `OnlyWholeSubscriptions` is inductive with this
invariant: only the end of a last window counts, once for a request, and what is
collected then has rows of its own subscription only. `GroupLimitHolds` needs
`GroupInv`: a query under way is of a group before which all groups are settled. Of
two queries under way none can then be of an earlier group, and a group is no larger
than configured because places in the list are an injection into `size` numbers
(`PlacesDiffer`, `GroupSize`). `SoundAccumulator` puts the accumulator's three
together. All of the run's invariants are thus proved.

*`ConsumptionProofs`, usage rows*. All three invariants of the run (`RowsTypeCorrect`,
`AnswersAreWhole`, `SumsServe`), for any set of rows whose units are those of their
provider (`RowsAssumption`), any services, and any number of rows and requests. The
difficulty is that the sums are folds of `Plus`, an addition with NaN, over sets that
grow: that `Plus` is a commutative monoid (`PlusLaws`) gives what a fold does when its
set gets one element more, or one of its values grows. A sum of one more element is
accumulated as the code accumulates it, whichever of the entries exists already
(`EntryAdds`, `EntryGrows`, `EntryChanges`). `SumsInv` states that totals are the sums
over services (`TotalsOf`) and those over the history of known rows (`RatiosOf`); the
only thing the switches of the providers contribute is what a known row adds
(`KnownFacts`). `AnswerInv` says of an answer how far it is: after n rows, a service's
estimates are those of its known rows among the first n, in their order, and the places
put aside the unknown ones among them (`AfterRows`); then, for each of those, one that
rests on the known rows of all requests (`AfterAside`). Since each place of a batch is in
this order once (`OrderIs`), a row has one estimate or none. `HistoryInv` is about a
second request: what the process has known is the known rows of the first batch, then
those read of the second. Two histories in a row have the entries of both
(`EntryJoined`), and twice the energy for twice the cost is the same ratio
(`RatioOfTwice`), from which `AgainIsSame` follows, although all the sums have doubled.

*`ReportProofs`, the queue*. `DestinationIsSound` is about workers that are done and about the
destination; it is inductive only together with what a worker in the middle has: the
files before the one it is at have been uploaded, and that one too once its upload is
committed (`UploadedSoFar`). Since nothing deletes an object, a second worker with the
same message, or a kill, cannot undo that. A busy worker has a message and is at one of
its files (`BusyHasFile`), and a worker that asks the queue is a new process
(`FreshAtStart`), which is why what it has counted is of its own message only
(`CountedIsOwn`, `OneReport`). For every number of workers, messages, files and
deliveries. The types of the two are `ReportTypeCorrect` and `QueueTypeCorrect`.

*`GcpRecommendationsProofs`*. `TypeCorrect`, and `FailuresAreLocal`, for every set of
projects, zones, recommenders and recommendations: `Stages` relates what the request,
a project, a zone and a recommendation are doing, `ListedSoFar` says that each zone has
listed the recommenders before the one it is at, but for those that failed,
`FatesAreListed` that a recommendation's fate is decided only after it was listed,
`RefusedForFlaw` why one was refused, and `OneChunk` that only projects of one chunk are
asked at once. `AnswersAreSound` adds what the totals hold (`BasisInv`): they are the sums
over what is counted now, and of each project that has ended there is a set of counted
recommendations, with all of its own in it, whose sums its unknown ones were estimated
from. The set of another moment is no longer the set of now, so that the invariant has to
say that there is one. The totals are sums over finite sets by the community modules' fold,
whose laws (`SumsExist`, `SumAdd`, `SumsAlike`) are in `CollectionProofs`, by induction on
the size of the set.

*`FileCacheProofs`*. All invariants of the run of the file cache: `TypesCorrect`,
`RightAnswers` and `SoundCache`, for any clients, ranges, managers and numbers of
requests, of periods and of kills. Two invariants beside the types. `AloneInv`: a request
that overlaps no other has all of its range in what it kept of the file together with what
it misses, then with what is fetched, then in its answer, whatever the file held, since
the two fields that requests share are its own while it is alone. `OrderInv`: while
requests come one at a time and all begin with the first period, the file is a beginning of
the calendar (`Upto`), and so is what a request writes, which is at least as long; then
`Overwritten` has one outcome only (`WriteUpto`), nothing of the old text survives
behind the new one, the file cannot be torn and no estimate is there twice. That is the
condition the two parts of `CacheStaysSound` carry (`orderly`).

*`PagedEstimatesProofs`*. All invariants of the run. `EachEstimateOnce`: a request that
alone looks for missing dates finds every document it would insert (`NothingTwice`), since
its dates are those with no document of its providers, and nobody else inserts before it is
done or has failed (`OneAtATime`). `ViewIsComplete` is about sequences. `CollectionProofs` has
what it rests on: induction over the numbers is the library's well-founded order of them
applied to a set (`Induction`); from it follow induction over sequences (`SequencesByAppend`), that the recursive function in
`Select` exists and is unique, and what it selects (`SelectType`, `SelectAppend`,
`SelectDistinct`), on which `GroupedOf` and `PageOfType` rest, and with them
`TypesCorrect`. Two inductive invariants carry the rest. `PagesInv`, whatever else happens:
what a view was sent is at rising places of its range, none after the last page asked for
(`SentInOrder`), and since the collection only grows at its end, they remain its places;
what is put together has each period once and all that were sent (`PeriodsKept`).
`ViewInv`, while nothing disturbs: of each period all documents are in the collection, or
none, or the one request in progress is inserting them (`AllOrNothing`); the view was sent
the first documents of its range (`FirstOf`), what it has put together is of pages before
the current one (`SentBefore`), and from the first page on its range is complete. So the
last estimate of a page cannot equal one before it, since no document is there twice, and
the loop ends on an empty page only: then the first documents of the range are all of them.

*`AwsQueriesProofs`*. All invariants of the run. That windows
begin with the range, meet and end with it (`NoGapBetweenWindows`,
`WindowsEndWithRange`) needs nothing of dates but that the loop hands over the very
date it cut at, which is what mutable dates could break. That it advances
(`LoopsAdvance`) is arithmetic on the calendar, for which all that matters is that no
month has more than 31 days (`EndIsLater`): 60 days lead out of any month, 30 days from
the first of a month on lead no further than its 31st. The loop is inside the range
while it runs (`InRange`). `EachPageOnce` is about the pages of an Athena query,
`WholeAnswer` adds the log queries, by what each stage of the Lambda service has done
with the queries of each group (`QueriesSoFar`): before a group nothing has been asked,
behind it everything has a query id, results are collected group by group, and a query
that is refused or late has failed the service, which never comes back from that.
`BoundedOvershoot` counts places. A window that has seen a free place has not started yet,
so what is on its way may exceed the limit by the windows at once; that these are no more
than the windows of the first group needs that all groups of a request are split alike
(`GroupsSoFar`): its range alone determines where windows begin (`PathIsOne`), so each
window of a later group is the same window of the first (`GroupsAlike`). A request that
goes to its next region, or fails, forgets its windows while the others have seen
places beside them, so `PlacesInv` states the bound for every set of requests, and
removing one from the set leaves a case of the same invariant.

*`SeedAndFiltersProofs`, seeding*. All three invariants of the run, for any calendar
(`MonthStarts` may be any days with the first among them), ranges, windows and number of
sessions. Three steps. The calendar: a period begins no later than its days, its days are
those before `Following` of it, and of two periods one is over before the other begins
(`StartFacts`, `PeriodFacts`, `PeriodsApart`). The groups: every missing period is in one
(`InGroup`), all periods between the first and the last of a group are missing
(`GroupMissing`, since the latest missing one before any of them is followed by it,
`Predecessor`), and two groups share none (`GroupsApart`). From both: a request for a
group reports on its periods and no others, although it begins and ends with days
(`ReportedPeriods`), and the days of an estimate are those that are over, but for a Sunday
behind the end of the request (`EstimateWhole`). So what is fetched, which is put together
by a recursion over the days of the calendar (`Flattened`), has each missing period once
(`EstimatesWhole`). The states: `SeedInv` says that what is missing is what the window wants
and the place it was looked for has not, so that what is inserted cannot be there already
(`InsertInv`); that what a window wanted is in the cache when it slides on; and, for a
collection, that the windows before it left no period of the range out, also where one
ends within a period that the next begins with (`WantedGrows`). A file does not have this
last part: the next window writes over it.

*`SeedAndFiltersProofs`, filters*. All four properties, for any rows, names and providers. The
invariant is the types, `SelectionsAgree` and that the timeframe is -1 while a
complete range is chosen. The weight is in `SelectionsAgree`: `Completed` and `AddAll`
compare lengths of lists of which either may have the option for all in it, and the
lemmas about cardinalities say that equal lengths mean equal sets, or the one case
where they do not, which cannot arise from a click. `ClicksAreLocal` follows with what
`Others` does of one provider. `ShownBySelection` is the exact set of rows shown. It
rests on the option for all being selected exactly with all the others, so that a row
passes a field's filter only if its option is ticked (`PassesIfTicked`, with
`OptionsNamed` for names that are null, empty or shared), and on the timeframe being
-1 while a complete range is chosen, so that the range wins (`InTimeIfAsked`). Rows
without a name are shown only while all options are selected. That a shown row's own
option is selected, and so its provider, holds where no two options of the dropdown
have one name (`ShownByOwnOption`).

Each proof has the same plan: `Init => IInv`; one step for each action of `Next`,
and under it one for each conjunct the action can disturb; `IInv => property`; and
a temporal step that puts them together. TLC checks the properties named in
theorems on the instances above as well, but for `NoPushAfterEnd` and
`SameBasisWithinFile`, which only the proofs have, and `FirstFileCountsOnce`, which
follows from `DriftOnlyFromFirstRows`.

Only model-checked: liveness (`Completes`, `EveryJobEnds`, `ViewsEnd`, `AlwaysAnswered`,
`AlwaysEnds`, `RequestsEnd`), which is out of the provers' reach.

## 5. Not modelled, and why

Numbers: kilowatt hours are products of floating-point coefficients, which TLC
does not have; what is modelled of them is which rows they depend on. The
providers' answers: estimates for a period do not change while a behaviour lasts,
so that today's estimate, which is cached while the day goes on, is not in
question. Filters of the MongoDB cache by account, service, region and tag narrow
what is read and are left out. The connection to MongoDB. Formats: columns of a
report row, the manifest, JSON of the cache file beyond whole and torn lines.
Rendering, logging, prompts, tables. Recommendations of AWS and Azure, which map one
answer of a service to another form. The arithmetic on CloudWatch metrics. The fan-out of
`App` over the four providers and the routes of the API server keep no state between
requests; what a failing provider does to a request is in the models of the caches.
Deployment and documentation. Components with nothing of theirs modelled are in
`components` with the reason.

Most lines of the repository are none that a model of behaviour could stand for: tables
of machine types and coefficients of the providers (`AWSInstanceTypes.ts`,
`VirtualMachineTypes.ts`, `MachineTypes.ts`), the vendored `yarn` releases, templates that
are copies of the packages, mock data, styles, and components that draw. `map` names the
lines of what is left: the services' loops, the row processing, both caches, queue and
report processing, the client's hook and filters.

## 6. Plan

The plan was: the row stream and accumulation, the queue, both caches, the client's loop,
Azure's consumption, usage rows, recommendations of Google Cloud, the calendar of a request
with seeding, the queries of AWS, the filters of the client; and proofs about those whose
invariants are within the provers' reach. All of these are done.

What could be added, in order of what it would show:

1. An abstract specification of a cache (an answer is the usage of the range), which
   `FileCache` implements for one client and one request, and `MongoCache` without
   overlap.
2. `MongoCache` over the days of `SeedCache` instead of numbered periods, for the Sunday
   that is never requested under overlapping requests.
3. The job of BigQuery, if it is ever polled in this code instead of by the library.
