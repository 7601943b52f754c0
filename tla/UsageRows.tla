----------------------------- MODULE UsageRows -----------------------------
(***************************************************************************)
(* What becomes of the rows of usage a provider reports: getEstimates of   *)
(* CostAndUsageReports (AWS), BillingExportTable (GCP) and                 *)
(* ConsumptionManagementService (Azure), between the answer to their query *)
(* and the estimates they return.                                          *)
(*                                                                         *)
(* Rows are estimated one after the other.  A known row's energy is added  *)
(* to an object of the process, by its service and by its usage unit alone; *)
(* unknown rows are put aside and estimated at the end, from the ratio of  *)
(* energy to cost (AWS) or to usage (GCP, Azure) this object then holds.   *)
(* Nothing empties it between two requests.                                *)
(***************************************************************************)
EXTENDS Integers, Sequences, FiniteSets, Functions

CONSTANTS
  ReportedRows,  \* the rows a provider may report: see RowType
  Services,      \* serviceName
  MaxRows,       \* bound: rows of a request
  MaxRequests    \* bound: requests of the process

Providers == {"AWS", "GCP", "AZURE"}

\* usageUnit, as the row's constructor cleans it: one of each kind the switch
\* tells apart, one that is taken for known and is not ("alike": for Azure it has
\* a known one in its text, for GCP it is not on the list of unknown units; AWS
\* compares units whole) and one that is recognised as unknown.
Units == {"hours", "lambda", "storage", "network", "memory", "alike", "other"}

\* The kinds each provider has.  Gigabyte-hours are storage for AWS.
UnitsOf ==
  [AWS |-> Units \ {"memory", "alike"},
   GCP |-> Units \ {"lambda", "memory"},
   AZURE |-> Units \ {"lambda"}]

\* The lists of usage types and services a row's are found in.
Lists == {"unsupported", "unknown", "compute", "memory", "ssd", "hdd", "networking"}

(***************************************************************************)
(* What the tables of machines and disks say of a row: all of it, all but  *)
(* the memory (burstable machines of AWS, those with constrained vCPUs of  *)
(* Azure), a family that lacks the size, nothing but manufacture, nothing  *)
(* that it needs; a row that needs none of them is of no size.             *)
(***************************************************************************)
Sizes == {"listed", "burstable", "constrained", "unsized", "family", "missing", "none"}

RowType ==
  [provider : Providers, service : Services, unit : Units, lists : SUBSET Lists,
   size : Sizes, base : Nat]

ASSUME RowsAssumption ==
  /\ ReportedRows \subseteq RowType
  /\ \A row \in ReportedRows : row.unit \in UnitsOf[row.provider]
  /\ MaxRows \in Nat
  /\ MaxRequests \in Nat

\* JavaScript's NaN; every sum with it is NaN, and JSON has neither it nor Infinity.
NaN == -1

Plus(a, b) == IF NaN \in {a, b} THEN NaN ELSE a + b

VARIABLES
  provider,   \* whose rows; the providers share no state
  pc,         \* "idle", "rows", "unknown", "done" or "failed"
  batch,      \* the rows of the request
  next,       \* the place of the next row, in batch or in unknown
  unknown,    \* unknownRows: their places in batch
  results,    \* by service: what appendOrAccumulateEstimatesByDay adds up
  total,      \* KILOWATT_HOURS_BY_SERVICE_AND_USAGE_UNIT.total
  byService,  \* the rest of that object
  requests,
  known,      \* history: the known rows of the process and their energy
  first       \* history: the first request and its results

accumulator == <<total, byService>>
rowsVars == <<provider, pc, batch, next, unknown, results, accumulator, requests, known, first>>

Nowhere == [k \in {} |-> 0]
NoResults == [s \in Services |-> <<>>]

RowsInit ==
  /\ provider \in Providers
  /\ pc = "idle"
  /\ batch = <<>> /\ next = 1 /\ unknown = <<>>
  /\ results = NoResults
  /\ total = Nowhere /\ byService = Nowhere
  /\ requests = 0
  /\ known = <<>>
  /\ first = [batch |-> <<>>, results |-> NoResults]

-----------------------------------------------------------------------------
\* fate is what happens to a row; a known one has its energy kwh and adds at
\* most one number to the accumulator.
Fate(fate, kwh, adds) == [fate |-> fate, kwh |-> kwh, adds |-> adds]
Dropped == Fate("dropped", 0, {})
Unknown == Fate("unknown", 0, {})
Throws == Fate("throws", 0, {})
Counted(kwh) == Fate("known", kwh, {kwh})
Uncounted(kwh) == Fate("known", kwh, {})

\* A number as a condition.
Truthy(n) == n \notin {0, NaN}

(***************************************************************************)
(* AWS.  The parts of an estimate have weights that tell them apart in a   *)
(* sum: 1 for computing, 2 for memory, 4 for manufacture, 8 and 16 for     *)
(* storage and networking.                                                 *)
(***************************************************************************)
AwsCompute(row) == IF row.size \in {"missing", "family"} THEN NaN ELSE 1

AwsMemory(row) ==
  CASE row.size = "listed" -> 2
    [] row.size = "unsized" -> NaN
    [] OTHER -> 0

AwsEmbodied(row) == IF row.size \in {"listed", "burstable", "family"} THEN 4 ELSE 0

\* Faulty variant: the guard on a machine that is not known is missing.
AwsUnguarded(row) ==
  IF Truthy(AwsMemory(row)) \/ Truthy(AwsEmbodied(row))
  THEN Counted(Plus(AwsCompute(row), Plus(AwsMemory(row), AwsEmbodied(row))))
  ELSE Counted(AwsCompute(row))

\* A machine whose vCPUs are not known has no energy, with or without the
\* emissions of its manufacture.
AwsMachine(row) ==
  IF AwsCompute(row) = NaN THEN Uncounted(0)
  ELSE IF Truthy(AwsMemory(row)) \/ Truthy(AwsEmbodied(row))
       THEN Counted(Plus(AwsCompute(row), Plus(AwsMemory(row), AwsEmbodied(row))))
       ELSE Counted(AwsCompute(row))

IsStorage(row) == row.lists \cap {"ssd", "hdd"} # {}

AwsStorage(row) == IF IsStorage(row) THEN Counted(8) ELSE Dropped

AwsNetwork(row) == IF "networking" \in row.lists THEN Counted(16) ELSE Dropped

\* Lambda's energy is shown and not counted; its seconds stand for the hours of a vCPU.
AwsEstimate(row) ==
  CASE row.unit = "hours" -> AwsMachine(row)
    [] row.unit = "storage" -> AwsStorage(row)
    [] row.unit = "lambda" -> Uncounted(1)
    [] row.unit = "network" -> AwsNetwork(row)
    [] OTHER -> Uncounted(0)

(***************************************************************************)
(* GCP: "hours" are its seconds, "storage" its byte-seconds, "network" its *)
(* bytes.  Of a machine only the energy of computing is counted.           *)
(***************************************************************************)
GcpEmbodied(row) == IF row.size = "listed" THEN 4 ELSE 0

GcpMachine(row) == Fate("known", 1 + GcpEmbodied(row), {1})

GcpMemory(row) == "memory" \in row.lists /\ "compute" \notin row.lists

GcpByteSeconds(row) == Counted(IF GcpMemory(row) THEN 2 ELSE 8)

GcpNetwork(row) == IF "networking" \in row.lists THEN Counted(16) ELSE Unknown

GcpEstimate(row) ==
  CASE row.unit = "hours" -> IF "compute" \in row.lists THEN GcpMachine(row) ELSE Unknown
    [] row.unit = "storage" -> GcpByteSeconds(row)
    [] row.unit = "network" -> GcpNetwork(row)
    [] OTHER -> Dropped

(***************************************************************************)
(* Azure.  A machine its tables lack counts as one vCPU.                   *)
(***************************************************************************)
AzureMemory(row) == IF row.size = "listed" \/ "memory" \in row.lists THEN 2 ELSE 0

AzureEmbodied(row) == IF row.size \in {"listed", "constrained"} THEN 4 ELSE 0

AzureMachine(row) ==
  IF "memory" \in row.lists THEN Uncounted(AzureMemory(row))
  ELSE Counted(1 + AzureMemory(row) + AzureEmbodied(row))

\* A disk of an HDD's size whose name also has a word of the list of SSD types
\* is looked up among the SSDs, and no part of its name matches their pattern.
NoPattern(row) == {"ssd", "hdd"} \subseteq row.lists

AzureDisk(row) == IF row.size = "missing" THEN NaN ELSE 8

AzureStorage(row) ==
  IF NoPattern(row) THEN Throws
  ELSE IF IsStorage(row) THEN Counted(AzureDisk(row)) ELSE Dropped

AzureNetwork(row) == IF "networking" \in row.lists THEN Counted(16) ELSE Dropped

AzureEstimate(row) ==
  CASE row.unit = "hours" -> AzureMachine(row)
    [] row.unit = "storage" -> AzureStorage(row)
    [] row.unit = "network" -> AzureNetwork(row)
    [] row.unit = "memory" -> Counted(AzureMemory(row))
    [] OTHER -> Uncounted(0)

(***************************************************************************)
(* getFootprintEstimateFromUsageRow, in the same order for all of them.    *)
(***************************************************************************)
Estimate(row) ==
  CASE row.provider = "AWS" -> AwsEstimate(row)
    [] row.provider = "GCP" -> GcpEstimate(row)
    [] row.provider = "AZURE" -> AzureEstimate(row)

IsUnsupported(row) == "unsupported" \in row.lists

IsUnknown(row) == "unknown" \in row.lists \/ row.unit = "other"

\* Faulty variant: a row of both lists is put aside.
UnknownFirst(row) ==
  IF IsUnknown(row) THEN Unknown ELSE IF IsUnsupported(row) THEN Dropped ELSE Estimate(row)

FateOf(row) ==
  IF IsUnsupported(row) THEN Dropped ELSE IF IsUnknown(row) THEN Unknown ELSE Estimate(row)

-----------------------------------------------------------------------------
(***************************************************************************)
(* accumulateKilowattHours                                                 *)
(***************************************************************************)

\* Faulty variant: the cost or usage of an entry stays the first row's.
BaseOfFirst(object, key, kwh, base) ==
  [k \in DOMAIN object \cup {key} |->
     IF k # key THEN object[k]
     ELSE IF key \in DOMAIN object THEN [object[k] EXCEPT !.kwh = Plus(@, kwh)]
     ELSE [kwh |-> kwh, base |-> base]]

Accumulated(object, key, kwh, base) ==
  [k \in DOMAIN object \cup {key} |->
     IF k # key THEN object[k]
     ELSE IF key \in DOMAIN object
          THEN [kwh |-> Plus(object[k].kwh, kwh), base |-> object[k].base + base]
          ELSE [kwh |-> kwh, base |-> base]]

AccumulateByService(row, kwh) ==
  byService' = Accumulated(byService, <<row.service, row.unit>>, kwh, row.base)

\* Faulty variant: the total of a unit is set by each row.
TotalsOfLast(row, kwh) ==
  total' = [u \in DOMAIN total \cup {row.unit} |->
              IF u = row.unit THEN [kwh |-> kwh, base |-> row.base] ELSE total[u]]

AccumulateTotals(row, kwh) == total' = Accumulated(total, row.unit, kwh, row.base)

\* At most one number is added.
Accumulate(row, adds) ==
  IF adds = {} THEN UNCHANGED accumulator
  ELSE \E kwh \in adds : AccumulateByService(row, kwh) /\ AccumulateTotals(row, kwh)

(***************************************************************************)
(* UnknownEstimator.  An estimate is num / den, and not finite when den is *)
(* 0: NaN, or a division by no cost at all.                                *)
(***************************************************************************)
NotFinite == [num |-> 0, den |-> 0]
Energy(kwh) == IF kwh = NaN THEN NotFinite ELSE [num |-> kwh, den |-> 1]

Ratio(entry, base) ==
  IF entry.kwh = NaN \/ entry.base = 0 THEN NotFinite
  ELSE [num |-> entry.kwh * base, den |-> entry.base]

Same(a, b) == (a.den = 0 <=> b.den = 0) /\ a.num * b.den = b.num * a.den

\* The unknownUsage of each provider names no service.
UnknownUsage(row) == [services |-> {}, unit |-> row.unit, base |-> row.base]

EstimateUnknownUsage(usage) ==
  LET ofService == {s \in usage.services : <<s, usage.unit>> \in DOMAIN byService}
  IN  IF ofService # {} THEN Ratio(byService[<<CHOOSE s \in ofService : TRUE, usage.unit>>], usage.base)
      ELSE IF usage.unit \in DOMAIN total THEN Ratio(total[usage.unit], usage.base)
      ELSE Energy(0)

\* appendOrAccumulateEstimatesByDay, for the row at a place of the batch.
AddToResults(place, estimate) ==
  results' = [results EXCEPT ![batch[place].service] =
                Append(@, [at |-> place, estimate |-> estimate])]

-----------------------------------------------------------------------------
\* The query is answered with rows in any order.
Ask ==
  /\ pc \in {"idle", "done", "failed"}
  /\ requests < MaxRequests
  /\ requests' = requests + 1
  /\ \E n \in 0..MaxRows :
       batch' \in [1..n -> {row \in ReportedRows : row.provider = provider}]
  /\ pc' = "rows"
  /\ next' = 1 /\ unknown' = <<>>
  /\ results' = NoResults
  /\ UNCHANGED <<provider, accumulator, known, first>>

Row == batch[next]

AtRow(fate) == pc = "rows" /\ next <= Len(batch) /\ FateOf(Row).fate = fate

DropRow ==
  /\ AtRow("dropped")
  /\ next' = next + 1
  /\ UNCHANGED <<provider, pc, batch, unknown, results, accumulator, requests, known, first>>

\* Faulty variants: the row after it is put aside; it is estimated where it stands.
PutAsideNext ==
  /\ AtRow("unknown")
  /\ next' = next + 1
  /\ unknown' = Append(unknown, next + 1)
  /\ UNCHANGED <<provider, pc, batch, results, accumulator, requests, known, first>>

EstimateAtOnce ==
  /\ AtRow("unknown")
  /\ next' = next + 1
  /\ AddToResults(next, EstimateUnknownUsage(UnknownUsage(Row)))
  /\ UNCHANGED <<provider, pc, batch, unknown, accumulator, requests, known, first>>

PutAside ==
  /\ AtRow("unknown")
  /\ next' = next + 1
  /\ unknown' = Append(unknown, next)
  /\ UNCHANGED <<provider, pc, batch, results, accumulator, requests, known, first>>

EstimateRow ==
  /\ AtRow("known")
  /\ next' = next + 1
  /\ AddToResults(next, Energy(FateOf(Row).kwh))
  /\ Accumulate(Row, FateOf(Row).adds)
  /\ known' = Append(known, [row |-> Row, kwh |-> FateOf(Row).kwh])
  /\ UNCHANGED <<provider, pc, batch, unknown, requests, first>>

\* The request fails; what its rows added so far stays added.
RowThrows ==
  /\ AtRow("throws")
  /\ pc' = "failed"
  /\ results' = NoResults
  /\ UNCHANGED <<provider, batch, next, unknown, accumulator, requests, known, first>>

Finished(answer) ==
  /\ pc' = "done"
  /\ first' = IF requests = 1 THEN [batch |-> batch, results |-> answer] ELSE first

\* Without any known row the unknown ones are left out.
EndOfRows ==
  /\ pc = "rows" /\ next > Len(batch)
  /\ next' = 1
  /\ IF results = NoResults THEN Finished(results)
     ELSE pc' = "unknown" /\ UNCHANGED first
  /\ UNCHANGED <<provider, batch, unknown, results, accumulator, requests, known>>

EstimateUnknown ==
  /\ pc = "unknown" /\ next <= Len(unknown)
  /\ next' = next + 1
  /\ AddToResults(unknown[next], EstimateUnknownUsage(UnknownUsage(batch[unknown[next]])))
  /\ UNCHANGED <<provider, pc, batch, unknown, accumulator, requests, known, first>>

EndOfUnknown ==
  /\ pc = "unknown" /\ next > Len(unknown)
  /\ Finished(results)
  /\ UNCHANGED <<provider, batch, next, unknown, results, accumulator, requests, known>>

RowsNext ==
  \/ Ask
  \/ DropRow \/ PutAside \/ EstimateRow \/ RowThrows \/ EndOfRows
  \/ EstimateUnknown \/ EndOfUnknown

RowsSpec == RowsInit /\ [][RowsNext]_rowsVars
-----------------------------------------------------------------------------
(***************************************************************************)
(* Properties.                                                             *)
(***************************************************************************)
Estimates == [num : Nat, den : Nat]
Results == [Services -> Seq([at : 1..MaxRows, estimate : Estimates])]
Entries == [kwh : Nat \cup {NaN}, base : Nat]

RowsTypeOK ==
  /\ provider \in Providers
  /\ pc \in {"idle", "rows", "unknown", "done", "failed"}
  /\ batch \in Seq(ReportedRows) /\ Len(batch) <= MaxRows
  /\ next \in 1..(MaxRows + 1)
  /\ unknown \in Seq(DOMAIN batch)
  /\ results \in Results /\ first.results \in Results
  /\ DOMAIN total \subseteq Units /\ \A u \in DOMAIN total : total[u] \in Entries
  /\ DOMAIN byService \subseteq Services \X Units
  /\ \A k \in DOMAIN byService : byService[k] \in Entries
  /\ requests \in 0..MaxRequests
  /\ known \in Seq([row : ReportedRows, kwh : Nat \cup {NaN}])

\* The energies over a set, added as the code adds them.
EnergySum(w, S) == FoldFunctionOnSet(Plus, 0, w, S)

\* The energy and the cost or usage of a unit are those of its services, in
\* whichever order services and units first appeared.
TotalsAreSums ==
  /\ DOMAIN total = {k[2] : k \in DOMAIN byService}
  /\ \A unit \in DOMAIN total :
       LET ofUnit == {k \in DOMAIN byService : k[2] = unit} IN
       total[unit] =
         [kwh |-> EnergySum([k \in ofUnit |-> byService[k].kwh], ofUnit),
          base |-> SumFunctionOnSet([k \in ofUnit |-> byService[k].base], ofUnit)]

\* Known rows that are not counted: machines AWS does not know, Lambda, memory
\* Azure bills by the hour, units that are only like a known one.
LeftOut(row) ==
  \/ row.provider = "AWS" /\ row.unit = "hours" /\ AwsCompute(row) = NaN
  \/ row.unit = "lambda"
  \/ row.provider = "AZURE" /\ row.unit = "hours" /\ "memory" \in row.lists
  \/ row.unit = "alike"

\* What a row shows of itself in the accumulator: GCP leaves out manufacture.
Share(k) ==
  IF k.row.provider = "GCP" /\ k.row.unit = "hours" THEN k.kwh - GcpEmbodied(k.row) ELSE k.kwh

\* The ratio of a unit relates the energy and the cost or usage of the same
\* rows: all known ones of the process but those above, also the ones of
\* requests that failed after them, each of them once.
RatioIsOfKnownRows ==
  \A unit \in Units :
    LET rows == {i \in DOMAIN known : known[i].row.unit = unit /\ ~LeftOut(known[i].row)} IN
    IF rows = {} THEN unit \notin DOMAIN total
    ELSE /\ unit \in DOMAIN total
         /\ total[unit] =
              [kwh |-> EnergySum([i \in rows |-> Share(known[i])], rows),
               base |-> SumFunctionOnSet([i \in rows |-> known[i].row.base], rows)]

\* The sums estimates are made from are right in both respects, whatever rows came
\* in which order and whichever requests failed.
SumsAreSound == TotalsAreSums /\ RatioIsOfKnownRows

\* The estimates an answer has of a row.
EstimatesOf(answer, p) ==
  UNION {{s} \X {i \in DOMAIN answer[s] : answer[s][i].at = p} : s \in Services}

\* Rows that are in no estimate: what is not supported, and what has the unit of
\* storage or of networking and no such type, where GCP puts the latter aside and
\* drops units it has no case for.
Unestimated(row) ==
  \/ "unsupported" \in row.lists
  \/ /\ "unknown" \notin row.lists
     /\ \/ row.provider = "GCP" /\ row.unit = "alike"
        \/ row.provider # "GCP" /\ row.unit = "storage" /\ row.lists \cap {"ssd", "hdd"} = {}
        \/ row.provider # "GCP" /\ row.unit = "network" /\ "networking" \notin row.lists

\* Every other row of a request that has a known row is estimated once, either
\* for itself or as unknown and never as both.
EveryRowEstimated ==
  pc = "done" /\ results # NoResults =>
    \A p \in DOMAIN batch :
      Cardinality(EstimatesOf(results, p)) = IF Unestimated(batch[p]) THEN 0 ELSE 1

UnknownPlaces == {p \in DOMAIN batch : FateOf(batch[p]).fate = "unknown"}

EstimateAt(p) ==
  LET s == batch[p].service
  IN  results[s][CHOOSE i \in DOMAIN results[s] : results[s][i].at = p].estimate

\* Unknown rows rest on all known ones of their unit, those that come after
\* them included, and of unknown rows none is part of another's ratio.
UnknownRestOnWholeBatch ==
  pc = "done" /\ results # NoResults =>
    \A p \in UnknownPlaces :
      LET row == batch[p] IN
      Same(EstimateAt(p),
           IF row.unit \in DOMAIN total THEN Ratio(total[row.unit], row.base) ELSE Energy(0))

Finite(p) == EstimateAt(p).den # 0

\* A disk of a size Azure's tables lack.
LackingDisk(row) == row.unit = "storage" /\ row.size = "missing"

\* Whatever machines the tables lack, an estimate is finite unless its own disk
\* is lacking or, for an unknown row, one of its unit was, ever before, or no
\* row of its unit had any cost.
FiniteButForDisks ==
  pc = "done" =>
    \A p \in DOMAIN batch : EstimatesOf(results, p) # {} =>
      \/ Finite(p)
      \/ LackingDisk(batch[p])
      \/ /\ p \in UnknownPlaces
         /\ \/ total[batch[p].unit].base = 0
            \/ \E i \in DOMAIN known :
                 known[i].row.unit = batch[p].unit /\ LackingDisk(known[i].row)

\* Although the accumulator keeps the rows of all requests, the same rows asked
\* for again, with no others between, have the same estimates.
AgainIsSame ==
  pc = "done" /\ requests = 2 /\ batch = first.batch =>
    \A s \in Services :
      /\ Len(results[s]) = Len(first.results[s])
      /\ \A i \in DOMAIN results[s] :
           /\ results[s][i].at = first.results[s][i].at
           /\ Same(results[s][i].estimate, first.results[s][i].estimate)

\* The sums serve every request: they are right and the same rows have the same
\* estimates again.
SumsServeAll == SumsAreSound /\ AgainIsSame

\* Nothing is left out of an answer, what is unknown rests on all of it, and the
\* numbers can be used.
AnswerIsWhole == EveryRowEstimated /\ UnknownRestOnWholeBatch /\ FiniteButForDisks
=============================================================================
