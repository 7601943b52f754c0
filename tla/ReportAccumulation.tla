------------------------- MODULE ReportAccumulation -------------------------
(***************************************************************************)
(* The two passes of processMessage over the files of one report.          *)
(*                                                                         *)
(* Rows of unknown usage are estimated from the energy of all the known    *)
(* ones, so the first pass accumulates the known rows of every file into a  *)
(* process-wide object (KILOWATT_HOURS_BY_SERVICE_AND_USAGE_UNIT of the    *)
(* provider's constants) and the second pass enriches row by row.           *)
(* Enriching a known row accumulates it again; App undoes that by putting a *)
(* parsed copy of the object in its place.  Whether this works depends on   *)
(* which object a reference means, so the heap is part of the state: an     *)
(* accumulator is a record of how often each row has been counted.          *)
(***************************************************************************)
EXTENDS Naturals, Sequences

CONSTANTS
  NFiles,   \* files listed in the message, processed in order
  MaxRows   \* data rows in a file, at most

ASSUME ReportAssumption ==
  /\ NFiles \in Nat \ {0}
  /\ MaxRows \in Nat

\* "known" rows are estimated from their own usage and accumulated, "unknown"
\* ones from the accumulator; "unsupported" ones stay as they are; an
\* "inestimable" one has a known unit but no estimate, which enrichment does
\* not expect; the handler throws on a "malformed" one in both passes.
Kinds == {"known", "unknown", "unsupported", "inestimable", "malformed"}

Files == 1..NFiles
RowIds == Files \X (1..MaxRows)
FileContents == UNION {[1..n -> Kinds] : n \in 0..MaxRows}

\* Two cells are enough: the object accData refers to, and the newest copy.
Addr == {1, 2}
Null == 0

VARIABLES
  content,   \* the rows of every file
  pc,        \* "accumulate", "open", "enrich", "done" or "failed"
  file,      \* the file in progress
  row,       \* the next of its rows
  heap,      \* accumulator objects
  live,      \* the object the provider's constants refer to
  accData,   \* the object processMessage remembers after the first pass
  out        \* what every row of every file was estimated from

reportVars == <<content, pc, file, row, heap, live, accData, out>>

NoCounts == [id \in RowIds |-> 0]

Kind == content[file][row]
RowId == <<file, row>>
LastRow == Len(content[file])

\* accumulateKilowattHours: the row is added to its service and to the total.
Accumulate(counts) ==
  IF Kind = "known" THEN [counts EXCEPT ![RowId] = @ + 1] ELSE counts

ReportInit ==
  /\ content \in [Files -> FileContents]
  /\ pc = "accumulate"
  /\ file = 1
  /\ row = 1
  /\ heap = [a \in Addr |-> NoCounts]
  /\ live = 1
  /\ accData = Null
  /\ out = [f \in Files |-> <<>>]

Fail ==
  /\ pc' = "failed"
  /\ UNCHANGED <<content, file, row, heap, live, accData, out>>

(***************************************************************************)
(* First pass: getAccumulateData for one file after the other.             *)
(***************************************************************************)
AccumulateRow ==
  /\ pc = "accumulate"
  /\ row <= LastRow
  /\ Kind # "malformed"
  /\ heap' = [heap EXCEPT ![live] = Accumulate(@)]
  /\ row' = row + 1
  /\ UNCHANGED <<content, pc, file, live, accData, out>>

\* Faulty variant: one file too many.
AccumulatePastLast ==
  /\ pc = "accumulate"
  /\ row > LastRow
  /\ file <= NFiles
  /\ file' = file + 1
  /\ row' = 1
  /\ UNCHANGED <<content, pc, heap, live, accData, out>>

AccumulateNextFile ==
  /\ pc = "accumulate"
  /\ row > LastRow
  /\ file < NFiles
  /\ file' = file + 1
  /\ row' = 1
  /\ UNCHANGED <<content, pc, heap, live, accData, out>>

\* Faulty variant: the second pass starts before the last file was read.
EnrichTooEarly ==
  /\ pc = "accumulate"
  /\ row > LastRow
  /\ file >= NFiles - 1
  /\ accData' = live
  /\ pc' = "open"
  /\ file' = 1
  /\ row' = 1
  /\ UNCHANGED <<content, heap, live, out>>

\* accData is the object itself, not a copy of it.
AccumulationDone ==
  /\ pc = "accumulate"
  /\ row > LastRow
  /\ file = NFiles
  /\ accData' = live
  /\ pc' = "open"
  /\ file' = 1
  /\ row' = 1
  /\ UNCHANGED <<content, heap, live, out>>

(***************************************************************************)
(* Second pass: enrichReport for one file after the other.                 *)
(***************************************************************************)

\* setAccumulatedData(accData) before the rows of the file.
OpenFile ==
  /\ pc = "open"
  /\ live' = accData
  /\ pc' = "enrich"
  /\ UNCHANGED <<content, file, row, heap, accData, out>>

\* JSON.parse makes an object that no reference but the new one points to.
FreshCopy == CHOOSE a \in Addr : a # accData

\* What the estimate rests on; a row that is not unknown needs no other row.
Basis == IF Kind = "unknown" THEN heap[live] ELSE NoCounts

\* Faulty variant: without the dump, the row stays counted twice.
EnrichRowNoRestore ==
  /\ pc = "enrich"
  /\ row <= LastRow
  /\ Kind \notin {"malformed", "inestimable"}
  /\ out' = [out EXCEPT ![file] = Append(@, Basis)]
  /\ heap' = [heap EXCEPT ![live] = Accumulate(@)]
  /\ row' = row + 1
  /\ UNCHANGED <<content, pc, file, live, accData>>

\* getCostAndEstimateSingleRow: dump the accumulator, estimate the row, which
\* counts it again in the live object, and install the parsed dump.
EnrichRow ==
  /\ pc = "enrich"
  /\ row <= LastRow
  /\ Kind \notin {"malformed", "inestimable"}
  /\ out' = [out EXCEPT ![file] = Append(@, Basis)]
  /\ LET dump == heap[live]
     IN  heap' = [[heap EXCEPT ![live] = Accumulate(@)] EXCEPT ![FreshCopy] = dump]
  /\ live' = FreshCopy
  /\ row' = row + 1
  /\ UNCHANGED <<content, pc, file, accData>>

CloseFile ==
  /\ pc = "enrich"
  /\ row > LastRow
  /\ row' = 1
  /\ IF file < NFiles
     THEN file' = file + 1 /\ pc' = "open"
     ELSE file' = file /\ pc' = "done"
  /\ UNCHANGED <<content, heap, live, accData, out>>

\* A handler that throws makes the pipeline reject, and processMessage gives
\* up the message: malformed rows in either pass, rows without an estimate
\* only in the second, where Object.entries meets undefined.
RowThrows ==
  /\ row <= LastRow
  /\ \/ pc = "accumulate" /\ Kind = "malformed"
     \/ pc = "enrich" /\ Kind \in {"malformed", "inestimable"}
  /\ Fail

\* The source or the destination fails.
StreamFails == pc \in {"accumulate", "open", "enrich"} /\ Fail

ReportNext ==
  \/ AccumulateRow
  \/ AccumulateNextFile
  \/ AccumulationDone
  \/ OpenFile
  \/ EnrichRow
  \/ CloseFile
  \/ RowThrows
  \/ StreamFails

ReportSpec == ReportInit /\ [][ReportNext]_reportVars
-----------------------------------------------------------------------------
(***************************************************************************)
(* Properties.                                                             *)
(***************************************************************************)
ReportTypeOK ==
  /\ content \in [Files -> FileContents]
  /\ pc \in {"accumulate", "open", "enrich", "done", "failed"}
  /\ file \in Files
  /\ row \in 1..MaxRows + 1
  /\ heap \in [Addr -> [RowIds -> Nat]]
  /\ live \in Addr
  /\ accData \in Addr \cup {Null}
  /\ out \in [Files -> Seq([RowIds -> Nat])]

IsKnown(id) == id[2] <= Len(content[id[1]]) /\ content[id[1]][id[2]] = "known"

\* f's i-th row has been estimated from the accumulator.
FromOthers(f, i) == i <= Len(out[f]) /\ content[f][i] = "unknown"

\* "We are not able to calculate unknown rows before we calculate all known
\* rows": the estimate of an unknown row rests on every known row of every
\* file, those of later files too, and on nothing else.
UnknownRestOnAllKnown ==
  \A f \in Files, i \in 1..MaxRows : FromOthers(f, i) =>
    \A id \in RowIds : out[f][i][id] > 0 <=> IsKnown(id)

\* Enriching rows does not disturb the estimates of later rows of the same
\* file: they all rest on the same accumulated data.
SameBasisWithinFile ==
  \A f \in Files, i, j \in 1..MaxRows :
    FromOthers(f, i) /\ FromOthers(f, j) => out[f][i] = out[f][j]

\* In the first file, and so in every report of one file, each known row counts
\* once, although the accumulator saw it in both passes.
FirstFileCountsOnce ==
  \A i \in 1..MaxRows : FromOthers(1, i) => \A id \in RowIds : out[1][i][id] <= 1

\* What a later file's estimates may count twice: the first data row of an
\* earlier file, which was estimated while accData itself was installed.
DriftOnlyFromFirstRows ==
  \A f \in Files, i \in 1..MaxRows : FromOthers(f, i) =>
    \A id \in RowIds : out[f][i][id] > 1 => id[2] = 1 /\ id[1] < f /\ out[f][i][id] = 2

\* Both: what the estimates of unknown rows rest on, and how often.
EstimatesAreSound == UnknownRestOnAllKnown /\ DriftOnlyFromFirstRows

=============================================================================
