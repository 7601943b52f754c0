-------------------------- MODULE StreamTransform --------------------------
(***************************************************************************)
(* The row transformer that both passes over a billing report run through  *)
(* (services/stream-transform): a node Transform that hands every row to a *)
(* handler, keeps up to `parallel` handlers running, and must not read     *)
(* further ahead of a slow destination than its buffers allow.             *)
(*                                                                         *)
(* The writable side is a count of rows written and started; the readable  *)
(* buffer is the part of `pushed` that has not been taken yet.  What node's *)
(* Transform does around _transform, _flush and push is modelled from how  *)
(* this file uses it.                                                      *)
(***************************************************************************)
EXTENDS Naturals, Sequences, FiniteSets

CONSTANTS
  NRows,     \* rows the upstream parser produces
  Emits,     \* the rows for which the handler yields a non-empty chunk
  Parallel,  \* options.parallel
  HWM        \* highWaterMark of both sides of the stream (16 in object mode)

ASSUME StreamAssumption ==
  /\ NRows \in Nat
  /\ Emits \subseteq 1..NRows
  /\ Parallel \in Nat \ {0}
  /\ HWM \in Nat \ {0}

VARIABLES
  sync,          \* whether handlers call back before they return
  written,       \* rows upstream has written
  ended,         \* upstream called end()
  started,       \* state.started: rows given to the handler
  running,       \* state.running
  finished,      \* state.finished
  backPressure,  \* state.backPressure: what the last push() answered
  inflight,      \* rows whose handler has not called back
  late,          \* the row whose write callback waits for its handler, 0 if none
  lateLen,       \* readable length when that row was written
  parked,        \* node holds the write callback until the next _read
  pushed,        \* every chunk pushed, named by its row
  taken,         \* how many of them the consumer has read
  flush,         \* "no", "ending" (_ending is set), "done" (push(null)), "end"
  errored        \* an error was emitted and the pipeline is destroyed

streamVars == <<sync, written, ended, started, running, finished, backPressure, inflight,
          late, lateLen, parked, pushed, taken, flush, errored>>

Rows == 1..NRows

BufLen == Len(pushed) - taken

\* A write callback is outstanding: no further row may be started.
Writing == late # 0 \/ parked

WritableLen == (written - started) + (IF Writing THEN 1 ELSE 0)

\* A handler that calls back before it returns lets nothing run in between.
Settled == sync => inflight = {}

StreamInit ==
  /\ sync \in BOOLEAN
  /\ written = 0
  /\ ended = FALSE
  /\ started = 0
  /\ running = 0
  /\ finished = 0
  /\ backPressure = FALSE
  /\ inflight = {}
  /\ late = 0
  /\ lateLen = 0
  /\ parked = FALSE
  /\ pushed = <<>>
  /\ taken = 0
  /\ flush = "no"
  /\ errored = FALSE

(***************************************************************************)
(* The stages before and after the transformer.                            *)
(***************************************************************************)

\* The parser writes a row while write() has not answered false.
Write ==
  /\ ~errored
  /\ Settled
  /\ ~ended
  /\ written < NRows
  /\ WritableLen < HWM
  /\ written' = written + 1
  /\ UNCHANGED <<sync, ended, started, running, finished, backPressure, inflight,
                 late, lateLen, parked, pushed, taken, flush, errored>>

EndOfInput ==
  /\ ~errored
  /\ Settled
  /\ ~ended
  /\ written = NRows
  /\ ended' = TRUE
  /\ UNCHANGED <<sync, written, started, running, finished, backPressure, inflight,
                 late, lateLen, parked, pushed, taken, flush, errored>>

\* A read that finds the buffer at or below the mark calls _read before it
\* takes a chunk; _read releases the write callback node was holding.
ReadMore ==
  /\ ~errored
  /\ Settled
  /\ parked
  /\ BufLen <= HWM
  /\ parked' = FALSE
  /\ UNCHANGED <<sync, written, ended, started, running, finished, backPressure,
                 inflight, late, lateLen, pushed, taken, flush, errored>>

Take ==
  /\ ~errored
  /\ Settled
  /\ BufLen > 0
  /\ parked => BufLen > HWM
  /\ taken' = taken + 1
  /\ UNCHANGED <<sync, written, ended, started, running, finished, backPressure,
                 inflight, late, lateLen, parked, pushed, flush, errored>>

\* The consumer sees 'end' after push(null), once the buffer is empty.
EndOfOutput ==
  /\ ~errored
  /\ flush = "done"
  /\ BufLen = 0
  /\ flush' = "end"
  /\ UNCHANGED <<sync, written, ended, started, running, finished, backPressure,
                 inflight, late, lateLen, parked, pushed, taken, errored>>

\* Another stage of the pipeline fails and pipeline() destroys this one.
PeerFails ==
  /\ ~errored
  /\ Settled
  /\ flush # "end"
  /\ errored' = TRUE
  /\ UNCHANGED <<sync, written, ended, started, running, finished, backPressure,
                 inflight, late, lateLen, parked, pushed, taken, flush>>

(***************************************************************************)
(* Transformer.prototype._transform, __done and _flush.                    *)
(***************************************************************************)

\* Faulty variants: the early callback before back-pressure was looked at, and
\* one handler too many.
EarlyIgnoresBuffer == running + 1 < Parallel
EarlyOneTooMany == running + 1 <= Parallel /\ ~backPressure

CallbackEarly == running + 1 < Parallel /\ ~backPressure

Transform ==
  /\ ~errored
  /\ Settled
  /\ ~Writing
  /\ started < written
  /\ started' = started + 1
  /\ running' = running + 1
  /\ inflight' = inflight \cup {started + 1}
  /\ late' = IF CallbackEarly THEN 0 ELSE started + 1
  /\ lateLen' = IF CallbackEarly THEN 0 ELSE BufLen
  /\ UNCHANGED <<sync, written, ended, finished, backPressure, parked, pushed, taken,
                 flush, errored>>

\* Node keeps a late write callback when the chunk it belongs to filled the
\* buffer, and calls it at once otherwise, or when upstream has ended.
Park(len) == ~ended /\ len # lateLen /\ len >= HWM

\* How many chunks the handler's callback pushes for a row: empty ones are not.
Chunks(r) == IF r \in Emits THEN 1 ELSE 0

\* The write callback of the row is called once its handler has called back.
\* Faulty variant: only when the row yielded something.
LateKeptWhenEmpty(r) == IF late = r /\ r \in Emits THEN 0 ELSE late
LateAfter(r) == IF late = r THEN 0 ELSE late

\* The last handler to call back ends the stream if _flush has run before it.
FlushAfter == IF flush = "ending" /\ running' = 0 THEN "done" ELSE flush

Done(r) ==
  LET len == BufLen + Chunks(r)
  IN  /\ ~errored
      /\ r \in inflight
      /\ inflight' = inflight \ {r}
      /\ running' = running - 1
      /\ finished' = finished + 1
      /\ pushed' = IF r \in Emits THEN Append(pushed, r) ELSE pushed
      /\ backPressure' = IF r \in Emits THEN len >= HWM ELSE backPressure
      /\ parked' = IF late = r THEN Park(len) ELSE parked
      /\ late' = LateAfter(r)
      /\ lateLen' = IF late = r THEN 0 ELSE lateLen
      /\ flush' = FlushAfter
      /\ UNCHANGED <<sync, written, ended, started, taken, errored>>

\* Faulty variants: the error is not emitted, and the counter goes down twice
\* because __done is entered again from the catch clause of _transform.
ErrorSwallowed(r) ==
  /\ ~errored
  /\ r \in inflight
  /\ inflight' = inflight \ {r}
  /\ running' = running - 1
  /\ late' = LateAfter(r)
  /\ UNCHANGED <<sync, written, ended, started, finished, backPressure, lateLen, parked,
                 pushed, taken, flush, errored>>

ErrorCountedTwice(r) ==
  /\ ~errored
  /\ r \in inflight
  /\ inflight' = inflight \ {r}
  /\ running' = running - 2
  /\ errored' = TRUE
  /\ UNCHANGED <<sync, written, ended, started, finished, backPressure, late, lateLen,
                 parked, pushed, taken, flush>>

\* __done with an error: the counter goes down and nothing else happens, the
\* write callback of the row included.
DoneError(r) ==
  /\ ~errored
  /\ r \in inflight
  /\ inflight' = inflight \ {r}
  /\ running' = running - 1
  /\ errored' = TRUE
  /\ UNCHANGED <<sync, written, ended, started, finished, backPressure, late, lateLen,
                 parked, pushed, taken, flush>>

\* Faulty variant: push(null) although handlers still run.
FlushAtOnce ==
  /\ ~errored
  /\ Settled
  /\ ended
  /\ started = written
  /\ ~Writing
  /\ flush = "no"
  /\ flush' = "done"
  /\ UNCHANGED <<sync, written, ended, started, running, finished, backPressure,
                 inflight, late, lateLen, parked, pushed, taken, errored>>

Flush ==
  /\ ~errored
  /\ Settled
  /\ ended
  /\ started = written
  /\ ~Writing
  /\ flush = "no"
  /\ flush' = IF running = 0 THEN "done" ELSE "ending"
  /\ UNCHANGED <<sync, written, ended, started, running, finished, backPressure,
                 inflight, late, lateLen, parked, pushed, taken, errored>>

StreamNext ==
  \/ Write
  \/ EndOfInput
  \/ ReadMore
  \/ Take
  \/ EndOfOutput
  \/ PeerFails
  \/ Transform
  \/ \E r \in Rows : Done(r)
  \/ \E r \in Rows : DoneError(r)
  \/ Flush

StreamSpec == StreamInit /\ [][StreamNext]_streamVars

\* The file is finite and readable, handlers return, and the destination keeps
\* reading; node runs each of these callbacks as soon as it can.
StreamFairness ==
  /\ WF_streamVars(Write)
  /\ WF_streamVars(EndOfInput)
  /\ WF_streamVars(ReadMore)
  /\ WF_streamVars(Take)
  /\ WF_streamVars(EndOfOutput)
  /\ WF_streamVars(Transform)
  /\ WF_streamVars(Flush)
  /\ \A r \in Rows : WF_streamVars(Done(r))

StreamFairSpec == StreamSpec /\ StreamFairness
-----------------------------------------------------------------------------
(***************************************************************************)
(* Properties.                                                             *)
(***************************************************************************)

\* The range of every variable.
StreamTypeOK ==
  /\ sync \in BOOLEAN
  /\ written \in 0..NRows
  /\ ended \in BOOLEAN
  /\ started \in 0..written
  /\ running \in Nat
  /\ finished \in Nat
  /\ backPressure \in BOOLEAN
  /\ inflight \subseteq 1..started
  /\ late \in 0..started
  /\ lateLen \in Nat
  /\ parked \in BOOLEAN
  /\ pushed \in Seq(Emits)
  /\ taken \in 0..Len(pushed)
  /\ flush \in {"no", "ending", "done", "end"}
  /\ errored \in BOOLEAN

\* `parallel` limits the handlers in progress even though a row's write
\* callback is given back before its handler runs: state.running counts the
\* handlers that have not called back, and never passes the limit.
ParallelLimit ==
  /\ running = Cardinality(inflight)
  /\ running <= Parallel

\* Back-pressure holds: until upstream ends, what is buffered or about to be
\* pushed stays within the mark plus the parallelism, however slow the
\* destination is, and the tail that is released without back-pressure after
\* end() adds no more than one writable buffer.
MemoryBound ==
  /\ ~ended => BufLen + running <= HWM + Parallel
  /\ BufLen + running + (written - started) < 2 * HWM + Parallel

\* However slow the handlers and the destination are, neither the rows in
\* progress nor the rows in memory grow with the length of the input.
WithinLimits == ParallelLimit /\ MemoryBound

\* _flush waits for the handlers that still run, so nothing is pushed after
\* push(null), which node would turn into an error event.
NoPushAfterEnd ==
  flush \in {"done", "end"} /\ ~errored =>
    /\ inflight = {}
    /\ started = NRows

Promise == INSTANCE RowStream WITH
  Rows <- Emits,
  ordered <- sync,
  delivered <- SubSeq(pushed, 1, taken),
  status <- IF errored THEN "failed" ELSE IF flush = "end" THEN "closed" ELSE "open"

\* The transformer implements the promise: every row exactly once, in order
\* when handlers are synchronous, and the end only after the last row.
RowStreamSpec == Promise!Spec

\* Neither a parked write callback nor a pending _ending is ever forgotten:
\* the consumer sees the end of the stream or the error.
Completes == <>(flush = "end" \/ errored)
=============================================================================
