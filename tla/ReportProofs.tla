---------------------------- MODULE ReportProofs ----------------------------
(***************************************************************************)
(* What holds of the report processor for every number of rows, files,     *)
(* messages and workers: of the stream that rows run through, of the two   *)
(* passes over the files of a report, and of the workers that take reports *)
(* from the queue.                                                         *)
(***************************************************************************)
EXTENDS StreamTransform, ReportAccumulation, ReportQueue, FiniteSetTheorems,
        SequenceTheorems, TLAPS

(***************************************************************************)
(* StreamTransform, for every number of rows, parallelism, high-water mark,*)
(* and set of rows that yield something.                                   *)
(***************************************************************************)
\* The counter and the set it counts go together: without this conjunct a
\* decrement could leave the natural numbers.
Counted == StreamTypeOK /\ running = Cardinality(inflight)

LEMMA InflightFinite ==
  ASSUME StreamTypeOK
  PROVE  /\ IsFiniteSet(inflight)
         /\ Cardinality(inflight) \in Nat
         /\ \A r : r \notin inflight =>
              Cardinality(inflight \cup {r}) = Cardinality(inflight) + 1
         /\ \A r \in inflight : /\ Cardinality(inflight \ {r}) = Cardinality(inflight) - 1
                                /\ Cardinality(inflight) > 0
<1>1. IsFiniteSet(1..started)
  BY FS_Interval, StreamAssumption DEF StreamTypeOK
<1>2. IsFiniteSet(inflight)
  BY <1>1, FS_Subset DEF StreamTypeOK
<1>3. Cardinality(inflight) \in Nat
  BY <1>2, FS_CardinalityType
<1>4. ASSUME NEW r, r \notin inflight
      PROVE  Cardinality(inflight \cup {r}) = Cardinality(inflight) + 1
  BY <1>2, <1>4, FS_AddElement
<1>5. ASSUME NEW r \in inflight
      PROVE  /\ Cardinality(inflight \ {r}) = Cardinality(inflight) - 1
             /\ Cardinality(inflight) > 0
  <2>1. Cardinality(inflight \ {r}) = Cardinality(inflight) - 1
    BY <1>2, <1>5, FS_RemoveElement
  <2>2. Cardinality(inflight \ {r}) \in Nat
    BY <1>2, FS_CardinalityType, FS_RemoveElement
  <2> QED
    BY <1>3, <2>1, <2>2
<1> QED
  BY <1>2, <1>3, <1>4, <1>5

LEMMA CountedInit == StreamInit => Counted
<1> SUFFICES ASSUME StreamInit PROVE Counted
  OBVIOUS
<1>1. StreamTypeOK
  <2>1. pushed \in Seq(Emits) /\ Len(pushed) = 0
    BY EmptySeq DEF StreamInit
  <2>2. /\ ended \in BOOLEAN
        /\ backPressure \in BOOLEAN
        /\ parked \in BOOLEAN
        /\ errored \in BOOLEAN
    BY Zenon DEF StreamInit
  <2> QED
    BY <2>1, <2>2, StreamAssumption DEF StreamInit, StreamTypeOK
<1>2. running = Cardinality(inflight)
  BY FS_EmptySet DEF StreamInit
<1> QED
  BY <1>1, <1>2 DEF Counted

LEMMA CountedStep == Counted /\ [StreamNext]_streamVars => Counted'
<1> SUFFICES ASSUME Counted, [StreamNext]_streamVars PROVE Counted'
  OBVIOUS
<1> USE StreamAssumption, InflightFinite DEF Counted, StreamTypeOK, BufLen
<1>1. CASE Write
  BY <1>1 DEF Write
<1>2. CASE EndOfInput
  BY <1>2 DEF EndOfInput
<1>3. CASE ReadMore
  BY <1>3 DEF ReadMore
<1>4. CASE Take
  BY <1>4 DEF Take
<1>5. CASE EndOfOutput
  BY <1>5 DEF EndOfOutput
<1>6. CASE PeerFails
  BY <1>6 DEF PeerFails
<1>7. CASE Transform
  BY <1>7 DEF Transform
<1>8. ASSUME NEW r \in Rows, Done(r) PROVE Counted'
  <2> USE <1>8 DEF Done, Park, Chunks, LateAfter, FlushAfter
  <2>1. pushed' \in Seq(Emits) /\ Len(pushed') >= Len(pushed)
    BY AppendProperties
  <2>2. backPressure' \in BOOLEAN /\ parked' \in BOOLEAN
    <3>1. \A a, b : (a >= b) \in BOOLEAN
      OBVIOUS
    <3> QED
      BY <3>1, Zenon
  <2>3. running' = Cardinality(inflight')
    OBVIOUS
  <2> QED
    BY <2>1, <2>2, <2>3
<1>9. ASSUME NEW r \in Rows, DoneError(r) PROVE Counted'
  BY <1>9 DEF DoneError, Rows
<1>10. CASE Flush
  BY <1>10 DEF Flush
<1>11. CASE UNCHANGED streamVars
  BY <1>11 DEF streamVars
<1> QED
  BY <1>1, <1>2, <1>3, <1>4, <1>5, <1>6, <1>7, <1>8, <1>9, <1>10, <1>11 DEF StreamNext

(***************************************************************************)
(* The counters and the buffers.  MemoryBound is not inductive: it needs   *)
(* that back-pressure is off only while the buffer is below the mark, that *)
(* a held write callback means one row less in the writable buffer, and    *)
(* how long the readable buffer was when the row that holds the write      *)
(* callback was written, since node compares the two lengths later.        *)
(***************************************************************************)
FlowInv ==
  /\ late # 0 => ~parked
  /\ running <= Parallel
  /\ late = 0 => running < Parallel
  /\ ~backPressure => BufLen < HWM
  /\ WritableLen <= HWM
  /\ ~ended => /\ BufLen + running <= HWM + Parallel
               /\ ~Writing => BufLen + running < HWM + Parallel
               /\ late # 0 => lateLen + running <= HWM + Parallel
  /\ ended => BufLen + running + (written - started) < 2 * HWM + Parallel

(***************************************************************************)
(* The rows.  What has been pushed, what is in flight and what has not     *)
(* been started are three disjoint parts of the input; with synchronous    *)
(* handlers at most the newest row is in flight, so rows stay in order.    *)
(***************************************************************************)
RowInv ==
  /\ \A i \in 1..Len(pushed) : pushed[i] <= started /\ pushed[i] \notin inflight
  /\ \A i, j \in 1..Len(pushed) : pushed[i] = pushed[j] => i = j
  /\ ~errored => \A r \in Emits : r <= started =>
       r \in inflight \/ \E i \in 1..Len(pushed) : pushed[i] = r
  /\ sync => /\ inflight \subseteq {started}
             /\ \A i, j \in 1..Len(pushed) : i < j => pushed[i] < pushed[j]
  /\ ended => written = NRows
  /\ flush # "no" => ended /\ started = NRows
  /\ flush \in {"done", "end"} /\ ~errored => running = 0
  /\ flush = "end" => ~errored /\ BufLen = 0

LEMMA FlowInit == StreamInit => FlowInv
BY StreamAssumption DEF StreamInit, FlowInv, BufLen, WritableLen, Writing

LEMMA FlowStep == Counted /\ Counted' /\ FlowInv /\ [StreamNext]_streamVars => FlowInv'
<1> SUFFICES ASSUME Counted, Counted', FlowInv, [StreamNext]_streamVars PROVE FlowInv'
  OBVIOUS
<1>0. /\ written \in Nat /\ started \in Nat /\ started <= written
      /\ running \in Nat /\ late \in Nat /\ lateLen \in Nat
      /\ Len(pushed) \in Nat /\ taken \in Nat /\ taken <= Len(pushed)
      /\ running' \in Nat
      /\ HWM \in Nat \ {0} /\ Parallel \in Nat \ {0}
  BY StreamAssumption DEF Counted, StreamTypeOK
<1> USE <1>0 DEF FlowInv, BufLen, WritableLen, Writing
<1>1. CASE Write
  BY <1>1 DEF Write
<1>2. CASE EndOfInput
  BY <1>2 DEF EndOfInput
<1>3. CASE ReadMore
  BY <1>3 DEF ReadMore
<1>4. CASE Take
  BY <1>4 DEF Take
<1>5. CASE EndOfOutput
  BY <1>5 DEF EndOfOutput
<1>6. CASE PeerFails
  BY <1>6 DEF PeerFails
<1>7. CASE Transform
  <2>1. /\ started' = started + 1 /\ running' = running + 1 /\ started < written
        /\ written' = written /\ pushed' = pushed /\ taken' = taken
        /\ late = 0 /\ ~parked /\ ~parked' /\ (ended' <=> ended)
        /\ backPressure' <=> backPressure
    BY <1>7 DEF Transform
  <2>2. CASE CallbackEarly
    <3>1. late' = 0
      BY <1>7, <2>2 DEF Transform
    <3> QED
      BY <2>1, <2>2, <3>1 DEF CallbackEarly
  <2>3. CASE ~CallbackEarly
    <3>1. late' = started + 1 /\ lateLen' = BufLen
      BY <1>7, <2>3 DEF Transform
    <3> QED
      BY <2>1, <3>1
  <2> QED
    BY <2>2, <2>3
<1>8. ASSUME NEW r \in Rows, Done(r) PROVE FlowInv'
  <2> DEFINE e == Chunks(r)
  <2>0. ~backPressure' => (r \in Emits => ~(BufLen + e >= HWM)) /\ (r \notin Emits => ~backPressure)
    BY <1>8, Zenon DEF Done, LateAfter, FlushAfter
  <2>1. /\ e \in {0, 1}
        /\ Len(pushed') = Len(pushed) + e
        /\ ~backPressure' => BufLen + e < HWM
    <3>1. CASE r \in Emits
      BY <1>8, <2>0, <3>1, AppendProperties
      DEF Done, LateAfter, FlushAfter, Chunks, Counted, StreamTypeOK
    <3>2. CASE r \notin Emits
      BY <1>8, <2>0, <3>2 DEF Done, LateAfter, FlushAfter, Chunks
    <3> QED
      BY <3>1, <3>2
  <2>2. /\ running' = running - 1
        /\ written' = written /\ started' = started /\ taken' = taken
        /\ ended' <=> ended
        /\ r # 0
    BY <1>8, StreamAssumption DEF Done, LateAfter, FlushAfter, Rows
  <2>3. CASE late = r
    <3>1. late' = 0
      BY <1>8, <2>3 DEF Done, LateAfter, FlushAfter
    <3>2. ~parked' => ~Park(BufLen + e)
      BY <1>8, <2>3, Zenon DEF Done, LateAfter, FlushAfter
    <3>3. ~parked' => ended \/ BufLen + e = lateLen \/ BufLen + e < HWM
      BY <2>1, <3>2 DEF Park
    <3> HIDE DEF e
    <3> QED
      BY <2>1, <2>2, <2>3, <3>1, <3>3
  <2>4. CASE late # r
    <3>1. late' = late /\ lateLen' = lateLen /\ parked' = parked
      BY <1>8, <2>4, Zenon DEF Done, LateAfter, FlushAfter
    <3>2. parked' <=> parked
      BY <3>1
    <3>3. WritableLen' = WritableLen
      BY <2>2, <3>1, <3>2
    <3> HIDE DEF e
    <3> QED
      BY <2>1, <2>2, <3>1, <3>2, <3>3
  <2> QED
    BY <2>3, <2>4
<1>9. ASSUME NEW r \in Rows, DoneError(r) PROVE FlowInv'
  BY <1>9 DEF DoneError
<1>10. CASE Flush
  BY <1>10 DEF Flush
<1>11. CASE UNCHANGED streamVars
  BY <1>11 DEF streamVars
<1> QED
  BY <1>1, <1>2, <1>3, <1>4, <1>5, <1>6, <1>7, <1>8, <1>9, <1>10, <1>11 DEF StreamNext

LEMMA RowInit == StreamInit => RowInv
<1> SUFFICES ASSUME StreamInit PROVE RowInv
  OBVIOUS
<1>1. Len(pushed) = 0 /\ 1..Len(pushed) = {}
  BY EmptySeq DEF StreamInit
<1>2. \A r \in Emits : ~(r <= 0)
  BY StreamAssumption
<1> QED
  BY <1>1, <1>2 DEF StreamInit, RowInv

LEMMA RowStep == Counted /\ RowInv /\ [StreamNext]_streamVars => RowInv'
<1> SUFFICES ASSUME Counted, RowInv, [StreamNext]_streamVars PROVE RowInv'
  OBVIOUS
<1>0. /\ written \in Nat /\ started \in Nat /\ started <= written /\ written <= NRows
      /\ NRows \in Nat /\ running \in Nat
      /\ Len(pushed) \in Nat /\ taken \in Nat /\ taken <= Len(pushed)
      /\ inflight \subseteq 1..started
      /\ Emits \subseteq Nat
      /\ pushed \in Seq(Emits)
      /\ \A i \in 1..Len(pushed) : pushed[i] \in Nat
  <2>1. Emits \subseteq Nat
    BY StreamAssumption
  <2>2. \A i \in 1..Len(pushed) : pushed[i] \in Nat
    BY <2>1, ElementOfSeq DEF Counted, StreamTypeOK
  <2> QED
    BY <2>1, <2>2, StreamAssumption DEF Counted, StreamTypeOK
<1> USE <1>0 DEF RowInv, BufLen
<1>1. CASE Write
  BY <1>1 DEF Write
<1>2. CASE EndOfInput
  BY <1>2 DEF EndOfInput
<1>3. CASE ReadMore
  BY <1>3 DEF ReadMore
<1>4. CASE Take
  BY <1>4 DEF Take
<1>5. CASE EndOfOutput
  BY <1>5 DEF EndOfOutput
<1>6. CASE PeerFails
  BY <1>6 DEF PeerFails
<1>7. CASE Transform
  BY <1>7 DEF Transform, Settled
<1>8. ASSUME NEW r \in Rows, Done(r) PROVE RowInv'
  <2>1. /\ r \in inflight /\ inflight' = inflight \ {r} /\ running' = running - 1
        /\ written' = written /\ started' = started /\ taken' = taken
        /\ ~errored /\ ~errored' /\ (ended' <=> ended) /\ (sync' <=> sync)
    BY <1>8 DEF Done, LateAfter, FlushAfter
  <2>2. running > 0
    BY <2>1, InflightFinite DEF Counted
  <2>3. flush \in {"no", "ending"}
    BY <2>1, <2>2 DEF Counted, StreamTypeOK
  <2>4. /\ flush' # "no" => flush # "no"
        /\ flush' \in {"done", "end"} => running' = 0
        /\ flush' # "end"
    BY <1>8, <2>1, <2>3 DEF Done, LateAfter, FlushAfter
  <2>5. CASE r \in Emits
    <3>1. pushed' = Append(pushed, r)
      BY <1>8, <2>5 DEF Done, LateAfter, FlushAfter
    <3>2. /\ Len(pushed') = Len(pushed) + 1
          /\ \A i \in 1..Len(pushed) : pushed'[i] = pushed[i]
          /\ pushed'[Len(pushed) + 1] = r
      BY <3>1, <2>5, AppendProperties
    <3>3. \A i \in 1..Len(pushed') : pushed'[i] <= started' /\ pushed'[i] \notin inflight'
      BY <2>1, <3>2
    <3>4. \A i, j \in 1..Len(pushed') : pushed'[i] = pushed'[j] => i = j
      BY <2>1, <3>2
    <3>5. \A q \in Emits : q <= started' =>
            q \in inflight' \/ \E i \in 1..Len(pushed') : pushed'[i] = q
      <4> SUFFICES ASSUME NEW q \in Emits, q <= started', q \notin inflight'
                   PROVE  \E i \in 1..Len(pushed') : pushed'[i] = q
        OBVIOUS
      <4>1. CASE q = r
        BY <3>2, <4>1
      <4>2. CASE q # r
        <5>1. PICK i \in 1..Len(pushed) : pushed[i] = q
          BY <2>1, <4>2
        <5> QED
          BY <3>2, <5>1
      <4> QED
        BY <4>1, <4>2
    <3>6. sync => /\ inflight' \subseteq {started'}
                  /\ \A i, j \in 1..Len(pushed') : i < j => pushed'[i] < pushed'[j]
      <4> SUFFICES ASSUME sync
                   PROVE  /\ inflight' \subseteq {started'}
                          /\ \A i, j \in 1..Len(pushed') : i < j => pushed'[i] < pushed'[j]
        OBVIOUS
      <4>1. r = started /\ inflight' \subseteq {started'}
        BY <2>1
      <4>2. \A i \in 1..Len(pushed) : pushed[i] < r
        BY <2>1, <4>1
      <4> QED
        BY <3>2, <4>1, <4>2
    <3> QED
      BY <2>1, <2>4, <3>3, <3>4, <3>5, <3>6
  <2>6. CASE r \notin Emits
    <3>1. pushed' = pushed
      BY <1>8, <2>6 DEF Done, LateAfter, FlushAfter
    <3> QED
      BY <2>1, <2>4, <2>6, <3>1
  <2> QED
    BY <2>5, <2>6
<1>9. ASSUME NEW r \in Rows, DoneError(r) PROVE RowInv'
  <2>1. running > 0
    BY <1>9, InflightFinite DEF Counted, DoneError
  <2> QED
    BY <1>9, <2>1 DEF DoneError
<1>10. CASE Flush
  BY <1>10 DEF Flush
<1>11. CASE UNCHANGED streamVars
  BY <1>11 DEF streamVars
<1> QED
  BY <1>1, <1>2, <1>3, <1>4, <1>5, <1>6, <1>7, <1>8, <1>9, <1>10, <1>11 DEF StreamNext
-----------------------------------------------------------------------------
StreamIInv == Counted /\ FlowInv /\ RowInv

LEMMA StreamInvariance == StreamSpec => []StreamIInv
<1>1. StreamInit => StreamIInv
  BY CountedInit, FlowInit, RowInit DEF StreamIInv
<1>2. StreamIInv /\ [StreamNext]_streamVars => StreamIInv'
  BY CountedStep, FlowStep, RowStep DEF StreamIInv
<1> QED
  BY <1>1, <1>2, PTL DEF StreamSpec

\* Every variable of the transformer keeps its range, whatever the handlers do.
THEOREM StreamTypeCorrect == StreamSpec => []StreamTypeOK
<1>1. StreamIInv => StreamTypeOK
  BY DEF StreamIInv, Counted
<1> QED
  BY <1>1, StreamInvariance, PTL

\* state.running is the number of handlers in progress and never passes
\* options.parallel, although write callbacks are given back early.
THEOREM ParallelLimitHolds == StreamSpec => []ParallelLimit
<1>1. StreamIInv => ParallelLimit
  BY DEF StreamIInv, Counted, FlowInv, ParallelLimit
<1> QED
  BY <1>1, StreamInvariance, PTL

\* The memory a report needs does not depend on its length: what is buffered
\* is bounded by the two high-water marks and the parallelism.
THEOREM MemoryBounded == StreamSpec => []MemoryBound
<1>1. StreamIInv => MemoryBound
  <2> SUFFICES ASSUME StreamIInv PROVE MemoryBound
    OBVIOUS
  <2>1. /\ written \in Nat /\ started \in Nat /\ running \in Nat
        /\ Len(pushed) \in Nat /\ taken \in Nat
        /\ HWM \in Nat /\ Parallel \in Nat
    BY StreamAssumption DEF StreamIInv, Counted, StreamTypeOK
  <2> QED
    BY <2>1 DEF StreamIInv, FlowInv, MemoryBound, BufLen, WritableLen, Writing
<1> QED
  BY <1>1, StreamInvariance, PTL

\* Both limits together.
THEOREM LimitsHold == StreamSpec => []WithinLimits
<1>1. ParallelLimit /\ MemoryBound => WithinLimits
  BY DEF WithinLimits
<1> QED
  BY <1>1, ParallelLimitHolds, MemoryBounded, PTL

\* Nothing is pushed after push(null): _flush waits for the running handlers.
THEOREM NothingAfterEnd == StreamSpec => []NoPushAfterEnd
<1>1. StreamIInv => NoPushAfterEnd
  <2> SUFFICES ASSUME StreamIInv, flush \in {"done", "end"}, ~errored
               PROVE  inflight = {} /\ started = NRows
    BY DEF NoPushAfterEnd
  <2>1. running = 0 /\ started = NRows
    BY DEF StreamIInv, RowInv
  <2>2. \A r \in inflight : Cardinality(inflight) > 0
    BY InflightFinite DEF StreamIInv, Counted
  <2> QED
    BY <2>1, <2>2 DEF StreamIInv, Counted
<1> QED
  BY <1>1, StreamInvariance, PTL
-----------------------------------------------------------------------------
(***************************************************************************)
(* The transformer implements RowStream.                                   *)
(***************************************************************************)
Prefix == SubSeq(pushed, 1, taken)

LEMMA PrefixOf ==
  ASSUME NEW S, NEW s \in Seq(S), NEW n \in 0..Len(s)
  PROVE  /\ SubSeq(s, 1, n) \in Seq(S)
         /\ Len(SubSeq(s, 1, n)) = n
         /\ \A i \in 1..n : SubSeq(s, 1, n)[i] = s[i]
<1>1. \A i \in 1..n : s[i] \in S
  BY ElementOfSeq, LenProperties
<1> QED
  BY <1>1, SubSeqProperties, LenProperties

Status == IF errored THEN "failed" ELSE IF flush = "end" THEN "closed" ELSE "open"

LEMMA TakenRows ==
  ASSUME StreamTypeOK
  PROVE  Promise!Delivered = {pushed[i] : i \in 1..taken}
BY PrefixOf DEF Promise!Delivered, StreamTypeOK

\* A step that takes nothing from the buffer hands nothing to the consumer.
LEMMA SamePrefix ==
  ASSUME StreamIInv, StreamIInv', taken' = taken,
         \/ pushed' = pushed
         \/ \E r \in Emits : pushed' = Append(pushed, r)
  PROVE  Prefix' = Prefix
<1>1. StreamTypeOK /\ StreamTypeOK'
  BY DEF StreamIInv, Counted
<1>2. /\ Prefix \in Seq(Emits) /\ Prefix' \in Seq(Emits)
      /\ Len(Prefix') = Len(Prefix)
      /\ Len(Prefix) = taken
  BY <1>1, PrefixOf DEF StreamTypeOK, Prefix
<1>3. \A i \in 1..taken : pushed'[i] = pushed[i]
  BY <1>1, AppendProperties DEF StreamTypeOK
<1>4. \A i \in 1..Len(Prefix) : Prefix'[i] = Prefix[i]
  BY <1>1, <1>2, <1>3, PrefixOf DEF StreamTypeOK, Prefix
<1> QED
  BY <1>2, <1>4, SeqEqual

LEMMA RefinementInit == StreamInit => Promise!Init
<1> SUFFICES ASSUME StreamInit PROVE Promise!Init
  OBVIOUS
<1>1. SubSeq(pushed, 1, taken) = <<>>
  BY SubSeqEmpty DEF StreamInit
<1> QED
  BY <1>1 DEF StreamInit, Promise!Init

LEMMA SyncStays == [StreamNext]_streamVars => sync' = sync
BY Zenon DEF StreamNext, streamVars, Write, EndOfInput, ReadMore, Take, EndOfOutput,
         PeerFails, Transform, Done, DoneError, Flush

LEMMA RefinementStep ==
  StreamIInv /\ StreamIInv' /\ [StreamNext]_streamVars => [Promise!Next]_(Promise!avars)
<1> SUFFICES ASSUME StreamIInv, StreamIInv', [StreamNext]_streamVars
             PROVE  [Promise!Next]_(Promise!avars)
  OBVIOUS
<1>a. StreamTypeOK /\ StreamTypeOK'
  BY DEF StreamIInv, Counted
<1>s. sync' = sync
  BY SyncStays
<1>b. ASSUME Prefix' = Prefix, Status' = Status
      PROVE  [Promise!Next]_(Promise!avars)
  BY <1>b, <1>s, Zenon DEF Promise!avars, Prefix, Status
<1>1. CASE Take
  <2> DEFINE r == pushed[taken + 1]
  <2>1. /\ taken' = taken + 1 /\ pushed' = pushed /\ ~errored /\ flush # "end"
        /\ taken + 1 \in 1..Len(pushed) /\ taken \in Nat
        /\ errored' = errored /\ flush' = flush
    BY <1>1, <1>a DEF Take, BufLen, StreamIInv, RowInv, StreamTypeOK
  <2>2. r \in Emits
    BY <1>a, <2>1, ElementOfSeq DEF StreamTypeOK
  <2>3. Prefix' = Append(Prefix, r)
    <3>1. Append(Prefix, r) \in Seq(Emits) /\ Len(Append(Prefix, r)) = taken + 1
          /\ Append(Prefix, r)[taken + 1] = r
          /\ \A i \in 1..taken : Append(Prefix, r)[i] = pushed[i]
      BY <1>a, <2>1, <2>2, PrefixOf, AppendProperties DEF StreamTypeOK, Prefix
    <3>2. Prefix' \in Seq(Emits) /\ Len(Prefix') = taken + 1
          /\ \A i \in 1..taken + 1 : Prefix'[i] = pushed[i]
      BY <1>a, <2>1, PrefixOf DEF StreamTypeOK, Prefix
    <3>3. \A i \in 1..Len(Prefix') : Prefix'[i] = Append(Prefix, r)[i]
      BY <2>1, <3>1, <3>2
    <3> QED
      BY <3>1, <3>2, <3>3, SeqEqual
  <2>4. r \notin Promise!Delivered
    BY <1>a, <2>1, TakenRows DEF StreamIInv, RowInv
  <2>5. ASSUME sync, NEW q \in Emits, q < r PROVE q \in Promise!Delivered
    <3>1. q \in Nat /\ r \in Nat /\ started \in Nat /\ r <= started
      <4>1. Emits \subseteq Nat
        BY StreamAssumption
      <4>2. r <= started
        BY <2>1 DEF StreamIInv, RowInv
      <4>3. started \in Nat
        BY <1>a, StreamAssumption DEF StreamTypeOK
      <4>4. q \in Nat /\ r \in Nat
        BY <2>2, <2>5, <4>1
      <4> QED
        BY <4>2, <4>3, <4>4
    <3>2. q \notin inflight
      BY <2>5, <3>1 DEF StreamIInv, RowInv
    <3>3. PICK i \in 1..Len(pushed) : pushed[i] = q
      BY <2>1, <2>5, <3>1, <3>2 DEF StreamIInv, RowInv
    <3>4. ~(taken + 1 < i) /\ i # taken + 1
      BY <2>1, <2>5, <3>1, <3>3 DEF StreamIInv, RowInv
    <3>5. i \in 1..taken
      BY <1>a, <2>1, <3>3, <3>4 DEF StreamTypeOK
    <3> QED
      BY <1>a, <3>3, <3>5, TakenRows
  <2>6. Promise!Deliver(r)
    BY <1>s, <2>1, <2>3, <2>4, <2>5 DEF Promise!Deliver, Prefix
  <2> QED
    BY <2>2, <2>6 DEF Promise!Next
<1>2. CASE EndOfOutput
  <2>1. /\ pushed' = pushed /\ taken' = taken /\ ~errored /\ ~errored'
        /\ flush = "done" /\ flush' = "end" /\ BufLen = 0
    BY <1>2 DEF EndOfOutput
  <2>2. running = 0 /\ started = NRows /\ inflight = {}
    <3>1. running = 0 /\ started = NRows
      BY <2>1 DEF StreamIInv, RowInv
    <3> QED
      BY <3>1, <1>a, InflightFinite DEF StreamIInv, Counted
  <2>3. taken = Len(pushed)
    BY <2>1, <1>a DEF BufLen, StreamTypeOK
  <2>4. Promise!Delivered = Emits
    <3>1. \A r \in Emits : \E i \in 1..Len(pushed) : pushed[i] = r
      BY <2>1, <2>2, StreamAssumption DEF StreamIInv, RowInv
    <3>2. \A i \in 1..Len(pushed) : pushed[i] \in Emits
      BY <1>a, ElementOfSeq DEF StreamTypeOK
    <3> QED
      BY <1>a, <2>3, <3>1, <3>2, TakenRows
  <2>5. Promise!Close
    BY <1>s, <2>1, <2>4 DEF Promise!Close
  <2> QED
    BY <2>5 DEF Promise!Next
<1>3. ASSUME errored', ~errored, flush # "end", Prefix' = Prefix
      PROVE  [Promise!Next]_(Promise!avars)
  BY <1>3, <1>s DEF Promise!Next, Promise!Abort, Prefix
<1>4. CASE PeerFails
  <2>1. Prefix' = Prefix
    BY <1>4, SamePrefix DEF PeerFails
  <2> QED
    BY <1>3, <1>4, <2>1 DEF PeerFails
<1>5. ASSUME NEW r \in Rows, DoneError(r) PROVE [Promise!Next]_(Promise!avars)
  <2>1. Prefix' = Prefix
    BY <1>5, SamePrefix DEF DoneError
  <2>2. flush # "end"
    BY <1>5, InflightFinite DEF DoneError, StreamIInv, RowInv, Counted
  <2> QED
    BY <1>3, <1>5, <2>1, <2>2 DEF DoneError
<1>6. ASSUME NEW r \in Rows, Done(r) PROVE [Promise!Next]_(Promise!avars)
  <2>1. Prefix' = Prefix
    BY <1>6, SamePrefix DEF Done, LateAfter, FlushAfter
  <2>2. Status' = Status
    <3>1. flush # "end"
      BY <1>6, InflightFinite DEF Done, LateAfter, FlushAfter, StreamIInv, RowInv, Counted
    <3>2. flush' # "end" /\ errored' = errored
      BY <1>6, <3>1 DEF Done, LateAfter, FlushAfter
    <3> QED
      BY <3>1, <3>2, Zenon DEF Status
  <2> QED
    BY <1>b, <2>1, <2>2
<1>7. CASE Flush
  <2>1. Prefix' = Prefix
    BY <1>7, SamePrefix DEF Flush
  <2>2. Status' = Status
    BY <1>7, Zenon DEF Flush, Status
  <2> QED
    BY <1>b, <2>1, <2>2
<1>8. CASE Write \/ EndOfInput \/ ReadMore \/ Transform \/ UNCHANGED streamVars
  <2>1. pushed' = pushed /\ taken' = taken /\ flush' = flush /\ errored' = errored
    BY <1>8, Zenon DEF Write, EndOfInput, ReadMore, Transform, streamVars
  <2>2. Prefix' = Prefix /\ Status' = Status
    BY <2>1, SamePrefix DEF Status
  <2> QED
    BY <1>b, <2>2
<1> QED
  BY <1>1, <1>2, <1>4, <1>5, <1>6, <1>7, <1>8 DEF StreamNext

\* The transformer implements RowStream: every row that yields something
\* reaches the consumer once, in order when handlers are synchronous, and the
\* consumer is told of the end only after the last of them.
THEOREM ImplementsRowStream == StreamSpec => RowStreamSpec
<1> QED
  BY RefinementInit, RefinementStep, StreamInvariance, PTL
     DEF StreamSpec, RowStreamSpec, Promise!Spec

-----------------------------------------------------------------------------
(***************************************************************************)
(* ReportAccumulation, for every number of files and rows.                 *)
(*                                                                         *)
(* The properties speak of the estimates already made; the invariant says  *)
(* what both accumulator objects hold at every point of both passes.       *)
(***************************************************************************)
\* What depends on the files' contents takes them as a parameter, so that a
\* step that leaves them alone leaves it alone, too.
KnownIn(c, id) == id[2] <= Len(c[id[1]]) /\ c[id[1]][id[2]] = "known"

\* What the first pass has counted when it comes to row r of file f.
Before(id, f, r) == id[1] < f \/ (id[1] = f /\ id[2] < r)
Partial(c, f, r) ==
  [id \in RowIds |-> IF KnownIn(c, id) /\ Before(id, f, r) THEN 1 ELSE 0]

\* What file g is estimated from: the first row of every file before it was
\* added to accData a second time.
Base(c, g) ==
  [id \in RowIds |->
     IF ~KnownIn(c, id) THEN 0 ELSE IF id[2] = 1 /\ id[1] < g THEN 2 ELSE 1]

RowBound == pc \in {"accumulate", "enrich"} => row <= LastRow + 1

FirstPass == pc = "accumulate" => live = 1 /\ heap[1] = Partial(content, file, row)

\* Before the first row of a file accData itself is installed, after it a copy.
SecondPass ==
  /\ pc = "open" =>
       row = 1 /\ accData \in Addr /\ heap[accData] = Base(content, file)
  /\ pc = "enrich" =>
       /\ accData \in Addr
       /\ heap[live] = Base(content, file)
       /\ row = 1 => live = accData
       /\ row > 1 => live # accData /\ heap[accData] = Base(content, file + 1)

\* Rows are estimated one after the other, file by file.
Progress ==
  /\ pc = "accumulate" => \A f \in Files : out[f] = <<>>
  /\ pc = "open" => \A f \in Files : f >= file => out[f] = <<>>
  /\ pc = "enrich" => /\ Len(out[file]) = row - 1
                      /\ \A f \in Files : f > file => out[f] = <<>>

Estimates ==
  \A f \in Files, i \in 1..MaxRows : FromOthers(f, i) => out[f][i] = Base(content, f)

ReportIInv == ReportTypeOK /\ RowBound /\ FirstPass /\ SecondPass /\ Progress /\ Estimates
-----------------------------------------------------------------------------
(***************************************************************************)
(* What counting rows does to the two shapes of an accumulator.            *)
(***************************************************************************)
LEMMA ContentShape ==
  ASSUME NEW c \in FileContents
  PROVE  /\ c \in Seq(Kinds)
         /\ Len(c) \in 0..MaxRows
         /\ \A i \in 1..Len(c) : c[i] \in Kinds
<1>1. PICK n \in 0..MaxRows : c \in [1..n -> Kinds]
  BY DEF FileContents
<1>2. n \in Nat
  BY <1>1, ReportAssumption
<1>3. c \in Seq(Kinds) /\ Len(c) = n
  BY <1>1, <1>2
<1> QED
  BY <1>1, <1>3

LEMMA Shapes ==
  ASSUME NEW c \in [Files -> FileContents], NEW f \in Files
  PROVE  /\ Len(c[f]) \in Nat
         /\ Len(c[f]) <= MaxRows
         /\ \A id \in RowIds : id = <<id[1], id[2]>> /\ id[1] \in Files /\ id[2] \in 1..MaxRows
<1>1. c[f] \in FileContents
  OBVIOUS
<1>2. Len(c[f]) \in 0..MaxRows
  BY <1>1, ContentShape
<1> QED
  BY <1>2, ReportAssumption DEF RowIds, Files

LEMMA PartialType ==
  ASSUME NEW c \in [Files -> FileContents], NEW f, NEW r
  PROVE  /\ Partial(c, f, r) \in [RowIds -> Nat]
         /\ Base(c, f) \in [RowIds -> Nat]
  BY DEF Partial, Base

LEMMA PartialStart ==
  ASSUME NEW c \in [Files -> FileContents]
  PROVE  Partial(c, 1, 1) = NoCounts
<1>1. \A id \in RowIds : ~Before(id, 1, 1)
  BY ReportAssumption DEF RowIds, Files, Before
<1> QED
  BY <1>1 DEF Partial, NoCounts

\* A row's count is the only one that changes when the row is added.
LEMMA PartialRow ==
  ASSUME NEW c \in [Files -> FileContents], NEW f \in Files,
         NEW r \in 1..MaxRows, r <= Len(c[f])
  PROVE  Partial(c, f, r + 1) =
           IF c[f][r] = "known"
           THEN [Partial(c, f, r) EXCEPT ![<<f, r>>] = @ + 1]
           ELSE Partial(c, f, r)
<1>1. <<f, r>> \in RowIds
  BY DEF RowIds
<1>2. \A id \in RowIds : Before(id, f, r + 1) <=> Before(id, f, r) \/ id = <<f, r>>
  BY ReportAssumption DEF Before, RowIds, Files
<1>3. ~Before(<<f, r>>, f, r)
  BY ReportAssumption DEF Before, Files
<1>4. KnownIn(c, <<f, r>>) <=> c[f][r] = "known"
  BY DEF KnownIn
<1> QED
  BY <1>1, <1>2, <1>3, <1>4 DEF Partial

\* Nothing is left of a file whose last row was added.
LEMMA PartialFile ==
  ASSUME NEW c \in [Files -> FileContents], NEW f \in Files,
         NEW r \in Nat, r > Len(c[f])
  PROVE  /\ Partial(c, f, r) = Partial(c, f + 1, 1)
         /\ f = NFiles => Partial(c, f, r) = Base(c, 1)
<1>1. \A id \in RowIds : KnownIn(c, id) => (Before(id, f, r) <=> Before(id, f + 1, 1))
  BY Shapes, ReportAssumption DEF KnownIn, Before, RowIds, Files
<1>2. ASSUME f = NFiles
      PROVE  \A id \in RowIds : KnownIn(c, id) => Before(id, f, r) /\ ~(id[1] < 1)
  BY <1>2, Shapes, ReportAssumption DEF KnownIn, Before, RowIds, Files
<1> QED
  BY <1>1, <1>2 DEF Partial, Base

\* Adding the first row of a file to what it is estimated from gives what the
\* next file is estimated from.
LEMMA BaseRow ==
  ASSUME NEW c \in [Files -> FileContents], NEW f \in Files, 1 <= Len(c[f])
  PROVE  Base(c, f + 1) =
           IF c[f][1] = "known"
           THEN [Base(c, f) EXCEPT ![<<f, 1>>] = @ + 1]
           ELSE Base(c, f)
<1>1. <<f, 1>> \in RowIds
  BY Shapes, ReportAssumption DEF RowIds
<1>2. \A id \in RowIds :
        id[2] = 1 /\ id[1] < f + 1 <=> (id[2] = 1 /\ id[1] < f) \/ id = <<f, 1>>
  BY ReportAssumption DEF RowIds, Files
<1>3. ~(f < f)
  BY ReportAssumption DEF Files
<1>4. KnownIn(c, <<f, 1>>) <=> c[f][1] = "known"
  BY DEF KnownIn
<1> QED
  BY <1>1, <1>2, <1>3, <1>4 DEF Base

LEMMA BaseEmptyFile ==
  ASSUME NEW c \in [Files -> FileContents], NEW f \in Files, Len(c[f]) = 0
  PROVE  Base(c, f + 1) = Base(c, f)
<1>1. \A id \in RowIds : KnownIn(c, id) => id[1] # f
  BY ReportAssumption DEF RowIds, KnownIn
<1>2. \A id \in RowIds : KnownIn(c, id) => (id[1] < f + 1 <=> id[1] < f)
  BY <1>1, ReportAssumption DEF RowIds, Files
<1> QED
  BY <1>2 DEF Base

\* Adding a row is one of the two cases above.
LEMMA AccumulateRowCounts ==
  ASSUME ReportTypeOK, row <= LastRow, NEW counts
  PROVE  Accumulate(counts) =
           IF content[file][row] = "known"
           THEN [counts EXCEPT ![<<file, row>>] = @ + 1] ELSE counts
  BY DEF Accumulate, Kind, RowId

LEMMA OtherCell ==
  ASSUME accData \in Addr
  PROVE  /\ FreshCopy \in Addr
         /\ FreshCopy # accData
         /\ \A a \in Addr : a # accData => a = FreshCopy
<1>1. \E a \in Addr : a # accData
  BY DEF Addr
<1>2. FreshCopy \in Addr /\ FreshCopy # accData
  BY <1>1 DEF FreshCopy
<1> QED
  BY <1>2 DEF Addr
-----------------------------------------------------------------------------
(***************************************************************************)
(* The invariant.                                                          *)
(***************************************************************************)
LEMMA InvInit == ReportInit => ReportIInv
<1> SUFFICES ASSUME ReportInit PROVE ReportIInv
  OBVIOUS
<1>1. ReportTypeOK
  <2>1. NoCounts \in [RowIds -> Nat]
    BY DEF NoCounts
  <2>2. <<>> \in Seq([RowIds -> Nat])
    BY EmptySeq
  <2> QED
    BY <2>1, <2>2, ReportAssumption DEF ReportInit, ReportTypeOK, Addr, Files
<1>2. RowBound
  BY <1>1, Shapes, ReportAssumption DEF ReportInit, RowBound, LastRow, ReportTypeOK
<1>3. FirstPass
  BY PartialStart DEF ReportInit, FirstPass, Addr
<1>4. Estimates
  <2>1. \A f \in Files : Len(out[f]) = 0
    BY EmptySeq DEF ReportInit
  <2> QED
    BY <2>1 DEF Estimates, FromOthers
<1>5. SecondPass
  BY DEF ReportInit, SecondPass
<1>6. Progress
  BY DEF ReportInit, Progress
<1> QED
  BY <1>1, <1>2, <1>3, <1>4, <1>5, <1>6 DEF ReportIInv

LEMMA TypeStep ==
  ReportTypeOK /\ RowBound /\ SecondPass /\ [ReportNext]_reportVars => ReportTypeOK'
<1> SUFFICES ASSUME ReportTypeOK, RowBound, SecondPass, [ReportNext]_reportVars
             PROVE  ReportTypeOK'
  OBVIOUS
<1>1. LastRow \in Nat /\ LastRow <= MaxRows
  BY Shapes DEF ReportTypeOK, LastRow
<1>2. ASSUME row <= LastRow, NEW counts \in [RowIds -> Nat]
      PROVE  Accumulate(counts) \in [RowIds -> Nat]
  <2>1. RowId \in RowIds
    BY <1>1, <1>2, ReportAssumption DEF ReportTypeOK, RowId, RowIds
  <2>2. counts[RowId] + 1 \in Nat
    BY <1>2, <2>1
  <2> QED
    BY <1>2, <2>1, <2>2 DEF Accumulate
<1>3. CASE AccumulateRow
  <2>1. heap' \in [Addr -> [RowIds -> Nat]]
    BY <1>2, <1>3 DEF AccumulateRow, ReportTypeOK
  <2>2. row' \in 1..MaxRows + 1
    BY <1>1, <1>3, ReportAssumption DEF AccumulateRow, ReportTypeOK
  <2> QED
    BY <1>3, <2>1, <2>2 DEF AccumulateRow, ReportTypeOK
<1>4. CASE AccumulateNextFile
  BY <1>4, ReportAssumption DEF AccumulateNextFile, ReportTypeOK, Files
<1>5. CASE AccumulationDone
  BY <1>5, ReportAssumption DEF AccumulationDone, ReportTypeOK, Files
<1>6. CASE OpenFile
  BY <1>6 DEF OpenFile, ReportTypeOK, SecondPass
<1>7. CASE EnrichRow
  <2>1. accData \in Addr
    BY <1>7 DEF EnrichRow, SecondPass
  <2>2. FreshCopy \in Addr
    BY <2>1, OtherCell
  <2>3. heap' \in [Addr -> [RowIds -> Nat]]
    BY <1>2, <1>7 DEF EnrichRow, ReportTypeOK
  <2>4. row' \in 1..MaxRows + 1
    BY <1>1, <1>7, ReportAssumption DEF EnrichRow, ReportTypeOK
  <2>5. Basis \in [RowIds -> Nat]
    BY DEF Basis, NoCounts, ReportTypeOK
  <2>6. out' \in [Files -> Seq([RowIds -> Nat])]
    <3>1. Append(out[file], Basis) \in Seq([RowIds -> Nat])
      BY <2>5, AppendProperties DEF ReportTypeOK
    <3> QED
      BY <1>7, <3>1 DEF EnrichRow, ReportTypeOK
  <2> QED
    BY <1>7, <2>2, <2>3, <2>4, <2>6 DEF EnrichRow, ReportTypeOK
<1>8. CASE CloseFile
  BY <1>8, ReportAssumption DEF CloseFile, ReportTypeOK, Files
<1>9. CASE RowThrows
  BY <1>9 DEF RowThrows, Fail, ReportTypeOK
<1>10. CASE StreamFails
  BY <1>10 DEF StreamFails, Fail, ReportTypeOK
<1>11. CASE UNCHANGED reportVars
  BY <1>11 DEF reportVars, ReportTypeOK
<1> QED
  BY <1>3, <1>4, <1>5, <1>6, <1>7, <1>8, <1>9, <1>10, <1>11 DEF ReportNext

LEMMA InvStep == ReportIInv /\ [ReportNext]_reportVars => ReportIInv'
<1> SUFFICES ASSUME ReportIInv, [ReportNext]_reportVars PROVE ReportIInv'
  OBVIOUS
<1>1. ReportTypeOK'
  BY TypeStep DEF ReportIInv
<1>2. /\ LastRow \in Nat
      /\ LastRow <= MaxRows
      /\ file \in Files
      /\ row \in Nat \ {0}
      /\ content \in [Files -> FileContents]
  <2>1. LastRow \in Nat /\ LastRow <= MaxRows
    BY Shapes DEF ReportIInv, ReportTypeOK, LastRow
  <2> QED
    BY <2>1, ReportAssumption DEF ReportIInv, ReportTypeOK
<1>3. ASSUME UNCHANGED <<content, out>> PROVE Estimates'
  BY <1>3 DEF ReportIInv, Estimates, FromOthers
<1>4. ASSUME pc' \in {"done", "failed"}, UNCHANGED <<content, out>> PROVE ReportIInv'
  BY <1>1, <1>3, <1>4 DEF ReportIInv, RowBound, FirstPass, SecondPass, Progress
<1>5. CASE AccumulateRow
  <2>1. RowBound'
    BY <1>2, <1>5 DEF AccumulateRow, RowBound, LastRow
  <2>2. heap[1] = Partial(content, file, row) /\ live = 1
    BY <1>5 DEF AccumulateRow, ReportIInv, FirstPass
  <2>3. Accumulate(heap[1]) = Partial(content, file, row + 1)
    <3>1. row \in 1..MaxRows /\ row <= Len(content[file])
      BY <1>2, <1>5, ReportAssumption DEF AccumulateRow, LastRow
    <3>2. Accumulate(heap[1]) = IF content[file][row] = "known"
                                THEN [heap[1] EXCEPT ![<<file, row>>] = @ + 1]
                                ELSE heap[1]
      BY <1>5, AccumulateRowCounts DEF ReportIInv, AccumulateRow
    <3> QED
      BY <1>2, <2>2, <3>1, <3>2, PartialRow
  <2>4. FirstPass'
    BY <1>5, <2>2, <2>3 DEF AccumulateRow, ReportIInv, ReportTypeOK, Addr, FirstPass
  <2>5. SecondPass' /\ Progress'
    BY <1>5 DEF AccumulateRow, ReportIInv, SecondPass, Progress
  <2> QED
    BY <1>1, <1>3, <1>5, <2>1, <2>4, <2>5 DEF AccumulateRow, ReportIInv
<1>6. CASE AccumulateNextFile
  <2>1. RowBound'
    <3>1. file' \in Files
      BY <1>1 DEF ReportTypeOK
    <3>2. Len(content[file']) \in Nat
      BY <1>2, <3>1, Shapes
    <3>3. row' = 1 /\ content' = content
      BY <1>6 DEF AccumulateNextFile
    <3> QED
      BY <3>2, <3>3 DEF RowBound, LastRow
  <2>2. FirstPass'
    <3>1. row > Len(content[file])
      BY <1>6 DEF AccumulateNextFile, LastRow
    <3>2. Partial(content, file, row) = Partial(content, file + 1, 1)
      BY <1>2, <3>1, PartialFile
    <3> QED
      BY <1>6, <3>2 DEF AccumulateNextFile, ReportIInv, FirstPass
  <2>3. SecondPass' /\ Progress'
    BY <1>6 DEF AccumulateNextFile, ReportIInv, SecondPass, Progress
  <2> QED
    BY <1>1, <1>3, <1>6, <2>1, <2>2, <2>3 DEF AccumulateNextFile, ReportIInv
<1>7. CASE AccumulationDone
  <2>1. SecondPass'
    <3>1. row > Len(content[file])
      BY <1>7 DEF AccumulationDone, LastRow
    <3>2. Partial(content, file, row) = Base(content, 1)
      BY <1>2, <1>7, <3>1, PartialFile DEF AccumulationDone
    <3> QED
      BY <1>7, <3>2 DEF AccumulationDone, ReportIInv, FirstPass, SecondPass, Addr
  <2>2. Progress'
    BY <1>7 DEF AccumulationDone, ReportIInv, Progress
  <2> QED
    BY <1>1, <1>3, <1>7, <2>1, <2>2 DEF AccumulationDone, ReportIInv, RowBound, FirstPass
<1>8. CASE OpenFile
  <2>1. row = 1 /\ accData \in Addr /\ heap[accData] = Base(content, file)
    BY <1>8 DEF OpenFile, ReportIInv, SecondPass
  <2>2. RowBound'
    BY <1>2, <1>8, <2>1 DEF OpenFile, RowBound, LastRow
  <2>3. SecondPass'
    BY <1>8, <2>1 DEF OpenFile, SecondPass
  <2>4. Progress'
    <3>1. out[file] = <<>>
      BY <1>2, <1>8, ReportAssumption DEF OpenFile, ReportIInv, Progress, Files
    <3>2. Len(out[file]) = row - 1
      BY <2>1, <3>1, EmptySeq
    <3>3. \A f \in Files : f > file => out[f] = <<>>
      BY <1>2, <1>8, ReportAssumption DEF OpenFile, ReportIInv, Progress, Files
    <3> QED
      BY <1>8, <3>2, <3>3 DEF OpenFile, Progress
  <2> QED
    BY <1>1, <1>3, <1>8, <2>2, <2>3, <2>4 DEF OpenFile, ReportIInv, FirstPass
<1>9. CASE EnrichRow
  <2>1. /\ pc = "enrich"
        /\ row <= LastRow
        /\ accData \in Addr
        /\ heap[live] = Base(content, file)
        /\ live \in Addr
    BY <1>9 DEF EnrichRow, ReportIInv, SecondPass, ReportTypeOK
  <2>2. FreshCopy \in Addr /\ FreshCopy # accData
    BY <2>1, OtherCell
  <2>3. RowBound'
    BY <1>2, <1>9, <2>1 DEF EnrichRow, RowBound, LastRow
  <2>4. heap'[FreshCopy] = Base(content, file)
    BY <1>9, <2>1, <2>2 DEF EnrichRow, ReportIInv, ReportTypeOK
  <2>5. heap'[accData] = Base(content, file + 1)
    <3>1. CASE row = 1
      <4>1. live = accData
        BY <2>1, <3>1 DEF ReportIInv, SecondPass
      <4>2. heap'[accData] = Accumulate(heap[accData])
        BY <1>9, <2>1, <2>2, <4>1 DEF EnrichRow, ReportIInv, ReportTypeOK
      <4>3. Accumulate(heap[accData]) = IF content[file][1] = "known"
                                       THEN [heap[accData] EXCEPT ![<<file, 1>>] = @ + 1]
                                       ELSE heap[accData]
        BY <2>1, <3>1, AccumulateRowCounts DEF ReportIInv
      <4>4. 1 <= Len(content[file])
        BY <2>1, <3>1 DEF LastRow
      <4> QED
        BY <1>2, <2>1, <4>1, <4>2, <4>3, <4>4, BaseRow
    <3>2. CASE row > 1
      <4>1. live # accData /\ heap[accData] = Base(content, file + 1)
        BY <2>1, <3>2 DEF ReportIInv, SecondPass
      <4> QED
        BY <1>9, <2>1, <2>2, <4>1 DEF EnrichRow, ReportIInv, ReportTypeOK
    <3> QED
      BY <1>2, <3>1, <3>2
  <2>6. SecondPass'
    BY <1>2, <1>9, <2>1, <2>2, <2>4, <2>5 DEF EnrichRow, SecondPass
  <2>7. Len(out[file]) = row - 1 /\ out[file] \in Seq([RowIds -> Nat])
    BY <1>2, <2>1 DEF ReportIInv, Progress, ReportTypeOK
  <2>8. Basis \in [RowIds -> Nat]
    BY <1>9, <2>1 DEF Basis, NoCounts, ReportIInv, ReportTypeOK
  <2>9. /\ out' = [out EXCEPT ![file] = Append(out[file], Basis)]
        /\ Len(out'[file]) = row
        /\ out'[file][row] = Basis
        /\ \A i \in 1..(row - 1) : out'[file][i] = out[file][i]
        /\ \A f \in Files \ {file} : out'[f] = out[f]
    <3>1. out' = [out EXCEPT ![file] = Append(out[file], Basis)]
      BY <1>9 DEF EnrichRow
    <3>2. out'[file] = Append(out[file], Basis)
      BY <1>2, <3>1 DEF ReportIInv, ReportTypeOK
    <3>3. \A f \in Files \ {file} : out'[f] = out[f]
      BY <1>2, <3>1 DEF ReportIInv, ReportTypeOK
    <3> QED
      BY <1>2, <2>7, <2>8, <3>1, <3>2, <3>3, AppendProperties
  <2>10. Progress'
    <3>1. \A f \in Files : f > file => out'[f] = <<>>
      BY <1>2, <2>1, <2>9, ReportAssumption DEF ReportIInv, Progress, Files
    <3> QED
      BY <1>2, <1>9, <2>9, <3>1 DEF EnrichRow, Progress
  <2>11. Estimates'
    <3> SUFFICES ASSUME NEW f \in Files, NEW i \in 1..MaxRows, FromOthers(f, i)'
                 PROVE  out'[f][i] = Base(content, f)
      BY <1>9 DEF Estimates, EnrichRow
    <3>1. i <= Len(out'[f]) /\ content[f][i] = "unknown"
      BY <1>9 DEF FromOthers, EnrichRow
    <3>2. CASE f = file /\ i = row
      BY <2>1, <2>9, <3>1, <3>2 DEF Basis, Kind
    <3>3. CASE f = file /\ i # row
      <4>1. i \in 1..(row - 1)
        BY <1>2, <2>9, <3>1, <3>3
      <4>2. FromOthers(f, i)
        BY <1>2, <2>7, <3>1, <3>3, <4>1 DEF FromOthers
      <4> QED
        BY <2>9, <3>3, <4>1, <4>2 DEF ReportIInv, Estimates
    <3>4. CASE f # file
      BY <2>9, <3>1, <3>4 DEF ReportIInv, Estimates, FromOthers
    <3> QED
      BY <3>2, <3>3, <3>4
  <2> QED
    BY <1>1, <1>9, <2>3, <2>6, <2>10, <2>11 DEF EnrichRow, ReportIInv, FirstPass
<1>10. CASE CloseFile
  <2>1. CASE file < NFiles
    <3>1. heap[accData] = Base(content, file + 1)
      <4>1. CASE row = 1
        <5>1. Len(content[file]) = 0
          BY <1>2, <1>10, <4>1 DEF CloseFile, LastRow
        <5>2. Base(content, file + 1) = Base(content, file)
          BY <1>2, <5>1, BaseEmptyFile
        <5> QED
          BY <1>10, <4>1, <5>2 DEF CloseFile, ReportIInv, SecondPass
      <4>2. CASE row > 1
        BY <1>10, <4>2 DEF CloseFile, ReportIInv, SecondPass
      <4> QED
        BY <1>2, <4>1, <4>2
    <3>2. SecondPass'
      BY <1>10, <2>1, <3>1 DEF CloseFile, ReportIInv, SecondPass
    <3>3. Progress'
      <4>1. \A f \in Files : f >= file + 1 => out[f] = <<>>
        BY <1>2, <1>10, ReportAssumption DEF CloseFile, ReportIInv, Progress, Files
      <4> QED
        BY <1>10, <2>1, <4>1 DEF CloseFile, Progress
    <3> QED
      BY <1>1, <1>3, <1>10, <2>1, <3>2, <3>3 DEF CloseFile, ReportIInv, RowBound, FirstPass
  <2>2. CASE ~(file < NFiles)
    BY <1>4, <1>10, <2>2 DEF CloseFile
  <2> QED
    BY <2>1, <2>2
<1>11. CASE RowThrows
  BY <1>4, <1>11 DEF RowThrows, Fail
<1>12. CASE StreamFails
  BY <1>4, <1>12 DEF StreamFails, Fail
<1>13. CASE UNCHANGED reportVars
  BY <1>1, <1>3, <1>13
  DEF reportVars, ReportIInv, RowBound, FirstPass, SecondPass, Progress, LastRow
<1> QED
  BY <1>5, <1>6, <1>7, <1>8, <1>9, <1>10, <1>11, <1>12, <1>13 DEF ReportNext

LEMMA ReportInvariance == ReportSpec => []ReportIInv
  BY InvInit, InvStep, PTL DEF ReportSpec
-----------------------------------------------------------------------------
(***************************************************************************)
(* The properties, for every number of files and rows.                     *)
(***************************************************************************)

\* What the properties ask of an estimate is a property of its shape.
LEMMA EstimateShape ==
  ASSUME ReportIInv, NEW f \in Files, NEW i \in 1..MaxRows, FromOthers(f, i),
         NEW id \in RowIds
  PROVE  /\ out[f][i] = Base(content, f)
         /\ out[f][i][id] = IF ~IsKnown(id) THEN 0
                            ELSE IF id[2] = 1 /\ id[1] < f THEN 2 ELSE 1
  BY DEF ReportIInv, Estimates, Base, KnownIn, IsKnown

\* The two passes never leave their types: the file and row cursors, the two
\* accumulator cells and the estimates.
THEOREM ReportTypeCorrect == ReportSpec => []ReportTypeOK
<1>1. ReportIInv => ReportTypeOK
  BY DEF ReportIInv
<1> QED
  BY <1>1, ReportInvariance, PTL

\* An unknown row is estimated from every known row of every file and from
\* nothing else: the first pass is over before the second begins.
THEOREM AllKnownFirst == ReportSpec => []UnknownRestOnAllKnown
<1>1. ReportIInv => UnknownRestOnAllKnown
  BY EstimateShape DEF UnknownRestOnAllKnown
<1> QED
  BY <1>1, ReportInvariance, PTL

\* The rows of one file are all estimated from the same data, although every
\* one of them is counted again when it is enriched.
THEOREM SameBasis == ReportSpec => []SameBasisWithinFile
<1>1. ReportIInv => SameBasisWithinFile
  BY DEF ReportIInv, Estimates, SameBasisWithinFile
<1> QED
  BY <1>1, ReportInvariance, PTL

\* No row is counted twice in the estimates of a message's first file.
THEOREM FirstFileExact == ReportSpec => []FirstFileCountsOnce
<1>1. 1 \in Files /\ \A id \in RowIds : ~(id[1] < 1)
  BY ReportAssumption DEF Files, RowIds
<1>2. ReportIInv => FirstFileCountsOnce
  BY <1>1, EstimateShape DEF FirstFileCountsOnce
<1> QED
  BY <1>2, ReportInvariance, PTL

\* What may be counted twice in a later file's estimates is the first row of an
\* earlier file, and never more than twice however many files follow.
THEOREM DriftBounded == ReportSpec => []DriftOnlyFromFirstRows
<1>1. ReportIInv => DriftOnlyFromFirstRows
  BY EstimateShape DEF DriftOnlyFromFirstRows
<1> QED
  BY <1>1, ReportInvariance, PTL

\* Both of what a report's estimates of unknown rows promise, for reports of any
\* number and length of files.
THEOREM SoundEstimates == ReportSpec => []EstimatesAreSound
<1>1. UnknownRestOnAllKnown /\ DriftOnlyFromFirstRows => EstimatesAreSound
  BY DEF EstimatesAreSound
<1> QED
  BY <1>1, AllKnownFirst, DriftBounded, PTL

-----------------------------------------------------------------------------
(***************************************************************************)
(* ReportQueue, for every number of workers, messages, files and deliveries.*)
(*                                                                         *)
(* The inductive invariant says how far a worker has got: what it counted, *)
(* and that the files before the one it is at were uploaded by somebody.   *)
(***************************************************************************)
Uploading == {"open", "enrich", "upload", "committed"}
Busy == {"accumulate"} \cup Uploading

\* A message that can be received was not handed out too often.
DeliveriesLeft ==
  \A m \in Messages :
    /\ queue[m] = "unsent" => delivered[m] = 0
    /\ queue[m] = "visible" => delivered[m] < MaxDeliveries

\* A worker that asks the queue is a new process.
FreshAtStart ==
  \A w \in Workers : stage[w] = "start" => result[w] = "none" /\ counted[w] = {}

\* A busy worker has a message and is at one of its files.
BusyHasFile ==
  \A w \in Workers :
    stage[w] \in Busy => job[w] \in Jobs /\ current[w] <= LastFile(w)

OkHasMessage == \A w \in Workers : result[w] = "ok" => job[w] \in Jobs

CountedIsOwn ==
  \A w \in Workers :
    /\ stage[w] = "accumulate" => counted[w] \subseteq {Message(w)}
    /\ stage[w] \in Uploading => counted[w] = {Message(w)}

\* The files before the one a worker is at have been uploaded, and that one
\* too once its upload is committed.
UploadedSoFar ==
  \A w \in Workers :
    /\ stage[w] \in Uploading =>
         \A f \in 1..MaxFiles : f < current[w] => blob[Message(w)][f] # 0
    /\ stage[w] = "committed" => blob[Message(w)][current[w]] # 0

QueueIInv ==
  /\ QueueTypeOK
  /\ DeliveriesLeft
  /\ FreshAtStart
  /\ BusyHasFile
  /\ OkHasMessage
  /\ CountedIsOwn
  /\ UploadedSoFar
  /\ OkMeansUploaded
  /\ ResultsArePrefix
-----------------------------------------------------------------------------
LEMMA QueueInitIInv == QueueInit => QueueIInv
  <1> SUFFICES ASSUME QueueInit PROVE QueueIInv
    OBVIOUS
  <1> USE QueueAssumption DEF QueueInit, NoJob
  <1>1. QueueTypeOK
    BY DEF QueueTypeOK
  <1>2. DeliveriesLeft /\ FreshAtStart /\ BusyHasFile
    BY DEF DeliveriesLeft, FreshAtStart, BusyHasFile, Busy, Uploading
  <1>3. OkHasMessage /\ CountedIsOwn /\ UploadedSoFar
    BY DEF OkHasMessage, CountedIsOwn, UploadedSoFar, Uploading
  <1>4. OkMeansUploaded /\ ResultsArePrefix
    BY DEF OkMeansUploaded, ResultsArePrefix
  <1> QED
    BY <1>1, <1>2, <1>3, <1>4 DEF QueueIInv

(***************************************************************************)
(* Steps of the queue.                                                     *)
(***************************************************************************)
LEMMA QueueSteps ==
  ASSUME QueueIInv, NEW m \in Messages, Send(m) \/ Reappear(m)
  PROVE QueueIInv'
  <1> USE QueueAssumption DEF Send, Reappear, Message, LastFile
  <1>1. QueueTypeOK'
    BY DEF QueueIInv, QueueTypeOK
  <1>2. DeliveriesLeft'
    BY DEF QueueIInv, QueueTypeOK, DeliveriesLeft
  <1>3. (FreshAtStart /\ BusyHasFile /\ OkHasMessage)'
    BY DEF QueueIInv, FreshAtStart, BusyHasFile, OkHasMessage
  <1>4. (CountedIsOwn /\ UploadedSoFar)'
    BY DEF QueueIInv, CountedIsOwn, UploadedSoFar
  <1>5. (OkMeansUploaded /\ ResultsArePrefix)'
    BY DEF QueueIInv, OkMeansUploaded, ResultsArePrefix
  <1> QED
    BY <1>1, <1>2, <1>3, <1>4, <1>5 DEF QueueIInv

(***************************************************************************)
(* Steps of a worker that change neither the queue nor the destination:    *)
(* what the worker w is left with decides.                                 *)
(***************************************************************************)
LEMMA LocalStep ==
  ASSUME QueueIInv, NEW w \in Workers,
         UNCHANGED <<body, store, blob>>,
         QueueTypeOK',
         \A v \in Workers \ {w} :
           /\ stage'[v] = stage[v] /\ job'[v] = job[v] /\ current'[v] = current[v]
           /\ counted'[v] = counted[v] /\ result'[v] = result[v],
         stage'[w] = "start" => result'[w] = "none" /\ counted'[w] = {},
         stage'[w] \in Busy => job'[w] \in Jobs /\ current'[w] <= LastFile(w)',
         result'[w] = "ok" =>
           /\ job'[w] \in Jobs
           /\ \A f \in 1..LastFile(w)' : blob[job'[w].message][f] # 0,
         stage'[w] = "accumulate" => counted'[w] \subseteq {Message(w)'},
         stage'[w] \in Uploading =>
           /\ counted'[w] = {Message(w)'}
           /\ \A f \in 1..MaxFiles : f < current'[w] => blob[job'[w].message][f] # 0,
         stage'[w] = "committed" => blob[job'[w].message][current'[w]] # 0
  PROVE QueueIInv'
  <1> USE DEF Message, LastFile, store
  <1>2. DeliveriesLeft'
    BY DEF QueueIInv, DeliveriesLeft
  <1>3. FreshAtStart'
    BY DEF QueueIInv, FreshAtStart
  <1>4. BusyHasFile'
    BY DEF QueueIInv, BusyHasFile
  <1>5. OkHasMessage'
    BY DEF QueueIInv, OkHasMessage
  <1>6. CountedIsOwn'
    BY DEF QueueIInv, CountedIsOwn
  <1>7. UploadedSoFar'
    BY DEF QueueIInv, UploadedSoFar
  <1>8. OkMeansUploaded'
    BY DEF QueueIInv, OkMeansUploaded
  <1>9. ResultsArePrefix'
    BY DEF QueueIInv, ResultsArePrefix
  <1> QED
    BY <1>2, <1>3, <1>4, <1>5, <1>6, <1>7, <1>8, <1>9 DEF QueueIInv

LEMMA EndSteps ==
  ASSUME QueueIInv, NEW w \in Workers,
         \/ ReceiveNothing(w)
         \/ ReceiveFails(w)
         \/ AccumulateFails(w)
         \/ StartFails(w)
         \/ EnrichOrUploadFails(w)
         \/ UploadFails(w)
         \/ Kill(w)
         \/ Restart(w)
  PROVE QueueIInv'
  <1> DEFINE Ending ==
        \/ stage'[w] \in {"idle", "crashed"}
           /\ result'[w] \in {result[w], "error"}
           /\ job' = job /\ current' = current
           /\ counted'[w] \in {counted[w], counted[w] \cup {Message(w)}}
        \/ /\ stage'[w] = "start" /\ result'[w] = "none" /\ counted'[w] = {}
           /\ job'[w] = NoJob /\ current'[w] = 1
  <1>1. /\ UNCHANGED <<body, store, blob>>
        /\ Ending
        /\ \A v \in Workers \ {w} :
             /\ stage'[v] = stage[v] /\ job'[v] = job[v] /\ current'[v] = current[v]
             /\ counted'[v] = counted[v] /\ result'[v] = result[v]
    <2> USE DEF QueueIInv, QueueTypeOK, Return, Crash
    <2>1. CASE ReceiveNothing(w)
      BY <2>1 DEF ReceiveNothing
    <2>2. CASE ReceiveFails(w)
      BY <2>2 DEF ReceiveFails
    <2>3. CASE AccumulateFails(w)
      BY <2>3 DEF AccumulateFails
    <2>4. CASE StartFails(w)
      BY <2>4 DEF StartFails
    <2>5. CASE EnrichOrUploadFails(w)
      BY <2>5 DEF EnrichOrUploadFails
    <2>6. CASE UploadFails(w)
      BY <2>6 DEF UploadFails
    <2>7. CASE Kill(w)
      BY <2>7 DEF Kill
    <2>8. CASE Restart(w)
      BY <2>8 DEF Restart
    <2> QED
      BY <2>1, <2>2, <2>3, <2>4, <2>5, <2>6, <2>7, <2>8
  <1>2. QueueTypeOK'
    <2> USE QueueAssumption DEF QueueIInv, QueueTypeOK, Return, Crash
    <2>1. CASE ReceiveNothing(w)
      BY <2>1 DEF ReceiveNothing, store
    <2>2. CASE ReceiveFails(w)
      BY <2>2 DEF ReceiveFails, store
    <2>3. CASE AccumulateFails(w)
      <3>1. Message(w) \in Messages
        BY <2>3 DEF AccumulateFails, BusyHasFile, Busy, Jobs, Message
      <3>2. counted' \in [Workers -> SUBSET Messages]
        <4>1. counted[w] \cup {Message(w)} \in SUBSET Messages
          BY <3>1
        <4>2. \/ counted' = counted
              \/ counted' = [counted EXCEPT ![w] = counted[w] \cup {Message(w)}]
          BY <2>3 DEF AccumulateFails
        <4> QED
          BY <4>1, <4>2
      <3>3. /\ stage' = [stage EXCEPT ![w] = "idle"]
            /\ result' = [result EXCEPT ![w] = "error"]
            /\ UNCHANGED <<body, queue, delivered, blob, job, current>>
        BY <2>3 DEF AccumulateFails, store
      <3>4. /\ stage' \in [Workers -> {"start", "accumulate", "open", "enrich",
                                    "upload", "committed", "idle", "crashed"}]
            /\ result' \in [Workers -> {"none", "ok", "error"}]
        BY <3>3
      <3> QED
        BY <3>2, <3>3, <3>4
    <2>4. CASE StartFails(w)
      BY <2>4 DEF StartFails, store
    <2>5. CASE EnrichOrUploadFails(w)
      BY <2>5 DEF EnrichOrUploadFails, store
    <2>6. CASE UploadFails(w)
      BY <2>6 DEF UploadFails, store
    <2>7. CASE Kill(w)
      BY <2>7 DEF Kill, store
    <2>8. CASE Restart(w)
      BY <2>8 DEF Restart, store
    <2> QED
      BY <2>1, <2>2, <2>3, <2>4, <2>5, <2>6, <2>7, <2>8
  <1>3. result'[w] = "ok" =>
          /\ job'[w] \in Jobs
          /\ \A f \in 1..LastFile(w)' : blob[job'[w].message][f] # 0
    BY <1>1 DEF QueueIInv, OkHasMessage, OkMeansUploaded, LastFile, Message
  <1> QED
    BY <1>1, <1>2, <1>3, LocalStep DEF Busy, Uploading

(***************************************************************************)
(* Steps through the files.                                                *)
(***************************************************************************)
LEMMA FileSteps ==
  ASSUME QueueIInv, NEW w \in Workers,
         AccumulateFile(w) \/ StartFile(w) \/ Enrich(w) \/ UploadDone(w)
  PROVE QueueIInv'
  <1> USE QueueAssumption DEF LastFile, Message
  <1>1. /\ stage[w] \in Busy
        /\ job[w] \in Jobs
        /\ Message(w) \in Messages
        /\ current[w] \in 1..MaxFiles
        /\ LastFile(w) \in 1..MaxFiles
        /\ current[w] <= LastFile(w)
    <2>1. stage[w] \in Busy
      BY DEF AccumulateFile, StartFile, Enrich, UploadDone, Busy, Uploading
    <2>2. job[w] \in Jobs /\ current[w] <= LastFile(w)
      BY <2>1 DEF QueueIInv, BusyHasFile
    <2>3. Message(w) \in Messages
      BY <2>2 DEF Jobs
    <2>4. current[w] \in Nat /\ current[w] >= 1
      BY DEF QueueIInv, QueueTypeOK
    <2>5. LastFile(w) \in 0..MaxFiles
      BY <2>3 DEF QueueIInv, QueueTypeOK, Bodies
    <2> QED
      BY <2>1, <2>2, <2>3, <2>4, <2>5
  <1>2. /\ UNCHANGED <<body, store, blob, job>>
        /\ \A v \in Workers \ {w} :
             /\ stage'[v] = stage[v] /\ job'[v] = job[v] /\ current'[v] = current[v]
             /\ counted'[v] = counted[v] /\ result'[v] = result[v]
    BY DEF AccumulateFile, StartFile, Enrich, UploadDone, Return, QueueIInv, QueueTypeOK
  <1>3. QueueTypeOK'
    <2> USE DEF QueueIInv, QueueTypeOK, Return
    <2>1. CASE AccumulateFile(w)
      <3>1. counted' \in [Workers -> SUBSET Messages]
        BY <1>1, <2>1 DEF AccumulateFile
      <3>2. current' \in [Workers -> 1..(IF MaxFiles = 0 THEN 1 ELSE MaxFiles)]
        <4>1. \/ current' = [current EXCEPT ![w] = current[w] + 1] /\ current[w] < LastFile(w)
              \/ current' = [current EXCEPT ![w] = 1]
          BY <2>1 DEF AccumulateFile
        <4>2. \A i : i \in {1, current[w] + 1} /\ (i = 1 \/ current[w] < LastFile(w)) =>
                i \in 1..(IF MaxFiles = 0 THEN 1 ELSE MaxFiles)
          BY <1>1
        <4> QED
          BY <4>1, <4>2
      <3>3. stage' \in [Workers -> {"start", "accumulate", "open", "enrich",
                                 "upload", "committed", "idle", "crashed"}]
        BY <2>1 DEF AccumulateFile
      <3> QED
        BY <2>1, <3>1, <3>2, <3>3 DEF AccumulateFile, store
    <2>2. CASE StartFile(w)
      BY <1>1, <2>2 DEF StartFile, store
    <2>3. CASE Enrich(w)
      BY <1>1, <2>3 DEF Enrich, store
    <2>4. CASE UploadDone(w)
      <3>1. \/ current' = [current EXCEPT ![w] = current[w] + 1] /\ current[w] < LastFile(w)
            \/ current' = current
        BY <2>4 DEF UploadDone
      <3>2. current' \in [Workers -> 1..(IF MaxFiles = 0 THEN 1 ELSE MaxFiles)]
        <4>1. current[w] < LastFile(w) =>
                current[w] + 1 \in 1..(IF MaxFiles = 0 THEN 1 ELSE MaxFiles)
          BY <1>1
        <4> QED
          BY <3>1, <4>1
      <3>3. /\ stage' \in [Workers -> {"start", "accumulate", "open", "enrich",
                                    "upload", "committed", "idle", "crashed"}]
            /\ result' \in [Workers -> {"none", "ok", "error"}]
        BY <2>4 DEF UploadDone
      <3> QED
        BY <2>4, <3>2, <3>3 DEF UploadDone, store
    <2> QED
      BY <2>1, <2>2, <2>3, <2>4
  <1>4. result'[w] = "ok" => \A f \in 1..LastFile(w) : blob[Message(w)][f] # 0
    <2>1. CASE UploadDone(w) /\ ~(current[w] < LastFile(w))
      <3>1. current[w] = LastFile(w) /\ stage[w] = "committed"
        BY <1>1, <2>1 DEF UploadDone
      <3> QED
        BY <1>1, <3>1 DEF QueueIInv, UploadedSoFar, Uploading
    <2>2. CASE result'[w] = result[w]
      BY <2>2 DEF QueueIInv, OkMeansUploaded
    <2> QED
      BY <2>1, <2>2 DEF AccumulateFile, StartFile, Enrich, UploadDone
  <1>5. stage'[w] = "accumulate" => counted'[w] \subseteq {Message(w)}
    BY DEF AccumulateFile, StartFile, Enrich, UploadDone, Return, QueueIInv, QueueTypeOK,
           CountedIsOwn
  <1>6. stage'[w] \in Uploading => counted'[w] = {Message(w)}
    BY DEF AccumulateFile, StartFile, Enrich, UploadDone, Return, QueueIInv, QueueTypeOK,
           CountedIsOwn, Uploading
  <1>7. stage'[w] \in Uploading =>
          \A f \in 1..MaxFiles : f < current'[w] => blob[Message(w)][f] # 0
    <2>1. CASE AccumulateFile(w)
      BY <1>1, <2>1 DEF AccumulateFile, QueueIInv, QueueTypeOK, Uploading
    <2>2. CASE StartFile(w) \/ Enrich(w)
      BY <1>1, <2>2 DEF StartFile, Enrich, QueueIInv, UploadedSoFar, Uploading
    <2>3. CASE UploadDone(w)
      <3>1. /\ stage[w] = "committed"
            /\ \A f \in 1..MaxFiles : f < current[w] => blob[Message(w)][f] # 0
            /\ blob[Message(w)][current[w]] # 0
        BY <2>3 DEF UploadDone, QueueIInv, UploadedSoFar, Uploading
      <3>2. current'[w] \in {current[w], current[w] + 1}
        BY <2>3 DEF UploadDone, QueueIInv, QueueTypeOK
      <3> QED
        BY <1>1, <3>1, <3>2
    <2> QED
      BY <2>1, <2>2, <2>3
  <1>8. stage'[w] # "committed" /\ stage'[w] # "start"
    BY DEF AccumulateFile, StartFile, Enrich, UploadDone, Return, QueueIInv, QueueTypeOK
  <1>9. stage'[w] \in Busy => current'[w] <= LastFile(w)
    BY <1>1 DEF AccumulateFile, StartFile, Enrich, UploadDone, Return, QueueIInv,
                QueueTypeOK, Busy, Uploading
  <1> QED
    BY <1>1, <1>2, <1>3, <1>4, <1>5, <1>6, <1>7, <1>8, <1>9, LocalStep

(***************************************************************************)
(* The step that changes the destination.                                  *)
(***************************************************************************)
LEMMA CommitStep ==
  ASSUME QueueIInv, NEW w \in Workers, Commit(w)
  PROVE QueueIInv'
  <1> USE QueueAssumption DEF Message, LastFile
  <1>1. /\ stage[w] = "upload" /\ job[w] \in Jobs
        /\ Message(w) \in Messages
        /\ current[w] \in 1..MaxFiles /\ current[w] <= LastFile(w)
        /\ job[w].delivery \in 1..MaxDeliveries
    <2>1. stage[w] = "upload" /\ job[w] \in Jobs /\ current[w] <= LastFile(w)
      BY DEF Commit, QueueIInv, BusyHasFile, Busy, Uploading
    <2>2. Message(w) \in Messages /\ job[w].delivery \in 1..MaxDeliveries
      BY <2>1 DEF Jobs
    <2>3. LastFile(w) \in 0..MaxFiles /\ current[w] \in Nat /\ current[w] >= 1
      BY <2>2 DEF QueueIInv, QueueTypeOK, Bodies
    <2> QED
      BY <2>1, <2>2, <2>3
  <1>2. \A m \in Messages : \A f \in 1..MaxFiles :
          blob'[m][f] = IF m = Message(w) /\ f = current[w]
                        THEN job[w].delivery ELSE blob[m][f]
    BY <1>1 DEF Commit, QueueIInv, QueueTypeOK
  <1>3. QueueTypeOK'
    <2>1. blob' \in [Messages -> [1..MaxFiles -> 0..MaxDeliveries]]
      BY <1>1 DEF Commit, QueueIInv, QueueTypeOK
    <2> QED
      BY <2>1 DEF Commit, QueueIInv, QueueTypeOK, store
  <1>4. \A m \in Messages : \A f \in 1..MaxFiles : blob[m][f] # 0 => blob'[m][f] # 0
    BY <1>1, <1>2
  <1>5. (DeliveriesLeft /\ FreshAtStart /\ BusyHasFile /\ OkHasMessage)'
    BY DEF Commit, QueueIInv, QueueTypeOK, DeliveriesLeft, FreshAtStart, BusyHasFile,
           OkHasMessage, Busy, Uploading, store
  <1>6. CountedIsOwn'
    BY DEF Commit, QueueIInv, QueueTypeOK, CountedIsOwn, Uploading
  <1>7. \A v \in Workers : stage[v] \in Busy => Message(v) \in Messages
    BY DEF QueueIInv, BusyHasFile, Jobs
  <1>8. UploadedSoFar'
    <2> SUFFICES ASSUME NEW v \in Workers
                 PROVE /\ stage'[v] \in Uploading =>
                            \A f \in 1..MaxFiles :
                              f < current[v] => blob'[Message(v)][f] # 0
                       /\ stage'[v] = "committed" => blob'[Message(v)][current[v]] # 0
      BY DEF UploadedSoFar, Commit
    <2>1. stage'[v] \in Uploading => stage[v] \in Uploading
      BY DEF Commit, QueueIInv, QueueTypeOK, Uploading
    <2>2. stage[v] \in Uploading =>
            \A f \in 1..MaxFiles : f < current[v] => blob[Message(v)][f] # 0
      BY DEF QueueIInv, UploadedSoFar
    <2>3. stage'[v] = "committed" => blob'[Message(v)][current[v]] # 0
      <3>1. CASE v = w
        BY <1>1, <1>2, <3>1
      <3>2. CASE v # w
        <4> SUFFICES ASSUME stage'[v] = "committed"
                     PROVE blob'[Message(v)][current[v]] # 0
          OBVIOUS
        <4>1. stage[v] = "committed"
          BY <3>2 DEF Commit, QueueIInv, QueueTypeOK
        <4>2. blob[Message(v)][current[v]] # 0
          BY <4>1 DEF QueueIInv, UploadedSoFar
        <4>3. Message(v) \in Messages /\ LastFile(v) \in 0..MaxFiles
          BY <1>7, <4>1 DEF Busy, Uploading, QueueIInv, QueueTypeOK, Bodies
        <4>4. current[v] \in Nat /\ current[v] >= 1 /\ current[v] <= LastFile(v)
          BY <4>1 DEF Busy, Uploading, QueueIInv, QueueTypeOK, BusyHasFile
        <4> QED
          BY <1>4, <4>2, <4>3, <4>4
      <3> QED
        BY <3>1, <3>2
    <2> QED
      BY <1>4, <1>7, <2>1, <2>2, <2>3 DEF Busy
  <1>9. OkMeansUploaded'
    <2> SUFFICES ASSUME NEW v \in Workers, result[v] = "ok",
                        NEW f \in 1..LastFile(v)
                 PROVE blob'[Message(v)][f] # 0
      BY DEF OkMeansUploaded, Commit
    <2>1. Message(v) \in Messages
      BY DEF QueueIInv, OkHasMessage, Jobs
    <2>2. f \in 1..MaxFiles
      BY <2>1 DEF QueueIInv, QueueTypeOK, Bodies
    <2>3. blob[Message(v)][f] # 0
      BY DEF QueueIInv, OkMeansUploaded
    <2> QED
      BY <1>4, <2>1, <2>2, <2>3
  <1>10. ResultsArePrefix'
    <2> SUFFICES ASSUME NEW m \in Messages, NEW f \in 1..MaxFiles,
                        NEW g \in 1..MaxFiles, blob'[m][f] # 0, g < f
                 PROVE blob'[m][g] # 0
      BY DEF ResultsArePrefix
    <2>1. CASE m = Message(w) /\ f = current[w]
      <3>1. blob[m][g] # 0
        BY <1>1, <2>1 DEF QueueIInv, UploadedSoFar, Uploading
      <3> QED
        BY <1>4, <3>1
    <2>2. CASE ~(m = Message(w) /\ f = current[w])
      <3>1. blob[m][f] # 0
        BY <1>2, <2>2
      <3>2. blob[m][g] # 0
        BY <3>1 DEF QueueIInv, ResultsArePrefix
      <3> QED
        BY <1>4, <3>2
    <2> QED
      BY <2>1, <2>2
  <1> QED
    BY <1>3, <1>5, <1>6, <1>8, <1>9, <1>10 DEF QueueIInv

(***************************************************************************)
(* The step that takes a message.                                          *)
(***************************************************************************)
LEMMA ReceiveStep ==
  ASSUME QueueIInv, NEW w \in Workers, NEW m \in Messages, Receive(w, m)
  PROVE QueueIInv'
  <1> USE QueueAssumption DEF Message, LastFile
  <1> DEFINE d == delivered[m] + 1
  <1>1. /\ d \in 1..MaxDeliveries
        /\ delivered' = [delivered EXCEPT ![m] = d]
        /\ job' = [job EXCEPT ![w] = [message |-> m, delivery |-> d]]
        /\ queue' = [queue EXCEPT ![m] = "hidden"]
        /\ current' = [current EXCEPT ![w] = 1]
        /\ UNCHANGED <<body, blob, counted>>
    BY DEF Receive, QueueIInv, QueueTypeOK, DeliveriesLeft
  <1>2. /\ stage[w] = "start" /\ result[w] = "none" /\ counted[w] = {}
    BY DEF Receive, QueueIInv, FreshAtStart
  <1>3. /\ job'[w] = [message |-> m, delivery |-> d]
        /\ job'[w] \in Jobs
        /\ job'[w].message = m
        /\ current'[w] = 1
    BY <1>1 DEF QueueIInv, QueueTypeOK, Jobs
  <1>4. \A v \in Workers \ {w} :
          /\ stage'[v] = stage[v] /\ job'[v] = job[v] /\ current'[v] = current[v]
          /\ result'[v] = result[v]
    BY DEF Receive, Return, Crash, QueueIInv, QueueTypeOK
  <1>5. \/ stage'[w] = "crashed" /\ result'[w] = "none"
        \/ stage'[w] = "idle" /\ result'[w] = "error"
        \/ stage'[w] = "idle" /\ result'[w] = "ok" /\ body[m].files = 0
        \/ stage'[w] = "accumulate" /\ result'[w] = "none" /\ body[m].files > 0
    BY <1>2 DEF Receive, Return, Crash, QueueIInv, QueueTypeOK
  <1>6. QueueTypeOK'
    <2>1. stage' \in [Workers -> {"start", "accumulate", "open", "enrich",
                               "upload", "committed", "idle", "crashed"}]
      BY DEF Receive, Return, Crash, QueueIInv, QueueTypeOK
    <2>2. result' \in [Workers -> {"none", "ok", "error"}]
      BY DEF Receive, Return, Crash, QueueIInv, QueueTypeOK
    <2>3. job' \in [Workers -> Jobs \cup {NoJob}]
      BY <1>1 DEF QueueIInv, QueueTypeOK, Jobs
    <2>4. /\ queue' \in [Messages -> {"unsent", "visible", "hidden"}]
          /\ delivered' \in [Messages -> 0..MaxDeliveries]
      BY <1>1 DEF QueueIInv, QueueTypeOK
    <2>5. current' \in [Workers -> 1..(IF MaxFiles = 0 THEN 1 ELSE MaxFiles)]
      BY <1>1 DEF QueueIInv, QueueTypeOK
    <2> QED
      BY <1>1, <2>1, <2>2, <2>3, <2>4, <2>5 DEF QueueIInv, QueueTypeOK
  <1>7. DeliveriesLeft'
    BY <1>1 DEF QueueIInv, QueueTypeOK, DeliveriesLeft
  <1>8. FreshAtStart'
    BY <1>1, <1>4, <1>5 DEF QueueIInv, FreshAtStart
  <1>9. BusyHasFile'
    <2>1. stage'[w] \in Busy => current'[w] <= body[m].files
      BY <1>3, <1>5 DEF Busy, Uploading, QueueIInv, QueueTypeOK, Bodies
    <2> QED
      BY <1>1, <1>3, <1>4, <2>1 DEF QueueIInv, BusyHasFile
  <1>10. OkHasMessage'
    BY <1>3, <1>4 DEF QueueIInv, OkHasMessage
  <1>11. CountedIsOwn'
    BY <1>1, <1>2, <1>4, <1>5 DEF QueueIInv, CountedIsOwn, Uploading
  <1>12. UploadedSoFar'
    BY <1>1, <1>4, <1>5 DEF QueueIInv, UploadedSoFar, Uploading
  <1>13. OkMeansUploaded'
    <2> SUFFICES ASSUME NEW v \in Workers, result'[v] = "ok",
                        NEW f \in 1..body[job'[v].message].files
                 PROVE blob[job'[v].message][f] # 0
      BY <1>1 DEF OkMeansUploaded
    <2>1. CASE v = w
      BY <1>3, <1>5, <2>1
    <2>2. CASE v # w
      BY <1>4, <2>2 DEF QueueIInv, OkMeansUploaded
    <2> QED
      BY <2>1, <2>2
  <1>14. ResultsArePrefix'
    BY <1>1 DEF QueueIInv, ResultsArePrefix
  <1> QED
    BY <1>6, <1>7, <1>8, <1>9, <1>10, <1>11, <1>12, <1>13, <1>14 DEF QueueIInv

LEMMA Unchanged ==
  ASSUME QueueIInv, UNCHANGED queueVars PROVE QueueIInv'
  BY DEF queueVars, QueueIInv, QueueTypeOK, DeliveriesLeft, FreshAtStart, BusyHasFile,
         OkHasMessage, CountedIsOwn, UploadedSoFar, OkMeansUploaded,
         ResultsArePrefix, Message, LastFile

LEMMA QueueNextIInv == QueueIInv /\ [QueueNext]_queueVars => QueueIInv'
  <1> SUFFICES ASSUME QueueIInv, [QueueNext]_queueVars PROVE QueueIInv'
    OBVIOUS
  <1>1. CASE UNCHANGED queueVars
    BY <1>1, Unchanged
  <1>2. ASSUME NEW m \in Messages, Send(m) \/ Reappear(m) PROVE QueueIInv'
    BY <1>2, QueueSteps
  <1>3. ASSUME NEW w \in Workers, Work(w) \/ Kill(w) \/ Restart(w) PROVE QueueIInv'
    <2>1. CASE \E m \in Messages : Receive(w, m)
      BY <2>1, ReceiveStep
    <2>2. CASE AccumulateFile(w) \/ StartFile(w) \/ Enrich(w) \/ UploadDone(w)
      BY <2>2, FileSteps
    <2>3. CASE Commit(w)
      BY <2>3, CommitStep
    <2>4. CASE \/ ReceiveNothing(w) \/ ReceiveFails(w) \/ AccumulateFails(w)
               \/ StartFails(w) \/ EnrichOrUploadFails(w) \/ UploadFails(w)
               \/ Kill(w) \/ Restart(w)
      BY <2>4, EndSteps
    <2> QED
      BY <1>3, <2>1, <2>2, <2>3, <2>4 DEF Work
  <1> QED
    BY <1>1, <1>2, <1>3 DEF QueueNext

LEMMA QueueInductive == QueueSpec => []QueueIInv
  BY QueueInitIInv, QueueNextIInv, PTL DEF QueueSpec
-----------------------------------------------------------------------------
\* Types: for every number of messages, files and deliveries a worker stays at
\* a file its message lists, and no message is handed out too often.
THEOREM QueueTypeCorrect == QueueSpec => []QueueTypeOK
  <1>1. QueueIInv => QueueTypeOK
    BY DEF QueueIInv
  <1> QED
    BY <1>1, QueueInductive, PTL

\* processMessage reports success only after every upload, and whatever fails,
\* crashes, is killed or delivered again, the destination has the first files
\* of a report, for every number of workers that share the message.
THEOREM SoundDestination == QueueSpec => []DestinationIsSound
  <1>1. QueueIInv => DestinationIsSound
    BY DEF QueueIInv, DestinationIsSound
  <1> QED
    BY <1>1, QueueInductive, PTL

\* The rows of a file are enriched in a process whose sums hold energy of its
\* own report only, although nothing ever empties them.
THEOREM OneReport == QueueSpec => []OneReportPerProcess
  <1>1. QueueIInv => OneReportPerProcess
    BY DEF QueueIInv, CountedIsOwn, Uploading, OneReportPerProcess
  <1> QED
    BY <1>1, QueueInductive, PTL
=============================================================================
