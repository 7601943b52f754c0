-------------------------- MODULE AwsQueriesProofs --------------------------
(***************************************************************************)
(* What holds of the queries of an AWS account for every calendar, every    *)
(* range of days and every number of windows, groups, regions and pages.    *)
(*                                                                         *)
(* That windows fit together needs nothing of the calendar: the end of a    *)
(* window and the start of the next one are computed alike from the same    *)
(* two days, whatever Date.setDate makes of them.  That the loops advance   *)
(* needs that no month is longer than 31 days.  How far the limit on        *)
(* running queries is passed needs that all groups of a request are split   *)
(* alike, so that windows at once are windows of its first group.           *)
(***************************************************************************)
EXTENDS AwsQueries, CollectionProofs

IsSeq(s) == \E S : s \in Seq(S)

LEMMA AppendFacts ==
  ASSUME NEW s, IsSeq(s), NEW x
  PROVE /\ IsSeq(Append(s, x)) /\ Append(s, x) # <<>>
        /\ Len(s) \in Nat /\ DOMAIN s = 1..Len(s)
        /\ Len(Append(s, x)) = Len(s) + 1
        /\ \A i \in 1..Len(s) : Append(s, x)[i] = s[i]
        /\ Append(s, x)[Len(s) + 1] = x
        /\ s # <<>> => Len(s) # 0
  <1>1. PICK S : s \in Seq(S)
    BY DEF IsSeq
  <1>2. s \in Seq(S \cup {x}) /\ x \in S \cup {x}
    BY <1>1
  <1>3. IsSeq(Append(s, x))
    <2>1. Append(s, x) \in Seq(S \cup {x})
      BY <1>2
    <2> QED
      BY <2>1 DEF IsSeq
  <1>4. /\ Len(s) \in Nat /\ DOMAIN s = 1..Len(s)
        /\ s # <<>> => Len(s) # 0
    BY <1>2
  <1>5. /\ Len(Append(s, x)) = Len(s) + 1
        /\ \A i \in 1..Len(s) : Append(s, x)[i] = s[i]
        /\ Append(s, x)[Len(s) + 1] = x
    BY <1>2
  <1>6. Append(s, x) # <<>>
    <2>1. Len(<<>>) = 0
      OBVIOUS
    <2> QED
      BY <1>4, <1>5, <2>1
  <1> QED
    BY <1>3, <1>4, <1>5, <1>6

(***************************************************************************)
(* Windows.                                                                *)
(***************************************************************************)

\* The end of a window whose loop started with a range that starts at start.
EndOf(s, from, start) == SetDate(from, DayOfMonth(start) + Interval[s])

\* The windows so far, with the one the loop is at, while it runs and is not at
\* more windows than are told apart.
WindowsSoFar(r, s) ==
  LET ws == windows[r][s]
  IN  /\ IsSeq(ws)
      /\ ws # <<>> =>
           /\ ws[1].from = range[r].start
           /\ \A i \in 1..Len(ws) - 1 : ws[i + 1].from = ws[i].to
      /\ Splitting(r, s) =>
           /\ ws = <<>> => split.from = range[r].start
           /\ ws # <<>> /\ Len(ws) < MaxWindows => ws[Len(ws)].to = split.from
      /\ ws # <<>> /\ ~Splitting(r, s) /\ Len(ws) < MaxWindows =>
           ws[Len(ws)].to = range[r].end

\* What is being split, if anything is.
SplitSoFar ==
  split = None \/
    /\ split.request \in Requests /\ split.service \in Services
    /\ split = [request |-> split.request, service |-> split.service,
                from |-> split.from, to |-> split.to]
    /\ split.to = EndOf(split.service, split.from, range[split.request].start)

\* Lambda has no windows before it has the names of its log groups.
NoWindowsYet ==
  \A r \in Requests :
    lambda[r] = "names" =>
      windows[r]["Lambda"] = <<>> /\ ~Splitting(r, "Lambda")

Functional ==
  /\ range = [r \in Requests |-> range[r]]
  /\ lambda = [r \in Requests |-> lambda[r]]
  /\ windows = [r \in Requests |-> [s \in Services |-> windows[r][s]]]

WInv ==
  /\ Functional
  /\ SplitSoFar
  /\ NoWindowsYet
  /\ \A r \in Requests, s \in Services : WindowsSoFar(r, s)

windowVars == <<range, split, windows, lambda>>

LEMMA Two == Services = {"EC2", "Lambda"}
  BY DEF Services, Interval

LEMMA EmptyIsSeq == IsSeq(<<>>)
  <1>1. <<>> \in Seq({})
    OBVIOUS
  <1> QED
    BY <1>1 DEF IsSeq

LEMMA InitWInv == Init => WInv
  <1> SUFFICES ASSUME Init PROVE WInv
    OBVIOUS
  <1>1. split = None /\ windows = [r \in Requests |-> [s \in Services |-> <<>>]]
    BY DEF Init
  <1>2. SplitSoFar
    BY <1>1 DEF SplitSoFar
  <1>3. Functional
    BY <1>1 DEF Init, Functional
  <1>4. NoWindowsYet
    BY <1>1 DEF Init, NoWindowsYet
  <1>5. \A r \in Requests, s \in Services : WindowsSoFar(r, s)
    BY <1>1, EmptyIsSeq DEF WindowsSoFar, Splitting, Free
  <1> QED
    BY <1>2, <1>3, <1>4, <1>5 DEF WInv

\* A loop that is started is the one that is running.
LEMMA LoopRuns ==
  ASSUME NEW r, NEW s, NEW from, NEW to,
         split' = [request |-> r, service |-> s, from |-> from, to |-> to]
  PROVE /\ ~Free'
        /\ split'.request = r /\ split'.service = s
        /\ split'.from = from /\ split'.to = to
  <1>1. "from" \in DOMAIN split' /\ "from" \notin DOMAIN [request |-> "none"]
    OBVIOUS
  <1>2. split' # None
    BY <1>1 DEF None
  <1>3. ~Free'
    BY <1>2 DEF Free, None
  <1> QED
    BY <1>3

(***************************************************************************)
(* Steps that start a loop.                                                *)
(***************************************************************************)
LEMMA LoopStarts ==
  ASSUME WInv, NEW r \in Requests, NEW s \in Services,
         Free, split' = Loop(r, s, range'[r].start),
         Functional',
         windows'[r][s] = <<>>,
         \A t \in Services \ {s} :
           windows'[r][t] = <<>> \/ (windows'[r][t] = windows[r][t] /\ range'[r] = range[r]),
         \A q \in Requests \ {r} : range'[q] = range[q] /\ windows'[q] = windows[q],
         NoWindowsYet'
  PROVE WInv'
  <1> DEFINE start == range'[r].start
  <1>1. /\ split' = [request |-> r, service |-> s, from |-> start,
                     to |-> SetDate(start, DayOfMonth(start) + Interval[s])]
    BY DEF Loop
  <1>2. /\ ~Free' /\ split'.request = r /\ split'.service = s
        /\ split'.from = start
        /\ split'.to = SetDate(start, DayOfMonth(start) + Interval[s])
    BY <1>1, LoopRuns
  <1>3. SplitSoFar'
    BY <1>1, <1>2 DEF SplitSoFar, EndOf
  <1>4. ASSUME NEW q \in Requests, NEW t \in Services PROVE WindowsSoFar(q, t)'
    <2>1. CASE windows'[q][t] = <<>>
      BY <1>2, <2>1, EmptyIsSeq DEF WindowsSoFar, Splitting
    <2>2. CASE windows'[q][t] # <<>>
      <3>1. ~(q = r /\ t = s) /\ windows'[q][t] = windows[q][t] /\ range'[q] = range[q]
        BY <2>2
      <3>2. ~Splitting(q, t) /\ ~Splitting(q, t)'
        BY <1>2, <3>1 DEF Splitting
      <3>3. WindowsSoFar(q, t)
        BY DEF WInv
      <3> QED
        BY <3>1, <3>2, <3>3 DEF WindowsSoFar
    <2> QED
      BY <2>1, <2>2
  <1> QED
    BY <1>3, <1>4 DEF WInv

LEMMA RegionSteps ==
  ASSUME WInv, NEW r \in Requests, Free,
         NEW n, NEW x, EnterRegion(r, n, x),
         range' = [range EXCEPT ![r] = x]
  PROVE WInv'
  <1>1. /\ windows' = [windows EXCEPT ![r] = [s \in Services |-> <<>>]]
        /\ lambda' = [lambda EXCEPT ![r] = "names"]
        /\ split' = Loop(r, "EC2", x.start)
    BY DEF EnterRegion
  <1>2. range'[r] = x /\ \A q \in Requests \ {r} : range'[q] = range[q]
    BY DEF WInv, Functional
  <1>3. /\ \A s \in Services : windows'[r][s] = <<>>
        /\ \A q \in Requests \ {r} : windows'[q] = windows[q]
    BY <1>1 DEF WInv, Functional
  <1>4. Functional'
    <2>1. /\ range' = [q \in Requests |-> range'[q]]
          /\ lambda' = [q \in Requests |-> lambda'[q]]
      BY <1>1 DEF WInv, Functional
    <2>2. windows' = [q \in Requests |->
                        IF q = r THEN [s \in Services |-> <<>>]
                        ELSE [s \in Services |-> windows[q][s]]]
      BY <1>1 DEF WInv, Functional
    <2>3. windows' = [q \in Requests |-> [s \in Services |-> windows'[q][s]]]
      BY <2>2
    <2> QED
      BY <2>1, <2>3 DEF Functional
  <1>5. "EC2" \in Services /\ "Lambda" \in Services /\ "EC2" # "Lambda"
    BY Two
  <1>6. ~Free' /\ split'.request = r /\ split'.service = "EC2"
    BY <1>1, LoopRuns DEF Loop
  <1>7. NoWindowsYet'
    <2> SUFFICES ASSUME NEW q \in Requests, lambda'[q] = "names"
                 PROVE windows'[q]["Lambda"] = <<>> /\ ~Splitting(q, "Lambda")'
      BY DEF NoWindowsYet
    <2>1. ~Splitting(q, "Lambda")'
      BY <1>5, <1>6 DEF Splitting
    <2>2. CASE q = r
      BY <1>3, <1>5, <2>1, <2>2
    <2>3. CASE q # r
      <3>1. lambda[q] = "names"
        BY <1>1, <2>3 DEF WInv, Functional
      <3> QED
        BY <1>3, <2>1, <2>3, <3>1 DEF WInv, NoWindowsYet
    <2> QED
      BY <2>2, <2>3
  <1> QED
    BY <1>1, <1>2, <1>3, <1>4, <1>5, <1>7, LoopStarts

LEMMA EnterSteps ==
  ASSUME WInv, NEW r \in Requests,
         NextRegion(r) \/ \E x \in Ranges[r] : Estimate(r, x)
  PROVE WInv'
  <1>1. CASE NextRegion(r)
    <2>1. Free /\ EnterRegion(r, region[r] + 1, range[r]) /\ range' = range
      BY <1>1 DEF NextRegion
    <2>2. range' = [range EXCEPT ![r] = range[r]]
      BY <2>1 DEF WInv, Functional
    <2> QED
      BY <2>1, <2>2, RegionSteps
  <1>2. CASE \E x \in Ranges[r] : Estimate(r, x)
    <2>1. PICK x \in Ranges[r] : Estimate(r, x)
      BY <1>2
    <2>2. Free /\ EnterRegion(r, 1, x) /\ range' = [range EXCEPT ![r] = x]
      BY <2>1 DEF Estimate
    <2> QED
      BY <2>2, RegionSteps
  <1> QED
    BY <1>1, <1>2

(***************************************************************************)
(* Steps that change no window; Lambda goes on or fails.                   *)
(***************************************************************************)
LEMMA QuietStep ==
  ASSUME WInv, UNCHANGED <<range, windows, split>>,
         \/ lambda' = lambda
         \/ \E r \in Requests : \E label \in {"start", "collect", "done", "failed"} :
              lambda' = [lambda EXCEPT ![r] = label]
  PROVE WInv'
  <1>1. Functional'
    BY DEF WInv, Functional
  <1>2. \A r \in Requests : lambda'[r] = "names" => lambda[r] = "names"
    BY DEF WInv, Functional
  <1>3. NoWindowsYet'
    BY <1>2 DEF WInv, NoWindowsYet, Splitting, Free
  <1>4. SplitSoFar'
    BY DEF WInv, SplitSoFar
  <1>5. \A r \in Requests, s \in Services : WindowsSoFar(r, s)'
    BY DEF WInv, WindowsSoFar, Splitting, Free
  <1> QED
    BY <1>1, <1>3, <1>4, <1>5 DEF WInv

LEMMA GroupSteps ==
  ASSUME WInv, NEW r \in Requests,
         NextGroup(r) \/ \E n \in 0..setup.groups : GroupNames(r, n)
  PROVE WInv'
  <1>0. "Lambda" \in Services
    BY Two
  <1>1. \/ /\ UNCHANGED <<range, windows, split>>
           /\ lambda' = [lambda EXCEPT ![r] = "done"]
        \/ /\ Free /\ UNCHANGED range
           /\ split' = Loop(r, "Lambda", range[r].start)
           /\ \/ /\ windows' = [windows EXCEPT ![r]["Lambda"] = <<>>]
                 /\ lambda' = lambda /\ lambda[r] = "start"
              \/ /\ windows' = windows /\ lambda[r] = "names"
                 /\ lambda' = [lambda EXCEPT ![r] = "start"]
    BY DEF NextGroup, GroupStarted, GroupNames
  <1>2. CASE /\ UNCHANGED <<range, windows, split>>
             /\ lambda' = [lambda EXCEPT ![r] = "done"]
    BY <1>2, QuietStep
  <1>3. CASE /\ Free /\ UNCHANGED range
             /\ split' = Loop(r, "Lambda", range[r].start)
             /\ \/ /\ windows' = [windows EXCEPT ![r]["Lambda"] = <<>>]
                   /\ lambda' = lambda /\ lambda[r] = "start"
                \/ /\ windows' = windows /\ lambda[r] = "names"
                   /\ lambda' = [lambda EXCEPT ![r] = "start"]
    <2>1. windows'[r]["Lambda"] = <<>>
      BY <1>0, <1>3 DEF WInv, Functional, NoWindowsYet
    <2>2. /\ \A t \in Services \ {"Lambda"} : windows'[r][t] = windows[r][t]
          /\ \A q \in Requests \ {r} : windows'[q] = windows[q]
      BY <1>3 DEF WInv, Functional
    <2>3. Functional'
      <3>1. lambda' = [q \in Requests |-> lambda'[q]]
        BY <1>3 DEF WInv, Functional
      <3>2. windows' = [q \in Requests |->
               [s \in Services |-> IF q = r /\ s = "Lambda" THEN <<>> ELSE windows[q][s]]]
        <4>1. CASE windows' = windows
          BY <1>0, <2>1, <4>1 DEF WInv, Functional
        <4>2. CASE windows' = [windows EXCEPT ![r]["Lambda"] = <<>>]
          BY <1>0, <4>2 DEF WInv, Functional
        <4> QED
          BY <1>3, <4>1, <4>2
      <3>3. windows' = [q \in Requests |-> [s \in Services |-> windows'[q][s]]]
        BY <3>2
      <3> QED
        BY <1>3, <3>1, <3>3 DEF WInv, Functional
    <2>4. ~Free' /\ split'.request = r /\ split'.service = "Lambda"
      BY <1>3, LoopRuns DEF Loop
    <2>5. lambda'[r] = "start" /\ \A q \in Requests \ {r} : lambda'[q] = lambda[q]
      BY <1>3 DEF WInv, Functional
    <2>6. NoWindowsYet'
      BY <2>2, <2>4, <2>5 DEF WInv, NoWindowsYet, Splitting
    <2> QED
      BY <1>0, <1>3, <2>1, <2>2, <2>3, <2>6, LoopStarts
  <1> QED
    BY <1>1, <1>2, <1>3

(***************************************************************************)
(* Steps of a loop.                                                        *)
(***************************************************************************)
LEMMA LoopSteps ==
  ASSUME WInv, SplitWindow \/ SplitLast
  PROVE WInv'
  <1>0. ~Free /\ split.request \in Requests /\ split.service \in Services
    BY DEF SplitWindow, SplitLast, WInv, SplitSoFar, Free
  <1> PICK r \in Requests, s \in Services : r = split.request /\ s = split.service
    BY <1>0
  <1> DEFINE ws == windows[r][s]
             start == range[r].start
             end == IF SplitWindow THEN split.to ELSE range[r].end
             window == [from |-> split.from, to |-> end]
  <1>1. /\ ~Free /\ r \in Requests /\ s \in Services
        /\ split = [request |-> r, service |-> s, from |-> split.from, to |-> split.to]
        /\ split.to = EndOf(s, split.from, start)
    BY DEF SplitWindow, SplitLast, WInv, SplitSoFar, Free
  <1>2. /\ UNCHANGED <<range, lambda>>
        /\ \/ windows' = [windows EXCEPT ![r][s] = Append(@, window)]
           \/ windows' = windows /\ Len(ws) = MaxWindows
    BY DEF SplitWindow, SplitLast, Push, PushTooMany, lambdaVars
  <1>14. Len(ws) < MaxWindows \/ windows' = windows
    BY AwsAssumption DEF SplitWindow, SplitLast, Push, PushTooMany
  <1>3. /\ IsSeq(ws) /\ Splitting(r, s)
        /\ WindowsSoFar(r, s)
    BY <1>1 DEF WInv, WindowsSoFar, Splitting
  <1>4. \A q \in Requests, t \in Services :
          ~(q = r /\ t = s) => windows'[q][t] = windows[q][t]
    BY <1>1, <1>2 DEF WInv, Functional
  <1>5. \/ windows'[r][s] = Append(ws, window)
        \/ windows'[r][s] = ws /\ Len(ws) = MaxWindows
    BY <1>1, <1>2 DEF WInv, Functional
  <1>6. Functional'
    <2>1. windows' = [q \in Requests |-> [t \in Services |-> windows'[q][t]]]
      <3>1. CASE windows' = windows
        BY <3>1 DEF WInv, Functional
      <3>2. CASE windows' = [windows EXCEPT ![r][s] = Append(@, window)]
        <4>1. windows' = [q \in Requests |-> [t \in Services |->
                 IF q = r /\ t = s THEN Append(ws, window) ELSE windows[q][t]]]
          BY <1>1, <3>2 DEF WInv, Functional
        <4> QED
          BY <4>1
      <3> QED
        BY <1>2, <3>1, <3>2
    <2> QED
      BY <1>2, <2>1 DEF WInv, Functional
  <1>7. \/ /\ split' = None /\ end = range[r].end
        \/ /\ split' = [request |-> r, service |-> s, from |-> split.to,
                        to |-> EndOf(s, split.to, start)]
           /\ end = split.to
    <2>1. CASE SplitWindow
      <3> DEFINE next == NextStart(s, split.from, start)
      <3>1. next = split.to
        BY <1>1 DEF NextStart, EndOf
      <3>2. split' = [split EXCEPT !.from = next,
                                   !.to = SetDate(next, DayOfMonth(start) + Interval[s])]
        BY <2>1 DEF SplitWindow
      <3>3. split' = [request |-> r, service |-> s, from |-> next,
                      to |-> SetDate(next, DayOfMonth(start) + Interval[s])]
        BY <1>1, <3>2
      <3> QED
        BY <2>1, <3>1, <3>3 DEF EndOf
    <2>2. CASE SplitLast /\ ~SplitWindow
      BY <2>2 DEF SplitLast
    <2> QED
      BY <2>1, <2>2
  <1>8. \/ Free' /\ end = range[r].end
        \/ /\ ~Free' /\ split'.request = r /\ split'.service = s
           /\ split'.from = split.to /\ end = split.to
           /\ split'.to = EndOf(s, split.to, start)
    BY <1>7, LoopRuns DEF Free
  <1>9. SplitSoFar'
    BY <1>1, <1>2, <1>7, <1>8 DEF SplitSoFar, Free
  <1>10. \A q \in Requests, t \in Services : ~(q = r /\ t = s) =>
           ~Splitting(q, t) /\ ~Splitting(q, t)'
    BY <1>8 DEF Splitting
  <1>11. NoWindowsYet'
    <2> SUFFICES ASSUME NEW q \in Requests, lambda[q] = "names"
                 PROVE windows'[q]["Lambda"] = <<>> /\ ~Splitting(q, "Lambda")'
      BY <1>2 DEF NoWindowsYet
    <2>1. windows[q]["Lambda"] = <<>> /\ ~Splitting(q, "Lambda")
      BY DEF WInv, NoWindowsYet
    <2>2. ~(q = r /\ "Lambda" = s) /\ "Lambda" \in Services
      BY <1>3, <2>1, Two
    <2> QED
      BY <1>4, <1>10, <2>1, <2>2
  <1>12. WindowsSoFar(r, s)'
    <2> DEFINE new == windows'[r][s]
    <2>1. CASE new = ws /\ Len(ws) = MaxWindows
      <3>1. ws # <<>> /\ ~(Len(ws) < MaxWindows)
        BY <2>1, AwsAssumption
      <3> QED
        BY <1>2, <1>3, <2>1, <3>1 DEF WindowsSoFar
    <2>2. CASE new = Append(ws, window)
      <3>1. /\ IsSeq(new) /\ new # <<>>
            /\ Len(ws) \in Nat /\ Len(new) = Len(ws) + 1
            /\ \A i \in 1..Len(ws) : new[i] = ws[i]
            /\ new[Len(ws) + 1] = window
            /\ ws # <<>> => Len(ws) # 0
        BY <1>3, <2>2, AppendFacts
      <3>2. ws = <<>> => Len(ws) = 0
        OBVIOUS
      <3>3. window.from = split.from /\ window.to = end
        OBVIOUS
      <3>4. new[1].from = start
        <4>1. CASE ws = <<>>
          BY <1>3, <3>1, <3>2, <3>3, <4>1 DEF WindowsSoFar
        <4>2. CASE ws # <<>>
          BY <1>3, <3>1, <4>2 DEF WindowsSoFar
        <4> QED
          BY <4>1, <4>2
      <3>5. ASSUME NEW i \in 1..Len(new) - 1 PROVE new[i + 1].from = new[i].to
        <4>1. CASE i < Len(ws)
          <5>1. i \in 1..Len(ws) - 1 /\ i \in 1..Len(ws) /\ i + 1 \in 1..Len(ws)
                /\ ws # <<>>
            BY <3>1, <3>2, <4>1
          <5> QED
            BY <1>3, <3>1, <5>1 DEF WindowsSoFar
        <4>2. CASE i = Len(ws)
          <5>1. ws # <<>> /\ Len(ws) \in 1..Len(ws)
            BY <3>1, <3>2, <4>2
          <5>2. Len(ws) < MaxWindows
            BY <1>14, <2>2
          <5>3. ws[Len(ws)].to = split.from
            BY <1>3, <5>1, <5>2 DEF WindowsSoFar
          <5> QED
            BY <3>1, <3>3, <4>2, <5>1, <5>3
        <4> QED
          BY <3>1, <4>1, <4>2
      <3>6. new[Len(new)].to = end
        BY <3>1, <3>3
      <3>7. /\ Splitting(r, s)' => end = split'.from
            /\ ~Splitting(r, s)' => end = range[r].end
        BY <1>8 DEF Splitting
      <3> QED
        BY <1>2, <3>1, <3>4, <3>5, <3>6, <3>7 DEF WindowsSoFar
    <2> QED
      BY <1>5, <2>1, <2>2
  <1>13. ASSUME NEW q \in Requests, NEW t \in Services PROVE WindowsSoFar(q, t)'
    <2>1. CASE q = r /\ t = s
      BY <1>12, <2>1
    <2>2. CASE ~(q = r /\ t = s)
      <3>1. WindowsSoFar(q, t)
        BY DEF WInv
      <3> QED
        BY <1>2, <1>4, <1>10, <2>2, <3>1 DEF WindowsSoFar
    <2> QED
      BY <2>1, <2>2
  <1> QED
    BY <1>6, <1>9, <1>11, <1>13 DEF WInv

LEMMA NextWInv == WInv /\ [Next]_vars => WInv'
  <1> SUFFICES ASSUME WInv, [Next]_vars PROVE WInv'
    OBVIOUS
  <1>1. CASE UNCHANGED vars
    BY <1>1, QuietStep DEF vars, lambdaVars
  <1>2. CASE SplitWindow \/ SplitLast
    BY <1>2, LoopSteps
  <1>3. ASSUME NEW r \in Requests,
               \/ NextRegion(r) \/ \E x \in Ranges[r] : Estimate(r, x)
               \/ NextGroup(r) \/ \E n \in 0..setup.groups : GroupNames(r, n)
        PROVE WInv'
    BY <1>3, EnterSteps, GroupSteps
  <1>4. ASSUME NEW r \in Requests,
               \/ AnswerServices(r) \/ ReadMetrics(r) \/ ReadMetricsFails(r)
               \/ CollectFirst(r) \/ CollectNext(r) \/ CollectedAll(r)
               \/ PollFailed(r) \/ PollSucceeded(r) \/ ReadPage(r) \/ ReadPageFails(r)
               \/ StartAthena(r) \/ NamesFail(r) \/ PollFails(r) \/ FinishAthena(r)
        PROVE WInv'
    <2>1. /\ UNCHANGED <<range, windows, split>>
          /\ \/ lambda' = lambda
             \/ lambda' = [lambda EXCEPT ![r] = "collect"]
             \/ lambda' = [lambda EXCEPT ![r] = "done"]
             \/ lambda' = [lambda EXCEPT ![r] = "failed"]
      BY <1>4 DEF AnswerServices, ReadMetrics, ReadMetricsFails, CollectFirst,
           CollectNext, CollectedAll, PollFailed, PollSucceeded, ReadPage,
           ReadPageFails, StartAthena, NamesFail, PollFails, FinishAthena, lambdaVars
    <2> QED
      BY <2>1, QuietStep
  <1>5. ASSUME NEW q \in Queries,
               \/ ProcessQuery(q) \/ CountFails(q) \/ NoResult(q)
               \/ RunScheduled(q) \/ FinishQuery(q)
        PROVE WInv'
    <2>1. /\ UNCHANGED <<range, windows, split>>
          /\ \/ lambda' = lambda
             \/ lambda' = [lambda EXCEPT ![q[1]] = "failed"]
      BY <1>5 DEF ProcessQuery, CountRunning, StartQuery, StartRefused, GetResult,
           CountFails, Refuse, NoResult, RunScheduled, FinishQuery, lambdaVars
    <2>2. q[1] \in Requests
      BY DEF Queries
    <2> QED
      BY <2>1, <2>2, QuietStep
  <1>6. CASE OtherStarts \/ OtherFinishes
    BY <1>6, QuietStep DEF OtherStarts, OtherFinishes, lambdaVars
  <1> QED
    BY <1>1, <1>2, <1>3, <1>4, <1>5, <1>6 DEF Next, Process

LEMMA Inductive == Spec => []WInv
  BY InitWInv, NextWInv, PTL DEF Spec

LEMMA FitFromInv == WInv => WindowsFit
  BY DEF WInv, WindowsSoFar, WindowsFit

\* For every calendar, every range of days and every number of regions and groups:
\* the windows of a service begin with the range and each begins where the one
\* before ends, although the next one is computed from the day of the month of the
\* first start and never from the end of the last one.
THEOREM NoGapBetweenWindows == Spec => []WindowsFit
  BY FitFromInv, Inductive, PTL

\* What a loop leaves behind ends with the range, unless it has more windows than
\* are told apart.
AllWindows ==
  \A r \in Requests, s \in Services :
    LET ws == windows[r][s]
    IN  ws # <<>> /\ ~Splitting(r, s) /\ Len(ws) < MaxWindows =>
          ws[Len(ws)].to = range[r].end

LEMMA AllFromInv == WInv => AllWindows
  BY DEF WInv, WindowsSoFar, AllWindows

\* The last window of a service ends with the range that was asked for, whichever
\* days the range begins and ends on: with the theorem above no day is left out.
THEOREM WindowsEndWithRange == Spec => []AllWindows
  BY AllFromInv, Inductive, PTL
-----------------------------------------------------------------------------
(***************************************************************************)
(* Pages.                                                                  *)
(***************************************************************************)

\* The pages read are the first ones, and the request reads on until the last.
PagesSoFar ==
  /\ pc = [r \in Requests |-> pc[r]] /\ athena = [r \in Requests |-> athena[r]]
  /\ pages \in [Requests -> Seq(1..NPages)]
  /\ \A r \in Requests :
       /\ \A i \in 1..Len(pages[r]) : pages[r][i] = i
       /\ pc[r] \in {"idle", "poll"} => pages[r] = <<>>
       /\ pc[r] = "pages" => athena[r] = "SUCCEEDED" /\ Len(pages[r]) < NPages
       /\ pc[r] = "answered" /\ setup.source = "reports" =>
            athena[r] = "SUCCEEDED" /\ Len(pages[r]) = NPages
       /\ pc[r] = "estimate" => setup.source # "reports"

\* The part of AnswerIsWhole about Athena.
ReportIsWhole ==
  \A r \in Requests : pc[r] = "answered" /\ setup.source = "reports" =>
    athena[r] = "SUCCEEDED" /\ pages[r] = [i \in 1..NPages |-> i]

LEMMA InitPages == Init => PagesSoFar
  BY AwsAssumption DEF Init, PagesSoFar

LEMMA ReadPageStep ==
  ASSUME PagesSoFar, NEW r \in Requests, ReadPage(r)
  PROVE PagesSoFar'
  <1> DEFINE n == Len(pages[r])
             page == TokenToSend(pages[r])
  <1>1. /\ pages[r] \in Seq(1..NPages) /\ n \in Nat /\ NPages \in Nat \ {0}
        /\ \A i \in 1..n : pages[r][i] = i
        /\ n < NPages
        /\ pc[r] = "pages" /\ athena[r] = "SUCCEEDED"
    BY AwsAssumption DEF PagesSoFar, ReadPage
  <1>2. page = n + 1
    <2>1. CASE pages[r] = <<>>
      BY <2>1 DEF TokenToSend
    <2>2. CASE pages[r] # <<>>
      <3>1. n # 0 /\ pages[r][n] = n
        BY <1>1, <2>2
      <3> QED
        BY <1>1, <2>2, <3>1 DEF TokenToSend, TokenOf
    <2> QED
      BY <2>1, <2>2
  <1>3. page \in 1..NPages /\ (TokenOf(page) = 0 <=> n + 1 = NPages)
    BY <1>1, <1>2 DEF TokenOf
  <1>4. /\ Append(pages[r], page) \in Seq(1..NPages)
        /\ Len(Append(pages[r], page)) = n + 1
        /\ \A i \in 1..n + 1 : Append(pages[r], page)[i] = i
    BY <1>1, <1>2, <1>3
  <1>5. /\ pages' = [pages EXCEPT ![r] = Append(pages[r], page)]
        /\ pc' = IF TokenOf(page) = 0 THEN [pc EXCEPT ![r] = "answered"] ELSE pc
        /\ UNCHANGED <<athena, setup>>
    BY DEF ReadPage, Goto
  <1>6. pages' \in [Requests -> Seq(1..NPages)]
    BY <1>4, <1>5 DEF PagesSoFar
  <1>7. /\ pages'[r] = Append(pages[r], page)
        /\ \A q \in Requests \ {r} : pages'[q] = pages[q] /\ pc'[q] = pc[q]
        /\ pc'[r] = IF n + 1 = NPages THEN "answered" ELSE "pages"
        /\ pc' = [q \in Requests |-> pc'[q]]
    BY <1>1, <1>3, <1>5 DEF PagesSoFar
  <1>8. ASSUME NEW q \in Requests
        PROVE /\ \A i \in 1..Len(pages'[q]) : pages'[q][i] = i
              /\ pc'[q] \in {"idle", "poll"} => pages'[q] = <<>>
              /\ pc'[q] = "pages" => athena[q] = "SUCCEEDED" /\ Len(pages'[q]) < NPages
              /\ pc'[q] = "answered" /\ setup.source = "reports" =>
                   athena[q] = "SUCCEEDED" /\ Len(pages'[q]) = NPages
              /\ pc'[q] = "estimate" => setup.source # "reports"
    <2>1. CASE q = r
      <3>1. Len(pages'[r]) = n + 1 /\ \A i \in 1..n + 1 : pages'[r][i] = i
        BY <1>4, <1>7
      <3>2. \/ pc'[r] = "answered" /\ n + 1 = NPages
            \/ pc'[r] = "pages" /\ n + 1 < NPages
        <4>1. n + 1 = NPages \/ (n + 1 < NPages /\ n + 1 # NPages)
          BY <1>1
        <4>2. pc'[r] = IF n + 1 = NPages THEN "answered" ELSE "pages"
          BY <1>7
        <4> HIDE DEF n
        <4> QED
          BY <4>1, <4>2
      <3> QED
        BY <1>1, <2>1, <3>1, <3>2
    <2>2. CASE q # r
      BY <1>7, <2>2 DEF PagesSoFar
    <2> QED
      BY <2>1, <2>2
  <1> QED
    BY <1>5, <1>6, <1>7, <1>8 DEF PagesSoFar

\* A step of one request that reads no page.
LEMMA OtherStep ==
  ASSUME PagesSoFar, UNCHANGED <<pages, setup>>,
         NEW r \in Requests, NEW label, NEW state,
         pc' = [pc EXCEPT ![r] = label], athena' = [athena EXCEPT ![r] = state],
         label \in {"idle", "poll"} => pc[r] \in {"idle", "poll"},
         label = "estimate" => setup.source # "reports",
         label = "pages" => state = "SUCCEEDED" /\ pc[r] \in {"poll", "pages"},
         label = "answered" /\ setup.source = "reports" =>
           pc[r] = "answered" /\ state = athena[r]
  PROVE PagesSoFar'
  <1>1. /\ pc'[r] = label /\ athena'[r] = state
        /\ \A q \in Requests \ {r} : pc'[q] = pc[q] /\ athena'[q] = athena[q]
        /\ pc' = [q \in Requests |-> pc'[q]]
        /\ athena' = [q \in Requests |-> athena'[q]]
    BY DEF PagesSoFar
  <1>2. Len(<<>>) = 0 /\ NPages \in Nat \ {0}
    BY AwsAssumption
  <1> QED
    BY <1>1, <1>2 DEF PagesSoFar

LEMMA NextPages == PagesSoFar /\ [Next]_vars => PagesSoFar'
  <1> SUFFICES ASSUME PagesSoFar, [Next]_vars PROVE PagesSoFar'
    OBVIOUS
  <1> USE DEF Goto, Fail, athenaVars
  <1>1. ASSUME UNCHANGED <<pc, athena, pages, setup>> PROVE PagesSoFar'
    BY <1>1 DEF PagesSoFar
  <1>2. ASSUME NEW r \in Requests PROVE
          /\ pc = [pc EXCEPT ![r] = pc[r]]
          /\ athena = [athena EXCEPT ![r] = athena[r]]
    BY DEF PagesSoFar
  \* A request that goes on among the services, or fails.
  <1>3. ASSUME NEW r \in Requests, NEW label, UNCHANGED <<athena, pages, setup>>,
               pc' = [pc EXCEPT ![r] = label],
               \/ label = "failed" \/ label = pc[r]
               \/ label \in {"estimate", "answered"} /\ setup.source # "reports"
        PROVE PagesSoFar'
    BY <1>2, <1>3, OtherStep DEF PagesSoFar
  <1>4. CASE UNCHANGED vars
    BY <1>1, <1>4 DEF vars
  <1>5. CASE SplitWindow \/ SplitLast \/ OtherStarts \/ OtherFinishes
    BY <1>1, <1>5 DEF SplitWindow, SplitLast, OtherStarts, OtherFinishes
  <1>6. ASSUME NEW r \in Requests,
               \/ NextRegion(r) \/ ReadMetrics(r) \/ NextGroup(r)
               \/ \E n \in 0..setup.groups : GroupNames(r, n)
               \/ CollectFirst(r) \/ CollectNext(r) \/ CollectedAll(r)
        PROVE PagesSoFar'
    BY <1>1, <1>6 DEF NextRegion, ReadMetrics, NextGroup, GroupNames, CollectFirst,
                      CollectNext, CollectedAll
  <1>7. ASSUME NEW r \in Requests,
               \/ ReadMetricsFails(r) \/ NamesFail(r)
               \/ PollFailed(r) \/ ReadPageFails(r) \/ PollFails(r)
        PROVE PagesSoFar'
    <2>1. /\ UNCHANGED <<athena, pages, setup>>
          /\ \/ pc' = [pc EXCEPT ![r] = "failed"]
             \/ pc' = [pc EXCEPT ![r] = pc[r]]
      BY <1>7 DEF ReadMetricsFails, NamesFail, PollFailed, ReadPageFails, PollFails
    <2> QED
      BY <1>3, <2>1
  <1>8. ASSUME NEW q \in Queries,
               \/ ProcessQuery(q) \/ CountFails(q) \/ NoResult(q)
               \/ RunScheduled(q) \/ FinishQuery(q)
        PROVE PagesSoFar'
    <2>1. /\ UNCHANGED <<athena, pages, setup>>
          /\ \/ pc' = pc
             \/ pc' = [pc EXCEPT ![q[1]] = "failed"]
             \/ pc' = [pc EXCEPT ![q[1]] = pc[q[1]]]
      BY <1>8 DEF ProcessQuery, CountRunning, StartQuery, StartRefused, GetResult,
           CountFails, Refuse, NoResult, RunScheduled, FinishQuery
    <2>2. q[1] \in Requests
      BY DEF Queries
    <2> QED
      BY <1>1, <1>3, <2>1, <2>2
  <1>9. ASSUME NEW r \in Requests,
               AnswerServices(r) \/ \E x \in Ranges[r] : Estimate(r, x)
        PROVE PagesSoFar'
    <2>1. CASE AnswerServices(r)
      <3>1. /\ UNCHANGED <<athena, pages, setup>> /\ setup.source # "reports"
            /\ pc' = [pc EXCEPT ![r] = "answered"]
        BY <2>1 DEF AnswerServices, PagesSoFar
      <3> QED
        BY <1>3, <3>1
    <2>2. CASE \E x \in Ranges[r] : Estimate(r, x)
      <3>1. /\ UNCHANGED <<athena, pages, setup>> /\ setup.source # "reports"
            /\ pc' = [pc EXCEPT ![r] = "estimate"]
        BY <2>2 DEF Estimate
      <3> QED
        BY <1>3, <3>1
    <2> QED
      BY <1>9, <2>1, <2>2
  <1>10. ASSUME NEW r \in Requests, StartAthena(r) PROVE PagesSoFar'
    <2>1. CASE athena' = [athena EXCEPT ![r] = "QUEUED"] /\ pc' = [pc EXCEPT ![r] = "poll"]
      <3>1. UNCHANGED <<pages, setup>> /\ pc[r] = "idle"
        BY <1>10 DEF StartAthena
      <3> QED
        BY <2>1, <3>1, OtherStep
    <2>2. CASE athena' = athena /\ pc' = [pc EXCEPT ![r] = "failed"]
      <3>1. UNCHANGED <<pages, setup>>
        BY <1>10 DEF StartAthena
      <3> QED
        BY <1>3, <2>2, <3>1
    <2> QED
      BY <1>10, <2>1, <2>2 DEF StartAthena
  <1>11. ASSUME NEW r \in Requests, PollSucceeded(r) PROVE PagesSoFar'
    <2>1. /\ UNCHANGED <<pages, setup, athena>> /\ pc[r] = "poll"
          /\ athena[r] = "SUCCEEDED" /\ pc' = [pc EXCEPT ![r] = "pages"]
      BY <1>11 DEF PollSucceeded
    <2>2. athena' = [athena EXCEPT ![r] = athena[r]]
      BY <1>2, <2>1
    <2> QED
      BY <2>1, <2>2, OtherStep
  <1>12. ASSUME NEW r \in Requests, FinishAthena(r) PROVE PagesSoFar'
    <2>1. /\ UNCHANGED <<pc, pages, setup>> /\ athena[r] = "QUEUED"
          /\ \E state \in {"SUCCEEDED", "FAILED", "CANCELLED"} :
               athena' = [athena EXCEPT ![r] = state]
      BY <1>12 DEF FinishAthena
    <2>2. PICK state : athena' = [athena EXCEPT ![r] = state]
      BY <2>1
    <2>3. pc' = [pc EXCEPT ![r] = pc[r]]
      BY <1>2, <2>1
    <2>4. /\ pc[r] # "pages"
          /\ ~(pc[r] = "answered" /\ setup.source = "reports")
          /\ pc[r] = "estimate" => setup.source # "reports"
      BY <2>1 DEF PagesSoFar
    <2> QED
      BY <2>1, <2>2, <2>3, <2>4, OtherStep
  <1>13. ASSUME NEW r \in Requests, ReadPage(r) PROVE PagesSoFar'
    BY <1>13, ReadPageStep
  <1> QED
    BY <1>4, <1>5, <1>6, <1>7, <1>8, <1>9, <1>10, <1>11, <1>12, <1>13
       DEF Next, Process

LEMMA ReportFromInv == PagesSoFar => ReportIsWhole
  <1> SUFFICES ASSUME PagesSoFar, NEW r \in Requests,
                      pc[r] = "answered", setup.source = "reports"
               PROVE athena[r] = "SUCCEEDED" /\ pages[r] = [i \in 1..NPages |-> i]
    BY DEF ReportIsWhole
  <1>1. /\ athena[r] = "SUCCEEDED" /\ pages[r] \in Seq(1..NPages)
        /\ Len(pages[r]) = NPages /\ \A i \in 1..NPages : pages[r][i] = i
    BY DEF PagesSoFar
  <1>2. pages[r] = [i \in 1..NPages |-> pages[r][i]]
    BY <1>1
  <1> QED
    BY <1>1, <1>2

\* For every number of pages: an answer from billing data has each page of the
\* query's result once, in order, of a query that succeeded.
THEOREM EachPageOnce == Spec => []ReportIsWhole
  BY InitPages, NextPages, ReportFromInv, PTL DEF Spec
-----------------------------------------------------------------------------
(***************************************************************************)
(* Types.                                                                  *)
(***************************************************************************)

\* The groups a request is at exist, and what it has under way is bounded by its
\* windows.
Bounded ==
  /\ \A r \in Requests :
       /\ lambda[r] = "start" => group[r] \in 1..ngroups[r]
       /\ unread[r] <= 1 + Len(windows[r]["EC2"])
       /\ \A s \in Services : Len(windows[r][s]) <= MaxWindows
  /\ others + othersLeft <= MaxOthers

\* The loop is at a day of the range, and goes on behind its end only if the range
\* is one day.
InRange ==
  ~Free => LET x == range[split.request]
           IN  split.from \in x.start..x.end /\ (split.from = x.end => x.start = x.end)

TInv == TypeOK /\ Bounded /\ InRange

LEMMA Numbers ==
  /\ NDays \in Nat /\ NPages \in Nat \ {0} /\ MaxOthers \in Nat
  /\ MaxGroups \in Nat /\ MaxWindows \in Nat \ {0}
  BY AwsAssumption

LEMMA RangesTyped ==
  ASSUME NEW r \in Requests, NEW x \in Ranges[r]
  PROVE /\ x = [start |-> x.start, end |-> x.end]
        /\ x.start \in 1..NDays /\ x.end \in 1..NDays /\ x.start <= x.end
  <1>1. x \in [start : 1..NDays, end : 1..NDays] /\ x.start <= x.end
    BY AwsAssumption
  <1> QED
    BY <1>1

LEMMA SetupTyped ==
  ASSUME setup \in Setups
  PROVE /\ setup.source \in {"reports", "services"} /\ setup.requests \subseteq Requests
        /\ setup.regions \in Nat \ {0} /\ setup.groups \in 0..MaxGroups
        /\ setup.others \in 0..MaxOthers
  BY AwsAssumption DEF SetupType

\* What Date.setDate makes of two days in the calendar.  The end of a window is
\* behind its start, unless it starts on a 31st, is as long as a month, and the
\* range starts on a first.
LEMMA EndIsLater ==
  ASSUME NEW s \in Services, NEW from \in 1..NDays, NEW start \in 1..NDays
  PROVE /\ EndOf(s, from, start) \in Nat
        /\ DayOfMonth(from) \in 1..31 /\ DayOfMonth(start) \in 1..31
        /\ \/ from < EndOf(s, from, start)
           \/ /\ from = EndOf(s, from, start)
              /\ s = "EC2" /\ DayOfMonth(start) = 1 /\ DayOfMonth(from) = 31
  <1> DEFINE f == FirstOfMonth[from]
             g == FirstOfMonth[start]
             to == EndOf(s, from, start)
  <1>1. f \in 1..NDays /\ g \in 1..NDays /\ from - f \in 0..30 /\ start - g \in 0..30
    BY AwsAssumption
  <1>2. to = f + (start - g + 1 + Interval[s]) - 1
    BY DEF EndOf, SetDate, DayOfMonth
  <1>3. DayOfMonth(from) = from - f + 1 /\ DayOfMonth(start) = start - g + 1
    BY DEF DayOfMonth
  <1>4. \/ s = "EC2" /\ Interval[s] = 30
        \/ s = "Lambda" /\ Interval[s] = 60
    BY Two DEF Interval
  <1> HIDE DEF f, g, to
  <1>5. DayOfMonth(from) \in 1..31 /\ DayOfMonth(start) \in 1..31
    BY <1>1, <1>3, Numbers
  <1>6. CASE s = "EC2" /\ Interval[s] = 30
    <2>1. to = f + (start - g) + 30
      BY <1>1, <1>2, <1>6, Numbers
    <2>2. to \in Nat /\ (from < to \/ (from = to /\ start - g = 0 /\ from - f = 30))
      BY <1>1, <2>1, Numbers
    <2> QED
      BY <1>1, <1>3, <1>5, <1>6, <2>2, Numbers DEF to
  <1>7. CASE s = "Lambda" /\ Interval[s] = 60
    <2>1. to = f + (start - g) + 60
      BY <1>1, <1>2, <1>7, Numbers
    <2>2. to \in Nat /\ from < to
      BY <1>1, <2>1, Numbers
    <2> QED
      BY <1>5, <2>2 DEF to
  <1> QED
    BY <1>4, <1>6, <1>7

\* A running loop is of a request and a service, and where its dates are.
LEMMA SplitTyped ==
  ASSUME WInv, TInv, ~Free
  PROVE /\ split.request \in Requests /\ split.service \in Services
        /\ split = [request |-> split.request, service |-> split.service,
                    from |-> split.from, to |-> split.to]
        /\ range[split.request] \in Ranges[split.request]
        /\ range[split.request].start \in 1..NDays
        /\ range[split.request].end \in 1..NDays
        /\ range[split.request].start <= range[split.request].end
        /\ split.from \in 1..NDays /\ split.to \in Nat
        /\ split.to = EndOf(split.service, split.from, range[split.request].start)
        /\ range[split.request].start <= split.from
        /\ split.from <= range[split.request].end
        /\ split.from = range[split.request].end =>
             range[split.request].start = range[split.request].end
        /\ \/ split.from < split.to
           \/ /\ split.from = split.to /\ split.service = "EC2"
              /\ DayOfMonth(range[split.request].start) = 1
              /\ DayOfMonth(split.from) = 31
  <1> DEFINE r == split.request
             x == range[r]
  <1>1. /\ r \in Requests /\ split.service \in Services
        /\ split = [request |-> r, service |-> split.service,
                    from |-> split.from, to |-> split.to]
        /\ split.to = EndOf(split.service, split.from, x.start)
    BY DEF WInv, SplitSoFar, Free
  <1>2. x \in Ranges[r]
    BY <1>1 DEF TInv, TypeOK
  <1>3. x.start \in 1..NDays /\ x.end \in 1..NDays /\ x.start <= x.end
    BY <1>1, <1>2, RangesTyped
  <1>4. split.from \in x.start..x.end /\ (split.from = x.end => x.start = x.end)
    BY DEF TInv, InRange
  <1> HIDE DEF x, r
  <1>5. split.from \in 1..NDays /\ x.start <= split.from /\ split.from <= x.end
    BY <1>3, <1>4, Numbers
  <1>6. /\ split.to \in Nat
        /\ \/ split.from < split.to
           \/ /\ split.from = split.to /\ split.service = "EC2"
              /\ DayOfMonth(x.start) = 1 /\ DayOfMonth(split.from) = 31
    BY <1>1, <1>3, <1>5, EndIsLater
  <1> QED
    BY <1>1, <1>2, <1>3, <1>4, <1>5, <1>6 DEF x, r

LEMMA InitTInv == Init => TInv
  <1> SUFFICES ASSUME Init PROVE TInv
    OBVIOUS
  <1>1. setup.others \in 0..MaxOthers /\ setup.regions \in Nat \ {0}
    BY SetupTyped DEF Init
  <1>2. \A r \in Requests : range[r] \in Ranges[r]
    <2>1. \A r \in Requests : Ranges[r] # {}
      BY AwsAssumption
    <2>2. ASSUME NEW r \in Requests PROVE (CHOOSE x \in Ranges[r] : TRUE) \in Ranges[r]
      BY <2>1
    <2> QED
      BY <2>2 DEF Init
  <1>3. <<>> \in Seq(Window) /\ <<>> \in Seq(1..NPages) /\ Len(<<>>) = 0
    OBVIOUS
  <1>4. TypeOK
    <2>1. windows \in [Requests -> [Services -> Seq(Window)]]
      <3> DEFINE none == [s \in Services |-> <<>>]
      <3>1. none \in [Services -> Seq(Window)]
        BY <1>3
      <3> HIDE DEF none
      <3>2. windows = [r \in Requests |-> none]
        BY DEF Init, none
      <3> QED
        BY <3>1, <3>2
    <2>2. others \in 0..MaxOthers /\ othersLeft \in 0..MaxOthers
      BY <1>1, Numbers DEF Init
    <2>6. setup \in Setups /\ split \in {None} /\ uncounted \in BOOLEAN
      BY DEF Init
    <2>3. /\ pc \in [Requests -> {"idle"}] /\ athena \in [Requests -> {"none"}]
          /\ region \in [Requests -> 1..setup.regions]
          /\ pages \in [Requests -> Seq(1..NPages)]
      BY <1>1, <1>3 DEF Init
    <2>4. /\ unread \in [Requests -> 0..MaxWindows + 1]
          /\ ngroups \in [Requests -> 0..MaxGroups] /\ group \in [Requests -> 0..MaxGroups]
      BY Numbers DEF Init
    <2>5. /\ lambda \in [Requests -> {"off"}] /\ query \in [Queries -> {"none"}]
          /\ poll \in [Queries -> {"no"}]
      BY DEF Init
    <2> QED
      BY <1>2, <2>1, <2>2, <2>3, <2>4, <2>5, <2>6 DEF TypeOK
  <1>5. Bounded
    BY <1>1, <1>3, Numbers DEF Init, Bounded
  <1> QED
    BY <1>4, <1>5 DEF Init, TInv, InRange, Free

QueryStates ==
  {"none", "ask", "start", "refused", "Scheduled", "Running", "Complete", "Failed"}

\* A window that is called for keeps what is bounded by windows.
LEMMA PushTyped ==
  ASSUME TInv, NEW r \in Requests, NEW s \in Services, NEW window \in Window,
         Push(r, s, window) \/ PushTooMany(r, s),
         UNCHANGED <<lambda, group, ngroups, others, othersLeft>>
  PROVE /\ windows' \in [Requests -> [Services -> Seq(Window)]]
        /\ unread' \in [Requests -> 0..MaxWindows + 1]
        /\ query' \in [Queries -> QueryStates]
        /\ Bounded'
  <1> DEFINE ws == windows[r][s]
  <1>1. /\ windows \in [Requests -> [Services -> Seq(Window)]]
        /\ unread \in [Requests -> 0..MaxWindows + 1]
        /\ query \in [Queries -> QueryStates]
    BY DEF TInv, TypeOK, QueryStates
  <1>2. ws \in Seq(Window) /\ Len(ws) \in Nat
    BY <1>1
  <1>3. CASE PushTooMany(r, s)
    BY <1>1, <1>3 DEF PushTooMany, TInv, Bounded
  <1>4. CASE Push(r, s, window)
    <2>1. /\ Len(ws) + 1 <= MaxWindows
          /\ windows' = [windows EXCEPT ![r] = [windows[r] EXCEPT ![s] = Append(ws, window)]]
          /\ IF s = "EC2"
             THEN unread' = [unread EXCEPT ![r] = unread[r] + 1] /\ UNCHANGED query
             ELSE query' = [query EXCEPT ![<<r, group[r], Len(ws) + 1>>] = "ask"]
                  /\ UNCHANGED unread
      BY <1>1, <1>4 DEF Push
    <2>2. Append(ws, window) \in Seq(Window) /\ Len(Append(ws, window)) = Len(ws) + 1
      BY <1>2
    <2>3. [windows[r] EXCEPT ![s] = Append(ws, window)] \in [Services -> Seq(Window)]
      BY <1>1, <2>2
    <2>4. windows' \in [Requests -> [Services -> Seq(Window)]]
      BY <1>1, <2>1, <2>3
    <2>5. /\ windows'[r][s] = Append(ws, window)
          /\ \A t \in Services \ {s} : windows'[r][t] = windows[r][t]
          /\ \A q \in Requests \ {r} : windows'[q] = windows[q]
      BY <1>1, <2>1
    <2>6. query' \in [Queries -> QueryStates]
      BY <1>1, <2>1 DEF QueryStates
    <2>7. /\ \A q \in Requests : unread'[q] <= 1 + Len(windows'[q]["EC2"])
          /\ unread' \in [Requests -> 0..MaxWindows + 1]
      <3>1. \A q \in Requests : unread[q] \in Nat /\ unread[q] <= 1 + Len(windows[q]["EC2"])
        BY <1>1 DEF TInv, Bounded
      <3>2. "EC2" \in Services
        BY Two
      <3> HIDE DEF ws
      <3>3. CASE s = "EC2"
        <4>1. /\ unread' = [unread EXCEPT ![r] = unread[r] + 1]
              /\ unread[r] <= 1 + Len(ws) /\ unread[r] \in Nat
          BY <2>1, <3>1, <3>3 DEF ws
        <4>2. unread[r] + 1 \in 0..MaxWindows + 1
          BY <1>2, <2>1, <4>1, Numbers
        <4>3. unread' \in [Requests -> 0..MaxWindows + 1]
          BY <1>1, <4>1, <4>2
        <4>4. unread'[r] = unread[r] + 1 /\ \A q \in Requests \ {r} : unread'[q] = unread[q]
          BY <1>1, <4>1
        <4>5. unread'[r] <= 1 + Len(windows'[r]["EC2"])
          BY <1>2, <2>2, <2>5, <3>3, <4>1, <4>4
        <4> QED
          BY <2>5, <3>1, <4>3, <4>4, <4>5
      <3>4. CASE s # "EC2"
        BY <1>1, <2>1, <2>5, <3>1, <3>2, <3>4
      <3> QED
        BY <3>3, <3>4
    <2>8. \A q \in Requests, t \in Services : Len(windows'[q][t]) <= MaxWindows
      BY <2>1, <2>2, <2>5 DEF TInv, Bounded
    <2> QED
      BY <2>4, <2>6, <2>7, <2>8 DEF TInv, Bounded
  <1> QED
    BY <1>3, <1>4

Splits == {None} \cup [request : Requests, service : Services, from : Nat, to : Nat]

\* A step of a loop changes what is split, and what a window changes.
LEMMA LoopTyped ==
  ASSUME TypeOK,
         UNCHANGED <<setup, range, pc, region, athena, pages, lambda, ngroups, group, poll,
                     uncounted, others, othersLeft>>,
         split' \in Splits,
         windows' \in [Requests -> [Services -> Seq(Window)]],
         unread' \in [Requests -> 0..MaxWindows + 1],
         query' \in [Queries -> QueryStates]
  PROVE TypeOK'
  <1>1. /\ setup' \in Setups /\ uncounted' \in BOOLEAN
        /\ \A r \in Requests : range'[r] \in Ranges[r]
    BY DEF TypeOK
  <1>2. /\ pc' \in [Requests -> {"idle", "estimate", "poll", "pages", "answered", "failed"}]
        /\ region' \in [Requests -> 1..setup'.regions]
        /\ athena' \in [Requests -> {"none", "QUEUED", "SUCCEEDED", "FAILED", "CANCELLED"}]
        /\ pages' \in [Requests -> Seq(1..NPages)]
        /\ lambda' \in [Requests -> {"off", "names", "start", "collect", "done", "failed"}]
        /\ ngroups' \in [Requests -> 0..MaxGroups] /\ group' \in [Requests -> 0..MaxGroups]
        /\ poll' \in [Queries -> {"no", "polling", "got", "late"}]
        /\ others' \in 0..MaxOthers /\ othersLeft' \in 0..MaxOthers
    BY DEF TypeOK
  <1> QED
    BY <1>1, <1>2 DEF TypeOK, Splits, QueryStates

LEMMA SplitWindowTyped == WInv /\ TInv /\ SplitWindow => TInv'
  <1> SUFFICES ASSUME WInv, TInv, SplitWindow PROVE TInv'
    OBVIOUS
  <1> DEFINE r == split.request
             s == split.service
             start == range[r].start
             to == SetDate(split.to, DayOfMonth(start) + Interval[s])
  <1>1. ~Free /\ split.to < range[r].end
    BY DEF SplitWindow
  <1>2. /\ r \in Requests /\ s \in Services
        /\ start \in 1..NDays /\ range[r].end \in 1..NDays /\ start <= range[r].end
        /\ split.from \in 1..NDays /\ split.to \in Nat /\ split.from <= split.to
        /\ start <= split.from
        /\ split.to = EndOf(s, split.from, start)
        /\ split = [request |-> r, service |-> s, from |-> split.from, to |-> split.to]
    BY <1>1, SplitTyped, Numbers
  <1>3. /\ split' = [split EXCEPT !.from = split.to, !.to = to]
        /\ Push(r, s, [from |-> split.from, to |-> split.to]) \/ PushTooMany(r, s)
        /\ UNCHANGED <<setup, range, pc, region, athena, pages, lambda, ngroups, group, poll,
                       uncounted, others, othersLeft>>
    BY <1>2 DEF SplitWindow, NextStart, EndOf, athenaVars, lambdaVars, otherVars
  <1>4. split.to \in 1..NDays
    BY <1>1, <1>2, Numbers
  <1>5. to \in Nat
    BY <1>2, <1>4, EndIsLater DEF EndOf
  <1> HIDE DEF to
  <1>6. split' = [request |-> r, service |-> s, from |-> split.to, to |-> to]
    BY <1>2, <1>3
  <1>7. ~Free' /\ split'.request = r /\ split'.from = split.to
    BY <1>6, LoopRuns
  <1>8. [from |-> split.from, to |-> split.to] \in Window
    BY <1>2 DEF Window
  <1>9. /\ windows' \in [Requests -> [Services -> Seq(Window)]]
        /\ unread' \in [Requests -> 0..MaxWindows + 1]
        /\ query' \in [Queries -> QueryStates]
        /\ Bounded'
    BY <1>2, <1>3, <1>8, PushTyped
  <1>10. split' \in Splits
    BY <1>2, <1>4, <1>5, <1>6 DEF Splits
  <1>11. TypeOK'
    BY <1>3, <1>9, <1>10, LoopTyped DEF TInv
  <1>12. InRange'
    <2>1. split.to \in start..range[r].end /\ split.to # range[r].end
      BY <1>1, <1>2
    <2>2. range'[split'.request] = range[r] /\ split'.from = split.to
      BY <1>3, <1>7
    <2> QED
      BY <2>1, <2>2 DEF InRange
  <1> QED
    BY <1>9, <1>11, <1>12 DEF TInv

LEMMA SplitLastTyped == WInv /\ TInv /\ SplitLast => TInv'
  <1> SUFFICES ASSUME WInv, TInv, SplitLast PROVE TInv'
    OBVIOUS
  <1> DEFINE r == split.request
             s == split.service
             window == [from |-> split.from, to |-> range[r].end]
  <1>1. /\ ~Free /\ split' = None
        /\ Push(r, s, window) \/ PushTooMany(r, s)
        /\ UNCHANGED <<setup, range, pc, region, athena, pages, lambda, ngroups, group, poll,
                       uncounted, others, othersLeft>>
    BY DEF SplitLast, athenaVars, lambdaVars, otherVars
  <1>2. /\ r \in Requests /\ s \in Services
        /\ range[r].end \in 1..NDays /\ split.from \in 1..NDays
    BY <1>1, SplitTyped
  <1>3. window \in Window
    BY <1>2, Numbers DEF Window
  <1> HIDE DEF window
  <1>4. /\ windows' \in [Requests -> [Services -> Seq(Window)]]
        /\ unread' \in [Requests -> 0..MaxWindows + 1]
        /\ query' \in [Queries -> QueryStates]
        /\ Bounded'
    BY <1>1, <1>2, <1>3, PushTyped
  <1>5. TypeOK'
    BY <1>1, <1>4, LoopTyped DEF TInv, Splits
  <1>6. InRange'
    BY <1>1 DEF InRange, Free, None
  <1> QED
    BY <1>4, <1>5, <1>6 DEF TInv

Labels == {"idle", "estimate", "poll", "pages", "answered", "failed"}
AthenaStates == {"none", "QUEUED", "SUCCEEDED", "FAILED", "CANCELLED"}
LambdaStates == {"off", "names", "start", "collect", "done", "failed"}
PollStates == {"no", "polling", "got", "late"}

\* The variables that no loop touches.
RestTyped ==
  /\ pc \in [Requests -> Labels]
  /\ athena \in [Requests -> AthenaStates]
  /\ pages \in [Requests -> Seq(1..NPages)]
  /\ lambda \in [Requests -> LambdaStates]
  /\ group \in [Requests -> 0..MaxGroups]
  /\ query \in [Queries -> QueryStates] /\ poll \in [Queries -> PollStates]
  /\ others \in 0..MaxOthers /\ othersLeft \in 0..MaxOthers
  /\ others + othersLeft <= MaxOthers

LEMMA RestFromInv == TInv => RestTyped
  BY DEF TInv, TypeOK, Bounded, RestTyped, Labels, AthenaStates, LambdaStates, PollStates,
         QueryStates

\* A step that neither runs nor starts a loop.
LEMMA QuietTyped ==
  ASSUME TInv, UNCHANGED <<setup, range, region, split, windows, ngroups>>,
         RestTyped', uncounted' \in BOOLEAN,
         unread' \in [Requests -> 0..MaxWindows + 1],
         \A r \in Requests : unread'[r] <= unread[r],
         \A r \in Requests : lambda'[r] = "start" => lambda[r] = "start" /\ group'[r] = group[r]
  PROVE TInv'
  <1>1. /\ setup' \in Setups /\ \A r \in Requests : range'[r] \in Ranges[r]
        /\ region' \in [Requests -> 1..setup'.regions]
        /\ split' \in Splits
        /\ windows' \in [Requests -> [Services -> Seq(Window)]]
        /\ ngroups' \in [Requests -> 0..MaxGroups]
    BY DEF TInv, TypeOK, Splits
  <1>2. TypeOK'
    BY <1>1 DEF TypeOK, RestTyped, Splits, Labels, AthenaStates, LambdaStates, PollStates,
                QueryStates
  <1>3. Bounded'
    <2>1. \A r \in Requests : unread[r] \in Nat /\ unread'[r] \in Nat
                              /\ Len(windows[r]["EC2"]) \in Nat
      <3>1. "EC2" \in Services
        BY Two
      <3> QED
        BY <1>1, <3>1 DEF TInv, TypeOK
    <2>2. \A r \in Requests : unread'[r] <= 1 + Len(windows'[r]["EC2"])
      BY <2>1 DEF TInv, Bounded
    <2> QED
      BY <2>2 DEF TInv, Bounded, RestTyped
  <1>4. InRange'
    BY DEF TInv, InRange, Free
  <1> QED
    BY <1>2, <1>3, <1>4 DEF TInv

\* A step that starts a loop.
LEMMA LoopStartTyped ==
  ASSUME TInv, RestTyped', UNCHANGED <<setup, uncounted>>,
         NEW r \in Requests, NEW s \in Services, range'[r] \in Ranges[r],
         split' = Loop(r, s, range'[r].start),
         \A q \in Requests \ {r} : range'[q] = range[q],
         region' \in [Requests -> 1..setup.regions],
         windows' \in [Requests -> [Services -> Seq(Window)]],
         \A q \in Requests, t \in Services :
           windows'[q][t] = windows[q][t] \/ windows'[q][t] = <<>>,
         unread' \in [Requests -> 0..MaxWindows + 1],
         \A q \in Requests :
           unread'[q] <= 1 \/ (unread'[q] = unread[q] /\ windows'[q]["EC2"] = windows[q]["EC2"]),
         ngroups' \in [Requests -> 0..MaxGroups],
         \A q \in Requests : lambda'[q] = "start" => group'[q] \in 1..ngroups'[q]
  PROVE TInv'
  <1> DEFINE x == range'[r]
             to == SetDate(x.start, DayOfMonth(x.start) + Interval[s])
  <1>1. x.start \in 1..NDays /\ x.end \in 1..NDays /\ x.start <= x.end
    BY RangesTyped
  <1>2. to \in Nat
    BY <1>1, EndIsLater DEF EndOf
  <1>3. split' = [request |-> r, service |-> s, from |-> x.start, to |-> to]
    BY DEF Loop
  <1> HIDE DEF to
  <1>4. split' \in Splits
    BY <1>1, <1>2, <1>3 DEF Splits
  <1>5. ~Free' /\ split'.request = r /\ split'.from = x.start
    BY <1>3, LoopRuns
  <1>6. InRange'
    <2>1. x.start \in x.start..x.end
      BY <1>1
    <2> QED
      BY <1>5, <2>1 DEF InRange
  <1>7. TypeOK'
    <2>1. setup' \in Setups /\ uncounted' \in BOOLEAN
      BY DEF TInv, TypeOK
    <2>2. \A q \in Requests : range'[q] \in Ranges[q]
      BY DEF TInv, TypeOK
    <2> QED
      BY <1>4, <2>1, <2>2
         DEF TypeOK, RestTyped, Splits, Labels, AthenaStates, LambdaStates, PollStates,
             QueryStates
  <1>8. Bounded'
    <2>1. \A q \in Requests, t \in Services : Len(windows'[q][t]) \in Nat
      OBVIOUS
    <2>2. "EC2" \in Services /\ Len(<<>>) = 0 /\ MaxWindows \in Nat
      BY Two, Numbers
    <2>3. ASSUME NEW q \in Requests, NEW t \in Services
          PROVE Len(windows'[q][t]) <= MaxWindows
      <3>1. Len(windows[q][t]) <= MaxWindows /\ 0 <= MaxWindows
        BY <2>2 DEF TInv, Bounded
      <3>2. windows'[q][t] = windows[q][t] \/ windows'[q][t] = <<>>
        OBVIOUS
      <3> QED
        BY <2>2, <3>1, <3>2
    <2>4. ASSUME NEW q \in Requests
          PROVE unread'[q] <= 1 + Len(windows'[q]["EC2"])
      <3>1. unread[q] <= 1 + Len(windows[q]["EC2"])
        BY DEF TInv, Bounded
      <3>2. Len(windows'[q]["EC2"]) \in Nat /\ unread'[q] \in Int
        BY <2>1, <2>2
      <3>3. \/ unread'[q] <= 1
            \/ unread'[q] = unread[q] /\ windows'[q]["EC2"] = windows[q]["EC2"]
        OBVIOUS
      <3> QED
        BY <3>1, <3>2, <3>3
    <2> QED
      BY <2>3, <2>4 DEF Bounded, RestTyped
  <1> QED
    BY <1>6, <1>7, <1>8 DEF TInv

LEMMA RegionTyped ==
  ASSUME WInv, TInv, NEW r \in Requests, NEW n \in 1..setup.regions, NEW x \in Ranges[r],
         EnterRegion(r, n, x), range' = [range EXCEPT ![r] = x],
         pc' \in [Requests -> Labels],
         UNCHANGED <<setup, athenaVars, ngroups, uncounted, otherVars>>
  PROVE TInv'
  <1> USE DEF EnterRegion, athenaVars, otherVars
  <1>1. RestTyped /\ MaxWindows \in Nat \ {0} /\ MaxGroups \in Nat
    BY RestFromInv, Numbers
  <1>2. RestTyped'
    <2>1. lambda' \in [Requests -> LambdaStates] /\ group' \in [Requests -> 0..MaxGroups]
      BY <1>1 DEF RestTyped, LambdaStates
    <2>2. query' \in [Queries -> QueryStates] /\ poll' \in [Queries -> PollStates]
      BY <1>1 DEF RestTyped, QueryStates, PollStates
    <2> QED
      BY <1>1, <2>1, <2>2 DEF RestTyped
  <1>3. range'[r] = x /\ \A q \in Requests \ {r} : range'[q] = range[q]
    BY DEF WInv, Functional
  <1>4. region' \in [Requests -> 1..setup.regions]
    BY DEF TInv, TypeOK
  <1>5. /\ windows' \in [Requests -> [Services -> Seq(Window)]]
        /\ \A q \in Requests, t \in Services :
             windows'[q][t] = windows[q][t] \/ windows'[q][t] = <<>>
        /\ \A q \in Requests \ {r} : windows'[q] = windows[q]
    <2> DEFINE none == [t \in Services |-> <<>>]
    <2>1. windows \in [Requests -> [Services -> Seq(Window)]]
      BY DEF TInv, TypeOK
    <2>2. none \in [Services -> Seq(Window)] /\ \A t \in Services : none[t] = <<>>
      OBVIOUS
    <2>3. windows' = [windows EXCEPT ![r] = none]
      OBVIOUS
    <2> HIDE DEF none
    <2> QED
      BY <2>1, <2>2, <2>3
  <1>6. /\ unread' \in [Requests -> 0..MaxWindows + 1]
        /\ unread'[r] = 1 /\ \A q \in Requests \ {r} : unread'[q] = unread[q]
    BY <1>1 DEF TInv, TypeOK
  <1>7. ngroups' \in [Requests -> 0..MaxGroups]
    BY DEF TInv, TypeOK
  <1>8. ASSUME NEW q \in Requests, lambda'[q] = "start"
        PROVE group'[q] \in 1..ngroups'[q]
    <2>1. q # r /\ lambda'[q] = lambda[q] /\ group'[q] = group[q]
      BY <1>1, <1>8 DEF RestTyped
    <2> QED
      BY <1>8, <2>1 DEF TInv, Bounded
  <1>9. "EC2" \in Services /\ split' = Loop(r, "EC2", range'[r].start)
    BY <1>3, Two
  <1>10. \A q \in Requests :
           unread'[q] <= 1 \/ (unread'[q] = unread[q] /\ windows'[q]["EC2"] = windows[q]["EC2"])
    BY <1>5, <1>6
  <1>11. UNCHANGED <<setup, uncounted>>
    OBVIOUS
  <1>12. range'[r] \in Ranges[r]
    BY <1>3
  <1> HIDE DEF EnterRegion
  <1> QED
    BY <1>2, <1>3, <1>4, <1>5, <1>6, <1>7, <1>8, <1>9, <1>10, <1>11, <1>12, LoopStartTyped

LEMMA GroupsTyped ==
  ASSUME TInv, NEW r \in Requests,
         NextGroup(r) \/ \E n \in 0..setup.groups : GroupNames(r, n)
  PROVE TInv'
  <1>1. RestTyped /\ MaxGroups \in Nat /\ setup.groups \in 0..MaxGroups
    BY RestFromInv, SetupTyped, Numbers DEF TInv, TypeOK
  <1>2. /\ region \in [Requests -> 1..setup.regions]
        /\ windows \in [Requests -> [Services -> Seq(Window)]]
        /\ unread \in [Requests -> 0..MaxWindows + 1]
        /\ ngroups \in [Requests -> 0..MaxGroups]
        /\ group \in [Requests -> 0..MaxGroups]
        /\ lambda \in [Requests -> LambdaStates]
        /\ range[r] \in Ranges[r] /\ "Lambda" \in Services /\ "EC2" \in Services
    BY Two DEF TInv, TypeOK, LambdaStates
  <1>3. CASE NextGroup(r)
    <2>1. /\ lambda[r] = "start" /\ group[r] < ngroups[r]
          /\ group' = [group EXCEPT ![r] = group[r] + 1]
          /\ windows' = [windows EXCEPT ![r] = [windows[r] EXCEPT !["Lambda"] = <<>>]]
          /\ split' = Loop(r, "Lambda", range'[r].start)
          /\ UNCHANGED <<setup, range, pc, region, athena, pages, unread, lambda, ngroups,
                         query, poll, uncounted, others, othersLeft>>
      BY <1>2, <1>3 DEF NextGroup, GroupStarted, athenaVars, queryVars, otherVars
    <2>2. group[r] + 1 \in 1..ngroups[r] /\ group[r] + 1 \in 0..MaxGroups
      BY <1>1, <1>2, <2>1
    <2>3. /\ group' \in [Requests -> 0..MaxGroups]
          /\ \A q \in Requests : lambda'[q] = "start" => group'[q] \in 1..ngroups'[q]
      BY <1>2, <2>1, <2>2 DEF TInv, Bounded
    <2>4. [windows[r] EXCEPT !["Lambda"] = <<>>] \in [Services -> Seq(Window)]
      <3>1. <<>> \in Seq(Window)
        OBVIOUS
      <3> QED
        BY <1>2, <3>1
    <2>5. /\ windows' \in [Requests -> [Services -> Seq(Window)]]
          /\ \A q \in Requests, t \in Services :
               windows'[q][t] = windows[q][t] \/ windows'[q][t] = <<>>
          /\ \A q \in Requests : windows'[q]["EC2"] = windows[q]["EC2"]
      BY <1>2, <2>1, <2>4
    <2>6. RestTyped'
      BY <1>1, <2>1, <2>3 DEF RestTyped
    <2> QED
      BY <1>2, <2>1, <2>3, <2>5, <2>6, LoopStartTyped
  <1>4. ASSUME NEW n \in 0..setup.groups, GroupNames(r, n) PROVE TInv'
    <2>1. /\ lambda[r] = "names" /\ ngroups' = [ngroups EXCEPT ![r] = n]
          /\ n \in 0..MaxGroups
          /\ UNCHANGED <<setup, range, pc, region, athena, pages, windows, unread,
                         query, poll, uncounted, others, othersLeft>>
      BY <1>1, <1>4 DEF GroupNames, athenaVars, queryVars, otherVars
    <2>2. ngroups' \in [Requests -> 0..MaxGroups]
      BY <1>2, <2>1
    <2>3. CASE n = 0
      <3>1. /\ lambda' = [lambda EXCEPT ![r] = "done"] /\ UNCHANGED <<group, split>>
        BY <1>4, <2>3 DEF GroupNames
      <3>2. RestTyped'
        BY <1>1, <1>2, <2>1, <3>1 DEF RestTyped, LambdaStates
      <3>3. \A q \in Requests : lambda'[q] = "start" => group'[q] \in 1..ngroups'[q]
        BY <1>2, <2>1, <3>1 DEF TInv, Bounded
      <3>4. TypeOK'
        <4>1. /\ setup' \in Setups /\ uncounted' \in BOOLEAN /\ split' \in Splits
              /\ \A q \in Requests : range'[q] \in Ranges[q]
          BY <2>1, <3>1 DEF TInv, TypeOK, Splits
        <4> QED
          BY <1>2, <2>1, <2>2, <3>2, <4>1
             DEF TypeOK, RestTyped, Splits, Labels, AthenaStates, LambdaStates, PollStates,
                 QueryStates
      <3>5. Bounded' /\ InRange'
        BY <2>1, <3>1, <3>3 DEF TInv, Bounded, InRange, Free
      <3> QED
        BY <3>4, <3>5 DEF TInv
    <2>4. CASE n # 0
      <3>1. /\ lambda' = [lambda EXCEPT ![r] = "start"] /\ group' = [group EXCEPT ![r] = 1]
            /\ split' = Loop(r, "Lambda", range'[r].start)
        BY <1>4, <2>1, <2>4 DEF GroupNames
      <3>2. 1 \in 0..MaxGroups /\ 1 \in 1..n
        BY <1>1, <2>1, <2>4
      <3>3. RestTyped'
        BY <1>1, <1>2, <2>1, <3>1, <3>2 DEF RestTyped, LambdaStates
      <3>4. \A q \in Requests : lambda'[q] = "start" => group'[q] \in 1..ngroups'[q]
        BY <1>2, <2>1, <3>1, <3>2 DEF TInv, Bounded
      <3> QED
        BY <1>2, <2>1, <2>2, <3>1, <3>3, <3>4, LoopStartTyped
    <2> QED
      BY <2>3, <2>4
  <1> QED
    BY <1>3, <1>4

LEMMA QueriesTyped ==
  ASSUME TInv, NEW q \in Queries,
         \/ ProcessQuery(q) \/ CountFails(q) \/ NoResult(q)
         \/ RunScheduled(q) \/ FinishQuery(q)
  PROVE TInv'
  <1>1. RestTyped /\ q[1] \in Requests
    BY RestFromInv DEF Queries
  <1>2. /\ UNCHANGED <<setup, range, region, split, windows, ngroups, group, unread, athena,
                       pages, others, othersLeft>>
        /\ lambda' = lambda \/ lambda' = [lambda EXCEPT ![q[1]] = "failed"]
        /\ \/ pc' = pc
           \/ pc' = [pc EXCEPT ![q[1]] = "failed"]
           \/ pc' = [pc EXCEPT ![q[1]] = pc[q[1]]]
    BY DEF ProcessQuery, CountRunning, StartQuery, StartRefused, GetResult, CountFails,
           Refuse, NoResult, RunScheduled, FinishQuery, Fail, lambdaVars, athenaVars, otherVars
  <1>3. /\ query' = query \/ \E state \in QueryStates : query' = [query EXCEPT ![q] = state]
        /\ poll' = poll \/ \E state \in PollStates : poll' = [poll EXCEPT ![q] = state]
    BY DEF ProcessQuery, CountRunning, StartQuery, StartRefused, GetResult, CountFails,
           Refuse, NoResult, RunScheduled, FinishQuery, QueryStates, PollStates
  <1>4. uncounted' \in BOOLEAN
    <2>1. uncounted' = uncounted \/ uncounted' = TRUE
      BY DEF ProcessQuery, CountRunning, StartQuery, StartRefused, GetResult, CountFails,
           Refuse, NoResult, RunScheduled, FinishQuery
    <2> QED
      BY <2>1 DEF TInv, TypeOK
  <1>5. /\ lambda' \in [Requests -> LambdaStates]
        /\ \A r \in Requests : lambda'[r] = "start" => lambda[r] = "start"
    BY <1>1, <1>2 DEF RestTyped, LambdaStates
  <1>6. /\ pc' \in [Requests -> Labels]
        /\ query' \in [Queries -> QueryStates] /\ poll' \in [Queries -> PollStates]
    BY <1>1, <1>2, <1>3 DEF RestTyped, Labels
  <1>7. RestTyped'
    BY <1>1, <1>2, <1>5, <1>6 DEF RestTyped
  <1>8. /\ unread' \in [Requests -> 0..MaxWindows + 1]
        /\ \A r \in Requests : unread'[r] <= unread[r]
    BY <1>2, Numbers DEF TInv, TypeOK
  <1> QED
    BY <1>2, <1>4, <1>5, <1>7, <1>8, QuietTyped

\* Steps of a request that neither run nor start a loop.
LEMMA RequestTyped ==
  ASSUME TInv, PagesSoFar', NEW r \in Requests,
         \/ AnswerServices(r) \/ ReadMetrics(r) \/ ReadMetricsFails(r)
         \/ NamesFail(r) \/ CollectFirst(r) \/ CollectNext(r) \/ CollectedAll(r)
         \/ StartAthena(r) \/ PollFailed(r) \/ PollFails(r) \/ PollSucceeded(r)
         \/ ReadPage(r) \/ ReadPageFails(r) \/ FinishAthena(r)
  PROVE TInv'
  <1> USE DEF Goto, Fail, Collect, athenaVars, lambdaVars, queryVars, otherVars
  <1>1. RestTyped /\ MaxGroups \in Nat /\ NPages \in Nat \ {0}
    BY RestFromInv, Numbers
  <1>2. /\ UNCHANGED <<setup, range, region, split, windows, ngroups, query, others,
                       othersLeft, uncounted>>
        /\ \/ pc' = pc
           \/ \E label \in Labels : pc' = [pc EXCEPT ![r] = label]
           \/ pc' = [pc EXCEPT ![r] = pc[r]]
        /\ athena' = athena \/ \E state \in AthenaStates : athena' = [athena EXCEPT ![r] = state]
    BY DEF AnswerServices, ReadMetrics, ReadMetricsFails, NamesFail, CollectFirst,
           CollectNext, CollectedAll, StartAthena, PollFailed, PollFails, PollSucceeded,
           ReadPage, ReadPageFails, FinishAthena, Labels, AthenaStates
  <1>3. /\ \/ lambda' = lambda /\ group' = group /\ poll' = poll
           \/ /\ \E state \in {"failed", "done", "collect"} :
                   lambda' = [lambda EXCEPT ![r] = state]
              /\ group' = group /\ poll' = poll
           \/ CollectFirst(r) \/ CollectNext(r)
        /\ unread' = unread \/ (unread' = [unread EXCEPT ![r] = unread[r] - 1] /\ unread[r] > 0)
    <2>1. unread \in [Requests -> 0..MaxWindows + 1]
      BY DEF TInv, TypeOK
    <2> QED
      BY <2>1 DEF AnswerServices, ReadMetrics, ReadMetricsFails, NamesFail, CollectFirst,
           CollectNext, CollectedAll, StartAthena, PollFailed, PollFails, PollSucceeded,
           ReadPage, ReadPageFails, FinishAthena
  <1>4. /\ pc' \in [Requests -> Labels] /\ athena' \in [Requests -> AthenaStates]
        /\ query' \in [Queries -> QueryStates]
    BY <1>1, <1>2 DEF RestTyped, Labels
  <1>5. pages' \in [Requests -> Seq(1..NPages)]
    BY DEF PagesSoFar
  <1>6. /\ unread' \in [Requests -> 0..MaxWindows + 1]
        /\ \A q \in Requests : unread'[q] <= unread[q]
    <2>1. unread \in [Requests -> 0..MaxWindows + 1] /\ MaxWindows \in Nat
      BY Numbers DEF TInv, TypeOK
    <2>2. CASE unread' = unread
      BY <2>1, <2>2
    <2>3. CASE unread' = [unread EXCEPT ![r] = unread[r] - 1] /\ unread[r] > 0
      <3>1. unread[r] - 1 \in 0..MaxWindows + 1 /\ unread[r] - 1 <= unread[r]
        BY <2>1, <2>3
      <3> QED
        BY <2>1, <2>3, <3>1
    <2> QED
      BY <1>3, <2>2, <2>3
  <1>7. /\ lambda' \in [Requests -> LambdaStates] /\ group' \in [Requests -> 0..MaxGroups]
        /\ poll' \in [Queries -> PollStates]
        /\ \A q \in Requests : lambda'[q] = "start" => lambda[q] = "start" /\ group'[q] = group[q]
    <2>1. CASE CollectFirst(r) \/ CollectNext(r)
      <3>1. PICK g : Collect(r, g) /\ (g = 1 \/ g = group[r] + 1)
        BY <2>1 DEF CollectFirst, CollectNext
      <3>2. /\ lambda' = [lambda EXCEPT ![r] = "collect"] \/ (lambda' = lambda /\ lambda[r] = "collect")
            /\ \/ CollectFirst(r) /\ lambda[r] = "start" /\ group[r] = ngroups[r]
               \/ CollectNext(r) /\ group[r] < ngroups[r]
        BY <2>1 DEF CollectFirst, CollectNext, GroupStarted, GroupCollected
      <3>3. ngroups[r] \in 0..MaxGroups /\ group[r] \in 0..MaxGroups
        BY <1>1 DEF TInv, TypeOK
      <3>4. group' = [group EXCEPT ![r] = g] /\ g \in 0..MaxGroups
        <4>1. CASE CollectFirst(r)
          <5>1. group' = [group EXCEPT ![r] = 1] /\ lambda[r] = "start"
            BY <4>1 DEF CollectFirst, GroupStarted
          <5>2. group[r] \in 1..ngroups[r]
            BY <5>1 DEF TInv, Bounded
          <5>3. group' = [group EXCEPT ![r] = g]
            BY <3>1
          <5>4. g = 1
            <6>1. group'[r] = 1 /\ group'[r] = g
              BY <1>1, <5>1, <5>3 DEF RestTyped
            <6> QED
              BY <6>1
          <5> QED
            BY <1>1, <3>3, <5>2, <5>3, <5>4
        <4>2. CASE CollectNext(r)
          <5>1. group' = [group EXCEPT ![r] = group[r] + 1] /\ group[r] < ngroups[r]
            BY <4>2 DEF CollectNext
          <5>2. group' = [group EXCEPT ![r] = g]
            BY <3>1
          <5>3. g = group[r] + 1
            <6>1. group'[r] = group[r] + 1 /\ group'[r] = g
              BY <1>1, <5>1, <5>2 DEF RestTyped
            <6> QED
              BY <6>1
          <5> QED
            BY <1>1, <3>3, <5>1, <5>2, <5>3
        <4> QED
          BY <2>1, <4>1, <4>2
      <3>5. poll' = [q \in Queries |-> IF q \in OfGroup(r, g) THEN "polling" ELSE poll[q]]
        BY <3>1
      <3>6. poll' \in [Queries -> PollStates]
        BY <1>1, <3>5 DEF RestTyped, PollStates
      <3>7. /\ lambda' \in [Requests -> LambdaStates]
            /\ \A q \in Requests : lambda'[q] = "start" => q # r /\ lambda[q] = "start"
        BY <1>1, <3>2 DEF RestTyped, LambdaStates
      <3> QED
        BY <1>1, <3>4, <3>6, <3>7 DEF RestTyped
    <2>2. CASE ~(CollectFirst(r) \/ CollectNext(r))
      BY <1>1, <1>3, <2>2 DEF RestTyped, LambdaStates
    <2> QED
      BY <2>1, <2>2
  <1>8. RestTyped'
    BY <1>1, <1>2, <1>4, <1>5, <1>7 DEF RestTyped
  <1>9. uncounted' \in BOOLEAN
    BY <1>2 DEF TInv, TypeOK
  <1> QED
    BY <1>2, <1>6, <1>7, <1>8, <1>9, QuietTyped

LEMMA NextTInv == WInv /\ TInv /\ PagesSoFar' /\ [Next]_vars => TInv'
  <1> SUFFICES ASSUME WInv, TInv, PagesSoFar', [Next]_vars PROVE TInv'
    OBVIOUS
  <1>1. CASE UNCHANGED vars
    BY <1>1 DEF vars, TInv, TypeOK, Bounded, InRange, Free, athenaVars, lambdaVars,
                queryVars, otherVars
  <1>2. CASE SplitWindow \/ SplitLast
    BY <1>2, SplitWindowTyped, SplitLastTyped
  <1>3. ASSUME NEW r \in Requests, NEW x \in Ranges[r], Estimate(r, x) PROVE TInv'
    <2>1. /\ EnterRegion(r, 1, x) /\ range' = [range EXCEPT ![r] = x]
          /\ pc' = [pc EXCEPT ![r] = "estimate"]
          /\ UNCHANGED <<setup, athenaVars, ngroups, uncounted, otherVars>>
      BY <1>3 DEF Estimate, Goto
    <2>2. 1 \in 1..setup.regions
      BY SetupTyped DEF TInv, TypeOK
    <2>3. pc' \in [Requests -> Labels]
      BY <2>1, RestFromInv DEF RestTyped, Labels
    <2> QED
      BY <2>1, <2>2, <2>3, RegionTyped
  <1>4. ASSUME NEW r \in Requests, NextRegion(r) PROVE TInv'
    <2>1. /\ EnterRegion(r, region[r] + 1, range[r]) /\ region[r] < setup.regions
          /\ UNCHANGED <<setup, range, pc, athenaVars, ngroups, uncounted, otherVars>>
      BY <1>4 DEF NextRegion
    <2>2. region[r] + 1 \in 1..setup.regions /\ range[r] \in Ranges[r]
      <3>1. setup.regions \in Nat /\ region[r] \in 1..setup.regions
        BY SetupTyped DEF TInv, TypeOK
      <3> QED
        BY <2>1, <3>1 DEF TInv, TypeOK
    <2>3. range' = [range EXCEPT ![r] = range[r]]
      BY <2>1 DEF WInv, Functional
    <2>4. pc' \in [Requests -> Labels]
      BY <2>1, RestFromInv DEF RestTyped
    <2> QED
      BY <2>1, <2>2, <2>3, <2>4, RegionTyped
  <1>5. ASSUME NEW r \in Requests,
               NextGroup(r) \/ \E n \in 0..setup.groups : GroupNames(r, n)
        PROVE TInv'
    BY <1>5, GroupsTyped
  <1>6. ASSUME NEW r \in Requests,
               \/ AnswerServices(r) \/ ReadMetrics(r) \/ ReadMetricsFails(r)
               \/ NamesFail(r) \/ CollectFirst(r) \/ CollectNext(r) \/ CollectedAll(r)
               \/ StartAthena(r) \/ PollFailed(r) \/ PollFails(r) \/ PollSucceeded(r)
               \/ ReadPage(r) \/ ReadPageFails(r) \/ FinishAthena(r)
        PROVE TInv'
    BY <1>6, RequestTyped
  <1>7. ASSUME NEW q \in Queries,
               \/ ProcessQuery(q) \/ CountFails(q) \/ NoResult(q)
               \/ RunScheduled(q) \/ FinishQuery(q)
        PROVE TInv'
    BY <1>7, QueriesTyped
  <1>8. CASE OtherStarts \/ OtherFinishes
    <2>1. /\ UNCHANGED <<setup, range, pc, region, athena, pages, split, windows, unread,
                         lambda, ngroups, group, query, poll, uncounted>>
          /\ \/ othersLeft > 0 /\ othersLeft' = othersLeft - 1 /\ others' = others + 1
             \/ others > 0 /\ others' = others - 1 /\ othersLeft' = othersLeft
      BY <1>8 DEF OtherStarts, OtherFinishes, athenaVars, lambdaVars, queryVars
    <2>2. RestTyped'
      <3>1. RestTyped /\ MaxOthers \in Nat
        BY RestFromInv, Numbers
      <3>2. /\ others' \in 0..MaxOthers /\ othersLeft' \in 0..MaxOthers
            /\ others' + othersLeft' <= MaxOthers
        BY <2>1, <3>1 DEF RestTyped
      <3> QED
        BY <2>1, <3>1, <3>2 DEF RestTyped
    <2>3. /\ unread' \in [Requests -> 0..MaxWindows + 1]
          /\ \A r \in Requests : unread'[r] <= unread[r]
      BY <2>1, Numbers DEF TInv, TypeOK
    <2>4. uncounted' \in BOOLEAN
      BY <2>1 DEF TInv, TypeOK
    <2> QED
      BY <2>1, <2>2, <2>3, <2>4, QuietTyped
  <1> QED
    BY <1>1, <1>2, <1>3, <1>4, <1>5, <1>6, <1>7, <1>8 DEF Next, Process

LEMMA Typed == Spec => []TInv
  BY InitWInv, NextWInv, InitPages, NextPages, InitTInv, NextTInv, PTL DEF Spec

\* For every calendar with months of at most 31 days and any number of requests,
\* regions, groups and queries of others: every variable has its type.
THEOREM TypeCorrect == Spec => []TypeOK
  <1>1. TInv => TypeOK
    BY DEF TInv
  <1> QED
    BY <1>1, Typed, PTL
-----------------------------------------------------------------------------
(***************************************************************************)
(* The loop advances.                                                      *)
(***************************************************************************)

Advances ==
  ~Stuck =>
    \A r \in Requests, s \in Services : \A i \in DOMAIN windows[r][s] :
      windows[r][s][i].from < windows[r][s][i].to \/ range[r].start = range[r].end

\* The loop stops at a 31st only.
LEMMA StuckWhere ==
  ASSUME WInv, TInv, Stuck
  PROVE /\ split.service = "EC2"
        /\ DayOfMonth(range[split.request].start) = 1
        /\ DayOfMonth(split.from) = 31
  <1>1. ~Free /\ split.from = split.to
    BY DEF Stuck
  <1>2. split.from \in 1..NDays /\ split.to \in Nat
    BY <1>1, SplitTyped
  <1>3. ~(split.from < split.to)
    BY <1>1, <1>2
  <1> QED
    BY <1>1, <1>3, SplitTyped

\* A window that is called for advances.
LEMMA PushAdvances ==
  ASSUME TInv, Advances, ~Stuck, NEW r \in Requests, NEW s \in Services,
         NEW window \in Window,
         window.from < window.to \/ range[r].start = range[r].end,
         Push(r, s, window) \/ PushTooMany(r, s), UNCHANGED range
  PROVE Advances'
  <1> DEFINE ws == windows[r][s]
  <1>1. windows \in [Requests -> [Services -> Seq(Window)]]
    BY DEF TInv, TypeOK
  <1>2. ws \in Seq(Window) /\ Len(ws) \in Nat /\ DOMAIN ws = 1..Len(ws)
    BY <1>1
  <1>3. CASE PushTooMany(r, s)
    BY <1>3 DEF PushTooMany, Advances
  <1>4. CASE Push(r, s, window)
    <2>1. windows' = [windows EXCEPT ![r] = [windows[r] EXCEPT ![s] = Append(ws, window)]]
      BY <1>1, <1>4 DEF Push
    <2>2. /\ windows'[r][s] = Append(ws, window)
          /\ \A t \in Services \ {s} : windows'[r][t] = windows[r][t]
          /\ \A q \in Requests \ {r} : windows'[q] = windows[q]
      BY <1>1, <2>1
    <2>3. /\ DOMAIN Append(ws, window) = 1..Len(ws) + 1
          /\ \A i \in 1..Len(ws) : Append(ws, window)[i] = ws[i]
          /\ Append(ws, window)[Len(ws) + 1] = window
      BY <1>2
    <2>4. \A i \in DOMAIN ws : ws[i].from < ws[i].to \/ range[r].start = range[r].end
      BY DEF Advances
    <2> HIDE DEF ws
    <2>5. \A i \in 1..Len(ws) + 1 :
            \/ windows'[r][s][i].from < windows'[r][s][i].to
            \/ range[r].start = range[r].end
      <3>1. \A i \in 1..Len(ws) + 1 : i \in 1..Len(ws) \/ i = Len(ws) + 1
        BY <1>2
      <3> QED
        BY <1>2, <2>2, <2>3, <2>4, <3>1
    <2> QED
      BY <2>2, <2>3, <2>5 DEF Advances
  <1> QED
    BY <1>3, <1>4

LEMMA SplitAdvances ==
  ASSUME WInv, TInv, Advances, SplitWindow \/ SplitLast
  PROVE Advances'
  <1> DEFINE r == split.request
             s == split.service
             x == range[r]
  <1>1. ~Free /\ UNCHANGED range
    BY DEF SplitWindow, SplitLast
  <1>2. /\ r \in Requests /\ s \in Services
        /\ split = [request |-> r, service |-> s, from |-> split.from, to |-> split.to]
        /\ split.from \in 1..NDays /\ split.to \in Nat
        /\ x.start \in 1..NDays /\ x.end \in 1..NDays
        /\ split.to = EndOf(s, split.from, x.start)
        /\ split.from <= x.end /\ (split.from = x.end => x.start = x.end)
        /\ split.from <= split.to
    BY <1>1, SplitTyped, Numbers
  <1>3. CASE SplitWindow
    <2>1. /\ split.to < x.end
          /\ split' = [split EXCEPT !.from = split.to, !.to = EndOf(s, split.to, x.start)]
          /\ Push(r, s, [from |-> split.from, to |-> split.to]) \/ PushTooMany(r, s)
      BY <1>2, <1>3 DEF SplitWindow, NextStart, EndOf
    <2>2. CASE Stuck
      <3>1. split.from = split.to
        BY <2>2 DEF Stuck
      <3>2. split' = [request |-> r, service |-> s, from |-> split.from, to |-> split.to]
        BY <1>2, <2>1, <3>1
      <3>3. Stuck'
        BY <1>1, <1>2, <2>2, <3>2 DEF Stuck, Free
      <3> QED
        BY <3>3 DEF Advances
    <2>3. CASE ~Stuck
      <3>1. split.from < split.to
        BY <1>1, <1>2, <2>1, <2>3 DEF Stuck
      <3>2. [from |-> split.from, to |-> split.to] \in Window
        BY <1>2 DEF Window
      <3> QED
        BY <1>1, <1>2, <2>1, <2>3, <3>1, <3>2, PushAdvances
    <2> QED
      BY <2>2, <2>3
  <1>4. CASE SplitLast
    <2>1. /\ split.to >= x.end
          /\ Push(r, s, [from |-> split.from, to |-> x.end]) \/ PushTooMany(r, s)
      BY <1>4 DEF SplitLast
    <2>2. ~Stuck
      BY <1>2, <2>1 DEF Stuck
    <2>3. split.from < x.end \/ x.start = x.end
      BY <1>2
    <2>4. [from |-> split.from, to |-> x.end] \in Window
      BY <1>2 DEF Window
    <2> QED
      BY <1>1, <1>2, <2>1, <2>2, <2>3, <2>4, PushAdvances
  <1> QED
    BY <1>3, <1>4

\* Steps of which no loop is part, or that start one.
LEMMA OthersAdvance ==
  ASSUME WInv, Advances,
         \/ UNCHANGED <<split, range, windows>>
         \/ /\ Free
            /\ \E r \in Requests :
                 /\ \A q \in Requests \ {r} :
                      range'[q] = range[q] /\ \A s \in Services : windows'[q][s] = windows[q][s]
                 /\ \A s \in Services :
                      \/ windows'[r][s] = <<>>
                      \/ windows'[r][s] = windows[r][s] /\ range'[r] = range[r]
  PROVE Advances'
  <1>1. CASE UNCHANGED <<split, range, windows>>
    BY <1>1 DEF Advances, Stuck, Free
  <1>2. CASE ~UNCHANGED <<split, range, windows>>
    <2>1. Free /\ ~Stuck
      BY <1>2 DEF Stuck
    <2>2. \A q \in Requests, s \in Services :
            \/ windows'[q][s] = <<>>
            \/ windows'[q][s] = windows[q][s] /\ range'[q] = range[q]
      BY <1>2
    <2>3. DOMAIN <<>> = {}
      OBVIOUS
    <2> QED
      BY <2>1, <2>2, <2>3 DEF Advances
  <1> QED
    BY <1>1, <1>2

LEMMA NextAdvances == WInv /\ TInv /\ Advances /\ [Next]_vars => Advances'
  <1> SUFFICES ASSUME WInv, TInv, Advances, [Next]_vars PROVE Advances'
    OBVIOUS
  <1>1. CASE UNCHANGED vars
    BY <1>1, OthersAdvance DEF vars
  <1>2. CASE SplitWindow \/ SplitLast
    BY <1>2, SplitAdvances
  <1>3. ASSUME NEW r \in Requests,
               NextRegion(r) \/ \E x \in Ranges[r] : Estimate(r, x)
        PROVE Advances'
    <2>1. Free /\ windows' = [windows EXCEPT ![r] = [s \in Services |-> <<>>]]
      BY <1>3 DEF NextRegion, Estimate, EnterRegion
    <2>2. \A q \in Requests \ {r} : range'[q] = range[q]
      BY <1>3 DEF NextRegion, Estimate, WInv, Functional
    <2>3. /\ \A q \in Requests \ {r} : windows'[q] = windows[q]
          /\ \A s \in Services : windows'[r][s] = <<>>
      BY <2>1 DEF WInv, Functional
    <2> QED
      BY <2>1, <2>2, <2>3, OthersAdvance
  <1>4. ASSUME NEW r \in Requests, NextGroup(r) PROVE Advances'
    <2>1. /\ Free /\ UNCHANGED range
          /\ windows' = [windows EXCEPT ![r] = [windows[r] EXCEPT !["Lambda"] = <<>>]]
      BY <1>4 DEF NextGroup, GroupStarted, TInv, TypeOK
    <2>2. windows \in [Requests -> [Services -> Seq(Window)]]
      BY DEF TInv, TypeOK
    <2>3. /\ \A q \in Requests \ {r} : windows'[q] = windows[q]
          /\ \A s \in Services : windows'[r][s] \in {<<>>, windows[r][s]}
      BY <2>1, <2>2
    <2> QED
      BY <2>1, <2>3, OthersAdvance
  <1>5. ASSUME NEW r \in Requests, NEW n \in 0..setup.groups, GroupNames(r, n)
        PROVE Advances'
    BY <1>5, OthersAdvance DEF GroupNames
  <1>6. ASSUME NEW r \in Requests,
               \/ AnswerServices(r) \/ ReadMetrics(r) \/ ReadMetricsFails(r)
               \/ NamesFail(r) \/ CollectFirst(r) \/ CollectNext(r) \/ CollectedAll(r)
               \/ StartAthena(r) \/ PollFailed(r) \/ PollFails(r) \/ PollSucceeded(r)
               \/ ReadPage(r) \/ ReadPageFails(r) \/ FinishAthena(r)
        PROVE Advances'
    <2>1. UNCHANGED <<split, range, windows>>
      BY <1>6 DEF AnswerServices, ReadMetrics, ReadMetricsFails, NamesFail, CollectFirst,
           CollectNext, CollectedAll, StartAthena, PollFailed, PollFails, PollSucceeded,
           ReadPage, ReadPageFails, FinishAthena
    <2> QED
      BY <2>1, OthersAdvance
  <1>7. ASSUME NEW q \in Queries,
               \/ ProcessQuery(q) \/ CountFails(q) \/ NoResult(q)
               \/ RunScheduled(q) \/ FinishQuery(q)
        PROVE Advances'
    <2>1. UNCHANGED <<split, range, windows>>
      BY <1>7 DEF ProcessQuery, CountRunning, StartQuery, StartRefused, GetResult,
           CountFails, Refuse, NoResult, RunScheduled, FinishQuery
    <2> QED
      BY <2>1, OthersAdvance
  <1>8. CASE OtherStarts \/ OtherFinishes
    BY <1>8, OthersAdvance DEF OtherStarts, OtherFinishes
  <1> QED
    BY <1>1, <1>2, <1>3, <1>4, <1>5, <1>6, <1>7, <1>8 DEF Next, Process

LEMMA InitAdvances == Init => Advances
  BY Two DEF Init, Advances

LEMMA MeetFromInv == WInv /\ TInv /\ Advances => WindowsMeet
  BY FitFromInv, AllFromInv, StuckWhere DEF WindowsMeet, AllWindows, Advances

\* For every calendar with months of at most 31 days and every range in it: the
\* windows of a service fit together and end with the range, and the loop that cuts
\* them advances but at the 31st of a month, in windows of 30 days, of a range that
\* begins on the first.
THEOREM LoopsAdvance == Spec => []WindowsMeet
  BY InitWInv, NextWInv, InitPages, NextPages, InitTInv, NextTInv, InitAdvances,
     NextAdvances, MeetFromInv, PTL DEF Spec
-----------------------------------------------------------------------------
(***************************************************************************)
(* Log queries.                                                            *)
(***************************************************************************)

Mine(r) == {q \in Queries : q[1] = r}

Started == {"Scheduled", "Running", "Complete", "Failed"}

\* How far the queries of a request are when its Lambda service is at a stage.
QueriesSoFar(r) ==
  /\ \A q \in Mine(r) :
       /\ query[q] = "none" => poll[q] = "no"
       /\ poll[q] = "polling" => query[q] \in Started
       /\ poll[q] = "got" => query[q] \in {"Complete", "Failed"}
       /\ lambda[r] \in {"off", "names"} => query[q] = "none"
       /\ lambda[r] \in {"off", "names", "start"} => poll[q] = "no"
       /\ lambda[r] = "start" =>
            /\ q[2] > group[r] => query[q] = "none"
            /\ q[2] < group[r] => query[q] \notin {"ask", "start"}
       /\ lambda[r] \in {"collect", "done"} => query[q] \notin {"ask", "start"}
       /\ query[q] = "refused" => lambda[r] = "failed"
       /\ lambda[r] = "collect" /\ query[q] # "none" =>
            q[2] <= ngroups[r] /\ (q[2] < group[r] => poll[q] = "got")
       /\ lambda[r] = "done" /\ query[q] # "none" => poll[q] = "got"
  /\ pc[r] = "answered" /\ setup.source = "services" => lambda[r] = "done" /\ unread[r] = 0
  /\ pc[r] \in {"poll", "pages"} => setup.source = "reports"
  /\ Splitting(r, "Lambda") => lambda[r] = "start"
  /\ Splitting(r, "EC2") => pc[r] = "estimate"

QInv == \A r \in Requests : QueriesSoFar(r)

LEMMA QueryParts ==
  ASSUME NEW q \in Queries
  PROVE q[1] \in Requests /\ q[2] \in 1..MaxGroups /\ q \in Mine(q[1])
  BY DEF Queries, Groups, Mine

LEMMA InitQInv == Init => QInv
  <1> SUFFICES ASSUME Init, NEW r \in Requests PROVE QueriesSoFar(r)
    BY DEF QInv
  <1>1. \A q \in Mine(r) : query[q] = "none" /\ poll[q] = "no"
    BY DEF Init, Mine
  <1>2. lambda[r] = "off" /\ pc[r] = "idle" /\ Free
    BY DEF Init, Free
  <1> QED
    BY <1>1, <1>2 DEF QueriesSoFar, Splitting

\* A request that a step does not touch.
LEMMA Untouched ==
  ASSUME QInv, NEW r \in Requests, setup' = setup,
         lambda'[r] = lambda[r], group'[r] = group[r], ngroups'[r] = ngroups[r],
         \/ pc'[r] = pc[r]
         \/ /\ pc[r] # "estimate" \/ ~\E s \in Services : Splitting(r, s)'
            /\ pc'[r] = "answered" => pc[r] \in {"poll", "pages"}
            /\ pc'[r] \in {"poll", "pages"} => setup.source = "reports",
         unread'[r] = unread[r] \/ unread[r] # 0 \/ pc[r] # "answered",
         \A q \in Mine(r) : query'[q] = query[q] /\ poll'[q] = poll[q],
         \A s \in Services : Splitting(r, s)' => Splitting(r, s)
  PROVE QueriesSoFar(r)'
  <1>1. QueriesSoFar(r) /\ {"EC2", "Lambda"} = Services
    BY Two DEF QInv
  <1>2. Mine(r)' = Mine(r)
    BY DEF Mine, Queries, Groups
  <1> QED
    BY <1>1, <1>2 DEF QueriesSoFar

\* A step of one request, with what its own queries need.
LEMMA OneRequest ==
  ASSUME QInv, NEW r \in Requests, setup' = setup, QueriesSoFar(r)',
         \A q \in Requests \ {r} :
           /\ lambda'[q] = lambda[q] /\ group'[q] = group[q] /\ ngroups'[q] = ngroups[q]
           /\ pc'[q] = pc[q] /\ unread'[q] = unread[q],
         \A q \in Queries : q[1] # r => query'[q] = query[q] /\ poll'[q] = poll[q],
         \A q \in Requests \ {r}, s \in Services : Splitting(q, s)' => Splitting(q, s)
  PROVE QInv'
  <1>1. ASSUME NEW q \in Requests, q # r PROVE QueriesSoFar(q)'
    <2>1. \A x \in Mine(q) : query'[x] = query[x] /\ poll'[x] = poll[x]
      BY <1>1 DEF Mine
    <2> QED
      BY <1>1, <2>1, Untouched
  <1> QED
    BY <1>1 DEF QInv

LEMMA SplitQueries ==
  ASSUME WInv, TInv, QInv, SplitWindow \/ SplitLast,
         NEW r, r = split.request, NEW s, s = split.service
  PROVE QInv'
  <1> DEFINE n == Len(windows[r][s]) + 1
  <1>1. /\ ~Free /\ r \in Requests /\ s \in Services
        /\ UNCHANGED <<setup, pc, lambda, ngroups, group, poll>>
    BY SplitTyped DEF SplitWindow, SplitLast, lambdaVars
  <1>2. PICK window : Push(r, s, window) \/ PushTooMany(r, s)
    BY DEF SplitWindow, SplitLast
  <1>3. \A q \in Requests, t \in Services : Splitting(q, t)' => Splitting(q, t)
    <2>1. CASE SplitWindow
      <3>1. split = [request |-> r, service |-> s, from |-> split.from, to |-> split.to]
        BY <1>1, SplitTyped
      <3>2. split'.request = r /\ split'.service = s
        BY <2>1, <3>1 DEF SplitWindow
      <3> QED
        BY <1>1, <3>2 DEF Splitting
    <2>2. CASE SplitLast
      BY <2>2 DEF SplitLast, Splitting, Free, None
    <2> QED
      BY <2>1, <2>2
  <1>4. Splitting(r, s)
    BY <1>1 DEF Splitting
  <1>5. CASE UNCHANGED <<unread, query>>
    BY <1>1, <1>3, <1>5, Untouched DEF QInv
  <1>6. CASE s = "EC2" /\ unread' = [unread EXCEPT ![r] = unread[r] + 1] /\ UNCHANGED query
    <2>1. pc[r] = "estimate"
      BY <1>1, <1>4, <1>6 DEF QInv, QueriesSoFar
    <2>2. \A q \in Requests : unread'[q] = unread[q] \/ pc[q] # "answered"
      <3>1. unread \in [Requests -> 0..MaxWindows + 1]
        BY DEF TInv, TypeOK
      <3> QED
        BY <1>6, <2>1, <3>1
    <2> QED
      BY <1>1, <1>3, <1>6, <2>2, Untouched DEF QInv
  <1>7. CASE /\ s # "EC2" /\ UNCHANGED unread
             /\ query' = [query EXCEPT ![<<r, group[r], n>>] = "ask"]
    <2>1. s = "Lambda" /\ lambda[r] = "start"
      BY <1>1, <1>4, <1>7, Two DEF QInv, QueriesSoFar
    <2>2. QueriesSoFar(r)'
      <3>1. query \in [Queries -> QueryStates] /\ group[r] \in 1..ngroups[r]
        BY <1>1, <2>1 DEF TInv, TypeOK, Bounded, QueryStates
      <3>2. \A q \in Queries :
              query'[q] = query[q] \/ (query'[q] = "ask" /\ q = <<r, group[r], n>>)
        BY <1>7, <3>1
      <3>3. ASSUME NEW q \in Mine(r)
            PROVE \/ query'[q] = query[q]
                  \/ query'[q] = "ask" /\ q[2] = group[r]
        BY <3>2 DEF Mine
      <3>4. QueriesSoFar(r) /\ Mine(r)' = Mine(r)
        BY <1>1 DEF QInv, Mine, Queries, Groups
      <3>5. ASSUME NEW q \in Mine(r)
            PROVE /\ q[2] > group[r] => query'[q] = "none"
                  /\ q[2] < group[r] => query'[q] \notin {"ask", "start"}
                  /\ poll[q] = "no" /\ query'[q] # "refused"
        <4>1. q[2] \in Int /\ group[r] \in Int
          <5>1. group[r] \in 0..MaxGroups /\ q[2] \in 1..MaxGroups
            BY <1>1, QueryParts DEF TInv, TypeOK, Mine
          <5> QED
            BY <5>1
        <4>2. /\ q[2] > group[r] => query[q] = "none"
              /\ q[2] < group[r] => query[q] \notin {"ask", "start"}
              /\ poll[q] = "no" /\ query[q] # "refused"
          BY <2>1, <3>4 DEF QueriesSoFar
        <4> QED
          BY <3>3, <4>1, <4>2
      <3>6. Splitting(r, "Lambda")' => lambda'[r] = "start"
        BY <1>1, <2>1
      <3>7. Splitting(r, "EC2")' => pc'[r] = "estimate"
        BY <1>1, <1>3, <3>4, Two DEF QueriesSoFar
      <3>8. pc'[r] # "answered" \/ setup'.source # "services"
        BY <1>1, <2>1, <3>4 DEF QueriesSoFar
      <3> HIDE DEF n
      <3>9. lambda'[r] = "start" /\ group'[r] = group[r] /\ poll' = poll
        BY <1>1, <2>1
      <3>10. pc'[r] \in {"poll", "pages"} => setup'.source = "reports"
        BY <1>1, <3>4 DEF QueriesSoFar
      <3> QED
        BY <3>4, <3>5, <3>6, <3>7, <3>8, <3>9, <3>10 DEF QueriesSoFar
    <2>3. \A q \in Queries : q[1] # r => query'[q] = query[q]
      <3>1. query \in [Queries -> QueryStates]
        BY DEF TInv, TypeOK, QueryStates
      <3>2. \A q \in Queries : q[1] # r => q # <<r, group[r], n>>
        OBVIOUS
      <3> QED
        BY <1>7, <3>1, <3>2
    <2> QED
      BY <1>1, <1>3, <1>7, <2>2, <2>3, OneRequest
  <1> QED
    BY <1>2, <1>5, <1>6, <1>7 DEF Push, PushTooMany

LEMMA LoopIsOne ==
  ASSUME NEW r, NEW s, NEW from, split' = Loop(r, s, from)
  PROVE \A q, t : Splitting(q, t)' => q = r /\ t = s
  <1> DEFINE to == SetDate(from, DayOfMonth(from) + Interval[s])
  <1>1. split' = [request |-> r, service |-> s, from |-> from, to |-> to]
    BY DEF Loop
  <1> HIDE DEF to
  <1>2. split'.request = r /\ split'.service = s
    BY <1>1, LoopRuns
  <1> QED
    BY <1>2 DEF Splitting

LEMMA RegionQueries ==
  ASSUME TInv, QInv, NEW r \in Requests, NEW n, NEW x,
         EnterRegion(r, n, x), UNCHANGED <<setup, ngroups>>,
         pc' = [pc EXCEPT ![r] = "estimate"]
  PROVE QInv'
  <1>1. /\ RestTyped
        /\ unread \in [Requests -> 0..MaxWindows + 1]
    BY RestFromInv DEF TInv, TypeOK
  <1>2. /\ pc'[r] = "estimate" /\ lambda'[r] = "names"
        /\ \A q \in Requests \ {r} :
             /\ lambda'[q] = lambda[q] /\ group'[q] = group[q] /\ ngroups'[q] = ngroups[q]
             /\ pc'[q] = pc[q] /\ unread'[q] = unread[q]
    BY <1>1 DEF EnterRegion, RestTyped
  <1>3. \A q \in Queries :
          /\ q[1] # r => query'[q] = query[q] /\ poll'[q] = poll[q]
          /\ q[1] = r => query'[q] = "none" /\ poll'[q] = "no"
    BY DEF EnterRegion
  <1>4. \A q, t : Splitting(q, t)' => q = r /\ t = "EC2"
    BY LoopIsOne DEF EnterRegion
  <1>5. QueriesSoFar(r)'
    <2>1. Mine(r)' = Mine(r) /\ \A q \in Mine(r) : query'[q] = "none" /\ poll'[q] = "no"
      BY <1>3 DEF Mine, Queries, Groups
    <2> QED
      BY <1>2, <1>4, <2>1 DEF QueriesSoFar
  <1> QED
    BY <1>2, <1>3, <1>4, <1>5, OneRequest

LEMMA NamesQueries ==
  ASSUME TInv, QInv, NEW r \in Requests, NEW n \in 0..setup.groups, GroupNames(r, n)
  PROVE QInv'
  <1>1. /\ RestTyped /\ ngroups \in [Requests -> 0..MaxGroups] /\ n \in Nat
    <2>1. setup.groups \in 0..MaxGroups /\ MaxGroups \in Nat
      BY SetupTyped, Numbers DEF TInv, TypeOK
    <2> QED
      BY <2>1, RestFromInv DEF TInv, TypeOK
  <1>2. /\ UNCHANGED <<setup, pc, unread, query, poll>>
        /\ lambda[r] = "names" /\ Free
        /\ ngroups' = [ngroups EXCEPT ![r] = n]
        /\ \/ /\ n = 0 /\ lambda' = [lambda EXCEPT ![r] = "done"]
              /\ UNCHANGED <<group, split>>
           \/ /\ lambda' = [lambda EXCEPT ![r] = "start"]
              /\ group' = [group EXCEPT ![r] = 1]
              /\ split' = Loop(r, "Lambda", range[r].start)
    BY DEF GroupNames, queryVars
  <1>3. /\ \A q \in Requests \ {r} :
             lambda'[q] = lambda[q] /\ group'[q] = group[q] /\ ngroups'[q] = ngroups[q]
        /\ lambda'[r] = "done" \/ (lambda'[r] = "start" /\ group'[r] = 1)
    BY <1>1, <1>2 DEF RestTyped
  <1>4. \A q, t : Splitting(q, t)' => q = r /\ t = "Lambda" /\ lambda'[r] = "start"
    <2>1. CASE UNCHANGED <<group, split>>
      BY <1>2, <2>1 DEF Splitting, Free, None
    <2>2. CASE /\ lambda' = [lambda EXCEPT ![r] = "start"]
               /\ split' = Loop(r, "Lambda", range[r].start)
      BY <1>1, <2>2, LoopIsOne DEF RestTyped
    <2> QED
      BY <1>2, <2>1, <2>2
  <1>5. QueriesSoFar(r)'
    <2>1. Mine(r)' = Mine(r) /\ \A q \in Mine(r) : query'[q] = "none" /\ poll'[q] = "no"
      BY <1>2 DEF QInv, QueriesSoFar, Mine, Queries, Groups
    <2>2. /\ pc'[r] # "answered" \/ setup'.source # "services"
          /\ pc'[r] \in {"poll", "pages"} => setup'.source = "reports"
      BY <1>2 DEF QInv, QueriesSoFar
    <2> QED
      BY <1>3, <1>4, <2>1, <2>2 DEF QueriesSoFar
  <1> QED
    BY <1>2, <1>3, <1>4, <1>5, OneRequest

LEMMA NextGroupQueries ==
  ASSUME TInv, QInv, NEW r \in Requests, NextGroup(r)
  PROVE QInv'
  <1>1. /\ UNCHANGED <<setup, pc, lambda, ngroups, unread, query, poll>>
        /\ lambda[r] = "start" /\ group' = [group EXCEPT ![r] = group[r] + 1]
        /\ split' = Loop(r, "Lambda", range[r].start)
        /\ \A q \in OfGroup(r, group[r]) : query[q] \notin {"ask", "start"}
    <2>1. group \in [Requests -> 0..MaxGroups]
      BY DEF TInv, TypeOK
    <2> QED
      BY <2>1 DEF NextGroup, GroupStarted, queryVars
  <1>2. /\ group'[r] = group[r] + 1 /\ group[r] \in Int
        /\ \A q \in Requests \ {r} : group'[q] = group[q]
    <2>1. group \in [Requests -> 0..MaxGroups]
      BY DEF TInv, TypeOK
    <2> QED
      BY <1>1, <2>1, Numbers
  <1>3. \A q, t : Splitting(q, t)' => q = r /\ t = "Lambda"
    BY <1>1, LoopIsOne
  <1>4. QueriesSoFar(r)'
    <2>1. Mine(r)' = Mine(r) /\ QueriesSoFar(r)
      BY DEF QInv, Mine, Queries, Groups
    <2>2. ASSUME NEW q \in Mine(r)
          PROVE /\ q[2] > group'[r] => query[q] = "none"
                /\ q[2] < group'[r] => query[q] \notin {"ask", "start"}
      <3>1. q[2] \in Int /\ q \in Queries /\ q[1] = r
        BY QueryParts, Numbers DEF Mine
      <3>2. q[2] = group[r] => query[q] \notin {"ask", "start"}
        BY <1>1, <3>1 DEF OfGroup
      <3>3. /\ q[2] > group[r] => query[q] = "none"
            /\ q[2] < group[r] => query[q] \notin {"ask", "start"}
        BY <1>1, <2>1 DEF QueriesSoFar
      <3>4. q[2] > group'[r] => q[2] > group[r]
        BY <1>2, <3>1
      <3>5. q[2] < group'[r] => q[2] < group[r] \/ q[2] = group[r]
        BY <1>2, <3>1
      <3> QED
        BY <3>2, <3>3, <3>4, <3>5
    <2> QED
      BY <1>1, <1>3, <2>1, <2>2 DEF QueriesSoFar
  <1> QED
    BY <1>1, <1>2, <1>3, <1>4, OneRequest

\* Steps of a request that touch none of its queries.
LEMMA QuietQueries ==
  ASSUME TInv, QInv, NEW r \in Requests,
         \/ ReadMetrics(r) \/ ReadMetricsFails(r) \/ StartAthena(r) \/ PollFailed(r)
         \/ PollFails(r) \/ PollSucceeded(r) \/ ReadPage(r) \/ ReadPageFails(r)
         \/ FinishAthena(r)
  PROVE QInv'
  <1> USE DEF Goto, Fail, athenaVars, lambdaVars, queryVars, otherVars
  <1>1. RestTyped /\ unread \in [Requests -> 0..MaxWindows + 1]
    BY RestFromInv DEF TInv, TypeOK
  <1>2. /\ UNCHANGED <<setup, lambda, group, ngroups, query, poll, split>>
        /\ unread' = unread \/ (unread' = [unread EXCEPT ![r] = @ - 1] /\ unread[r] > 0)
    BY DEF ReadMetrics, ReadMetricsFails, StartAthena, PollFailed, PollFails, PollSucceeded,
           ReadPage, ReadPageFails, FinishAthena
  <1>3. \/ pc' = pc
        \/ pc' = [pc EXCEPT ![r] = pc[r]]
        \/ Free /\ pc' = [pc EXCEPT ![r] = "failed"]
        \/ /\ pc[r] = "idle" /\ setup.source = "reports"
           /\ \E label \in {"poll", "failed"} : pc' = [pc EXCEPT ![r] = label]
        \/ /\ pc[r] \in {"poll", "pages"}
           /\ \E label \in {"pages", "answered", "failed"} : pc' = [pc EXCEPT ![r] = label]
    BY DEF ReadMetrics, ReadMetricsFails, StartAthena, PollFailed, PollFails, PollSucceeded,
           ReadPage, ReadPageFails, FinishAthena
  <1>4. \A q \in Requests, s \in Services : Splitting(q, s)' <=> Splitting(q, s)
    BY <1>2 DEF Splitting, Free
  <1>5. ASSUME NEW q \in Requests PROVE QueriesSoFar(q)'
    <2>1. unread'[q] = unread[q] \/ unread[q] # 0 \/ pc[q] # "answered"
      BY <1>1, <1>2
    <2>2. pc[r] \in {"poll", "pages"} => setup.source = "reports"
      BY DEF QInv, QueriesSoFar
    <2>3. \/ pc'[q] = pc[q]
          \/ /\ pc[q] # "estimate" \/ ~\E s \in Services : Splitting(q, s)'
             /\ pc'[q] = "answered" => pc[q] \in {"poll", "pages"}
             /\ pc'[q] \in {"poll", "pages"} => setup.source = "reports"
      <3>1. CASE Free /\ pc' = [pc EXCEPT ![r] = "failed"]
        BY <1>1, <1>4, <3>1 DEF RestTyped, Splitting
      <3> QED
        BY <1>1, <1>3, <2>2, <3>1 DEF RestTyped
    <2> QED
      BY <1>2, <1>4, <2>1, <2>3, Untouched
  <1> QED
    BY <1>5 DEF QInv

\* Steps of a request when no loop runs, by what its own queries come to.
LEMMA FreeRequest ==
  ASSUME TInv, QInv, NEW r \in Requests, Free, QueriesSoFar(r)',
         UNCHANGED <<setup, split, ngroups, unread, query>>,
         lambda' = lambda \/ \E state \in LambdaStates : lambda' = [lambda EXCEPT ![r] = state],
         group' = group \/ \E g : group' = [group EXCEPT ![r] = g],
         pc' = pc \/ \E label \in Labels : pc' = [pc EXCEPT ![r] = label],
         \A q \in Queries : q[1] # r => poll'[q] = poll[q]
  PROVE QInv'
  <1>1. \A q \in Requests \ {r} :
          lambda'[q] = lambda[q] /\ group'[q] = group[q] /\ pc'[q] = pc[q]
    BY RestFromInv DEF RestTyped
  <1>2. \A q \in Requests, s \in Services : ~Splitting(q, s)'
    BY DEF Splitting, Free
  <1> QED
    BY <1>1, <1>2, OneRequest

LEMMA NamesFailQueries ==
  ASSUME TInv, QInv, NEW r \in Requests, NamesFail(r)
  PROVE QInv'
  <1>1. /\ Free /\ lambda[r] = "names" /\ lambda' = [lambda EXCEPT ![r] = "failed"]
        /\ UNCHANGED <<setup, split, ngroups, unread, query, poll, group>>
        /\ pc' = [pc EXCEPT ![r] = IF pc[r] = "estimate" THEN "failed" ELSE pc[r]]
    BY DEF NamesFail, Fail, queryVars
  <1>2. lambda'[r] = "failed" /\ pc'[r] \in Labels /\ pc' = [pc EXCEPT ![r] = pc'[r]]
    BY <1>1, RestFromInv DEF RestTyped, Labels
  <1>3. QueriesSoFar(r) /\ Mine(r)' = Mine(r)
    BY DEF QInv, Mine, Queries, Groups
  <1>4. /\ pc'[r] = "answered" => pc[r] = "answered"
        /\ pc'[r] \in {"poll", "pages"} => pc[r] \in {"poll", "pages"}
    BY <1>1, RestFromInv DEF RestTyped
  <1>5. \A s \in Services : ~Splitting(r, s)'
    BY <1>1 DEF Splitting, Free
  <1>6. QueriesSoFar(r)'
    BY <1>1, <1>2, <1>3, <1>4, <1>5, Two DEF QueriesSoFar
  <1> QED
    BY <1>1, <1>2, <1>6, FreeRequest DEF LambdaStates

LEMMA AnswerQueries ==
  ASSUME TInv, QInv, NEW r \in Requests, AnswerServices(r) \/ CollectedAll(r)
  PROVE QInv'
  <1>1. /\ Free /\ UNCHANGED <<setup, split, ngroups, unread, query, poll, group>>
        /\ \/ /\ pc[r] = "estimate" /\ unread[r] = 0 /\ lambda[r] = "done"
              /\ pc' = [pc EXCEPT ![r] = "answered"] /\ lambda' = lambda
           \/ /\ lambda[r] = "collect" /\ lambda' = [lambda EXCEPT ![r] = "done"]
              /\ group[r] = ngroups[r] /\ pc' = pc
              /\ \A q \in OfGroup(r, group[r]) : poll[q] = "got"
    BY DEF AnswerServices, CollectedAll, GroupCollected, RegionDone, Goto, queryVars, lambdaVars
  <1>2. QueriesSoFar(r) /\ Mine(r)' = Mine(r)
    BY DEF QInv, Mine, Queries, Groups
  <1>3. \A s \in Services : ~Splitting(r, s)'
    BY <1>1 DEF Splitting, Free
  <1>4. QueriesSoFar(r)'
    <2>1. CASE /\ pc[r] = "estimate" /\ unread[r] = 0 /\ lambda[r] = "done"
               /\ pc' = [pc EXCEPT ![r] = "answered"] /\ lambda' = lambda
      <3>1. pc'[r] = "answered"
        BY <2>1, RestFromInv DEF RestTyped
      <3> QED
        BY <1>1, <1>2, <1>3, <2>1, <3>1, Two DEF QueriesSoFar
    <2>2. CASE /\ lambda[r] = "collect" /\ lambda' = [lambda EXCEPT ![r] = "done"]
               /\ group[r] = ngroups[r] /\ pc' = pc
               /\ \A q \in OfGroup(r, group[r]) : poll[q] = "got"
      <3>1. lambda'[r] = "done"
        BY <2>2, RestFromInv DEF RestTyped
      <3>2. ASSUME NEW q \in Mine(r), query[q] # "none" PROVE poll[q] = "got"
        <4>1. q \in Queries /\ q[1] = r /\ q[2] \in Int /\ group[r] \in Int
          BY QueryParts, Numbers, RestFromInv DEF Mine, RestTyped
        <4>2. q[2] <= group[r] /\ (q[2] < group[r] => poll[q] = "got")
          BY <1>2, <2>2, <3>2 DEF QueriesSoFar
        <4>3. q[2] = group[r] => poll[q] = "got"
          BY <2>2, <3>2, <4>1 DEF OfGroup
        <4> QED
          BY <4>1, <4>2, <4>3
      <3>3. pc[r] # "answered" \/ setup.source # "services"
        BY <1>2, <2>2 DEF QueriesSoFar
      <3> QED
        BY <1>1, <1>2, <1>3, <2>2, <3>1, <3>2, <3>3, Two DEF QueriesSoFar
    <2> QED
      BY <1>1, <2>1, <2>2
  <1> QED
    BY <1>1, <1>4, FreeRequest DEF LambdaStates, Labels

LEMMA CollectQueries ==
  ASSUME TInv, QInv, NEW r \in Requests, CollectFirst(r) \/ CollectNext(r)
  PROVE QInv'
  <1>1. PICK g :
          /\ Free /\ UNCHANGED <<setup, split, ngroups, unread, query, pc>>
          /\ group' = [group EXCEPT ![r] = g]
          /\ poll' = [q \in Queries |-> IF q \in OfGroup(r, g) THEN "polling" ELSE poll[q]]
          /\ \/ /\ g = 1 /\ lambda[r] = "start" /\ lambda' = [lambda EXCEPT ![r] = "collect"]
                /\ group[r] = ngroups[r]
                /\ \A q \in OfGroup(r, group[r]) : query[q] \notin {"ask", "start"}
             \/ /\ g = group[r] + 1 /\ lambda[r] = "collect" /\ lambda' = lambda
                /\ \A q \in OfGroup(r, group[r]) : poll[q] = "got"
    BY DEF CollectFirst, CollectNext, GroupStarted, GroupCollected, Collect
  <1>2. QueriesSoFar(r) /\ Mine(r)' = Mine(r)
    BY DEF QInv, Mine, Queries, Groups
  <1>3. \A s \in Services : ~Splitting(r, s)'
    BY <1>1 DEF Splitting, Free
  <1>4. lambda'[r] = "collect" /\ group'[r] = g
    BY <1>1, RestFromInv DEF RestTyped
  <1>5. ASSUME NEW q \in Mine(r)
        PROVE /\ query[q] \notin {"ask", "start", "refused"}
              /\ query[q] # "none" => query[q] \in Started
              /\ query[q] # "none" => q[2] <= ngroups[r] /\ (q[2] < g => poll[q] = "got")
    <2>1. /\ q \in Queries /\ q[1] = r /\ q[2] \in Int /\ group[r] \in Int /\ q[2] >= 1
          /\ ngroups[r] \in Int /\ query[q] \in QueryStates
      <3>1. ngroups[r] \in 0..MaxGroups /\ group[r] \in 0..MaxGroups /\ q \in Queries
        BY DEF TInv, TypeOK, Mine
      <3> QED
        BY <3>1, QueryParts, Numbers, RestFromInv DEF Mine, RestTyped
    <2>2. q[2] = group[r] /\ query[q] # "none" => q \in OfGroup(r, group[r])
      BY <2>1 DEF OfGroup
    <2>3. query[q] # "refused"
      BY <1>1, <1>2 DEF QueriesSoFar
    <2>4. CASE lambda[r] = "start"
      <3>1. g = 1 /\ group[r] = ngroups[r]
            /\ \A x \in OfGroup(r, group[r]) : query[x] \notin {"ask", "start"}
        BY <1>1, <2>4
      <3>2. /\ q[2] > group[r] => query[q] = "none"
            /\ q[2] < group[r] => query[q] \notin {"ask", "start"}
        BY <1>2, <2>4 DEF QueriesSoFar
      <3> QED
        BY <2>1, <2>2, <2>3, <3>1, <3>2 DEF QueryStates, Started
    <2>5. CASE lambda[r] = "collect"
      <3>1. g = group[r] + 1 /\ \A x \in OfGroup(r, group[r]) : poll[x] = "got"
        BY <1>1, <2>5
      <3>2. /\ query[q] \notin {"ask", "start"}
            /\ query[q] # "none" => q[2] <= ngroups[r] /\ (q[2] < group[r] => poll[q] = "got")
        BY <1>2, <2>5 DEF QueriesSoFar
      <3> QED
        BY <2>1, <2>2, <2>3, <3>1, <3>2 DEF QueryStates, Started
    <2> QED
      BY <1>1, <2>4, <2>5
  <1>6. ASSUME NEW q \in Mine(r)
        PROVE \/ poll'[q] = poll[q] /\ (q[2] # g \/ query[q] = "none")
              \/ poll'[q] = "polling" /\ query[q] # "none" /\ q[2] = g
    BY <1>1 DEF OfGroup, Mine
  <1>7. g \in Int /\ \A q \in Mine(r) : q[2] \in Int
    BY <1>1, QueryParts, Numbers, RestFromInv DEF Mine, RestTyped
  <1>8. QueriesSoFar(r)'
    <2>1. ASSUME NEW q \in Mine(r)
          PROVE /\ query[q] = "none" => poll'[q] = "no"
                /\ poll'[q] = "polling" => query[q] \in Started
                /\ poll'[q] = "got" => query[q] \in {"Complete", "Failed"}
                /\ query[q] # "none" /\ q[2] < g => poll'[q] = "got"
      <3>1. /\ query[q] = "none" => poll[q] = "no"
            /\ poll[q] = "polling" => query[q] \in Started
            /\ poll[q] = "got" => query[q] \in {"Complete", "Failed"}
        BY <1>2 DEF QueriesSoFar
      <3> QED
        BY <1>5, <1>6, <1>7, <3>1
    <2>2. /\ pc[r] # "answered" \/ setup.source # "services"
          /\ pc[r] \in {"poll", "pages"} => setup.source = "reports"
      BY <1>1, <1>2 DEF QueriesSoFar
    <2> QED
      BY <1>1, <1>2, <1>3, <1>4, <1>5, <2>1, <2>2, Two DEF QueriesSoFar
  <1>9. \A q \in Queries : q[1] # r => poll'[q] = poll[q]
    BY <1>1 DEF OfGroup
  <1> QED
    BY <1>1, <1>8, <1>9, FreeRequest DEF LambdaStates

\* A step of one query, by what the queries of its request come to.
LEMMA OneQuery ==
  ASSUME TInv, QInv, NEW q \in Queries, QueriesSoFar(q[1])',
         UNCHANGED <<setup, split, group, ngroups, unread>>,
         lambda' = lambda \/ lambda' = [lambda EXCEPT ![q[1]] = "failed"],
         pc' = pc \/ \E label \in Labels : pc' = [pc EXCEPT ![q[1]] = label],
         \A x \in Queries : x # q => query'[x] = query[x] /\ poll'[x] = poll[x]
  PROVE QInv'
  <1>1. q[1] \in Requests
    BY QueryParts
  <1>2. \A x \in Requests \ {q[1]} : lambda'[x] = lambda[x] /\ pc'[x] = pc[x]
    BY RestFromInv DEF RestTyped
  <1>3. \A x \in Requests, s \in Services : Splitting(x, s)' <=> Splitting(x, s)
    BY DEF Splitting, Free
  <1> QED
    BY <1>1, <1>2, <1>3, OneRequest

\* The service and the process move on with a query.
LEMMA QueryMoves ==
  ASSUME TInv, QInv, NEW q \in Queries,
         CountRunning(q) \/ StartQuery(q) \/ RunScheduled(q) \/ FinishQuery(q)
  PROVE QInv'
  <1> DEFINE r == q[1]
  <1>1. /\ UNCHANGED <<setup, split, group, ngroups, unread, lambda, pc, poll>>
        /\ \/ query[q] = "ask" /\ query' = [query EXCEPT ![q] = "start"]
           \/ /\ query[q] \in {"start", "Scheduled", "Running"}
              /\ \E state \in Started : query' = [query EXCEPT ![q] = state]
    BY DEF CountRunning, StartQuery, RunScheduled, FinishQuery, Started, lambdaVars
  <1>2. /\ \A x \in Queries : x # q => query'[x] = query[x]
        /\ \/ query[q] = "ask" /\ query'[q] = "start"
           \/ query[q] \in {"start", "Scheduled", "Running"} /\ query'[q] \in Started
    BY <1>1, RestFromInv DEF RestTyped
  <1>3. r \in Requests /\ q \in Mine(r)
    BY QueryParts
  <1> HIDE DEF r
  <1>4. QueriesSoFar(r) /\ Mine(r)' = Mine(r) /\ Mine(r) \subseteq Queries
    BY <1>3 DEF QInv, Mine, Queries, Groups
  <1>5. \A s \in Services : Splitting(r, s)' <=> Splitting(r, s)
    BY <1>1 DEF Splitting, Free
  <1>6. ASSUME NEW x \in Mine(r)
        PROVE /\ query'[x] = "none" <=> query[x] = "none"
              /\ query'[x] \in {"ask", "start"} => query[x] \in {"ask", "start"}
              /\ query'[x] = "refused" => query[x] = "refused"
              /\ query[x] \in {"Complete", "Failed"} => query'[x] = query[x]
              /\ query[x] \in Started => query'[x] \in Started
    BY <1>2, <1>4 DEF Started
  <1>7. QueriesSoFar(r)'
    BY <1>1, <1>4, <1>5, <1>6, Two DEF QueriesSoFar
  <1> QED
    BY <1>1, <1>2, <1>7, OneQuery DEF r

\* A query is rejected or its result does not come.
LEMMA QueryFails ==
  ASSUME TInv, QInv, NEW q \in Queries,
         CountFails(q) \/ StartRefused(q) \/ NoResult(q)
  PROVE QInv'
  <1> DEFINE r == q[1]
  <1>1. /\ Free /\ UNCHANGED <<setup, split, group, ngroups, unread>>
        /\ lambda' = [lambda EXCEPT ![r] = "failed"]
        /\ pc' = [pc EXCEPT ![r] = IF pc[r] = "estimate" THEN "failed" ELSE pc[r]]
        /\ \/ /\ query[q] \in {"ask", "start"} /\ poll' = poll
              /\ query' = [query EXCEPT ![q] = "refused"]
           \/ /\ poll[q] = "polling" /\ query' = query
              /\ poll' = [poll EXCEPT ![q] = "late"]
    BY DEF CountFails, StartRefused, NoResult, Refuse, Fail
  <1>2. /\ \A x \in Queries : x # q => query'[x] = query[x] /\ poll'[x] = poll[x]
        /\ \/ query[q] \in {"ask", "start"} /\ query'[q] = "refused" /\ poll'[q] = poll[q]
           \/ poll[q] = "polling" /\ query'[q] = query[q] /\ poll'[q] = "late"
    BY <1>1, RestFromInv DEF RestTyped
  <1>3. r \in Requests /\ q \in Mine(r)
    BY QueryParts
  <1> HIDE DEF r
  <1>4. QueriesSoFar(r) /\ Mine(r)' = Mine(r) /\ Mine(r) \subseteq Queries
    BY <1>3 DEF QInv, Mine, Queries, Groups
  <1>5. \A s \in Services : ~Splitting(r, s)'
    BY <1>1 DEF Splitting, Free
  <1>6. /\ lambda'[r] = "failed" /\ pc'[r] \in Labels /\ pc' = [pc EXCEPT ![r] = pc'[r]]
        /\ pc'[r] = "answered" => pc[r] = "answered"
        /\ pc'[r] \in {"poll", "pages"} => pc[r] \in {"poll", "pages"}
    BY <1>1, <1>3, RestFromInv DEF RestTyped, Labels
  <1>7. lambda[r] # "done"
    BY <1>2, <1>3, <1>4 DEF QueriesSoFar, Started
  <1>8. ASSUME NEW x \in Mine(r)
        PROVE /\ query'[x] = "none" => poll'[x] = "no"
              /\ poll'[x] = "polling" => query'[x] \in Started
              /\ poll'[x] = "got" => query'[x] \in {"Complete", "Failed"}
    <2>1. /\ query[x] = "none" => poll[x] = "no"
          /\ poll[x] = "polling" => query[x] \in Started
          /\ poll[x] = "got" => query[x] \in {"Complete", "Failed"}
      BY <1>4 DEF QueriesSoFar
    <2> QED
      BY <1>2, <1>4, <2>1 DEF Started
  <1>9. QueriesSoFar(r)'
    BY <1>1, <1>4, <1>5, <1>6, <1>7, <1>8, Two DEF QueriesSoFar
  <1> QED
    BY <1>1, <1>2, <1>6, <1>9, OneQuery DEF r

LEMMA ResultQueries ==
  ASSUME TInv, QInv, NEW q \in Queries, GetResult(q)
  PROVE QInv'
  <1> DEFINE r == q[1]
  <1>1. /\ UNCHANGED <<setup, split, group, ngroups, unread, lambda, pc, query>>
        /\ poll[q] = "polling" /\ query[q] \notin {"Running", "Scheduled"}
        /\ poll' = [poll EXCEPT ![q] = "got"]
    BY DEF GetResult, Unfinished, lambdaVars
  <1>2. poll'[q] = "got" /\ \A x \in Queries : x # q => poll'[x] = poll[x]
    BY <1>1, RestFromInv DEF RestTyped
  <1>3. r \in Requests /\ q \in Mine(r)
    BY QueryParts
  <1> HIDE DEF r
  <1>4. QueriesSoFar(r) /\ Mine(r)' = Mine(r) /\ Mine(r) \subseteq Queries
    BY <1>3 DEF QInv, Mine, Queries, Groups
  <1>5. \A s \in Services : Splitting(r, s)' <=> Splitting(r, s)
    BY <1>1 DEF Splitting, Free
  <1>6. query[q] \in {"Complete", "Failed"}
    BY <1>1, <1>3, <1>4 DEF QueriesSoFar, Started
  <1>7. lambda[r] \notin {"off", "names", "start"}
    BY <1>1, <1>3, <1>4 DEF QueriesSoFar
  <1>8. ASSUME NEW x \in Mine(r)
        PROVE x = q \/ poll'[x] = poll[x]
    BY <1>2, <1>4
  <1>9. QueriesSoFar(r)'
    BY <1>1, <1>2, <1>4, <1>5, <1>6, <1>7, <1>8, Two DEF QueriesSoFar
  <1> QED
    BY <1>1, <1>2, <1>9, OneQuery DEF r

LEMMA NextQInv == WInv /\ TInv /\ QInv /\ [Next]_vars => QInv'
  <1> SUFFICES ASSUME WInv, TInv, QInv, [Next]_vars PROVE QInv'
    OBVIOUS
  <1>1. CASE UNCHANGED vars \/ OtherStarts \/ OtherFinishes
    <2>1. UNCHANGED <<setup, pc, split, unread, lambda, ngroups, group, query, poll>>
      BY <1>1 DEF vars, OtherStarts, OtherFinishes, lambdaVars, queryVars
    <2>2. \A r \in Requests, s \in Services : Splitting(r, s)' => Splitting(r, s)
      BY <2>1 DEF Splitting, Free
    <2> QED
      BY <2>1, <2>2, Untouched DEF QInv
  <1>2. CASE SplitWindow \/ SplitLast
    BY <1>2, SplitQueries
  <1>3. ASSUME NEW r \in Requests, NEW x \in Ranges[r], Estimate(r, x) PROVE QInv'
    BY <1>3, RegionQueries DEF Estimate, Goto
  <1>4. ASSUME NEW r \in Requests, NextRegion(r) PROVE QInv'
    <2>1. /\ EnterRegion(r, region[r] + 1, range[r]) /\ UNCHANGED <<setup, ngroups>>
          /\ pc' = [pc EXCEPT ![r] = "estimate"]
      BY <1>4, RestFromInv DEF NextRegion, RestTyped
    <2> QED
      BY <2>1, RegionQueries
  <1>5. ASSUME NEW r \in Requests, NextGroup(r) \/ \E n \in 0..setup.groups : GroupNames(r, n)
        PROVE QInv'
    BY <1>5, NextGroupQueries, NamesQueries
  <1>6. ASSUME NEW r \in Requests,
               \/ ReadMetrics(r) \/ ReadMetricsFails(r) \/ StartAthena(r) \/ PollFailed(r)
               \/ PollFails(r) \/ PollSucceeded(r) \/ ReadPage(r) \/ ReadPageFails(r)
               \/ FinishAthena(r)
        PROVE QInv'
    BY <1>6, QuietQueries
  <1>7. ASSUME NEW r \in Requests,
               \/ NamesFail(r) \/ AnswerServices(r) \/ CollectedAll(r)
               \/ CollectFirst(r) \/ CollectNext(r)
        PROVE QInv'
    BY <1>7, NamesFailQueries, AnswerQueries, CollectQueries
  <1>8. ASSUME NEW q \in Queries,
               ProcessQuery(q) \/ CountFails(q) \/ NoResult(q) \/ RunScheduled(q) \/ FinishQuery(q)
        PROVE QInv'
    BY <1>8, QueryMoves, QueryFails, ResultQueries DEF ProcessQuery
  <1> QED
    BY <1>1, <1>2, <1>3, <1>4, <1>5, <1>6, <1>7, <1>8 DEF Next, Process

LEMMA WholeFromInv == TInv /\ QInv /\ PagesSoFar => AnswerIsWhole
  <1> SUFFICES ASSUME TInv, QInv, PagesSoFar, NEW r \in Requests,
                      pc[r] = "answered", setup.source # "reports"
               PROVE /\ unread[r] = 0
                     /\ \A g \in 1..ngroups[r] : \A q \in OfGroup(r, g) :
                          poll[q] = "got" /\ query[q] \in {"Complete", "Failed"}
                     /\ \A q \in Active : q[1] # r
    BY ReportFromInv DEF AnswerIsWhole, ReportIsWhole
  <1>1. setup.source = "services"
    BY SetupTyped DEF TInv, TypeOK
  <1>2. lambda[r] = "done" /\ unread[r] = 0
    BY <1>1 DEF QInv, QueriesSoFar
  <1>3. \A q \in Mine(r) :
          query[q] # "none" => poll[q] = "got" /\ query[q] \in {"Complete", "Failed"}
    BY <1>2 DEF QInv, QueriesSoFar
  <1> QED
    BY <1>2, <1>3 DEF OfGroup, Active, Mine

\* For any number of requests, regions, groups, windows and pages: what is
\* answered rests on the result of every query and on every page.
THEOREM WholeAnswer == Spec => []AnswerIsWhole
  <1>1. Spec => []QInv
    BY InitWInv, NextWInv, InitPages, NextPages, InitTInv, NextTInv, InitQInv, NextQInv, PTL
       DEF Spec
  <1>2. Spec => []PagesSoFar
    BY InitPages, NextPages, PTL DEF Spec
  <1> QED
    BY <1>1, <1>2, Typed, WholeFromInv, PTL

(***************************************************************************)
(* How far the limit on running queries is passed.                          *)
(***************************************************************************)
\* w is where the loop of Lambda begins its first n windows.
Path(r, n, w) ==
  /\ w[1] = range[r].start
  /\ \A i \in 1..n - 1 : /\ w[i + 1] = EndOf("Lambda", w[i], range[r].start)
                         /\ w[i + 1] < range[r].end

\* That loop begins an n-th window.
Reaches(r, n) == \E w : Path(r, n, w)

\* Where it has begun windows, and where it is.
Begun(r) ==
  [i \in Nat |-> IF i <= Len(windows[r]["Lambda"]) THEN windows[r]["Lambda"][i].from
                 ELSE split.from]

LoopAt(r) ==
  LET n == Len(windows[r]["Lambda"])
  IN  /\ \A i \in 1..n : query[<<r, group[r], i>>] # "none"
      /\ n < MaxWindows => Path(r, n + 1, Begun(r))

\* The groups of a request are split alike, one after the other.
GroupsSoFar(r) ==
  /\ \A q \in Mine(r) :
       /\ query[q] \in {"ask", "start"} => q[2] = group[r]
       /\ group[r] = 0 => query[q] = "none"
       /\ query[q] # "none" => Reaches(r, q[3])
  /\ lambda[r] = "collect" => group[r] # 0
  /\ Splitting(r, "Lambda") => LoopAt(r)
  /\ group[r] # 0 /\ ~(Splitting(r, "Lambda") /\ group[r] = 1) =>
       \A n \in 1..MaxWindows : Reaches(r, n) => query[<<r, 1, n>>] # "none"

GInv == \A r \in Requests : GroupsSoFar(r)

\* The range determines where windows begin.
LEMMA PathIsOne ==
  ASSUME NEW r, NEW n \in Nat, NEW v, NEW w, Path(r, n, v), Path(r, n, w)
  PROVE \A i \in 1..n : v[i] = w[i]
  <1> DEFINE good == {i \in Nat : i \in 1..n => v[i] = w[i]}
  <1>1. 0 \in good
    OBVIOUS
  <1>2. ASSUME NEW i \in Nat, i \in good PROVE i + 1 \in good
    <2> SUFFICES ASSUME i + 1 \in 1..n PROVE v[i + 1] = w[i + 1]
      OBVIOUS
    <2>1. CASE i = 0
      BY <2>1 DEF Path
    <2>2. CASE i # 0
      <3>1. i \in 1..n - 1 /\ v[i] = w[i]
        BY <1>2, <2>2
      <3> QED
        BY <3>1 DEF Path
    <2> QED
      BY <2>1, <2>2
  <1>3. Nat \subseteq good
    <2> HIDE DEF good
    <2> QED
      BY <1>1, <1>2, Induction
  <1> QED
    BY <1>3

\* A window further.
LEMMA PathGrows ==
  ASSUME NEW r, NEW n \in Nat \ {0}, NEW b, NEW c, Path(r, n, b),
         \A i \in 1..n : c[i] = b[i],
         c[n + 1] = EndOf("Lambda", b[n], range[r].start), c[n + 1] < range[r].end
  PROVE Path(r, n + 1, c)
  <1>1. c[1] = range[r].start
    BY DEF Path
  <1>2. ASSUME NEW i \in 1..(n + 1) - 1
        PROVE c[i + 1] = EndOf("Lambda", c[i], range[r].start) /\ c[i + 1] < range[r].end
    <2>1. CASE i = n
      BY <2>1
    <2>2. CASE i # n
      <3>1. i \in 1..n - 1 /\ i \in 1..n /\ i + 1 \in 1..n
        BY <2>2
      <3> QED
        BY <3>1 DEF Path
    <2> QED
      BY <2>1, <2>2
  <1> QED
    BY <1>1, <1>2 DEF Path

\* Queries and their windows.
LEMMA QueryOf ==
  ASSUME NEW r \in Requests, NEW g \in 1..MaxGroups, NEW n \in 1..MaxWindows
  PROVE <<r, g, n>> \in Mine(r) /\ <<r, g, n>> \in Queries
  BY DEF Mine, Queries, Groups

LEMMA WindowOf ==
  ASSUME NEW q \in Queries
  PROVE q[3] \in 1..MaxWindows /\ q = <<q[1], q[2], q[3]>>
  BY DEF Queries

\* Lambda splits the range for a group that exists.
LEMMA SplitGroup ==
  ASSUME TInv, QInv, NEW r \in Requests, Splitting(r, "Lambda")
  PROVE group[r] \in 1..MaxGroups /\ lambda[r] = "start"
  <1>1. lambda[r] = "start"
    BY DEF QInv, QueriesSoFar
  <1>2. ngroups[r] \in 0..MaxGroups /\ group[r] \in 1..ngroups[r]
    BY <1>1 DEF TInv, TypeOK, Bounded
  <1> QED
    BY <1>1, <1>2, Numbers

\* A request whose groups and windows of Lambda a step does not touch.
LEMMA SameGroups ==
  ASSUME NEW r \in Requests, TInv, QInv, GroupsSoFar(r),
         range'[r] = range[r], group'[r] = group[r],
         lambda'[r] = "collect" => lambda[r] = "collect",
         windows'[r]["Lambda"] = windows[r]["Lambda"],
         \A q \in Mine(r) :
           /\ query'[q] = "none" <=> query[q] = "none"
           /\ query'[q] \in {"ask", "start"} => query[q] \in {"ask", "start"},
         Splitting(r, "Lambda")' <=> Splitting(r, "Lambda"),
         Splitting(r, "Lambda") => split' = split
  PROVE GroupsSoFar(r)'
  <1>1. Mine(r)' = Mine(r)
    BY DEF Mine, Queries, Groups
  <1>2. \A n : Reaches(r, n)' <=> Reaches(r, n)
    BY DEF Reaches, Path, EndOf, SetDate, DayOfMonth, Interval
  <1>3. group[r] \in 0..MaxGroups /\ MaxGroups \in Nat
    BY Numbers DEF TInv, TypeOK
  <1>4. ASSUME Splitting(r, "Lambda") PROVE LoopAt(r)'
    <2> DEFINE n == Len(windows[r]["Lambda"])
    <2>1. LoopAt(r) /\ split' = split
      BY <1>4 DEF GroupsSoFar
    <2>2. ASSUME NEW i \in 1..n PROVE query'[<<r, group[r], i>>] # "none"
      <3>1. i \in 1..MaxWindows
        <4>1. windows[r]["Lambda"] \in Seq(Window) /\ n <= MaxWindows
          BY Two DEF TInv, TypeOK, Bounded
        <4> QED
          BY <4>1, Numbers
      <3>2. <<r, group[r], i>> \in Mine(r)
        BY <1>4, <3>1, SplitGroup, QueryOf
      <3> QED
        BY <2>1, <3>2 DEF LoopAt
    <2>3. Begun(r)' = Begun(r)
      BY <2>1 DEF Begun
    <2>4. n < MaxWindows => Path(r, n + 1, Begun(r))'
      BY <2>1, <2>3 DEF LoopAt, Path, EndOf, SetDate, DayOfMonth, Interval
    <2> QED
      BY <2>2, <2>4 DEF LoopAt
  <1>5. ASSUME group[r] # 0, ~(Splitting(r, "Lambda") /\ group[r] = 1),
               NEW n \in 1..MaxWindows, Reaches(r, n)
        PROVE query'[<<r, 1, n>>] # "none"
    <2>1. <<r, 1, n>> \in Mine(r)
      BY <1>3, <1>5, QueryOf
    <2> QED
      BY <1>5, <2>1 DEF GroupsSoFar
  <1> QED
    BY <1>1, <1>2, <1>4, <1>5 DEF GroupsSoFar

\* The loop starts for the first group, or for the next one.
LEMMA GroupStarts ==
  ASSUME NEW r \in Requests, TInv, QInv, GroupsSoFar(r),
         range'[r] = range[r], query' = query,
         windows'[r]["Lambda"] = <<>>, split' = Loop(r, "Lambda", range[r].start),
         lambda'[r] # "collect",
         \/ group'[r] = 1 /\ \A q \in Mine(r) : query[q] = "none"
         \/ /\ group[r] \in 1..MaxGroups /\ group'[r] = group[r] + 1
            /\ ~Splitting(r, "Lambda")
            /\ \A q \in OfGroup(r, group[r]) : query[q] \notin {"ask", "start"}
  PROVE GroupsSoFar(r)'
  <1> DEFINE start == range[r].start
             to == SetDate(start, DayOfMonth(start) + Interval["Lambda"])
  <1>1. Mine(r)' = Mine(r)
    BY DEF Mine, Queries, Groups
  <1>2. \A n : Reaches(r, n)' <=> Reaches(r, n)
    BY DEF Reaches, Path, EndOf, SetDate, DayOfMonth, Interval
  <1>3. split' = [request |-> r, service |-> "Lambda", from |-> start, to |-> to]
    BY DEF Loop
  <1> HIDE DEF to
  <1>4. Splitting(r, "Lambda")' /\ split'.from = start
    BY <1>3, LoopRuns DEF Splitting
  <1>5. LoopAt(r)'
    <2>1. Len(windows'[r]["Lambda"]) = 0
      OBVIOUS
    <2>2. Begun(r)'[1] = start
      BY <1>4, <2>1 DEF Begun
    <2>3. Path(r, 1, Begun(r))'
      BY <2>2 DEF Path
    <2> QED
      BY <2>1, <2>3 DEF LoopAt
  <1>6. CASE group'[r] = 1 /\ \A q \in Mine(r) : query[q] = "none"
    BY <1>1, <1>4, <1>5, <1>6 DEF GroupsSoFar
  <1>7. CASE /\ group[r] \in 1..MaxGroups /\ group'[r] = group[r] + 1
             /\ ~Splitting(r, "Lambda")
             /\ \A q \in OfGroup(r, group[r]) : query[q] \notin {"ask", "start"}
    <2>1. ASSUME NEW q \in Mine(r) PROVE query[q] \notin {"ask", "start"}
      BY <1>7 DEF GroupsSoFar, OfGroup, Mine
    <2>2. group[r] # 0 /\ group'[r] # 0
      BY <1>7, Numbers
    <2> QED
      BY <1>1, <1>2, <1>5, <1>7, <2>1, <2>2 DEF GroupsSoFar
  <1> QED
    BY <1>6, <1>7

\* Entering a region forgets all windows.
LEMMA GroupsReset ==
  ASSUME NEW r \in Requests, NEW n, NEW x, EnterRegion(r, n, x), TInv
  PROVE GroupsSoFar(r)'
  <1>1. Mine(r)' = Mine(r) /\ \A q \in Mine(r) : query'[q] = "none"
    BY DEF Mine, Queries, Groups, EnterRegion
  <1>2. group'[r] = 0 /\ lambda'[r] = "names"
    BY RestFromInv DEF EnterRegion, RestTyped
  <1>3. ~Splitting(r, "Lambda")'
    BY LoopIsOne DEF EnterRegion
  <1> QED
    BY <1>1, <1>2, <1>3 DEF GroupsSoFar

\* Results are collected when no query of the request is yet to be started.
LEMMA GroupsCollect ==
  ASSUME NEW r \in Requests, TInv, QInv, GroupsSoFar(r), CollectFirst(r) \/ CollectNext(r)
  PROVE GroupsSoFar(r)'
  <1>1. /\ UNCHANGED <<range, query, windows, split>> /\ Free
        /\ lambda[r] \in {"start", "collect"} /\ group[r] \in Nat
        /\ \/ group' = [group EXCEPT ![r] = 1]
           \/ lambda[r] = "collect" /\ group' = [group EXCEPT ![r] = group[r] + 1]
        /\ lambda[r] = "start" =>
             \A q \in OfGroup(r, group[r]) : query[q] \notin {"ask", "start"}
    <2>1. group[r] \in Nat
      BY RestFromInv, Numbers DEF RestTyped
    <2> QED
      BY <2>1 DEF CollectFirst, CollectNext, GroupStarted, GroupCollected, Collect
  <1>2. group'[r] # 0
    BY <1>1, RestFromInv DEF RestTyped
  <1>3. group[r] # 0
    <2>1. lambda[r] = "start" => group[r] \in 1..ngroups[r]
      BY DEF TInv, Bounded
    <2>2. ngroups[r] \in Nat
      BY Numbers DEF TInv, TypeOK
    <2> QED
      BY <1>1, <2>1, <2>2 DEF GroupsSoFar
  <1>4. ASSUME NEW q \in Mine(r) PROVE query[q] \notin {"ask", "start"}
    <2>1. CASE lambda[r] = "start"
      BY <1>1, <2>1 DEF GroupsSoFar, OfGroup, Mine
    <2>2. CASE lambda[r] = "collect"
      BY <2>2 DEF QInv, QueriesSoFar
    <2> QED
      BY <1>1, <2>1, <2>2
  <1>5. Mine(r)' = Mine(r)
    BY DEF Mine, Queries, Groups
  <1>6. \A n : Reaches(r, n)' <=> Reaches(r, n)
    BY <1>1 DEF Reaches, Path, EndOf, SetDate, DayOfMonth, Interval
  <1>7. ~Splitting(r, "Lambda") /\ ~Splitting(r, "Lambda")'
    BY <1>1 DEF Splitting, Free
  <1> QED
    BY <1>1, <1>2, <1>3, <1>4, <1>5, <1>6, <1>7 DEF GroupsSoFar

\* A window of Lambda is called for, the last one or not.
LEMMA SplitGroups ==
  ASSUME WInv, TInv, QInv, SplitWindow \/ SplitLast,
         NEW r, r = split.request, split.service = "Lambda", GroupsSoFar(r)
  PROVE GroupsSoFar(r)'
  <1> DEFINE ws == windows[r]["Lambda"]
             n == Len(ws)
             start == range[r].start
             here == <<r, group[r], n + 1>>
             to == EndOf("Lambda", split.to, start)
  <1>1. /\ ~Free /\ r \in Requests /\ "Lambda" \in Services
        /\ split = [request |-> r, service |-> "Lambda", from |-> split.from, to |-> split.to]
        /\ split.to = EndOf("Lambda", split.from, start)
        /\ UNCHANGED <<range, group, lambda>>
    BY SplitTyped, Two DEF SplitWindow, SplitLast, lambdaVars
  <1>2. Splitting(r, "Lambda") /\ LoopAt(r)
    BY <1>1 DEF Splitting, GroupsSoFar
  <1>3. /\ group[r] \in 1..MaxGroups /\ lambda[r] = "start"
        /\ ws \in Seq(Window) /\ n \in Nat /\ n <= MaxWindows /\ MaxWindows \in Nat
        /\ query \in [Queries -> QueryStates]
        /\ windows \in [Requests -> [Services -> Seq(Window)]]
    <2>1. group[r] \in 1..MaxGroups /\ lambda[r] = "start"
      BY <1>1, <1>2, SplitGroup
    <2>2. /\ query \in [Queries -> QueryStates]
          /\ windows \in [Requests -> [Services -> Seq(Window)]]
      BY DEF TInv, TypeOK, QueryStates
    <2>3. ws \in Seq(Window)
      BY <1>1, <2>2
    <2>4. n <= MaxWindows
      BY <1>1 DEF TInv, Bounded
    <2>5. n \in Nat /\ MaxWindows \in Nat
      BY <2>3, Numbers
    <2> QED
      BY <2>1, <2>2, <2>3, <2>4, <2>5
  <1>4. PICK window :
          /\ Push(r, "Lambda", window) \/ PushTooMany(r, "Lambda")
          /\ window.from = split.from
    BY <1>1 DEF SplitWindow, SplitLast
  <1>5. \/ /\ n < MaxWindows
           /\ windows'[r]["Lambda"] = Append(ws, window)
           /\ query' = [query EXCEPT ![here] = "ask"]
        \/ n = MaxWindows /\ windows'[r]["Lambda"] = ws /\ query' = query
    <2>1. CASE Push(r, "Lambda", window)
      <3>1. n + 1 <= MaxWindows /\ windows' = [windows EXCEPT ![r]["Lambda"] = Append(@, window)]
            /\ query' = [query EXCEPT ![here] = "ask"]
        BY <2>1 DEF Push
      <3> QED
        BY <1>1, <1>3, <3>1
    <2>2. CASE PushTooMany(r, "Lambda")
      BY <2>2 DEF PushTooMany
    <2> QED
      BY <1>4, <2>1, <2>2
  <1>6. Mine(r)' = Mine(r)
    BY DEF Mine, Queries, Groups
  <1>7. \A m : Reaches(r, m)' <=> Reaches(r, m)
    BY <1>1 DEF Reaches, Path, EndOf, SetDate, DayOfMonth, Interval
  <1>8. n < MaxWindows => Path(r, n + 1, Begun(r)) /\ Begun(r)[n + 1] = split.from
    BY <1>2, <1>3 DEF LoopAt, Begun
  <1>9. ASSUME NEW q \in Mine(r)
        PROVE /\ query'[q] = query[q] \/ (q = here /\ n < MaxWindows /\ query'[q] = "ask")
              /\ query[q] # "none" => query'[q] # "none"
    BY <1>3, <1>5 DEF Mine
  <1>10. ASSUME NEW q \in Mine(r)
         PROVE /\ query'[q] \in {"ask", "start"} => q[2] = group[r]
               /\ query'[q] # "none" => Reaches(r, q[3])
    <2>1. CASE query'[q] = query[q]
      BY <2>1 DEF GroupsSoFar
    <2>2. CASE q = here /\ n < MaxWindows
      BY <1>8, <2>2 DEF Reaches
    <2> QED
      BY <1>9, <2>1, <2>2
  <1>11. ASSUME NEW i \in 1..n PROVE query'[<<r, group[r], i>>] # "none"
    <2>1. i \in 1..MaxWindows
      BY <1>3
    <2>2. <<r, group[r], i>> \in Mine(r) /\ query[<<r, group[r], i>>] # "none"
      BY <1>1, <1>2, <1>3, <2>1, QueryOf DEF LoopAt
    <2> QED
      BY <1>9, <2>2
  <1>12. n < MaxWindows => query'[here] = "ask"
    <2>1. n < MaxWindows => n + 1 \in 1..MaxWindows
      BY <1>3
    <2> QED
      BY <1>1, <1>3, <1>5, <2>1, QueryOf
  <1>13. CASE SplitWindow
    <2>1. split' = [request |-> r, service |-> "Lambda", from |-> split.to, to |-> to]
          /\ split.to < range[r].end
      BY <1>1, <1>13 DEF SplitWindow, NextStart, EndOf
    <2> HIDE DEF to
    <2>2. Splitting(r, "Lambda")' /\ split'.from = split.to
      BY <2>1, LoopRuns DEF Splitting
    <2>3. LoopAt(r)'
      <3>1. CASE n < MaxWindows
        <4> DEFINE vs == windows'[r]["Lambda"]
        <4>1. /\ Len(vs) = n + 1 /\ vs[n + 1].from = split.from
              /\ \A i \in 1..n : vs[i] = ws[i]
          <5>1. vs = Append(ws, window) /\ IsSeq(ws)
            BY <1>1, <1>5, <3>1 DEF WInv, WindowsSoFar
          <5> HIDE DEF vs, ws
          <5> QED
            BY <1>4, <5>1, AppendFacts
        <4>2. ASSUME NEW i \in 1..n + 1 PROVE query'[<<r, group[r], i>>] # "none"
          <5>1. i \in 1..n \/ i = n + 1
            BY <1>3
          <5>2. i \in 1..n => query'[<<r, group[r], i>>] # "none"
            BY <1>11
          <5>3. i = n + 1 => query'[<<r, group[r], i>>] # "none"
            BY <1>12, <3>1
          <5> QED
            BY <5>1, <5>2, <5>3
        <4>3. \A i \in 1..n + 1 : Begun(r)'[i] = Begun(r)[i]
          <5> SUFFICES ASSUME NEW i \in 1..n + 1 PROVE Begun(r)'[i] = Begun(r)[i]
            OBVIOUS
          <5>1. i \in Nat /\ (i <= n \/ i = n + 1)
            BY <1>3
          <5> HIDE DEF ws, vs, n
          <5>2. Begun(r)'[i] = vs[i].from
            BY <1>3, <4>1, <5>1 DEF Begun, vs
          <5>3. Begun(r)[i] = IF i <= n THEN ws[i].from ELSE split.from
            BY <5>1 DEF Begun, ws, n
          <5> QED
            BY <1>3, <4>1, <5>1, <5>2, <5>3
        <4>4. Begun(r)'[n + 2] = split.to
          BY <1>3, <2>2, <4>1 DEF Begun
        <4> PICK b, c : b = Begun(r) /\ c = Begun(r)'
          OBVIOUS
        <4>5. Path(r, n + 1, b) /\ b[n + 1] = split.from /\ n + 1 \in Nat \ {0}
          BY <1>3, <1>8, <3>1
        <4>6. c[(n + 1) + 1] = split.to
          <5>1. (n + 1) + 1 = n + 2
            BY <1>3
          <5> QED
            BY <4>4, <5>1
        <4> HIDE DEF vs, n, ws, start
        <4>7. Path(r, (n + 1) + 1, c)
          <5>1. \A i \in 1..n + 1 : c[i] = b[i]
            BY <4>3
          <5>2. c[(n + 1) + 1] = EndOf("Lambda", b[n + 1], range[r].start)
                /\ c[(n + 1) + 1] < range[r].end
            BY <1>1, <2>1, <4>5, <4>6 DEF start
          <5> QED
            BY <4>5, <5>1, <5>2, PathGrows
        <4>8. Path(r, Len(windows[r]["Lambda"]) + 1, Begun(r))'
          BY <1>1, <4>1, <4>7 DEF Path, EndOf, SetDate, DayOfMonth, Interval, vs
        <4> QED
          BY <1>1, <4>1, <4>2, <4>8 DEF LoopAt, vs
      <3>2. CASE n = MaxWindows
        BY <1>1, <1>3, <1>5, <1>11, <3>2 DEF LoopAt
      <3> QED
        BY <1>5, <3>1, <3>2
    <2>4. ASSUME group[r] # 1, NEW m \in 1..MaxWindows, Reaches(r, m)
          PROVE query'[<<r, 1, m>>] # "none"
      <3>1. <<r, 1, m>> \in Mine(r)
        <4>1. 1 \in 1..MaxGroups
          BY <1>3, Numbers
        <4> QED
          BY <1>1, <2>4, <4>1, QueryOf
      <3> QED
        BY <1>3, <1>9, <2>4, <3>1 DEF GroupsSoFar
    <2> QED
      BY <1>1, <1>3, <1>6, <1>7, <1>10, <2>2, <2>3, <2>4 DEF GroupsSoFar
  <1>14. CASE SplitLast
    <2>1. split' = None /\ split.to >= range[r].end
      BY <1>14 DEF SplitLast
    <2>2. ~Splitting(r, "Lambda")'
      BY <2>1 DEF Splitting, Free, None
    <2>3. ASSUME NEW m \in 1..MaxWindows, Reaches(r, m)
          PROVE query'[<<r, 1, m>>] # "none"
      <3>1. <<r, 1, m>> \in Mine(r)
        <4>1. 1 \in 1..MaxGroups
          BY <1>3, Numbers
        <4> QED
          BY <1>1, <2>3, <4>1, QueryOf
      <3>2. CASE group[r] # 1
        BY <1>3, <1>9, <2>3, <3>1, <3>2 DEF GroupsSoFar
      <3>3. CASE group[r] = 1 /\ (m <= n \/ (m = n + 1 /\ n < MaxWindows))
        <4>1. m \in 1..n \/ (m = n + 1 /\ n < MaxWindows)
          BY <1>3, <3>3
        <4>2. m \in 1..n => query'[<<r, group[r], m>>] # "none"
          BY <1>11
        <4>3. m = n + 1 /\ n < MaxWindows => query'[<<r, group[r], m>>] # "none"
          BY <1>12
        <4> QED
          BY <3>3, <4>1, <4>2, <4>3
      <3>4. CASE m > n + 1 /\ n < MaxWindows
        <4>1. PICK v : Path(r, m, v)
          BY <2>3 DEF Reaches
        <4>2. Path(r, n + 1, v)
          <5>1. \A i \in 1..(n + 1) - 1 : i \in 1..m - 1
            BY <1>3, <3>4
          <5> QED
            BY <4>1, <5>1 DEF Path
        <4>3. v[n + 1] = split.from
          <5>1. n + 1 \in Nat /\ n + 1 \in 1..n + 1
            BY <1>3
          <5> HIDE DEF n
          <5>2. v[n + 1] = Begun(r)[n + 1]
            BY <1>8, <3>4, <4>2, <5>1, PathIsOne
          <5> QED
            BY <1>8, <3>4, <5>2
        <4>4. n + 1 \in 1..m - 1
          BY <1>3, <3>4
        <4>5. v[n + 2] = split.to /\ v[n + 2] < range[r].end
          <5>1. (n + 1) + 1 = n + 2
            BY <1>3
          <5> HIDE DEF n
          <5> QED
            BY <1>1, <4>1, <4>3, <4>4, <5>1 DEF Path
        <4>6. split.to \in Nat /\ range[r].end \in Int
          BY <1>1, SplitTyped, Numbers
        <4> QED
          BY <2>1, <4>5, <4>6
      <3> QED
        BY <1>3, <1>5, <3>2, <3>3, <3>4
    <2> QED
      BY <1>1, <1>3, <1>6, <1>7, <1>10, <2>2, <2>3 DEF GroupsSoFar
  <1> QED
    BY <1>13, <1>14

\* Nothing is split yet.
LEMMA InitGInv == Init => GInv
  <1> SUFFICES ASSUME Init, NEW r \in Requests PROVE GroupsSoFar(r)
    BY DEF GInv
  <1>1. \A q \in Mine(r) : query[q] = "none"
    BY DEF Init, Mine
  <1>2. lambda[r] = "off" /\ group[r] = 0 /\ Free
    BY DEF Init, Free
  <1> QED
    BY <1>1, <1>2 DEF GroupsSoFar, Splitting

\* Steps that touch no group and no window.
LEMMA QuietGroups ==
  ASSUME TInv, QInv, GInv, UNCHANGED <<range, group, windows, split>>,
         \A r \in Requests : lambda'[r] = "collect" => lambda[r] = "collect",
         \A q \in Queries :
           /\ query'[q] = "none" <=> query[q] = "none"
           /\ query'[q] \in {"ask", "start"} => query[q] \in {"ask", "start"}
  PROVE GInv'
  <1> SUFFICES ASSUME NEW r \in Requests PROVE GroupsSoFar(r)'
    BY DEF GInv
  <1>1. Splitting(r, "Lambda")' <=> Splitting(r, "Lambda")
    BY DEF Splitting, Free
  <1>2. Mine(r) \subseteq Queries
    BY DEF Mine
  <1> QED
    BY <1>1, <1>2, SameGroups DEF GInv

\* A step of one request that is not at its loop afterwards, or whose loop it is.
LEMMA OneGroups ==
  ASSUME TInv, QInv, GInv, NEW r \in Requests, GroupsSoFar(r)',
         \A q \in Requests \ {r} :
           /\ range'[q] = range[q] /\ group'[q] = group[q] /\ lambda'[q] = lambda[q]
           /\ windows'[q]["Lambda"] = windows[q]["Lambda"]
           /\ ~Splitting(q, "Lambda") /\ ~Splitting(q, "Lambda")',
         \A q \in Queries : q[1] # r => query'[q] = query[q]
  PROVE GInv'
  <1> SUFFICES ASSUME NEW q \in Requests, q # r PROVE GroupsSoFar(q)'
    BY DEF GInv
  <1>1. \A x \in Mine(q) : query'[x] = query[x]
    BY DEF Mine
  <1> QED
    BY <1>1, SameGroups DEF GInv

\* The loop of either service, for all requests.
LEMMA LoopGroups ==
  ASSUME WInv, TInv, QInv, GInv, SplitWindow \/ SplitLast
  PROVE GInv'
  <1> PICK r, s : r = split.request /\ s = split.service
    OBVIOUS
  <1>1. /\ ~Free /\ r \in Requests /\ s \in Services
        /\ split = [request |-> r, service |-> s, from |-> split.from, to |-> split.to]
        /\ UNCHANGED <<range, group, lambda>>
    BY SplitTyped DEF SplitWindow, SplitLast, lambdaVars
  <1>2. PICK window : Push(r, s, window) \/ PushTooMany(r, s)
    BY DEF SplitWindow, SplitLast
  <1>3. /\ windows \in [Requests -> [Services -> Seq(Window)]]
        /\ query \in [Queries -> QueryStates]
    BY DEF TInv, TypeOK, QueryStates
  <1>4. \A q \in Requests, t \in Services : Splitting(q, t)' => q = r /\ t = s
    <2>1. CASE SplitWindow
      <3>1. split'.request = r /\ split'.service = s
        BY <1>1, <2>1 DEF SplitWindow
      <3> QED
        BY <3>1 DEF Splitting
    <2>2. CASE SplitLast
      BY <2>2 DEF SplitLast, Splitting, Free, None
    <2> QED
      BY <2>1, <2>2
  <1>5. \A q, t : Splitting(q, t) => q = r /\ t = s
    BY DEF Splitting
  <1>6. "Lambda" \in Services /\ Services = {"EC2", "Lambda"}
    BY Two
  <1>7. CASE s = "Lambda"
    <2>1. GroupsSoFar(r)'
      BY <1>1, <1>7, SplitGroups DEF GInv
    <2>2. \A q \in Requests \ {r} :
            /\ windows'[q]["Lambda"] = windows[q]["Lambda"]
            /\ ~Splitting(q, "Lambda") /\ ~Splitting(q, "Lambda")'
      BY <1>2, <1>3, <1>4, <1>5, <1>6 DEF Push, PushTooMany
    <2>3. \A q \in Queries : q[1] # r => query'[q] = query[q]
      <3>1. \/ query' = query
            \/ query' = [query EXCEPT ![<<r, group[r], Len(windows[r][s]) + 1>>] = "ask"]
        BY <1>2 DEF Push, PushTooMany
      <3>2. \A q \in Queries : q[1] # r => q # <<r, group[r], Len(windows[r][s]) + 1>>
        OBVIOUS
      <3> QED
        BY <1>3, <3>1, <3>2
    <2> QED
      BY <1>1, <2>1, <2>2, <2>3, OneGroups
  <1>8. CASE s = "EC2"
    <2>1. query' = query
      BY <1>2, <1>8 DEF Push, PushTooMany
    <2>2. ASSUME NEW q \in Requests PROVE GroupsSoFar(q)'
      <3>1. windows'[q]["Lambda"] = windows[q]["Lambda"]
        <4>1. \/ windows' = windows
              \/ windows' = [windows EXCEPT ![r][s] = Append(@, window)]
          BY <1>2 DEF Push, PushTooMany
        <4>2. r \in Requests /\ "Lambda" \in Services /\ "Lambda" # s /\ s \in Services
          BY <1>1, <1>6, <1>8
        <4> QED
          BY <4>1, <4>2 DEF WInv, Functional
      <3>2. ~Splitting(q, "Lambda") /\ ~Splitting(q, "Lambda")'
        BY <1>4, <1>5, <1>6, <1>8
      <3> QED
        BY <1>1, <2>1, <3>1, <3>2, SameGroups DEF GInv
    <2> QED
      BY <2>2 DEF GInv
  <1> QED
    BY <1>1, <1>6, <1>7, <1>8

\* A region is entered.
LEMMA RegionGroups ==
  ASSUME WInv, TInv, QInv, GInv, NEW r \in Requests,
         NextRegion(r) \/ \E x \in Ranges[r] : Estimate(r, x)
  PROVE GInv'
  <1>1. PICK n, x : Free /\ EnterRegion(r, n, x) /\ range' = [range EXCEPT ![r] = x]
    <2>1. CASE NextRegion(r)
      <3>1. range' = [range EXCEPT ![r] = range[r]]
        BY <2>1 DEF NextRegion, WInv, Functional
      <3> QED
        BY <2>1, <3>1 DEF NextRegion
    <2>2. CASE \E x \in Ranges[r] : Estimate(r, x)
      BY <2>2 DEF Estimate
    <2> QED
      BY <2>1, <2>2
  <1>2. GroupsSoFar(r)'
    BY <1>1, GroupsReset
  <1>3. \A q \in Requests \ {r} :
          /\ range'[q] = range[q] /\ group'[q] = group[q] /\ lambda'[q] = lambda[q]
          /\ windows'[q] = windows[q]
    <2>1. windows \in [Requests -> [Services -> Seq(Window)]]
      BY DEF TInv, TypeOK
    <2> QED
      BY <1>1, <2>1, RestFromInv DEF EnterRegion, RestTyped, WInv, Functional
  <1>4. \A q \in Requests \ {r} : ~Splitting(q, "Lambda") /\ ~Splitting(q, "Lambda")'
    <2>1. \A q, t : Splitting(q, t)' => q = r
      BY <1>1, LoopIsOne DEF EnterRegion
    <2> QED
      BY <1>1, <2>1 DEF Splitting
  <1>5. \A q \in Queries : q[1] # r => query'[q] = query[q]
    BY <1>1 DEF EnterRegion
  <1> QED
    BY <1>2, <1>3, <1>4, <1>5, OneGroups

\* A group is started.
LEMMA StartGroups ==
  ASSUME WInv, TInv, QInv, GInv, NEW r \in Requests,
         NextGroup(r) \/ \E n \in 0..setup.groups : n # 0 /\ GroupNames(r, n)
  PROVE GInv'
  <1>1. /\ Free /\ UNCHANGED <<range, query>>
        /\ split' = Loop(r, "Lambda", range[r].start)
        /\ \/ /\ lambda[r] = "start" /\ lambda' = lambda
              /\ group' = [group EXCEPT ![r] = group[r] + 1]
              /\ windows' = [windows EXCEPT ![r]["Lambda"] = <<>>]
              /\ \A q \in OfGroup(r, group[r]) : query[q] \notin {"ask", "start"}
           \/ /\ lambda[r] = "names" /\ lambda' = [lambda EXCEPT ![r] = "start"]
              /\ group' = [group EXCEPT ![r] = 1] /\ windows' = windows
    BY DEF NextGroup, GroupStarted, GroupNames, queryVars
  <1>2. /\ windows \in [Requests -> [Services -> Seq(Window)]] /\ "Lambda" \in Services
        /\ RestTyped /\ ngroups[r] \in 0..MaxGroups
    BY RestFromInv, Two DEF TInv, TypeOK
  <1>3. /\ windows'[r]["Lambda"] = <<>> /\ lambda'[r] = "start"
        /\ \A q \in Requests \ {r} :
             windows'[q] = windows[q] /\ group'[q] = group[q] /\ lambda'[q] = lambda[q]
    <2>1. lambda[r] = "names" => windows[r]["Lambda"] = <<>>
      BY DEF WInv, NoWindowsYet
    <2> QED
      BY <1>1, <1>2, <2>1 DEF RestTyped
  <1>4. \A q : ~Splitting(q, "Lambda")
    BY <1>1 DEF Splitting
  <1>5. \A q \in Requests \ {r} : ~Splitting(q, "Lambda")'
    BY <1>1, LoopIsOne
  <1>6. \/ group'[r] = 1 /\ \A q \in Mine(r) : query[q] = "none"
        \/ /\ group[r] \in 1..MaxGroups /\ group'[r] = group[r] + 1
           /\ \A q \in OfGroup(r, group[r]) : query[q] \notin {"ask", "start"}
    <2>1. CASE lambda[r] = "start"
      <3>1. group[r] \in 1..ngroups[r]
        BY <2>1 DEF TInv, Bounded
      <3>2. group[r] \in 1..MaxGroups
        BY <1>2, <3>1, Numbers
      <3> QED
        BY <1>1, <1>2, <2>1, <3>2 DEF RestTyped
    <2>2. CASE lambda[r] = "names"
      <3>1. \A q \in Mine(r) : query[q] = "none"
        BY <2>2 DEF QInv, QueriesSoFar
      <3> QED
        BY <1>1, <1>2, <2>2, <3>1 DEF RestTyped
    <2> QED
      BY <1>1, <2>1, <2>2
  <1>7. GroupsSoFar(r)'
    BY <1>1, <1>3, <1>4, <1>6, GroupStarts DEF GInv
  <1> QED
    BY <1>1, <1>3, <1>4, <1>5, <1>7, OneGroups

\* Results of a group are collected.
LEMMA CollectGroups ==
  ASSUME TInv, QInv, GInv, NEW r \in Requests, CollectFirst(r) \/ CollectNext(r)
  PROVE GInv'
  <1>1. /\ Free /\ UNCHANGED <<range, query, windows, split>>
        /\ \A q \in Requests \ {r} : group'[q] = group[q] /\ lambda'[q] = lambda[q]
    BY RestFromInv DEF CollectFirst, CollectNext, GroupStarted, GroupCollected, Collect,
                       RestTyped
  <1>2. \A q : ~Splitting(q, "Lambda") /\ ~Splitting(q, "Lambda")'
    BY <1>1 DEF Splitting, Free
  <1>3. GroupsSoFar(r)'
    BY GroupsCollect DEF GInv
  <1> QED
    BY <1>1, <1>2, <1>3, OneGroups

\* Every step keeps it.
LEMMA NextGInv == WInv /\ TInv /\ QInv /\ GInv /\ [Next]_vars => GInv'
  <1> SUFFICES ASSUME WInv, TInv, QInv, GInv, [Next]_vars PROVE GInv'
    OBVIOUS
  <1>1. CASE UNCHANGED vars \/ OtherStarts \/ OtherFinishes
    BY <1>1, QuietGroups DEF vars, OtherStarts, OtherFinishes, lambdaVars, queryVars
  <1>2. CASE SplitWindow \/ SplitLast
    BY <1>2, LoopGroups
  <1>3. ASSUME NEW r \in Requests, NextRegion(r) \/ \E x \in Ranges[r] : Estimate(r, x)
        PROVE GInv'
    BY <1>3, RegionGroups
  <1>4. ASSUME NEW r \in Requests, NextGroup(r) \/ \E n \in 0..setup.groups : GroupNames(r, n)
        PROVE GInv'
    <2>1. CASE GroupNames(r, 0)
      <3>1. /\ UNCHANGED <<range, group, windows, split, query>>
            /\ lambda' = [lambda EXCEPT ![r] = "done"]
        BY <2>1 DEF GroupNames, queryVars
      <3>2. \A q \in Requests : lambda'[q] = "collect" => lambda[q] = "collect"
        BY <3>1, RestFromInv DEF RestTyped
      <3> QED
        BY <3>1, <3>2, QuietGroups
    <2>2. CASE NextGroup(r) \/ \E n \in 0..setup.groups : n # 0 /\ GroupNames(r, n)
      BY <2>2, StartGroups
    <2> QED
      BY <1>4, <2>1, <2>2
  <1>5. ASSUME NEW r \in Requests, CollectFirst(r) \/ CollectNext(r) PROVE GInv'
    BY <1>5, CollectGroups
  <1>6. ASSUME NEW r \in Requests,
               \/ ReadMetrics(r) \/ ReadMetricsFails(r) \/ StartAthena(r) \/ PollFailed(r)
               \/ PollFails(r) \/ PollSucceeded(r) \/ ReadPage(r) \/ ReadPageFails(r)
               \/ FinishAthena(r) \/ AnswerServices(r) \/ NamesFail(r) \/ CollectedAll(r)
        PROVE GInv'
    <2>1. /\ UNCHANGED <<range, group, windows, split, query>>
          /\ \/ lambda' = lambda
             \/ \E label \in {"failed", "done"} : lambda' = [lambda EXCEPT ![r] = label]
      BY <1>6 DEF ReadMetrics, ReadMetricsFails, StartAthena, PollFailed, PollFails,
            PollSucceeded, ReadPage, ReadPageFails, FinishAthena, AnswerServices, NamesFail,
            CollectedAll, lambdaVars, queryVars
    <2>2. \A q \in Requests : lambda'[q] = "collect" => lambda[q] = "collect"
      BY <2>1, RestFromInv DEF RestTyped
    <2> QED
      BY <2>1, <2>2, QuietGroups
  <1>7. ASSUME NEW q \in Queries,
               ProcessQuery(q) \/ CountFails(q) \/ NoResult(q) \/ RunScheduled(q) \/ FinishQuery(q)
        PROVE GInv'
    <2>1. /\ UNCHANGED <<range, group, windows, split>>
          /\ lambda' = lambda \/ lambda' = [lambda EXCEPT ![q[1]] = "failed"]
          /\ \/ query' = query
             \/ query[q] = "ask" /\ query' = [query EXCEPT ![q] = "start"]
             \/ /\ query[q] # "none"
                /\ \E state \in Started \cup {"refused"} : query' = [query EXCEPT ![q] = state]
      BY <1>7 DEF ProcessQuery, CountRunning, StartQuery, StartRefused, GetResult, CountFails,
            NoResult, RunScheduled, FinishQuery, Refuse, Started, lambdaVars
    <2>2. \A r \in Requests : lambda'[r] = "collect" => lambda[r] = "collect"
      BY <2>1, RestFromInv DEF RestTyped
    <2>3. \A x \in Queries :
            /\ query'[x] = "none" <=> query[x] = "none"
            /\ query'[x] \in {"ask", "start"} => query[x] \in {"ask", "start"}
      BY <2>1, RestFromInv DEF RestTyped, Started
    <2> QED
      BY <2>1, <2>2, <2>3, QuietGroups
  <1> QED
    BY <1>1, <1>2, <1>3, <1>4, <1>5, <1>6, <1>7 DEF Next, Process

\* Every window of a group is one of the first group.
LEMMA GroupsAlike ==
  ASSUME TInv, QInv, GInv, NEW q \in Queries, query[q] # "none"
  PROVE <<q[1], 1, q[3]>> \in Queries /\ query[<<q[1], 1, q[3]>>] # "none"
  <1> DEFINE r == q[1]
  <1>1. /\ r \in Requests /\ q \in Mine(r) /\ q[2] \in 1..MaxGroups
        /\ q[3] \in 1..MaxWindows /\ q = <<r, q[2], q[3]>>
    BY QueryParts, WindowOf
  <1> HIDE DEF r
  <1>2. <<r, 1, q[3]>> \in Queries
    <2>1. 1 \in 1..MaxGroups
      BY <1>1, Numbers
    <2> QED
      BY <1>1, <2>1, QueryOf
  <1>3. CASE q[2] = 1
    BY <1>1, <1>2, <1>3 DEF r
  <1>4. CASE q[2] # 1
    <2>1. Reaches(r, q[3]) /\ group[r] # 0
      BY <1>1 DEF GInv, GroupsSoFar
    <2>2. ~(Splitting(r, "Lambda") /\ group[r] = 1)
      <3> SUFFICES ASSUME Splitting(r, "Lambda"), group[r] = 1 PROVE FALSE
        OBVIOUS
      <3>1. lambda[r] = "start"
        BY <1>1 DEF QInv, QueriesSoFar
      <3>2. q[2] > 1
        BY <1>1, <1>4, Numbers
      <3> QED
        BY <1>1, <3>1, <3>2 DEF QInv, QueriesSoFar
    <2> QED
      BY <1>1, <1>2, <2>1, <2>2 DEF GInv, GroupsSoFar, r
  <1> QED
    BY <1>3, <1>4

\* What requests have seen a place for or run, and their windows at once.
OnTheWay(R) == {q \in Queries : q[1] \in R /\ query[q] \in {"start", "Running"}}
OfFirst(R) == {q \in Queries : q[1] \in R /\ q[2] = 1 /\ query[q] # "none"}

\* Whichever requests are taken: what they run, and what has seen a free place, is
\* bounded by their windows at once.
PlacesInv ==
  ~uncounted =>
    /\ \A q \in Queries : query[q] # "Scheduled"
    /\ \A R \in SUBSET Requests :
         Cardinality(OnTheWay(R)) <= MaxConcurrent - 1 + Cardinality(OfFirst(R))

\* There are finitely many queries.
LEMMA FiniteQueries == IsFiniteSet(Queries) /\ \A S \in SUBSET Queries :
                         IsFiniteSet(S) /\ Cardinality(S) \in Nat
  <1> DEFINE W == 1..MaxWindows
             P == Requests \X (Groups \X W)
             f == [p \in P |-> <<p[1], p[2][1], p[2][2]>>]
  <1>1. IsFiniteSet(Groups) /\ IsFiniteSet(W) /\ IsFiniteSet(Requests)
    BY FS_Interval, Numbers, AwsAssumption DEF Groups
  <1>2. IsFiniteSet(Groups \X W)
    BY <1>1, FS_Product
  <1> HIDE DEF W
  <1>3. IsFiniteSet(P)
    BY <1>1, <1>2, FS_Product
  <1>4. f \in Surjection(P, Queries)
    <2>1. ASSUME NEW p \in P PROVE f[p] \in Queries
      BY DEF Queries, W
    <2>2. ASSUME NEW q \in Queries PROVE \E p \in P : f[p] = q
      <3>1. <<q[1], <<q[2], q[3]>>>> \in P /\ q = <<q[1], q[2], q[3]>>
        BY DEF Queries, W
      <3> QED
        BY <3>1
    <2> QED
      BY <2>1, <2>2 DEF Surjection
  <1>5. IsFiniteSet(Queries)
    BY <1>3, <1>4, FS_Surjection
  <1> QED
    BY <1>5, FS_Subset, FS_CardinalityType

\* Nothing runs yet.
LEMMA InitPlaces == Init => PlacesInv
  <1> SUFFICES ASSUME Init PROVE PlacesInv
    OBVIOUS
  <1>1. \A q \in Queries : query[q] = "none"
    BY DEF Init
  <1>2. \A R \in SUBSET Requests : OnTheWay(R) = {} /\ OfFirst(R) = {}
    BY <1>1 DEF OnTheWay, OfFirst
  <1>3. Cardinality({}) = 0 /\ MaxConcurrent \in Nat \ {0}
    BY FS_EmptySet, AwsAssumption
  <1>4. \A R \in SUBSET Requests :
          Cardinality(OnTheWay(R)) <= MaxConcurrent - 1 + Cardinality(OfFirst(R))
    <2> SUFFICES ASSUME NEW R \in SUBSET Requests
                 PROVE Cardinality(OnTheWay(R)) <= MaxConcurrent - 1 + Cardinality(OfFirst(R))
      OBVIOUS
    <2>1. Cardinality(OnTheWay(R)) = 0 /\ Cardinality(OfFirst(R)) = 0
      BY <1>2, <1>3
    <2> QED
      BY <1>3, <2>1
  <1> QED
    BY <1>1, <1>4 DEF PlacesInv

\* Nothing more is on the way, for these requests.
LEMMA NoMorePlaces ==
  ASSUME PlacesInv, ~uncounted, NEW R \in SUBSET Requests, NEW U \in SUBSET Requests,
         OnTheWay(R)' \subseteq OnTheWay(U), OfFirst(U) \subseteq OfFirst(R)'
  PROVE (Cardinality(OnTheWay(R)) <= MaxConcurrent - 1 + Cardinality(OfFirst(R)))'
  <1>1. Cardinality(OnTheWay(U)) <= MaxConcurrent - 1 + Cardinality(OfFirst(U))
    BY DEF PlacesInv
  <1>2. /\ OnTheWay(U) \in SUBSET Queries /\ OfFirst(U) \in SUBSET Queries
        /\ OnTheWay(R)' \in SUBSET Queries /\ OfFirst(R)' \in SUBSET Queries
    BY DEF OnTheWay, OfFirst, Queries, Groups
  <1>3. /\ Cardinality(OnTheWay(R)') <= Cardinality(OnTheWay(U))
        /\ Cardinality(OfFirst(U)) <= Cardinality(OfFirst(R)')
    BY <1>2, FiniteQueries, FS_Subset
  <1>4. /\ Cardinality(OnTheWay(R)') \in Nat /\ Cardinality(OnTheWay(U)) \in Nat
        /\ Cardinality(OfFirst(U)) \in Nat /\ Cardinality(OfFirst(R)') \in Nat
        /\ MaxConcurrent \in Nat
    BY <1>2, FiniteQueries, AwsAssumption
  <1>5. Cardinality(OnTheWay(R)') <= MaxConcurrent - 1 + Cardinality(OfFirst(R)')
    BY <1>1, <1>3, <1>4
  <1> QED
    BY <1>5

\* A query that has seen a free place: what runs is less than the limit, and what
\* is about to start has a window of the first group for each.
LEMMA PlaceSeen ==
  ASSUME WInv, TInv, QInv, GInv, PlacesInv, NEW q \in Queries, CountRunning(q)
  PROVE PlacesInv'
  <1> SUFFICES ASSUME ~uncounted PROVE PlacesInv'
    BY DEF PlacesInv, CountRunning
  <1>1. /\ query[q] = "ask" /\ query' = [query EXCEPT ![q] = "start"]
        /\ Cardinality(Running) + others < MaxConcurrent
        /\ UNCHANGED group
    BY DEF CountRunning, HasPlace, lambdaVars
  <1>2. query'[q] = "start" /\ \A x \in Queries \ {q} : query'[x] = query[x]
    BY <1>1, RestFromInv DEF RestTyped
  <1>3. Queries' = Queries
    BY DEF Queries, Groups
  <1>4. ASSUME NEW R \in SUBSET Requests
        PROVE (Cardinality(OnTheWay(R)) <= MaxConcurrent - 1 + Cardinality(OfFirst(R)))'
    <2>1. OfFirst(R)' = OfFirst(R)
      BY <1>1, <1>2, <1>3 DEF OfFirst
    <2> DEFINE S == {x \in Queries : x[1] \in R /\ query'[x] = "start"}
               f == [x \in S |-> <<x[1], 1, x[3]>>]
               N == OfFirst(R)
    <2>2. f \in Injection(S, N)
      <3>1. ASSUME NEW x \in S PROVE f[x] \in N
        <4>1. x \in Queries /\ x[1] \in R /\ query[x] # "none"
          BY <1>1, <1>2
        <4> QED
          BY <4>1, GroupsAlike DEF OfFirst
      <3>2. ASSUME NEW x \in S, NEW y \in S, f[x] = f[y] PROVE x = y
        <4>1. x[1] = y[1] /\ x[3] = y[3]
          BY <3>2
        <4>2. /\ query[x] \in {"ask", "start"} /\ query[y] \in {"ask", "start"}
              /\ x \in Queries /\ y \in Queries
          BY <1>1, <1>2
        <4>3. x[2] = group[x[1]] /\ y[2] = group[y[1]]
          BY <4>2, QueryParts DEF GInv, GroupsSoFar
        <4> QED
          BY <4>1, <4>2, <4>3, WindowOf
      <3> QED
        BY <3>1, <3>2 DEF Injection, IsInjective
    <2>3. N \in SUBSET Queries /\ S \in SUBSET Queries /\ Running \in SUBSET Queries
      BY DEF OfFirst, Running
    <2>4. Cardinality(S) <= Cardinality(N)
      <3> HIDE DEF S, f, N
      <3> QED
        BY <2>2, <2>3, FiniteQueries, FS_Injection
    <2>5. OnTheWay(R)' \subseteq Running \cup S
      BY <1>2, <1>3 DEF OnTheWay, Running
    <2>6. /\ IsFiniteSet(Running \cup S)
          /\ Cardinality(Running \cup S) <= Cardinality(Running) + Cardinality(S)
      <3> HIDE DEF S
      <3>1. Running \cap S \in SUBSET Queries
        BY <2>3
      <3>2. /\ Cardinality(Running \cap S) \in Nat /\ Cardinality(Running) \in Nat
            /\ Cardinality(S) \in Nat
        BY <2>3, <3>1, FiniteQueries
      <3>3. /\ IsFiniteSet(Running \cup S)
            /\ Cardinality(Running \cup S) =
                 Cardinality(Running) + Cardinality(S) - Cardinality(Running \cap S)
        BY <2>3, FiniteQueries, FS_Union
      <3> QED
        BY <3>2, <3>3
    <2>7. /\ Cardinality(OnTheWay(R)') <= Cardinality(Running \cup S)
          /\ Cardinality(OnTheWay(R)') \in Nat
      BY <2>5, <2>6, FS_Subset, FS_CardinalityType
    <2>8. /\ Cardinality(Running \cup S) \in Nat /\ Cardinality(Running) \in Nat
          /\ Cardinality(S) \in Nat /\ Cardinality(N) \in Nat
          /\ others \in Nat /\ MaxConcurrent \in Nat
      <3> HIDE DEF S, N
      <3> QED
        BY <2>3, <2>6, FiniteQueries, FS_CardinalityType, RestFromInv, Numbers, AwsAssumption
           DEF RestTyped
    <2> HIDE DEF S, N
    <2>9. Cardinality(OnTheWay(R)') <= MaxConcurrent - 1 + Cardinality(N)
      BY <1>1, <2>4, <2>6, <2>7, <2>8
    <2> QED
      BY <2>1, <2>9 DEF N
  <1>5. \A x \in Queries : query'[x] # "Scheduled"
    BY <1>2 DEF PlacesInv
  <1> QED
    BY <1>3, <1>4, <1>5 DEF PlacesInv

\* Steps after which no other query is on the way, and no window is forgotten.
LEMMA QuietPlaces ==
  ASSUME PlacesInv, ~uncounted' => ~uncounted,
         \A q \in Queries : ~uncounted' =>
           /\ query'[q] \in {"start", "Running"} => query[q] \in {"start", "Running"}
           /\ query'[q] = "Scheduled" => query[q] = "Scheduled"
           /\ query[q] # "none" => query'[q] # "none"
  PROVE PlacesInv'
  <1> SUFFICES ASSUME ~uncounted' PROVE PlacesInv'
    BY DEF PlacesInv
  <1>1. Queries' = Queries
    BY DEF Queries, Groups
  <1>2. ASSUME NEW R \in SUBSET Requests
        PROVE (Cardinality(OnTheWay(R)) <= MaxConcurrent - 1 + Cardinality(OfFirst(R)))'
    <2>1. OnTheWay(R)' \subseteq OnTheWay(R) /\ OfFirst(R) \subseteq OfFirst(R)'
      BY <1>1 DEF OnTheWay, OfFirst
    <2> QED
      BY <2>1, NoMorePlaces
  <1> QED
    BY <1>1, <1>2 DEF PlacesInv

\* A request that enters a region leaves the others what they run.
LEMMA RegionPlaces ==
  ASSUME PlacesInv, NEW r \in Requests, NEW n, NEW x, EnterRegion(r, n, x),
         uncounted' = uncounted
  PROVE PlacesInv'
  <1> SUFFICES ASSUME ~uncounted PROVE PlacesInv'
    BY DEF PlacesInv
  <1>1. Queries' = Queries
    BY DEF Queries, Groups
  <1>2. \A q \in Queries : query'[q] = IF q[1] = r THEN "none" ELSE query[q]
    BY DEF EnterRegion
  <1>3. ASSUME NEW R \in SUBSET Requests
        PROVE (Cardinality(OnTheWay(R)) <= MaxConcurrent - 1 + Cardinality(OfFirst(R)))'
    <2>1. /\ OnTheWay(R)' \subseteq OnTheWay(R \ {r})
          /\ OfFirst(R \ {r}) \subseteq OfFirst(R)'
      BY <1>1, <1>2 DEF OnTheWay, OfFirst
    <2>2. R \ {r} \in SUBSET Requests
      OBVIOUS
    <2> QED
      BY <2>1, <2>2, NoMorePlaces
  <1>4. \A q \in Queries : query'[q] # "Scheduled"
    BY <1>2 DEF PlacesInv
  <1> QED
    BY <1>1, <1>3, <1>4 DEF PlacesInv

\* Every step keeps it.
LEMMA NextPlaces == WInv /\ TInv /\ QInv /\ GInv /\ PlacesInv /\ [Next]_vars => PlacesInv'
  <1> SUFFICES ASSUME WInv, TInv, QInv, GInv, PlacesInv, [Next]_vars PROVE PlacesInv'
    OBVIOUS
  <1>1. CASE UNCHANGED vars \/ OtherStarts \/ OtherFinishes
    BY <1>1, QuietPlaces DEF vars, OtherStarts, OtherFinishes, queryVars
  <1>2. CASE SplitWindow \/ SplitLast
    <2>1. PICK r, s, window : Push(r, s, window) \/ PushTooMany(r, s)
      BY <1>2 DEF SplitWindow, SplitLast
    <2>2. \/ query' = query
          \/ query' = [query EXCEPT ![<<r, group[r], Len(windows[r][s]) + 1>>] = "ask"]
      BY <2>1 DEF Push, PushTooMany
    <2>3. \A q \in Queries : query'[q] = query[q] \/ query'[q] = "ask"
      BY <2>2, RestFromInv DEF RestTyped
    <2>4. uncounted' = uncounted
      BY <1>2 DEF SplitWindow, SplitLast
    <2> QED
      BY <2>3, <2>4, QuietPlaces
  <1>3. ASSUME NEW r \in Requests, NextRegion(r) \/ \E x \in Ranges[r] : Estimate(r, x)
        PROVE PlacesInv'
    <2>1. PICK n, x : EnterRegion(r, n, x)
      BY <1>3 DEF NextRegion, Estimate
    <2>2. uncounted' = uncounted
      BY <1>3 DEF NextRegion, Estimate
    <2> QED
      BY <2>1, <2>2, RegionPlaces
  <1>4. ASSUME NEW r \in Requests,
               \/ NextGroup(r) \/ \E n \in 0..setup.groups : GroupNames(r, n)
               \/ CollectFirst(r) \/ CollectNext(r) \/ CollectedAll(r)
               \/ ReadMetrics(r) \/ ReadMetricsFails(r) \/ StartAthena(r) \/ PollFailed(r)
               \/ PollFails(r) \/ PollSucceeded(r) \/ ReadPage(r) \/ ReadPageFails(r)
               \/ FinishAthena(r) \/ AnswerServices(r) \/ NamesFail(r)
        PROVE PlacesInv'
    <2>1. UNCHANGED <<query, uncounted>>
      BY <1>4 DEF NextGroup, GroupNames, CollectFirst, CollectNext, CollectedAll,
            ReadMetrics, ReadMetricsFails, StartAthena, PollFailed, PollFails,
            PollSucceeded, ReadPage, ReadPageFails, FinishAthena, AnswerServices, NamesFail,
            queryVars
    <2> QED
      BY <2>1, QuietPlaces
  <1>5. ASSUME NEW q \in Queries, CountRunning(q) PROVE PlacesInv'
    BY <1>5, PlaceSeen
  <1>6. ASSUME NEW q \in Queries, StartQuery(q) PROVE PlacesInv'
    <2>1. /\ query[q] = "start"
          /\ \/ query' = [query EXCEPT ![q] = "Running"] /\ uncounted' = uncounted
             \/ uncounted'
      BY <1>6 DEF StartQuery
    <2>2. ~uncounted' => query'[q] = "Running" /\ \A x \in Queries \ {q} : query'[x] = query[x]
      BY <2>1, RestFromInv DEF RestTyped
    <2> QED
      BY <2>1, <2>2, QuietPlaces
  <1>7. ASSUME NEW q \in Queries,
               StartRefused(q) \/ GetResult(q) \/ CountFails(q) \/ NoResult(q) \/ FinishQuery(q)
        PROVE PlacesInv'
    <2>1. /\ uncounted' = uncounted
          /\ \/ query' = query
             \/ \E state \in {"refused", "Complete", "Failed"} :
                  query' = [query EXCEPT ![q] = state]
      BY <1>7 DEF StartRefused, GetResult, CountFails, NoResult, FinishQuery, Refuse
    <2>2. \A x \in Queries : query'[x] = query[x] \/ query'[x] \in {"refused", "Complete", "Failed"}
      BY <2>1, RestFromInv DEF RestTyped
    <2> QED
      BY <2>1, <2>2, QuietPlaces
  <1>8. ASSUME NEW q \in Queries, RunScheduled(q) PROVE PlacesInv'
    <2>1. query[q] = "Scheduled" /\ uncounted' = uncounted
      BY <1>8 DEF RunScheduled
    <2>2. uncounted
      BY <2>1 DEF PlacesInv
    <2> QED
      BY <2>1, <2>2 DEF PlacesInv
  <1> QED
    BY <1>1, <1>2, <1>3, <1>4, <1>5, <1>6, <1>7, <1>8 DEF Next, Process, ProcessQuery

\* All requests are one choice of requests.
LEMMA BoundedFromInv == PlacesInv => OvershootIsBounded
  <1> SUFFICES ASSUME PlacesInv, ~uncounted
               PROVE Cardinality(Active) <=
                       MaxConcurrent - 1 + Cardinality(UNION {AtOnce(r) : r \in Requests})
    BY DEF OvershootIsBounded
  <1>1. Active \subseteq OnTheWay(Requests)
    BY QueryParts DEF PlacesInv, Active, OnTheWay
  <1>2. UNION {AtOnce(r) : r \in Requests} = OfFirst(Requests)
    BY QueryParts DEF AtOnce, OfFirst
  <1>3. OnTheWay(Requests) \in SUBSET Queries /\ OfFirst(Requests) \in SUBSET Queries
        /\ Active \in SUBSET Queries
    BY DEF OnTheWay, OfFirst, Active
  <1>4. Cardinality(OnTheWay(Requests)) <= MaxConcurrent - 1 + Cardinality(OfFirst(Requests))
    BY DEF PlacesInv
  <1>5. Cardinality(Active) <= Cardinality(OnTheWay(Requests))
    BY <1>1, <1>3, FiniteQueries, FS_Subset
  <1>6. /\ Cardinality(Active) \in Nat /\ Cardinality(OnTheWay(Requests)) \in Nat
        /\ Cardinality(OfFirst(Requests)) \in Nat /\ MaxConcurrent \in Nat
    BY <1>3, FiniteQueries, AwsAssumption
  <1> QED
    BY <1>2, <1>4, <1>5, <1>6

\* For any number of requests, groups, windows and queries of others: the limit on
\* queries is passed by no more than the windows that may see the same free place.
THEOREM BoundedOvershoot == Spec => []OvershootIsBounded
  BY InitWInv, NextWInv, InitPages, NextPages, InitTInv, NextTInv, InitQInv, NextQInv,
     InitGInv, NextGInv, InitPlaces, NextPlaces, BoundedFromInv, PTL DEF Spec
=============================================================================
