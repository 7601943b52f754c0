-------------------------- MODULE ConsumptionProofs --------------------------
(***************************************************************************)
(* Theorems about the usage that is collected (AzureConsumption), for any  *)
(* requests, subscriptions, rows, window and group sizes and any number of *)
(* retries, and about what becomes of the rows of all three providers      *)
(* (UsageRows), for any rows, services and numbers of rows and requests.   *)
(***************************************************************************)
EXTENDS AzureConsumption, UsageRows, CollectionProofs

(***************************************************************************)
(* What a job knows of the rows, as operators of the configuration's       *)
(* values: u the usage, d the days of a window, e the end date.            *)
(***************************************************************************)
Window(u, d, e, s, from) ==
  {row \in u :
     /\ row.sub = s
     /\ row.first >= from
     /\ IF d = 0 \/ 3 * (from + d) >= e THEN 3 * row.last + 1 <= e
                                        ELSE 3 * row.last + 1 < 3 * (from + d) - 1}

WithinOne(d, row) ==
  d = 0 \/ \E k \in 0..Days : k * d <= row.first /\ row.last < (k + 1) * d

Due(u, d, e, s, row) ==
  row.sub = s /\ row \in u /\ 3 * row.last + 1 <= e /\ WithinOne(d, row)

\* What should be collected of a row before a day, and in the end.
Kept(u, d, e, s, row, day) == IF Due(u, d, e, s, row) /\ row.last < day THEN 1 ELSE 0

AllDue(u, d, e, s, row) == IF Due(u, d, e, s, row) THEN 1 ELSE 0

Values(u, d, e) == u \in SUBSET Rows /\ d \in Nat /\ e \in {3 * Days - 1, 3 * Days}

More(d, e, from) == d # 0 /\ 3 * (from + d) <= e

\* Windows begin at multiples of d; what was collected is due and ends before
\* the current window, and the page is what has been read of it.
Reads(u, d, e, j, c, s) ==
  /\ \E k \in Nat : j.from = k * d
  /\ 3 * j.from <= e
  /\ \A row \in Rows :
       c[row] = Kept(u, d, e, s, row, j.from)
  /\ j.unread \subseteq Window(u, d, e, s, j.from)
  /\ \A row \in Rows :
       j.page[row] = IF row \in Window(u, d, e, s, j.from) \ j.unread THEN 1 ELSE 0

Fits(u, d, e, j, c, s) ==
  /\ j.at = "waiting" => c = Zero
  /\ j.at \in {"reading", "limited"} => Reads(u, d, e, j, c, s)
  /\ j.at = "done" =>
       \A row \in Rows : c[row] = AllDue(u, d, e, s, row)

JobInv ==
  \A r \in Requests, s \in Subscriptions :
    Fits(usage, step, endDate, job[r][s], collected[r][s], s)

EndInv == endDate \in {3 * Days - 1, 3 * Days}

\* A product grows with its first factor.
LEMMA ProductGrows ==
  ASSUME NEW a \in Nat, NEW b \in Nat, NEW d \in Nat, a <= b
  PROVE  a * d <= b * d
<1>1. PICK c \in Nat : b = a + c
  BY b - a \in Nat, SMT
<1>2. b * d = a * d + c * d
  BY <1>1, SMT
<1>3. c * d \in Nat
  BY SMT
<1> QED
  BY <1>2, <1>3, SMT

\* A row lies within one window of those that begin with k * d exactly when it
\* lies within this one, if it ends in it.
LEMMA WindowOfRow ==
  ASSUME NEW d \in Nat \ {0}, NEW k \in Nat, k <= Days,
         NEW row \in Rows, k * d <= row.last, row.last < (k + 1) * d
  PROVE  WithinOne(d, row) <=> row.first >= k * d
<1> row.first \in Nat /\ row.last \in Nat /\ row.first <= row.last /\ Days \in Nat
  BY AzureAssumption
<1>1. ASSUME row.first >= k * d
      PROVE  WithinOne(d, row)
  BY <1>1 DEF WithinOne
<1>2. ASSUME WithinOne(d, row)
      PROVE  row.first >= k * d
  <2>1. PICK i \in 0..Days : i * d <= row.first /\ row.last < (i + 1) * d
    BY <1>2 DEF WithinOne
  <2>2. i * d \in Nat /\ (i + 1) * d \in Nat /\ k * d \in Nat /\ (k + 1) * d \in Nat
    BY SMT
  <2>3. CASE i < k
    <3>1. (i + 1) * d <= k * d
      BY <2>3, ProductGrows
    <3> QED
      BY <3>1, <2>1, <2>2, SMT
  <2>4. CASE i >= k
    <3>1. k * d <= i * d
      BY <2>4, ProductGrows
    <3> QED
      BY <3>1, <2>1, <2>2, SMT
  <2> QED
    BY <2>3, <2>4, SMT
<1> QED
  BY <1>1, <1>2

\* The rows of a window are those due that end in it: with the ones before
\* they are the ones that end before the next window or, after the last, all.
LEMMA WindowIsNext ==
  ASSUME NEW u \in SUBSET Rows, NEW d \in Nat, NEW e \in {3 * Days - 1, 3 * Days},
         NEW s, NEW k \in Nat, NEW from \in Nat, from = k * d, 3 * from <= e,
         NEW row \in Rows
  PROVE  /\ row \in Window(u, d, e, s, from) => row.last >= from
         /\ More(d, e, from) =>
              ((Due(u, d, e, s, row) /\ row.last < from + d) <=>
               ((Due(u, d, e, s, row) /\ row.last < from) \/ row \in Window(u, d, e, s, from)))
         /\ ~More(d, e, from) =>
              (Due(u, d, e, s, row) <=>
               ((Due(u, d, e, s, row) /\ row.last < from) \/ row \in Window(u, d, e, s, from)))
<1> USE DEF More
<1> row.first \in Nat /\ row.last \in Nat /\ row.first <= row.last /\ Days \in Nat
  BY AzureAssumption
<1> DEFINE begins == row.first
           last == row.last
<1>1. row \in Window(u, d, e, s, from) => row.last >= from
  BY SMT DEF Window
<1>2. CASE d = 0
  <2>1. from = 0
    BY <1>2, SMT
  <2>2. WithinOne(d, row)
    BY <1>2 DEF WithinOne
  <2>3. Due(u, d, e, s, row) <=> row \in Window(u, d, e, s, from)
    BY <1>2, <2>1, <2>2, SMT DEF Due, Window
  <2> QED
    BY <1>1, <1>2, <2>1, <2>3, SMT
<1>3. CASE d # 0
  <2>1. k <= Days
    <3>1. 1 * k <= d * k
      BY <1>3, ProductGrows
    <3>2. d * k = k * d
      BY SMT
    <3> QED
      BY <3>1, <3>2, SMT
  <2>2. (k + 1) * d = from + d
    BY SMT
  <2>3. from <= last /\ last < from + d => (WithinOne(d, row) <=> begins >= from)
    <3> SUFFICES ASSUME from <= last, last < from + d
                 PROVE  WithinOne(d, row) <=> begins >= from
      OBVIOUS
    <3>1. d \in Nat \ {0} /\ k * d <= row.last
      BY <1>3
    <3>2. row.last < (k + 1) * d
      BY <2>2
    <3>3. WithinOne(d, row) <=> row.first >= k * d
      BY <2>1, <3>1, <3>2, WindowOfRow
    <3> QED
      BY <3>3
  <2>4. row \in Window(u, d, e, s, from) => last < from + d /\ 3 * last + 1 <= e
    BY <1>3, SMT DEF Window
  <2>5. Due(u, d, e, s, row) /\ from <= last /\ last < from + d
          => row \in Window(u, d, e, s, from)
    <3> SUFFICES ASSUME Due(u, d, e, s, row), from <= last, last < from + d
                 PROVE  row \in Window(u, d, e, s, from)
      OBVIOUS
    <3>1. begins >= from /\ row.sub = s /\ row \in u /\ 3 * last + 1 <= e
      BY <2>3 DEF Due
    <3>2. 3 * last + 1 < 3 * (from + d) - 1
      BY SMT
    <3> QED
      BY <3>1, <3>2 DEF Window
  <2>6. row \in Window(u, d, e, s, from) => Due(u, d, e, s, row)
    <3> SUFFICES ASSUME row \in Window(u, d, e, s, from)
                 PROVE  Due(u, d, e, s, row)
      OBVIOUS
    <3>1. row.sub = s /\ row \in u /\ begins >= from
      BY DEF Window
    <3> QED
      BY <1>1, <2>3, <2>4, <3>1 DEF Due
  <2>7. CASE 3 * (from + d) <= e
    BY <1>1, <1>3, <2>4, <2>5, <2>6, <2>7, SMT
  <2>8. CASE ~(3 * (from + d) <= e)
    <3>1. Due(u, d, e, s, row) => last < from + d
      BY <2>8, SMT DEF Due
    <3> QED
      BY <1>1, <2>4, <2>5, <2>6, <2>8, <3>1, SMT
  <2> QED
    BY <2>7, <2>8
<1> QED
  BY <1>2, <1>3

\* A query starts with nothing read of its window.
LEMMA QueryReads ==
  ASSUME NEW u \in SUBSET Rows, NEW d, NEW e, NEW s, NEW j, NEW c, NEW k \in Nat,
         j.from = k * d, 3 * j.from <= e, j.page = Zero,
         j.unread = Window(u, d, e, s, j.from),
         \A row \in Rows :
           c[row] = Kept(u, d, e, s, row, j.from)
  PROVE  Reads(u, d, e, j, c, s)
BY DEF Reads, Zero

\* The end of a window's pages: what is collected then.
LEMMA WindowRead ==
  ASSUME NEW u, NEW d, NEW e, Values(u, d, e),
         NEW s, NEW j, NEW c, j.from \in Nat, j.unread = {}, Reads(u, d, e, j, c, s),
         NEW row \in Rows, NEW to, to = j.from + d
  PROVE  /\ Together(c, j.page)[row] \in {0, 1}
         /\ More(d, e, j.from) =>
              Together(c, j.page)[row] =
                Kept(u, d, e, s, row, to)
         /\ ~More(d, e, j.from) =>
              Together(c, j.page)[row] = AllDue(u, d, e, s, row)
<1> u \in SUBSET Rows /\ d \in Nat /\ e \in {3 * Days - 1, 3 * Days}
  BY DEF Values
<1> DEFINE before == Due(u, d, e, s, row) /\ row.last < j.from
           now == row \in Window(u, d, e, s, j.from)
<1> row.last \in Nat
  BY AzureAssumption
<1>1. PICK k \in Nat : j.from = k * d
  BY DEF Reads
<1>2. 3 * j.from <= e
  BY DEF Reads
<1>3. now => ~(row.last < j.from)
  <2>1. now => row.last >= j.from
    BY <1>1, <1>2, WindowIsNext
  <2> HIDE DEF now
  <2> QED
    BY <2>1, SMT
<1>4. c[row] = IF before THEN 1 ELSE 0
  BY DEF Reads, Kept
<1>5. j.page[row] = IF now THEN 1 ELSE 0
  BY DEF Reads
<1>6. Together(c, j.page)[row] = c[row] + j.page[row]
  BY DEF Together
<1>7. Together(c, j.page)[row] = IF before \/ now THEN 1 ELSE 0
  <2> HIDE DEF before, now
  <2>1. ~(before /\ now)
    BY <1>3 DEF before
  <2> QED
    BY <1>4, <1>5, <1>6, <2>1, SMT
<1>8. More(d, e, j.from) =>
        ((Due(u, d, e, s, row) /\ row.last < to) <=> (before \/ now))
  <2>1. More(d, e, j.from) =>
          ((Due(u, d, e, s, row) /\ row.last < j.from + d) <=> (before \/ now))
    BY <1>1, <1>2, WindowIsNext
  <2> QED
    BY <2>1
<1>9. ~More(d, e, j.from) => (Due(u, d, e, s, row) <=> (before \/ now))
  BY <1>1, <1>2, WindowIsNext
<1> QED
  <2> HIDE DEF before, now
  <2> QED
    BY <1>7, <1>8, <1>9 DEF Kept, AllDue

(***************************************************************************)
(* The invariant of a query, kept by every step.                           *)
(***************************************************************************)
NewInv ==
  \A r \in Requests, s \in Subscriptions : request[r] = "new" => At(r, s) = "waiting"

BasisInv ==
  \A r \in Requests, s \in Subscriptions, row \in Rows :
    At(r, s) = "done" => basis[r][s][row] >= Known(collected[r][s])[row]

QueryInv == TypeOK /\ EndInv /\ JobInv /\ NewInv /\ BasisInv

\* The windows of the model are those of the lemmas above.
LEMMA SameWindow ==
  ASSUME NEW s, NEW from
  PROVE  /\ Matching(s, from) = Window(usage, step, endDate, s, from)
         /\ HasNext(from) <=> More(step, endDate, from)
BY DEF Matching, Window, HasNext, IsLast, NextWindow, DayStart, UsageEnd, More

\* The types of what a behaviour is configured with.
LEMMA ConfigTypes ==
  ASSUME QueryInv
  PROVE  /\ usage \in SUBSET Rows
         /\ step \in Nat
         /\ size \in Nat
         /\ endDate \in {3 * Days - 1, 3 * Days}
         /\ endDate \in Int /\ Days \in Nat \ {0}
BY AzureAssumption DEF QueryInv, TypeOK, EndInv

\* Initially every subscription waits and nothing is collected.
LEMMA QueryInvInit == Init => QueryInv
<1> SUFFICES ASSUME Init
             PROVE  QueryInv
  OBVIOUS
<1> USE AzureAssumption
<1>1. Zero \in [Rows -> {0, 1}] /\ Zero \in [Rows -> Nat]
  BY DEF Zero
<1>2. Waiting \in Jobs
  BY <1>1 DEF Waiting, Jobs
<1>3. TypeOK
  BY <1>1, <1>2 DEF Init, TypeOK
<1>4. EndInv
  BY DEF Init, EndInv, DayStart
<1>5. ASSUME NEW r \in Requests, NEW s \in Subscriptions
      PROVE  At(r, s) = "waiting" /\ collected[r][s] = Zero
  BY DEF Init, At, Waiting
<1>6. JobInv
  BY <1>5 DEF JobInv, Fits, At
<1>7. NewInv /\ BasisInv
  BY <1>5 DEF NewInv, BasisInv
<1> QED
  BY <1>3, <1>4, <1>6, <1>7 DEF QueryInv

\* Every step of a query changes one job, and perhaps what it collected.
LEMMA OneJobChanges ==
  ASSUME QueryInv, UNCHANGED <<config, request, listed>>,
         NEW r \in Requests, NEW s \in Subscriptions,
         NEW nj \in Jobs, NEW nc \in [Rows -> {0, 1}],
         At(r, s) # "waiting",
         job' = [job EXCEPT ![r][s] = nj],
         collected' = [collected EXCEPT ![r][s] = nc],
         Fits(usage, step, endDate, nj, nc, s),
         counted' \in [Rows -> Nat],
         basis' \in [Requests -> [Subscriptions -> [Rows -> Nat]]],
         \A q \in Requests, t \in Subscriptions :
           ~(q = r /\ t = s) => basis'[q][t] = basis[q][t],
         nj.at = "done" => \A row \in Rows : basis'[r][s][row] >= Known(nc)[row]
  PROVE  QueryInv'
<1> USE DEF config
<1>1. /\ job \in [Requests -> [Subscriptions -> Jobs]]
      /\ collected \in [Requests -> [Subscriptions -> [Rows -> {0, 1}]]]
  BY DEF QueryInv, TypeOK
<1>2. Jobs' = Jobs
  BY DEF Jobs
<1>3. TypeOK'
  <2>1. job' \in [Requests -> [Subscriptions -> Jobs]]
    BY <1>1
  <2>2. collected' \in [Requests -> [Subscriptions -> [Rows -> {0, 1}]]]
    BY <1>1
  <2> QED
    BY <1>2, <2>1, <2>2 DEF QueryInv, TypeOK
<1>4. EndInv'
  BY DEF QueryInv, EndInv
<1>5. ASSUME NEW q \in Requests, NEW t \in Subscriptions
      PROVE  /\ job'[q][t] = IF q = r /\ t = s THEN nj ELSE job[q][t]
             /\ collected'[q][t] = IF q = r /\ t = s THEN nc ELSE collected[q][t]
  BY <1>1
<1>6. JobInv'
  <2> SUFFICES ASSUME NEW q \in Requests, NEW t \in Subscriptions
               PROVE  Fits(usage, step, endDate, job'[q][t], collected'[q][t], t)
    BY DEF JobInv
  <2>1. Fits(usage, step, endDate, job[q][t], collected[q][t], t)
    BY DEF QueryInv, JobInv
  <2> QED
    BY <1>5, <2>1
<1>7. NewInv'
  BY <1>5 DEF QueryInv, NewInv, At
<1>8. BasisInv'
  <2> SUFFICES ASSUME NEW q \in Requests, NEW t \in Subscriptions, NEW row \in Rows,
                      job'[q][t].at = "done"
               PROVE  basis'[q][t][row] >= Known(collected'[q][t])[row]
    BY DEF BasisInv, At, Known
  <2>1. CASE q = r /\ t = s
    BY <1>5, <2>1
  <2>2. CASE ~(q = r /\ t = s)
    BY <1>5, <2>2 DEF QueryInv, BasisInv, At
  <2> QED
    BY <2>1, <2>2
<1> QED
  BY <1>3, <1>4, <1>6, <1>7, <1>8 DEF QueryInv

\* A query, at the start of a window or of one more attempt.
LEMMA NewQuery ==
  ASSUME QueryInv, NEW s \in Subscriptions, NEW from \in Nat, NEW k \in Nat,
         from = k * step, 3 * from <= endDate,
         NEW c, NEW try \in 0..(MaxRetries + 1),
         NEW j, j = [at |-> "reading", from |-> from, try |-> try, page |-> Zero,
                     unread |-> Matching(s, from)],
         \A row \in Rows :
           c[row] = Kept(usage, step, endDate, s, row, from)
  PROVE  /\ j \in Jobs
         /\ j.at = "reading"
         /\ Fits(usage, step, endDate, j, c, s)
<1>1. from \in 0..Days
  BY ConfigTypes, SMT
<1>2. Zero \in [Rows -> {0, 1}] /\ Matching(s, from) \in SUBSET usage
  BY DEF Zero, Matching
<1>3. j \in Jobs
  BY <1>1, <1>2 DEF Jobs
<1>4. Reads(usage, step, endDate, j, c, s)
  <2>1. j.from = from /\ j.page = Zero /\ j.unread = Window(usage, step, endDate, s, j.from)
    BY SameWindow
  <2> QED
    BY <2>1, ConfigTypes, QueryReads
<1>5. Fits(usage, step, endDate, j, c, s)
  BY <1>4 DEF Fits
<1> QED
  BY <1>3, <1>5

\* What the invariant says of one query.
LEMMA JobFacts ==
  ASSUME QueryInv, NEW r \in Requests, NEW s \in Subscriptions
  PROVE  /\ job[r][s] \in Jobs
         /\ collected[r][s] \in [Rows -> {0, 1}]
         /\ Fits(usage, step, endDate, job[r][s], collected[r][s], s)
         /\ At(r, s) = job[r][s].at
BY DEF QueryInv, TypeOK, JobInv, At

\* The queries of a group begin with an empty page of their first window.
LEMMA StartGroupKeeps ==
  ASSUME QueryInv, NEW r \in Requests, StartGroup(r)
  PROVE  QueryInv'
<1> USE DEF config
<1>1. PICK g \in 0..Cardinality(listed[r]) :
        /\ request[r] = "fetching"
        /\ \A s \in GroupOf(r, g) : At(r, s) = "waiting"
        /\ job' = [job EXCEPT ![r] =
                     [s \in Subscriptions |-> IF s \in GroupOf(r, g) THEN Query(s, 0) ELSE @[s]]]
        /\ UNCHANGED <<config, request, listed, collected, counted, basis>>
  BY DEF StartGroup
<1>2. job \in [Requests -> [Subscriptions -> Jobs]]
  BY DEF QueryInv, TypeOK
<1>3. ASSUME NEW q \in Requests, NEW t \in Subscriptions
      PROVE  job'[q][t] = IF q = r /\ t \in GroupOf(r, g) THEN Query(t, 0) ELSE job[q][t]
  BY <1>1, <1>2
<1>4. ASSUME NEW t \in GroupOf(r, g), t \in Subscriptions
      PROVE  /\ Query(t, 0) \in Jobs
             /\ Query(t, 0).at = "reading"
             /\ Fits(usage, step, endDate, Query(t, 0), collected[r][t], t)
  <2>1. collected[r][t] = Zero
    BY <1>1, <1>4, JobFacts DEF Fits
  <2>2. \A row \in Rows :
          collected[r][t][row] = Kept(usage, step, endDate, t, row, 0)
    BY <2>1, AzureAssumption DEF Zero, Kept
  <2>3. Query(t, 0) = [at |-> "reading", from |-> 0, try |-> 1, page |-> Zero,
                       unread |-> Matching(t, 0)]
    BY DEF Query
  <2>4. 0 = 0 * step /\ 3 * 0 <= endDate /\ 1 \in 0..(MaxRetries + 1)
    BY ConfigTypes, AzureAssumption, SMT
  <2> QED
    BY <1>4, <2>2, <2>3, <2>4, NewQuery
<1>5. TypeOK'
  <2>1. Jobs' = Jobs
    BY <1>1 DEF Jobs
  <2>2. job' \in [Requests -> [Subscriptions -> Jobs]]
    BY <1>1, <1>2, <1>4
  <2> QED
    BY <1>1, <2>1, <2>2 DEF QueryInv, TypeOK
<1>6. EndInv'
  BY <1>1 DEF QueryInv, EndInv
<1>7. JobInv'
  <2> SUFFICES ASSUME NEW q \in Requests, NEW t \in Subscriptions
               PROVE  Fits(usage, step, endDate, job'[q][t], collected[q][t], t)
    BY <1>1 DEF JobInv
  <2> QED
    BY <1>3, <1>4, JobFacts
<1>8. NewInv'
  <2> SUFFICES ASSUME NEW q \in Requests, NEW t \in Subscriptions, request[q] = "new"
               PROVE  job'[q][t].at = "waiting"
    BY <1>1 DEF NewInv, At
  <2>1. q # r
    BY <1>1
  <2> QED
    BY <1>3, <2>1 DEF QueryInv, NewInv, At
<1>9. BasisInv'
  <2> SUFFICES ASSUME NEW q \in Requests, NEW t \in Subscriptions, NEW row \in Rows,
                      job'[q][t].at = "done"
               PROVE  basis[q][t][row] >= Known(collected[q][t])[row]
    BY <1>1 DEF BasisInv, At, Known
  <2>1. job[q][t].at = "done"
    BY <1>3, <1>4
  <2> QED
    BY <2>1 DEF QueryInv, BasisInv, At
<1> QED
  BY <1>5, <1>6, <1>7, <1>8, <1>9 DEF QueryInv

\* A row read moves from the unread ones to the page.
LEMMA ReadRowKeeps ==
  ASSUME QueryInv, NEW r \in Requests, NEW s \in Subscriptions, ReadRow(r, s)
  PROVE  QueryInv'
<1> DEFINE j == job[r][s]
           c == collected[r][s]
<1>1. PICK row \in j.unread :
        job' = [job EXCEPT ![r][s] = TakeRow(@, row)]
  BY DEF ReadRow
<1>2. /\ j.at = "reading"
      /\ UNCHANGED <<config, request, listed, collected, counted, basis>>
  BY DEF ReadRow, At
<1>3. j \in Jobs /\ c \in [Rows -> {0, 1}] /\ Reads(usage, step, endDate, j, c, s)
  BY <1>2, JobFacts DEF Fits
<1>4. row \in Rows /\ j.page[row] = 0
  BY <1>3 DEF Reads, Window, Jobs, QueryInv, TypeOK
<1> DEFINE page == [j.page EXCEPT ![row] = 1]
           nj == [at |-> "reading", from |-> j.from, try |-> j.try, page |-> page,
                  unread |-> j.unread \ {row}]
<1>5. job' = [job EXCEPT ![r][s] = nj]
  <2>1. TakeRow(j, row) = nj
    <3>1. [j.page EXCEPT ![row] = @ + 1] = page
      BY <1>3, <1>4 DEF Jobs
    <3> QED
      BY <1>2, <3>1 DEF TakeRow
  <2>2. job' = [job EXCEPT ![r][s] = TakeRow(j, row)]
    BY <1>1 DEF QueryInv, TypeOK
  <2> HIDE DEF nj, j
  <2> QED
    BY <2>1, <2>2
<1>6. nj \in Jobs
  <2>1. page \in [Rows -> {0, 1}] /\ j.unread \ {row} \in SUBSET usage
    BY <1>3, <1>4 DEF Jobs
  <2>2. j.from \in 0..Days /\ j.try \in 0..(MaxRetries + 1)
    BY <1>3 DEF Jobs
  <2> HIDE DEF page, j
  <2> QED
    BY <2>1, <2>2 DEF Jobs
<1>7. Reads(usage, step, endDate, nj, c, s)
  <2>1. \A other \in Rows :
          page[other] =
            IF other \in Window(usage, step, endDate, s, j.from) \ (j.unread \ {row}) THEN 1 ELSE 0
    BY <1>1, <1>3, <1>4 DEF Reads, Jobs
  <2>2. j.unread \ {row} \subseteq Window(usage, step, endDate, s, j.from)
    BY <1>3 DEF Reads
  <2>3. /\ \E k \in Nat : j.from = k * step
        /\ 3 * j.from <= endDate
        /\ \A other \in Rows :
             c[other] = Kept(usage, step, endDate, s, other, j.from)
    BY <1>3 DEF Reads
  <2>4. nj.from = j.from /\ nj.page = page /\ nj.unread = j.unread \ {row}
    OBVIOUS
  <2> HIDE DEF nj, j, c, page
  <2> QED
    BY <2>1, <2>2, <2>3, <2>4 DEF Reads
<1>8. nj.at = "reading"
  OBVIOUS
<1>9. Fits(usage, step, endDate, nj, c, s)
  <2> HIDE DEF nj, c
  <2> QED
    BY <1>7, <1>8 DEF Fits
<1>10. collected' = [collected EXCEPT ![r][s] = c]
  BY <1>2 DEF QueryInv, TypeOK
<1> QED
  <2>1. counted' \in [Rows -> Nat] /\ basis' \in [Requests -> [Subscriptions -> [Rows -> Nat]]]
    BY <1>2 DEF QueryInv, TypeOK
  <2>2. UNCHANGED <<config, request, listed>> /\ basis' = basis /\ At(r, s) # "waiting"
    BY <1>2 DEF At
  <2> HIDE DEF nj, c
  <2> QED
    BY <1>3, <1>5, <1>6, <1>8, <1>9, <1>10, <2>1, <2>2, OneJobChanges DEF c

\* At the end of its pages a window is collected, and the next one begins or the
\* subscription is complete.
LEMMA EndOfPagesKeeps ==
  ASSUME QueryInv, NEW r \in Requests, NEW s \in Subscriptions, EndOfPages(r, s)
  PROVE  QueryInv'
<1> DEFINE j == job[r][s]
           c == collected[r][s]
           nc == Together(c, j.page)
<1>1. /\ j.at = "reading"
      /\ j.unread = {}
      /\ collected' = [collected EXCEPT ![r][s] = nc]
      /\ CountAll(r, s)
      /\ UNCHANGED <<config, request, listed>>
  BY DEF EndOfPages, QueryInv, TypeOK
<1>2. j \in Jobs /\ c \in [Rows -> {0, 1}] /\ Reads(usage, step, endDate, j, c, s)
  BY <1>1, JobFacts DEF Fits
<1>3. j.from \in Nat
  BY <1>2, ConfigTypes DEF Jobs
<1> PICK to \in Nat : to = j.from + step
  <2> HIDE DEF j
  <2> QED
    BY <1>3, ConfigTypes
<1>4. \A row \in Rows :
        /\ nc[row] \in {0, 1}
        /\ More(step, endDate, j.from) =>
             nc[row] = Kept(usage, step, endDate, s, row, to)
        /\ ~More(step, endDate, j.from) =>
             nc[row] = AllDue(usage, step, endDate, s, row)
  <2> SUFFICES ASSUME NEW row \in Rows
               PROVE  /\ nc[row] \in {0, 1}
                      /\ More(step, endDate, j.from) =>
                           nc[row] = Kept(usage, step, endDate, s, row, to)
                      /\ ~More(step, endDate, j.from) =>
                           nc[row] = AllDue(usage, step, endDate, s, row)
    OBVIOUS
  <2>1. Values(usage, step, endDate) /\ to = j.from + step
    BY ConfigTypes DEF Values
  <2>2. Reads(usage, step, endDate, j, c, s)
    BY <1>2
  <2>3. j.unread = {} /\ j.from \in Nat
    BY <1>1, <1>3
  <2> HIDE DEF j, c
  <2>4. Together(c, j.page)[row] \in {0, 1}
    BY <2>1, <2>2, <2>3, WindowRead
  <2>5. More(step, endDate, j.from) =>
          Together(c, j.page)[row] = Kept(usage, step, endDate, s, row, to)
    BY <2>1, <2>2, <2>3, WindowRead
  <2>6. ~More(step, endDate, j.from) =>
          Together(c, j.page)[row] = AllDue(usage, step, endDate, s, row)
    BY <2>1, <2>2, <2>3, WindowRead
  <2> HIDE DEF nc
  <2> QED
    BY <2>4, <2>5, <2>6 DEF nc
<1>5. nc \in [Rows -> {0, 1}]
  <2>1. nc = [row \in Rows |-> nc[row]]
    BY DEF Together
  <2> HIDE DEF nc
  <2> QED
    BY <1>4, <2>1
<1>6. collected'[r][s] = nc
  BY <1>1 DEF QueryInv, TypeOK
<1>7. \A row \in Rows : Known(nc)[row] \in {0, 1} /\ Known(nc) \in [Rows -> {0, 1}]
  BY <1>5 DEF Known
<1>8. counted \in [Rows -> Nat] /\ basis \in [Requests -> [Subscriptions -> [Rows -> Nat]]]
  BY DEF QueryInv, TypeOK
<1>9. counted' \in [Rows -> Nat]
  <2>1. CASE HasNext(j.from)
    BY <1>1, <1>8, <2>1 DEF CountAll
  <2>2. CASE ~HasNext(j.from)
    <3>1. counted' = Together(counted, Known(nc))
      BY <1>1, <1>6, <2>2 DEF CountAll
    <3> HIDE DEF nc
    <3> QED
      BY <1>7, <1>8, <3>1 DEF Together
  <2> QED
    BY <2>1, <2>2
<1>10. CASE HasNext(j.from)
  <2> DEFINE nj == Query(s, NextWindow(j.from))
  <2>1. job' = [job EXCEPT ![r][s] = nj] /\ basis' = basis
    BY <1>10 DEF EndOfPages
  <2>2. More(step, endDate, j.from)
    BY <1>10, SameWindow
  <2>3. PICK k \in Nat : j.from = k * step
    BY <1>2 DEF Reads
  <2>4. to = (k + 1) * step /\ 3 * to <= endDate /\ k + 1 \in Nat
    <3> HIDE DEF j
    <3> QED
      BY <1>3, <2>2, <2>3, ConfigTypes, SMT DEF More
  <2>5. /\ nj = [at |-> "reading", from |-> to, try |-> 1, page |-> Zero,
                 unread |-> Matching(s, to)]
        /\ 1 \in 0..(MaxRetries + 1)
    BY AzureAssumption DEF Query, NextWindow
  <2>6. \A row \in Rows :
          nc[row] = Kept(usage, step, endDate, s, row, to)
    BY <1>4, <2>2
  <2>7. nj \in Jobs /\ nj.at = "reading" /\ Fits(usage, step, endDate, nj, nc, s)
    <3> HIDE DEF nj, nc, j
    <3> QED
      BY <2>2, <2>4, <2>5, <2>6, NewQuery
  <2>8. At(r, s) # "waiting" /\ nj.at # "done"
    BY <1>1, <2>7 DEF At
  <2> HIDE DEF nj, nc, j
  <2> QED
    BY <1>1, <1>5, <1>8, <1>9, <2>1, <2>7, <2>8, OneJobChanges
<1>11. CASE ~HasNext(j.from)
  <2> DEFINE nj == [Waiting EXCEPT !.at = "done"]
  <2>1. job' = [job EXCEPT ![r][s] = nj] /\ basis' = [basis EXCEPT ![r][s] = counted']
    BY <1>11 DEF EndOfPages, TakeBasis
  <2>2. ~More(step, endDate, j.from)
    BY <1>11, SameWindow
  <2>3. nj \in Jobs /\ nj.at = "done"
    BY AzureAssumption DEF Waiting, Jobs, Zero
  <2>4. Fits(usage, step, endDate, nj, nc, s)
    <3>1. \A row \in Rows : nc[row] = AllDue(usage, step, endDate, s, row)
      BY <1>4, <2>2
    <3> HIDE DEF nj, nc
    <3> QED
      BY <2>3, <3>1 DEF Fits
  <2>5. basis' \in [Requests -> [Subscriptions -> [Rows -> Nat]]]
    BY <1>8, <1>9, <2>1
  <2>6. \A q \in Requests, t \in Subscriptions :
          ~(q = r /\ t = s) => basis'[q][t] = basis[q][t]
    BY <1>8, <2>1
  <2>7. \A row \in Rows : basis'[r][s][row] >= Known(nc)[row]
    <3>1. counted' = Together(counted, Known(nc))
      BY <1>1, <1>6, <1>11 DEF CountAll
    <3>2. basis'[r][s] = counted'
      BY <1>8, <2>1
    <3> HIDE DEF nc
    <3> QED
      BY <1>7, <1>8, <3>1, <3>2 DEF Together
  <2>8. At(r, s) # "waiting"
    BY <1>1 DEF At
  <2>10. job' = [job EXCEPT ![r][s] = nj] /\ collected' = [collected EXCEPT ![r][s] = nc]
    BY <1>1, <2>1
  <2>11. UNCHANGED <<config, request, listed>>
    BY <1>1
  <2>9. nj.at = "done" => \A row \in Rows : basis'[r][s][row] >= Known(nc)[row]
    BY <2>7
  <2> HIDE DEF nj, nc, j, c
  <2> QED
    BY <1>5, <1>9, <2>3, <2>4, <2>5, <2>6, <2>8, <2>9, <2>10, <2>11, OneJobChanges
<1> QED
  BY <1>10, <1>11

\* Limits, waits and failures leave what was collected as it is.
LEMMA FailedFits ==
  ASSUME NEW c, NEW s
  PROVE  LET nj == [Waiting EXCEPT !.at = "failed"] IN
         nj \in Jobs /\ nj.at = "failed" /\ Fits(usage, step, endDate, nj, c, s)
BY AzureAssumption DEF Waiting, Jobs, Zero, Fits

\* A step that changes only a job, and completes nothing.
LEMMA OnlyJobChanges ==
  ASSUME QueryInv, NEW r \in Requests, NEW s \in Subscriptions, NEW nj \in Jobs,
         At(r, s) # "waiting", nj.at # "done",
         job' = [job EXCEPT ![r][s] = nj],
         UNCHANGED <<config, request, listed, collected, counted, basis>>,
         Fits(usage, step, endDate, nj, collected[r][s], s)
  PROVE  QueryInv'
<1> DEFINE c == collected[r][s]
<1>1. c \in [Rows -> {0, 1}] /\ Fits(usage, step, endDate, nj, c, s)
  BY JobFacts
<1>2. collected' = [collected EXCEPT ![r][s] = c]
  BY DEF QueryInv, TypeOK
<1>3. counted' \in [Rows -> Nat] /\ basis' \in [Requests -> [Subscriptions -> [Rows -> Nat]]]
  BY DEF QueryInv, TypeOK
<1>4. UNCHANGED <<config, request, listed>>
  OBVIOUS
<1>5. \A q \in Requests, t \in Subscriptions :
        ~(q = r /\ t = s) => basis'[q][t] = basis[q][t]
  OBVIOUS
<1>6. nj.at = "done" => \A row \in Rows : basis'[r][s][row] >= Known(c)[row]
  OBVIOUS
<1> HIDE DEF c
<1> QED
  BY <1>1, <1>2, <1>3, <1>4, <1>5, <1>6, OneJobChanges, Zenon

\* A limit keeps the page, one more attempt empties it, a failure ends the query.
LEMMA TroubleKeeps ==
  ASSUME QueryInv, NEW r \in Requests, NEW s \in Subscriptions,
         RateLimited(r, s) \/ WaitOver(r, s) \/ QueryFails(r, s)
  PROVE  QueryInv'
<1> DEFINE j == job[r][s]
           c == collected[r][s]
<1>1. At(r, s) # "waiting" /\ UNCHANGED <<config, request, listed, collected, counted, basis>>
  BY DEF RateLimited, WaitOver, QueryFails
<1>2. j.at \in {"reading", "limited"}
  BY DEF RateLimited, WaitOver, QueryFails, At
<1>3. j \in Jobs /\ c \in [Rows -> {0, 1}] /\ Reads(usage, step, endDate, j, c, s)
  BY <1>2, JobFacts DEF Fits
<1>4. ASSUME Fail(r, s)
      PROVE  QueryInv'
  <2> DEFINE nj == [Waiting EXCEPT !.at = "failed"]
  <2>1. nj \in Jobs /\ nj.at = "failed" /\ Fits(usage, step, endDate, nj, c, s)
    BY FailedFits
  <2>2. job' = [job EXCEPT ![r][s] = nj]
    BY <1>4 DEF Fail
  <2> HIDE DEF nj
  <2> QED
    BY <1>1, <2>1, <2>2, OnlyJobChanges
<1>5. CASE RateLimited(r, s)
  <2> DEFINE nj == [j EXCEPT !.at = "limited"]
  <2>1. job' = [job EXCEPT ![r][s] = nj]
    BY <1>5 DEF RateLimited, QueryInv, TypeOK
  <2>2. nj \in Jobs
    BY <1>3 DEF Jobs
  <2>3. nj.at = "limited" /\ nj.from = j.from /\ nj.page = j.page /\ nj.unread = j.unread
    BY <1>3 DEF Jobs
  <2>4. Fits(usage, step, endDate, nj, c, s)
    <3> HIDE DEF nj, j, c
    <3>1. Reads(usage, step, endDate, nj, c, s)
      BY <1>3, <2>3 DEF Reads
    <3> QED
      BY <2>3, <3>1 DEF Fits
  <2> HIDE DEF nj
  <2> QED
    BY <1>1, <2>1, <2>2, <2>3, <2>4, OnlyJobChanges
<1>6. CASE WaitOver(r, s) /\ j.try <= MaxRetries
  <2> DEFINE nj == Again(j, s)
  <2>1. job' = [job EXCEPT ![r][s] = nj]
    BY <1>6 DEF WaitOver, QueryInv, TypeOK
  <2>2. nj = [at |-> "reading", from |-> j.from, try |-> j.try + 1, page |-> Zero,
              unread |-> Matching(s, j.from)]
    BY DEF Again, Query
  <2>3. j.from \in Nat /\ j.try + 1 \in 0..(MaxRetries + 1)
    <3>1. j.from \in 0..Days /\ j.try \in 0..(MaxRetries + 1)
      BY <1>3 DEF Jobs
    <3> QED
      BY <1>6, <3>1, AzureAssumption
  <2>4. PICK k \in Nat : j.from = k * step
    BY <1>3 DEF Reads
  <2>5. /\ 3 * j.from <= endDate
        /\ \A row \in Rows :
             c[row] = Kept(usage, step, endDate, s, row, j.from)
    BY <1>3 DEF Reads
  <2>6. nj \in Jobs /\ nj.at = "reading" /\ Fits(usage, step, endDate, nj, c, s)
    <3> HIDE DEF nj, j, c
    <3> QED
      BY <2>2, <2>3, <2>4, <2>5, NewQuery
  <2> HIDE DEF nj
  <2> QED
    BY <1>1, <2>1, <2>6, OnlyJobChanges
<1> QED
  BY <1>4, <1>5, <1>6 DEF WaitOver, QueryFails

\* Every step keeps the invariant of the queries.
LEMMA QueryInvNext == QueryInv /\ [Next]_vars => QueryInv'
<1> SUFFICES ASSUME QueryInv, [Next]_vars
             PROVE  QueryInv'
  OBVIOUS
<1>1. ASSUME NEW r \in Requests, ListSubscriptions(r) \/ ListFails(r) \/ Answer(r)
      PROVE  QueryInv'
  <2>1. UNCHANGED <<config, job, collected, counted, basis>>
    BY <1>1 DEF ListSubscriptions, ListFails, Answer
  <2>2. /\ request' \in [Requests -> {"new", "fetching", "answered", "refused"}]
        /\ listed' \in [Requests -> SUBSET Subscriptions]
    <3>1. /\ request \in [Requests -> {"new", "fetching", "answered", "refused"}]
          /\ listed \in [Requests -> SUBSET Subscriptions]
      BY DEF QueryInv, TypeOK
    <3>2. CASE ListSubscriptions(r)
      BY <3>1, <3>2 DEF ListSubscriptions
    <3>3. CASE ListFails(r) \/ Answer(r)
      BY <3>1, <3>3 DEF ListFails, Answer
    <3> QED
      BY <1>1, <3>2, <3>3
  <2>3. \A q \in Requests : request'[q] = "new" => request[q] = "new"
    BY <1>1 DEF ListSubscriptions, ListFails, Answer, QueryInv, TypeOK
  <2>4. TypeOK'
    BY <2>1, <2>2 DEF QueryInv, TypeOK, Jobs, config
  <2>5. NewInv'
    BY <2>1, <2>3 DEF QueryInv, NewInv, At
  <2>6. EndInv' /\ JobInv' /\ BasisInv'
    BY <2>1 DEF QueryInv, EndInv, JobInv, BasisInv, At, Known, config
  <2> QED
    BY <2>4, <2>5, <2>6 DEF QueryInv
<1>2. ASSUME NEW r \in Requests, NEW s \in Subscriptions, QueryStep(r, s)
      PROVE  QueryInv'
  BY <1>2, ReadRowKeeps, EndOfPagesKeeps, TroubleKeeps DEF QueryStep
<1>3. CASE UNCHANGED vars
  <2>1. TypeOK'
    BY <1>3 DEF QueryInv, TypeOK, Jobs, vars, config
  <2>2. EndInv' /\ JobInv' /\ NewInv' /\ BasisInv'
    BY <1>3 DEF QueryInv, EndInv, JobInv, NewInv, BasisInv, At, Known, vars, config
  <2> QED
    BY <2>1, <2>2 DEF QueryInv
<1> QED
  BY <1>1, <1>2, <1>3, StartGroupKeeps DEF Next

\* The invariant holds in every state.
LEMMA QueryInvAlways == Spec => []QueryInv
BY QueryInvInit, QueryInvNext, PTL DEF Spec

\* Types: attempts stay within the limit, windows within the range of days, and
\* no row is read twice in an attempt nor kept twice by a query.
THEOREM TypeCorrect == Spec => []TypeOK
<1>1. QueryInv => TypeOK
  BY DEF QueryInv
<1> QED
  BY <1>1, QueryInvAlways, PTL

\* A subscription that is done has each of its rows in the range exactly once,
\* but for those whose usage goes on from one window to the next, whatever the
\* size of the windows and whatever was limited and retried.
THEOREM EveryRowOnce == Spec => []EachRowOnce
<1>1. QueryInv => EachRowOnce
  <2> SUFFICES ASSUME QueryInv, NEW r \in Requests, NEW s \in Subscriptions,
                      At(r, s) = "done", NEW row \in Rows
               PROVE  collected[r][s][row] =
                        IF row.sub = s /\ InRange(row) /\ InOneWindow(row) THEN 1 ELSE 0
    BY DEF EachRowOnce
  <2>1. collected[r][s][row] = AllDue(usage, step, endDate, s, row)
    BY JobFacts DEF Fits
  <2>2. Due(usage, step, endDate, s, row) <=>
          row.sub = s /\ InRange(row) /\ InOneWindow(row)
    BY DEF Due, WithinOne, InRange, InOneWindow, UsageEnd
  <2> QED
    BY <2>1, <2>2 DEF AllDue
<1> QED
  BY <1>1, QueryInvAlways, PTL

\* An unknown row that is estimated rests on a known row, and on all of its own
\* subscription's, whatever other requests add to the accumulator they share.
THEOREM UnknownRest == Spec => []UnknownRestOnOwn
<1>1. QueryInv => UnknownRestOnOwn
  <2> SUFFICES ASSUME QueryInv, NEW r \in Requests, NEW s \in Subscriptions,
                      At(r, s) = "done", NEW which \in Estimated(r, s), ~which.known
               PROVE  /\ \E row \in Rows : basis[r][s][row] > 0
                      /\ \A row \in Rows : basis[r][s][row] >= Known(collected[r][s])[row]
    BY DEF UnknownRestOnOwn
  <2>1. \A row \in Rows : basis[r][s][row] >= Known(collected[r][s])[row]
    BY DEF QueryInv, BasisInv
  <2>2. PICK other \in Rows : other.known /\ collected[r][s][other] > 0
    BY DEF Estimated
  <2>3. Known(collected[r][s])[other] = collected[r][s][other]
    BY <2>2 DEF Known
  <2>4. basis[r][s][other] \in Nat /\ collected[r][s][other] \in {0, 1}
    BY DEF QueryInv, TypeOK
  <2>5. basis[r][s][other] >= collected[r][s][other]
    BY <2>1, <2>3
  <2>6. basis[r][s][other] > 0
    BY <2>2, <2>4, <2>5
  <2> QED
    BY <2>1, <2>6
<1> QED
  BY <1>1, QueryInvAlways, PTL

(***************************************************************************)
(* The accumulator.  Only the step that completes a subscription counts,   *)
(* and what is collected then has no row of another subscription.          *)
(***************************************************************************)
Counters(row) ==
  {r \in Requests : At(r, row.sub) = "done" /\ Known(collected[r][row.sub])[row] > 0}

\* Steps that complete no subscription leave the accumulator as it is.
LEMMA NoneCompleted ==
  ASSUME WholeSubscriptions, counted' = counted,
         \A r \in Requests, s \in Subscriptions :
           /\ job'[r][s].at = "done" <=> job[r][s].at = "done"
           /\ job[r][s].at = "done" => collected'[r][s] = collected[r][s]
  PROVE  WholeSubscriptions'
<1> SUFFICES ASSUME NEW row \in Rows
             PROVE  counted'[row] = Cardinality(Counters(row)')
  BY DEF WholeSubscriptions, Counters, At, Known
<1>1. row.sub \in Subscriptions
  BY AzureAssumption
<1>2. Counters(row)' = Counters(row)
  BY <1>1 DEF Counters, At, Known
<1>3. counted[row] = Cardinality(Counters(row))
  BY DEF WholeSubscriptions, Counters
<1> QED
  BY <1>2, <1>3

\* The step that completes a subscription counts each of its known rows once.
LEMMA OneCompleted ==
  ASSUME QueryInv, QueryInv', WholeSubscriptions,
         NEW r \in Requests, NEW s \in Subscriptions,
         job[r][s].at = "reading", job'[r][s].at = "done",
         UNCHANGED config,
         \A q \in Requests, t \in Subscriptions :
           ~(q = r /\ t = s) => job'[q][t] = job[q][t] /\ collected'[q][t] = collected[q][t],
         counted' = Together(counted, Known(collected'[r][s]))
  PROVE  WholeSubscriptions'
<1> SUFFICES ASSUME NEW row \in Rows
             PROVE  counted'[row] = Cardinality(Counters(row)')
  BY DEF WholeSubscriptions, Counters, At, Known
<1> DEFINE more == Known(collected'[r][s])[row]
<1>1. row.sub \in Subscriptions /\ IsFiniteSet(Requests)
  BY AzureAssumption
<1>2. counted[row] = Cardinality(Counters(row)) /\ IsFiniteSet(Counters(row))
  BY <1>1, FS_Subset DEF WholeSubscriptions, Counters
<1>3. counted'[row] = counted[row] + more
  BY DEF Together
<1>4. collected'[r][s][row] = AllDue(usage', step', endDate', s, row)
  BY DEF QueryInv, JobInv, Fits
<1>5. more = IF row.known THEN collected'[r][s][row] ELSE 0
  BY DEF Known
<1>6. more \in {0, 1}
  BY <1>4, <1>5 DEF AllDue
<1>7. CASE row.sub = s
  <2>1. r \notin Counters(row)
    BY <1>7 DEF Counters, At
  <2>2. r \in Counters(row)' <=> more = 1
    BY <1>6, <1>7 DEF Counters, At
  <2>3. \A q \in Requests : q # r => (q \in Counters(row)' <=> q \in Counters(row))
    BY <1>1 DEF Counters, At, Known
  <2>4. Counters(row) \subseteq Requests /\ Counters(row)' \subseteq Requests
    BY DEF Counters
  <2>5. CASE more = 1
    <3>1. Counters(row)' = Counters(row) \cup {r}
      BY <2>2, <2>3, <2>4, <2>5
    <3>2. Cardinality(Counters(row) \cup {r}) = Cardinality(Counters(row)) + 1
      BY <1>2, <2>1, FS_AddElement
    <3> QED
      BY <1>2, <1>3, <2>5, <3>1, <3>2
  <2>6. CASE more = 0
    <3>1. r \notin Counters(row)'
      <4> HIDE DEF more
      <4> QED
        BY <2>2, <2>6
    <3>2. Counters(row)' = Counters(row)
      <4>1. \A q : q \in Counters(row)' <=> q \in Counters(row)
        BY <2>1, <2>3, <2>4, <3>1
      <4> QED
        BY <4>1
    <3>3. counted[row] \in Nat
      BY DEF QueryInv, TypeOK
    <3> QED
      BY <1>2, <1>3, <2>6, <3>2, <3>3
  <2> QED
    BY <1>6, <2>5, <2>6
<1>8. CASE row.sub # s
  <2>1. more = 0
    BY <1>4, <1>5, <1>8 DEF AllDue, Due
  <2>2. Counters(row)' = Counters(row)
    BY <1>1, <1>8 DEF Counters, At, Known
  <2>3. counted[row] \in Nat
    BY DEF QueryInv, TypeOK
  <2> QED
    BY <1>2, <1>3, <2>1, <2>2, <2>3
<1> QED
  BY <1>7, <1>8

\* Only the end of a last window changes what the accumulator is made of.
LEMMA WholeNext == QueryInv /\ QueryInv' /\ WholeSubscriptions /\ [Next]_vars => WholeSubscriptions'
<1> SUFFICES ASSUME QueryInv, QueryInv', WholeSubscriptions, [Next]_vars
             PROVE  WholeSubscriptions'
  OBVIOUS
<1>1. /\ job \in [Requests -> [Subscriptions -> Jobs]]
      /\ collected \in [Requests -> [Subscriptions -> [Rows -> {0, 1}]]]
  BY DEF QueryInv, TypeOK
<1>2. ASSUME UNCHANGED <<job, collected, counted>>
      PROVE  WholeSubscriptions'
  BY <1>2, NoneCompleted
<1>3. ASSUME NEW r \in Requests, StartGroup(r)
      PROVE  WholeSubscriptions'
  <2>1. PICK g \in 0..Cardinality(listed[r]) :
          /\ \A s \in GroupOf(r, g) : At(r, s) = "waiting"
          /\ job' = [job EXCEPT ![r] =
                       [s \in Subscriptions |-> IF s \in GroupOf(r, g) THEN Query(s, 0) ELSE @[s]]]
          /\ UNCHANGED <<collected, counted>>
    BY <1>3 DEF StartGroup
  <2>2. \A q \in Requests, s \in Subscriptions :
          job'[q][s] = IF q = r /\ s \in GroupOf(r, g) THEN Query(s, 0) ELSE job[q][s]
    BY <1>1, <2>1
  <2>3. \A s \in Subscriptions : Query(s, 0).at # "done"
    BY DEF Query
  <2> QED
    BY <2>1, <2>2, <2>3, NoneCompleted DEF At
<1>4. ASSUME NEW r \in Requests, NEW s \in Subscriptions,
             ReadRow(r, s) \/ RateLimited(r, s) \/ WaitOver(r, s) \/ QueryFails(r, s)
      PROVE  WholeSubscriptions'
  <2>1. UNCHANGED <<collected, counted>>
    BY <1>4 DEF ReadRow, RateLimited, WaitOver, QueryFails
  <2>2. PICK nj : nj.at # "done" /\ job' = [job EXCEPT ![r][s] = nj]
    <3>1. CASE ReadRow(r, s)
      <4>1. PICK row : job' = [job EXCEPT ![r][s] = TakeRow(@, row)]
        BY <3>1 DEF ReadRow
      <4>2. job[r][s].at # "done"
        BY <3>1 DEF ReadRow, At
      <4>3. TakeRow(job[r][s], row).at # "done"
        BY <4>2 DEF TakeRow
      <4>4. job' = [job EXCEPT ![r][s] = TakeRow(job[r][s], row)]
        BY <1>1, <4>1
      <4> QED
        BY <4>3, <4>4
    <3>2. CASE RateLimited(r, s)
      <4>1. job' = [job EXCEPT ![r][s] = [job[r][s] EXCEPT !.at = "limited"]]
        BY <1>1, <3>2 DEF RateLimited
      <4>2. [job[r][s] EXCEPT !.at = "limited"].at = "limited"
        BY <1>1 DEF Jobs
      <4> QED
        BY <4>1, <4>2
    <3>3. CASE Fail(r, s)
      <4>1. [Waiting EXCEPT !.at = "failed"].at = "failed"
        BY DEF Waiting
      <4> QED
        BY <3>3, <4>1 DEF Fail
    <3>4. CASE job' = [job EXCEPT ![r][s] = Again(@, s)]
      <4>1. Again(job[r][s], s).at = "reading"
        BY DEF Again, Query
      <4>2. job' = [job EXCEPT ![r][s] = Again(job[r][s], s)]
        BY <1>1, <3>4
      <4> QED
        BY <4>1, <4>2
    <3> QED
      BY <1>4, <3>1, <3>2, <3>3, <3>4 DEF WaitOver, QueryFails
  <2>3. job[r][s].at # "done"
    BY <1>4 DEF ReadRow, RateLimited, WaitOver, QueryFails, At
  <2>4. \A q \in Requests, t \in Subscriptions :
          job'[q][t] = IF q = r /\ t = s THEN nj ELSE job[q][t]
    BY <1>1, <2>2
  <2> QED
    BY <2>1, <2>2, <2>3, <2>4, NoneCompleted
<1>5. ASSUME NEW r \in Requests, NEW s \in Subscriptions, EndOfPages(r, s)
      PROVE  WholeSubscriptions'
  <2> DEFINE j == job[r][s]
  <2>1. /\ j.at = "reading"
        /\ collected' = [collected EXCEPT ![r][s] = Together(@, j.page)]
        /\ CountAll(r, s)
        /\ UNCHANGED config
    BY <1>5 DEF EndOfPages
  <2>2. PICK nj : /\ job' = [job EXCEPT ![r][s] = nj]
                  /\ IF HasNext(j.from) THEN nj.at = "reading" ELSE nj.at = "done"
    <3>1. CASE HasNext(j.from)
      BY <1>5, <3>1 DEF EndOfPages, Query
    <3>2. CASE ~HasNext(j.from)
      <4>1. [Waiting EXCEPT !.at = "done"].at = "done"
        BY DEF Waiting
      <4> QED
        BY <1>5, <3>2, <4>1 DEF EndOfPages
    <3> QED
      BY <3>1, <3>2
  <2>3. \A q \in Requests, t \in Subscriptions :
          job'[q][t] = IF q = r /\ t = s THEN nj ELSE job[q][t]
    BY <1>1, <2>2
  <2>4. \A q \in Requests, t \in Subscriptions :
          ~(q = r /\ t = s) => collected'[q][t] = collected[q][t]
    BY <1>1, <2>1
  <2>5. CASE HasNext(j.from)
    <3>1. counted' = counted
      BY <2>1, <2>5 DEF CountAll
    <3> QED
      BY <2>1, <2>2, <2>3, <2>4, <2>5, <3>1, NoneCompleted
  <2>6. CASE ~HasNext(j.from)
    <3>1. counted' = Together(counted, Known(collected'[r][s]))
      BY <2>1, <2>6 DEF CountAll
    <3>2. job'[r][s].at = "done"
      BY <2>2, <2>3, <2>6
    <3> QED
      BY <2>1, <2>3, <2>4, <3>1, <3>2, OneCompleted
  <2> QED
    BY <2>5, <2>6
<1>6. ASSUME NEW r \in Requests, ListSubscriptions(r) \/ ListFails(r) \/ Answer(r)
      PROVE  WholeSubscriptions'
  BY <1>2, <1>6 DEF ListSubscriptions, ListFails, Answer
<1> QED
  BY <1>2, <1>3, <1>4, <1>5, <1>6 DEF Next, QueryStep, vars

\* The shared accumulator is made of complete subscriptions, each counted once
\* for a request: attempts cut short by a limit and subscriptions that fail
\* half-way leave nothing in it.
THEOREM OnlyWholeSubscriptions == Spec => []WholeSubscriptions
<1>1. Init => WholeSubscriptions
  <2> SUFFICES ASSUME Init, NEW row \in Rows
               PROVE  counted[row] = Cardinality(Counters(row))
    BY DEF WholeSubscriptions, Counters
  <2>1. row.sub \in Subscriptions
    BY AzureAssumption
  <2>2. Counters(row) = {}
    BY <2>1 DEF Init, Counters, At, Waiting
  <2> QED
    BY <2>2, FS_EmptySet DEF Init, Zero
<1>2. QueryInv /\ QueryInv' /\ WholeSubscriptions /\ [Next]_vars => WholeSubscriptions'
  BY WholeNext
<1> QED
  BY <1>1, <1>2, QueryInvAlways, PTL DEF Spec

\* What the accumulator has and what was estimated from it.
THEOREM SoundAccumulator == Spec => []AccumulatorIsSound
<1>1. WholeSubscriptions /\ UnknownRestOnOwn => AccumulatorIsSound
  BY DEF AccumulatorIsSound
<1> QED
  BY <1>1, OnlyWholeSubscriptions, UnknownRest, PTL

(***************************************************************************)
(* Groups.  A query under way is one of a group all of whose earlier       *)
(* groups are settled, so that those under way are of the same group.      *)
(***************************************************************************)
Active(r, s) == At(r, s) \in {"reading", "limited"}

GroupInv ==
  \A r \in Requests, s \in Subscriptions :
    Active(r, s) => \E g \in Nat : s \in GroupOf(r, g) /\ Before(r, g)

\* Subscriptions are in the list in their order: no two have the same place.
LEMMA PlacesDiffer ==
  ASSUME QueryInv, NEW r \in Requests, NEW s \in listed[r], NEW t \in listed[r], s < t
  PROVE  /\ Cardinality(Earlier(r, s)) < Cardinality(Earlier(r, t))
         /\ Cardinality(Earlier(r, s)) \in Nat
         /\ Cardinality(Earlier(r, t)) \in Nat
<1>1. listed[r] \subseteq Subscriptions
  BY DEF QueryInv, TypeOK
<1>2. \A u \in listed[r] : u \in Nat
  BY <1>1, AzureAssumption
<1>3. IsFiniteSet(Earlier(r, t)) /\ Cardinality(Earlier(r, t)) \in Nat
  <2>1. IsFiniteSet(listed[r])
    BY <1>1, AzureAssumption, FS_Subset
  <2> QED
    BY <2>1, FS_Subset, FS_CardinalityType DEF Earlier
<1>4. Earlier(r, s) \subseteq Earlier(r, t)
  BY <1>2 DEF Earlier
<1>5. s \in Earlier(r, t) /\ s \notin Earlier(r, s)
  BY <1>2 DEF Earlier
<1>6. /\ IsFiniteSet(Earlier(r, s))
      /\ Cardinality(Earlier(r, s)) <= Cardinality(Earlier(r, t))
      /\ Cardinality(Earlier(r, s)) = Cardinality(Earlier(r, t)) => Earlier(r, s) = Earlier(r, t)
  BY <1>3, <1>4, FS_Subset
<1>7. Cardinality(Earlier(r, s)) \in Nat
  BY <1>6, FS_CardinalityType
<1> QED
  BY <1>3, <1>5, <1>6, <1>7

\* A group has no more subscriptions than configured.
LEMMA GroupSize ==
  ASSUME QueryInv, NEW r \in Requests, NEW g \in Nat, size # 0
  PROVE  IsFiniteSet(GroupOf(r, g)) /\ Cardinality(GroupOf(r, g)) <= size
<1> DEFINE place == [s \in GroupOf(r, g) |-> Cardinality(Earlier(r, s))]
           least == g * size
           places == least..(least + size - 1)
<1>1. size \in Nat \ {0}
  BY ConfigTypes
<1>2. least \in Nat /\ (g + 1) * size = least + size
  BY <1>1, SMT
<1>3. \A s \in GroupOf(r, g) :
        /\ s \in listed[r]
        /\ least <= Cardinality(Earlier(r, s))
        /\ Cardinality(Earlier(r, s)) < least + size
  <2> HIDE DEF least
  <2> QED
    BY <1>2 DEF GroupOf, least
<1>4. \A s \in GroupOf(r, g) : Cardinality(Earlier(r, s)) \in Nat /\ s \in Nat
  <2>1. listed[r] \subseteq Subscriptions /\ IsFiniteSet(Subscriptions)
    BY AzureAssumption DEF QueryInv, TypeOK
  <2>2. \A s \in listed[r] : IsFiniteSet(Earlier(r, s))
    BY <2>1, FS_Subset DEF Earlier
  <2> QED
    BY <1>3, <2>1, <2>2, FS_CardinalityType, AzureAssumption
<1>5. place \in Injection(GroupOf(r, g), places)
  <2>1. place \in [GroupOf(r, g) -> places]
    <3> HIDE DEF least
    <3> QED
      BY <1>1, <1>2, <1>3, <1>4
  <2>2. ASSUME NEW s \in GroupOf(r, g), NEW t \in GroupOf(r, g), place[s] = place[t]
        PROVE  s = t
    <3>1. Cardinality(Earlier(r, s)) = Cardinality(Earlier(r, t))
      BY <2>2
    <3>2. s \in Nat /\ t \in Nat /\ s \in listed[r] /\ t \in listed[r]
      BY <1>3, <1>4
    <3>3. ~(s < t) /\ ~(t < s)
      BY <3>1, <3>2, PlacesDiffer
    <3> QED
      BY <3>2, <3>3
  <2> HIDE DEF place, places
  <2> QED
    BY <2>1, <2>2 DEF Injection, IsInjective
<1>6. IsFiniteSet(places) /\ Cardinality(places) = size
  <2> HIDE DEF least
  <2>1. PICK a \in Int : a = least
    BY <1>2
  <2>2. PICK b \in Int : b = a + size - 1
    BY <1>1
  <2>3. IsFiniteSet(a..b) /\ Cardinality(a..b) = IF a > b THEN 0 ELSE b - a + 1
    BY FS_Interval
  <2>4. places = a..b
    BY <2>1, <2>2
  <2> HIDE DEF places
  <2> QED
    BY <1>1, <2>2, <2>3, <2>4
<1> HIDE DEF place, places
<1> QED
  BY <1>5, <1>6, FS_Injection

\* Steps that leave the settled settled, and under way only what was, keep it.
LEMMA GroupKept ==
  ASSUME GroupInv, size' = size,
         \A r \in Requests, s \in Subscriptions :
           Active(r, s)' => Active(r, s) /\ listed'[r] = listed[r],
         \A r \in Requests, s \in Subscriptions : Settled(r, s) => Settled(r, s)',
         \A r \in Requests : listed[r] \subseteq Subscriptions
  PROVE  GroupInv'
<1> SUFFICES ASSUME NEW r \in Requests, NEW s \in Subscriptions, Active(r, s)'
             PROVE  \E g \in Nat : s \in GroupOf(r, g)' /\ Before(r, g)'
  BY DEF GroupInv
<1>1. PICK g \in Nat : s \in GroupOf(r, g) /\ Before(r, g)
  BY DEF GroupInv
<1>2. \A h : GroupOf(r, h)' = GroupOf(r, h) /\ GroupOf(r, h) \subseteq Subscriptions
  BY DEF GroupOf, Earlier
<1>3. Before(r, g)'
  BY <1>1, <1>2 DEF Before
<1> QED
  BY <1>1, <1>2, <1>3

\* A group starts when those before it are settled, and no one becomes unsettled.
LEMMA GroupNext == QueryInv /\ GroupInv /\ [Next]_vars => GroupInv'
<1> SUFFICES ASSUME QueryInv, GroupInv, [Next]_vars
             PROVE  GroupInv'
  OBVIOUS
<1>1. /\ job \in [Requests -> [Subscriptions -> Jobs]]
      /\ listed \in [Requests -> SUBSET Subscriptions]
  BY DEF QueryInv, TypeOK
<1>2. \A r \in Requests : listed[r] \subseteq Subscriptions
  BY <1>1
<1>3. ASSUME UNCHANGED <<job, size, listed>>
      PROVE  GroupInv'
  BY <1>2, <1>3, GroupKept DEF Active, Settled, At
<1>4. ASSUME NEW r \in Requests, ListSubscriptions(r)
      PROVE  GroupInv'
  <2>1. UNCHANGED <<job, size>> /\ request[r] = "new"
    BY <1>4 DEF ListSubscriptions, config
  <2>2. \A q \in Requests : q # r => listed'[q] = listed[q]
    BY <1>1, <1>4 DEF ListSubscriptions
  <2>3. \A s \in Subscriptions : ~Active(r, s)
    BY <2>1 DEF QueryInv, NewInv, Active
  <2>4. \A q \in Requests, s \in Subscriptions :
          Active(q, s)' => Active(q, s) /\ listed'[q] = listed[q]
    BY <2>1, <2>2, <2>3 DEF Active, At
  <2> QED
    BY <1>2, <2>1, <2>4, GroupKept DEF Settled, At
<1>5. ASSUME NEW r \in Requests, ListFails(r) \/ Answer(r)
      PROVE  GroupInv'
  BY <1>3, <1>5 DEF ListFails, Answer, config
<1>6. ASSUME NEW r \in Requests, NEW s \in Subscriptions, QueryStep(r, s)
      PROVE  GroupInv'
  <2>1. PICK nj : job' = [job EXCEPT ![r][s] = nj]
    BY <1>1, <1>6 DEF QueryStep, ReadRow, EndOfPages, RateLimited, WaitOver, QueryFails, Fail
  <2>2. UNCHANGED <<size, listed>> /\ Active(r, s)
    BY <1>6 DEF QueryStep, ReadRow, EndOfPages, RateLimited, WaitOver, QueryFails,
                config, Active, At
  <2>3. \A q \in Requests, t \in Subscriptions :
          ~(q = r /\ t = s) => job'[q][t] = job[q][t]
    BY <1>1, <2>1
  <2>4. \A q \in Requests, t \in Subscriptions :
          Active(q, t)' => Active(q, t) /\ listed'[q] = listed[q]
    BY <2>2, <2>3 DEF Active, At
  <2>5. ~Settled(r, s)
    BY <2>2 DEF Active, Settled
  <2>6. \A q \in Requests, t \in Subscriptions : Settled(q, t) => Settled(q, t)'
    BY <2>3, <2>5 DEF Settled, At
  <2> QED
    BY <1>2, <2>2, <2>4, <2>6, GroupKept
<1>7. ASSUME NEW r \in Requests, StartGroup(r)
      PROVE  GroupInv'
  <2>1. PICK g \in 0..Cardinality(listed[r]) :
          /\ \A s \in GroupOf(r, g) : At(r, s) = "waiting"
          /\ Before(r, g)
          /\ job' = [job EXCEPT ![r] =
                       [s \in Subscriptions |-> IF s \in GroupOf(r, g) THEN Query(s, 0) ELSE @[s]]]
          /\ UNCHANGED <<config, request, listed, collected, counted, basis>>
    BY <1>7 DEF StartGroup
  <2>2. \A q \in Requests, s \in Subscriptions :
          ~(q = r /\ s \in GroupOf(r, g)) => job'[q][s] = job[q][s]
    BY <1>1, <2>1
  <2>3. \A q, h : GroupOf(q, h)' = GroupOf(q, h)
    BY <2>1 DEF GroupOf, Earlier, config
  <2>4. \A q, h : q \in Requests => GroupOf(q, h) \subseteq Subscriptions
    BY <1>2 DEF GroupOf
  <2>5. \A q \in Requests, s \in Subscriptions : Settled(q, s) => Settled(q, s)'
    BY <2>1, <2>2 DEF Settled, At
  <2>6. \A q \in Requests, h \in Nat : Before(q, h) => Before(q, h)'
    BY <2>3, <2>4, <2>5 DEF Before
  <2>7. SUFFICES ASSUME NEW q \in Requests, NEW s \in Subscriptions, Active(q, s)'
                 PROVE  \E h \in Nat : s \in GroupOf(q, h)' /\ Before(q, h)'
    BY DEF GroupInv
  <2>8. CASE q = r /\ s \in GroupOf(r, g)
    <3>1. g \in Nat
      OBVIOUS
    <3> QED
      BY <2>1, <2>3, <2>6, <2>8, <3>1
  <2>9. CASE ~(q = r /\ s \in GroupOf(r, g))
    <3>1. Active(q, s)
      BY <2>2, <2>7, <2>9 DEF Active, At
    <3>2. PICK h \in Nat : s \in GroupOf(q, h) /\ Before(q, h)
      BY <3>1 DEF GroupInv
    <3> QED
      BY <2>3, <2>6, <3>2
  <2> QED
    BY <2>8, <2>9
<1>8. CASE UNCHANGED vars
  BY <1>3, <1>8 DEF vars, config
<1> QED
  BY <1>4, <1>5, <1>6, <1>7, <1>8 DEF Next

\* A request never queries more subscriptions at a time than configured: all
\* those under way are of one group, since the groups before it are settled.
THEOREM GroupLimitHolds == Spec => []GroupLimit
<1>1. Init => GroupInv
  BY DEF Init, GroupInv, Active, At, Waiting
<1>2. QueryInv /\ GroupInv /\ [Next]_vars => GroupInv'
  BY GroupNext
<1>3. QueryInv /\ GroupInv => GroupLimit
  <2> SUFFICES ASSUME QueryInv, GroupInv, NEW r \in Requests, size # 0
               PROVE  Cardinality({s \in Subscriptions : Active(r, s)}) <= size
    BY DEF GroupLimit, Active
  <2> DEFINE active == {s \in Subscriptions : Active(r, s)}
  <2>1. CASE active = {}
    BY <2>1, ConfigTypes, FS_EmptySet
  <2>2. CASE active # {}
    <3>1. PICK s \in active : TRUE
      BY <2>2
    <3>2. PICK g \in Nat : s \in GroupOf(r, g) /\ Before(r, g)
      BY <3>1 DEF GroupInv
    <3>3. active \subseteq GroupOf(r, g)
      <4> SUFFICES ASSUME NEW t \in active
                   PROVE  t \in GroupOf(r, g)
        OBVIOUS
      <4>1. PICK h \in Nat : t \in GroupOf(r, h) /\ Before(r, h)
        BY DEF GroupInv
      <4>2. ~Settled(r, s) /\ ~Settled(r, t)
        BY <3>1 DEF Active, Settled
      <4>3. ~(g < h) /\ ~(h < g)
        <5>1. g < h => g \in 0..(h - 1)
          BY <3>2, <4>1
        <5>2. h < g => h \in 0..(g - 1)
          BY <3>2, <4>1
        <5> QED
          BY <3>2, <4>1, <4>2, <5>1, <5>2 DEF Before
      <4> QED
        BY <4>1, <4>3
    <3>4. IsFiniteSet(GroupOf(r, g)) /\ Cardinality(GroupOf(r, g)) <= size
      BY GroupSize
    <3>5. IsFiniteSet(active) /\ Cardinality(active) <= Cardinality(GroupOf(r, g))
      BY <3>3, <3>4, FS_Subset
    <3>6. Cardinality(active) \in Nat /\ Cardinality(GroupOf(r, g)) \in Nat
      BY <3>4, <3>5, FS_CardinalityType
    <3> HIDE DEF active
    <3>7. Cardinality(active) <= size
      BY <3>4, <3>5, <3>6, ConfigTypes
    <3> QED
      BY <3>7 DEF active
  <2> QED
    BY <2>1, <2>2
<1> QED
  BY <1>1, <1>2, <1>3, QueryInvAlways, PTL DEF Spec

-----------------------------------------------------------------------------
(***************************************************************************)
(* Usage rows: adding energies of which some are not a number.             *)
(***************************************************************************)
Kwh == Nat \cup {NaN}

\* Plus is a commutative monoid of these.
LEMMA PlusLaws ==
  ASSUME NEW a \in Kwh, NEW b \in Kwh, NEW c \in Kwh
  PROVE /\ Plus(a, b) \in Kwh
        /\ Plus(a, b) = Plus(b, a)
        /\ Plus(Plus(a, b), c) = Plus(a, Plus(b, c))
        /\ Plus(a, 0) = a /\ Plus(0, a) = a
        /\ Plus(a, b) = NaN <=> a = NaN \/ b = NaN
  BY DEF Plus, Kwh, NaN

\* A sum of naturals is one.
LEMMA SumNat ==
  ASSUME NEW S, IsFiniteSet(S), NEW w, \A x \in S : w[x] \in Nat
  PROVE SumFunctionOnSet(w, S) \in Nat
  <1> DEFINE good == {n \in Nat : \A s \in SUBSET S : Cardinality(s) = n => SumFunctionOnSet(w, s) \in Nat}
  <1>1. \A s \in SUBSET S : IsFiniteSet(s) /\ Cardinality(s) \in Nat
    BY FS_Subset, FS_CardinalityType
  <1>2. 0 \in good
    <2> SUFFICES ASSUME NEW s \in SUBSET S, Cardinality(s) = 0 PROVE SumFunctionOnSet(w, s) \in Nat
      OBVIOUS
    <2>1. s = {}
      BY <1>1, FS_EmptySet
    <2> QED
      BY <2>1, SumEmpty
  <1>3. ASSUME NEW n \in Nat, n \in good PROVE n + 1 \in good
    <2> SUFFICES ASSUME NEW s \in SUBSET S, Cardinality(s) = n + 1 PROVE SumFunctionOnSet(w, s) \in Nat
      OBVIOUS
    <2>1. s # {}
      BY FS_EmptySet
    <2>2. PICK x \in s : SumFunctionOnSet(w, s) = w[x] + SumFunctionOnSet(w, s \ {x})
      BY <1>1, <2>1, SumChosen
    <2>3. Cardinality(s \ {x}) = n
      <3>1. Cardinality(s \ {x}) = Cardinality(s) - 1
        BY <1>1, FS_RemoveElement
      <3> QED
        BY <3>1
    <2>4. SumFunctionOnSet(w, s \ {x}) \in Nat
      BY <1>3, <2>3
    <2> QED
      BY <2>2, <2>4
  <1>4. Nat \subseteq good
    <2> HIDE DEF good
    <2> QED
      BY <1>2, <1>3, Induction
  <1> QED
    BY <1>1, <1>4

\* One step of the recursion, for the element that is chosen.
LEMMA SumOfChosen ==
  ASSUME NEW S, IsFiniteSet(S), S # {}, NEW w
  PROVE LET x == CHOOSE x \in S : TRUE
        IN  SumFunctionOnSet(w, S) = w[x] + SumFunctionOnSet(w, S \ {x})
  <1> DEFINE x == CHOOSE x \in S : TRUE
  <1> DEFINE U == S \ {x}
  <1>1. x \in S /\ IsFiniteSet(U)
    BY Smaller
  <1>2. PICK f : Sums(w, f, S) /\ SumFunctionOnSet(w, S) = f[S]
    BY SumOf
  <1>3. f[S] = w[x] + f[U]
    BY <1>2 DEF Sums, Added
  <1> HIDE DEF x
  <1>4. U \subseteq S
    OBVIOUS
  <1> HIDE DEF U
  <1>5. PICK g : Sums(w, g, U) /\ SumFunctionOnSet(w, U) = g[U]
    BY <1>1, SumOf
  <1>6. f[U] = g[U]
    BY <1>1, <1>2, <1>4, <1>5, SumsAlike
  <1>7. SumFunctionOnSet(w, S) = w[x] + SumFunctionOnSet(w, U)
    BY <1>2, <1>3, <1>5, <1>6
  <1> QED
    BY <1>7 DEF x, U

\* What the fold with Plus makes of s, with f for smaller sets.
Merged(w, f, s) ==
  IF s = {} THEN 0 ELSE LET x == CHOOSE x \in s : TRUE IN Plus(w[x], f[s \ {x}])

Merges(w, f, S) == f = [s \in SUBSET S |-> Merged(w, f, s)]

\* Its value: the sum, if all are numbers.
Whole(w, s) ==
  IF \E x \in s : w[x] = NaN THEN NaN ELSE SumFunctionOnSet(w, s)

\* The value satisfies the recursion.
LEMMA WholeMerges ==
  ASSUME NEW S, IsFiniteSet(S), NEW w, \A x \in S : w[x] \in Kwh
  PROVE Merges(w, [s \in SUBSET S |-> Whole(w, s)], S)
  <1> DEFINE g == [s \in SUBSET S |-> Whole(w, s)]
  <1>1. ASSUME NEW s \in SUBSET S PROVE Whole(w, s) = Merged(w, g, s)
    <2>1. CASE s = {}
      BY <2>1, SumEmpty DEF Whole, Merged
    <2>2. CASE s # {}
      <3> DEFINE x == CHOOSE x \in s : TRUE
      <3> DEFINE t == s \ {x}
      <3>1. IsFiniteSet(s)
        BY FS_Subset
      <3>2. x \in s /\ IsFiniteSet(t)
        BY <2>2, <3>1, Smaller
      <3>3. SumFunctionOnSet(w, s) = w[x] + SumFunctionOnSet(w, t)
        BY <2>2, <3>1, SumOfChosen
      <3>4. Merged(w, g, s) = Plus(w[x], g[t])
        BY <2>2 DEF Merged
      <3> HIDE DEF x
      <3>5. g[t] = Whole(w, t) /\ t \in SUBSET S
        OBVIOUS
      <3> HIDE DEF t, g
      <3>6. s = t \cup {x} /\ x \notin t
        BY <3>2 DEF t
      <3>7. CASE \E y \in s : w[y] = NaN
        <4>1. w[x] = NaN \/ Whole(w, t) = NaN
          BY <3>6, <3>7 DEF Whole
        <4>2. Plus(w[x], Whole(w, t)) = NaN
          BY <4>1 DEF Plus
        <4> QED
          BY <3>4, <3>5, <3>7, <4>2 DEF Whole
      <3>8. CASE ~\E y \in s : w[y] = NaN
        <4>1. \A y \in t : w[y] \in Nat
          BY <3>6, <3>8 DEF Kwh
        <4>2. SumFunctionOnSet(w, t) \in Nat
          BY <3>2, <4>1, SumNat
        <4>3. Whole(w, t) = SumFunctionOnSet(w, t) /\ Whole(w, s) = SumFunctionOnSet(w, s)
          BY <3>6, <3>8 DEF Whole
        <4>4. w[x] # NaN /\ SumFunctionOnSet(w, t) # NaN
          BY <3>2, <3>8, <4>2 DEF NaN
        <4>5. Plus(w[x], Whole(w, t)) = w[x] + SumFunctionOnSet(w, t)
          BY <4>3, <4>4 DEF Plus
        <4> QED
          BY <3>3, <3>4, <3>5, <4>3, <4>5
      <3> QED
        BY <3>7, <3>8
    <2> QED
      BY <2>1, <2>2
  <1>2. g = [s \in SUBSET S |-> Merged(w, g, s)]
    <2> HIDE DEF g
    <2>1. g = [s \in SUBSET S |-> Whole(w, s)]
      BY DEF g
    <2> QED
      BY <1>1, <2>1
  <1> QED
    BY <1>2 DEF Merges

\* Two functions that satisfy it are equal.
LEMMA MergesAlike ==
  ASSUME NEW S, IsFiniteSet(S), NEW w, NEW f, NEW g, Merges(w, f, S), Merges(w, g, S)
  PROVE f[S] = g[S]
  <1> DEFINE good == {n \in Nat : \A s \in SUBSET S : Cardinality(s) = n => f[s] = g[s]}
  <1>1. \A s \in SUBSET S : /\ IsFiniteSet(s) /\ Cardinality(s) \in Nat
                             /\ f[s] = Merged(w, f, s) /\ g[s] = Merged(w, g, s)
    BY FS_Subset, FS_CardinalityType DEF Merges
  <1>2. 0 \in good
    <2> SUFFICES ASSUME NEW s \in SUBSET S, Cardinality(s) = 0 PROVE f[s] = g[s]
      OBVIOUS
    <2>1. s = {}
      BY <1>1, FS_EmptySet
    <2> QED
      BY <1>1, <2>1 DEF Merged
  <1>3. ASSUME NEW n \in Nat, n \in good PROVE n + 1 \in good
    <2> SUFFICES ASSUME NEW s \in SUBSET S, Cardinality(s) = n + 1 PROVE f[s] = g[s]
      OBVIOUS
    <2> DEFINE x == CHOOSE x \in s : TRUE
    <2>1. s # {}
      BY FS_EmptySet
    <2>2. x \in s /\ Cardinality(s \ {x}) = n
      <3>1. IsFiniteSet(s)
        BY <1>1
      <3>2. x \in s /\ Cardinality(s \ {x}) = Cardinality(s) - 1
        BY <2>1, <3>1, Smaller
      <3> QED
        BY <3>2
    <2>3. Merged(w, f, s) = Plus(w[x], f[s \ {x}]) /\ Merged(w, g, s) = Plus(w[x], g[s \ {x}])
      BY <2>1 DEF Merged
    <2> HIDE DEF x
    <2>4. f[s \ {x}] = g[s \ {x}]
      BY <1>3, <2>2
    <2> QED
      BY <1>1, <2>2, <2>3, <2>4
  <1>4. Nat \subseteq good
    <2> HIDE DEF good
    <2> QED
      BY <1>2, <1>3, Induction
  <1> QED
    BY <1>1, <1>4

\* The energies of a set, added with Plus.
LEMMA EnergyIsWhole ==
  ASSUME NEW S, IsFiniteSet(S), NEW w, \A x \in S : w[x] \in Kwh
  PROVE EnergySum(w, S) = Whole(w, S)
  <1> DEFINE g == [s \in SUBSET S |-> Whole(w, s)]
  <1> DEFINE f == CHOOSE f : Merges(w, f, S)
  <1>1. Merges(w, g, S)
    BY WholeMerges
  <1>2. Merges(w, f, S)
    <2> HIDE DEF g
    <2> QED
      BY <1>1
  <1>3. EnergySum(w, S) = f[S]
    BY DEF EnergySum, FoldFunctionOnSet, MapThenFoldSet, Merges, Merged
  <1>4. g[S] = Whole(w, S)
    OBVIOUS
  <1> HIDE DEF f, g
  <1> QED
    BY <1>1, <1>2, <1>3, <1>4, MergesAlike

\* One more: sums of amounts.
LEMMA SumGrows ==
  ASSUME NEW S, IsFiniteSet(S), NEW x, x \notin S, NEW w, NEW v,
         \A y \in S : w[y] \in Nat, \A y \in S : v[y] = w[y], v[x] \in Nat
  PROVE /\ SumFunctionOnSet(v, S \cup {x}) = SumFunctionOnSet(w, S) + v[x]
        /\ SumFunctionOnSet(w, S) \in Nat
  <1> DEFINE T == S \cup {x}
  <1>1. IsFiniteSet(T)
    BY FS_AddElement
  <1>2. \A y \in T : v[y] \in Int
    OBVIOUS
  <1>3. S \in SUBSET T /\ x \in T \ S
    OBVIOUS
  <1>4. SumFunctionOnSet(v, S \cup {x}) = SumFunctionOnSet(v, S) + v[x]
    <2> HIDE DEF T
    <2> QED
      BY <1>1, <1>2, <1>3, SumAdd
  <1>5. SumFunctionOnSet(v, S) = SumFunctionOnSet(w, S)
    BY SumAlike
  <1>6. SumFunctionOnSet(w, S) \in Nat
    BY SumNat
  <1> QED
    BY <1>4, <1>5, <1>6

\* One of them changes.
LEMMA SumChanges ==
  ASSUME NEW S, IsFiniteSet(S), NEW x \in S, NEW d \in Nat, NEW w, NEW v,
         \A y \in S : w[y] \in Nat, \A y \in S \ {x} : v[y] = w[y], v[x] = w[x] + d
  PROVE SumFunctionOnSet(v, S) = SumFunctionOnSet(w, S) + d
  <1> DEFINE U == S \ {x}
  <1>1. IsFiniteSet(U) /\ x \notin U /\ U \cup {x} = S
    BY FS_RemoveElement
  <1>2. /\ w[x] \in Nat /\ v[x] \in Nat
        /\ \A y \in U : w[y] \in Nat
        /\ \A y \in U : v[y] = w[y]
    OBVIOUS
  <1> HIDE DEF U
  <1>3. ASSUME NEW a, NEW b, \A y \in U : a[y] \in Nat, \A y \in U : b[y] = a[y], b[x] \in Nat
        PROVE /\ SumFunctionOnSet(b, U \cup {x}) = SumFunctionOnSet(a, U) + b[x]
              /\ SumFunctionOnSet(a, U) \in Nat
    BY <1>1, <1>3, SumGrows
  <1>4. SumFunctionOnSet(v, U \cup {x}) = SumFunctionOnSet(w, U) + v[x]
    BY <1>2, <1>3
  <1>5. /\ SumFunctionOnSet(w, U \cup {x}) = SumFunctionOnSet(w, U) + w[x]
        /\ SumFunctionOnSet(w, U) \in Nat
    BY <1>2, <1>3
  <1> QED
    BY <1>1, <1>2, <1>4, <1>5

\* What is known of a sum of energies.
LEMMA EnergyFacts ==
  ASSUME NEW S, IsFiniteSet(S), NEW w, \A x \in S : w[x] \in Kwh
  PROVE /\ EnergySum(w, S) \in Kwh
        /\ EnergySum(w, S) = NaN => \E x \in S : w[x] = NaN
        /\ S = {} => EnergySum(w, S) = 0
  <1>1. EnergySum(w, S) = Whole(w, S)
    BY EnergyIsWhole
  <1>2. CASE \E x \in S : w[x] = NaN
    BY <1>1, <1>2 DEF Whole, Kwh
  <1>3. CASE ~\E x \in S : w[x] = NaN
    <2>1. \A x \in S : w[x] \in Nat
      BY <1>3 DEF Kwh
    <2>2. SumFunctionOnSet(w, S) \in Nat
      BY <2>1, SumNat
    <2>3. Whole(w, S) = SumFunctionOnSet(w, S)
      BY <1>3 DEF Whole
    <2>4. S = {} => SumFunctionOnSet(w, S) = 0
      BY SumEmpty
    <2> QED
      BY <1>1, <2>2, <2>3, <2>4 DEF Kwh, NaN
  <1> QED
    BY <1>2, <1>3

\* It depends on the values over its set only.
LEMMA EnergyAlike ==
  ASSUME NEW S, IsFiniteSet(S), NEW w, NEW v, \A x \in S : w[x] \in Kwh /\ w[x] = v[x]
  PROVE EnergySum(w, S) = EnergySum(v, S)
  <1>1. EnergySum(w, S) = Whole(w, S)
    BY EnergyIsWhole
  <1>2. EnergySum(v, S) = Whole(v, S)
    BY EnergyIsWhole
  <1>3. SumFunctionOnSet(w, S) = SumFunctionOnSet(v, S)
    BY SumAlike
  <1> QED
    BY <1>1, <1>2, <1>3 DEF Whole

\* One more energy.
LEMMA EnergyGrows ==
  ASSUME NEW S, IsFiniteSet(S), NEW x, x \notin S, NEW w, NEW v,
         \A y \in S : w[y] \in Kwh, \A y \in S : v[y] = w[y], v[x] \in Kwh
  PROVE /\ EnergySum(v, S \cup {x}) = Plus(EnergySum(w, S), v[x])
        /\ EnergySum(w, S) \in Kwh
  <1> DEFINE T == S \cup {x}
  <1>1. IsFiniteSet(T)
    BY FS_AddElement
  <1>2. \A y \in T : v[y] \in Kwh
    OBVIOUS
  <1>3. EnergySum(v, T) = Whole(v, T)
    <2> HIDE DEF T
    <2> QED
      BY <1>1, <1>2, EnergyIsWhole
  <1>4. EnergySum(w, S) = Whole(w, S)
    BY EnergyIsWhole
  <1>5. CASE \E y \in T : v[y] = NaN
    <2>1. Whole(w, S) = NaN \/ v[x] = NaN
      BY <1>5 DEF Whole
    <2>2. Plus(Whole(w, S), v[x]) = NaN
      BY <2>1 DEF Plus
    <2> QED
      BY <1>3, <1>4, <1>5, <2>2, EnergyFacts DEF Whole
  <1>6. CASE ~\E y \in T : v[y] = NaN
    <2>1. /\ \A y \in S : w[y] \in Nat /\ v[y] = w[y] /\ w[y] # NaN
          /\ v[x] \in Nat /\ v[x] # NaN
      BY <1>6 DEF Kwh
    <2>2. /\ SumFunctionOnSet(v, T) = SumFunctionOnSet(w, S) + v[x]
          /\ SumFunctionOnSet(w, S) \in Nat
      BY <2>1, SumGrows
    <2>3. Whole(w, S) = SumFunctionOnSet(w, S)
      BY <2>1 DEF Whole
    <2>4. Whole(v, T) = SumFunctionOnSet(v, T)
      BY <1>6 DEF Whole
    <2>5. SumFunctionOnSet(w, S) # NaN
      BY <2>2 DEF NaN
    <2> HIDE DEF T
    <2> QED
      BY <1>3, <1>4, <2>1, <2>2, <2>3, <2>4, <2>5, EnergyFacts DEF Plus, T
  <1> QED
    BY <1>5, <1>6

\* One of them changes.
LEMMA EnergyChanges ==
  ASSUME NEW S, IsFiniteSet(S), NEW x \in S, NEW d \in Kwh, NEW w, NEW v,
         \A y \in S : w[y] \in Kwh, \A y \in S \ {x} : v[y] = w[y], v[x] = Plus(w[x], d)
  PROVE EnergySum(v, S) = Plus(EnergySum(w, S), d)
  <1> DEFINE U == S \ {x}
  <1>1. IsFiniteSet(U) /\ x \notin U /\ U \cup {x} = S
    BY FS_RemoveElement
  <1>2. /\ w[x] \in Kwh /\ v[x] \in Kwh
        /\ \A y \in U : w[y] \in Kwh
        /\ \A y \in U : v[y] = w[y]
    BY PlusLaws
  <1> HIDE DEF U
  <1> DEFINE e == EnergySum(w, U)
  <1>3. ASSUME NEW a, NEW b, \A y \in U : a[y] \in Kwh, \A y \in U : b[y] = a[y], b[x] \in Kwh
        PROVE EnergySum(b, U \cup {x}) = Plus(EnergySum(a, U), b[x]) /\ EnergySum(a, U) \in Kwh
    BY <1>1, <1>3, EnergyGrows
  <1>4. EnergySum(v, U \cup {x}) = Plus(e, v[x])
    BY <1>2, <1>3
  <1>5. EnergySum(w, U \cup {x}) = Plus(e, w[x]) /\ e \in Kwh
    BY <1>2, <1>3
  <1> HIDE DEF e
  <1>6. Plus(Plus(e, w[x]), d) = Plus(e, Plus(w[x], d))
    <2>1. \A a, b, c \in Kwh : Plus(Plus(a, b), c) = Plus(a, Plus(b, c))
      BY PlusLaws
    <2> QED
      BY <1>2, <1>5, <2>1
  <1> QED
    BY <1>1, <1>4, <1>5, <1>6
-----------------------------------------------------------------------------
\* What FateOf says of a row.
LEMMA FateFacts ==
  ASSUME NEW row \in ReportedRows
  PROVE /\ FateOf(row).fate \in {"dropped", "unknown", "known", "throws"}
        /\ FateOf(row).kwh \in Kwh
        /\ FateOf(row).fate = "dropped" <=> Unestimated(row)
  <1>1. row \in RowType /\ row.unit \in UnitsOf[row.provider]
    BY RowsAssumption
  <1>2. row.provider \in Providers /\ row.unit \in Units
    BY <1>1 DEF RowType
  <1>3. CASE IsUnsupported(row)
    BY <1>3 DEF FateOf, IsUnsupported, Dropped, Fate, Kwh, Unestimated
  <1>4. CASE ~IsUnsupported(row) /\ IsUnknown(row)
    BY <1>4, <1>2 DEF FateOf, IsUnsupported, IsUnknown, Unknown, Fate, Kwh, Unestimated
  <1>5. CASE ~IsUnsupported(row) /\ ~IsUnknown(row)
    <2>1. FateOf(row) = Estimate(row)
      BY <1>5 DEF FateOf
    <2>2. CASE row.provider = "AWS"
      <3>1. Estimate(row) = AwsEstimate(row)
        BY <2>2 DEF Estimate
      <3>2. row.unit \in {"hours", "lambda", "storage", "network"}
        BY <1>1, <1>5, <2>2 DEF UnitsOf, Units, IsUnknown
      <3> QED
        BY <1>5, <2>1, <2>2, <3>1, <3>2
        DEF AwsEstimate, AwsMachine, AwsStorage, AwsNetwork, AwsCompute, AwsMemory, AwsEmbodied,
            IsStorage, Dropped, Counted, Uncounted, Fate, Plus, NaN, Kwh, Truthy, Unestimated,
            IsUnsupported, IsUnknown
    <2>3. CASE row.provider = "GCP"
      <3>1. Estimate(row) = GcpEstimate(row)
        BY <2>3 DEF Estimate
      <3>2. row.unit \in {"hours", "storage", "network", "alike"}
        BY <1>1, <1>5, <2>3 DEF UnitsOf, Units, IsUnknown
      <3> QED
        BY <1>5, <2>1, <2>3, <3>1, <3>2
        DEF GcpEstimate, GcpMachine, GcpByteSeconds, GcpNetwork, GcpEmbodied, GcpMemory,
            Dropped, Unknown, Counted, Fate, NaN, Kwh, Unestimated, IsUnsupported, IsUnknown
    <2>4. CASE row.provider = "AZURE"
      <3>1. Estimate(row) = AzureEstimate(row)
        BY <2>4 DEF Estimate
      <3>2. row.unit \in {"hours", "storage", "network", "memory", "alike"}
        BY <1>1, <1>5, <2>4 DEF UnitsOf, Units, IsUnknown
      <3> QED
        BY <1>5, <2>1, <2>4, <3>1, <3>2
        DEF AzureEstimate, AzureMachine, AzureStorage, AzureNetwork, AzureMemory, AzureEmbodied,
            AzureDisk, NoPattern, IsStorage, Throws,
            Dropped, Uncounted, Counted, Fate, NaN, Kwh, Unestimated, IsUnsupported, IsUnknown
    <2> QED
      BY <1>2, <2>2, <2>3, <2>4 DEF Providers
  <1> QED
    BY <1>3, <1>4, <1>5

\* What the accumulator shows of a known row.
ShareOf(row) == Share([row |-> row, kwh |-> FateOf(row).kwh])

\* What a known row shows and what it adds.
LEMMA KnownFacts ==
  ASSUME NEW row \in ReportedRows, FateOf(row).fate = "known"
  PROVE /\ FateOf(row).kwh = NaN => LackingDisk(row)
        /\ LeftOut(row) => FateOf(row).adds = {}
        /\ ~LeftOut(row) => /\ FateOf(row).adds = {ShareOf(row)}
                            /\ ShareOf(row) \in Kwh
                            /\ ShareOf(row) = NaN => LackingDisk(row)
  <1>1. row \in RowType /\ row.unit \in UnitsOf[row.provider]
    BY RowsAssumption
  <1>2. row.provider \in Providers /\ row.unit \in Units
    BY <1>1 DEF RowType
  <1>3. ~IsUnsupported(row) /\ ~IsUnknown(row) /\ FateOf(row) = Estimate(row)
    BY DEF FateOf, Dropped, Unknown, Fate
  <1>4. CASE row.provider = "AWS"
    <2>1. Estimate(row) = AwsEstimate(row)
      BY <1>4 DEF Estimate
    <2>2. row.unit \in {"hours", "lambda", "storage", "network"}
      BY <1>1, <1>3, <1>4 DEF UnitsOf, Units, IsUnknown
    <2> QED
      BY <1>3, <1>4, <2>1, <2>2
      DEF AwsEstimate, AwsMachine, AwsStorage, AwsNetwork, AwsCompute, AwsMemory, AwsEmbodied,
          IsStorage, Dropped, Counted, Uncounted, Fate, Plus, NaN, Kwh, Truthy, LeftOut, LackingDisk, Share, ShareOf
  <1>5. CASE row.provider = "GCP"
    <2>1. Estimate(row) = GcpEstimate(row)
      BY <1>5 DEF Estimate
    <2>2. row.unit \in {"hours", "storage", "network", "alike"}
      BY <1>1, <1>3, <1>5 DEF UnitsOf, Units, IsUnknown
    <2> QED
      BY <1>3, <1>5, <2>1, <2>2
      DEF GcpEstimate, GcpMachine, GcpByteSeconds, GcpNetwork, GcpEmbodied, GcpMemory,
          Dropped, Unknown, Counted, Fate, NaN, Kwh, LeftOut, LackingDisk, Share, ShareOf
  <1>6. CASE row.provider = "AZURE"
    <2>1. Estimate(row) = AzureEstimate(row)
      BY <1>6 DEF Estimate
    <2>2. row.unit \in {"hours", "storage", "network", "memory", "alike"}
      BY <1>1, <1>3, <1>6 DEF UnitsOf, Units, IsUnknown
    <2> QED
      BY <1>3, <1>6, <2>1, <2>2
      DEF AzureEstimate, AzureMachine, AzureStorage, AzureNetwork, AzureMemory, AzureEmbodied,
          AzureDisk, NoPattern, IsStorage, Throws,
          Dropped, Uncounted, Counted, Fate, NaN, Kwh, LeftOut, LackingDisk, Share, ShareOf
  <1> QED
    BY <1>2, <1>4, <1>5, <1>6 DEF Providers

(***************************************************************************)
(* Types.                                                                  *)
(***************************************************************************)
\* How far rows have been read, and that there are finitely many sums.
Progress ==
  /\ IsFiniteSet(DOMAIN byService)
  /\ pc = "rows" => next <= Len(batch) + 1 /\ Len(unknown) < next
  /\ pc = "unknown" => next <= Len(unknown) + 1 /\ Len(unknown) <= Len(batch)

TypesInv == RowsTypeOK /\ Progress

\* The bounds are numbers.
LEMMA Bounds == MaxRows \in Nat /\ MaxRequests \in Nat
  BY RowsAssumption

\* What is accumulated, entry by entry.
LEMMA AccumulatedIs ==
  ASSUME NEW o, NEW n, NEW key, NEW kwh \in Kwh, NEW base \in Nat,
         n = Accumulated(o, key, kwh, base), \A k \in DOMAIN o : o[k] \in Entries
  PROVE /\ DOMAIN n = DOMAIN o \cup {key}
        /\ \A k \in DOMAIN n : n[k] \in Entries
        /\ \A k \in DOMAIN o \ {key} : n[k] = o[k]
        /\ key \in DOMAIN o =>
             n[key] = [kwh |-> Plus(o[key].kwh, kwh), base |-> o[key].base + base]
        /\ key \notin DOMAIN o => n[key] = [kwh |-> kwh, base |-> base]
  <1>1. /\ DOMAIN n = DOMAIN o \cup {key}
        /\ \A k \in DOMAIN o \ {key} : n[k] = o[k]
        /\ key \in DOMAIN o =>
             n[key] = [kwh |-> Plus(o[key].kwh, kwh), base |-> o[key].base + base]
        /\ key \notin DOMAIN o => n[key] = [kwh |-> kwh, base |-> base]
    BY DEF Accumulated
  <1>2. key \in DOMAIN o => Plus(o[key].kwh, kwh) \in Kwh /\ o[key].base + base \in Nat
    <2> SUFFICES ASSUME key \in DOMAIN o PROVE Plus(o[key].kwh, kwh) \in Kwh /\ o[key].base + base \in Nat
      OBVIOUS
    <2>1. o[key].kwh \in Kwh /\ o[key].base \in Nat
      BY DEF Entries, Kwh
    <2> QED
      BY <2>1, PlusLaws
  <1>3. n[key] \in Entries
    BY <1>1, <1>2 DEF Entries, Kwh
  <1>4. \A k \in DOMAIN n : n[k] \in Entries
    BY <1>1, <1>3
  <1> QED
    BY <1>1, <1>4

\* Known rows add to the sums of their service and unit, or nothing.
LEMMA AccumulateTypes ==
  ASSUME TypesInv, NEW row \in ReportedRows, FateOf(row).fate = "known",
         Accumulate(row, FateOf(row).adds)
  PROVE /\ DOMAIN total' \subseteq Units /\ \A u \in DOMAIN total' : total'[u] \in Entries
        /\ DOMAIN byService' \subseteq Services \X Units
        /\ \A k \in DOMAIN byService' : byService'[k] \in Entries
        /\ IsFiniteSet(DOMAIN byService')
  <1>1. row.service \in Services /\ row.unit \in Units /\ row.base \in Nat
    BY RowsAssumption DEF RowType
  <1>2. CASE FateOf(row).adds = {}
    BY <1>2 DEF Accumulate, accumulator, TypesInv, RowsTypeOK, Progress
  <1>3. CASE FateOf(row).adds # {}
    <2>1. PICK kwh \in FateOf(row).adds : AccumulateByService(row, kwh) /\ AccumulateTotals(row, kwh)
      BY <1>3 DEF Accumulate
    <2>2. kwh \in Kwh
      BY <1>3, <2>1, KnownFacts
    <2>2a. /\ \A k \in DOMAIN total : total[k] \in Entries
           /\ \A k \in DOMAIN byService : byService[k] \in Entries
      BY DEF TypesInv, RowsTypeOK
    <2> DEFINE key == <<row.service, row.unit>>
    <2> DEFINE base == row.base
    <2> DEFINE unit == row.unit
    <2>3. /\ total' = Accumulated(total, unit, kwh, base)
          /\ byService' = Accumulated(byService, key, kwh, base)
      BY <2>1 DEF AccumulateByService, AccumulateTotals
    <2>4. key \in Services \X Units /\ base \in Nat /\ unit \in Units
      BY <1>1
    <2> HIDE DEF key, base, unit
    <2>5. /\ DOMAIN total' = DOMAIN total \cup {unit}
          /\ \A u \in DOMAIN total' : total'[u] \in Entries
      BY <2>2, <2>2a, <2>3, <2>4, AccumulatedIs
    <2>6. /\ DOMAIN byService' = DOMAIN byService \cup {key}
          /\ \A k \in DOMAIN byService' : byService'[k] \in Entries
      BY <2>2, <2>2a, <2>3, <2>4, AccumulatedIs
    <2>7. IsFiniteSet(DOMAIN byService')
      BY <2>6, FS_AddElement DEF TypesInv, Progress
    <2> QED
      BY <2>4, <2>5, <2>6, <2>7 DEF TypesInv, RowsTypeOK
  <1> QED
    BY <1>2, <1>3

\* Estimates are pairs of naturals.
LEMMA EnergyType == ASSUME NEW kwh \in Kwh PROVE Energy(kwh) \in Estimates
  BY DEF Energy, NotFinite, Estimates, Kwh, NaN

\* A ratio is an estimate, finite or not.
LEMMA RatioType ==
  ASSUME NEW entry \in Entries, NEW base \in Nat
  PROVE Ratio(entry, base) \in Estimates
  <1>1. entry.kwh \in Kwh /\ entry.base \in Nat
    BY DEF Entries, Kwh
  <1>2. CASE entry.kwh = NaN \/ entry.base = 0
    BY <1>2 DEF Ratio, NotFinite, Estimates
  <1>3. CASE ~(entry.kwh = NaN \/ entry.base = 0)
    <2>1. entry.kwh \in Nat
      BY <1>1, <1>3 DEF Kwh
    <2>2. entry.kwh * base \in Nat
      BY <2>1
    <2> QED
      BY <1>1, <1>3, <2>2 DEF Ratio, Estimates
  <1> QED
    BY <1>2, <1>3

\* An unknown row rests on the sums of its unit.
RestOf(sums, row) ==
  IF row.unit \in DOMAIN sums THEN Ratio(sums[row.unit], row.base) ELSE Energy(0)

\* No service is named, so an unknown row rests on its unit alone.
LEMMA UnknownIs ==
  ASSUME NEW row PROVE EstimateUnknownUsage(UnknownUsage(row)) = RestOf(total, row)
  BY DEF EstimateUnknownUsage, UnknownUsage, RestOf

\* Which gives an estimate.
LEMMA RestType ==
  ASSUME RowsTypeOK, NEW row \in ReportedRows
  PROVE RestOf(total, row) \in Estimates
  <1>1. row.base \in Nat
    BY RowsAssumption DEF RowType
  <1>2. Energy(0) \in Estimates
    BY EnergyType DEF Kwh
  <1>3. row.unit \in DOMAIN total => Ratio(total[row.unit], row.base) \in Estimates
    BY <1>1, RatioType DEF RowsTypeOK
  <1> QED
    BY <1>2, <1>3 DEF RestOf

\* A row at a place of the batch.
LEMMA RowAt ==
  ASSUME RowsTypeOK, NEW p \in DOMAIN batch
  PROVE /\ batch[p] \in ReportedRows /\ batch[p].service \in Services
        /\ p \in 1..MaxRows /\ p \in Nat
  BY RowsAssumption, Bounds DEF RowsTypeOK, RowType

\* An estimate is added to the results of the row's service.
LEMMA ResultsType ==
  ASSUME RowsTypeOK, NEW p \in DOMAIN batch, NEW e \in Estimates, AddToResults(p, e)
  PROVE results' \in Results
  <1>1. batch[p].service \in Services /\ p \in 1..MaxRows
    BY RowAt
  <1> DEFINE T == [at : 1..MaxRows, estimate : Estimates]
  <1> DEFINE s == batch[p].service
  <1> DEFINE item == [at |-> p, estimate |-> e]
  <1>2. item \in T
    BY <1>1
  <1>3. results \in [Services -> Seq(T)]
    BY DEF RowsTypeOK, Results
  <1>4. results' = [results EXCEPT ![s] = Append(results[s], item)]
    BY DEF AddToResults
  <1>5. Results = [Services -> Seq(T)]
    BY DEF Results
  <1> HIDE DEF T, s, item
  <1>6. s \in Services
    BY <1>1 DEF s
  <1>7. Append(results[s], item) \in Seq(T)
    BY <1>2, <1>3, <1>6
  <1> QED
    BY <1>3, <1>4, <1>5, <1>6, <1>7

\* An answer without estimates is one.
LEMMA NoResultsType == NoResults \in Results
  BY DEF NoResults, Results

\* A process begins with the types.
LEMMA InitRowsTypes == RowsInit => TypesInv
  <1>1. IsFiniteSet({})
    BY FS_EmptySet
  <1> QED
    BY <1>1, NoResultsType, Bounds
    DEF RowsInit, TypesInv, RowsTypeOK, Progress, Nowhere

\* An answered query keeps them.
LEMMA AskRowsTypes == TypesInv /\ Ask => TypesInv'
  <1> SUFFICES ASSUME TypesInv, Ask PROVE TypesInv'
    OBVIOUS
  <1> USE DEF TypesInv
  <1>1. PICK n \in 0..MaxRows : batch' \in [1..n -> {row \in ReportedRows : row.provider = provider}]
    BY DEF Ask
  <1>2. batch' \in Seq(ReportedRows) /\ Len(batch') = n /\ n \in Nat
    <2>1. n \in Nat
      BY Bounds
    <2>2. batch' \in [1..n -> ReportedRows]
      BY <1>1
    <2> QED
      BY <2>1, <2>2
  <1>3. requests' \in 0..MaxRequests
    BY Bounds DEF Ask, RowsTypeOK
  <1>4. <<>> \in Seq(DOMAIN batch')
    OBVIOUS
  <1>5. RowsTypeOK'
    BY <1>2, <1>3, <1>4, NoResultsType, Bounds DEF Ask, RowsTypeOK, accumulator
  <1>6. Progress'
    BY <1>2 DEF Ask, Progress, accumulator
  <1> QED
    BY <1>5, <1>6

\* So does every step.
LEMMA NextRowsTypes == TypesInv /\ [RowsNext]_rowsVars => TypesInv'
  <1> SUFFICES ASSUME TypesInv, [RowsNext]_rowsVars PROVE TypesInv'
    OBVIOUS
  <1> USE DEF TypesInv
  <1>0. /\ Len(batch) \in Nat /\ DOMAIN batch = 1..Len(batch) /\ Len(unknown) \in Nat
        /\ next \in Nat /\ MaxRows \in Nat
    BY Bounds DEF RowsTypeOK
  <1>1. CASE Ask
    BY <1>1, AskRowsTypes
  <1>2. ASSUME NEW fate, AtRow(fate) PROVE next \in DOMAIN batch /\ Row \in ReportedRows /\ next + 1 \in 1..(MaxRows + 1) /\ next + 1 <= Len(batch) + 1
    BY <1>0, <1>2, RowAt DEF AtRow, Row, RowsTypeOK
  <1>3. CASE DropRow
    BY <1>0, <1>2, <1>3 DEF DropRow, RowsTypeOK, Progress, accumulator, AtRow
  <1>4. CASE PutAside
    <2>1. Append(unknown, next) \in Seq(DOMAIN batch) /\ Len(Append(unknown, next)) = Len(unknown) + 1
      BY <1>2, <1>4 DEF PutAside, RowsTypeOK
    <2> QED
      BY <1>0, <1>2, <1>4, <2>1 DEF PutAside, RowsTypeOK, Progress, accumulator, AtRow
  <1>5. CASE EstimateRow
    <2>1. next \in DOMAIN batch /\ Row \in ReportedRows /\ FateOf(Row).fate = "known"
      BY <1>2, <1>5 DEF EstimateRow, AtRow
    <2>2. FateOf(Row).kwh \in Kwh
      BY <2>1, FateFacts
    <2>3. results' \in Results
      BY <1>5, <2>1, <2>2, EnergyType, ResultsType DEF EstimateRow
    <2>4. known' \in Seq([row : ReportedRows, kwh : Nat \cup {NaN}])
      BY <1>5, <2>1, <2>2 DEF EstimateRow, RowsTypeOK, Kwh
    <2>5. /\ DOMAIN total' \subseteq Units /\ \A u \in DOMAIN total' : total'[u] \in Entries
          /\ DOMAIN byService' \subseteq Services \X Units
          /\ \A k \in DOMAIN byService' : byService'[k] \in Entries
          /\ IsFiniteSet(DOMAIN byService')
      BY <1>5, <2>1, AccumulateTypes DEF EstimateRow
    <2> QED
      BY <1>0, <1>2, <1>5, <2>3, <2>4, <2>5 DEF EstimateRow, RowsTypeOK, Progress, AtRow
  <1>6. CASE RowThrows
    BY <1>6, NoResultsType DEF RowThrows, RowsTypeOK, Progress, accumulator
  <1>7. CASE EndOfRows
    BY <1>0, <1>7 DEF EndOfRows, Finished, RowsTypeOK, Progress, accumulator
  <1>8. CASE EstimateUnknown
    <2>1. next \in DOMAIN unknown /\ unknown[next] \in DOMAIN batch
      BY <1>0, <1>8 DEF EstimateUnknown, RowsTypeOK
    <2>2. batch[unknown[next]] \in ReportedRows
      BY <2>1, RowAt
    <2>3. EstimateUnknownUsage(UnknownUsage(batch[unknown[next]])) \in Estimates
      BY <2>2, UnknownIs, RestType
    <2>4. results' \in Results
      BY <1>8, <2>1, <2>3, ResultsType DEF EstimateUnknown
    <2>5. next + 1 \in 1..(MaxRows + 1)
      BY <1>0, <1>8 DEF EstimateUnknown, RowsTypeOK, Progress
    <2> QED
      BY <1>0, <1>8, <2>4, <2>5 DEF EstimateUnknown, RowsTypeOK, Progress, accumulator
  <1>9. CASE EndOfUnknown
    BY <1>9 DEF EndOfUnknown, Finished, RowsTypeOK, Progress, accumulator
  <1>10. CASE UNCHANGED rowsVars
    BY <1>10 DEF rowsVars, accumulator, RowsTypeOK, Progress
  <1> QED
    BY <1>1, <1>3, <1>4, <1>5, <1>6, <1>7, <1>8, <1>9, <1>10 DEF RowsNext

\* The types, for any rows, services and numbers of requests.
THEOREM RowsTypeCorrect == RowsSpec => []RowsTypeOK
  <1>1. RowsInit => TypesInv
    BY InitRowsTypes
  <1>2. TypesInv /\ [RowsNext]_rowsVars => TypesInv'
    BY NextRowsTypes
  <1>3. TypesInv => RowsTypeOK
    BY DEF TypesInv
  <1> QED
    BY <1>1, <1>2, <1>3, PTL DEF RowsSpec

(***************************************************************************)
(* The sums.                                                               *)
(***************************************************************************)
\* The entry of a unit, as sums over a set.
EntryOf(w, wb, S) == [kwh |-> EnergySum(w, S), base |-> SumFunctionOnSet(wb, S)]

\* The energies and bases of a set are numbers.
Amounts(w, wb, S) == \A y \in S : w[y] \in Kwh /\ wb[y] \in Nat

\* Such an entry has the type of one.
LEMMA EntryType ==
  ASSUME NEW S, IsFiniteSet(S), NEW w, NEW wb, Amounts(w, wb, S)
  PROVE EntryOf(w, wb, S) \in Entries
  <1>1. (\A y \in S : w[y] \in Kwh) /\ (\A y \in S : wb[y] \in Nat)
    BY DEF Amounts
  <1>2. EnergySum(w, S) \in Kwh
    BY <1>1, EnergyFacts
  <1>3. SumFunctionOnSet(wb, S) \in Nat
    BY <1>1, SumNat
  <1> QED
    BY <1>2, <1>3 DEF EntryOf, Entries, Kwh

\* What an object of the accumulator shows of a set under a key.
Shows(o, u, w, wb, S) ==
  IF S = {} THEN u \notin DOMAIN o ELSE u \in DOMAIN o /\ o[u] = EntryOf(w, wb, S)

\* Amounts of one element more.
OneMore(w, wb, S, v, vb, x) ==
  /\ IsFiniteSet(S) /\ Amounts(w, wb, S) /\ x \notin S
  /\ \A y \in S : v[y] = w[y] /\ vb[y] = wb[y]
  /\ v[x] \in Kwh /\ vb[x] \in Nat

Combined(e, f) == [kwh |-> Plus(e.kwh, f.kwh), base |-> e.base + f.base]
Single(a, b) == [kwh |-> a, base |-> b]

\* It is added to the entry of the others.
LEMMA EntryAdds ==
  ASSUME NEW S, NEW x, NEW w, NEW wb, NEW v, NEW vb, OneMore(w, wb, S, v, vb, x)
  PROVE /\ EntryOf(v, vb, S \cup {x}) = Combined(EntryOf(w, wb, S), Single(v[x], vb[x]))
        /\ S = {} => EntryOf(v, vb, S \cup {x}) = Single(v[x], vb[x])
  <1>0. PICK a \in Kwh, b \in Nat : a = v[x] /\ b = vb[x]
    BY DEF OneMore
  <1>1. /\ \A y \in S : w[y] \in Kwh
        /\ \A y \in S : v[y] = w[y]
        /\ \A y \in S : wb[y] \in Nat
        /\ \A y \in S : vb[y] = wb[y]
        /\ IsFiniteSet(S) /\ x \notin S
    BY DEF Amounts, OneMore
  <1>2. EnergySum(v, S \cup {x}) = Plus(EnergySum(w, S), a) /\ EnergySum(w, S) \in Kwh
    BY <1>0, <1>1, EnergyGrows
  <1>3. SumFunctionOnSet(vb, S \cup {x}) = SumFunctionOnSet(wb, S) + b
    <2>1. IsFiniteSet(S) /\ x \notin S
      BY <1>1
    <2>2. ASSUME NEW f, NEW g, \A y \in S : f[y] \in Nat, \A y \in S : g[y] = f[y], g[x] \in Nat
          PROVE SumFunctionOnSet(g, S \cup {x}) = SumFunctionOnSet(f, S) + g[x]
      BY <2>1, <2>2, SumGrows
    <2> QED
      BY <1>0, <1>1, <2>2
  <1>4. EntryOf(v, vb, S \cup {x}) = Combined(EntryOf(w, wb, S), Single(v[x], vb[x]))
    BY <1>0, <1>2, <1>3 DEF EntryOf, Combined, Single
  <1>5. ASSUME S = {} PROVE EntryOf(v, vb, S \cup {x}) = Single(v[x], vb[x])
    <2>1. EnergySum(w, S) = 0 /\ SumFunctionOnSet(wb, S) = 0
      BY <1>1, <1>5, EnergyFacts, SumEmpty
    <2>2. Plus(0, a) = a
      BY <1>0 DEF Plus, Kwh, NaN
    <2>3. EnergySum(v, S \cup {x}) = a /\ SumFunctionOnSet(vb, S \cup {x}) = b
      BY <1>0, <1>2, <1>3, <2>1, <2>2
    <2> QED
      BY <1>0, <2>3 DEF EntryOf, Single
  <1> QED
    BY <1>4, <1>5

\* It is accumulated.
LEMMA EntryGrows ==
  ASSUME NEW S, NEW x, NEW w, NEW wb, NEW v, NEW vb, OneMore(w, wb, S, v, vb, x),
         NEW o, NEW u, Shows(o, u, w, wb, S),
         NEW n, n = Accumulated(o, u, v[x], vb[x])
  PROVE Shows(n, u, v, vb, S \cup {x})
  <1> DEFINE e == EntryOf(v, vb, S \cup {x})
  <1>1. /\ e = Combined(EntryOf(w, wb, S), Single(v[x], vb[x]))
        /\ S = {} => e = Single(v[x], vb[x])
    BY EntryAdds
  <1> HIDE DEF e
  <1>2. u \in DOMAIN n
    BY DEF Accumulated
  <1>3. n[u] = e
    <2>1. S = {} => n[u] = Single(v[x], vb[x])
      BY DEF Accumulated, Shows, Single
    <2>2. S # {} => n[u] = Combined(EntryOf(w, wb, S), Single(v[x], vb[x]))
      BY DEF Accumulated, Shows, Single, Combined
    <2> QED
      BY <1>1, <2>1, <2>2
  <1> QED
    BY <1>2, <1>3 DEF Shows, e

\* One element grows.
LEMMA EntryChanges ==
  ASSUME NEW S, IsFiniteSet(S), NEW x \in S, NEW w, NEW wb, NEW v, NEW vb,
         Amounts(w, wb, S), \A y \in S \ {x} : v[y] = w[y] /\ vb[y] = wb[y],
         NEW a \in Kwh, v[x] = Plus(w[x], a), NEW b \in Nat, vb[x] = wb[x] + b,
         NEW o, NEW n, NEW u, n = Accumulated(o, u, a, b),
         u \in DOMAIN o, o[u] = EntryOf(w, wb, S)
  PROVE u \in DOMAIN n /\ n[u] = EntryOf(v, vb, S)
  <1>1. /\ \A y \in S : w[y] \in Kwh
        /\ \A y \in S \ {x} : v[y] = w[y]
        /\ \A y \in S : wb[y] \in Nat
        /\ \A y \in S \ {x} : vb[y] = wb[y]
    BY DEF Amounts
  <1>2. EnergySum(v, S) = Plus(EnergySum(w, S), a)
    BY <1>1, EnergyChanges
  <1>3. SumFunctionOnSet(vb, S) = SumFunctionOnSet(wb, S) + b
    BY <1>1, SumChanges
  <1>4. u \in DOMAIN n /\ n[u] = [kwh |-> Plus(o[u].kwh, a), base |-> o[u].base + b]
    BY DEF Accumulated
  <1>5. o[u].kwh = EnergySum(w, S) /\ o[u].base = SumFunctionOnSet(wb, S)
    BY DEF EntryOf
  <1> QED
    BY <1>2, <1>3, <1>4, <1>5 DEF EntryOf

\* Two entries over a set are equal if what they add up is.
LEMMA EntryAlike ==
  ASSUME NEW S, IsFiniteSet(S), NEW w, NEW wb, NEW v, NEW vb,
         Amounts(w, wb, S), \A y \in S : v[y] = w[y] /\ vb[y] = wb[y]
  PROVE EntryOf(w, wb, S) = EntryOf(v, vb, S)
  <1>1. /\ \A y \in S : w[y] \in Kwh /\ w[y] = v[y]
        /\ \A y \in S : wb[y] = vb[y]
    BY DEF Amounts
  <1>2. EnergySum(w, S) = EnergySum(v, S)
    BY <1>1, EnergyAlike
  <1>3. SumFunctionOnSet(wb, S) = SumFunctionOnSet(vb, S)
    BY <1>1, SumAlike
  <1> QED
    BY <1>2, <1>3 DEF EntryOf

(***************************************************************************)
(* The totals and the sums of services.                                    *)
(***************************************************************************)
OfUnit(o, u) == {k \in DOMAIN o : k[2] = u}
KwhOf(o, u) == [k \in OfUnit(o, u) |-> o[k].kwh]
BaseOf(o, u) == [k \in OfUnit(o, u) |-> o[k].base]

TotalsOf(t, o) ==
  /\ DOMAIN t = {k[2] : k \in DOMAIN o}
  /\ \A u \in DOMAIN t : t[u] = EntryOf(KwhOf(o, u), BaseOf(o, u), OfUnit(o, u))

\* Accumulating a row in both objects keeps the totals what they are.
LEMMA TotalsKept ==
  ASSUME NEW t, NEW o, NEW t2, NEW o2, NEW key, NEW a \in Kwh, NEW b \in Nat,
         IsFiniteSet(DOMAIN o), \A k \in DOMAIN o : o[k] \in Entries, TotalsOf(t, o),
         o2 = Accumulated(o, key, a, b), t2 = Accumulated(t, key[2], a, b)
  PROVE TotalsOf(t2, o2)
  <1> DEFINE unit == key[2]
  <1>1. /\ DOMAIN o2 = DOMAIN o \cup {key}
        /\ \A k \in DOMAIN o \ {key} : o2[k] = o[k]
        /\ key \in DOMAIN o =>
             o2[key] = [kwh |-> Plus(o[key].kwh, a), base |-> o[key].base + b]
        /\ key \notin DOMAIN o => o2[key] = [kwh |-> a, base |-> b]
    BY DEF Accumulated
  <1>2. DOMAIN t2 = DOMAIN t \cup {unit} /\ \A u \in DOMAIN t \ {unit} : t2[u] = t[u]
    BY DEF Accumulated
  <1>3. \A k \in DOMAIN o : o[k].kwh \in Kwh /\ o[k].base \in Nat
    BY DEF Entries, Kwh
  <1>4. DOMAIN t2 = {k[2] : k \in DOMAIN o2}
    BY <1>1, <1>2 DEF TotalsOf
  <1>5. ASSUME NEW u \in DOMAIN t2, u # unit
        PROVE t2[u] = EntryOf(KwhOf(o2, u), BaseOf(o2, u), OfUnit(o2, u))
    <2>1. OfUnit(o2, u) = OfUnit(o, u) /\ key \notin OfUnit(o, u)
      BY <1>1, <1>5 DEF OfUnit
    <2>2. KwhOf(o2, u) = KwhOf(o, u) /\ BaseOf(o2, u) = BaseOf(o, u)
      BY <1>1, <2>1 DEF OfUnit, KwhOf, BaseOf
    <2>3. u \in DOMAIN t /\ t2[u] = t[u]
      BY <1>2, <1>5
    <2> QED
      BY <2>1, <2>2, <2>3 DEF TotalsOf
  <1>6. t2[unit] = EntryOf(KwhOf(o2, unit), BaseOf(o2, unit), OfUnit(o2, unit))
    <2> DEFINE S == OfUnit(o, unit)
    <2> DEFINE w == KwhOf(o, unit)
    <2> DEFINE wb == BaseOf(o, unit)
    <2> DEFINE v == KwhOf(o2, unit)
    <2> DEFINE vb == BaseOf(o2, unit)
    <2>1. IsFiniteSet(S)
      BY FS_Subset DEF OfUnit
    <2>2. OfUnit(o2, unit) = S \cup {key}
      BY <1>1 DEF OfUnit
    <2>3. \A k \in S : w[k] = o[k].kwh /\ wb[k] = o[k].base /\ k \in DOMAIN o
      BY DEF KwhOf, BaseOf, OfUnit
    <2>4. \A k \in S \cup {key} : v[k] = o2[k].kwh /\ vb[k] = o2[k].base
      BY <2>2 DEF KwhOf, BaseOf
    <2>5. Amounts(w, wb, S)
      BY <1>3, <2>3 DEF Amounts
    <2>6. \A k \in S \ {key} : v[k] = w[k] /\ vb[k] = wb[k]
      BY <1>1, <2>3, <2>4
    <2>7. unit \in DOMAIN t <=> S # {}
      BY DEF TotalsOf, OfUnit
    <2>8. unit \in DOMAIN t => t[unit] = EntryOf(w, wb, S)
      BY DEF TotalsOf
    <2>9. CASE key \in DOMAIN o
      <3>1. key \in S /\ S \cup {key} = S
        BY <2>9 DEF OfUnit
      <3>2. v[key] = Plus(w[key], a) /\ vb[key] = wb[key] + b
        BY <1>1, <2>3, <2>4, <2>9, <3>1
      <3> HIDE DEF S, w, wb, v, vb
      <3>3. t2[unit] = EntryOf(v, vb, S)
        BY <2>1, <2>5, <2>6, <2>7, <2>8, <3>1, <3>2, EntryChanges
      <3> QED
        BY <2>2, <3>1, <3>3 DEF v, vb
    <2>10. CASE key \notin DOMAIN o
      <3>1. key \notin S
        BY <2>10 DEF OfUnit
      <3>2. v[key] = a /\ vb[key] = b
        BY <1>1, <2>4, <2>10
      <3>3. \A k \in S : v[k] = w[k] /\ vb[k] = wb[k]
        BY <2>6, <3>1
      <3>4. Shows(t, unit, w, wb, S)
        BY <2>7, <2>8 DEF Shows
      <3> HIDE DEF S, w, wb, v, vb, unit
      <3>5. OneMore(w, wb, S, v, vb, key)
        BY <2>1, <2>5, <3>1, <3>2, <3>3 DEF OneMore
      <3>6. t2 = Accumulated(t, unit, v[key], vb[key])
        BY <3>2 DEF unit
      <3>7. Shows(t2, unit, v, vb, S \cup {key})
        BY <3>4, <3>5, <3>6, EntryGrows
      <3> QED
        BY <2>2, <3>7 DEF Shows, v, vb
    <2> QED
      BY <2>9, <2>10
  <1> QED
    BY <1>4, <1>5, <1>6 DEF TotalsOf

(***************************************************************************)
(* The totals and the known rows.                                          *)
(***************************************************************************)
\* The history is of known rows, with the energy of their estimates.
KnownRow(row) == row \in ReportedRows /\ FateOf(row).fate = "known"
Record(row) == [row |-> row, kwh |-> FateOf(row).kwh]
Records == {Record(row) : row \in {r \in ReportedRows : KnownRow(r)}}

RowsOf(q, u) == {i \in DOMAIN q : q[i].row.unit = u /\ ~LeftOut(q[i].row)}
SharesOf(q, u) == [i \in RowsOf(q, u) |-> Share(q[i])]
AmountsOf(q, u) == [i \in RowsOf(q, u) |-> q[i].row.base]

RatiosOf(t, q) ==
  \A u \in Units : Shows(t, u, SharesOf(q, u), AmountsOf(q, u), RowsOf(q, u))

\* What the history records of a known row.
LEMMA RecordsAre ==
  /\ \A row : KnownRow(row) => Record(row) \in Records /\ Record(row).row = row
  /\ \A k \in Records : KnownRow(k.row) /\ k = Record(k.row)
  BY DEF Records, Record, KnownRow

\* Shares of known rows are numbers, but for what no table knows.
LEMMA SharesAre ==
  ASSUME NEW q \in Seq(Records), NEW u
  PROVE /\ IsFiniteSet(RowsOf(q, u))
        /\ Amounts(SharesOf(q, u), AmountsOf(q, u), RowsOf(q, u))
        /\ \A i \in RowsOf(q, u) : /\ SharesOf(q, u)[i] = ShareOf(q[i].row)
                                   /\ AmountsOf(q, u)[i] = q[i].row.base
  <1>1. IsFiniteSet(DOMAIN q)
    <2>1. DOMAIN q = 1..Len(q) /\ Len(q) \in Nat
      OBVIOUS
    <2> QED
      BY <2>1, FS_Interval
  <1>2. IsFiniteSet(RowsOf(q, u))
    BY <1>1, FS_Subset DEF RowsOf
  <1>3. ASSUME NEW i \in RowsOf(q, u)
        PROVE /\ SharesOf(q, u)[i] = ShareOf(q[i].row) /\ SharesOf(q, u)[i] \in Kwh
              /\ AmountsOf(q, u)[i] = q[i].row.base /\ AmountsOf(q, u)[i] \in Nat
    <2>0. q[i] \in Records
      BY DEF RowsOf
    <2>1. KnownRow(q[i].row) /\ ~LeftOut(q[i].row) /\ q[i] = Record(q[i].row)
      BY <2>0, RecordsAre DEF RowsOf
    <2>2. Share(q[i]) = ShareOf(q[i].row)
      BY <2>1 DEF ShareOf, Record
    <2>3. ShareOf(q[i].row) \in Kwh
      BY <2>1, KnownFacts DEF KnownRow
    <2>4. q[i].row.base \in Nat
      BY <2>1, RowsAssumption DEF RowType, KnownRow
    <2> QED
      BY <2>2, <2>3, <2>4 DEF SharesOf, AmountsOf
  <1> QED
    BY <1>2, <1>3 DEF Amounts

\* A row more of history.
LEMMA KnownAppended ==
  ASSUME NEW q \in Seq(Records), NEW row, KnownRow(row)
  PROVE /\ Append(q, Record(row)) \in Seq(Records)
        /\ \E x : /\ DOMAIN Append(q, Record(row)) = DOMAIN q \cup {x} /\ x \notin DOMAIN q
                  /\ \A i \in DOMAIN q : Append(q, Record(row))[i] = q[i]
                  /\ Append(q, Record(row))[x].row = row
  <1> DEFINE k == Record(row)
  <1>1. k \in Records /\ k.row = row
    BY RecordsAre
  <1> HIDE DEF k
  <1> DEFINE q2 == Append(q, k)
  <1>2. /\ q2 \in Seq(Records)
        /\ DOMAIN q2 = DOMAIN q \cup {Len(q) + 1} /\ Len(q) + 1 \notin DOMAIN q
        /\ \A i \in DOMAIN q : q2[i] = q[i]
        /\ q2[Len(q) + 1] = k
    BY <1>1
  <1> HIDE DEF q2
  <1> QED
    BY <1>1, <1>2 DEF q2, k

\* A row that is left out, or of another unit, adds nothing.
LEMMA HistorySame ==
  ASSUME NEW q \in Seq(Records), NEW row, KnownRow(row), NEW u, LeftOut(row) \/ u # row.unit
  PROVE /\ RowsOf(Append(q, Record(row)), u) = RowsOf(q, u)
        /\ SharesOf(Append(q, Record(row)), u) = SharesOf(q, u)
        /\ AmountsOf(Append(q, Record(row)), u) = AmountsOf(q, u)
  <1> DEFINE q2 == Append(q, Record(row))
  <1>1. PICK x : /\ DOMAIN q2 = DOMAIN q \cup {x} /\ x \notin DOMAIN q
                 /\ \A i \in DOMAIN q : q2[i] = q[i]
                 /\ q2[x].row = row
    BY KnownAppended
  <1> HIDE DEF q2
  <1>2. RowsOf(q2, u) = RowsOf(q, u)
    BY <1>1 DEF RowsOf
  <1>3. \A i \in RowsOf(q, u) : q2[i] = q[i]
    BY <1>1 DEF RowsOf
  <1>4. SharesOf(q2, u) = SharesOf(q, u) /\ AmountsOf(q2, u) = AmountsOf(q, u)
    BY <1>2, <1>3 DEF SharesOf, AmountsOf
  <1> QED
    BY <1>2, <1>4 DEF q2

\* Any other adds its share and what it costs.
LEMMA HistoryGrows ==
  ASSUME NEW q \in Seq(Records), NEW row, KnownRow(row), ~LeftOut(row)
  PROVE LET q2 == Append(q, Record(row))
            u == row.unit
        IN  \E x : /\ RowsOf(q2, u) = RowsOf(q, u) \cup {x}
                   /\ OneMore(SharesOf(q, u), AmountsOf(q, u), RowsOf(q, u),
                              SharesOf(q2, u), AmountsOf(q2, u), x)
                   /\ SharesOf(q2, u)[x] = ShareOf(row) /\ AmountsOf(q2, u)[x] = row.base
  <1> DEFINE q2 == Append(q, Record(row))
  <1> DEFINE u == row.unit
  <1>0. q2 \in Seq(Records)
    BY KnownAppended
  <1>1. PICK x : /\ DOMAIN q2 = DOMAIN q \cup {x} /\ x \notin DOMAIN q
                 /\ \A i \in DOMAIN q : q2[i] = q[i]
                 /\ q2[x].row = row
    BY KnownAppended
  <1> DEFINE S == RowsOf(q, u)
  <1> DEFINE w == SharesOf(q, u)
  <1> DEFINE wb == AmountsOf(q, u)
  <1> DEFINE v == SharesOf(q2, u)
  <1> DEFINE vb == AmountsOf(q2, u)
  <1>u. u = row.unit
    OBVIOUS
  <1> HIDE DEF q2, u
  <1>2. IsFiniteSet(S) /\ Amounts(w, wb, S)
    BY SharesAre
  <1>3. \A i \in S : w[i] = ShareOf(q[i].row) /\ wb[i] = q[i].row.base
    BY SharesAre
  <1>4. \A i \in RowsOf(q2, u) : v[i] = ShareOf(q2[i].row) /\ vb[i] = q2[i].row.base
    BY <1>0, SharesAre
  <1>5. \A i \in S : i \in DOMAIN q /\ i # x /\ q2[i] = q[i]
    BY <1>1 DEF RowsOf
  <1>6. RowsOf(q2, u) = S \cup {x} /\ x \notin S
    BY <1>1, <1>u DEF RowsOf
  <1>7. \A i \in S : v[i] = w[i] /\ vb[i] = wb[i]
    BY <1>3, <1>4, <1>5, <1>6
  <1>8. v[x] = ShareOf(row) /\ vb[x] = row.base
    BY <1>1, <1>4, <1>6
  <1>9. ShareOf(row) \in Kwh /\ row.base \in Nat
    BY KnownFacts, RowsAssumption DEF RowType, KnownRow
  <1>10. OneMore(w, wb, S, v, vb, x)
    <2> HIDE DEF S, w, wb, v, vb
    <2> QED
      BY <1>2, <1>6, <1>7, <1>8, <1>9 DEF OneMore
  <1> QED
    BY <1>6, <1>8, <1>10 DEF q2, u

\* The ratios stay those of the known rows.
LEMMA RatiosUnchanged ==
  ASSUME NEW q \in Seq(Records), NEW t, RatiosOf(t, q), NEW row, KnownRow(row), LeftOut(row)
  PROVE RatiosOf(t, Append(q, Record(row)))
  BY HistorySame DEF RatiosOf

\* Nor does a row that is counted change that they are.
LEMMA RatiosKept ==
  ASSUME NEW q \in Seq(Records), NEW t, RatiosOf(t, q), NEW row, KnownRow(row), ~LeftOut(row)
  PROVE RatiosOf(Accumulated(t, row.unit, ShareOf(row), row.base), Append(q, Record(row)))
  <1> DEFINE q2 == Append(q, Record(row))
  <1> DEFINE t2 == Accumulated(t, row.unit, ShareOf(row), row.base)
  <1>1. ASSUME NEW u \in Units, u # row.unit
        PROVE Shows(t2, u, SharesOf(q2, u), AmountsOf(q2, u), RowsOf(q2, u))
    <2>1. RowsOf(q2, u) = RowsOf(q, u) /\ SharesOf(q2, u) = SharesOf(q, u) /\ AmountsOf(q2, u) = AmountsOf(q, u)
      BY <1>1, HistorySame
    <2>2. (u \in DOMAIN t2 <=> u \in DOMAIN t) /\ (u \in DOMAIN t => t2[u] = t[u])
      BY <1>1 DEF Accumulated
    <2>3. Shows(t, u, SharesOf(q, u), AmountsOf(q, u), RowsOf(q, u))
      BY DEF RatiosOf
    <2> HIDE DEF t2, q2
    <2> QED
      BY <2>1, <2>2, <2>3 DEF Shows
  <1>2. ASSUME row.unit \in Units
        PROVE Shows(t2, row.unit, SharesOf(q2, row.unit), AmountsOf(q2, row.unit), RowsOf(q2, row.unit))
    <2> DEFINE u == row.unit
    <2> DEFINE S == RowsOf(q, u)
    <2> DEFINE w == SharesOf(q, u)
    <2> DEFINE wb == AmountsOf(q, u)
    <2> DEFINE v == SharesOf(q2, u)
    <2> DEFINE vb == AmountsOf(q2, u)
    <2>1. PICK x : /\ RowsOf(q2, u) = S \cup {x} /\ OneMore(w, wb, S, v, vb, x)
                   /\ v[x] = ShareOf(row) /\ vb[x] = row.base
      BY HistoryGrows
    <2>2. Shows(t, u, w, wb, S)
      BY <1>2 DEF RatiosOf
    <2>3. t2 = Accumulated(t, u, v[x], vb[x])
      BY <2>1
    <2> HIDE DEF S, w, wb, v, vb, u, t2
    <2>4. Shows(t2, u, v, vb, S \cup {x})
      BY <2>1, <2>2, <2>3, EntryGrows
    <2> QED
      BY <2>1, <2>4 DEF v, vb, u
  <1> HIDE DEF q2, t2
  <1>3. RatiosOf(t2, q2)
    BY <1>1, <1>2 DEF RatiosOf
  <1> QED
    BY <1>3 DEF q2, t2

(***************************************************************************)
(* Both hold of the accumulator.                                           *)
(***************************************************************************)
SumsInv == known \in Seq(Records) /\ TotalsOf(total, byService) /\ RatiosOf(total, known)

\* The accumulator begins empty, and so does the history.
LEMMA InitSums == RowsInit => SumsInv
  <1> SUFFICES ASSUME RowsInit PROVE SumsInv
    OBVIOUS
  <1>1. DOMAIN total = {} /\ DOMAIN byService = {} /\ known = <<>> /\ DOMAIN known = {}
    BY DEF RowsInit, Nowhere
  <1>2. \A u \in Units : RowsOf(known, u) = {}
    BY <1>1 DEF RowsOf
  <1> QED
    BY <1>1, <1>2 DEF SumsInv, TotalsOf, RatiosOf, Shows

\* Every known row enters both, and nothing else changes either.
LEMMA NextSums == TypesInv /\ SumsInv /\ [RowsNext]_rowsVars => SumsInv'
  <1> SUFFICES ASSUME TypesInv, SumsInv, [RowsNext]_rowsVars PROVE SumsInv'
    OBVIOUS
  <1>1. CASE EstimateRow
    <2> DEFINE row == Row
    <2>1. KnownRow(row)
      <3>1. next \in DOMAIN batch
        BY <1>1 DEF EstimateRow, AtRow, TypesInv, RowsTypeOK
      <3> QED
        BY <1>1, <3>1, RowAt DEF EstimateRow, AtRow, TypesInv, Row, KnownRow
    <2>2. known \in Seq(Records)
      BY DEF SumsInv
    <2>3. known' = Append(known, Record(row))
      BY <1>1 DEF EstimateRow, Record
    <2>4. Accumulate(row, FateOf(row).adds)
      BY <1>1 DEF EstimateRow
    <2>5. RatiosOf(total, known) /\ TotalsOf(total, byService)
      BY DEF SumsInv
    <2>6. /\ IsFiniteSet(DOMAIN byService)
          /\ \A k \in DOMAIN byService : byService[k] \in Entries
      BY DEF TypesInv, RowsTypeOK, Progress
    <2> HIDE DEF row
    <2>7. known' \in Seq(Records)
      BY <2>1, <2>2, <2>3, KnownAppended
    <2>8. CASE LeftOut(row)
      <3>1. FateOf(row).adds = {}
        BY <2>1, <2>8, KnownFacts DEF KnownRow
      <3>2. total' = total /\ byService' = byService
        BY <2>4, <3>1 DEF Accumulate, accumulator
      <3>3. RatiosOf(total, known')
        BY <2>1, <2>2, <2>3, <2>5, <2>8, RatiosUnchanged
      <3> QED
        BY <2>5, <2>7, <3>2, <3>3 DEF SumsInv
    <2>9. CASE ~LeftOut(row)
      <3> DEFINE a == ShareOf(row)
      <3> DEFINE b == row.base
      <3> DEFINE key == <<row.service, row.unit>>
      <3>1. FateOf(row).adds = {a} /\ a \in Kwh /\ b \in Nat /\ key[2] = row.unit
        BY <2>1, <2>9, KnownFacts, RowsAssumption DEF RowType, KnownRow
      <3>2. /\ total' = Accumulated(total, row.unit, a, b)
            /\ byService' = Accumulated(byService, key, a, b)
        BY <2>4, <3>1 DEF Accumulate, AccumulateByService, AccumulateTotals
      <3>3. RatiosOf(total', known')
        BY <2>1, <2>2, <2>3, <2>5, <2>9, <3>2, RatiosKept
      <3> HIDE DEF a, b, key
      <3>4. TotalsOf(total', byService')
        BY <2>5, <2>6, <3>1, <3>2, TotalsKept
      <3> QED
        BY <2>7, <3>3, <3>4 DEF SumsInv
    <2> QED
      BY <2>8, <2>9
  <1>2. CASE UNCHANGED <<total, byService, known>>
    BY <1>2 DEF SumsInv
  <1>3. ~EstimateRow => UNCHANGED <<total, byService, known>>
    BY DEF RowsNext, rowsVars, accumulator, Ask, DropRow, PutAside, RowThrows, EndOfRows,
           EstimateUnknown, EndOfUnknown
  <1> QED
    BY <1>1, <1>2, <1>3

\* The properties are read off.
LEMMA SumsFromInv == SumsInv => SumsAreSound
  <1> SUFFICES ASSUME SumsInv PROVE SumsAreSound
    OBVIOUS
  <1>1. TotalsAreSums
    BY DEF SumsInv, TotalsOf, TotalsAreSums, EntryOf, KwhOf, BaseOf, OfUnit
  <1>2. RatioIsOfKnownRows
    BY DEF SumsInv, RatiosOf, RatioIsOfKnownRows, Shows, EntryOf, SharesOf, AmountsOf, RowsOf
  <1> QED
    BY <1>1, <1>2 DEF SumsAreSound

(***************************************************************************)
(* Usage rows: which row of a batch is estimated where.                    *)
(***************************************************************************)
Places(n) == [i \in 1..n |-> i]

KnownPlaces(b) == {p \in DOMAIN b : FateOf(b[p]).fate = "known"}
AsidePlaces(b) == {p \in DOMAIN b : FateOf(b[p]).fate = "unknown"}
OfService(b, s) == {p \in DOMAIN b : b[p].service = s}

\* What is estimated, and what is put aside, of the first n rows.
KnownUpTo(b, n, s) == Select(Places(n), KnownPlaces(b) \cap OfService(b, s))
AsideUpTo(b, n) == Select(Places(n), AsidePlaces(b))

\* A service's estimates are those of its known rows, then of those put aside.
Order(b, s) == KnownUpTo(b, Len(b), s) \o Select(AsideUpTo(b, Len(b)), OfService(b, s))

\* The first n places, in a row.
LEMMA PlacesAre ==
  ASSUME NEW n \in Nat
  PROVE /\ Places(n) \in Seq(Nat) /\ Len(Places(n)) = n /\ Elements(Places(n)) = 1..n
        /\ \A i \in 1..n : Places(n)[i] = i
        /\ Places(n + 1) = Append(Places(n), n + 1)
  <1> DEFINE s == Places(n)
  <1> DEFINE t == Places(n + 1)
  <1>1. /\ s \in Seq(Nat) /\ Len(s) = n /\ DOMAIN s = 1..n /\ \A i \in 1..n : s[i] = i
        /\ t \in Seq(Nat) /\ Len(t) = n + 1 /\ \A i \in 1..(n + 1) : t[i] = i
    BY DEF Places
  <1>2. Elements(s) = 1..n
    BY <1>1 DEF Elements
  <1>3. n + 1 \in Nat
    OBVIOUS
  <1> HIDE DEF s, t
  <1>4. t = Append(s, n + 1)
    BY <1>1, <1>3
  <1> QED
    BY <1>1, <1>2, <1>4 DEF s, t

\* There may be none.
LEMMA NoPlaces == Places(0) = <<>>
  BY DEF Places

\* One place more is taken or not.
LEMMA TakesNext ==
  ASSUME NEW n \in Nat, NEW S
  PROVE Select(Places(n + 1), S) =
          IF n + 1 \in S THEN Append(Select(Places(n), S), n + 1) ELSE Select(Places(n), S)
  <1> DEFINE x == n + 1
  <1>1. Places(n) \in Seq(Nat)
    BY PlacesAre
  <1>2. Places(n + 1) = Append(Places(n), n + 1)
    BY PlacesAre
  <1>3. x \in Nat
    OBVIOUS
  <1>4. Places(x) = Append(Places(n), x)
    BY <1>2
  <1> HIDE DEF x
  <1>5. Select(Append(Places(n), x), S) =
          IF x \in S THEN Append(Select(Places(n), S), x) ELSE Select(Places(n), S)
    BY <1>1, <1>3, SelectAppend
  <1> QED
    BY <1>4, <1>5 DEF x

\* Those taken: each place once, and no other.
LEMMA TakenAre ==
  ASSUME NEW n \in Nat, NEW S
  PROVE /\ Select(Places(n), S) \in Seq(Nat)
        /\ Elements(Select(Places(n), S)) = 1..n \cap S
        /\ \A i, j \in 1..Len(Select(Places(n), S)) :
             Select(Places(n), S)[i] = Select(Places(n), S)[j] => i = j
  <1> DEFINE s == Places(n)
  <1>1. s \in Seq(Nat) /\ Elements(s) = 1..n
    BY PlacesAre
  <1>2. \A i, j \in 1..Len(s) : s[i] = s[j] => i = j
    BY PlacesAre
  <1> HIDE DEF s
  <1>3. Select(s, S) \in Seq(Nat) /\ Elements(Select(s, S)) = 1..n \cap S
    BY <1>1, SelectType
  <1>4. \A i, j \in 1..Len(Select(s, S)) : Select(s, S)[i] = Select(s, S)[j] => i = j
    BY <1>1, <1>2, SelectDistinct
  <1> QED
    BY <1>3, <1>4 DEF s

\* What a sequence holds, by place.
LEMMA Holds ==
  ASSUME NEW T, NEW s \in Seq(T)
  PROVE Elements(s) = {s[i] : i \in 1..Len(s)}
  BY ElementsOf

\* Two of which neither repeats an item nor one of the other's, in a row.
LEMMA JoinDistinct ==
  ASSUME NEW T, NEW s \in Seq(T), NEW t \in Seq(T),
         \A i, j \in 1..Len(s) : s[i] = s[j] => i = j,
         \A i, j \in 1..Len(t) : t[i] = t[j] => i = j,
         Elements(s) \cap Elements(t) = {}
  PROVE /\ s \o t \in Seq(T)
        /\ Elements(s \o t) = Elements(s) \cup Elements(t)
        /\ \A i, j \in 1..Len(s \o t) : (s \o t)[i] = (s \o t)[j] => i = j
  <1> DEFINE q == s \o t
  <1>1. /\ q \in Seq(T) /\ Len(q) = Len(s) + Len(t) /\ Len(s) \in Nat /\ Len(t) \in Nat
        /\ \A i \in 1..Len(s) : q[i] = s[i]
        /\ \A i \in 1..Len(t) : q[Len(s) + i] = t[i]
    OBVIOUS
  <1>2. \A i \in 1..Len(q) : i \notin 1..Len(s) => /\ i - Len(s) \in 1..Len(t)
                                                   /\ q[i] = t[i - Len(s)]
    <2> HIDE DEF q
    <2> SUFFICES ASSUME NEW i \in 1..Len(q), i \notin 1..Len(s)
                 PROVE i - Len(s) \in 1..Len(t) /\ q[i] = t[i - Len(s)]
      OBVIOUS
    <2> DEFINE k == i - Len(s)
    <2>1. k \in 1..Len(t) /\ Len(s) + k = i
      BY <1>1
    <2> HIDE DEF k
    <2>2. q[i] = t[k]
      BY <1>1, <2>1
    <2> QED
      BY <2>1, <2>2 DEF k
  <1> HIDE DEF q
  <1>3a. Elements(s) = {s[i] : i \in 1..Len(s)}
    BY Holds
  <1>3b. Elements(t) = {t[i] : i \in 1..Len(t)}
    BY Holds
  <1>3c. Elements(q) = {q[i] : i \in 1..Len(q)}
    <2>1. q \in Seq(T)
      BY <1>1
    <2>2. DOMAIN q = 1..Len(q)
      BY <2>1
    <2> QED
      BY <2>2 DEF Elements
  <1>3. ASSUME NEW i \in 1..Len(q)
        PROVE /\ i \in 1..Len(s) => q[i] \in Elements(s)
              /\ i \notin 1..Len(s) => q[i] \in Elements(t)
    BY <1>1, <1>2, <1>3a, <1>3b
  <1>4. ASSUME NEW i \in 1..Len(s) PROVE s[i] \in Elements(q)
    <2>1. i \in 1..Len(q) /\ q[i] = s[i]
      BY <1>1
    <2> QED
      BY <2>1, <1>3c
  <1>5. ASSUME NEW i \in 1..Len(t) PROVE t[i] \in Elements(q)
    <2> DEFINE k == Len(s) + i
    <2>1. k \in 1..Len(q) /\ q[k] = t[i]
      BY <1>1
    <2> HIDE DEF k
    <2> QED
      BY <2>1, <1>3c
  <1>6. Elements(q) = Elements(s) \cup Elements(t)
    <2>1. Elements(q) \subseteq Elements(s) \cup Elements(t)
      BY <1>3, <1>3c
    <2>2. Elements(s) \subseteq Elements(q)
      BY <1>4, <1>3a
    <2>3. Elements(t) \subseteq Elements(q)
      BY <1>5, <1>3b
    <2> QED
      BY <2>1, <2>2, <2>3
  <1>7. \A i, j \in 1..Len(q) : q[i] = q[j] => i = j
    <2> SUFFICES ASSUME NEW i \in 1..Len(q), NEW j \in 1..Len(q), q[i] = q[j] PROVE i = j
      OBVIOUS
    <2>1. CASE i \in 1..Len(s) /\ j \in 1..Len(s)
      BY <1>1, <2>1
    <2>2. CASE i \in 1..Len(s) /\ j \notin 1..Len(s)
      <3>1. q[i] \in Elements(s) /\ q[j] \in Elements(t)
        BY <1>3, <2>2
      <3> QED
        BY <3>1
    <2>3. CASE i \notin 1..Len(s) /\ j \in 1..Len(s)
      <3>1. q[j] \in Elements(s) /\ q[i] \in Elements(t)
        BY <1>3, <2>3
      <3> QED
        BY <3>1
    <2>4. CASE i \notin 1..Len(s) /\ j \notin 1..Len(s)
      <3>1. i - Len(s) = j - Len(s)
        BY <1>2, <2>4
      <3> QED
        BY <1>1, <3>1
    <2> QED
      BY <2>1, <2>2, <2>3, <2>4
  <1> QED
    BY <1>1, <1>6, <1>7 DEF q

\* A service's order has each of its estimated rows once.
LEMMA OrderIs ==
  ASSUME NEW b \in Seq(ReportedRows), NEW s
  PROVE /\ Order(b, s) \in Seq(Nat)
        /\ Elements(Order(b, s)) = (KnownPlaces(b) \cup AsidePlaces(b)) \cap OfService(b, s)
        /\ \A i, j \in 1..Len(Order(b, s)) : Order(b, s)[i] = Order(b, s)[j] => i = j
  <1> DEFINE n == Len(b)
  <1>1. n \in Nat /\ DOMAIN b = 1..n
    OBVIOUS
  <1>2. KnownPlaces(b) \subseteq 1..n /\ AsidePlaces(b) \subseteq 1..n
    BY <1>1 DEF KnownPlaces, AsidePlaces
  <1>3. KnownPlaces(b) \cap AsidePlaces(b) = {}
    BY DEF KnownPlaces, AsidePlaces
  <1> DEFINE k == KnownUpTo(b, n, s)
  <1> DEFINE a == AsideUpTo(b, n)
  <1> DEFINE r == Select(a, OfService(b, s))
  <1> HIDE DEF n
  <1>4. /\ k \in Seq(Nat) /\ \A i, j \in 1..Len(k) : k[i] = k[j] => i = j
        /\ Elements(k) = 1..n \cap (KnownPlaces(b) \cap OfService(b, s))
    BY <1>1, TakenAre DEF KnownUpTo
  <1>5. /\ a \in Seq(Nat) /\ \A i, j \in 1..Len(a) : a[i] = a[j] => i = j
        /\ Elements(a) = 1..n \cap AsidePlaces(b)
    BY <1>1, TakenAre DEF AsideUpTo
  <1> HIDE DEF k, a
  <1>6. r \in Seq(Nat) /\ Elements(r) = Elements(a) \cap OfService(b, s)
    BY <1>5, SelectType
  <1>7. \A i, j \in 1..Len(r) : r[i] = r[j] => i = j
    BY <1>5, SelectDistinct
  <1>8. Order(b, s) = k \o r
    BY DEF Order, k, a, n
  <1> HIDE DEF r
  <1>9. Elements(k) \cap Elements(r) = {}
    BY <1>3, <1>4, <1>5, <1>6
  <1>10. /\ k \o r \in Seq(Nat) /\ Elements(k \o r) = Elements(k) \cup Elements(r)
         /\ \A i, j \in 1..Len(k \o r) : (k \o r)[i] = (k \o r)[j] => i = j
    BY <1>4, <1>6, <1>7, <1>9, JoinDistinct
  <1>11. Elements(k) \cup Elements(r) = (KnownPlaces(b) \cup AsidePlaces(b)) \cap OfService(b, s)
    BY <1>2, <1>4, <1>5, <1>6
  <1> QED
    BY <1>8, <1>10, <1>11

(***************************************************************************)
(* Usage rows: what an answer is, as the rows are read.                    *)
(***************************************************************************)
AtOf(q) == [i \in DOMAIN q |-> q[i].at]
FirstOf(u, n) == [i \in 1..n |-> u[i]]

\* What the ratio of a row's unit makes of it, after the known rows q.
EntryOn(q, u) == EntryOf(SharesOf(q, u), AmountsOf(q, u), RowsOf(q, u))
RestFrom(q, row) ==
  IF RowsOf(q, row.unit) = {} THEN Energy(0) ELSE Ratio(EntryOn(q, row.unit), row.base)

\* An estimate of a service's is the row's own energy or what the ratio gives.
OfKnown(e, b) == e.at \in KnownPlaces(b) /\ e.estimate = Energy(FateOf(b[e.at]).kwh)
OfAside(e, b, q) == e.at \in AsidePlaces(b) /\ e.estimate = RestFrom(q, b[e.at])

AllKnown(answer, b) ==
  \A s \in Services : \A i \in DOMAIN answer[s] :
    answer[s][i].at \in OfService(b, s) /\ OfKnown(answer[s][i], b)
AllRight(answer, b, q) ==
  \A s \in Services : \A i \in DOMAIN answer[s] :
    /\ answer[s][i].at \in OfService(b, s)
    /\ OfKnown(answer[s][i], b) \/ OfAside(answer[s][i], b, q)

NoneThrows(b, n) == \A p \in 1..n : FateOf(b[p]).fate # "throws"

\* The answer to a batch after the known rows q.
AnswerIs(answer, b, q) ==
  IF KnownPlaces(b) = {} THEN answer = NoResults
  ELSE (\A s \in Services : AtOf(answer[s]) = Order(b, s)) /\ AllRight(answer, b, q)

\* It as it is after n rows, and after n of the rows put aside.
AfterRows(b, n, aside, answer) ==
  /\ aside = AsideUpTo(b, n)
  /\ \A s \in Services : AtOf(answer[s]) = KnownUpTo(b, n, s)
  /\ AllKnown(answer, b)
  /\ NoneThrows(b, n)
AfterAside(b, n, aside, answer, q) ==
  /\ aside = AsideUpTo(b, Len(b))
  /\ \A s \in Services :
       AtOf(answer[s]) = KnownUpTo(b, Len(b), s) \o Select(FirstOf(aside, n), OfService(b, s))
  /\ AllRight(answer, b, q)
  /\ NoneThrows(b, Len(b)) /\ KnownPlaces(b) # {}

AnswerInv ==
  /\ pc = "rows" => AfterRows(batch, next - 1, unknown, results)
  /\ pc = "unknown" => AfterAside(batch, next - 1, unknown, results, known)
  /\ pc = "done" => NoneThrows(batch, Len(batch)) /\ AnswerIs(results, batch, known)

\* The beginnings of a sequence.
LEMMA FirstGrows ==
  ASSUME NEW T, NEW u \in Seq(T), NEW n \in 1..Len(u)
  PROVE FirstOf(u, n) = Append(FirstOf(u, n - 1), u[n]) /\ FirstOf(u, n - 1) \in Seq(T) /\ u[n] \in T
  <1> DEFINE a == FirstOf(u, n - 1)
  <1> DEFINE c == FirstOf(u, n)
  <1> DEFINE x == u[n]
  <1>1. /\ a \in Seq(T) /\ Len(a) = n - 1 /\ \A i \in 1..(n - 1) : a[i] = u[i]
        /\ c \in Seq(T) /\ Len(c) = n /\ \A i \in 1..n : c[i] = u[i]
        /\ x \in T
    BY DEF FirstOf
  <1>2. c[n] = x
    BY <1>1
  <1> HIDE DEF a, c, x
  <1>3. c = Append(a, x)
    BY <1>1, <1>2
  <1> QED
    BY <1>1, <1>3 DEF a, c, x

\* The whole and the empty beginning.
LEMMA FirstAll ==
  ASSUME NEW T, NEW u \in Seq(T)
  PROVE FirstOf(u, Len(u)) = u /\ FirstOf(u, 0) = <<>>
  BY DEF FirstOf

\* No estimates are for no rows.
LEMMA AtNone == AtOf(<<>>) = <<>>
  BY DEF AtOf

\* An estimate more is for a row more.
LEMMA AtGrows ==
  ASSUME NEW T, NEW q \in Seq(T), NEW e \in T, NEW p, e.at = p
  PROVE AtOf(Append(q, e)) = Append(AtOf(q), p)
  <1> DEFINE a == AtOf(q)
  <1> DEFINE r == Append(q, e)
  <1> DEFINE c == AtOf(r)
  <1>1. /\ r \in Seq(T) /\ Len(r) = Len(q) + 1 /\ Len(q) \in Nat
        /\ \A i \in 1..Len(q) : r[i] = q[i]
        /\ r[Len(q) + 1] = e
    OBVIOUS
  <1>2. a = [i \in 1..Len(q) |-> q[i].at]
    BY DEF AtOf
  <1> HIDE DEF r
  <1>3. c = [i \in 1..(Len(q) + 1) |-> r[i].at]
    BY <1>1 DEF AtOf
  <1> DEFINE A == {q[i].at : i \in 1..Len(q)} \cup {p}
  <1>4. a \in Seq(A) /\ Len(a) = Len(q) /\ p \in A
    BY <1>1, <1>2
  <1>5. /\ Len(c) = Len(q) + 1 /\ DOMAIN c = 1..(Len(q) + 1)
        /\ \A i \in 1..Len(q) : c[i] = a[i]
        /\ c[Len(q) + 1] = p
    BY <1>1, <1>2, <1>3
  <1>6. c \in Seq(A)
    BY <1>1, <1>3, <1>4
  <1> HIDE DEF a, c, A
  <1>7. c = Append(a, p)
    BY <1>1, <1>4, <1>5, <1>6
  <1> QED
    BY <1>7 DEF a, c, r

\* The last place is taken or not.
LEMMA TakesLast ==
  ASSUME NEW n \in Nat, n > 0, NEW S
  PROVE Select(Places(n), S) =
          IF n \in S THEN Append(Select(Places(n - 1), S), n) ELSE Select(Places(n - 1), S)
  <1> DEFINE k == n - 1
  <1>1. k \in Nat /\ k + 1 = n
    OBVIOUS
  <1> HIDE DEF k
  <1>2. Select(Places(k + 1), S) =
          IF k + 1 \in S THEN Append(Select(Places(k), S), k + 1) ELSE Select(Places(k), S)
    BY <1>1, TakesNext
  <1> QED
    BY <1>1, <1>2 DEF k

\* new is old with an estimate for the place p more, at the service s0.
Extended(new, old, p, e, s0) ==
  /\ AtOf(new[s0]) = Append(AtOf(old[s0]), p)
  /\ \A s \in Services : s # s0 => new[s] = old[s]
  /\ \A i \in DOMAIN new[s0] : \/ i \in DOMAIN old[s0] /\ new[s0][i] = old[s0][i]
                              \/ new[s0][i] = [at |-> p, estimate |-> e]

\* An estimate is added for the row at a place.
LEMMA Adds ==
  ASSUME RowsTypeOK, NEW p, p \in DOMAIN batch, NEW e \in Estimates, AddToResults(p, e)
  PROVE Extended(results', results, p, e, batch[p].service)
  <1> DEFINE s0 == batch[p].service
  <1> DEFINE T == [at : 1..MaxRows, estimate : Estimates]
  <1> DEFINE r == [at |-> p, estimate |-> e]
  <1>1. s0 \in Services /\ p \in 1..MaxRows
    BY RowAt
  <1>2. r \in T /\ r.at = p
    BY <1>1
  <1>3. results \in [Services -> Seq(T)]
    BY DEF RowsTypeOK, Results
  <1>4. results' = [results EXCEPT ![s0] = Append(results[s0], r)]
    BY <1>3 DEF AddToResults
  <1> HIDE DEF T, r, s0
  <1>5. results[s0] \in Seq(T)
    BY <1>1, <1>3
  <1>6. /\ results'[s0] = Append(results[s0], r)
        /\ \A s \in Services : s # s0 => results'[s] = results[s]
    BY <1>1, <1>3, <1>4
  <1>7. AtOf(results'[s0]) = Append(AtOf(results[s0]), p)
    BY <1>2, <1>5, <1>6, AtGrows
  <1>8. \A i \in DOMAIN results'[s0] :
          \/ i \in DOMAIN results[s0] /\ results'[s0][i] = results[s0][i]
          \/ results'[s0][i] = r
    BY <1>2, <1>5, <1>6
  <1> QED
    BY <1>6, <1>7, <1>8 DEF r, s0, Extended

\* The sums of the process are those of its known rows, and so is what rests on them.
LEMMA RestIs ==
  ASSUME SumsInv, NEW row \in ReportedRows
  PROVE RestOf(total, row) = RestFrom(known, row)
  <1> DEFINE u == row.unit
  <1>1. u \in Units
    BY RowsAssumption DEF RowType
  <1>2. Shows(total, u, SharesOf(known, u), AmountsOf(known, u), RowsOf(known, u))
    BY <1>1 DEF SumsInv, RatiosOf
  <1> QED
    BY <1>2 DEF RestOf, RestFrom, EntryOn, Shows

\* One row more is read.
LEMMA ReadsNext ==
  ASSUME NEW b \in Seq(ReportedRows), NEW n \in 1..Len(b)
  PROVE /\ FateOf(b[n]).fate = "unknown" => AsideUpTo(b, n) = Append(AsideUpTo(b, n - 1), n)
        /\ FateOf(b[n]).fate # "unknown" => AsideUpTo(b, n) = AsideUpTo(b, n - 1)
        /\ \A s : /\ FateOf(b[n]).fate = "known" /\ b[n].service = s =>
                        KnownUpTo(b, n, s) = Append(KnownUpTo(b, n - 1, s), n)
                  /\ FateOf(b[n]).fate # "known" \/ b[n].service # s =>
                        KnownUpTo(b, n, s) = KnownUpTo(b, n - 1, s)
        /\ FateOf(b[n]).fate # "throws" /\ NoneThrows(b, n - 1) => NoneThrows(b, n)
  <1>1. n \in Nat /\ n > 0 /\ n \in DOMAIN b /\ Len(b) \in Nat
    OBVIOUS
  <1>2. ASSUME NEW S
        PROVE Select(Places(n), S) =
                IF n \in S THEN Append(Select(Places(n - 1), S), n) ELSE Select(Places(n - 1), S)
    BY <1>1, TakesLast
  <1>3. n \in AsidePlaces(b) <=> FateOf(b[n]).fate = "unknown"
    BY <1>1 DEF AsidePlaces
  <1>4. ASSUME NEW s
        PROVE n \in KnownPlaces(b) \cap OfService(b, s) <=>
                FateOf(b[n]).fate = "known" /\ b[n].service = s
    BY <1>1 DEF KnownPlaces, OfService
  <1>5. /\ FateOf(b[n]).fate = "unknown" => AsideUpTo(b, n) = Append(AsideUpTo(b, n - 1), n)
        /\ FateOf(b[n]).fate # "unknown" => AsideUpTo(b, n) = AsideUpTo(b, n - 1)
    BY <1>2, <1>3 DEF AsideUpTo
  <1>6. ASSUME NEW s
        PROVE /\ FateOf(b[n]).fate = "known" /\ b[n].service = s =>
                   KnownUpTo(b, n, s) = Append(KnownUpTo(b, n - 1, s), n)
              /\ FateOf(b[n]).fate # "known" \/ b[n].service # s =>
                   KnownUpTo(b, n, s) = KnownUpTo(b, n - 1, s)
    BY <1>2, <1>4 DEF KnownUpTo
  <1>7. FateOf(b[n]).fate # "throws" /\ NoneThrows(b, n - 1) => NoneThrows(b, n)
    BY <1>1 DEF NoneThrows
  <1> QED
    BY <1>5, <1>6, <1>7

\* A row that is dropped leaves an answer as it is.
LEMMA RowDropped ==
  ASSUME NEW b \in Seq(ReportedRows), NEW n \in 1..Len(b), NEW aside, NEW answer,
         AfterRows(b, n - 1, aside, answer), FateOf(b[n]).fate = "dropped"
  PROVE AfterRows(b, n, aside, answer)
  <1>1. /\ AsideUpTo(b, n) = AsideUpTo(b, n - 1)
        /\ \A s : KnownUpTo(b, n, s) = KnownUpTo(b, n - 1, s)
        /\ NoneThrows(b, n - 1) => NoneThrows(b, n)
    BY ReadsNext
  <1> QED
    BY <1>1 DEF AfterRows

\* One that is put aside grows the places put aside.
LEMMA RowAside ==
  ASSUME NEW b \in Seq(ReportedRows), NEW n \in 1..Len(b), NEW aside, NEW answer,
         AfterRows(b, n - 1, aside, answer), FateOf(b[n]).fate = "unknown"
  PROVE AfterRows(b, n, Append(aside, n), answer)
  <1>1. /\ AsideUpTo(b, n) = Append(AsideUpTo(b, n - 1), n)
        /\ \A s : KnownUpTo(b, n, s) = KnownUpTo(b, n - 1, s)
        /\ NoneThrows(b, n - 1) => NoneThrows(b, n)
    BY ReadsNext
  <1> QED
    BY <1>1 DEF AfterRows

\* A known one has its energy in the answer.
LEMMA RowKnown ==
  ASSUME NEW b \in Seq(ReportedRows), NEW n \in 1..Len(b), NEW aside, NEW answer, NEW new,
         AfterRows(b, n - 1, aside, answer), FateOf(b[n]).fate = "known",
         Extended(new, answer, n, Energy(FateOf(b[n]).kwh), b[n].service)
  PROVE AfterRows(b, n, aside, new)
  <1> DEFINE s0 == b[n].service
  <1> DEFINE e == [at |-> n, estimate |-> Energy(FateOf(b[n]).kwh)]
  <1>0. /\ AtOf(new[s0]) = Append(AtOf(answer[s0]), n)
        /\ \A s \in Services : s # s0 => new[s] = answer[s]
        /\ \A i \in DOMAIN new[s0] :
             (i \in DOMAIN answer[s0] /\ new[s0][i] = answer[s0][i]) \/ new[s0][i] = e
    BY DEF Extended
  <1>1. /\ AsideUpTo(b, n) = AsideUpTo(b, n - 1)
        /\ KnownUpTo(b, n, s0) = Append(KnownUpTo(b, n - 1, s0), n)
        /\ \A s : s # s0 => KnownUpTo(b, n, s) = KnownUpTo(b, n - 1, s)
        /\ NoneThrows(b, n - 1) => NoneThrows(b, n)
    BY ReadsNext
  <1>2. \A s \in Services : AtOf(new[s]) = KnownUpTo(b, n, s)
    BY <1>0, <1>1 DEF AfterRows
  <1>3. e.at \in OfService(b, s0) /\ OfKnown(e, b)
    BY DEF OfService, OfKnown, KnownPlaces
  <1>4. AllKnown(new, b)
    BY <1>0, <1>3 DEF AfterRows, AllKnown
  <1> QED
    BY <1>1, <1>2, <1>4 DEF AfterRows

\* The next of those put aside has what the ratio gives.
LEMMA AsideEstimated ==
  ASSUME NEW b \in Seq(ReportedRows), NEW aside, NEW n \in 1..Len(aside), NEW answer, NEW q, NEW new,
         AfterAside(b, n - 1, aside, answer, q),
         NEW p, p = aside[n], p \in AsidePlaces(b),
         Extended(new, answer, p, RestFrom(q, b[p]), b[p].service)
  PROVE AfterAside(b, n, aside, new, q)
  <1> DEFINE s0 == b[p].service
  <1> DEFINE e == [at |-> p, estimate |-> RestFrom(q, b[p])]
  <1>e. /\ AtOf(new[s0]) = Append(AtOf(answer[s0]), p)
        /\ \A s \in Services : s # s0 => new[s] = answer[s]
        /\ \A i \in DOMAIN new[s0] :
             (i \in DOMAIN answer[s0] /\ new[s0][i] = answer[s0][i]) \/ new[s0][i] = e
    BY DEF Extended
  <1>0. Len(b) \in Nat
    OBVIOUS
  <1>1. aside = AsideUpTo(b, Len(b)) /\ aside \in Seq(Nat)
    <2>1. Select(Places(Len(b)), AsidePlaces(b)) \in Seq(Nat)
      BY <1>0, TakenAre
    <2> QED
      BY <2>1 DEF AfterAside, AsideUpTo
  <1>2. /\ FirstOf(aside, n) = Append(FirstOf(aside, n - 1), p)
        /\ FirstOf(aside, n - 1) \in Seq(Nat) /\ p \in Nat
    BY <1>1, FirstGrows
  <1>3. ASSUME NEW S
        PROVE /\ Select(FirstOf(aside, n), S) =
                   IF p \in S THEN Append(Select(FirstOf(aside, n - 1), S), p)
                   ELSE Select(FirstOf(aside, n - 1), S)
              /\ Select(FirstOf(aside, n - 1), S) \in Seq(Nat)
    <2> DEFINE f == FirstOf(aside, n - 1)
    <2>1. f \in Seq(Nat) /\ p \in Nat /\ FirstOf(aside, n) = Append(f, p)
      BY <1>2
    <2> HIDE DEF f
    <2>2. ASSUME NEW x \in Nat
          PROVE Select(Append(f, x), S) = IF x \in S THEN Append(Select(f, S), x) ELSE Select(f, S)
      BY <2>1, SelectAppend
    <2>3. Select(f, S) \in Seq(Nat)
      BY <2>1, SelectType
    <2> QED
      BY <2>1, <2>2, <2>3 DEF f
  <1>4. ASSUME NEW s \in Services
        PROVE AtOf(new[s]) = KnownUpTo(b, Len(b), s) \o Select(FirstOf(aside, n), OfService(b, s))
    <2> DEFINE k == KnownUpTo(b, Len(b), s)
    <2> DEFINE r == Select(FirstOf(aside, n - 1), OfService(b, s))
    <2>1. k \in Seq(Nat)
      BY <1>0, TakenAre DEF KnownUpTo
    <2>2. r \in Seq(Nat)
      BY <1>3
    <2>3. AtOf(answer[s]) = k \o r
      BY DEF AfterAside
    <2>4. p \in OfService(b, s) <=> s = s0
      BY DEF OfService, AsidePlaces
    <2> HIDE DEF k, r
    <2>5. Append(k \o r, p) = k \o Append(r, p)
      <3> DEFINE N == Nat
      <3>1. k \in Seq(N) /\ r \in Seq(N) /\ p \in N
        BY <1>2, <2>1, <2>2
      <3> HIDE DEF N
      <3> QED
        BY ONLY <3>1
    <2>6. CASE s = s0
      BY <1>e, <1>3, <2>3, <2>4, <2>5, <2>6 DEF k, r
    <2>7. CASE s # s0
      BY <1>e, <1>3, <2>3, <2>4, <2>7 DEF k, r
    <2> QED
      BY <2>6, <2>7
  <1>5. e.at \in OfService(b, s0) /\ OfAside(e, b, q)
    BY DEF OfService, OfAside, AsidePlaces
  <1>6. AllRight(new, b, q)
    BY <1>e, <1>5 DEF AfterAside, AllRight
  <1> QED
    BY <1>4, <1>6 DEF AfterAside

\* Only a batch without any known row leaves nothing.
LEMMA NoneKnown ==
  ASSUME NEW b \in Seq(ReportedRows), NEW answer \in Results,
         \A s \in Services : AtOf(answer[s]) = KnownUpTo(b, Len(b), s)
  PROVE answer = NoResults <=> KnownPlaces(b) = {}
  <1>0. Len(b) \in Nat /\ DOMAIN b = 1..Len(b)
    OBVIOUS
  <1> DEFINE S(s) == KnownPlaces(b) \cap OfService(b, s)
  <1>1. ASSUME NEW s
        PROVE KnownUpTo(b, Len(b), s) \in Seq(Nat) /\ Elements(KnownUpTo(b, Len(b), s)) = S(s)
    <2> DEFINE X == S(s)
    <2>1. X \subseteq 1..Len(b)
      BY <1>0 DEF KnownPlaces
    <2> HIDE DEF X
    <2>2. Select(Places(Len(b)), X) \in Seq(Nat) /\ Elements(Select(Places(Len(b)), X)) = 1..Len(b) \cap X
      BY <1>0, TakenAre
    <2>3. KnownUpTo(b, Len(b), s) = Select(Places(Len(b)), X)
      BY DEF KnownUpTo, X
    <2> QED
      BY <2>1, <2>2, <2>3 DEF X
  <1> HIDE DEF S
  <1>2. ASSUME answer = NoResults, NEW p \in KnownPlaces(b) PROVE FALSE
    <2> DEFINE s == b[p].service
    <2>1. p \in DOMAIN b /\ b[p] \in ReportedRows
      BY DEF KnownPlaces
    <2>2. s \in Services
      BY <2>1, RowsAssumption DEF RowType
    <2>3. p \in S(s)
      BY <2>1 DEF S, OfService
    <2> HIDE DEF s
    <2>4. AtOf(answer[s]) = <<>>
      BY <1>2, <2>2, AtNone DEF NoResults
    <2>5. Elements(<<>>) = {}
      BY DEF Elements
    <2> QED
      BY <1>1, <2>2, <2>3, <2>4, <2>5
  <1>3. ASSUME KnownPlaces(b) = {} PROVE answer = NoResults
    <2>1. ASSUME NEW s \in Services PROVE answer[s] = <<>>
      <3> DEFINE k == KnownUpTo(b, Len(b), s)
      <3>1. k \in Seq(Nat) /\ Elements(k) = {}
        BY <1>1, <1>3 DEF S
      <3> HIDE DEF k
      <3>2. k = <<>>
        BY <3>1, ElementsOf
      <3>3. AtOf(answer[s]) = <<>>
        BY <3>2 DEF k
      <3>4. DOMAIN answer[s] = {}
        BY <3>3 DEF AtOf
      <3>5. answer[s] \in Seq([at : 1..MaxRows, estimate : Estimates])
        BY DEF Results
      <3>6. Elements(answer[s]) = {}
        BY <3>4 DEF Elements
      <3> QED
        BY <3>5, <3>6, ElementsOf
    <2>2. answer = [s \in Services |-> answer[s]]
      BY DEF Results
    <2> QED
      BY <2>1, <2>2 DEF NoResults
  <1> QED
    BY <1>2, <1>3

\* Before any row is read.
LEMMA AnswerStarts == ASSUME NEW b \in Seq(ReportedRows) PROVE AfterRows(b, 0, <<>>, NoResults)
  <1>1. ASSUME NEW S PROVE Select(Places(0), S) = <<>>
    BY NoPlaces, SelectEmpty
  <1>2. \A s \in Services : AtOf(NoResults[s]) = <<>> /\ DOMAIN NoResults[s] = {}
    BY AtNone DEF NoResults
  <1> QED
    BY <1>1, <1>2 DEF AfterRows, AsideUpTo, KnownUpTo, AllKnown, NoneThrows

\* When all rows are read.
LEMMA AsideStarts ==
  ASSUME NEW b \in Seq(ReportedRows), NEW aside, NEW answer, NEW q,
         AfterRows(b, Len(b), aside, answer), KnownPlaces(b) # {}
  PROVE AfterAside(b, 0, aside, answer, q)
  <1>1. ASSUME NEW s PROVE KnownUpTo(b, Len(b), s) \o Select(FirstOf(aside, 0), OfService(b, s))
                             = KnownUpTo(b, Len(b), s)
    <2>1. FirstOf(aside, 0) = <<>>
      BY DEF FirstOf
    <2>2. Select(<<>>, OfService(b, s)) = <<>>
      BY SelectEmpty
    <2>3. Select(Places(Len(b)), KnownPlaces(b) \cap OfService(b, s)) \in Seq(Nat)
      <3>1. Len(b) \in Nat
        OBVIOUS
      <3> QED
        BY <3>1, TakenAre
    <2>4. KnownUpTo(b, Len(b), s) \in Seq(Nat)
      BY <2>3 DEF KnownUpTo
    <2> QED
      BY <2>1, <2>2, <2>4
  <1>2. AllRight(answer, b, q)
    BY DEF AfterRows, AllKnown, AllRight
  <1> QED
    BY <1>1, <1>2 DEF AfterRows, AfterAside

\* When all those put aside are estimated.
LEMMA AsideEnds ==
  ASSUME NEW b \in Seq(ReportedRows), NEW aside, NEW answer, NEW q,
         AfterAside(b, Len(aside), aside, answer, q)
  PROVE AnswerIs(answer, b, q)
  <1>1. Len(b) \in Nat
    OBVIOUS
  <1>2. aside = AsideUpTo(b, Len(b))
    BY DEF AfterAside
  <1>3. Select(Places(Len(b)), AsidePlaces(b)) \in Seq(Nat)
    BY <1>1, TakenAre
  <1>4. FirstOf(aside, Len(aside)) = aside
    BY <1>2, <1>3, FirstAll DEF AsideUpTo
  <1> QED
    BY <1>2, <1>4 DEF AfterAside, AnswerIs, Order

\* No request is under way at first.
LEMMA InitAnswer == RowsInit => AnswerInv
  BY DEF RowsInit, AnswerInv

\* Each step carries the answer on by its row.
LEMMA NextAnswer == TypesInv /\ SumsInv /\ AnswerInv /\ [RowsNext]_rowsVars => AnswerInv'
  <1> SUFFICES ASSUME TypesInv, SumsInv, AnswerInv, [RowsNext]_rowsVars PROVE AnswerInv'
    OBVIOUS
  <1>0. /\ RowsTypeOK /\ batch \in Seq(ReportedRows) /\ Len(batch) \in Nat /\ DOMAIN batch = 1..Len(batch)
        /\ next \in Nat /\ next >= 1 /\ (next + 1) - 1 = next
        /\ unknown \in Seq(DOMAIN batch) /\ Len(unknown) \in Nat
        /\ pc = "rows" => next - 1 <= Len(batch)
        /\ pc = "unknown" => next - 1 <= Len(unknown)
    BY Bounds DEF TypesInv, RowsTypeOK, Progress
  <1>1. CASE Ask
    <2>1. PICK n \in 0..MaxRows : batch' \in [1..n -> {row \in ReportedRows : row.provider = provider}]
      BY <1>1 DEF Ask
    <2>2. batch' \in Seq(ReportedRows)
      BY <2>1
    <2>3. pc' = "rows" /\ next' - 1 = 0 /\ unknown' = <<>> /\ results' = NoResults
      BY <1>1 DEF Ask
    <2> QED
      BY <2>2, <2>3, AnswerStarts DEF AnswerInv
  <1>2. ASSUME NEW fate, AtRow(fate)
        PROVE /\ next \in 1..Len(batch) /\ FateOf(batch[next]).fate = fate /\ pc = "rows"
              /\ AfterRows(batch, next - 1, unknown, results)
    BY <1>0, <1>2 DEF AtRow, AnswerInv, Row
  <1>3. CASE DropRow
    <2>1. /\ next \in 1..Len(batch) /\ FateOf(batch[next]).fate = "dropped" /\ pc = "rows"
          /\ AfterRows(batch, next - 1, unknown, results)
      BY <1>2, <1>3 DEF DropRow
    <2>2. AfterRows(batch, next, unknown, results)
      BY <1>0, <2>1, RowDropped
    <2>3. /\ next' - 1 = next /\ pc' = "rows"
          /\ batch' = batch /\ unknown' = unknown /\ results' = results
      BY <1>0, <1>3, <2>1 DEF DropRow
    <2> QED
      BY <2>2, <2>3 DEF AnswerInv
  <1>4. CASE PutAside
    <2>1. /\ next \in 1..Len(batch) /\ FateOf(batch[next]).fate = "unknown" /\ pc = "rows"
          /\ AfterRows(batch, next - 1, unknown, results)
      BY <1>2, <1>4 DEF PutAside
    <2>2. AfterRows(batch, next, Append(unknown, next), results)
      BY <1>0, <2>1, RowAside
    <2>3. /\ next' - 1 = next /\ pc' = "rows"
          /\ batch' = batch /\ unknown' = Append(unknown, next) /\ results' = results
      BY <1>0, <1>4, <2>1 DEF PutAside
    <2> QED
      BY <2>2, <2>3 DEF AnswerInv
  <1>5. CASE EstimateRow
    <2>1. /\ next \in 1..Len(batch) /\ FateOf(batch[next]).fate = "known" /\ pc = "rows"
          /\ AfterRows(batch, next - 1, unknown, results)
      BY <1>2, <1>5 DEF EstimateRow
    <2> DEFINE e == Energy(FateOf(batch[next]).kwh)
    <2> DEFINE s0 == batch[next].service
    <2>2. e \in Estimates
      <3>1. batch[next] \in ReportedRows
        BY <1>0, <2>1
      <3>2. FateOf(batch[next]).kwh \in Kwh
        BY <3>1, FateFacts
      <3> QED
        BY <3>2, EnergyType
    <2>3. AddToResults(next, e)
      BY <1>5 DEF EstimateRow, Row
    <2>4. Extended(results', results, next, e, s0)
      <3>1. next \in DOMAIN batch
        BY <1>0, <2>1
      <3> HIDE DEF e
      <3> QED
        BY <1>0, <2>2, <2>3, <3>1, Adds
    <2>5. AfterRows(batch, next, unknown, results')
      BY <1>0, <2>1, <2>4, RowKnown
    <2>6. /\ next' - 1 = next /\ pc' = "rows" /\ batch' = batch /\ unknown' = unknown
      BY <1>0, <1>5, <2>1 DEF EstimateRow
    <2> QED
      BY <2>5, <2>6 DEF AnswerInv
  <1>6. CASE RowThrows
    BY <1>6 DEF RowThrows, AnswerInv
  <1>7. CASE EndOfRows
    <2>1. pc = "rows" /\ next - 1 = Len(batch) /\ AfterRows(batch, Len(batch), unknown, results)
      BY <1>0, <1>7 DEF EndOfRows, AnswerInv
    <2>2. results = NoResults <=> KnownPlaces(batch) = {}
      <3>1. results \in Results /\ \A s \in Services : AtOf(results[s]) = KnownUpTo(batch, Len(batch), s)
        BY <1>0, <2>1 DEF RowsTypeOK, AfterRows
      <3> QED
        BY <1>0, <3>1, NoneKnown
    <2>3. /\ next' - 1 = 0 /\ batch' = batch /\ unknown' = unknown /\ results' = results /\ known' = known
          /\ results = NoResults => pc' = "done"
          /\ results # NoResults => pc' = "unknown"
      BY <1>7 DEF EndOfRows, Finished
    <2>4. CASE results = NoResults
      BY <2>1, <2>2, <2>3, <2>4 DEF AnswerInv, AnswerIs, AfterRows
    <2>5. CASE results # NoResults
      <3>1. AfterAside(batch, 0, unknown, results, known)
        BY <1>0, <2>1, <2>2, <2>5, AsideStarts
      <3> QED
        BY <2>3, <2>5, <3>1 DEF AnswerInv
    <2> QED
      BY <2>4, <2>5
  <1>8. CASE EstimateUnknown
    <2> DEFINE p == unknown[next]
    <2> DEFINE e == RestFrom(known, batch[p])
    <2> DEFINE s0 == batch[p].service
    <2>1. /\ pc = "unknown" /\ next \in 1..Len(unknown) /\ p \in DOMAIN batch
          /\ AfterAside(batch, next - 1, unknown, results, known)
      BY <1>0, <1>8 DEF EstimateUnknown, AnswerInv
    <2>2. p \in AsidePlaces(batch)
      <3>1. unknown = Select(Places(Len(batch)), AsidePlaces(batch))
        BY <2>1 DEF AfterAside, AsideUpTo
      <3>2. Elements(unknown) = 1..Len(batch) \cap AsidePlaces(batch)
        BY <1>0, <3>1, TakenAre
      <3>3. p \in Elements(unknown)
        BY <1>0, <2>1 DEF Elements
      <3> QED
        BY <3>2, <3>3
    <2>3. batch[p] \in ReportedRows
      BY <1>0, <2>1
    <2> HIDE DEF p
    <2>4. EstimateUnknownUsage(UnknownUsage(batch[p])) = e /\ e \in Estimates
      <3>1. EstimateUnknownUsage(UnknownUsage(batch[p])) = RestOf(total, batch[p])
        BY UnknownIs
      <3>2. RestOf(total, batch[p]) \in Estimates
        BY <1>0, <2>3, RestType
      <3>3. RestOf(total, batch[p]) = e
        BY <2>3, RestIs
      <3> QED
        BY <3>1, <3>2, <3>3
    <2>5. AddToResults(p, e)
      BY <1>8, <2>4 DEF EstimateUnknown, p
    <2>6. Extended(results', results, p, e, s0)
      <3> HIDE DEF e
      <3> QED
        BY <1>0, <2>1, <2>4, <2>5, Adds
    <2>7. p = unknown[next]
      BY DEF p
    <2>8. AfterAside(batch, next, unknown, results', known)
      BY <1>0, <2>1, <2>2, <2>6, <2>7, AsideEstimated
    <2>9. /\ next' - 1 = next /\ pc' = "unknown" /\ batch' = batch /\ unknown' = unknown /\ known' = known
      BY <1>0, <1>8, <2>1 DEF EstimateUnknown
    <2> QED
      BY <2>8, <2>9 DEF AnswerInv
  <1>9. CASE EndOfUnknown
    <2>1. pc = "unknown" /\ next - 1 = Len(unknown) /\ AfterAside(batch, Len(unknown), unknown, results, known)
      BY <1>0, <1>9 DEF EndOfUnknown, AnswerInv
    <2>2. AnswerIs(results, batch, known)
      BY <1>0, <2>1, AsideEnds
    <2>3. pc' = "done" /\ batch' = batch /\ results' = results /\ known' = known
      BY <1>9 DEF EndOfUnknown, Finished
    <2> QED
      BY <2>1, <2>2, <2>3 DEF AnswerInv, AfterAside
  <1>10. CASE UNCHANGED rowsVars
    BY <1>10 DEF rowsVars, AnswerInv
  <1> QED
    BY <1>1, <1>3, <1>4, <1>5, <1>6, <1>7, <1>8, <1>9, <1>10 DEF RowsNext

\* The rows of an answer, service by service.
LEMMA AnswerOrder ==
  ASSUME NEW b \in Seq(ReportedRows), NEW answer, NEW q, AnswerIs(answer, b, q), KnownPlaces(b) # {},
         NEW s \in Services
  PROVE /\ Order(b, s) \in Seq(Nat)
        /\ DOMAIN answer[s] = 1..Len(Order(b, s))
        /\ \A i \in DOMAIN answer[s] : answer[s][i].at = Order(b, s)[i]
  <1> DEFINE o == Order(b, s)
  <1>1. o \in Seq(Nat)
    BY OrderIs
  <1>2. AtOf(answer[s]) = o
    BY DEF AnswerIs
  <1> HIDE DEF o
  <1>3. o = [i \in DOMAIN answer[s] |-> answer[s][i].at]
    BY <1>2 DEF AtOf
  <1>4. DOMAIN o = 1..Len(o)
    BY <1>1
  <1>5. DOMAIN answer[s] = 1..Len(o) /\ \A i \in DOMAIN answer[s] : answer[s][i].at = o[i]
    BY <1>3, <1>4
  <1> QED
    BY <1>1, <1>5 DEF o

\* Which estimates are those of a row.
LEMMA EstimatesAre ==
  ASSUME NEW b \in Seq(ReportedRows), NEW answer, NEW q, AnswerIs(answer, b, q), KnownPlaces(b) # {},
         NEW p \in DOMAIN b
  PROVE /\ p \in KnownPlaces(b) \cup AsidePlaces(b) =>
             \E i \in DOMAIN answer[b[p].service] :
               /\ answer[b[p].service][i].at = p
               /\ EstimatesOf(answer, p) = {<<b[p].service, i>>}
        /\ p \notin KnownPlaces(b) \cup AsidePlaces(b) => EstimatesOf(answer, p) = {}
  <1> DEFINE s0 == b[p].service
  <1> DEFINE E == KnownPlaces(b) \cup AsidePlaces(b)
  <1>0. s0 \in Services
    BY RowsAssumption DEF RowType
  <1> HIDE DEF E
  <1>1. ASSUME NEW s \in Services, NEW i \in DOMAIN answer[s], answer[s][i].at = p
        PROVE p \in E /\ s = s0
    <2> DEFINE o == Order(b, s)
    <2>1. o \in Seq(Nat) /\ i \in 1..Len(o) /\ o[i] = p
      BY <1>1, AnswerOrder
    <2>2. Elements(o) = E \cap OfService(b, s)
      BY OrderIs DEF E
    <2> HIDE DEF o
    <2>3. p \in Elements(o)
      BY <2>1, ElementsOf
    <2> QED
      BY <2>2, <2>3 DEF OfService
  <1>2. ASSUME p \in E
        PROVE \E i \in DOMAIN answer[s0] :
                answer[s0][i].at = p /\ \A j \in DOMAIN answer[s0] : answer[s0][j].at = p => j = i
    <2> DEFINE o == Order(b, s0)
    <2>1. /\ o \in Seq(Nat) /\ DOMAIN answer[s0] = 1..Len(o)
          /\ \A i \in DOMAIN answer[s0] : answer[s0][i].at = o[i]
      BY <1>0, AnswerOrder
    <2>2. /\ Elements(o) = E \cap OfService(b, s0)
          /\ \A i, j \in 1..Len(o) : o[i] = o[j] => i = j
      BY OrderIs DEF E
    <2>3. p \in OfService(b, s0)
      BY DEF OfService
    <2> HIDE DEF o, s0
    <2>4. p \in Elements(o)
      BY <1>2, <2>2, <2>3
    <2>5. PICK i \in 1..Len(o) : o[i] = p
      <3>1. Elements(o) = {o[i] : i \in 1..Len(o)}
        BY <2>1, ElementsOf
      <3> QED
        BY <2>4, <3>1
    <2>6. i \in DOMAIN answer[s0] /\ answer[s0][i].at = p
      BY <2>1, <2>5
    <2>7. ASSUME NEW j \in DOMAIN answer[s0], answer[s0][j].at = p PROVE j = i
      <3>1. j \in 1..Len(o) /\ o[j] = o[i]
        BY <2>1, <2>5, <2>7
      <3> QED
        BY <2>2, <3>1
    <2> QED
      BY <2>6, <2>7
  <1>3. ASSUME p \in E
        PROVE \E i \in DOMAIN answer[s0] : answer[s0][i].at = p /\ EstimatesOf(answer, p) = {<<s0, i>>}
    <2>1. PICK i \in DOMAIN answer[s0] :
                answer[s0][i].at = p /\ \A j \in DOMAIN answer[s0] : answer[s0][j].at = p => j = i
      BY <1>2, <1>3
    <2>2. EstimatesOf(answer, p) \subseteq {<<s0, i>>}
      BY <1>1, <2>1 DEF EstimatesOf
    <2>3. <<s0, i>> \in EstimatesOf(answer, p)
      BY <1>0, <2>1 DEF EstimatesOf
    <2> QED
      BY <2>1, <2>2, <2>3
  <1>4. ASSUME p \notin E PROVE EstimatesOf(answer, p) = {}
    BY <1>1, <1>4 DEF EstimatesOf
  <1> QED
    BY <1>3, <1>4 DEF E

\* A row that is not dropped has one.
LEMMA OneEstimate ==
  ASSUME NEW b \in Seq(ReportedRows), NEW answer, NEW q, AnswerIs(answer, b, q), KnownPlaces(b) # {},
         NEW p \in DOMAIN b, p \in KnownPlaces(b) \cup AsidePlaces(b)
  PROVE \E x : EstimatesOf(answer, p) = {x}
  <1>1. PICK i \in DOMAIN answer[b[p].service] :
               /\ answer[b[p].service][i].at = p
               /\ EstimatesOf(answer, p) = {<<b[p].service, i>>}
    BY EstimatesAre
  <1> QED
    BY <1>1

\* Nothing is estimated for a batch without any known row.
LEMMA NothingEstimated == ASSUME NEW p PROVE EstimatesOf(NoResults, p) = {}
  BY DEF EstimatesOf, NoResults

\* The estimate of a row is one that is for it.
LEMMA EstimateChosen ==
  ASSUME NEW p \in DOMAIN batch, NEW s, s = batch[p].service, NEW i \in DOMAIN results[s], results[s][i].at = p,
         s \in Services, NEW q, AllRight(results, batch, q)
  PROVE \E e : /\ e.at = p /\ EstimateAt(p) = e.estimate
               /\ OfKnown(e, batch) \/ OfAside(e, batch, q)
  <1> DEFINE k == CHOOSE j \in DOMAIN results[s] : results[s][j].at = p
  <1>1. k \in DOMAIN results[s] /\ results[s][k].at = p
    OBVIOUS
  <1>2. EstimateAt(p) = results[s][k].estimate
    BY DEF EstimateAt
  <1> HIDE DEF k
  <1> QED
    BY <1>1, <1>2 DEF AllRight

\* Every estimate of an answer is of a row known or put aside.
LEMMA SomeEstimate ==
  ASSUME TypesInv, AnswerIs(results, batch, known), NEW p \in DOMAIN batch, EstimatesOf(results, p) # {}
  PROVE /\ p \in KnownPlaces(batch) => EstimateAt(p) = Energy(FateOf(batch[p]).kwh)
        /\ p \in AsidePlaces(batch) => EstimateAt(p) = RestFrom(known, batch[p])
        /\ p \in KnownPlaces(batch) \cup AsidePlaces(batch)
  <1>0. batch \in Seq(ReportedRows)
    BY DEF TypesInv, RowsTypeOK
  <1>1. KnownPlaces(batch) # {}
    BY NothingEstimated DEF AnswerIs
  <1> DEFINE s == batch[p].service
  <1>2. s \in Services
    BY <1>0, RowsAssumption DEF RowType
  <1>3. p \in KnownPlaces(batch) \cup AsidePlaces(batch)
    BY <1>0, <1>1, EstimatesAre
  <1>4. PICK i \in DOMAIN results[s] : results[s][i].at = p
    BY <1>0, <1>1, <1>3, EstimatesAre
  <1>5. AllRight(results, batch, known)
    BY <1>1 DEF AnswerIs
  <1>6. PICK e : /\ e.at = p /\ EstimateAt(p) = e.estimate
                 /\ OfKnown(e, batch) \/ OfAside(e, batch, known)
    BY <1>2, <1>4, <1>5, EstimateChosen
  <1>7. ~(p \in KnownPlaces(batch) /\ p \in AsidePlaces(batch))
    BY DEF KnownPlaces, AsidePlaces
  <1> QED
    BY <1>3, <1>6, <1>7 DEF OfKnown, OfAside

\* What an answer promises follows.
LEMMA WholeFromInv == TypesInv /\ SumsInv /\ AnswerInv => AnswerIsWhole
  <1> SUFFICES ASSUME TypesInv, SumsInv, AnswerInv PROVE AnswerIsWhole
    OBVIOUS
  <1>0. RowsTypeOK /\ batch \in Seq(ReportedRows) /\ Len(batch) \in Nat /\ DOMAIN batch = 1..Len(batch)
    BY DEF TypesInv, RowsTypeOK
  <1>1. ASSUME pc = "done" PROVE NoneThrows(batch, Len(batch)) /\ AnswerIs(results, batch, known)
    BY <1>1 DEF AnswerInv
  <1>2. EveryRowEstimated
    <2> SUFFICES ASSUME pc = "done", results # NoResults, NEW p \in DOMAIN batch
                 PROVE Cardinality(EstimatesOf(results, p)) = IF Unestimated(batch[p]) THEN 0 ELSE 1
      BY DEF EveryRowEstimated
    <2>1. KnownPlaces(batch) # {}
      BY <1>1 DEF AnswerIs
    <2>2. FateOf(batch[p]).fate # "throws" /\ batch[p] \in ReportedRows
      BY <1>0, <1>1 DEF NoneThrows
    <2>3. Unestimated(batch[p]) <=> p \notin KnownPlaces(batch) \cup AsidePlaces(batch)
      BY <2>2, FateFacts DEF KnownPlaces, AsidePlaces
    <2>4. CASE Unestimated(batch[p])
      <3>1. EstimatesOf(results, p) = {}
        BY <1>0, <1>1, <2>1, <2>3, <2>4, EstimatesAre
      <3> QED
        BY <2>4, <3>1, FS_EmptySet
    <2>5. CASE ~Unestimated(batch[p])
      <3>1. \E x : EstimatesOf(results, p) = {x}
        BY <1>0, <1>1, <2>1, <2>3, <2>5, OneEstimate
      <3> QED
        BY <2>5, <3>1, FS_Singleton
    <2> QED
      BY <2>4, <2>5
  <1>3. UnknownPlaces = AsidePlaces(batch)
    BY DEF UnknownPlaces, AsidePlaces
  <1>4. ASSUME NEW p \in DOMAIN batch PROVE RestOf(total, batch[p]) = RestFrom(known, batch[p])
    BY <1>0, RestIs
  <1>5. UnknownRestOnWholeBatch
    <2> SUFFICES ASSUME pc = "done", results # NoResults, NEW p \in UnknownPlaces
                 PROVE Same(EstimateAt(p), RestOf(total, batch[p]))
      BY DEF UnknownRestOnWholeBatch, RestOf
    <2>1. p \in DOMAIN batch /\ p \in AsidePlaces(batch) /\ batch[p] \in ReportedRows
      BY <1>0, <1>3 DEF AsidePlaces
    <2>2. KnownPlaces(batch) # {}
      BY <1>1 DEF AnswerIs
    <2>3. EstimatesOf(results, p) # {}
      <3>1. \E x : EstimatesOf(results, p) = {x}
        BY <1>0, <1>1, <2>1, <2>2, OneEstimate
      <3> QED
        BY <3>1
    <2>4. EstimateAt(p) = RestOf(total, batch[p])
      BY <1>1, <1>4, <2>1, <2>3, SomeEstimate
    <2>5. RestOf(total, batch[p]) \in Estimates
      BY <1>0, <2>1, RestType
    <2> QED
      BY <2>4, <2>5 DEF Same, Estimates
  <1>6. FiniteButForDisks
    <2> SUFFICES ASSUME pc = "done", NEW p \in DOMAIN batch, EstimatesOf(results, p) # {}
                 PROVE \/ Finite(p)
                       \/ LackingDisk(batch[p])
                       \/ /\ p \in UnknownPlaces
                          /\ \/ total[batch[p].unit].base = 0
                             \/ \E i \in DOMAIN known :
                                  known[i].row.unit = batch[p].unit /\ LackingDisk(known[i].row)
      BY DEF FiniteButForDisks
    <2> DEFINE row == batch[p]
    <2>0. row \in ReportedRows
      BY <1>0
    <2>1. /\ p \in KnownPlaces(batch) => EstimateAt(p) = Energy(FateOf(row).kwh)
          /\ p \in AsidePlaces(batch) => EstimateAt(p) = RestFrom(known, row)
          /\ p \in KnownPlaces(batch) \cup AsidePlaces(batch)
      BY <1>1, SomeEstimate
    <2>2. CASE p \in KnownPlaces(batch)
      <3>1. FateOf(row).fate = "known"
        BY <2>2 DEF KnownPlaces
      <3>2. FateOf(row).kwh = NaN => LackingDisk(row)
        BY <2>0, <3>1, KnownFacts
      <3> QED
        BY <2>1, <2>2, <3>2 DEF Finite, Energy
    <2>3. CASE p \in AsidePlaces(batch)
      <3> DEFINE u == row.unit
      <3> DEFINE R == RowsOf(known, u)
      <3>1. u \in Units
        BY <2>0, RowsAssumption DEF RowType
      <3>2. Shows(total, u, SharesOf(known, u), AmountsOf(known, u), R)
        BY <3>1 DEF SumsInv, RatiosOf
      <3>3. /\ IsFiniteSet(R) /\ \A i \in R : SharesOf(known, u)[i] \in Kwh
            /\ \A i \in R : SharesOf(known, u)[i] = ShareOf(known[i].row)
        BY SharesAre DEF SumsInv, Amounts
      <3>4. CASE R = {}
        <4>1. EstimateAt(p) = Energy(0)
          BY <2>1, <2>3, <3>4 DEF RestFrom
        <4> QED
          BY <4>1 DEF Finite, Energy, NaN
      <3>5. CASE R # {}
        <4> DEFINE entry == EntryOn(known, u)
        <4>1. EstimateAt(p) = Ratio(entry, row.base) /\ total[u] = entry
          BY <2>1, <2>3, <3>2, <3>5 DEF RestFrom, Shows, EntryOn
        <4>2. CASE entry.kwh # NaN
          BY <4>1, <4>2, <2>3, <1>3 DEF Ratio, Finite
        <4>3. CASE entry.kwh = NaN
          <5>1. EnergySum(SharesOf(known, u), R) = NaN
            BY <4>3 DEF EntryOn, EntryOf
          <5>2. PICK i \in R : SharesOf(known, u)[i] = NaN
            <6> HIDE DEF R
            <6> QED
              BY <3>3, <5>1, EnergyFacts
          <5>3. /\ i \in DOMAIN known /\ known[i].row.unit = u /\ ~LeftOut(known[i].row)
                /\ ShareOf(known[i].row) = NaN
            BY <3>3, <5>2 DEF RowsOf
          <5>4. known[i].row \in ReportedRows /\ FateOf(known[i].row).fate = "known"
            <6>1. known[i] \in Records
              BY <5>3 DEF SumsInv
            <6> QED
              BY <6>1, RecordsAre DEF KnownRow
          <5>5. LackingDisk(known[i].row)
            BY <5>3, <5>4, KnownFacts
          <5> QED
            BY <1>3, <2>3, <5>3, <5>5
        <4> QED
          BY <4>2, <4>3
      <3> QED
        BY <3>4, <3>5
    <2> QED
      BY <2>1, <2>2, <2>3
  <1> QED
    BY <1>2, <1>5, <1>6 DEF AnswerIsWhole

(***************************************************************************)
(* Whatever rows come in which order: every row an answer should have has  *)
(* one estimate, those that are unknown rest on all known ones of their    *)
(* unit, and an estimate is finite unless a disk is lacking or no row of   *)
(* its unit had any cost.                                                  *)
(***************************************************************************)
THEOREM AnswersAreWhole == RowsSpec => []AnswerIsWhole
  <1> DEFINE Inv == TypesInv /\ SumsInv /\ AnswerInv
  <1>1. RowsInit => Inv
    BY InitRowsTypes, InitSums, InitAnswer
  <1>2. Inv /\ [RowsNext]_rowsVars => Inv'
    BY NextRowsTypes, NextSums, NextAnswer
  <1>3. Inv => AnswerIsWhole
    BY WholeFromInv
  <1> HIDE DEF Inv
  <1> QED
    BY <1>1, <1>2, <1>3, PTL DEF RowsSpec

(***************************************************************************)
(* Usage rows: the same rows a second time.                                *)
(***************************************************************************)
LEMMA EntryOnType ==
  ASSUME NEW q \in Seq(Records), NEW u
  PROVE EntryOn(q, u) \in Entries
  <1>1. IsFiniteSet(RowsOf(q, u)) /\ Amounts(SharesOf(q, u), AmountsOf(q, u), RowsOf(q, u))
    BY SharesAre
  <1> QED
    BY <1>1, EntryType DEF EntryOn

\* Entries combine in any order, and with nothing they stay the same.
LEMMA CombinedLaws ==
  ASSUME NEW e \in Entries, NEW f \in Entries, NEW g \in Entries
  PROVE /\ Combined(e, f) \in Entries
        /\ Combined(Combined(e, f), g) = Combined(e, Combined(f, g))
        /\ Combined(e, Single(0, 0)) = e
  <1>1. /\ e.kwh \in Kwh /\ f.kwh \in Kwh /\ g.kwh \in Kwh
        /\ e.base \in Nat /\ f.base \in Nat /\ g.base \in Nat
        /\ e = [kwh |-> e.kwh, base |-> e.base]
    BY DEF Entries, Kwh
  <1>2. /\ Plus(e.kwh, f.kwh) \in Kwh
        /\ Plus(Plus(e.kwh, f.kwh), g.kwh) = Plus(e.kwh, Plus(f.kwh, g.kwh))
        /\ Plus(e.kwh, 0) = e.kwh
    BY <1>1 DEF Plus, NaN, Kwh
  <1> QED
    BY <1>1, <1>2 DEF Combined, Single, Entries, Kwh

\* What a known row adds to the entry of a unit.
Adds1(row, u) == IF ~LeftOut(row) /\ u = row.unit THEN Single(ShareOf(row), row.base) ELSE Single(0, 0)

\* What a record more adds to the entry of a unit.
LEMMA EntryAppended ==
  ASSUME NEW q \in Seq(Records), NEW k \in Records, NEW u
  PROVE /\ EntryOn(Append(q, k), u) = Combined(EntryOn(q, u), Adds1(k.row, u))
        /\ Adds1(k.row, u) \in Entries
        /\ RowsOf(Append(q, k), u) = {} <=> RowsOf(q, u) = {} /\ (LeftOut(k.row) \/ u # k.row.unit)
  <1> DEFINE row == k.row
  <1>1. KnownRow(row) /\ k = Record(row)
    BY RecordsAre
  <1>2. EntryOn(q, u) \in Entries
    BY EntryOnType
  <1>3. Single(0, 0) \in Entries
    BY DEF Single, Entries
  <1> HIDE DEF row
  <1>4. CASE LeftOut(row) \/ u # row.unit
    <2>1. Adds1(row, u) = Single(0, 0)
      BY <1>4 DEF Adds1
    <2>2. /\ RowsOf(Append(q, Record(row)), u) = RowsOf(q, u)
          /\ SharesOf(Append(q, Record(row)), u) = SharesOf(q, u)
          /\ AmountsOf(Append(q, Record(row)), u) = AmountsOf(q, u)
      BY <1>1, <1>4, HistorySame
    <2>3. Combined(EntryOn(q, u), Single(0, 0)) = EntryOn(q, u)
      BY <1>2, CombinedLaws
    <2>4. EntryOn(Append(q, Record(row)), u) = EntryOn(q, u)
      BY <2>2 DEF EntryOn
    <2> QED
      BY <1>1, <1>3, <1>4, <2>1, <2>2, <2>3, <2>4 DEF row
  <1>5. CASE ~LeftOut(row) /\ u = row.unit
    <2>1. Adds1(row, u) = Single(ShareOf(row), row.base)
      BY <1>5 DEF Adds1
    <2> DEFINE q2 == Append(q, Record(row))
    <2>2. PICK x : /\ RowsOf(q2, u) = RowsOf(q, u) \cup {x}
                   /\ OneMore(SharesOf(q, u), AmountsOf(q, u), RowsOf(q, u),
                              SharesOf(q2, u), AmountsOf(q2, u), x)
                   /\ SharesOf(q2, u)[x] = ShareOf(row) /\ AmountsOf(q2, u)[x] = row.base
      BY <1>1, <1>5, HistoryGrows
    <2> HIDE DEF q2
    <2>3. EntryOf(SharesOf(q2, u), AmountsOf(q2, u), RowsOf(q, u) \cup {x})
            = Combined(EntryOf(SharesOf(q, u), AmountsOf(q, u), RowsOf(q, u)),
                       Single(SharesOf(q2, u)[x], AmountsOf(q2, u)[x]))
      BY <2>2, EntryAdds
    <2>4. EntryOn(q2, u) = Combined(EntryOn(q, u), Single(ShareOf(row), row.base))
      BY <2>2, <2>3 DEF EntryOn
    <2>5. ShareOf(row) \in Kwh /\ row.base \in Nat
      BY <1>1, <1>5, KnownFacts, RowsAssumption DEF RowType, KnownRow
    <2>6. Single(ShareOf(row), row.base) \in Entries
      BY <2>5 DEF Single, Entries, Kwh
    <2>7. RowsOf(q2, u) # {}
      BY <2>2
    <2> QED
      BY <1>1, <1>5, <2>1, <2>4, <2>6, <2>7 DEF q2, row
  <1> QED
    BY <1>4, <1>5

\* No records have no entry.
LEMMA EntryNone == ASSUME NEW u PROVE EntryOn(<<>>, u) = Single(0, 0) /\ RowsOf(<<>>, u) = {}
  <1>1. RowsOf(<<>>, u) = {}
    BY DEF RowsOf
  <1>2. IsFiniteSet({})
    BY FS_EmptySet
  <1>3. SumFunctionOnSet(AmountsOf(<<>>, u), {}) = 0
    BY SumEmpty
  <1>4. EnergySum(SharesOf(<<>>, u), {}) = 0
    BY <1>2, EnergyFacts
  <1> QED
    BY <1>1, <1>3, <1>4 DEF EntryOn, EntryOf, Single

\* Two histories in a row have the entries of both.
LEMMA EntryJoined ==
  ASSUME NEW q \in Seq(Records), NEW u
  PROVE \A r \in Seq(Records) :
          /\ EntryOn(q \o r, u) = Combined(EntryOn(q, u), EntryOn(r, u))
          /\ RowsOf(q \o r, u) = {} <=> RowsOf(q, u) = {} /\ RowsOf(r, u) = {}
          /\ q \o r \in Seq(Records)
  <1> DEFINE G == {r \in Seq(Records) :
                     /\ EntryOn(q \o r, u) = Combined(EntryOn(q, u), EntryOn(r, u))
                     /\ RowsOf(q \o r, u) = {} <=> RowsOf(q, u) = {} /\ RowsOf(r, u) = {}
                     /\ q \o r \in Seq(Records)}
  <1>1. <<>> \in G
    <2>1. q \o <<>> = q /\ <<>> \in Seq(Records)
      OBVIOUS
    <2>2. EntryOn(<<>>, u) = Single(0, 0) /\ RowsOf(<<>>, u) = {}
      BY EntryNone
    <2>3. EntryOn(q, u) \in Entries
      BY EntryOnType
    <2>4. Combined(EntryOn(q, u), Single(0, 0)) = EntryOn(q, u)
      BY <2>3, CombinedLaws
    <2> QED
      BY <2>1, <2>2, <2>4
  <1>2. ASSUME NEW r \in Seq(Records), NEW k \in Records, r \in G PROVE Append(r, k) \in G
    <2> DEFINE s == q \o r
    <2> DEFINE r2 == Append(r, k)
    <2>1. /\ EntryOn(s, u) = Combined(EntryOn(q, u), EntryOn(r, u))
          /\ RowsOf(s, u) = {} <=> RowsOf(q, u) = {} /\ RowsOf(r, u) = {}
          /\ s \in Seq(Records)
      BY <1>2
    <2>2. q \o r2 = Append(s, k) /\ r2 \in Seq(Records)
      OBVIOUS
    <2> HIDE DEF s
    <2>3. /\ EntryOn(Append(s, k), u) = Combined(EntryOn(s, u), Adds1(k.row, u))
          /\ RowsOf(Append(s, k), u) = {} <=> RowsOf(s, u) = {} /\ (LeftOut(k.row) \/ u # k.row.unit)
      BY <2>1, EntryAppended
    <2>4. /\ EntryOn(Append(r, k), u) = Combined(EntryOn(r, u), Adds1(k.row, u))
          /\ RowsOf(Append(r, k), u) = {} <=> RowsOf(r, u) = {} /\ (LeftOut(k.row) \/ u # k.row.unit)
          /\ Adds1(k.row, u) \in Entries
      BY EntryAppended
    <2>5. EntryOn(q, u) \in Entries /\ EntryOn(r, u) \in Entries
      BY EntryOnType
    <2>6. Combined(Combined(EntryOn(q, u), EntryOn(r, u)), Adds1(k.row, u))
            = Combined(EntryOn(q, u), Combined(EntryOn(r, u), Adds1(k.row, u)))
      BY <2>4, <2>5, CombinedLaws
    <2>7. Append(s, k) \in Seq(Records)
      BY <2>1
    <2>8. EntryOn(Append(s, k), u) = Combined(EntryOn(q, u), EntryOn(r2, u))
      BY <2>1, <2>3, <2>4, <2>6
    <2>9. RowsOf(Append(s, k), u) = {} <=> RowsOf(q, u) = {} /\ RowsOf(r2, u) = {}
      BY <2>1, <2>3, <2>4
    <2> HIDE DEF r2
    <2>10. r2 \in G
      BY <2>2, <2>7, <2>8, <2>9
    <2> QED
      BY <2>10 DEF r2
  <1> HIDE DEF G
  <1>3. Seq(Records) \subseteq G
    BY <1>1, <1>2, SequencesByAppend
  <1> QED
    BY <1>3 DEF G

\* Twice the energy for twice the cost is the same for one unit of it.
LEMMA RatioOfTwice ==
  ASSUME NEW e \in Entries, NEW base \in Nat
  PROVE Same(Ratio(Combined(e, e), base), Ratio(e, base))
  <1>1. PICK k \in Kwh, b \in Nat : e = [kwh |-> k, base |-> b]
    BY DEF Entries, Kwh
  <1>2. e.kwh = k /\ e.base = b /\ Combined(e, e).kwh = Plus(k, k) /\ Combined(e, e).base = b + b
    BY <1>1 DEF Combined
  <1>3. CASE k = NaN \/ b = 0
    <2>1. Plus(k, k) = NaN \/ b + b = 0
      BY <1>3 DEF Plus
    <2> QED
      BY <1>2, <1>3, <2>1 DEF Ratio, Same, NotFinite
  <1>4. CASE k # NaN /\ b # 0
    <2>1. k \in Nat /\ Plus(k, k) = k + k /\ Plus(k, k) # NaN /\ b + b # 0
      BY <1>4 DEF Plus, Kwh, NaN
    <2>2. /\ Ratio(Combined(e, e), base) = [num |-> (k + k) * base, den |-> b + b]
          /\ Ratio(e, base) = [num |-> k * base, den |-> b]
      BY <1>2, <1>4, <2>1 DEF Ratio
    <2>3. ((k + k) * base) * b = (k * base) * (b + b)
      <3> DEFINE m == k * base
      <3>1. m \in Nat
        BY <2>1
      <3>2. (k + k) * base = m + m
        BY <2>1
      <3> HIDE DEF m
      <3>3. (m + m) * b = m * b + m * b /\ m * (b + b) = m * b + m * b
        BY <3>1
      <3> QED
        BY <3>2, <3>3 DEF m
    <2> QED
      BY <1>4, <2>1, <2>2, <2>3 DEF Same
  <1> QED
    BY <1>3, <1>4

\* So the estimate of an unknown row rests the same on a history and on it twice.
LEMMA RestOfTwice ==
  ASSUME NEW q \in Seq(Records), NEW row \in ReportedRows
  PROVE Same(RestFrom(q \o q, row), RestFrom(q, row))
  <1> DEFINE u == row.unit
  <1>1. /\ EntryOn(q \o q, u) = Combined(EntryOn(q, u), EntryOn(q, u))
        /\ RowsOf(q \o q, u) = {} <=> RowsOf(q, u) = {}
    BY EntryJoined
  <1>2. EntryOn(q, u) \in Entries
    BY EntryOnType
  <1>3. row.base \in Nat
    BY RowsAssumption DEF RowType
  <1>4. CASE RowsOf(q, u) = {}
    BY <1>1, <1>4 DEF RestFrom, Same
  <1>5. CASE RowsOf(q, u) # {}
    BY <1>1, <1>2, <1>3, <1>5, RatioOfTwice DEF RestFrom
  <1> QED
    BY <1>4, <1>5

\* The known rows among the first n of a batch, as the history records them.
RecordsAt(b, s) == [i \in DOMAIN s |-> Record(b[s[i]])]
KnownOf(b, n) == RecordsAt(b, Select(Places(n), KnownPlaces(b)))

\* A place more is a record more.
LEMMA RecordsGrow ==
  ASSUME NEW b, NEW s \in Seq(KnownPlaces(b)), NEW p \in KnownPlaces(b), b \in Seq(ReportedRows)
  PROVE /\ RecordsAt(b, s) \in Seq(Records)
        /\ RecordsAt(b, Append(s, p)) = Append(RecordsAt(b, s), Record(b[p]))
  <1>1. \A x \in KnownPlaces(b) : Record(b[x]) \in Records
    BY RecordsAre DEF KnownPlaces, KnownRow
  <1> DEFINE r == Append(s, p)
  <1> DEFINE c == RecordsAt(b, r)
  <1> DEFINE a == RecordsAt(b, s)
  <1> DEFINE k == Record(b[p])
  <1>2. /\ r \in Seq(KnownPlaces(b)) /\ Len(r) = Len(s) + 1 /\ Len(s) \in Nat
        /\ \A i \in 1..Len(s) : r[i] = s[i] /\ s[i] \in KnownPlaces(b)
        /\ r[Len(s) + 1] = p
    OBVIOUS
  <1>3. a \in Seq(Records) /\ Len(a) = Len(s) /\ \A i \in 1..Len(s) : a[i] = Record(b[s[i]])
    BY <1>1, <1>2 DEF RecordsAt
  <1> HIDE DEF r
  <1>4. c \in Seq(Records) /\ Len(c) = Len(s) + 1 /\ \A i \in 1..(Len(s) + 1) : c[i] = Record(b[r[i]])
    <2>1. DOMAIN r = 1..(Len(s) + 1) /\ Len(s) + 1 \in Nat
      BY <1>2
    <2>2. \A i \in 1..(Len(s) + 1) : r[i] \in KnownPlaces(b)
      BY <1>2
    <2>3. c = [i \in 1..(Len(s) + 1) |-> Record(b[r[i]])]
      BY <2>1 DEF RecordsAt
    <2> HIDE DEF c
    <2> DEFINE n == Len(s) + 1
    <2>4. \A i \in 1..n : Record(b[r[i]]) \in Records
      BY <1>1, <2>2
    <2>5. n \in Nat /\ c = [i \in 1..n |-> Record(b[r[i]])]
      BY <2>1, <2>3
    <2> HIDE DEF n
    <2>6. c \in Seq(Records) /\ Len(c) = n /\ \A i \in 1..n : c[i] = Record(b[r[i]])
      BY <2>4, <2>5
    <2> QED
      BY <2>6 DEF n
  <1>5. k \in Records /\ c[Len(s) + 1] = k /\ \A i \in 1..Len(s) : c[i] = a[i]
    <2> HIDE DEF c
    <2>1. k \in Records
      BY <1>1
    <2>2. \A i \in 1..(Len(s) + 1) : c[i] = Record(b[r[i]])
      BY <1>4
    <2>3. c[Len(s) + 1] = k
      BY <1>2, <2>2
    <2>4. \A i \in 1..Len(s) : c[i] = Record(b[s[i]])
      BY <1>2, <2>2
    <2> QED
      BY <1>3, <2>1, <2>3, <2>4
  <1> HIDE DEF a, c, k
  <1>6. c = Append(a, k)
    BY <1>2, <1>3, <1>4, <1>5
  <1> QED
    BY <1>3, <1>6 DEF a, c, k, r

\* Records they are.
LEMMA KnownOfType ==
  ASSUME NEW b \in Seq(ReportedRows), NEW n \in Nat
  PROVE /\ Select(Places(n), KnownPlaces(b)) \in Seq(KnownPlaces(b))
        /\ KnownOf(b, n) \in Seq(Records)
  <1> DEFINE s == Select(Places(n), KnownPlaces(b))
  <1>1. s \in Seq(Nat) /\ Elements(s) \subseteq KnownPlaces(b)
    BY TakenAre
  <1> HIDE DEF s
  <1>2. \A i \in 1..Len(s) : s[i] \in KnownPlaces(b)
    BY <1>1 DEF Elements
  <1>3. s \in Seq(KnownPlaces(b))
    BY <1>1, <1>2
  <1>4. \A x \in KnownPlaces(b) : Record(b[x]) \in Records
    BY RecordsAre DEF KnownPlaces, KnownRow
  <1>5. RecordsAt(b, s) \in Seq(Records)
    BY <1>3, <1>4 DEF RecordsAt
  <1> QED
    BY <1>3, <1>5 DEF KnownOf, s

\* A row more is recorded if it is known.
LEMMA HistoryReads ==
  ASSUME NEW b \in Seq(ReportedRows), NEW n \in 1..Len(b)
  PROVE /\ FateOf(b[n]).fate = "known" => KnownOf(b, n) = Append(KnownOf(b, n - 1), Record(b[n]))
        /\ FateOf(b[n]).fate # "known" => KnownOf(b, n) = KnownOf(b, n - 1)
  <1>1. n \in Nat /\ n > 0 /\ n - 1 \in Nat /\ n \in DOMAIN b
    OBVIOUS
  <1> DEFINE s == Select(Places(n - 1), KnownPlaces(b))
  <1> DEFINE t == Select(Places(n), KnownPlaces(b))
  <1>2. t = IF n \in KnownPlaces(b) THEN Append(s, n) ELSE s
    BY <1>1, TakesLast
  <1>3. s \in Seq(KnownPlaces(b))
    BY <1>1, KnownOfType
  <1>4. KnownOf(b, n) = RecordsAt(b, t) /\ KnownOf(b, n - 1) = RecordsAt(b, s)
    BY DEF KnownOf
  <1>5. n \in KnownPlaces(b) <=> FateOf(b[n]).fate = "known"
    BY <1>1 DEF KnownPlaces
  <1> HIDE DEF s, t
  <1>6. ASSUME n \in KnownPlaces(b)
        PROVE RecordsAt(b, Append(s, n)) = Append(RecordsAt(b, s), Record(b[n]))
    BY <1>3, <1>6, RecordsGrow
  <1> QED
    BY <1>2, <1>4, <1>5, <1>6

\* Before the first row there is nothing.
LEMMA NoHistory == ASSUME NEW b PROVE KnownOf(b, 0) = <<>>
  <1>1. Select(Places(0), KnownPlaces(b)) = <<>>
    BY NoPlaces, SelectEmpty
  <1> QED
    BY <1>1 DEF KnownOf, RecordsAt

All(b) == KnownOf(b, Len(b))

(***************************************************************************)
(* What the process has known, as far as its first two requests.           *)
(***************************************************************************)
\* The known rows of the request that is under way or was answered.
KnownIs(before) ==
  /\ pc = "rows" => known = before \o KnownOf(batch, next - 1)
  /\ pc \in {"unknown", "done"} => known = before \o All(batch)

HistoryInv ==
  /\ pc = "idle" <=> requests = 0
  /\ requests = 0 => known = <<>> /\ first.batch = <<>>
  /\ first.batch = <<>> => first.results = NoResults
  /\ requests = 1 => KnownIs(<<>>)
  /\ requests = 1 /\ pc # "done" => first.batch = <<>>
  /\ requests = 1 /\ pc = "done" => first.batch = batch
  /\ first.batch # <<>> => /\ first.batch \in Seq(ReportedRows)
                           /\ AnswerIs(first.results, first.batch, All(first.batch))
  /\ requests = 2 /\ first.batch # <<>> => KnownIs(All(first.batch))

\* Nothing is asked and nothing known at first.
LEMMA InitHistory == RowsInit => HistoryInv
  BY DEF RowsInit, HistoryInv

\* A request for no rows has no estimates.
LEMMA EmptyAnswer ==
  ASSUME NEW answer, NEW q, AnswerIs(answer, <<>>, q)
  PROVE answer = NoResults
  BY DEF AnswerIs, KnownPlaces

\* Nothing before or behind a sequence changes it.
LEMMA NothingBefore == ASSUME NEW q \in Seq(Records) PROVE <<>> \o q = q /\ q \o <<>> = q
  OBVIOUS

\* Each known row read is the next record of its request.
LEMMA NextHistory ==
  TypesInv /\ SumsInv /\ AnswerInv /\ HistoryInv /\ [RowsNext]_rowsVars => HistoryInv'
  <1> SUFFICES ASSUME TypesInv, SumsInv, AnswerInv, HistoryInv, [RowsNext]_rowsVars PROVE HistoryInv'
    OBVIOUS
  <1>0. /\ batch \in Seq(ReportedRows) /\ Len(batch) \in Nat /\ DOMAIN batch = 1..Len(batch)
        /\ next \in Nat /\ next >= 1 /\ (next + 1) - 1 = next /\ requests \in Nat
        /\ pc = "rows" => next - 1 <= Len(batch) /\ next - 1 \in Nat
    BY Bounds DEF TypesInv, RowsTypeOK, Progress
  <1>a. AnswerInv'
    BY NextAnswer
  <1>1. CASE Ask
    <2>1. PICK n \in 0..MaxRows : batch' \in [1..n -> {row \in ReportedRows : row.provider = provider}]
      BY <1>1 DEF Ask
    <2>2. /\ pc' = "rows" /\ next' - 1 = 0 /\ requests' = requests + 1
          /\ known' = known /\ first' = first /\ pc \in {"idle", "done", "failed"}
      BY <1>1 DEF Ask
    <2>3. KnownOf(batch', next' - 1) = <<>>
      BY <2>2, NoHistory
    <2>4. known \in Seq(Records)
      BY DEF SumsInv
    <2>5. requests' = 1 => requests = 0 /\ known = <<>> /\ first.batch = <<>>
      BY <1>0, <2>2 DEF HistoryInv
    <2>6. <<>> \o <<>> = <<>>
      OBVIOUS
    <2>7. requests' = 1 => KnownIs(<<>>)'
      BY <2>2, <2>3, <2>5, <2>6 DEF KnownIs
    <2>8. ASSUME requests' = 2, first.batch # <<>> PROVE KnownIs(All(first.batch))'
      <3>1. requests = 1 /\ pc = "done" /\ first.batch = batch
        BY <1>0, <2>2, <2>8 DEF HistoryInv
      <3>2. known = <<>> \o All(batch)
        BY <3>1 DEF HistoryInv, KnownIs
      <3>3. All(batch) \in Seq(Records)
        BY <1>0, KnownOfType DEF All
      <3>4. known = All(first.batch) \o <<>>
        BY <3>1, <3>2, <3>3, NothingBefore
      <3>5. first'.batch = first.batch
        BY <2>2
      <3> QED
        BY <2>2, <2>3, <3>4, <3>5 DEF KnownIs
    <2>9. requests' # 0 /\ pc' # "idle" /\ pc' # "done"
      BY <1>0, <2>2
    <2> QED
      BY <2>2, <2>5, <2>7, <2>8, <2>9 DEF HistoryInv
  <1>2. ASSUME NEW before, KnownIs(before), EstimateRow, before \in Seq(Records) PROVE KnownIs(before)'
    <2>1. next \in 1..Len(batch) /\ FateOf(batch[next]).fate = "known" /\ pc = "rows"
      BY <1>0, <1>2 DEF EstimateRow, AtRow, Row
    <2>2. known' = Append(known, Record(batch[next])) /\ next' - 1 = next /\ batch' = batch /\ pc' = "rows"
      BY <1>0, <1>2, <2>1 DEF EstimateRow, Row, Record
    <2> DEFINE q == KnownOf(batch, next - 1)
    <2> DEFINE k == Record(batch[next])
    <2>3. known = before \o q
      BY <1>2, <2>1 DEF KnownIs
    <2>4. KnownOf(batch, next) = Append(q, k)
      BY <1>0, <2>1, HistoryReads
    <2>5. q \in Seq(Records)
      BY <1>0, <2>1, KnownOfType
    <2>6. k \in Records
      BY <1>0, <2>1, RecordsAre DEF KnownRow
    <2> HIDE DEF q, k
    <2>7. Append(before \o q, k) = before \o Append(q, k)
      BY ONLY <1>2, <2>5, <2>6
    <2>8. known' = before \o KnownOf(batch, next)
      BY <2>2, <2>3, <2>4, <2>7 DEF k
    <2> QED
      BY <2>2, <2>8 DEF KnownIs
  <1>3. ASSUME NEW before, KnownIs(before), DropRow \/ PutAside PROVE KnownIs(before)'
    <2>1. next \in 1..Len(batch) /\ FateOf(batch[next]).fate # "known" /\ pc = "rows"
      BY <1>0, <1>3 DEF DropRow, PutAside, AtRow, Row
    <2>2. known' = known /\ next' - 1 = next /\ batch' = batch /\ pc' = "rows"
      BY <1>0, <1>3, <2>1 DEF DropRow, PutAside
    <2>3. KnownOf(batch, next) = KnownOf(batch, next - 1)
      BY <1>0, <2>1, HistoryReads
    <2> QED
      BY <1>3, <2>1, <2>2, <2>3 DEF KnownIs
  <1>4. ASSUME NEW before, KnownIs(before), EndOfRows \/ EstimateUnknown \/ EndOfUnknown PROVE KnownIs(before)'
    <2>1. known' = known /\ batch' = batch /\ pc' \in {"unknown", "done"}
      BY <1>4 DEF EndOfRows, EstimateUnknown, EndOfUnknown, Finished
    <2>2. known = before \o All(batch)
      <3>1. CASE EndOfRows
        <4>1. pc = "rows" /\ next - 1 = Len(batch)
          BY <1>0, <3>1 DEF EndOfRows
        <4> QED
          BY <1>4, <4>1 DEF KnownIs, All
      <3>2. CASE EstimateUnknown \/ EndOfUnknown
        BY <1>4, <3>2 DEF KnownIs, EstimateUnknown, EndOfUnknown
      <3> QED
        BY <1>4, <3>1, <3>2
    <2> QED
      BY <2>1, <2>2 DEF KnownIs
  <1>5. CASE EstimateRow \/ DropRow \/ PutAside \/ RowThrows \/ EstimateUnknown \/ (EndOfRows /\ pc' # "done")
    <2>1. requests' = requests /\ first' = first /\ pc # "idle" /\ pc' # "idle" /\ pc' # "done" /\ pc # "done"
      BY <1>5 DEF EstimateRow, DropRow, PutAside, RowThrows, EstimateUnknown, EndOfRows, Finished, AtRow
    <2>2. ASSUME NEW before, KnownIs(before), before \in Seq(Records) PROVE KnownIs(before)'
      <3>1. CASE RowThrows
        BY <3>1 DEF RowThrows, KnownIs
      <3> QED
        BY <1>2, <1>3, <1>4, <1>5, <2>2, <3>1
    <2>3. requests = 1 => KnownIs(<<>>)'
      <3>1. <<>> \in Seq(Records)
        OBVIOUS
      <3> QED
        BY <2>2, <3>1 DEF HistoryInv
    <2>4. ASSUME requests = 2, first.batch # <<>> PROVE KnownIs(All(first.batch))'
      <3>1. first.batch \in Seq(ReportedRows) /\ Len(first.batch) \in Nat
        BY <2>4 DEF HistoryInv
      <3>2. All(first.batch) \in Seq(Records)
        BY <3>1, KnownOfType DEF All
      <3>3. KnownIs(All(first.batch))
        BY <2>4 DEF HistoryInv
      <3> DEFINE w == All(first.batch)
      <3>4. ASSUME NEW before, before = w PROVE KnownIs(before)'
        BY <2>2, <3>2, <3>3, <3>4
      <3> QED
        BY <2>1, <3>4 DEF KnownIs
    <2>5. requests # 0
      BY <2>1 DEF HistoryInv
    <2> QED
      BY <2>1, <2>3, <2>4, <2>5 DEF HistoryInv
  <1>6. CASE EndOfUnknown \/ (EndOfRows /\ pc' = "done")
    <2>1. /\ requests' = requests /\ pc # "idle" /\ pc # "done" /\ pc' = "done"
          /\ batch' = batch /\ results' = results /\ known' = known
          /\ first' = IF requests = 1 THEN [batch |-> batch, results |-> results] ELSE first
      BY <1>6 DEF EndOfUnknown, EndOfRows, Finished
    <2>2. requests # 0
      BY <2>1 DEF HistoryInv
    <2>3. CASE requests = 1
      <3>1. first'.batch = batch' /\ first'.results = results'
        BY <2>1, <2>3
      <3>2. <<>> \in Seq(Records) /\ All(batch) \in Seq(Records)
        BY <1>0, KnownOfType DEF All
      <3>3. KnownIs(<<>>)'
        BY <1>4, <1>6, <2>3 DEF HistoryInv
      <3>4. known' = All(batch')
        <4>1. known' = <<>> \o All(batch')
          BY <2>1, <3>3 DEF KnownIs
        <4>2. <<>> \o All(batch) = All(batch)
          BY <3>2, NothingBefore
        <4> QED
          BY <2>1, <4>1, <4>2
      <3>5. AnswerIs(results', batch', known')
        BY <1>a, <2>1 DEF AnswerInv
      <3>6. AnswerIs(first'.results, first'.batch, All(first'.batch))
        BY <3>1, <3>4, <3>5
      <3>7. first'.batch = <<>> => first'.results = NoResults
        BY <3>6, EmptyAnswer
      <3>8. batch' \in Seq(ReportedRows)
        BY <1>0, <2>1
      <3> HIDE DEF HistoryInv
      <3>9. requests' = 1
        BY <2>1, <2>3
      <3> QED
        BY <2>1, <3>1, <3>3, <3>6, <3>7, <3>8, <3>9 DEF HistoryInv
    <2>4. CASE requests # 1
      <3>1. first' = first /\ requests' # 1
        BY <2>1, <2>4
      <3>2. ASSUME requests = 2, first.batch # <<>> PROVE KnownIs(All(first.batch))'
        <4> DEFINE w == All(first.batch)
        <4>1. KnownIs(w)
          BY <3>2 DEF HistoryInv
        <4>2. ASSUME NEW before, before = w PROVE KnownIs(before)'
          BY <1>4, <1>6, <4>1, <4>2
        <4> QED
          BY <3>1, <4>2 DEF KnownIs
      <3> QED
        BY <2>1, <2>2, <3>1, <3>2 DEF HistoryInv
    <2> QED
      BY <2>3, <2>4
  <1>7. CASE UNCHANGED rowsVars
    BY <1>7 DEF rowsVars, HistoryInv, KnownIs
  <1>8. CASE EndOfRows
    BY <1>5, <1>6, <1>8
  <1> QED
    BY <1>1, <1>5, <1>6, <1>7, <1>8 DEF RowsNext

(***************************************************************************)
(* The same rows again.                                                    *)
(***************************************************************************)
LEMMA AgainFromInv == TypesInv /\ AnswerInv /\ HistoryInv => AgainIsSame
  <1> SUFFICES ASSUME TypesInv, AnswerInv, HistoryInv, pc = "done", requests = 2, batch = first.batch,
                      NEW s \in Services
               PROVE /\ Len(results[s]) = Len(first.results[s])
                     /\ \A i \in DOMAIN results[s] :
                          /\ results[s][i].at = first.results[s][i].at
                          /\ Same(results[s][i].estimate, first.results[s][i].estimate)
    BY DEF AgainIsSame
  <1> DEFINE new == results[s]
  <1> DEFINE old == first.results[s]
  <1> DEFINE q == All(batch)
  <1>1. /\ batch \in Seq(ReportedRows) /\ Len(batch) \in Nat
        /\ new \in Seq([at : 1..MaxRows, estimate : Estimates])
        /\ old \in Seq([at : 1..MaxRows, estimate : Estimates])
    <2>1. results \in Results /\ first.results \in Results /\ batch \in Seq(ReportedRows)
      BY DEF TypesInv, RowsTypeOK
    <2> DEFINE T == Seq([at : 1..MaxRows, estimate : Estimates])
    <2>2. results \in [Services -> T] /\ first.results \in [Services -> T]
      BY <2>1 DEF Results
    <2> HIDE DEF T
    <2>3. new \in T /\ old \in T
      BY <2>2
    <2>4. Len(batch) \in Nat
      BY <2>1
    <2> QED
      BY <2>1, <2>3, <2>4 DEF T
  <1>2. q \in Seq(Records)
    BY <1>1, KnownOfType DEF All
  <1>3. AnswerIs(results, batch, known)
    BY DEF AnswerInv
  <1>4. ASSUME new = old
        PROVE /\ Len(new) = Len(old)
              /\ \A i \in DOMAIN new : new[i].at = old[i].at /\ Same(new[i].estimate, old[i].estimate)
    <2> HIDE DEF new, old
    <2> QED
      BY <1>4 DEF Same
  <1>5. CASE KnownPlaces(batch) = {}
    <2>1. results = NoResults
      BY <1>3, <1>5 DEF AnswerIs
    <2>2. first.results = NoResults
      <3>1. CASE batch = <<>>
        BY <3>1 DEF HistoryInv
      <3>2. CASE batch # <<>>
        BY <1>5, <3>2 DEF HistoryInv, AnswerIs
      <3> QED
        BY <3>1, <3>2
    <2> QED
      BY <1>4, <2>1, <2>2
  <1>6. CASE KnownPlaces(batch) # {}
    <2>1. batch # <<>>
      BY <1>6 DEF KnownPlaces
    <2>2. AnswerIs(first.results, batch, q) /\ known = q \o q
      BY <2>1 DEF HistoryInv, KnownIs
    <2> HIDE DEF q
    <2>3. /\ DOMAIN new = 1..Len(Order(batch, s)) /\ DOMAIN old = 1..Len(Order(batch, s))
          /\ \A i \in DOMAIN new : new[i].at = Order(batch, s)[i]
          /\ \A i \in DOMAIN old : old[i].at = Order(batch, s)[i]
      <3>1. ASSUME NEW answer, NEW r, AnswerIs(answer, batch, r)
            PROVE /\ DOMAIN answer[s] = 1..Len(Order(batch, s))
                  /\ \A i \in DOMAIN answer[s] : answer[s][i].at = Order(batch, s)[i]
        BY <1>1, <1>6, <3>1, AnswerOrder
      <3> QED
        BY <1>3, <2>2, <3>1
    <2>4. Len(new) = Len(old)
      <3> HIDE DEF new, old
      <3> QED
        BY <1>1, <2>3
    <2>5. ASSUME NEW i \in DOMAIN new
          PROVE new[i].at = old[i].at /\ Same(new[i].estimate, old[i].estimate)
      <3> DEFINE e == new[i]
      <3> DEFINE f == old[i]
      <3>1. i \in DOMAIN old /\ e.at = f.at
        BY <2>3, <2>5
      <3>2. /\ OfKnown(e, batch) \/ OfAside(e, batch, known)
            /\ OfKnown(f, batch) \/ OfAside(f, batch, q)
        BY <1>3, <1>6, <2>2, <3>1 DEF AnswerIs, AllRight
      <3> HIDE DEF e, f
      <3>3. CASE OfKnown(e, batch)
        <4>1. f.estimate = e.estimate
          BY <3>1, <3>2, <3>3 DEF OfKnown, OfAside, KnownPlaces, AsidePlaces
        <4> QED
          BY <3>1, <4>1 DEF Same, e, f
      <3>4. CASE OfAside(e, batch, known)
        <4> DEFINE row == batch[e.at]
        <4>1. e.estimate = RestFrom(q \o q, row) /\ f.estimate = RestFrom(q, row) /\ e.at \in DOMAIN batch
          BY <2>2, <3>1, <3>2, <3>4 DEF OfKnown, OfAside, KnownPlaces, AsidePlaces
        <4>2. row \in ReportedRows
          BY <1>1, <4>1
        <4>3. Same(RestFrom(q \o q, row), RestFrom(q, row))
          BY <1>2, <4>2, RestOfTwice
        <4> QED
          BY <3>1, <4>1, <4>3 DEF e, f
      <3> QED
        BY <3>2, <3>3, <3>4
    <2> QED
      BY <2>4, <2>5
  <1> QED
    BY <1>5, <1>6

(***************************************************************************)
(* The sums serve every request: the energy and the cost of a unit are     *)
(* those of the known rows of all requests, each of them once, however     *)
(* services and units follow one another and whichever requests fail, and  *)
(* the same rows asked for again have the same estimates.                  *)
(***************************************************************************)
THEOREM SumsServe == RowsSpec => []SumsServeAll
  <1> DEFINE Inv == TypesInv /\ SumsInv /\ AnswerInv /\ HistoryInv
  <1>1. RowsInit => Inv
    BY InitRowsTypes, InitSums, InitAnswer, InitHistory
  <1>2. Inv /\ [RowsNext]_rowsVars => Inv'
    BY NextRowsTypes, NextSums, NextAnswer, NextHistory
  <1>3. Inv => SumsServeAll
    BY SumsFromInv, AgainFromInv DEF SumsServeAll
  <1> QED
    BY <1>1, <1>2, <1>3, PTL DEF RowsSpec
==============================================================================
