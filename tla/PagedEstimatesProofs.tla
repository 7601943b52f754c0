------------------------ MODULE PagedEstimatesProofs ------------------------
(***************************************************************************)
(* For any number of clients, periods, providers, documents on a page and  *)
(* failures: no estimate is in the collection twice, no document is sent to *)
(* a view twice, and a view that nothing disturbs shows all of its range.   *)
(***************************************************************************)
EXTENDS PagedEstimates, CollectionProofs

(***************************************************************************)
(* The pure parts of the cache manager: ranges, groups, pages.             *)
(***************************************************************************)
\* The constants.
LEMMA Bounds ==
  /\ NPeriods \in Nat \ {0} /\ NProviders \in Nat \ {0} /\ Limit \in Nat \ {0} /\ MaxFaults \in Nat
  /\ Requests \subseteq RequestType /\ Requests # {} /\ MaxViews \in Nat
  BY MongoAssumption, PagedAssumption

\* The periods of a set, each once.
LEMMA AscendingOf ==
  ASSUME NEW S
  PROVE /\ Ascending(S) \in Seq(Periods)
        /\ Elements(Ascending(S)) = Periods \cap S
        /\ \A i, j \in 1..Len(Ascending(S)) : Ascending(S)[i] = Ascending(S)[j] => i = j
  <1> DEFINE all == [p \in Periods |-> p]
  <1>1. all \in Seq(Periods) /\ Len(all) = NPeriods /\ Periods = 1..NPeriods
    BY Bounds DEF Periods
  <1>2. \A p \in 1..NPeriods : all[p] = p
    BY <1>1
  <1> HIDE DEF all
  <1>3. Elements(all) = Periods
    <2>1. Elements(all) = {all[p] : p \in 1..NPeriods}
      BY <1>1, ElementsOf
    <2> QED
      BY <1>1, <1>2, <2>1
  <1>4. Ascending(S) = Select(all, S)
    BY DEF Ascending, all
  <1>5. \A i, j \in 1..Len(all) : all[i] = all[j] => i = j
    BY <1>1, <1>2
  <1> QED
    BY <1>1, <1>3, <1>4, <1>5, SelectType, SelectDistinct

\* The results of a sequence of documents: each period of the documents once, and
\* every provider of a result is one of its documents.
LEMMA GroupedOf ==
  ASSUME NEW s \in Seq(Documents)
  PROVE /\ Grouped(s) \in Seq(Results)
        /\ \A i, j \in DOMAIN Grouped(s) : Grouped(s)[i].period = Grouped(s)[j].period => i = j
        /\ {Grouped(s)[k].period : k \in DOMAIN Grouped(s)} = {d[1] : d \in Elements(s)}
        /\ \A k \in DOMAIN Grouped(s) :
             /\ Grouped(s)[k].providers # <<>>
             /\ \A i \in DOMAIN Grouped(s)[k].providers :
                  <<Grouped(s)[k].period, Grouped(s)[k].providers[i]>> \in Elements(s)
  <1> DEFINE ps == {d[1] : d \in Elements(s)}
  <1> DEFINE periods == Ascending(ps)
  <1> DEFINE Of(p) == Select(s, {p} \X Providers)
  <1> DEFINE Result(p) == [period |-> p, providers |-> [i \in DOMAIN Of(p) |-> Of(p)[i][2]]]
  <1>1. /\ Elements(s) \subseteq Documents /\ Elements(s) = {s[i] : i \in 1..Len(s)}
        /\ Documents = Periods \X Providers
    BY ElementsOf DEF Documents
  <1>2. ps \subseteq Periods
    BY <1>1
  <1>3. /\ periods \in Seq(Periods) /\ Elements(periods) = ps
        /\ \A i, j \in 1..Len(periods) : periods[i] = periods[j] => i = j
    BY <1>2, AscendingOf
  <1>4. Grouped(s) = [k \in DOMAIN periods |-> Result(periods[k])]
    BY DEF Grouped
  <1>5. ASSUME NEW p \in ps
        PROVE /\ Result(p) \in Results /\ Result(p).period = p /\ Result(p).providers # <<>>
              /\ \A i \in DOMAIN Result(p).providers :
                   <<p, Result(p).providers[i]>> \in Elements(s)
    <2> DEFINE r == Of(p)
    <2>1. r \in Seq(Documents) /\ Elements(r) = Elements(s) \cap ({p} \X Providers)
      BY SelectType
    <2>2. PICK d \in Elements(s) : d[1] = p
      BY <1>5
    <2>3. d \in {p} \X Providers
      BY <1>1, <2>2
    <2>4. Elements(r) # {}
      BY <2>1, <2>2, <2>3
    <2> HIDE DEF r
    <2>5. r # <<>> /\ DOMAIN r = 1..Len(r) /\ Len(r) \in Nat /\ Len(r) # 0
      BY <2>1, <2>4, ElementsOf
    <2>6. \A i \in 1..Len(r) : r[i] \in Elements(s) /\ r[i] \in {p} \X Providers
      BY <2>1, ElementsOf
    <2>7. \A i \in 1..Len(r) : r[i][2] \in Providers /\ <<p, r[i][2]>> = r[i]
      BY <2>6
    <2> DEFINE f == [i \in 1..Len(r) |-> r[i][2]]
    <2>8. f \in Seq(Providers) /\ Len(f) = Len(r) /\ DOMAIN f = 1..Len(r)
      BY <2>5, <2>7
    <2>9. f # <<>>
      BY <2>5, <2>8
    <2>10. Result(p) = [period |-> p, providers |-> f]
      BY <2>5 DEF r
    <2>11. \A i \in 1..Len(r) : f[i] = r[i][2]
      OBVIOUS
    <2> HIDE DEF f, Result
    <2> QED
      BY <1>2, <1>5, <2>6, <2>7, <2>8, <2>9, <2>10, <2>11 DEF Results
  <1> HIDE DEF periods, Result, ps
  <1>6. DOMAIN periods = 1..Len(periods) /\ Len(periods) \in Nat
    BY <1>3
  <1>7. \A k \in 1..Len(periods) : periods[k] \in ps
    BY <1>3, ElementsOf
  <1>8. \A k \in 1..Len(periods) : Grouped(s)[k] = Result(periods[k])
    BY <1>4, <1>6
  <1>9. /\ Grouped(s) \in Seq(Results)
        /\ DOMAIN Grouped(s) = 1..Len(periods)
    <2>1. Grouped(s) \in [1..Len(periods) -> Results]
      BY <1>4, <1>5, <1>6, <1>7
    <2> QED
      BY <1>6, <2>1
  <1>10. {Grouped(s)[k].period : k \in DOMAIN Grouped(s)} = ps
    <2>1. \A k \in 1..Len(periods) : Grouped(s)[k].period = periods[k]
      BY <1>5, <1>7, <1>8
    <2>2. ps = {periods[k] : k \in 1..Len(periods)}
      BY <1>3, ElementsOf
    <2> QED
      BY <1>9, <2>1, <2>2
  <1>11. \A i, j \in DOMAIN Grouped(s) : Grouped(s)[i].period = Grouped(s)[j].period => i = j
    BY <1>3, <1>5, <1>7, <1>8, <1>9
  <1>12. \A k \in DOMAIN Grouped(s) :
             /\ Grouped(s)[k].providers # <<>>
             /\ \A i \in DOMAIN Grouped(s)[k].providers :
                  <<Grouped(s)[k].period, Grouped(s)[k].providers[i]>> \in Elements(s)
    <2> SUFFICES ASSUME NEW k \in 1..Len(periods)
                 PROVE /\ Grouped(s)[k].providers # <<>>
                       /\ \A i \in DOMAIN Grouped(s)[k].providers :
                            <<Grouped(s)[k].period, Grouped(s)[k].providers[i]>> \in Elements(s)
      BY <1>9
    <2> DEFINE p == periods[k]
    <2>1. p \in ps /\ Grouped(s)[k] = Result(p)
      BY <1>7, <1>8
    <2> HIDE DEF p
    <2>2. /\ Result(p).period = p /\ Result(p).providers # <<>>
          /\ \A i \in DOMAIN Result(p).providers : <<p, Result(p).providers[i]>> \in Elements(s)
      BY <1>5, <2>1
    <2> QED
      BY <2>1, <2>2
  <1>13. {Grouped(s)[k].period : k \in DOMAIN Grouped(s)} = {d[1] : d \in Elements(s)}
    BY <1>10 DEF ps
  <1>14. Grouped(s) \in Seq(Results)
    BY <1>9
  <1> QED
    BY <1>11, <1>12, <1>13, <1>14, Zenon

\* What was fetched without the cache is a sequence of documents.
LEMMA InOrderOf == ASSUME NEW S PROVE InOrder(S) \in Seq(Documents)
  <1> DEFINE e(i) == <<((i - 1) \div NProviders) + 1, ((i - 1) % NProviders) + 1>>
  <1> DEFINE all == [i \in 1..NPeriods * NProviders |-> e(i)]
  <1>1. NPeriods * NProviders \in Nat
    BY Bounds
  <1>2. ASSUME NEW i \in 1..NPeriods * NProviders PROVE e(i) \in Documents
    <2> DEFINE q == (i - 1) \div NProviders
    <2> DEFINE m == (i - 1) % NProviders
    <2>1. i - 1 \in Nat /\ i - 1 < NPeriods * NProviders
      BY <1>1
    <2>2. m \in 0..NProviders - 1
      BY <2>1, Bounds
    <2>3. q \in Nat /\ i - 1 = q * NProviders + m
      BY <2>1, Bounds
    <2>4. q < NPeriods
      <3> HIDE DEF q, m
      <3> SUFFICES ASSUME q >= NPeriods PROVE FALSE
        BY <2>3, Bounds
      <3>1. q * NProviders >= NPeriods * NProviders
        BY <2>3, Bounds
      <3> QED
        BY <2>1, <2>2, <2>3, <3>1, Bounds
    <2> HIDE DEF q, m
    <2>5. q + 1 \in Periods /\ m + 1 \in Providers
      BY <2>2, <2>3, <2>4, Bounds DEF Periods, Providers
    <2> QED
      BY <2>5 DEF q, m, Documents
  <1>3. all \in Seq(Documents)
    <2> HIDE DEF e
    <2>1. all \in [1..NPeriods * NProviders -> Documents]
      BY <1>2
    <2> QED
      BY <1>1, <2>1
  <1> QED
    BY <1>3, SelectType DEF InOrder

(***************************************************************************)
(* Types.                                                                  *)
(***************************************************************************)
\* A page: the documents of the range from skip on, up to Limit of them.
LEMMA PageOfType ==
  ASSUME TypeOK, NEW c \in Clients
  PROVE /\ Matches(c) \in Seq(Documents)
        /\ PageOf(c) \in Seq(Documents)
        /\ Len(PageOf(c)) = IF Len(Matches(c)) <= skip[c] THEN 0
                            ELSE Least(skip[c] + Limit, Len(Matches(c))) - skip[c]
        /\ \A i \in 1..Len(PageOf(c)) :
             /\ skip[c] + i \in 1..Len(Matches(c))
             /\ PageOf(c)[i] = Matches(c)[skip[c] + i]
  <1> DEFINE q == Matches(c)
  <1> DEFINE m == Least(skip[c] + Limit, Len(q))
  <1>1. q \in Seq(Documents)
    BY SelectType DEF TypeOK, Matches, InRange
  <1>2. skip[c] \in Nat /\ Limit \in Nat \ {0}
    BY Bounds DEF TypeOK
  <1>3. PageOf(c) = SubSeq(q, skip[c] + 1, m)
    BY DEF PageOf
  <1> HIDE DEF q
  <1>4. Len(q) \in Nat /\ m \in Nat /\ m <= Len(q)
        /\ (Len(q) <= skip[c] <=> m < skip[c] + 1)
    BY <1>1, <1>2 DEF Least
  <1> HIDE DEF m
  <1>5. \A i \in skip[c] + 1..m : q[i] \in Documents
    BY <1>1, <1>2, <1>4
  <1>6. /\ PageOf(c) \in Seq(Documents)
        /\ Len(PageOf(c)) = IF skip[c] + 1 <= m THEN m - (skip[c] + 1) + 1 ELSE 0
        /\ \A i \in 1..m - (skip[c] + 1) + 1 : PageOf(c)[i] = q[skip[c] + 1 + i - 1]
    <2> DEFINE a == skip[c] + 1
    <2>1. a \in Int /\ m \in Int
      BY <1>2, <1>4
    <2>2. PageOf(c) = SubSeq(q, a, m) /\ \A i \in a..m : q[i] \in Documents
      BY <1>3, <1>5
    <2> HIDE DEF a
    <2>3. /\ SubSeq(q, a, m) \in Seq(Documents)
          /\ Len(SubSeq(q, a, m)) = IF a <= m THEN m - a + 1 ELSE 0
          /\ \A i \in 1..m - a + 1 : SubSeq(q, a, m)[i] = q[a + i - 1]
      BY <2>1, <2>2, SubSeqProperties
    <2> QED
      BY <2>2, <2>3 DEF a
  <1>7. Len(PageOf(c)) = IF Len(q) <= skip[c] THEN 0 ELSE m - skip[c]
    BY <1>2, <1>4, <1>6
  <1>8. ASSUME NEW i \in 1..Len(PageOf(c))
        PROVE skip[c] + i \in 1..Len(q) /\ PageOf(c)[i] = q[skip[c] + i]
    <2>1. i \in Nat /\ 1 <= i /\ i <= m - skip[c] /\ i \in 1..m - (skip[c] + 1) + 1
      BY <1>2, <1>4, <1>7, <1>8
    <2>2. skip[c] + 1 + i - 1 = skip[c] + i
      BY <1>2, <2>1
    <2> QED
      BY <1>2, <1>4, <1>6, <2>1, <2>2
  <1> QED
    BY <1>1, <1>6, <1>7, <1>8 DEF q, m

\* Results that are put together are results.
LEMMA Concatenated ==
  ASSUME NEW old \in Seq(Results), NEW new \in Seq(Results)
  PROVE Concatenate(old, new) \in Seq(Results)
  <1> DEFINE others == {g \in Elements(new) : \A k \in DOMAIN old : old[k].period # g.period}
  <1>1. Select(new, others) \in Seq(Results)
    BY SelectType
  <1>2. Concatenate(old, new) = old \o Select(new, others)
    BY DEF Concatenate
  <1> HIDE DEF others
  <1> QED
    BY <1>1, <1>2, ConcatProperties

\* The variables have their types at first,
LEMMA InitTypes == Init => TypeOK
  <1> SUFFICES ASSUME Init PROVE TypeOK
    OBVIOUS
  <1>1. (CHOOSE r \in Requests : TRUE) \in Requests
    BY Bounds
  <1>2. request \in [Clients -> Requests]
    BY <1>1 DEF Init
  <1>3. usage \subseteq Documents /\ docs \in Seq(Documents) /\ steady \in BOOLEAN
    BY DEF Init
  <1>4. /\ page \in [Clients -> Seq(Results)] /\ data \in [Clients -> Seq(Results)]
        /\ read \in [Clients -> Seq(Documents)]
    <2>1. <<>> \in Seq(Results) /\ <<>> \in Seq(Documents)
      OBVIOUS
    <2> QED
      BY <2>1 DEF Init
  <1>5. faults \in 0..MaxFaults /\ views \in 0..MaxViews
    BY Bounds DEF Init
  <1> QED
    BY <1>2, <1>3, <1>4, <1>5 DEF Init, TypeOK, Finished

\* What a request asks for, misses and is given is of the instance.
LEMMA WantedPeriods ==
  ASSUME TypeOK, NEW c \in Clients
  PROVE /\ request[c] \in RequestType /\ Wanted(c) \subseteq Periods
        /\ Gaps(c) \subseteq Wanted(c) /\ Sources(c) \subseteq Providers
        /\ Estimates(c) \subseteq usage
  <1>1. request[c] \in RequestType
    BY Bounds DEF TypeOK
  <1>2. Wanted(c) \subseteq Periods
    BY <1>1, Bounds DEF RequestType, Wanted, Periods
  <1>3. Sources(c) \subseteq Providers
    BY <1>1, Bounds DEF RequestType, Sources, Providers
  <1> QED
    BY <1>1, <1>2, <1>3 DEF Gaps, Estimates

\* One more fault is within its bound.
LEMMA FaultBound == TypeOK /\ faults < MaxFaults => faults + 1 \in 0..MaxFaults
  BY Bounds DEF TypeOK

\* and keep them.
LEMMA NextTypes == TypeOK /\ [Next]_vars => TypeOK'
  <1> SUFFICES ASSUME TypeOK, [Next]_vars PROVE TypeOK'
    OBVIOUS
  <1> USE DEF Goto, Send, Fault, NothingMissing
  <1>1. CASE UNCHANGED vars
    BY <1>1 DEF vars, server, database, progress, events, TypeOK
  <1>2. ASSUME NEW c \in Clients, NEW r \in Requests, Open(c, r) PROVE TypeOK'
    <2>1. views + 1 \in 0..MaxViews
      BY <1>2, Bounds DEF Open, TypeOK
    <2>2. <<>> \in Seq(Results) /\ <<>> \in Seq(Documents)
      OBVIOUS
    <2>3. disturbed' \subseteq {"fault", "race", "overlap", "seed", "name"}
      BY <1>2 DEF Open, TypeOK
    <2> QED
      BY <1>2, <2>1, <2>2, <2>3 DEF Open, TypeOK, Active, database
  <1>3. ASSUME NEW c \in Clients, ServerStep(c) PROVE TypeOK'
    <2>1. Sent(c) /\ UNCHANGED <<steady, data, views>>
      BY <1>3 DEF ServerStep
    <2>2. read' \in [Clients -> Seq(Documents)]
      <3>1. read[c] \o PageOf(c) \in Seq(Documents)
        BY PageOfType, ConcatProperties DEF TypeOK
      <3> QED
        BY <2>1, <3>1 DEF Sent, TypeOK
    <2>3. CASE GetMissingDates(c)
      BY <2>1, <2>2, <2>3, WantedPeriods DEF GetMissingDates, TypeOK, Active, database, events
    <2>4. CASE Fetch(c)
      BY <2>1, <2>2, <2>4, WantedPeriods DEF Fetch, TypeOK, Active, database, events
    <2>5. CASE FetchIgnoringCache(c)
      BY <2>1, <2>2, <2>5, InOrderOf, GroupedOf DEF FetchIgnoringCache, TypeOK, database, events
    <2>6. CASE InsertDocument(c)
      <3>1. PICK d \in inserting[c] : docs' = Append(docs, d)
                 /\ inserting' = [inserting EXCEPT ![c] = @ \ {d}]
                 /\ Goto(c, IF inserting[c] = {d} THEN "read" ELSE "insert")
        BY <2>6 DEF InsertDocument
      <3>2. docs' \in Seq(Documents)
        BY <3>1, AppendProperties DEF TypeOK
      <3> QED
        BY <2>1, <2>2, <2>6, <3>1, <3>2 DEF InsertDocument, TypeOK, Active, events
    <2>7. CASE ReadPage(c)
      <3>1. Grouped(PageOf(c)) \in Seq(Results)
        BY PageOfType, GroupedOf
      <3> QED
        BY <2>1, <2>2, <2>7, <3>1 DEF ReadPage, TypeOK, database, events
    <2>8. CASE ReadNoCollection(c)
      BY <2>1, <2>2, <2>8 DEF ReadNoCollection, TypeOK, progress, events
    <2> QED
      BY <1>3, <2>3, <2>4, <2>5, <2>6, <2>7, <2>8 DEF ServerStep, Serve
  <1>4. ASSUME NEW c \in Clients, NextPage(c) PROVE TypeOK'
    <2>1. Concatenate(data[c], page[c]) \in Seq(Results)
      BY Concatenated DEF TypeOK
    <2>2. skip[c] + Limit \in Nat /\ <<>> \in Seq(Results)
      BY Bounds DEF TypeOK
    <2> HIDE DEF Goto
    <2>3. request' = [request EXCEPT ![c] = request[c]] /\ skip' = [skip EXCEPT ![c] = skip[c] + Limit]
          /\ page' = [page EXCEPT ![c] = <<>>] /\ stage' = [stage EXCEPT ![c] = "missing"]
          /\ data' = [data EXCEPT ![c] = Concatenate(data[c], page[c])]
          /\ UNCHANGED <<usage, exists, docs, creating, missing, inserting, faults, disturbed, steady, read, views>>
      BY <1>4 DEF NextPage, Goto, database, events
    <2> QED
      BY <2>1, <2>2, <2>3 DEF TypeOK, Active
  <1>5. ASSUME NEW c \in Clients, LastPage(c) PROVE TypeOK'
    <2>1. Concatenate(data[c], page[c]) \in Seq(Results) /\ <<>> \in Seq(Results)
      BY Concatenated DEF TypeOK
    <2> QED
      BY <1>5, <2>1 DEF LastPage, TypeOK, Finished, database, events
  <1>6. ASSUME NEW c \in Clients, Seeded(c) PROVE TypeOK'
    <2>1. <<>> \in Seq(Results)
      OBVIOUS
    <2> QED
      BY <1>6, <2>1 DEF Seeded, TypeOK, Finished, database, events
  <1>7. CASE Disturb /\ UNCHANGED <<steady, data, read, views>>
    <2>1. ASSUME NEW c \in Clients,
                 \/ EmptyAggregate(c) \/ MissingDatesFail(c) \/ FetchFails(c)
                 \/ InsertFails(c) \/ ReadFails(c)
          PROVE TypeOK'
      <3>1. faults' \in 0..MaxFaults
        BY <2>1, FaultBound DEF EmptyAggregate, MissingDatesFail, FetchFails, InsertFails, ReadFails, TypeOK
      <3>2. CASE EmptyAggregate(c)
        BY <1>7, <3>1, <3>2 DEF EmptyAggregate, TypeOK, Active, database
      <3>3. CASE MissingDatesFail(c)
        BY <1>7, <3>1, <3>3 DEF MissingDatesFail, TypeOK, Active, database
      <3>4. CASE FetchFails(c)
        BY <1>7, <3>1, <3>4 DEF FetchFails, TypeOK, Finished, database, progress
      <3>5. CASE InsertFails(c)
        BY <1>7, <3>1, <3>5 DEF InsertFails, TypeOK, Active, database
      <3>6. CASE ReadFails(c)
        BY <1>7, <3>1, <3>6 DEF ReadFails, TypeOK, database, progress
      <3> QED
        BY <2>1, <3>2, <3>3, <3>4, <3>5, <3>6
    <2>2. CASE CreateCollection
      BY <1>7, <2>2 DEF CreateCollection, TypeOK, progress, events
    <2>3. CASE CreateExistingCollection
      <3>1. stage' \in [Clients -> Active \cup Finished \cup {"answered"}]
            /\ inserting' \in [Clients -> SUBSET Documents]
            /\ disturbed' \subseteq {"fault", "race", "overlap", "seed", "name"}
        BY <2>3 DEF CreateExistingCollection, RequestsEnd, TypeOK, Finished
      <3>2. creating' \in Nat
        BY <2>3 DEF CreateExistingCollection, TypeOK
      <3> QED
        BY <1>7, <2>3, <3>1, <3>2 DEF CreateExistingCollection, TypeOK
    <2>4. CASE ProcessDies
      <3>1. faults' \in 0..MaxFaults
        BY <2>4, FaultBound DEF ProcessDies
      <3> QED
        BY <1>7, <2>4, <3>1 DEF ProcessDies, RequestsEnd, TypeOK, Finished, database
    <2> QED
      BY <1>7, <2>1, <2>2, <2>3, <2>4 DEF Disturb
  <1> QED
    BY <1>1, <1>2, <1>3, <1>4, <1>5, <1>6, <1>7 DEF Next, ServerDisturbed

\* Whatever clients ask and whatever fails, a view puts together results of periods
\* and providers, from pages of documents of the collection.
THEOREM TypesCorrect == Spec => []TypeOK
  BY InitTypes, NextTypes, PTL DEF Spec

(***************************************************************************)
(* What a step can do to one client.                                       *)
(***************************************************************************)
\* What a step can do to the request and the view of one client.
Untouched(c) == UNCHANGED <<stage[c], request[c], skip[c], page[c], data[c], read[c]>>

Opened(c) ==
  /\ stage'[c] = "missing" /\ skip'[c] = 0
  /\ page'[c] = <<>> /\ data'[c] = <<>> /\ read'[c] = <<>>

Moved(c) ==
  /\ stage[c] \in Active /\ stage'[c] \in Active \cup {"answered", "failed"}
  /\ UNCHANGED <<request[c], skip[c], page[c], data[c], read[c]>>

Bypassed(c) ==
  /\ stage[c] \in Active /\ stage'[c] = "answered"
  /\ page'[c] = Grouped(InOrder(Estimates(c)))
  /\ UNCHANGED <<request[c], skip[c], data[c], read[c]>>

PageRead(c) ==
  /\ stage[c] = "read" /\ stage'[c] = "answered" /\ docs' = docs
  /\ page'[c] = Grouped(PageOf(c))
  /\ read'[c] = IF request[c].seed = 0 THEN read[c] \o PageOf(c) ELSE read[c]
  /\ UNCHANGED <<request[c], skip[c], data[c]>>

Continued(c) ==
  /\ stage[c] = "answered" /\ stage'[c] = "missing" /\ docs' = docs
  /\ skip'[c] = skip[c] + Limit /\ page'[c] = <<>>
  /\ data'[c] = Concatenate(data[c], page[c])
  /\ UNCHANGED <<request[c], read[c]>>

Shown(c) ==
  /\ stage[c] = "answered" /\ stage'[c] = "shown" /\ page'[c] = <<>>
  /\ data'[c] = Concatenate(data[c], page[c])
  /\ UNCHANGED <<request[c], skip[c], read[c]>>

SeedingEnded(c) ==
  /\ stage[c] = "answered" /\ request[c].seed # 0 /\ stage'[c] = "shown" /\ page'[c] = <<>>
  /\ UNCHANGED <<request[c], skip[c], data[c], read[c]>>

ViewStep(c) ==
  \/ Untouched(c) \/ Opened(c) \/ Moved(c) \/ Bypassed(c) \/ PageRead(c)
  \/ Continued(c) \/ Shown(c) \/ SeedingEnded(c)

\* What any step can do to the collection.
OneMoreDocument(x) == docs' = Append(docs, x)
Grows == docs' = docs \/ \E x \in Documents : OneMoreDocument(x)

\* Every step is one of these for every client.
LEMMA AnyStep ==
  TypeOK /\ [Next]_vars => Grows /\ \A c \in Clients : ViewStep(c)
  <1> SUFFICES ASSUME TypeOK, [Next]_vars PROVE Grows /\ \A c \in Clients : ViewStep(c)
    OBVIOUS
  <1> USE DEF Goto, Send, Fault, NothingMissing
  <1>1. CASE UNCHANGED vars
    BY <1>1 DEF vars, server, database, progress, Grows, ViewStep, Untouched
  <1>2. ASSUME NEW c \in Clients, NEW r \in Requests, Open(c, r)
        PROVE Grows /\ \A d \in Clients : ViewStep(d)
    <2>1. Opened(c) /\ docs' = docs
      BY <1>2 DEF Open, Opened, TypeOK, database
    <2>2. \A d \in Clients \ {c} : Untouched(d)
      BY <1>2 DEF Open, Untouched, TypeOK
    <2> QED
      BY <2>1, <2>2 DEF Grows, ViewStep
  <1>3. ASSUME NEW c \in Clients, ServerStep(c)
        PROVE Grows /\ \A d \in Clients : ViewStep(d)
    <2>1. Sent(c) /\ UNCHANGED <<steady, data, views>>
      BY <1>3 DEF ServerStep
    <2>2. /\ \A d \in Clients \ {c} : read'[d] = read[d]
          /\ read'[c] = IF stage[c] = "read" /\ exists /\ request[c].seed = 0
                        THEN read[c] \o PageOf(c) ELSE read[c]
      BY <2>1 DEF Sent, TypeOK
    <2>3. CASE GetMissingDates(c)
      <3>1. Moved(c) /\ docs' = docs
        BY <2>1, <2>2, <2>3 DEF GetMissingDates, Moved, Active, TypeOK, database
      <3>2. \A d \in Clients \ {c} : Untouched(d)
        BY <2>1, <2>2, <2>3 DEF GetMissingDates, Untouched, TypeOK
      <3> QED
        BY <3>1, <3>2 DEF Grows, ViewStep
    <2>4. CASE Fetch(c)
      <3>1. Moved(c) /\ docs' = docs
        BY <2>1, <2>2, <2>4 DEF Fetch, Moved, Active, TypeOK, database
      <3>2. \A d \in Clients \ {c} : Untouched(d)
        BY <2>1, <2>2, <2>4 DEF Fetch, Untouched, TypeOK
      <3> QED
        BY <3>1, <3>2 DEF Grows, ViewStep
    <2>5. CASE FetchIgnoringCache(c)
      <3>1. Bypassed(c) /\ docs' = docs
        BY <2>1, <2>2, <2>5 DEF FetchIgnoringCache, Bypassed, Active, TypeOK, database
      <3>2. \A d \in Clients \ {c} : Untouched(d)
        BY <2>1, <2>2, <2>5 DEF FetchIgnoringCache, Untouched, TypeOK
      <3> QED
        BY <3>1, <3>2 DEF Grows, ViewStep
    <2>6. CASE InsertDocument(c)
      <3>1. Moved(c)
        BY <2>1, <2>2, <2>6 DEF InsertDocument, Moved, Active, TypeOK
      <3>2. \A d \in Clients \ {c} : Untouched(d)
        BY <2>1, <2>2, <2>6 DEF InsertDocument, Untouched, TypeOK
      <3>3. Grows
        BY <2>6 DEF InsertDocument, Grows, OneMoreDocument, TypeOK
      <3> QED
        BY <3>1, <3>2, <3>3 DEF ViewStep
    <2>7. CASE ReadPage(c)
      <3>1. PageRead(c) /\ docs' = docs
        BY <2>1, <2>2, <2>7 DEF ReadPage, PageRead, TypeOK, database
      <3>2. \A d \in Clients \ {c} : Untouched(d)
        BY <2>1, <2>2, <2>7 DEF ReadPage, Untouched, TypeOK
      <3> QED
        BY <3>1, <3>2 DEF Grows, ViewStep
    <2>8. CASE ReadNoCollection(c)
      <3>1. Moved(c) /\ docs' = docs
        BY <2>1, <2>2, <2>8 DEF ReadNoCollection, Moved, Active, TypeOK, progress
      <3>2. \A d \in Clients \ {c} : Untouched(d)
        BY <2>1, <2>2, <2>8 DEF ReadNoCollection, Untouched, TypeOK, progress
      <3> QED
        BY <3>1, <3>2 DEF Grows, ViewStep
    <2> QED
      BY <1>3, <2>3, <2>4, <2>5, <2>6, <2>7, <2>8 DEF ServerStep, Serve
  <1>4. ASSUME NEW c \in Clients, NextPage(c)
        PROVE Grows /\ \A d \in Clients : ViewStep(d)
    <2>1. Continued(c) /\ docs' = docs
      BY <1>4 DEF NextPage, Continued, TypeOK, database
    <2>2. \A d \in Clients \ {c} : Untouched(d)
      BY <1>4 DEF NextPage, Untouched, TypeOK
    <2> QED
      BY <2>1, <2>2 DEF Grows, ViewStep
  <1>5. ASSUME NEW c \in Clients, LastPage(c)
        PROVE Grows /\ \A d \in Clients : ViewStep(d)
    <2>1. Shown(c) /\ docs' = docs
      BY <1>5 DEF LastPage, Shown, TypeOK, database
    <2>2. \A d \in Clients \ {c} : Untouched(d)
      BY <1>5 DEF LastPage, Untouched, TypeOK
    <2> QED
      BY <2>1, <2>2 DEF Grows, ViewStep
  <1>6. ASSUME NEW c \in Clients, Seeded(c)
        PROVE Grows /\ \A d \in Clients : ViewStep(d)
    <2>1. SeedingEnded(c) /\ docs' = docs
      BY <1>6 DEF Seeded, SeedingEnded, TypeOK, database
    <2>2. \A d \in Clients \ {c} : Untouched(d)
      BY <1>6 DEF Seeded, Untouched, TypeOK
    <2> QED
      BY <2>1, <2>2 DEF Grows, ViewStep
  <1>7. CASE Disturb /\ UNCHANGED <<steady, data, read, views>>
    <2>1. ASSUME NEW c \in Clients,
                 \/ EmptyAggregate(c) \/ MissingDatesFail(c) \/ FetchFails(c)
                 \/ InsertFails(c) \/ ReadFails(c)
          PROVE Grows /\ \A d \in Clients : ViewStep(d)
      <3>1. Moved(c) /\ docs' = docs
        BY <1>7, <2>1 DEF EmptyAggregate, MissingDatesFail, FetchFails, InsertFails, ReadFails,
                          Moved, Active, TypeOK, database, progress
      <3>2. \A d \in Clients \ {c} : Untouched(d)
        BY <1>7, <2>1 DEF EmptyAggregate, MissingDatesFail, FetchFails, InsertFails, ReadFails,
                          Untouched, TypeOK, progress
      <3> QED
        BY <3>1, <3>2 DEF Grows, ViewStep
    <2>2. CASE CreateCollection
      BY <1>7, <2>2 DEF CreateCollection, Grows, ViewStep, Untouched, progress
    <2>3. ASSUME NEW seeding, RequestsEnd(seeding),
                 UNCHANGED <<docs, request, skip, page>>
          PROVE Grows /\ \A d \in Clients : ViewStep(d)
      <3>1. ASSUME NEW d \in Clients PROVE Untouched(d) \/ Moved(d)
        BY <1>7, <2>3 DEF RequestsEnd, InProcess, Untouched, Moved
      <3> QED
        BY <2>3, <3>1 DEF Grows, ViewStep
    <2>4. CASE CreateExistingCollection
      <3>1. CASE UNCHANGED <<stage, inserting, disturbed>>
        BY <1>7, <2>4, <3>1 DEF CreateExistingCollection, Grows, ViewStep, Untouched
      <3>2. CASE \E seeding \in BOOLEAN : RequestsEnd(seeding)
        BY <2>3, <2>4, <3>2 DEF CreateExistingCollection
      <3> QED
        BY <2>4, <3>1, <3>2 DEF CreateExistingCollection
    <2>5. CASE ProcessDies
      BY <2>3, <2>5 DEF ProcessDies, database
    <2> QED
      BY <1>7, <2>1, <2>2, <2>4, <2>5 DEF Disturb
  <1> QED
    BY <1>1, <1>2, <1>3, <1>4, <1>5, <1>6, <1>7 DEF Next, ServerDisturbed

(***************************************************************************)
(* The pages of a view, whatever else happens: what was sent is in the     *)
(* order of the collection, so that nothing is sent again.                 *)
(***************************************************************************)
\* The documents that a view was sent are among those of its range in the order of
\* the collection, none after the last page asked for.
LastSent(c) == IF stage[c] = "answered" THEN skip[c] + Limit ELSE skip[c]

SentInOrder(c) ==
  \E at :
    /\ Rising(at, read[c], Matches(c))
    /\ stage[c] \in Active \cup {"answered"} => \A i \in 1..Len(read[c]) : at[i] <= LastSent(c)

PeriodsOf(results) == {results[k].period : k \in DOMAIN results}
DistinctPeriods(results) ==
  \A i, j \in DOMAIN results : results[i].period = results[j].period => i = j
PeriodsSent(c) == {d[1] : d \in Elements(read[c])}

PeriodsKept(c) ==
  /\ DistinctPeriods(page[c]) /\ DistinctPeriods(data[c])
  /\ stage[c] \notin Finished /\ request[c].seed # 0 => read[c] = <<>>
  /\ stage[c] \in Active \cup {"shown"} => PeriodsSent(c) \subseteq PeriodsOf(data[c])
  /\ stage[c] = "answered" =>
       PeriodsSent(c) \subseteq PeriodsOf(data[c]) \cup PeriodsOf(page[c])

PagesInv == \A c \in Clients : SentInOrder(c) /\ PeriodsKept(c)

\* At first, nothing was sent.
LEMMA InitPages == Init => PagesInv
  <1> SUFFICES ASSUME Init, NEW c \in Clients PROVE SentInOrder(c) /\ PeriodsKept(c)
    BY DEF PagesInv
  <1>1. read[c] = <<>> /\ page[c] = <<>> /\ data[c] = <<>> /\ stage[c] = "idle"
    BY DEF Init
  <1>2. Rising(<<>>, read[c], Matches(c))
    BY <1>1 DEF Rising
  <1> QED
    BY <1>1, <1>2 DEF SentInOrder, PeriodsKept, DistinctPeriods, Active, Finished

\* The elements of a sequence that continues another.
LEMMA ElementsOfTwo ==
  ASSUME NEW T, NEW s \in Seq(T), NEW t \in Seq(T)
  PROVE /\ s \o t \in Seq(T)
        /\ Elements(s \o t) = Elements(s) \cup Elements(t)
  <1> DEFINE u == s \o t
  <1>1. /\ u \in Seq(T) /\ Len(u) = Len(s) + Len(t) /\ Len(s) \in Nat /\ Len(t) \in Nat
        /\ \A i \in 1..Len(s) + Len(t) : u[i] = IF i <= Len(s) THEN s[i] ELSE t[i - Len(s)]
    BY ConcatProperties, LenProperties
  <1> HIDE DEF u
  <1>2. \A i \in 1..Len(s) : i \in 1..Len(u) /\ u[i] = s[i]
    BY <1>1
  <1>3. \A i \in 1..Len(t) : Len(s) + i \in 1..Len(u) /\ u[Len(s) + i] = t[i]
    <2> SUFFICES ASSUME NEW i \in 1..Len(t)
                 PROVE Len(s) + i \in 1..Len(u) /\ u[Len(s) + i] = t[i]
      OBVIOUS
    <2>1. (Len(s) + i) - Len(s) = i /\ Len(s) + i \in 1..Len(s) + Len(t) /\ ~(Len(s) + i <= Len(s))
      BY <1>1
    <2> QED
      BY <1>1, <2>1
  <1>4. \A i \in 1..Len(u) : i \in 1..Len(s) \/ i - Len(s) \in 1..Len(t)
    BY <1>1
  <1>5. \A i \in 1..Len(u) : u[i] \in Elements(s) \cup Elements(t)
    <2> SUFFICES ASSUME NEW i \in 1..Len(u) PROVE u[i] \in Elements(s) \cup Elements(t)
      OBVIOUS
    <2>1. CASE i \in 1..Len(s)
      BY <1>2, <2>1, ElementsOf
    <2>2. CASE i - Len(s) \in 1..Len(t)
      <3>1. u[i] = t[i - Len(s)]
        BY <1>1, <2>2
      <3> QED
        BY <2>2, <3>1, ElementsOf
    <2> QED
      BY <1>4, <2>1, <2>2
  <1>6. Elements(u) = {u[i] : i \in 1..Len(u)}
    BY <1>1, ElementsOf
  <1>7. Elements(s) \subseteq Elements(u)
    BY <1>2, <1>6, ElementsOf
  <1>8. Elements(t) \subseteq Elements(u)
    BY <1>3, <1>6, ElementsOf
  <1> QED
    BY <1>1, <1>5, <1>6, <1>7, <1>8 DEF u

\* What is put together from distinct periods has distinct periods, and all of them.
LEMMA ConcatenateKeeps ==
  ASSUME NEW old \in Seq(Results), NEW new \in Seq(Results),
         DistinctPeriods(old), DistinctPeriods(new)
  PROVE /\ DistinctPeriods(Concatenate(old, new))
        /\ PeriodsOf(Concatenate(old, new)) = PeriodsOf(old) \cup PeriodsOf(new)
        /\ Elements(Concatenate(old, new)) \subseteq Elements(old) \cup Elements(new)
  <1> DEFINE others == {g \in Elements(new) : \A k \in DOMAIN old : old[k].period # g.period}
  <1> DEFINE rest == Select(new, others)
  <1> DEFINE all == Concatenate(old, new)
  <1>1. rest \in Seq(Results) /\ Elements(rest) = Elements(new) \cap others
    BY SelectType
  <1>2. PICK at : Rising(at, rest, new)
    BY SelectType
  <1>3. all = old \o rest
    BY DEF Concatenate
  <1> HIDE DEF all, rest
  <1>4. /\ DOMAIN old = 1..Len(old) /\ DOMAIN new = 1..Len(new) /\ DOMAIN rest = 1..Len(rest)
        /\ Len(old) \in Nat /\ Len(new) \in Nat /\ Len(rest) \in Nat
    BY <1>1
  <1>5. /\ all \in Seq(Results) /\ Len(all) = Len(old) + Len(rest)
        /\ \A i \in 1..Len(old) + Len(rest) : all[i] = IF i <= Len(old) THEN old[i] ELSE rest[i - Len(old)]
    BY <1>1, <1>3, ConcatProperties
  <1>6. Elements(all) = Elements(old) \cup Elements(rest)
    BY <1>1, <1>3, ElementsOfTwo
  <1>7. \A s \in Seq(Results) : PeriodsOf(s) = {g.period : g \in Elements(s)}
    BY DEF PeriodsOf, Elements
  <1>8. \A k \in DOMAIN old : old[k] \in Elements(old)
    BY DEF Elements
  <1>9. PeriodsOf(all) = PeriodsOf(old) \cup PeriodsOf(new)
    <2>1. \A g \in Elements(new) : g \in others \/ g.period \in PeriodsOf(old)
      BY DEF PeriodsOf
    <2> HIDE DEF others
    <2>2. PeriodsOf(all) = {g.period : g \in Elements(old) \cup (Elements(new) \cap others)}
      BY <1>1, <1>5, <1>6, <1>7
    <2>3. PeriodsOf(old) = {g.period : g \in Elements(old)}
      BY <1>7
    <2>4. PeriodsOf(new) = {g.period : g \in Elements(new)}
      BY <1>7
    <2> QED
      BY <2>1, <2>2, <2>3, <2>4
  <1>10. ASSUME NEW i \in 1..Len(rest), NEW j \in 1..Len(rest), rest[i].period = rest[j].period
         PROVE i = j
    <2>1. at[i] \in 1..Len(new) /\ at[j] \in 1..Len(new) /\ rest[i] = new[at[i]] /\ rest[j] = new[at[j]]
      BY <1>2 DEF Rising
    <2>2. at[i] = at[j]
      BY <1>4, <1>10, <2>1 DEF DistinctPeriods
    <2>3. ~(i < j) /\ ~(j < i)
      BY <1>2, <1>4, <2>1, <2>2 DEF Rising
    <2> QED
      BY <1>4, <2>3
  <1>11. ASSUME NEW i \in 1..Len(old), NEW j \in 1..Len(rest) PROVE old[i].period # rest[j].period
    <2>1. rest[j] \in others
      BY <1>1, ElementsOf
    <2> QED
      BY <1>4, <2>1
  <1>12. DistinctPeriods(all)
    <2> SUFFICES ASSUME NEW i \in 1..Len(all), NEW j \in 1..Len(all), all[i].period = all[j].period
                 PROVE i = j
      BY <1>5 DEF DistinctPeriods
    <2>1. CASE i <= Len(old) /\ j <= Len(old)
      <3>1. i \in DOMAIN old /\ j \in DOMAIN old
        BY <1>4, <1>5, <2>1
      <3> QED
        BY <1>5, <2>1, <3>1 DEF DistinctPeriods
    <2>2. CASE i <= Len(old) /\ ~(j <= Len(old))
      <3>1. i \in 1..Len(old) /\ j - Len(old) \in 1..Len(rest)
        BY <1>4, <1>5, <2>2
      <3> QED
        BY <1>5, <1>11, <2>2, <3>1
    <2>3. CASE ~(i <= Len(old)) /\ j <= Len(old)
      <3>1. j \in 1..Len(old) /\ i - Len(old) \in 1..Len(rest)
        BY <1>4, <1>5, <2>3
      <3> QED
        BY <1>5, <1>11, <2>3, <3>1
    <2>4. CASE ~(i <= Len(old)) /\ ~(j <= Len(old))
      <3>1. i - Len(old) \in 1..Len(rest) /\ j - Len(old) \in 1..Len(rest)
        BY <1>4, <1>5, <2>4
      <3>2. i - Len(old) = j - Len(old)
        BY <1>5, <1>10, <2>4, <3>1
      <3> QED
        BY <1>4, <3>2
    <2> QED
      BY <2>1, <2>2, <2>3, <2>4
  <1> QED
    BY <1>1, <1>6, <1>9, <1>12 DEF all

\* The documents of a range after a step that does not change the range.
LEMMA MatchesGrow ==
  ASSUME TypeOK, NEW c \in Clients, Grows, request'[c] = request[c]
  PROVE /\ Matches(c) \in Seq(Documents)
        /\ \/ Matches(c)' = Matches(c)
           \/ \E x \in Documents : Matches(c)' = Append(Matches(c), x)
        /\ docs' = docs => Matches(c)' = Matches(c)
  <1>1. docs \in Seq(Documents)
    BY DEF TypeOK
  <1> DEFINE range == Wanted(c) \X Providers
  <1>2. range' = range
    BY DEF Wanted
  <1>3. Matches(c) = Select(docs, range)
    BY DEF Matches, InRange
  <1>4. Matches(c)' = Select(docs', range)
    BY <1>2 DEF Matches, InRange
  <1> HIDE DEF range
  <1>5. Matches(c) \in Seq(Documents)
    BY <1>1, <1>3, SelectType
  <1>6. CASE docs' = docs
    BY <1>3, <1>4, <1>5, <1>6
  <1>7. ASSUME NEW x \in Documents, docs' = Append(docs, x)
        PROVE Matches(c)' = Matches(c) \/ Matches(c)' = Append(Matches(c), x)
    BY <1>1, <1>3, <1>4, <1>7, SelectAppend
  <1> QED
    BY <1>3, <1>4, <1>5, <1>6, <1>7 DEF Grows, OneMoreDocument

\* Places in a sequence are places in a longer one.
LEMMA RisingGrows ==
  ASSUME NEW T, NEW s \in Seq(T), NEW t \in Seq(T), NEW x \in T, NEW at, Rising(at, t, s)
  PROVE Rising(at, t, Append(s, x))
  <1> DEFINE u == Append(s, x)
  <1>1. Len(u) = Len(s) + 1 /\ Len(s) \in Nat /\ \A i \in 1..Len(s) : u[i] = s[i]
    OBVIOUS
  <1> HIDE DEF u
  <1>2. at \in [1..Len(t) -> 1..Len(s)] /\ \A i \in 1..Len(t) : t[i] = s[at[i]]
    BY DEF Rising
  <1>3. at \in [1..Len(t) -> 1..Len(u)]
    BY <1>1, <1>2
  <1>4. \A i \in 1..Len(t) : t[i] = u[at[i]]
    BY <1>1, <1>2
  <1> QED
    BY <1>3, <1>4 DEF Rising, u

\* The page after those that were sent before.
LEMMA PageSent ==
  ASSUME TypeOK, NEW c \in Clients, SentInOrder(c), stage[c] = "read"
  PROVE \E at : /\ Rising(at, read[c] \o PageOf(c), Matches(c))
                /\ \A i \in 1..Len(read[c] \o PageOf(c)) : at[i] <= skip[c] + Limit
  <1> DEFINE old == read[c]
  <1> DEFINE new == PageOf(c)
  <1> DEFINE all == old \o new
  <1> DEFINE q == Matches(c)
  <1>1. PICK at : Rising(at, old, q) /\ \A i \in 1..Len(old) : at[i] <= skip[c]
    BY DEF SentInOrder, LastSent, Active
  <1>2. old \in Seq(Documents) /\ skip[c] \in Nat /\ Limit \in Nat \ {0}
    BY Bounds DEF TypeOK
  <1>3. /\ new \in Seq(Documents) /\ q \in Seq(Documents)
        /\ Len(new) = IF Len(q) <= skip[c] THEN 0 ELSE Least(skip[c] + Limit, Len(q)) - skip[c]
        /\ \A i \in 1..Len(new) : skip[c] + i \in 1..Len(q) /\ new[i] = q[skip[c] + i]
    BY PageOfType
  <1> HIDE DEF old, new, q
  <1>4. /\ all \in Seq(Documents) /\ Len(all) = Len(old) + Len(new)
        /\ Len(old) \in Nat /\ Len(new) \in Nat /\ Len(q) \in Nat
        /\ \A i \in 1..Len(old) + Len(new) : all[i] = IF i <= Len(old) THEN old[i] ELSE new[i - Len(old)]
    BY <1>2, <1>3, ConcatProperties, LenProperties
  <1>5. Len(new) <= Limit
    BY <1>2, <1>3, <1>4 DEF Least
  <1> HIDE DEF all
  <1> DEFINE bt == [i \in 1..Len(all) |-> IF i <= Len(old) THEN at[i] ELSE skip[c] + (i - Len(old))]
  <1>6. \A i \in 1..Len(old) : /\ i \in 1..Len(all) /\ i <= Len(old)
                               /\ at[i] \in 1..Len(q) /\ at[i] <= skip[c] /\ old[i] = q[at[i]]
    BY <1>1, <1>4 DEF Rising
  <1>7. \A i \in 1..Len(all) : i \in 1..Len(old) \/ (~(i <= Len(old)) /\ i - Len(old) \in 1..Len(new))
    BY <1>4
  <1>8. ASSUME NEW i \in 1..Len(all)
        PROVE /\ bt[i] \in 1..Len(q) /\ bt[i] <= skip[c] + Limit /\ all[i] = q[bt[i]]
              /\ i \in 1..Len(old) => bt[i] = at[i]
              /\ i \notin 1..Len(old) => bt[i] = skip[c] + (i - Len(old)) /\ bt[i] > skip[c]
    <2>1. CASE i \in 1..Len(old)
      <3>1. bt[i] = at[i] /\ all[i] = old[i]
        BY <1>4, <1>6, <2>1
      <3> HIDE DEF bt
      <3> QED
        BY <1>2, <1>4, <1>6, <2>1, <3>1
    <2>2. CASE i \notin 1..Len(old)
      <3>1. ~(i <= Len(old)) /\ i - Len(old) \in 1..Len(new)
        BY <1>7, <2>2
      <3>2. bt[i] = skip[c] + (i - Len(old)) /\ all[i] = new[i - Len(old)]
        BY <1>4, <3>1
      <3> HIDE DEF bt
      <3>3. bt[i] \in 1..Len(q) /\ new[i - Len(old)] = q[bt[i]]
        BY <1>3, <3>1, <3>2
      <3>4. i - Len(old) <= Limit /\ i - Len(old) >= 1 /\ i - Len(old) \in Int
        BY <1>2, <1>4, <1>5, <3>1
      <3> QED
        BY <1>2, <2>2, <3>2, <3>3, <3>4
    <2> QED
      BY <2>1, <2>2
  <1>9. bt \in [1..Len(all) -> 1..Len(q)]
    BY <1>8
  <1> HIDE DEF bt
  <1>10. ASSUME NEW i \in 1..Len(all), NEW j \in 1..Len(all), i < j PROVE bt[i] < bt[j]
    <2>1. CASE i \in 1..Len(old) /\ j \in 1..Len(old)
      BY <1>1, <1>8, <1>10, <2>1 DEF Rising
    <2>2. CASE i \in 1..Len(old) /\ j \notin 1..Len(old)
      <3>1. bt[i] <= skip[c] /\ bt[j] > skip[c] /\ bt[i] \in Nat /\ bt[j] \in Nat
        BY <1>4, <1>6, <1>8, <2>2
      <3> QED
        BY <1>2, <3>1
    <2>3. CASE i \notin 1..Len(old)
      <3>1. j \notin 1..Len(old)
        BY <1>4, <1>10, <2>3
      <3>2. bt[i] = skip[c] + (i - Len(old)) /\ bt[j] = skip[c] + (j - Len(old))
        BY <1>8, <2>3, <3>1
      <3> QED
        BY <1>2, <1>4, <1>10, <3>2
    <2> QED
      BY <2>1, <2>2, <2>3
  <1>11. Rising(bt, all, q)
    BY <1>8, <1>9, <1>10 DEF Rising
  <1> QED
    BY <1>8, <1>11 DEF all, q, old, new

\* Every step leaves what a view was sent in the order of the collection.
LEMMA StillInOrder ==
  ASSUME TypeOK, TypeOK', NEW c \in Clients, SentInOrder(c), Grows, ViewStep(c)
  PROVE SentInOrder(c)'
  <1>1. skip[c] \in Nat /\ Limit \in Nat \ {0} /\ read[c] \in Seq(Documents) /\ skip'[c] \in Nat
    BY Bounds DEF TypeOK
  <1>2. CASE Opened(c)
    <2>1. Rising(<<>>, <<>>, Matches(c)')
      BY DEF Rising
    <2>2. read'[c] = <<>> /\ Len(<<>>) = 0
      BY <1>2 DEF Opened
    <2> QED
      BY <2>1, <2>2 DEF SentInOrder
  <1>3. CASE PageRead(c) /\ request[c].seed = 0
    <2>1. Matches(c)' = Matches(c)
      BY <1>3, MatchesGrow DEF PageRead
    <2>2. /\ read'[c] = read[c] \o PageOf(c) /\ stage[c] = "read" /\ stage'[c] = "answered"
          /\ skip'[c] = skip[c]
      BY <1>3 DEF PageRead
    <2>3. LastSent(c)' = skip[c] + Limit
      BY <2>2 DEF LastSent
    <2> QED
      BY <2>1, <2>2, <2>3, PageSent DEF SentInOrder
  <1>4. CASE ~Opened(c) /\ (PageRead(c) => request[c].seed # 0)
    <2>1. read'[c] = read[c] /\ request'[c] = request[c]
      BY <1>4 DEF ViewStep, Untouched, Moved, Bypassed, PageRead, Continued, Shown, SeedingEnded
    <2>2. PICK at :
            /\ Rising(at, read[c], Matches(c))
            /\ stage[c] \in Active \cup {"answered"} => \A i \in 1..Len(read[c]) : at[i] <= LastSent(c)
      BY DEF SentInOrder
    <2>3. \A i \in 1..Len(read[c]) : at[i] \in Int
      BY <2>2 DEF Rising
    <2>4. Rising(at, read[c], Matches(c)')
      BY <1>1, <2>1, <2>2, MatchesGrow, RisingGrows
    <2>5. ASSUME stage'[c] \in Active \cup {"answered"}
          PROVE stage[c] \in Active \cup {"answered"} /\ LastSent(c) <= LastSent(c)'
      BY <1>1, <1>4, <2>5 DEF ViewStep, Untouched, Moved, Bypassed, PageRead, Continued, Shown,
                       SeedingEnded, Active, LastSent
    <2>6. LastSent(c) \in Int /\ LastSent(c)' \in Int
      BY <1>1 DEF LastSent
    <2> QED
      BY <2>1, <2>2, <2>3, <2>4, <2>5, <2>6 DEF SentInOrder
  <1> QED
    BY <1>2, <1>3, <1>4

\* Every step leaves each period once in what a view has put together.
LEMMA StillKept ==
  ASSUME TypeOK, TypeOK', NEW c \in Clients, PeriodsKept(c), ViewStep(c)
  PROVE PeriodsKept(c)'
  <1>1. /\ read[c] \in Seq(Documents) /\ page[c] \in Seq(Results) /\ data[c] \in Seq(Results)
    BY DEF TypeOK
  <1>2. DistinctPeriods(<<>>) /\ Elements(<<>>) = {}
    BY DEF DistinctPeriods, Elements
  <1>2a. ASSUME UNCHANGED <<page[c], data[c], read[c]>>
        PROVE /\ DistinctPeriods(page[c])' = DistinctPeriods(page[c])
              /\ DistinctPeriods(data[c])' = DistinctPeriods(data[c])
              /\ PeriodsOf(page[c])' = PeriodsOf(page[c])
              /\ PeriodsOf(data[c])' = PeriodsOf(data[c])
              /\ PeriodsSent(c)' = PeriodsSent(c)
    <2>1. page'[c] = page[c] /\ data'[c] = data[c] /\ read'[c] = read[c]
      BY <1>2a
    <2>2. DistinctPeriods(page[c])' = DistinctPeriods(page[c])
      BY <2>1 DEF DistinctPeriods
    <2>3. DistinctPeriods(data[c])' = DistinctPeriods(data[c])
      BY <2>1 DEF DistinctPeriods
    <2>4. PeriodsOf(page[c])' = PeriodsOf(page[c]) /\ PeriodsOf(data[c])' = PeriodsOf(data[c])
      BY <2>1 DEF PeriodsOf
    <2>5. PeriodsSent(c)' = PeriodsSent(c)
      BY <2>1 DEF PeriodsSent, Elements
    <2> QED
      BY <2>2, <2>3, <2>4, <2>5
  <1>3. CASE Untouched(c)
    <2>1. UNCHANGED <<page[c], data[c], read[c]>> /\ UNCHANGED <<stage[c], request[c]>>
      BY <1>3 DEF Untouched
    <2> QED
      BY <1>2a, <2>1 DEF PeriodsKept
  <1>4. CASE Opened(c)
    BY <1>2, <1>4 DEF Opened, PeriodsKept, PeriodsSent, Active, Finished
  <1>5. CASE Moved(c)
    <2>1. /\ UNCHANGED <<page[c], data[c], read[c]>> /\ UNCHANGED request[c]
          /\ stage[c] \in Active /\ stage'[c] \in Active \cup {"answered", "failed"}
      BY <1>5 DEF Moved
    <2> QED
      BY <1>2a, <2>1 DEF PeriodsKept, Active, Finished
  <1>6. CASE Bypassed(c)
    <2>1. DistinctPeriods(page'[c])
      BY <1>6, InOrderOf, GroupedOf DEF Bypassed, DistinctPeriods
    <2>2. /\ stage[c] \in Active /\ stage'[c] = "answered"
          /\ UNCHANGED <<request[c], data[c], read[c]>>
      BY <1>6 DEF Bypassed
    <2>3. PeriodsSent(c)' = PeriodsSent(c)
      BY <2>2 DEF PeriodsSent, Elements
    <2> QED
      BY <2>1, <2>2, <2>3 DEF PeriodsKept, Active, Finished
  <1>7. CASE PageRead(c)
    <2>1. PageOf(c) \in Seq(Documents)
      BY PageOfType
    <2>2. /\ stage[c] = "read" /\ stage'[c] = "answered"
          /\ page'[c] = Grouped(PageOf(c))
          /\ read'[c] = IF request[c].seed = 0 THEN read[c] \o PageOf(c) ELSE read[c]
          /\ UNCHANGED <<request[c], data[c]>>
      BY <1>7 DEF PageRead
    <2>3. /\ DistinctPeriods(page'[c])
          /\ PeriodsOf(page'[c]) = {d[1] : d \in Elements(PageOf(c))}
      <3>1. /\ DistinctPeriods(Grouped(PageOf(c)))
            /\ PeriodsOf(Grouped(PageOf(c))) = {d[1] : d \in Elements(PageOf(c))}
        BY <2>1, GroupedOf DEF DistinctPeriods, PeriodsOf
      <3> QED
        BY <2>2, <3>1
    <2>4. Elements(read[c] \o PageOf(c)) = Elements(read[c]) \cup Elements(PageOf(c))
      BY <1>1, <2>1, ElementsOfTwo
    <2>5. PeriodsSent(c)' \subseteq PeriodsSent(c) \cup PeriodsOf(page'[c])
      <3>1. PeriodsSent(c)' = {d[1] : d \in Elements(read'[c])}
        BY DEF PeriodsSent, Elements
      <3>2. Elements(read'[c]) \subseteq Elements(read[c]) \cup Elements(PageOf(c))
        BY <2>2, <2>4
      <3> QED
        BY <2>3, <3>1, <3>2 DEF PeriodsSent
    <2> QED
      BY <2>2, <2>3, <2>5 DEF PeriodsKept, Active, Finished
  <1>8. CASE Continued(c) \/ Shown(c)
    <2>1. /\ stage[c] = "answered" /\ stage'[c] \in {"missing", "shown"} /\ page'[c] = <<>>
          /\ data'[c] = Concatenate(data[c], page[c])
          /\ UNCHANGED <<request[c], read[c]>>
      BY <1>8 DEF Continued, Shown
    <2>2. DistinctPeriods(data[c]) /\ DistinctPeriods(page[c])
      BY DEF PeriodsKept
    <2>3. /\ DistinctPeriods(data'[c])
          /\ PeriodsOf(data'[c]) = PeriodsOf(data[c]) \cup PeriodsOf(page[c])
      BY <1>1, <2>1, <2>2, ConcatenateKeeps
    <2>4. PeriodsSent(c)' = PeriodsSent(c)
      BY <2>1 DEF PeriodsSent, Elements
    <2> QED
      BY <1>2, <2>1, <2>3, <2>4 DEF PeriodsKept, Active, Finished
  <1>9. CASE SeedingEnded(c)
    <2>1. /\ stage[c] = "answered" /\ request[c].seed # 0 /\ stage'[c] = "shown" /\ page'[c] = <<>>
          /\ UNCHANGED <<request[c], data[c], read[c]>>
      BY <1>9 DEF SeedingEnded
    <2>2. read[c] = <<>>
      BY <2>1 DEF PeriodsKept, Finished
    <2>3. PeriodsSent(c)' = {}
      BY <1>2, <2>1, <2>2 DEF PeriodsSent
    <2> QED
      BY <1>2, <2>1, <2>2, <2>3 DEF PeriodsKept, Finished
  <1> QED
    BY <1>3, <1>4, <1>5, <1>6, <1>7, <1>8, <1>9 DEF ViewStep

\* The invariant of the pages is inductive.
LEMMA NextPages == TypeOK /\ TypeOK' /\ PagesInv /\ [Next]_vars => PagesInv'
  BY AnyStep, StillInOrder, StillKept DEF PagesInv

(***************************************************************************)
(* The collection: while requests do not overlap and no provider is seeded *)
(* by a name in small letters, what is about to be inserted is not there.  *)
(***************************************************************************)
Stages == Active \cup Finished \cup {"answered"}

\* The variables that decide what is inserted.
Typed ==
  /\ usage \subseteq Documents
  /\ docs \in Seq(Documents)
  /\ stage \in [Clients -> Stages]
  /\ request \in [Clients -> RequestType]
  /\ missing \in [Clients -> SUBSET Int]
  /\ inserting \in [Clients -> SUBSET Documents]

\* The condition of EachEstimateOnce.
Orderly == disturbed \cap {"overlap", "name"} = {}

Once == \A i, j \in 1..Len(docs) : docs[i] = docs[j] => i = j

\* Requests do not overlap.
OneAtATime ==
  \A c, d \in Clients : stage[c] \notin Finished /\ stage[d] \notin Finished => c = d

\* What the client's request will insert is not in the collection.
NothingTwice(c) ==
  /\ stage[c] \notin Finished /\ request[c].seed # 0 => request[c].capitals
  /\ stage[c] = "fetch" /\ ~request[c].ignoreCache =>
       \A d \in Elements(docs) : d[1] \notin missing[c] \/ d[2] \notin Sources(c)
  /\ stage[c] = "insert" => inserting[c] \cap Elements(docs) = {}

Kept == Orderly => Once /\ OneAtATime /\ \A c \in Clients : NothingTwice(c)

CacheInv == Typed /\ Kept

\* At first, the collection is empty.
LEMMA InitCache == Init => CacheInv
  <1> SUFFICES ASSUME Init PROVE CacheInv
    OBVIOUS
  <1>1. (CHOOSE r \in Requests : TRUE) \in RequestType
    <2>1. \E r : r \in Requests
      BY PagedAssumption
    <2> QED
      BY <2>1, PagedAssumption
  <1>2. /\ docs = <<>> /\ stage = [c \in Clients |-> "idle"]
        /\ request = [c \in Clients |-> CHOOSE r \in Requests : TRUE]
    BY DEF Init
  <1>3. Typed
    <2>1. usage \subseteq Documents /\ docs \in Seq(Documents)
      BY <1>2 DEF Init
    <2>2. request \in [Clients -> RequestType]
      BY <1>1, <1>2
    <2>3. stage \in [Clients -> Stages]
      BY <1>2 DEF Stages, Finished
    <2>4. /\ missing \in [Clients -> SUBSET Int]
          /\ inserting \in [Clients -> SUBSET Documents]
      BY DEF Init
    <2> QED
      BY <2>1, <2>2, <2>3, <2>4 DEF Typed
  <1>4. Once /\ OneAtATime /\ \A c \in Clients : NothingTwice(c)
    BY <1>2 DEF Once, OneAtATime, NothingTwice, Finished
  <1> QED
    BY <1>3, <1>4 DEF CacheInv, Kept

\* The documents after one more has been inserted.
LEMMA OneMore ==
  ASSUME docs \in Seq(Documents), NEW d \in Documents, docs' = Append(docs, d)
  PROVE /\ docs' \in Seq(Documents)
        /\ Elements(docs)' = Elements(docs) \cup {d}
        /\ Once /\ d \notin Elements(docs) => Once'
  <1>1. /\ docs' \in Seq(Documents) /\ Len(docs) \in Nat
        /\ DOMAIN docs = 1..Len(docs) /\ DOMAIN docs' = 1..Len(docs)'
        /\ Len(docs)' = Len(docs) + 1
        /\ docs'[Len(docs) + 1] = d
        /\ \A i \in 1..Len(docs) : docs'[i] = docs[i]
    OBVIOUS
  <1>2. 1..Len(docs)' = (1..Len(docs)) \cup {Len(docs) + 1}
    BY <1>1
  <1>3. Elements(docs)' = Elements(docs) \cup {d}
    BY <1>1, <1>2 DEF Elements
  <1>4. ASSUME Once, d \notin Elements(docs) PROVE Once'
    <2>1. \A i \in 1..Len(docs) : docs[i] # d
      BY <1>1, <1>4 DEF Elements
    <2> QED
      BY <1>1, <1>2, <1>4, <2>1 DEF Once
  <1> QED
    BY <1>1, <1>3, <1>4

\* A step of one client that leaves the collection alone and comes to a stage in
\* which nothing is about to be inserted.
LEMMA QuietStep ==
  ASSUME CacheInv, Typed', NEW c \in Clients, NEW s, stage' = [stage EXCEPT ![c] = s],
         UNCHANGED <<docs, request>>, disturbed \subseteq disturbed',
         \A d \in Clients \ {c} : missing'[d] = missing[d] /\ inserting'[d] = inserting[d],
         stage[c] \notin Finished, s \notin {"fetch", "insert"}
  PROVE CacheInv'
  <1> SUFFICES ASSUME Orderly' PROVE (Once /\ OneAtATime /\ \A d \in Clients : NothingTwice(d))'
    BY DEF CacheInv, Kept
  <1>1. Once /\ OneAtATime /\ \A d \in Clients : NothingTwice(d)
    BY DEF CacheInv, Kept, Orderly
  <1>2. stage'[c] = s /\ \A d \in Clients \ {c} : stage'[d] = stage[d]
    BY DEF CacheInv, Typed
  <1>3. Once' /\ OneAtATime'
    BY <1>1, <1>2 DEF Once, OneAtATime
  <1>4. ASSUME NEW d \in Clients PROVE NothingTwice(d)'
    <2>1. CASE d = c
      BY <1>1, <1>2, <2>1 DEF NothingTwice
    <2>2. CASE d # c
      BY <1>1, <1>2, <2>2 DEF NothingTwice, Sources
    <2> QED
      BY <2>1, <2>2
  <1> QED
    BY <1>3, <1>4

\* Steps of the server that insert nothing and do not look for missing dates.
LEMMA QuietSteps ==
  ASSUME CacheInv, NEW c \in Clients,
         \/ EmptyAggregate(c) \/ MissingDatesFail(c) \/ FetchIgnoringCache(c)
         \/ FetchFails(c) \/ InsertFails(c) \/ ReadPage(c) \/ ReadNoCollection(c)
         \/ ReadFails(c) \/ NextPage(c) \/ LastPage(c) \/ Seeded(c)
  PROVE CacheInv'
  <1> USE DEF Goto, Fault, Send, NothingMissing, server, database, progress, events
  <1>1. Typed
    BY DEF CacheInv
  <1>2. PICK s \in {"read", "answered", "failed", "missing", "shown"} :
          stage' = [stage EXCEPT ![c] = s]
    BY DEF EmptyAggregate, MissingDatesFail, FetchIgnoringCache, FetchFails, InsertFails,
           ReadPage, ReadNoCollection, ReadFails, NextPage, LastPage, Seeded
  <1>3. stage[c] \notin Finished /\ UNCHANGED <<usage, docs>>
    BY DEF EmptyAggregate, MissingDatesFail, FetchIgnoringCache, FetchFails, InsertFails,
           ReadPage, ReadNoCollection, ReadFails, NextPage, LastPage, Seeded, Finished
  <1>4. /\ missing' = missing \/ missing' = [missing EXCEPT ![c] = {}]
        /\ inserting' = inserting \/ inserting' = [inserting EXCEPT ![c] = {}]
        /\ request' = request \/ request' = [request EXCEPT ![c] = request[c]]
    BY DEF EmptyAggregate, MissingDatesFail, FetchIgnoringCache, FetchFails, InsertFails,
           ReadPage, ReadNoCollection, ReadFails, NextPage, LastPage, Seeded
  <1>5. disturbed \subseteq disturbed'
    BY DEF EmptyAggregate, MissingDatesFail, FetchIgnoringCache, FetchFails, InsertFails,
           ReadPage, ReadNoCollection, ReadFails, NextPage, LastPage, Seeded
  <1>6. request' = request
    BY <1>1, <1>4 DEF Typed
  <1>7. Typed'
    BY <1>1, <1>2, <1>3, <1>4, <1>6 DEF Typed, Stages, Active, Finished
  <1>8. \A d \in Clients \ {c} : missing'[d] = missing[d] /\ inserting'[d] = inserting[d]
    BY <1>1, <1>4 DEF Typed
  <1> QED
    BY <1>2, <1>3, <1>5, <1>6, <1>7, <1>8, QuietStep

\* A request that begins.
LEMMA OpenStep ==
  ASSUME CacheInv, NEW c \in Clients, NEW r \in Requests, Open(c, r)
  PROVE CacheInv'
  <1>1. Typed /\ r \in RequestType
    BY PagedAssumption DEF CacheInv
  <1>2. /\ stage[c] \in Finished
        /\ stage' = [stage EXCEPT ![c] = "missing"]
        /\ request' = [request EXCEPT ![c] = r]
        /\ UNCHANGED <<usage, docs, missing, inserting>>
        /\ disturbed \subseteq disturbed'
        /\ (\E d \in Clients \ {c} : stage[d] \notin Finished) => "overlap" \in disturbed'
        /\ r.seed # 0 /\ ~r.capitals => "name" \in disturbed'
    BY DEF Open, Send, Goto, database
  <1>3. Typed'
    BY <1>1, <1>2 DEF Typed, Stages, Active
  <1>4. /\ stage'[c] = "missing" /\ request'[c] = r
        /\ \A d \in Clients \ {c} : stage'[d] = stage[d] /\ request'[d] = request[d]
    BY <1>1, <1>2 DEF Typed
  <1> SUFFICES ASSUME Orderly' PROVE (Once /\ OneAtATime /\ \A d \in Clients : NothingTwice(d))'
    BY <1>3 DEF CacheInv, Kept
  <1>5. Once /\ \A d \in Clients : NothingTwice(d)
    BY <1>2 DEF CacheInv, Kept, Orderly
  <1>6. \A d \in Clients \ {c} : stage[d] \in Finished
    BY <1>2 DEF Orderly
  <1>7. Once' /\ OneAtATime'
    BY <1>2, <1>4, <1>5, <1>6 DEF Once, OneAtATime
  <1>8. ASSUME NEW d \in Clients PROVE NothingTwice(d)'
    <2>1. CASE d = c
      <3>1. r.seed # 0 => r.capitals
        BY <1>2 DEF Orderly
      <3> QED
        BY <1>4, <2>1, <3>1 DEF NothingTwice
    <2>2. CASE d # c
      BY <1>2, <1>4, <1>5, <2>2 DEF NothingTwice, Sources
    <2> QED
      BY <2>1, <2>2
  <1> QED
    BY <1>7, <1>8

\* A request that looks for missing dates finds all documents it would insert,
\* unless a name in small letters is compared with theirs.
LEMMA MissingStep ==
  ASSUME CacheInv, NEW c \in Clients, GetMissingDates(c)
  PROVE CacheInv'
  <1>1. Typed
    BY DEF CacheInv
  <1>2. /\ stage[c] = "missing"
        /\ missing' = [missing EXCEPT ![c] = Gaps(c)]
        /\ stage' = [stage EXCEPT ![c] = IF Gaps(c) = {} THEN "read" ELSE "fetch"]
        /\ UNCHANGED <<usage, docs, request, inserting, disturbed>>
    BY DEF GetMissingDates, Goto, database, events
  <1>3. Gaps(c) \subseteq Int
    <2>1. Wanted(c) \subseteq Int
      BY <1>1 DEF Wanted
    <2> QED
      BY <2>1 DEF Gaps
  <1>4. Typed'
    BY <1>1, <1>2, <1>3 DEF Typed, Stages, Active
  <1>5. /\ stage'[c] \in {"read", "fetch"} /\ missing'[c] = Gaps(c)
        /\ \A d \in Clients \ {c} : stage'[d] = stage[d] /\ missing'[d] = missing[d]
    BY <1>1, <1>2 DEF Typed
  <1> SUFFICES ASSUME Orderly' PROVE (Once /\ OneAtATime /\ \A d \in Clients : NothingTwice(d))'
    BY <1>4 DEF CacheInv, Kept
  <1>6. Once /\ OneAtATime /\ \A d \in Clients : NothingTwice(d)
    BY <1>2 DEF CacheInv, Kept, Orderly
  <1>7. Once' /\ OneAtATime'
    BY <1>2, <1>5, <1>6 DEF Once, OneAtATime, Finished
  <1>8. ASSUME NEW d \in Clients PROVE NothingTwice(d)'
    <2>1. CASE d = c
      <3>1. request[c].seed # 0 => request[c].capitals
        BY <1>2, <1>6 DEF NothingTwice, Finished
      <3>2. ASSUME ~request[c].ignoreCache, NEW e \in Elements(docs),
                   e[1] \in Gaps(c), e[2] \in Sources(c)
            PROVE FALSE
        <4>1. e[1] \notin Cached(c)
          BY <3>2 DEF Gaps
        <4>2. request[c].seed # 0 /\ e[2] # request[c].seed
          BY <3>1, <3>2, <4>1 DEF Cached
        <4> QED
          BY <3>2, <4>2 DEF Sources
      <3>3. Sources(c)' = Sources(c) /\ Elements(docs)' = Elements(docs)
        BY <1>2 DEF Sources, Elements
      <3> QED
        BY <1>2, <1>5, <2>1, <3>1, <3>2, <3>3 DEF NothingTwice
    <2>2. CASE d # c
      BY <1>2, <1>5, <1>6, <2>2 DEF NothingTwice, Sources
    <2> QED
      BY <2>1, <2>2
  <1> QED
    BY <1>7, <1>8

\* What will be inserted is what was missing.
LEMMA FetchStep ==
  ASSUME CacheInv, NEW c \in Clients, Fetch(c)
  PROVE CacheInv'
  <1>1. Typed
    BY DEF CacheInv
  <1>2. /\ stage[c] = "fetch" /\ ~request[c].ignoreCache
        /\ inserting' = [inserting EXCEPT ![c] = Estimates(c)]
        /\ stage' = [stage EXCEPT ![c] = IF Estimates(c) = {} THEN "read" ELSE "insert"]
        /\ UNCHANGED <<usage, docs, request, missing, disturbed>>
    BY DEF Fetch, Goto, database, events
  <1>3. Estimates(c) \subseteq Documents
    BY <1>1 DEF Typed, Estimates
  <1>4. Typed'
    BY <1>1, <1>2, <1>3 DEF Typed, Stages, Active
  <1>5. /\ stage'[c] \in {"read", "insert"} /\ inserting'[c] = Estimates(c)
        /\ \A d \in Clients \ {c} : stage'[d] = stage[d] /\ inserting'[d] = inserting[d]
    BY <1>1, <1>2 DEF Typed
  <1> SUFFICES ASSUME Orderly' PROVE (Once /\ OneAtATime /\ \A d \in Clients : NothingTwice(d))'
    BY <1>4 DEF CacheInv, Kept
  <1>6. Once /\ OneAtATime /\ \A d \in Clients : NothingTwice(d)
    BY <1>2 DEF CacheInv, Kept, Orderly
  <1>7. Once' /\ OneAtATime'
    BY <1>2, <1>5, <1>6 DEF Once, OneAtATime, Finished
  <1>8. ASSUME NEW d \in Clients PROVE NothingTwice(d)'
    <2>1. CASE d = c
      <3>1. Estimates(c) \cap Elements(docs) = {}
        BY <1>2, <1>6 DEF NothingTwice, Estimates
      <3> QED
        BY <1>2, <1>5, <1>6, <2>1, <3>1 DEF NothingTwice, Elements, Finished
    <2>2. CASE d # c
      BY <1>2, <1>5, <1>6, <2>2 DEF NothingTwice, Sources
    <2> QED
      BY <2>1, <2>2
  <1> QED
    BY <1>7, <1>8

\* A document is inserted.
LEMMA InsertStep ==
  ASSUME CacheInv, NEW c \in Clients, InsertDocument(c)
  PROVE CacheInv'
  <1>1. Typed
    BY DEF CacheInv
  <1>2. PICK e \in inserting[c] :
          /\ stage[c] = "insert" /\ docs' = Append(docs, e)
          /\ inserting' = [inserting EXCEPT ![c] = inserting[c] \ {e}]
          /\ stage' = [stage EXCEPT ![c] = IF inserting[c] = {e} THEN "read" ELSE "insert"]
          /\ UNCHANGED <<usage, request, missing, disturbed>>
    BY DEF InsertDocument, Goto, events
  <1>3. e \in Documents /\ docs \in Seq(Documents)
    BY <1>1, <1>2 DEF Typed
  <1>4. /\ docs' \in Seq(Documents)
        /\ Elements(docs)' = Elements(docs) \cup {e}
        /\ Once /\ e \notin Elements(docs) => Once'
    BY <1>2, <1>3, OneMore
  <1>5. Typed'
    BY <1>1, <1>2, <1>4 DEF Typed, Stages, Active
  <1>6. /\ stage'[c] \in {"read", "insert"} /\ inserting'[c] = inserting[c] \ {e}
        /\ \A d \in Clients \ {c} : stage'[d] = stage[d]
    BY <1>1, <1>2 DEF Typed
  <1> SUFFICES ASSUME Orderly' PROVE (Once /\ OneAtATime /\ \A d \in Clients : NothingTwice(d))'
    BY <1>5 DEF CacheInv, Kept
  <1>7. Once /\ OneAtATime /\ \A d \in Clients : NothingTwice(d)
    BY <1>2 DEF CacheInv, Kept, Orderly
  <1>8. Once'
    BY <1>2, <1>4, <1>7 DEF NothingTwice
  <1>9. OneAtATime'
    BY <1>2, <1>6, <1>7 DEF OneAtATime, Finished
  <1>10. ASSUME NEW d \in Clients PROVE NothingTwice(d)'
    <2>1. CASE d = c
      BY <1>2, <1>4, <1>6, <1>7, <2>1 DEF NothingTwice, Finished
    <2>2. CASE d # c
      <3>1. stage'[d] \in Finished
        BY <1>2, <1>6, <1>7, <2>2 DEF OneAtATime, Finished
      <3> QED
        BY <3>1 DEF NothingTwice, Finished
    <2> QED
      BY <2>1, <2>2
  <1> QED
    BY <1>8, <1>9, <1>10

\* All requests of a process end.
LEMMA EndStep ==
  ASSUME CacheInv, NEW seeding, RequestsEnd(seeding),
         UNCHANGED <<usage, docs, request, missing>>, disturbed \subseteq disturbed'
  PROVE CacheInv'
  <1>1. Typed
    BY DEF CacheInv
  <1>2. /\ \A c \in Clients : \/ stage'[c] = stage[c] /\ inserting'[c] = inserting[c]
                              \/ stage'[c] = "failed" /\ inserting'[c] = {}
        /\ Typed'
    BY <1>1 DEF RequestsEnd, Typed, Stages, Finished
  <1> SUFFICES ASSUME Orderly' PROVE (Once /\ OneAtATime /\ \A d \in Clients : NothingTwice(d))'
    BY <1>2 DEF CacheInv, Kept
  <1>3. Once /\ OneAtATime /\ \A d \in Clients : NothingTwice(d)
    BY DEF CacheInv, Kept, Orderly
  <1>4. Once' /\ OneAtATime'
    BY <1>2, <1>3 DEF Once, OneAtATime, Finished
  <1>5. ASSUME NEW d \in Clients PROVE NothingTwice(d)'
    BY <1>2, <1>3 DEF NothingTwice, Sources, Finished
  <1> QED
    BY <1>4, <1>5

\* The invariant of the collection is inductive.
LEMMA NextCache == CacheInv /\ [Next]_vars => CacheInv'
  <1> SUFFICES ASSUME CacheInv, [Next]_vars PROVE CacheInv'
    OBVIOUS
  <1>1. CASE UNCHANGED <<usage, docs, stage, request, missing, inserting, disturbed>>
    <2>1. Typed' /\ (Once <=> Once') /\ (OneAtATime <=> OneAtATime') /\ (Orderly <=> Orderly')
      BY <1>1 DEF CacheInv, Typed, Orderly, Once, OneAtATime
    <2>2. \A c \in Clients : NothingTwice(c) <=> NothingTwice(c)'
      BY <1>1 DEF NothingTwice, Sources, Elements
    <2> QED
      BY <2>1, <2>2 DEF CacheInv, Kept
  <1>2. CASE UNCHANGED vars
    BY <1>1, <1>2 DEF vars, server, database, progress, events
  <1>3. ASSUME NEW c \in Clients, NEW r \in Requests, Open(c, r) PROVE CacheInv'
    BY <1>3, OpenStep
  <1>4. ASSUME NEW c \in Clients, ServerStep(c) PROVE CacheInv'
    BY <1>4, MissingStep, FetchStep, InsertStep, QuietSteps DEF ServerStep, Serve
  <1>5. ASSUME NEW c \in Clients, NextPage(c) \/ LastPage(c) \/ Seeded(c) PROVE CacheInv'
    BY <1>5, QuietSteps
  <1>6. CASE Disturb
    <2>1. ASSUME NEW c \in Clients,
                 \/ EmptyAggregate(c) \/ MissingDatesFail(c) \/ FetchFails(c)
                 \/ InsertFails(c) \/ ReadFails(c)
          PROVE CacheInv'
      BY <2>1, QuietSteps
    <2>2. CASE CreateCollection
      BY <1>1, <2>2 DEF CreateCollection, progress, events
    <2>3. CASE CreateExistingCollection
      <3>1. CASE UNCHANGED <<stage, inserting, disturbed>>
        BY <1>1, <2>3, <3>1 DEF CreateExistingCollection
      <3>2. CASE \E seeding \in BOOLEAN : RequestsEnd(seeding)
        BY <2>3, <3>2, EndStep DEF CreateExistingCollection
      <3> QED
        BY <2>3, <3>1, <3>2 DEF CreateExistingCollection
    <2>4. CASE ProcessDies
      BY <2>4, EndStep DEF ProcessDies, Fault, database
    <2> QED
      BY <1>6, <2>1, <2>2, <2>3, <2>4 DEF Disturb
  <1> QED
    BY <1>2, <1>3, <1>4, <1>5, <1>6 DEF Next, ServerDisturbed

\* It implies that documents are not repeated.
LEMMA OnceFromInv == CacheInv => EachEstimateOnce
  <1> SUFFICES ASSUME CacheInv, Orderly, NEW d \in Documents PROVE Count(docs, d) <= 1
    BY DEF EachEstimateOnce, Orderly
  <1> DEFINE places == {i \in DOMAIN docs : docs[i] = d}
  <1>1. Once /\ DOMAIN docs = 1..Len(docs)
    BY DEF CacheInv, Kept, Typed
  <1>2. Count(docs, d) = Cardinality(places)
    BY DEF Count
  <1>3. places = {} \/ \E i : places = {i}
    <2>1. ASSUME NEW i \in places PROVE places = {i}
      <3>1. \A j \in places : j \in 1..Len(docs) /\ docs[j] = d
        BY <1>1
      <3> QED
        BY <1>1, <2>1, <3>1 DEF Once
    <2> QED
      BY <2>1
  <1> HIDE DEF places
  <1>4. Cardinality(places) \in {0, 1}
    BY <1>3, FS_EmptySet, FS_Singleton
  <1> QED
    BY <1>2, <1>4

\* For any number of clients, periods, providers and failures: requests that
\* neither overlap nor seed a provider by a name in small letters leave every
\* estimate in the collection once.
THEOREM NoEstimateTwice == Spec => []EachEstimateOnce
  BY InitCache, NextCache, OnceFromInv, PTL DEF Spec

(***************************************************************************)
(* A view that nothing disturbs: for every period, all documents are there,*)
(* or none, or the request in progress inserts them; and the view was sent *)
(* the first documents of its range.                                       *)
(***************************************************************************)
\* All that the providers report for a period is in the collection, or nothing is.
Whole(p) == \A d \in usage : d[1] = p => d \in Elements(docs)
Nothing(p) == \A d \in Elements(docs) : d[1] # p
BeingInserted(p) == \E c \in Clients : stage[c] = "insert" /\ p \in missing[c]
AllOrNothing == \A p \in Periods : Whole(p) \/ Nothing(p) \/ BeingInserted(p)

Complete(c) == \A p \in Wanted(c) : Whole(p)

\* s is the first n items of t, or t if it is shorter.
FirstOf(s, t, n) == Len(s) = Least(n, Len(t)) /\ \A i \in 1..Len(s) : s[i] = t[i]

SentBefore(c, d) == \E n \in 1..Len(Matches(c)) : n <= skip[c] /\ Matches(c)[n] = d

\* A view or a request past the cache that has begun.
Begun(c) ==
  /\ request[c].seed = 0
  /\ stage[c] = "insert" =>
       /\ skip[c] = 0 /\ ~request[c].ignoreCache
       /\ \A d \in usage : d[1] \in missing[c] => d \in Elements(docs) \/ d \in inserting[c]
       /\ \A d \in inserting[c] : d[1] \in missing[c]

\* A view that has begun.
ViewBegun(c) ==
  /\ stage[c] = "fetch" => missing[c] \subseteq Wanted(c) /\ \A p \in missing[c] : Nothing(p)
  /\ stage[c] \in {"fetch", "insert"} => \A p \in Wanted(c) \ missing[c] : Whole(p)
  /\ stage[c] \in {"read", "answered"} \/ skip[c] > 0 => Complete(c)
  /\ FirstOf(read[c], Matches(c), LastSent(c))
  /\ page[c] = IF stage[c] = "answered" THEN Grouped(PageOf(c)) ELSE <<>>
  /\ \A k \in DOMAIN data[c] :
       /\ data[c][k].providers # <<>>
       /\ \A i \in DOMAIN data[c][k].providers :
            SentBefore(c, <<data[c][k].period, data[c][k].providers[i]>>)

ViewEnded(c) ==
  ~steady /\ request[c].seed = 0 /\ ~request[c].ignoreCache =>
    Elements(read[c]) = {d \in usage : d[1] \in Wanted(c)}

Sound ==
  /\ Elements(docs) \subseteq usage
  /\ \A c \in Clients : inserting[c] \subseteq usage
  /\ ~exists => docs = <<>>

Undisturbed ==
  /\ AllOrNothing
  /\ \A c \in Clients :
       /\ stage[c] \notin Finished => Begun(c)
       /\ stage[c] \notin Finished /\ ~request[c].ignoreCache => ViewBegun(c)
       /\ stage[c] = "shown" => ViewEnded(c)

ViewInv == Sound /\ (disturbed = {} => Undisturbed)

\* At first, nothing has been reported for any period.
LEMMA InitView == Init => ViewInv
  <1> SUFFICES ASSUME Init PROVE ViewInv
    OBVIOUS
  <1>1. docs = <<>> /\ disturbed = {} /\ \A c \in Clients : stage[c] = "idle" /\ inserting[c] = {}
    BY DEF Init
  <1>2. Elements(docs) = {}
    BY <1>1 DEF Elements
  <1> QED
    BY <1>1, <1>2 DEF ViewInv, Sound, Undisturbed, AllOrNothing, Nothing, Finished

\* Only what the providers report is ever in the collection.
LEMMA SoundStep == TypeOK /\ Sound /\ [Next]_vars => Sound'
  <1> SUFFICES ASSUME TypeOK, Sound, [Next]_vars PROVE Sound'
    OBVIOUS
  <1> USE DEF Goto, Send, Fault, NothingMissing
  <1>1. ASSUME NEW c \in Clients, InsertDocument(c) PROVE Sound'
    <2>1. PICK x \in inserting[c] :
            /\ docs' = Append(docs, x) /\ inserting' = [inserting EXCEPT ![c] = @ \ {x}]
            /\ exists' = TRUE /\ usage' = usage
      BY <1>1 DEF InsertDocument
    <2>2. x \in Documents /\ docs \in Seq(Documents)
      BY <2>1 DEF TypeOK
    <2>3. Elements(docs)' = Elements(docs) \cup {x}
      BY <2>1, <2>2, OneMore
    <2> QED
      BY <2>1, <2>3 DEF Sound, TypeOK
  <1>2. ASSUME UNCHANGED <<usage, docs>>, exists => exists',
               \A c \in Clients : inserting'[c] \subseteq usage
        PROVE Sound'
    BY <1>2 DEF Sound, Elements
  <1>3. UNCHANGED <<usage, docs>> \/ \E c \in Clients : InsertDocument(c)
    BY DEF Next, vars, server, database, ServerStep, ServerDisturbed, Serve, Disturb, Open,
           GetMissingDates, Fetch, FetchIgnoringCache, ReadPage, ReadNoCollection, NextPage,
           LastPage, Seeded, EmptyAggregate, MissingDatesFail, FetchFails, InsertFails, ReadFails,
           CreateCollection, CreateExistingCollection, ProcessDies
  <1>4. (exists => exists') \/ \E c \in Clients : InsertDocument(c)
    BY DEF Next, vars, server, database, ServerStep, ServerDisturbed, Serve, Disturb, Open,
           GetMissingDates, Fetch, FetchIgnoringCache, ReadPage, ReadNoCollection, NextPage,
           LastPage, Seeded, EmptyAggregate, MissingDatesFail, FetchFails, InsertFails, ReadFails,
           CreateCollection, CreateExistingCollection, ProcessDies
  <1>5. \/ inserting' = inserting
        \/ \E c \in Clients : inserting' = [inserting EXCEPT ![c] = Estimates(c)]
        \/ \E c \in Clients : inserting' = [inserting EXCEPT ![c] = {}]
        \/ \E seeding \in BOOLEAN : RequestsEnd(seeding)
        \/ \E c \in Clients : InsertDocument(c)
    BY DEF Next, vars, server, database, progress, ServerStep, ServerDisturbed, Serve, Disturb, Open,
           GetMissingDates, Fetch, FetchIgnoringCache, ReadPage, ReadNoCollection, NextPage,
           LastPage, Seeded, EmptyAggregate, MissingDatesFail, FetchFails, InsertFails, ReadFails,
           CreateCollection, CreateExistingCollection, ProcessDies
  <1>6. (\A c \in Clients : inserting'[c] \subseteq usage) \/ \E c \in Clients : InsertDocument(c)
    BY <1>5 DEF RequestsEnd, Estimates, Sound, TypeOK
  <1> QED
    BY <1>1, <1>2, <1>3, <1>4, <1>6

\* The steps of which nothing that disturbs has been heard.
Idle == UNCHANGED <<usage, docs, stage, request, skip, missing, inserting, page, steady, data, read>>

OthersFinished(c) == \A d \in Clients \ {c} : stage[d] \in Finished

\* While nothing disturbs, one client goes on and the others have finished.
LEMMA UndisturbedSteps ==
  ASSUME CacheInv, [Next]_vars, disturbed' = {}
  PROVE /\ disturbed = {}
        /\ \/ Idle
           \/ \E c \in Clients :
                /\ OthersFinished(c)
                /\ \/ \E r \in Requests : r.seed = 0 /\ Open(c, r)
                   \/ stage[c] \notin Finished /\ (ServerStep(c) \/ NextPage(c) \/ LastPage(c) \/ Seeded(c))
  <1> USE DEF Fault, NothingMissing
  <1>1. disturbed = {}
    BY DEF Next, vars, server, database, progress, events, ServerStep, ServerDisturbed, Serve, Disturb, Open,
           GetMissingDates, Fetch, FetchIgnoringCache, InsertDocument, ReadPage, ReadNoCollection, NextPage,
           LastPage, Seeded, EmptyAggregate, MissingDatesFail, FetchFails, InsertFails, ReadFails,
           CreateCollection, CreateExistingCollection, ProcessDies
  <1>2. OneAtATime
    BY <1>1 DEF CacheInv, Kept, Orderly
  <1>3. \A c \in Clients : stage[c] \notin Finished => OthersFinished(c)
    BY <1>2 DEF OneAtATime, OthersFinished
  <1>4. CASE UNCHANGED vars
    BY <1>1, <1>4 DEF vars, server, database, progress, Idle
  <1>5. ASSUME NEW c \in Clients, NEW r \in Requests, Open(c, r)
        PROVE OthersFinished(c) /\ r.seed = 0
    BY <1>5 DEF Open, OthersFinished
  <1>6. ASSUME NEW c \in Clients, ServerStep(c) \/ NextPage(c) \/ LastPage(c) \/ Seeded(c)
        PROVE stage[c] \notin Finished
    BY <1>6 DEF ServerStep, Serve, GetMissingDates, Fetch, FetchIgnoringCache, InsertDocument,
                ReadPage, ReadNoCollection, NextPage, LastPage, Seeded, Finished
  <1>7. CASE ServerDisturbed
    <2>1. ASSUME NEW c \in Clients,
                 \/ EmptyAggregate(c) \/ MissingDatesFail(c) \/ FetchFails(c)
                 \/ InsertFails(c) \/ ReadFails(c)
          PROVE FALSE
      BY <2>1 DEF EmptyAggregate, MissingDatesFail, FetchFails, InsertFails, ReadFails
    <2>2. ASSUME ProcessDies PROVE FALSE
      <3>1. "fault" \in disturbed'
        BY <2>2 DEF ProcessDies
      <3> QED
        BY <3>1
    <2>3. CASE CreateCollection
      BY <1>1, <1>7, <2>3 DEF ServerDisturbed, CreateCollection, Idle, progress
    <2>4. CASE CreateExistingCollection
      <3>1. UNCHANGED <<stage, inserting, disturbed>>
        BY <2>4 DEF CreateExistingCollection
      <3> QED
        BY <1>1, <1>7, <2>4, <3>1 DEF ServerDisturbed, CreateExistingCollection, Idle
    <2> QED
      BY <1>7, <2>1, <2>2, <2>3, <2>4 DEF ServerDisturbed, Disturb, Idle
  <1> QED
    BY <1>1, <1>3, <1>4, <1>5, <1>6, <1>7 DEF Next

\* What holds of the client that takes a step.
Client(c) ==
  /\ stage[c] \notin Finished => Begun(c)
  /\ stage[c] \notin Finished /\ ~request[c].ignoreCache => ViewBegun(c)
  /\ stage[c] = "shown" => ViewEnded(c)

\* The invariant is that of the client that goes on.
LEMMA OneClient ==
  ASSUME Undisturbed, NEW c \in Clients, OthersFinished(c), AllOrNothing', Client(c)',
         UNCHANGED <<usage, steady>>,
         \A d \in Clients \ {c} : UNCHANGED <<stage[d], request[d], read[d]>>
  PROVE Undisturbed'
  <1> SUFFICES ASSUME NEW d \in Clients PROVE Client(d)'
    BY DEF Undisturbed, Client
  <1>1. CASE d = c
    BY <1>1
  <1>2. CASE d # c
    <2>1. stage[d] \in Finished /\ UNCHANGED <<stage[d], request[d], read[d]>>
      BY <1>2 DEF OthersFinished
    <2>2. ViewEnded(d) => ViewEnded(d)'
      BY <2>1 DEF ViewEnded, Wanted, Elements
    <2> QED
      BY <2>1, <2>2 DEF Undisturbed, Client
  <1> QED
    BY <1>1, <1>2

\* A client that is about to insert nothing, before and after.
LEMMA SameCollection ==
  ASSUME AllOrNothing, NEW c \in Clients, OthersFinished(c), stage[c] # "insert",
         UNCHANGED <<usage, docs>>
  PROVE AllOrNothing' /\ \A p \in Periods : Whole(p) \/ Nothing(p)
  <1>1. \A p \in Periods : ~BeingInserted(p)
    BY DEF BeingInserted, OthersFinished, Finished
  <1>2. \A p \in Periods : Whole(p) \/ Nothing(p)
    BY <1>1 DEF AllOrNothing
  <1>3. \A p \in Periods : Whole(p)' \/ Nothing(p)'
    BY <1>2 DEF Whole, Nothing, Elements
  <1> QED
    BY <1>2, <1>3 DEF AllOrNothing

\* Nothing of what a view was sent changes while the collection does not.
LEMMA SameView ==
  ASSUME NEW c \in Clients, UNCHANGED <<usage, docs, request, skip, data, read>>
  PROVE /\ Matches(c)' = Matches(c) /\ Wanted(c)' = Wanted(c) /\ PageOf(c)' = PageOf(c)
        /\ \A p : Whole(p)' = Whole(p)
        /\ \A p : Nothing(p)' = Nothing(p)
        /\ Complete(c)' = Complete(c)
        /\ \A d : SentBefore(c, d)' = SentBefore(c, d)
  <1>1. Matches(c)' = Matches(c) /\ Wanted(c)' = Wanted(c)
    BY DEF Matches, InRange, Wanted
  <1>2. Elements(docs)' = Elements(docs)
    BY DEF Elements
  <1>3. \A p : Whole(p)' = Whole(p) /\ Nothing(p)' = Nothing(p)
    BY <1>2 DEF Whole, Nothing
  <1>4. Complete(c)' = Complete(c)
    BY <1>1, <1>3 DEF Complete
  <1>5. PageOf(c)' = PageOf(c)
    BY <1>1 DEF PageOf
  <1>6. \A d : SentBefore(c, d)' = SentBefore(c, d)
    BY <1>1 DEF SentBefore
  <1> QED
    BY <1>1, <1>3, <1>4, <1>5, <1>6

\* The smaller of two numbers.
LEMMA LeastOf ==
  ASSUME NEW a \in Nat, NEW b \in Nat
  PROVE Least(a, b) \in Nat /\ Least(a, b) <= a /\ Least(a, b) <= b
        /\ (Least(a, b) = a \/ Least(a, b) = b) /\ Least(0, b) = 0
  BY DEF Least

\* A view begins.
LEMMA ViewOpens ==
  ASSUME TypeOK, TypeOK', CacheInv, Sound, Undisturbed, NEW c \in Clients, OthersFinished(c),
         NEW r \in Requests, r.seed = 0, Open(c, r)
  PROVE Undisturbed'
  <1>1. /\ stage[c] \in Finished /\ stage' = [stage EXCEPT ![c] = "missing"]
        /\ request' = [request EXCEPT ![c] = r] /\ skip' = [skip EXCEPT ![c] = 0]
        /\ page' = [page EXCEPT ![c] = <<>>] /\ data' = [data EXCEPT ![c] = <<>>]
        /\ read' = [read EXCEPT ![c] = <<>>]
        /\ UNCHANGED <<usage, docs, missing, inserting, steady>>
    BY DEF Open, Send, Goto, database
  <1>2. AllOrNothing'
    BY <1>1, SameCollection DEF Undisturbed, Finished
  <1>3. /\ stage'[c] = "missing" /\ request'[c] = r /\ skip'[c] = 0
        /\ page'[c] = <<>> /\ data'[c] = <<>> /\ read'[c] = <<>>
    BY <1>1 DEF TypeOK
  <1>4. Begun(c)'
    BY <1>3 DEF Begun
  <1>5. Matches(c)' \in Seq(Documents)
    <2>1. Matches(c)' = Select(docs', Wanted(c)' \X Providers) /\ docs' \in Seq(Documents)
      BY DEF TypeOK, Matches, InRange
    <2> QED
      BY <2>1, SelectType
  <1>6. FirstOf(read[c], Matches(c), LastSent(c))'
    <2>1. LastSent(c)' = 0 /\ read'[c] = <<>>
      BY <1>3 DEF LastSent
    <2> QED
      BY <1>5, <2>1, LeastOf DEF FirstOf
  <1>7. ViewBegun(c)'
    BY <1>3, <1>6 DEF ViewBegun
  <1>8. Client(c)'
    BY <1>3, <1>4, <1>7 DEF Client
  <1>9. \A d \in Clients \ {c} : UNCHANGED <<stage[d], request[d], read[d]>>
    BY <1>1 DEF TypeOK
  <1> QED
    BY <1>1, <1>2, <1>8, <1>9, OneClient

\* A step that changes neither the collection nor what the view was sent.
LEMMA QuietClient ==
  ASSUME TypeOK, TypeOK', Undisturbed, NEW c \in Clients, OthersFinished(c),
         stage[c] \notin Finished, stage[c] # "insert", UNCHANGED <<usage, docs, steady, request, read>>,
         \A d \in Clients \ {c} : UNCHANGED stage[d],
         Client(c)'
  PROVE Undisturbed'
  <1>1. AllOrNothing'
    BY SameCollection DEF Undisturbed
  <1> QED
    BY <1>1, OneClient

\* Nothing is sent unless a page is read.
LEMMA ServerRead ==
  ASSUME TypeOK, NEW c \in Clients, Sent(c), stage[c] # "read" \/ ~exists
  PROVE read' = read
  BY DEF Sent, TypeOK

\* The dates that are missing are those of which no document is there.
LEMMA ViewMisses ==
  ASSUME TypeOK, TypeOK', CacheInv, Sound, Undisturbed, NEW c \in Clients, OthersFinished(c),
         GetMissingDates(c), Sent(c), UNCHANGED <<steady, data, views>>
  PROVE Undisturbed'
  <1>1. /\ stage[c] = "missing" /\ missing'[c] = Gaps(c)
        /\ stage'[c] = IF Gaps(c) = {} THEN "read" ELSE "fetch"
        /\ \A d \in Clients \ {c} : UNCHANGED stage[d]
        /\ UNCHANGED <<usage, docs, request, skip, inserting, page>>
    BY DEF GetMissingDates, Goto, database, TypeOK
  <1>2. read' = read
    BY <1>1, ServerRead
  <1>3. stage[c] \notin Finished /\ stage[c] # "insert"
    BY <1>1 DEF Finished
  <1>4. request[c].seed = 0 /\ (~request[c].ignoreCache => ViewBegun(c))
    BY <1>3 DEF Undisturbed, Begun
  <1>5. \A p \in Periods : Whole(p) \/ Nothing(p)
    BY <1>1, <1>3, SameCollection DEF Undisturbed
  <1>6. Wanted(c) \subseteq Periods /\ Gaps(c) \subseteq Wanted(c)
    BY WantedPeriods
  <1>7. /\ \A p \in Wanted(c) \ Gaps(c) : ~request[c].ignoreCache => Whole(p)
        /\ \A p \in Gaps(c) : ~request[c].ignoreCache => Nothing(p)
    BY <1>4, <1>5, <1>6 DEF Gaps, Cached, Nothing
  <1>8. Begun(c)'
    BY <1>1, <1>4 DEF Begun
  <1>9. ASSUME ~request[c].ignoreCache PROVE ViewBegun(c)'
    <2>1. /\ Matches(c)' = Matches(c) /\ Wanted(c)' = Wanted(c) /\ PageOf(c)' = PageOf(c)
          /\ \A p : Whole(p)' = Whole(p)
          /\ \A p : Nothing(p)' = Nothing(p)
          /\ Complete(c)' = Complete(c)
          /\ \A d : SentBefore(c, d)' = SentBefore(c, d)
      BY <1>1, <1>2, SameView
    <2>2. ViewBegun(c)
      BY <1>4, <1>9
    <2>3. LastSent(c)' = LastSent(c)
      BY <1>1 DEF LastSent
    <2>4. stage'[c] = "read" => Complete(c)
      BY <1>1, <1>7, <1>9 DEF Complete
    <2>5. FirstOf(read[c], Matches(c), LastSent(c))'
      BY <1>2, <2>1, <2>2, <2>3 DEF ViewBegun, FirstOf
    <2>6. stage'[c] = "fetch" => (missing[c] \subseteq Wanted(c) /\ \A p \in missing[c] : Nothing(p))'
      BY <1>1, <1>6, <1>7, <1>9, <2>1
    <2>7. (\A p \in Wanted(c) \ missing[c] : Whole(p))'
      BY <1>1, <1>7, <1>9, <2>1
    <2>8. (stage[c] \in {"read", "answered"} \/ skip[c] > 0 => Complete(c))'
      BY <1>1, <2>1, <2>2, <2>4 DEF ViewBegun
    <2>9. (page[c] = IF stage[c] = "answered" THEN Grouped(PageOf(c)) ELSE <<>>)'
      BY <1>1, <2>2 DEF ViewBegun
    <2>10. (\A k \in DOMAIN data[c] :
             /\ data[c][k].providers # <<>>
             /\ \A i \in DOMAIN data[c][k].providers :
                  SentBefore(c, <<data[c][k].period, data[c][k].providers[i]>>))'
      BY <2>1, <2>2 DEF ViewBegun
    <2> QED
      BY <2>5, <2>6, <2>7, <2>8, <2>9, <2>10 DEF ViewBegun
  <1>10. Client(c)'
    BY <1>1, <1>8, <1>9 DEF Client
  <1> QED
    BY <1>1, <1>2, <1>3, <1>10, QuietClient

\* All documents of the missing dates are fetched.
LEMMA ViewFetches ==
  ASSUME TypeOK, TypeOK', CacheInv, Sound, Undisturbed, NEW c \in Clients, OthersFinished(c),
         Fetch(c), Sent(c), UNCHANGED <<steady, data, views>>
  PROVE Undisturbed'
  <1>1. /\ stage[c] = "fetch" /\ ~request[c].ignoreCache /\ inserting'[c] = Estimates(c)
        /\ stage'[c] = IF Estimates(c) = {} THEN "read" ELSE "insert"
        /\ \A d \in Clients \ {c} : UNCHANGED stage[d]
        /\ UNCHANGED <<usage, docs, request, skip, missing, page>>
    BY DEF Fetch, Goto, database, TypeOK
  <1>2. read' = read
    BY <1>1, ServerRead
  <1>3. stage[c] \notin Finished /\ stage[c] # "insert"
    BY <1>1 DEF Finished
  <1>4. request[c].seed = 0 /\ ViewBegun(c)
    BY <1>1, <1>3 DEF Undisturbed, Begun
  <1>5. Estimates(c) = {d \in usage : d[1] \in missing[c]}
    <2>1. usage \subseteq Periods \X Providers
      BY DEF TypeOK, Documents
    <2>2. Sources(c) = Providers
      BY <1>4 DEF Sources
    <2> QED
      BY <2>1, <2>2 DEF Estimates
  <1>6. missing[c] \subseteq Wanted(c) /\ \A p \in missing[c] : Nothing(p)
    BY <1>1, <1>4 DEF ViewBegun
  <1>7. Complete(c) => Estimates(c) = {}
    BY <1>5, <1>6 DEF Complete, Whole, Nothing
  <1>8. Estimates(c) = {} => Complete(c)
    <2> SUFFICES ASSUME Estimates(c) = {}, NEW p \in Wanted(c) PROVE Whole(p)
      BY DEF Complete
    <2>1. CASE p \in missing[c]
      BY <1>5, <2>1 DEF Whole
    <2>2. CASE p \notin missing[c]
      BY <1>1, <1>4, <2>2 DEF ViewBegun
    <2> QED
      BY <2>1, <2>2
  <1>9. skip[c] \in Nat
    BY DEF TypeOK
  <1>10. Estimates(c) # {} => skip[c] = 0
    BY <1>4, <1>7, <1>9 DEF ViewBegun
  <1>11. Begun(c)'
    BY <1>1, <1>4, <1>5, <1>10 DEF Begun
  <1>12. ViewBegun(c)'
    <2>1. /\ Matches(c)' = Matches(c) /\ Wanted(c)' = Wanted(c) /\ PageOf(c)' = PageOf(c)
          /\ \A p : Whole(p)' = Whole(p)
          /\ Complete(c)' = Complete(c)
          /\ \A d : SentBefore(c, d)' = SentBefore(c, d)
      BY <1>1, <1>2, SameView
    <2>2. LastSent(c)' = LastSent(c)
      BY <1>1 DEF LastSent
    <2>3. FirstOf(read[c], Matches(c), LastSent(c))'
      BY <1>2, <1>4, <2>1, <2>2 DEF ViewBegun, FirstOf
    <2>4. (\A p \in Wanted(c) \ missing[c] : Whole(p))'
      BY <1>1, <1>4, <2>1 DEF ViewBegun
    <2>5. (stage[c] \in {"read", "answered"} \/ skip[c] > 0 => Complete(c))'
      BY <1>1, <1>4, <1>8, <2>1 DEF ViewBegun
    <2>6. (page[c] = IF stage[c] = "answered" THEN Grouped(PageOf(c)) ELSE <<>>)'
      BY <1>1, <1>4 DEF ViewBegun
    <2>7. (\A k \in DOMAIN data[c] :
             /\ data[c][k].providers # <<>>
             /\ \A i \in DOMAIN data[c][k].providers :
                  SentBefore(c, <<data[c][k].period, data[c][k].providers[i]>>))'
      BY <1>4, <2>1 DEF ViewBegun
    <2> QED
      BY <1>1, <2>3, <2>4, <2>5, <2>6, <2>7 DEF ViewBegun
  <1>13. Client(c)'
    BY <1>1, <1>11, <1>12 DEF Client
  <1> QED
    BY <1>1, <1>2, <1>3, <1>13, QuietClient

\* A request past the cache shows nothing of the collection.
LEMMA ViewBypasses ==
  ASSUME TypeOK, TypeOK', CacheInv, Sound, Undisturbed, NEW c \in Clients, OthersFinished(c),
         FetchIgnoringCache(c), Sent(c), UNCHANGED <<steady, data, views>>
  PROVE Undisturbed'
  <1>1. /\ stage[c] = "fetch" /\ request[c].ignoreCache /\ stage'[c] = "answered"
        /\ \A d \in Clients \ {c} : UNCHANGED stage[d]
        /\ UNCHANGED <<usage, docs, request, skip, missing>>
    BY DEF FetchIgnoringCache, Goto, database, TypeOK
  <1>2. read' = read
    BY <1>1, ServerRead
  <1>3. stage[c] \notin Finished /\ stage[c] # "insert"
    BY <1>1 DEF Finished
  <1>4. Begun(c)
    BY <1>3 DEF Undisturbed
  <1>5. Client(c)'
    BY <1>1, <1>4 DEF Client, Begun
  <1> QED
    BY <1>1, <1>2, <1>3, <1>5, QuietClient

\* A document of the missing dates is inserted; when it is the last one, the range is
\* complete.
LEMMA ViewInserts ==
  ASSUME TypeOK, TypeOK', CacheInv, Sound, Undisturbed, NEW c \in Clients, OthersFinished(c),
         InsertDocument(c), Sent(c), UNCHANGED <<steady, data, views>>
  PROVE Undisturbed'
  <1>1. PICK x \in inserting[c] :
          /\ docs' = Append(docs, x) /\ inserting' = [inserting EXCEPT ![c] = @ \ {x}]
          /\ stage' = [stage EXCEPT ![c] = IF inserting[c] = {x} THEN "read" ELSE "insert"]
    BY DEF InsertDocument, Goto
  <1>2. /\ stage[c] = "insert" /\ inserting'[c] = inserting[c] \ {x}
        /\ stage'[c] = IF inserting[c] = {x} THEN "read" ELSE "insert"
        /\ \A d \in Clients \ {c} : UNCHANGED stage[d]
        /\ UNCHANGED <<usage, request, skip, missing, page, steady, data>>
    BY <1>1 DEF InsertDocument, TypeOK
  <1>3. read' = read
    BY <1>2, ServerRead
  <1>4. stage[c] \notin Finished
    BY <1>2 DEF Finished
  <1>5. x \in Documents /\ docs \in Seq(Documents)
    BY <1>1 DEF TypeOK
  <1>6. Elements(docs)' = Elements(docs) \cup {x}
    BY <1>1, <1>5, OneMore
  <1>7. /\ request[c].seed = 0 /\ skip[c] = 0 /\ ~request[c].ignoreCache
        /\ \A d \in usage : d[1] \in missing[c] => d \in Elements(docs) \/ d \in inserting[c]
        /\ \A d \in inserting[c] : d[1] \in missing[c]
    BY <1>2, <1>4 DEF Undisturbed, Begun
  <1>8. ViewBegun(c)
    BY <1>4, <1>7 DEF Undisturbed
  <1>9. x[1] \in missing[c]
    BY <1>1, <1>7
  <1>10. \A d \in usage : d[1] \in missing[c] => d \in Elements(docs)' \/ d \in inserting'[c]
    BY <1>2, <1>6, <1>7
  <1>11. \A p : p \notin missing[c] => Whole(p)' = Whole(p) /\ Nothing(p)' = Nothing(p)
    <2> SUFFICES ASSUME NEW p, p \notin missing[c] PROVE Whole(p)' = Whole(p) /\ Nothing(p)' = Nothing(p)
      OBVIOUS
    <2>1. x[1] # p
      BY <1>9
    <2> QED
      BY <1>2, <1>6, <2>1 DEF Whole, Nothing
  <1>12. stage'[c] = "read" => inserting'[c] = {}
    BY <1>2
  <1>13. ASSUME stage'[c] = "read", NEW p \in missing[c] PROVE Whole(p)'
    BY <1>2, <1>10, <1>12, <1>13 DEF Whole
  <1>14. Begun(c)'
    <2>1. \A d \in inserting'[c] : d[1] \in missing'[c]
      BY <1>2, <1>7
    <2> QED
      BY <1>2, <1>7, <1>10, <2>1 DEF Begun
  <1>15. AllOrNothing'
    <2> SUFFICES ASSUME NEW p \in Periods PROVE (Whole(p) \/ Nothing(p) \/ BeingInserted(p))'
      BY DEF AllOrNothing
    <2>1. CASE p \in missing[c]
      <3>1. CASE stage'[c] = "read"
        BY <1>13, <2>1, <3>1
      <3>2. CASE stage'[c] = "insert"
        BY <1>2, <2>1, <3>2 DEF BeingInserted
      <3> QED
        BY <1>2, <3>1, <3>2
    <2>2. CASE p \notin missing[c]
      <3>1. ~BeingInserted(p)
        BY <2>2 DEF BeingInserted, OthersFinished, Finished
      <3> QED
        BY <1>11, <2>2, <3>1 DEF Undisturbed, AllOrNothing
    <2> QED
      BY <2>1, <2>2
  <1>16. ViewBegun(c)'
    <2>1. Wanted(c)' = Wanted(c)
      BY <1>2 DEF Wanted
    <2>2. (\A p \in Wanted(c) \ missing[c] : Whole(p))'
      BY <1>2, <1>8, <1>11, <2>1 DEF ViewBegun
    <2>3. (stage[c] \in {"read", "answered"} \/ skip[c] > 0 => Complete(c))'
      BY <1>2, <1>7, <1>13, <2>1, <2>2 DEF Complete
    <2>4. read[c] = <<>>
      <3>1. FirstOf(read[c], Matches(c), 0)
        BY <1>2, <1>7, <1>8 DEF ViewBegun, LastSent
      <3>2. Len(Matches(c)) \in Nat /\ read[c] \in Seq(Documents)
        BY PageOfType DEF TypeOK
      <3>3. Len(read[c]) = 0
        BY <3>1, <3>2, LeastOf DEF FirstOf
      <3> QED
        BY <3>2, <3>3
    <2>5. FirstOf(read[c], Matches(c), LastSent(c))'
      <3>1. Matches(c)' = Select(docs', Wanted(c)' \X Providers) /\ docs' \in Seq(Documents)
        BY DEF TypeOK, Matches, InRange
      <3>2. Matches(c)' \in Seq(Documents)
        BY <3>1, SelectType
      <3>3. LastSent(c)' = 0 /\ read'[c] = <<>>
        BY <1>2, <1>3, <1>7, <2>4 DEF LastSent
      <3> QED
        BY <3>2, <3>3, LeastOf DEF FirstOf
    <2>6. (page[c] = IF stage[c] = "answered" THEN Grouped(PageOf(c)) ELSE <<>>)'
      BY <1>2, <1>8 DEF ViewBegun
    <2>7. \A k \in DOMAIN data[c] : FALSE
      <3> SUFFICES ASSUME NEW k \in DOMAIN data[c] PROVE FALSE
        OBVIOUS
      <3>0. data[c] \in Seq(Results)
        BY DEF TypeOK
      <3>1. data[c][k].providers # <<>> /\ data[c][k].providers \in Seq(Providers)
        <4>1. data[c][k] \in Results
          BY <3>0
        <4> QED
          BY <1>8, <4>1 DEF ViewBegun, Results
      <3>2. 1 \in DOMAIN data[c][k].providers
        BY <3>1
      <3>3. \E n \in 1..Len(Matches(c)) : n <= 0
        BY <1>7, <1>8, <3>2 DEF ViewBegun, SentBefore
      <3> QED
        BY <3>3, PageOfType
    <2> QED
      BY <1>2, <2>2, <2>3, <2>5, <2>6, <2>7 DEF ViewBegun
  <1>17. Client(c)'
    BY <1>2, <1>14, <1>16 DEF Client
  <1>18. \A d \in Clients \ {c} : UNCHANGED <<stage[d], request[d], read[d]>>
    BY <1>2, <1>3
  <1> QED
    BY <1>2, <1>15, <1>17, <1>18, OneClient

\* The next page is sent.
LEMMA ViewReads ==
  ASSUME TypeOK, TypeOK', CacheInv, Sound, Undisturbed, NEW c \in Clients, OthersFinished(c),
         ReadPage(c), Sent(c), UNCHANGED <<steady, data, views>>
  PROVE Undisturbed'
  <1>1. /\ stage[c] = "read" /\ stage'[c] = "answered" /\ page'[c] = Grouped(PageOf(c)) /\ exists
        /\ \A d \in Clients \ {c} : UNCHANGED <<stage[d], request[d], read[d]>>
        /\ UNCHANGED <<usage, docs, request, skip, missing, steady, data>>
    BY DEF ReadPage, Goto, Sent, database, TypeOK
  <1>2. stage[c] \notin Finished
    BY <1>1 DEF Finished
  <1>3. request[c].seed = 0 /\ (~request[c].ignoreCache => ViewBegun(c))
    BY <1>2 DEF Undisturbed, Begun
  <1>4. read'[c] = read[c] \o PageOf(c)
    BY <1>1, <1>3 DEF Sent, TypeOK
  <1>5. AllOrNothing'
    BY <1>1, SameCollection DEF Undisturbed
  <1>6. Begun(c)'
    BY <1>1, <1>3 DEF Begun
  <1>7. ASSUME ~request[c].ignoreCache PROVE ViewBegun(c)'
    <2>1. Wanted(c)' = Wanted(c) /\ Matches(c)' = Matches(c)
      BY <1>1 DEF Matches, InRange, Wanted
    <2>2. Elements(docs)' = Elements(docs)
      BY <1>1 DEF Elements
    <2>3. Complete(c)' = Complete(c)
      BY <1>1, <2>1, <2>2 DEF Complete, Whole
    <2>4. PageOf(c)' = PageOf(c)
      BY <1>1, <2>1 DEF PageOf
    <2>5. \A d : SentBefore(c, d)' = SentBefore(c, d)
      BY <1>1, <2>1 DEF SentBefore
    <2>6. ViewBegun(c)
      BY <1>3, <1>7
    <2>7. FirstOf(read[c], Matches(c), LastSent(c))'
      <3> DEFINE old == read[c]
      <3> DEFINE new == PageOf(c)
      <3> DEFINE q == Matches(c)
      <3>1. /\ skip[c] \in Nat /\ Limit \in Nat \ {0} /\ old \in Seq(Documents)
        BY Bounds DEF TypeOK
      <3>2. /\ new \in Seq(Documents) /\ q \in Seq(Documents)
            /\ Len(new) = IF Len(q) <= skip[c] THEN 0 ELSE Least(skip[c] + Limit, Len(q)) - skip[c]
            /\ \A i \in 1..Len(new) : skip[c] + i \in 1..Len(q) /\ new[i] = q[skip[c] + i]
        BY PageOfType
      <3>3. Len(old) = Least(skip[c], Len(q)) /\ \A i \in 1..Len(old) : old[i] = q[i]
        BY <1>1, <2>6 DEF ViewBegun, FirstOf, LastSent
      <3>4. read'[c] = old \o new
        BY <1>4
      <3>5. LastSent(c)' = skip[c] + Limit
        BY <1>1 DEF LastSent
      <3> HIDE DEF old, new, q
      <3> DEFINE all == old \o new
      <3>6. /\ all \in Seq(Documents) /\ Len(all) = Len(old) + Len(new)
            /\ Len(old) \in Nat /\ Len(new) \in Nat /\ Len(q) \in Nat
            /\ \A i \in 1..Len(old) + Len(new) : all[i] = IF i <= Len(old) THEN old[i] ELSE new[i - Len(old)]
        BY <3>1, <3>2, ConcatProperties, LenProperties
      <3> HIDE DEF all
      <3>7. Len(all) = Least(skip[c] + Limit, Len(q))
        BY <3>1, <3>2, <3>3, <3>6 DEF Least
      <3>8. ASSUME NEW i \in 1..Len(all) PROVE all[i] = q[i]
        <4>1. CASE i <= Len(old)
          BY <3>3, <3>6, <3>8, <4>1
        <4>2. CASE ~(i <= Len(old))
          <5>1. i - Len(old) \in 1..Len(new) /\ all[i] = new[i - Len(old)]
            BY <3>6, <4>2
          <5>2. Len(old) = skip[c]
            BY <3>1, <3>2, <3>3, <3>6, <5>1 DEF Least
          <5>3. skip[c] + (i - Len(old)) = i
            BY <3>1, <3>6, <5>2
          <5> QED
            BY <3>2, <5>1, <5>3
        <4> QED
          BY <4>1, <4>2
      <3>9. FirstOf(all, q, skip[c] + Limit)
        BY <3>7, <3>8 DEF FirstOf
      <3> QED
        BY <2>1, <3>4, <3>5, <3>9 DEF all, q
    <2>8. (page[c] = IF stage[c] = "answered" THEN Grouped(PageOf(c)) ELSE <<>>)'
      BY <1>1, <2>4
    <2>9. (\A k \in DOMAIN data[c] :
             /\ data[c][k].providers # <<>>
             /\ \A i \in DOMAIN data[c][k].providers :
                  SentBefore(c, <<data[c][k].period, data[c][k].providers[i]>>))'
      BY <1>1, <2>5, <2>6 DEF ViewBegun
    <2> QED
      BY <1>1, <2>3, <2>6, <2>7, <2>8, <2>9 DEF ViewBegun
  <1>8. Client(c)'
    BY <1>1, <1>6, <1>7 DEF Client
  <1> QED
    BY <1>1, <1>5, <1>8, OneClient

\* No result means that there is no document.
LEMMA GroupedOfNone ==
  ASSUME NEW s \in Seq(Documents)
  PROVE Grouped(s) = <<>> <=> Len(s) = 0
  <1>1. Elements(s) = {s[i] : i \in 1..Len(s)} /\ Len(s) \in Nat
    BY ElementsOf
  <1> DEFINE g == Grouped(s)
  <1>2. g \in Seq(Results) /\ {g[k].period : k \in DOMAIN g} = {d[1] : d \in Elements(s)}
    BY GroupedOf
  <1>3. DOMAIN g = 1..Len(g) /\ Len(g) \in Nat
    BY <1>2
  <1> HIDE DEF g
  <1>4. CASE Len(s) = 0
    <2>1. Elements(s) = {}
      BY <1>1, <1>4
    <2>2. \A k \in DOMAIN g : FALSE
      BY <1>2, <2>1
    <2>3. Len(g) = 0
      <3>1. 1 \notin 1..Len(g)
        BY <1>3, <2>2
      <3> QED
        BY <1>3, <3>1
    <2> QED
      BY <1>2, <1>4, <2>3 DEF g
  <1>5. CASE Len(s) # 0
    <2>1. s[1] \in Elements(s)
      BY <1>1, <1>5
    <2>2. \E k : k \in DOMAIN g
      BY <1>2, <2>1
    <2>3. g # <<>>
      BY <1>3, <2>2
    <2> QED
      BY <1>5, <2>3 DEF g
  <1> QED
    BY <1>4, <1>5

\* There is no collection to read.
LEMMA ViewFindsNone ==
  ASSUME TypeOK, TypeOK', CacheInv, Sound, Undisturbed, NEW c \in Clients, OthersFinished(c),
         ReadNoCollection(c), Sent(c), UNCHANGED <<steady, data, views>>
  PROVE Undisturbed'
  <1>1. /\ stage[c] = "read" /\ stage'[c] = "answered" /\ ~exists
        /\ \A d \in Clients \ {c} : UNCHANGED stage[d]
        /\ UNCHANGED <<usage, docs, request, skip, missing, page>>
    BY DEF ReadNoCollection, Goto, progress, TypeOK
  <1>2. read' = read
    BY <1>1, ServerRead
  <1>3. stage[c] \notin Finished /\ stage[c] # "insert"
    BY <1>1 DEF Finished
  <1>4. request[c].seed = 0 /\ (~request[c].ignoreCache => ViewBegun(c))
    BY <1>3 DEF Undisturbed, Begun
  <1>5. Begun(c)'
    BY <1>1, <1>4 DEF Begun
  <1>6. Matches(c) = <<>>
    BY <1>1, SelectEmpty DEF Sound, Matches, InRange
  <1>7. ASSUME ~request[c].ignoreCache PROVE ViewBegun(c)'
    <2>1. /\ Matches(c)' = Matches(c) /\ PageOf(c)' = PageOf(c) /\ Complete(c)' = Complete(c)
          /\ \A d : SentBefore(c, d)' = SentBefore(c, d)
      BY <1>1, <1>2, SameView
    <2>2. ViewBegun(c)
      BY <1>4, <1>7
    <2>3. skip[c] \in Nat /\ Limit \in Nat
      BY Bounds DEF TypeOK
    <2>4. FirstOf(read[c], <<>>, skip[c]) => FirstOf(read[c], <<>>, skip[c] + Limit)
      BY <2>3 DEF FirstOf, Least
    <2>5. FirstOf(read[c], Matches(c), LastSent(c))'
      <3>1. LastSent(c) = skip[c] /\ LastSent(c)' = skip[c] + Limit
        BY <1>1 DEF LastSent
      <3>2. FirstOf(read[c], <<>>, skip[c])
        BY <1>6, <2>2, <3>1 DEF ViewBegun
      <3> QED
        BY <1>2, <1>6, <2>1, <2>4, <3>1, <3>2 DEF FirstOf
    <2>6. Grouped(PageOf(c)) = <<>>
      <3>1. PageOf(c) \in Seq(Documents) /\ Len(PageOf(c)) = 0
        BY <1>6, <2>3, PageOfType
      <3> QED
        BY <3>1, GroupedOfNone
    <2>7. (page[c] = IF stage[c] = "answered" THEN Grouped(PageOf(c)) ELSE <<>>)'
      BY <1>1, <2>1, <2>2, <2>6 DEF ViewBegun
    <2>8. (\A k \in DOMAIN data[c] :
             /\ data[c][k].providers # <<>>
             /\ \A i \in DOMAIN data[c][k].providers :
                  SentBefore(c, <<data[c][k].period, data[c][k].providers[i]>>))'
      BY <2>1, <2>2 DEF ViewBegun
    <2> QED
      BY <1>1, <2>1, <2>2, <2>5, <2>7, <2>8 DEF ViewBegun
  <1>8. Client(c)'
    BY <1>1, <1>5, <1>7 DEF Client
  <1> QED
    BY <1>1, <1>2, <1>3, <1>8, QuietClient

\* The results of a page are of its documents.
LEMMA ResultsOfPage ==
  ASSUME TypeOK, NEW c \in Clients, ViewBegun(c), stage[c] = "answered", NEW g \in Elements(page[c])
  PROVE /\ g.providers # <<>>
        /\ \A i \in DOMAIN g.providers :
             \E n \in 1..Len(PageOf(c)) :
               /\ skip[c] + n \in 1..Len(Matches(c))
               /\ Matches(c)[skip[c] + n] = <<g.period, g.providers[i]>>
  <1>1. page[c] = Grouped(PageOf(c)) /\ PageOf(c) \in Seq(Documents)
    BY PageOfType DEF ViewBegun
  <1>2. PICK k \in DOMAIN Grouped(PageOf(c)) : g = Grouped(PageOf(c))[k]
    BY <1>1 DEF Elements
  <1>3. /\ g.providers # <<>>
        /\ \A i \in DOMAIN g.providers : <<g.period, g.providers[i]>> \in Elements(PageOf(c))
    BY <1>1, <1>2, GroupedOf
  <1>4. \A d \in Elements(PageOf(c)) :
          \E n \in 1..Len(PageOf(c)) : skip[c] + n \in 1..Len(Matches(c)) /\ Matches(c)[skip[c] + n] = d
    BY <1>1, ElementsOf, PageOfType
  <1> QED
    BY <1>3, <1>4

\* The client asks for the next page.
LEMMA ViewContinues ==
  ASSUME TypeOK, TypeOK', CacheInv, PagesInv, Sound, Undisturbed, NEW c \in Clients,
         OthersFinished(c), NextPage(c)
  PROVE Undisturbed'
  <1>1. /\ stage[c] = "answered" /\ ~request[c].ignoreCache /\ stage'[c] = "missing"
        /\ skip'[c] = skip[c] + Limit /\ page'[c] = <<>> /\ data'[c] = Concatenate(data[c], page[c])
        /\ request'[c] = request[c]
        /\ \A d \in Clients \ {c} : UNCHANGED <<stage[d], request[d]>>
        /\ UNCHANGED <<usage, docs, missing, steady, read>>
    BY DEF NextPage, LoopExit, Send, Goto, database, TypeOK
  <1>2. stage[c] \notin Finished /\ stage[c] # "insert"
    BY <1>1 DEF Finished
  <1>3. Begun(c) /\ ViewBegun(c)
    BY <1>1, <1>2 DEF Undisturbed
  <1>4. Begun(c)'
    BY <1>1, <1>3 DEF Begun
  <1>5. skip[c] \in Nat /\ Limit \in Nat \ {0}
    BY Bounds DEF TypeOK
  <1>6. Wanted(c)' = Wanted(c) /\ Matches(c)' = Matches(c)
    BY <1>1 DEF Matches, InRange, Wanted
  <1>7. Complete(c)'
    <2>1. Elements(docs)' = Elements(docs)
      BY <1>1 DEF Elements
    <2> QED
      BY <1>1, <1>3, <1>6, <2>1 DEF ViewBegun, Complete, Whole
  <1>8. FirstOf(read[c], Matches(c), LastSent(c))'
    <2>1. LastSent(c)' = LastSent(c) /\ read'[c] = read[c]
      BY <1>1 DEF LastSent
    <2> QED
      BY <1>3, <1>6, <2>1 DEF ViewBegun, FirstOf
  <1>9. ASSUME NEW g \in Elements(data'[c])
        PROVE g.providers # <<>> /\ \A i \in DOMAIN g.providers : SentBefore(c, <<g.period, g.providers[i]>>)'
    <2>1. /\ data[c] \in Seq(Results) /\ page[c] \in Seq(Results)
          /\ DistinctPeriods(data[c]) /\ DistinctPeriods(page[c])
      BY DEF TypeOK, PagesInv, PeriodsKept
    <2>2. Elements(data'[c]) \subseteq Elements(data[c]) \cup Elements(page[c])
      BY <1>1, <2>1, ConcatenateKeeps
    <2>3. \A d : SentBefore(c, d) => SentBefore(c, d)'
      BY <1>1, <1>5, <1>6, PageOfType DEF SentBefore
    <2>4. CASE g \in Elements(data[c])
      BY <1>3, <2>3, <2>4 DEF ViewBegun, Elements
    <2>5. CASE g \in Elements(page[c])
      <3>1. g.providers # <<>>
        BY <1>1, <1>3, <2>5, ResultsOfPage
      <3>2. ASSUME NEW i \in DOMAIN g.providers PROVE SentBefore(c, <<g.period, g.providers[i]>>)'
        <4>1. PICK n \in 1..Len(PageOf(c)) :
                /\ skip[c] + n \in 1..Len(Matches(c))
                /\ Matches(c)[skip[c] + n] = <<g.period, g.providers[i]>>
          BY <1>1, <1>3, <2>5, ResultsOfPage
        <4>2. n <= Limit /\ n \in Nat
          BY <1>5, PageOfType, LenProperties DEF Least
        <4>3. skip[c] + n <= skip'[c]
          BY <1>1, <1>5, <4>2
        <4> QED
          BY <1>6, <4>1, <4>3 DEF SentBefore
      <3> QED
        BY <3>1, <3>2
    <2> QED
      BY <2>2, <2>4, <2>5
  <1>10. ViewBegun(c)'
    BY <1>1, <1>7, <1>8, <1>9 DEF ViewBegun, Elements
  <1>11. Client(c)'
    BY <1>1, <1>4, <1>10 DEF Client
  <1>12. AllOrNothing'
    BY <1>1, <1>2, SameCollection DEF Undisturbed
  <1>13. \A d \in Clients \ {c} : UNCHANGED <<stage[d], request[d], read[d]>>
    BY <1>1
  <1> QED
    BY <1>1, <1>11, <1>12, <1>13, OneClient

\* The documents of a range: each once, and all that there are.
LEMMA MatchesOnce ==
  ASSUME TypeOK, CacheInv, disturbed = {}, NEW c \in Clients
  PROVE /\ \A i, j \in 1..Len(Matches(c)) : Matches(c)[i] = Matches(c)[j] => i = j
        /\ Elements(Matches(c)) = Elements(docs) \cap (Wanted(c) \X Providers)
  <1>1. docs \in Seq(Documents) /\ \A i, j \in 1..Len(docs) : docs[i] = docs[j] => i = j
    BY DEF CacheInv, Kept, Orderly, Once, Typed
  <1> DEFINE range == Wanted(c) \X Providers
  <1>2. Matches(c) = Select(docs, range)
    BY DEF Matches, InRange
  <1> HIDE DEF range
  <1>3. Elements(Matches(c)) = Elements(docs) \cap range
    BY <1>1, <1>2, SelectType
  <1>4. \A i, j \in 1..Len(Matches(c)) : Matches(c)[i] = Matches(c)[j] => i = j
    BY <1>1, <1>2, SelectDistinct
  <1> QED
    BY <1>3, <1>4 DEF range

\* A view ends when a page is empty: the last estimate of a page that is not empty is
\* none of those before.
LEMMA ViewEnds ==
  ASSUME TypeOK, TypeOK', CacheInv, Sound, Undisturbed, disturbed = {}, NEW c \in Clients,
         OthersFinished(c), LastPage(c)
  PROVE Undisturbed'
  <1>1. /\ stage[c] = "answered" /\ LoopExit(c) /\ stage'[c] = "shown"
        /\ \A d \in Clients \ {c} : UNCHANGED stage[d]
        /\ UNCHANGED <<usage, docs, request, steady, read>>
    BY DEF LastPage, Goto, database, TypeOK
  <1>2. stage[c] \notin Finished /\ stage[c] # "insert"
    BY <1>1 DEF Finished
  <1>3. ASSUME ~steady, ~request[c].ignoreCache
        PROVE Elements(read[c]) = {d \in usage : d[1] \in Wanted(c)}
    <2>1. ViewBegun(c)
      BY <1>2, <1>3 DEF Undisturbed
    <2> DEFINE q == Matches(c)
    <2>2. /\ q \in Seq(Documents) /\ PageOf(c) \in Seq(Documents) /\ Len(q) \in Nat
          /\ Len(PageOf(c)) = IF Len(q) <= skip[c] THEN 0 ELSE Least(skip[c] + Limit, Len(q)) - skip[c]
          /\ skip[c] \in Nat /\ Limit \in Nat \ {0} /\ read[c] \in Seq(Documents)
      BY PageOfType, Bounds DEF TypeOK
    <2>3. /\ \A i, j \in 1..Len(q) : q[i] = q[j] => i = j
          /\ Elements(q) = Elements(docs) \cap (Wanted(c) \X Providers)
      BY MatchesOnce
    <2>4. /\ page[c] = Grouped(PageOf(c))
          /\ Len(read[c]) = Least(skip[c] + Limit, Len(q))
          /\ \A i \in 1..Len(read[c]) : read[c][i] = q[i]
      BY <1>1, <2>1 DEF ViewBegun, FirstOf, LastSent
    <2>5. page[c] = <<>>
      <3> SUFFICES ASSUME page[c] # <<>> PROVE FALSE
        OBVIOUS
      <3> DEFINE g == LastResult(page[c])
      <3> DEFINE h == LastResult(data[c])
      <3>1. /\ data[c] # <<>> /\ g.period = h.period
            /\ g.providers[Len(g.providers)] = h.providers[Len(h.providers)]
        BY <1>1, <1>3 DEF LoopExit, EqualLast, LastProvider
      <3>2. page[c] \in Seq(Results) /\ data[c] \in Seq(Results)
        BY DEF TypeOK
      <3>3. /\ Len(page[c]) \in DOMAIN page[c] /\ g \in Elements(page[c]) /\ g \in Results
            /\ Len(data[c]) \in DOMAIN data[c] /\ h = data[c][Len(data[c])] /\ h \in Results
        BY <3>1, <3>2 DEF LastResult, Elements
      <3> HIDE DEF g, h
      <3>4. /\ g.providers # <<>> /\ g.providers \in Seq(Providers)
            /\ h.providers # <<>> /\ h.providers \in Seq(Providers)
        BY <1>1, <2>1, <3>3, ResultsOfPage DEF ViewBegun, Results
      <3>5. Len(g.providers) \in DOMAIN g.providers /\ Len(h.providers) \in DOMAIN h.providers
        BY <3>4
      <3>6. PICK n \in 1..Len(PageOf(c)) :
              /\ skip[c] + n \in 1..Len(q)
              /\ q[skip[c] + n] = <<g.period, g.providers[Len(g.providers)]>>
        BY <1>1, <2>1, <3>3, <3>5, ResultsOfPage
      <3>7. PICK m \in 1..Len(q) :
              m <= skip[c] /\ q[m] = <<h.period, h.providers[Len(h.providers)]>>
        BY <2>1, <3>3, <3>5 DEF ViewBegun, SentBefore
      <3>8. q[skip[c] + n] = q[m]
        BY <3>1, <3>6, <3>7
      <3>9. skip[c] + n = m
        BY <2>3, <3>6, <3>7, <3>8
      <3> QED
        BY <2>2, <3>6, <3>7, <3>9
    <2>6. Len(PageOf(c)) = 0
      BY <2>2, <2>4, <2>5, GroupedOfNone
    <2>7. Len(q) <= skip[c]
      BY <2>2, <2>6 DEF Least
    <2>8. Len(read[c]) = Len(q)
      BY <2>2, <2>4, <2>7 DEF Least
    <2>9. Elements(read[c]) = Elements(q)
      <3>1. Elements(q) = {q[i] : i \in 1..Len(q)} /\ Elements(read[c]) = {read[c][i] : i \in 1..Len(read[c])}
        BY <2>2, ElementsOf
      <3> QED
        BY <2>4, <2>8, <3>1
    <2>10. Complete(c)
      BY <1>1, <2>1 DEF ViewBegun
    <2>11. Elements(docs) \subseteq usage /\ usage \subseteq Periods \X Providers
      BY DEF Sound, TypeOK, Documents
    <2>12. \A d \in usage : d[1] \in Wanted(c) => d \in Elements(docs)
      BY <2>10 DEF Complete, Whole
    <2> QED
      BY <2>3, <2>9, <2>11, <2>12
  <1>4. Elements(read[c])' = Elements(read[c]) /\ Wanted(c)' = Wanted(c)
    BY <1>1 DEF Elements, Wanted
  <1>5. ViewEnded(c)'
    BY <1>1, <1>3, <1>4 DEF ViewEnded
  <1>6. Client(c)'
    BY <1>1, <1>5 DEF Client, Finished
  <1> QED
    BY <1>1, <1>2, <1>6, QuietClient

\* Nothing of a view changes.
LEMMA IdleStep == Undisturbed /\ Idle => Undisturbed'
  <1> SUFFICES ASSUME Undisturbed, Idle PROVE Undisturbed'
    OBVIOUS
  <1>1. UNCHANGED <<usage, docs, stage, request, skip, missing, inserting, page, steady, data, read>>
    BY DEF Idle
  <1>2. AllOrNothing'
    <2>1. Elements(docs)' = Elements(docs)
      BY <1>1 DEF Elements
    <2> QED
      BY <1>1, <2>1 DEF Undisturbed, AllOrNothing, Whole, Nothing, BeingInserted
  <1>3. ASSUME NEW c \in Clients PROVE Client(c)'
    <2>1. /\ Matches(c)' = Matches(c) /\ Wanted(c)' = Wanted(c) /\ PageOf(c)' = PageOf(c)
          /\ \A p : Whole(p)' = Whole(p)
          /\ \A p : Nothing(p)' = Nothing(p)
          /\ Complete(c)' = Complete(c)
          /\ \A d : SentBefore(c, d)' = SentBefore(c, d)
      BY <1>1, SameView
    <2>2. Elements(docs)' = Elements(docs) /\ Elements(read[c])' = Elements(read[c])
      BY <1>1 DEF Elements
    <2>3. Begun(c)' = Begun(c)
      BY <1>1, <2>2 DEF Begun
    <2>4. LastSent(c)' = LastSent(c)
      BY <1>1 DEF LastSent
    <2>5. FirstOf(read[c], Matches(c), LastSent(c))' = FirstOf(read[c], Matches(c), LastSent(c))
      BY <1>1, <2>1, <2>4 DEF FirstOf
    <2>6. ViewBegun(c) => ViewBegun(c)'
      BY <1>1, <2>1, <2>5 DEF ViewBegun
    <2>7. ViewEnded(c)' = ViewEnded(c)
      BY <1>1, <2>1, <2>2 DEF ViewEnded
    <2> QED
      BY <1>1, <1>3, <2>3, <2>6, <2>7 DEF Client, Undisturbed
  <1> QED
    BY <1>2, <1>3 DEF Client, Undisturbed

\* The invariant of a view is inductive.
LEMMA NextView == TypeOK /\ TypeOK' /\ CacheInv /\ PagesInv /\ ViewInv /\ [Next]_vars => ViewInv'
  <1> SUFFICES ASSUME TypeOK, TypeOK', CacheInv, PagesInv, ViewInv, [Next]_vars, disturbed' = {}
               PROVE Undisturbed'
    BY SoundStep DEF ViewInv
  <1>1. Sound /\ disturbed = {} /\ Undisturbed
    BY UndisturbedSteps DEF ViewInv
  <1>2. CASE Idle
    BY <1>1, <1>2, IdleStep
  <1>3. ASSUME NEW c \in Clients, OthersFinished(c), NEW r \in Requests, r.seed = 0, Open(c, r)
        PROVE Undisturbed'
    BY <1>1, <1>3, ViewOpens
  <1>4. ASSUME NEW c \in Clients, OthersFinished(c), ServerStep(c) PROVE Undisturbed'
    BY <1>1, <1>4, ViewMisses, ViewFetches, ViewBypasses, ViewInserts, ViewReads, ViewFindsNone
      DEF ServerStep, Serve
  <1>5. ASSUME NEW c \in Clients, OthersFinished(c), NextPage(c) PROVE Undisturbed'
    BY <1>1, <1>5, ViewContinues
  <1>6. ASSUME NEW c \in Clients, OthersFinished(c), LastPage(c) PROVE Undisturbed'
    BY <1>1, <1>6, ViewEnds
  <1>7. ASSUME NEW c \in Clients, Seeded(c) PROVE FALSE
    <2>1. stage[c] = "answered" /\ request[c].seed # 0
      BY <1>7 DEF Seeded
    <2> QED
      BY <1>1, <2>1 DEF Undisturbed, Begun, Finished
  <1> QED
    BY <1>2, <1>3, <1>4, <1>5, <1>6, <1>7, UndisturbedSteps

\* What was sent, and the collection.
LEMMA NoneAgain == TypeOK /\ PagesInv => NothingAgain
  <1> SUFFICES ASSUME TypeOK, PagesInv, NEW c \in Clients, NEW d \in Elements(read[c])
               PROVE Count(read[c], d) <= Count(docs, d)
    BY DEF NothingAgain
  <1> DEFINE s == read[c]
  <1> DEFINE q == Matches(c)
  <1>1. s \in Seq(Documents) /\ q \in Seq(Documents) /\ docs \in Seq(Documents)
    BY PageOfType DEF TypeOK
  <1>2. PICK at : Rising(at, s, q)
    BY DEF PagesInv, SentInOrder
  <1>3. PICK bt : Rising(bt, q, docs)
    BY <1>1, SelectType DEF Matches, InRange
  <1> HIDE DEF s, q
  <1>4. Len(s) \in Nat /\ Len(q) \in Nat /\ Len(docs) \in Nat
        /\ DOMAIN s = 1..Len(s) /\ DOMAIN docs = 1..Len(docs)
    BY <1>1
  <1>5. /\ at \in [1..Len(s) -> 1..Len(q)] /\ bt \in [1..Len(q) -> 1..Len(docs)]
        /\ \A i \in 1..Len(s) : s[i] = q[at[i]]
        /\ \A i \in 1..Len(q) : q[i] = docs[bt[i]]
    BY <1>2, <1>3 DEF Rising
  <1>6. \A i, j \in 1..Len(s) : at[i] = at[j] => i = j
    <2> SUFFICES ASSUME NEW i \in 1..Len(s), NEW j \in 1..Len(s), at[i] = at[j] PROVE i = j
      OBVIOUS
    <2>1. ~(i < j) /\ ~(j < i)
      BY <1>2, <1>5 DEF Rising
    <2> QED
      BY <1>4, <2>1
  <1>7. \A i, j \in 1..Len(q) : bt[i] = bt[j] => i = j
    <2> SUFFICES ASSUME NEW i \in 1..Len(q), NEW j \in 1..Len(q), bt[i] = bt[j] PROVE i = j
      OBVIOUS
    <2>1. ~(i < j) /\ ~(j < i)
      BY <1>3, <1>5 DEF Rising
    <2> QED
      BY <1>4, <2>1
  <1> DEFINE here == {i \in DOMAIN s : s[i] = d}
  <1> DEFINE there == {i \in DOMAIN docs : docs[i] = d}
  <1> DEFINE f == [i \in here |-> bt[at[i]]]
  <1>8. f \in [here -> there]
    BY <1>4, <1>5
  <1>9. f \in Injection(here, there)
    <2>1. \A i, j \in here : f[i] = f[j] => i = j
      BY <1>4, <1>5, <1>6, <1>7
    <2> QED
      BY <1>8, <2>1 DEF Injection, IsInjective
  <1>10. IsFiniteSet(there)
    <2>1. there \subseteq 1..Len(docs)
      BY <1>4
    <2>2. IsFiniteSet(1..Len(docs))
      BY <1>4, FS_Interval
    <2> HIDE DEF there
    <2> QED
      BY <2>1, <2>2, FS_Subset
  <1>11. Cardinality(here) <= Cardinality(there)
    <2> HIDE DEF here, there, f
    <2> QED
      BY <1>9, <1>10, FS_Injection
  <1> QED
    BY <1>11 DEF Count, s

ViewsCorrect == TypeOK /\ CacheInv /\ PagesInv /\ ViewInv

\* The three invariants imply that views are complete.
LEMMA CompleteFromInv == ViewsCorrect => ViewIsComplete
  <1> SUFFICES ASSUME ViewsCorrect PROVE NothingMissed /\ EachPeriodOnce
    BY NoneAgain DEF ViewsCorrect, ViewIsComplete
  <1>1. NothingMissed
    BY DEF NothingMissed, ViewsCorrect, ViewInv, Undisturbed, ViewEnded
  <1>2. EachPeriodOnce
    BY DEF EachPeriodOnce, ViewsCorrect, PagesInv, PeriodsKept, DistinctPeriods, PeriodsSent, PeriodsOf
  <1> QED
    BY <1>1, <1>2

\* For any number of clients, periods, providers, documents on a page and failures: no
\* document is sent to a view twice; a view that nothing disturbed, and that no two equal
\* estimates ended early, was sent all usage of its range; what it shows has each period
\* once and every period it was sent.
THEOREM ViewsComplete == Spec => []ViewIsComplete
  <1>1. Init => ViewsCorrect
    BY InitTypes, InitCache, InitPages, InitView DEF ViewsCorrect
  <1>2. ViewsCorrect /\ [Next]_vars => ViewsCorrect'
    BY NextTypes, NextCache, NextPages, NextView DEF ViewsCorrect
  <1> QED
    BY <1>1, <1>2, CompleteFromInv, PTL DEF Spec
=============================================================================
