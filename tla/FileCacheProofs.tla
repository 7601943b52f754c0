-------------------------- MODULE FileCacheProofs --------------------------
(***************************************************************************)
(* For any number of requests, periods and crashes: what a request that no  *)
(* other one overlaps is answered, and what one process after the other    *)
(* leaves in the cache file.                                                *)
(*                                                                         *)
(* Two invariants.  A request that is alone has all of its range in what it *)
(* kept of the file and what it found missing.  In orderly use the file     *)
(* holds the periods from the first one up to some period, so that a write *)
(* only ever makes it longer and nothing old is left behind.               *)
(***************************************************************************)
EXTENDS FileCache, CollectionProofs

(***************************************************************************)
(* Types.                                                                  *)
(***************************************************************************)
\* The constants.
LEMMA Bounds ==
  /\ NPeriods \in Nat \ {0} /\ Requests \subseteq RequestType /\ Requests # {}
  /\ MaxAsks \in Nat /\ MaxCrashes \in Nat
  BY CacheAssumption

\* A selection of periods.
LEMMA SelectedPeriods ==
  ASSUME NEW s \in Seq(Periods), NEW S
  PROVE Select(s, S) \in Seq(Periods) /\ Elements(Select(s, S)) = Elements(s) \cap S
  BY SelectType

\* The periods of a set, in their order.
LEMMA AscendingOf ==
  ASSUME NEW S
  PROVE Ascending(S) \in Seq(Periods) /\ Elements(Ascending(S)) = Periods \cap S
  <1> DEFINE all == [p \in Periods |-> p]
  <1>1. all \in Seq(Periods) /\ Len(all) = NPeriods /\ Periods = 1..NPeriods
    BY Bounds DEF Periods
  <1>2. \A p \in 1..NPeriods : all[p] = p
    BY <1>1
  <1> HIDE DEF all
  <1>3. Elements(all) = Periods
    <2>1. Elements(all) = {all[p] : p \in 1..NPeriods}
      BY <1>1, ElementsOf
    <2> QED
      BY <1>1, <1>2, <2>1
  <1>4. Ascending(S) = Select(all, S)
    BY DEF Ascending, all
  <1> QED
    BY <1>1, <1>3, <1>4, SelectedPeriods

\* What is counted is a number, and what is there is counted.
LEMMA CountOf ==
  ASSUME NEW s \in Seq(Periods), NEW p
  PROVE Count(s, p) \in Nat /\ (p \in Elements(s) => Count(s, p) >= 1)
  <1> DEFINE S == {i \in DOMAIN s : s[i] = p}
  <1>1. S \subseteq 1..Len(s) /\ Len(s) \in Nat
    OBVIOUS
  <1>2. IsFiniteSet(S)
    BY <1>1, FS_Interval, FS_Subset
  <1>3. p \in Elements(s) => S # {}
    BY DEF Elements
  <1> HIDE DEF S
  <1>4. Cardinality(S) \in Nat /\ (S # {} => Cardinality(S) # 0)
    BY <1>2, FS_CardinalityType, FS_EmptySet
  <1>5. Count(s, p) = Cardinality(S)
    BY DEF Count, S
  <1> QED
    BY <1>3, <1>4, <1>5

\* Elements of two sequences.
LEMMA ElementsOfTwo ==
  ASSUME NEW s \in Seq(Periods), NEW t \in Seq(Periods)
  PROVE s \o t \in Seq(Periods) /\ Elements(s \o t) = Elements(s) \cup Elements(t)
  <1>1. /\ s \o t \in Seq(Periods) /\ Len(s \o t) = Len(s) + Len(t)
        /\ Len(s) \in Nat /\ Len(t) \in Nat
        /\ \A i \in 1..Len(s) : (s \o t)[i] = s[i]
        /\ \A i \in 1..Len(t) : (s \o t)[Len(s) + i] = t[i]
    OBVIOUS
  <1>2. ASSUME NEW x \in Elements(s \o t) PROVE x \in Elements(s) \cup Elements(t)
    <2>1. PICK i \in 1..Len(s) + Len(t) : x = (s \o t)[i]
      BY <1>1 DEF Elements
    <2>2. CASE i <= Len(s)
      BY <1>1, <2>1, <2>2 DEF Elements
    <2>3. CASE i > Len(s)
      <3>1. i - Len(s) \in 1..Len(t) /\ Len(s) + (i - Len(s)) = i
        BY <1>1, <2>1, <2>3
      <3>2. x = t[i - Len(s)]
        BY <1>1, <2>1, <3>1
      <3> QED
        BY <3>1, <3>2 DEF Elements
    <2> QED
      BY <1>1, <2>1, <2>2, <2>3
  <1>3. ASSUME NEW x \in Elements(s) PROVE x \in Elements(s \o t)
    <2>1. PICK i \in 1..Len(s) : x = s[i]
      BY <1>1 DEF Elements
    <2>2. i \in DOMAIN (s \o t) /\ (s \o t)[i] = x
      BY <1>1, <2>1
    <2> QED
      BY <2>2 DEF Elements
  <1>4. ASSUME NEW x \in Elements(t) PROVE x \in Elements(s \o t)
    <2>1. PICK i \in 1..Len(t) : x = t[i]
      BY <1>1 DEF Elements
    <2>2. Len(s) + i \in DOMAIN (s \o t) /\ (s \o t)[Len(s) + i] = x
      BY <1>1, <2>1
    <2> QED
      BY <2>2 DEF Elements
  <1> QED
    BY <1>1, <1>2, <1>3, <1>4

\* What a request wants are periods.
LEMMA WantedPeriods ==
  ASSUME NEW r \in Requests
  PROVE /\ Wanted(r) \subseteq Periods
        /\ r \in RequestType /\ r.first \in Periods /\ r.last \in Periods
        /\ r.first \in Nat /\ r.last \in Nat /\ r.aligned \in BOOLEAN
        /\ r.ignoreCache \in BOOLEAN
  <1>1. r \in RequestType
    BY Bounds
  <1>2. NPeriods \in Nat
    BY Bounds
  <1> QED
    BY <1>1, <1>2 DEF RequestType, Wanted, Periods

\* What a write leaves is a file.
LEMMA OverwrittenType ==
  ASSUME NEW s \in Seq(Periods), NEW old \in Seq(Periods), NEW f \in Overwritten(s, old)
  PROVE f.state \in {"absent", "sound", "torn"} /\ f.lines \in Seq(Periods)
  <1>1. CASE f = Torn
    BY <1>1 DEF Torn
  <1>2. CASE f = Sound(s)
    BY <1>2 DEF Sound
  <1>3. ASSUME old # <<>>, NEW rest \in Rests(Tail(old)), f = Sound(s \o rest)
        PROVE f.state = "sound" /\ f.lines \in Seq(Periods)
    <2>1. Tail(old) \in Seq(Periods)
      BY <1>3
    <2>2. rest \in Seq(Periods)
      <3>1. PICK k \in 1..Len(Tail(old)) + 1 : rest = SubSeq(Tail(old), k, Len(Tail(old)))
        BY DEF Rests
      <3> DEFINE t == Tail(old)
      <3>2. t \in Seq(Periods)
        BY <2>1
      <3> HIDE DEF t
      <3>3. k \in 1..Len(t) + 1 /\ rest = SubSeq(t, k, Len(t))
        BY <3>1 DEF t
      <3> QED
        BY <3>2, <3>3
    <2>3. s \o rest \in Seq(Periods)
      BY <2>2
    <2> QED
      BY <1>3, <2>3 DEF Sound
  <1> QED
    BY <1>1, <1>2, <1>3 DEF Overwritten

\* What is loaded and kept.
LEMMA LoadedTypes ==
  ASSUME TypeOK, NEW c \in Clients, NEW s \in Seq(Periods), Loaded(c, s)
  PROVE /\ cached' \in Seq(Periods) /\ missing' \in [Clients -> SUBSET Periods]
        /\ Elements(cached') \cup missing'[c] = Wanted(request[c]) \cup Elements(cached')
  <1>1. request[c] \in Requests
    BY DEF TypeOK
  <1>2. cached' = Filtered(request[c], s)
        /\ missing' = [missing EXCEPT ![c] = Wanted(request[c]) \ Elements(cached')]
    BY DEF Loaded, Gaps
  <1>3. cached' \in Seq(Periods)
    BY <1>2, SelectedPeriods DEF Filtered
  <1>4. Wanted(request[c]) \subseteq Periods
    BY <1>1, WantedPeriods
  <1> QED
    BY <1>2, <1>3, <1>4 DEF TypeOK

\* How often estimates are in an answer.
LEMMA AnswerTypes ==
  ASSUME TypeOK, NEW c \in Clients, NEW s \in Seq(Periods), Answer(c, s)
  PROVE /\ answer' \in [Clients -> [Periods -> Nat]]
        /\ answer'[c] = [p \in Periods |-> IF p \in usage THEN Count(s, p) ELSE 0]
  BY CountOf DEF TypeOK, Answer

\* Types hold at first, and each action keeps them.
LEMMA InitTypes == Init => TypeOK
  <1> SUFFICES ASSUME Init PROVE TypeOK
    OBVIOUS
  <1>1. (CHOOSE r \in Requests : TRUE) \in Requests
    BY Bounds
  <1>2. request \in [Clients -> Requests]
    BY <1>1 DEF Init
  <1>3. answer \in [Clients -> [Periods -> Nat]]
    BY DEF Init, NoAnswer
  <1>4. file.state = "absent" /\ file.lines = <<>> /\ <<>> \in Seq(Periods)
    BY DEF Init, Absent
  <1> QED
    BY <1>2, <1>3, <1>4, Bounds DEF Init, TypeOK

\* What a request may be doing.
Stage == {"idle", "load", "create", "fetch", "write", "respond", "answered", "failed"}

\* Steps that leave the file alone, with what they do to the rest.
LEMMA TypesIf ==
  ASSUME TypeOK, UNCHANGED given,
         file'.state \in {"absent", "sound", "torn"}, file'.lines \in Seq(Periods),
         cached' \in Seq(Periods), fetched' \in Seq(Periods),
         pc' \in [Clients -> Stage], UNCHANGED <<request, history, asks>>,
         missing' \in [Clients -> SUBSET Periods], output' \in [Clients -> Seq(Periods)],
         answer' \in [Clients -> [Periods -> Nat]],
         uploads' \subseteq Seq(Periods), crashes' \in 0..MaxCrashes
  PROVE TypeOK'
  BY DEF TypeOK, given, history, Stage

\* One case for each action.
LEMMA NextTypes == TypeOK /\ [Next]_vars => TypeOK'
  <1> SUFFICES ASSUME TypeOK, [Next]_vars PROVE TypeOK'
    OBVIOUS
  <1> USE DEF given, manager, history, bounds
  <1>0. /\ file.state \in {"absent", "sound", "torn"} /\ file.lines \in Seq(Periods)
        /\ cached \in Seq(Periods) /\ fetched \in Seq(Periods)
        /\ pc \in [Clients -> Stage] /\ request \in [Clients -> Requests]
        /\ missing \in [Clients -> SUBSET Periods] /\ output \in [Clients -> Seq(Periods)]
        /\ answer \in [Clients -> [Periods -> Nat]]
        /\ uploads \subseteq Seq(Periods) /\ crashes \in 0..MaxCrashes
        /\ <<>> \in Seq(Periods)
    BY DEF TypeOK, Stage
  <1>1. CASE UNCHANGED vars
    BY <1>1 DEF TypeOK, vars
  <1>2. ASSUME NEW c \in Clients, NEW r \in Requests, Ask(c, r) PROVE TypeOK'
    <2>1. asks' \in 0..MaxAsks
      BY <1>2, Bounds DEF Ask, TypeOK
    <2>2. request' \in [Clients -> Requests] /\ pc' \in [Clients -> Stage]
      BY <1>0, <1>2 DEF Ask, Goto, Stage
    <2>3. alone' \in [Clients -> BOOLEAN] /\ fresh' \in [Clients -> BOOLEAN] /\ orderly' \in BOOLEAN
      BY <1>2 DEF Ask, TypeOK
    <2> QED
      BY <1>2, <2>1, <2>2, <2>3 DEF Ask, TypeOK, Stage
  <1>3. ASSUME NEW c \in Clients, NEW s \in Seq(Periods), Loaded(c, s),
               file'.state \in {"absent", "sound", "torn"}, file'.lines \in Seq(Periods),
               UNCHANGED <<given, fetched, request, output, answer, history, uploads, bounds>>
        PROVE TypeOK'
    <2>1. cached' \in Seq(Periods) /\ missing' \in [Clients -> SUBSET Periods]
      BY <1>3, LoadedTypes
    <2>2. pc' \in [Clients -> Stage]
      BY <1>0, <1>3 DEF Loaded, Goto, Stage
    <2> QED
      BY <1>0, <1>3, <2>1, <2>2, TypesIf
  <1>4. ASSUME NEW c \in Clients, LoadFile(c) \/ CreateFile(c) \/ LoadObjectFails(c)
        PROVE TypeOK'
    <2>1. Sound(<<>>).state = "sound" /\ Sound(<<>>).lines = <<>>
      BY DEF Sound
    <2> QED
      BY <1>0, <1>3, <1>4, <2>1 DEF LoadFile, CreateFile, LoadObjectFails
  <1>5. ASSUME NEW c \in Clients, NEW label \in Stage, Goto(c, label),
               UNCHANGED <<given, file, manager, request, missing, history, bounds>>,
               output' \in [Clients -> Seq(Periods)], uploads' \subseteq Seq(Periods),
               UNCHANGED answer \/ answer' \in [Clients -> [Periods -> Nat]]
        PROVE TypeOK'
    <2>1. pc' \in [Clients -> Stage]
      BY <1>0, <1>5 DEF Goto
    <2> QED
      BY <1>0, <1>5, <2>1, TypesIf
  <1>6. ASSUME NEW c \in Clients,
               FileIsMissing(c) \/ FetchFails(c) \/ FetchNothing(c) \/ StartUpload(c)
        PROVE TypeOK'
    <2>1. "create" \in Stage /\ "failed" \in Stage /\ "respond" \in Stage
      BY DEF Stage
    <2> QED
      BY <1>0, <1>5, <1>6, <2>1 DEF FileIsMissing, FetchFails, FetchNothing, StartUpload
  <1>7. ASSUME NEW c \in Clients, FetchIgnoringCache(c) \/ Respond(c) PROVE TypeOK'
    <2>1. PICK s \in Seq(Periods) : Answer(c, s)
      <3>1. Ascending(missing[c]) \in Seq(Periods) /\ cached \o fetched \in Seq(Periods)
        BY <1>0, AscendingOf, ElementsOfTwo
      <3> QED
        BY <1>7, <3>1 DEF FetchIgnoringCache, Respond
    <2>2. answer' \in [Clients -> [Periods -> Nat]]
      BY <2>1, AnswerTypes
    <2>3. Goto(c, "answered") /\ "answered" \in Stage
      BY <2>1 DEF Answer, Stage
    <2> QED
      BY <1>0, <1>5, <1>7, <2>2, <2>3 DEF FetchIgnoringCache, Respond
  <1>8. ASSUME NEW c \in Clients, Fetch(c) PROVE TypeOK'
    <2>1. Persisted(c) \in Seq(Periods)
      BY AscendingOf DEF Persisted
    <2>2. Output(c) \in Seq(Periods)
      BY <1>0, <2>1, ElementsOfTwo DEF Output
    <2>3. fetched' \in Seq(Periods) /\ output' \in [Clients -> Seq(Periods)]
      BY <1>0, <1>8, <2>1, <2>2 DEF Fetch
    <2>4. pc' \in [Clients -> Stage]
      BY <1>0, <1>8 DEF Fetch, Goto, Stage
    <2> QED
      BY <1>0, <1>8, <2>3, <2>4, TypesIf DEF Fetch
  <1>9. ASSUME NEW c \in Clients, NEW f \in {file, Torn} \cup Written(c)
        PROVE f.state \in {"absent", "sound", "torn"} /\ f.lines \in Seq(Periods)
    <2>1. output[c] \in Seq(Periods)
      BY <1>0
    <2>2. f \in {file, Torn, Absent, Sound(output[c])} \cup Overwritten(output[c], file.lines)
      BY <1>9 DEF Written
    <2>3. CASE f \in Overwritten(output[c], file.lines)
      BY <1>0, <2>1, <2>3, OverwrittenType
    <2>4. CASE f \in {Torn, Absent, Sound(output[c])}
      <3>1. CASE f = Torn
        BY <1>0, <3>1 DEF Torn
      <3>2. CASE f = Absent
        BY <1>0, <3>2 DEF Absent
      <3>3. CASE f = Sound(output[c])
        BY <2>1, <3>3 DEF Sound
      <3> QED
        BY <2>4, <3>1, <3>2, <3>3
    <2>5. CASE f = file
      BY <1>0, <2>5
    <2> QED
      BY <2>2, <2>3, <2>4, <2>5
  <1>10. ASSUME NEW c \in Clients, WriteFile(c) PROVE TypeOK'
    <2>1. pc' \in [Clients -> Stage]
      BY <1>0, <1>10 DEF WriteFile, Goto, Stage
    <2>2. file'.state \in {"absent", "sound", "torn"} /\ file'.lines \in Seq(Periods)
      BY <1>9, <1>10 DEF WriteFile
    <2> QED
      BY <1>0, <1>10, <2>1, <2>2, TypesIf DEF WriteFile
  <1>11. ASSUME ProcessEnds, UNCHANGED <<given, request, missing, output, answer, history, asks>>,
                crashes' \in 0..MaxCrashes,
                file'.state \in {"absent", "sound", "torn"}, file'.lines \in Seq(Periods)
         PROVE TypeOK'
    <2>1. pc' \in [Clients -> Stage]
      BY <1>0, <1>11 DEF ProcessEnds, Stage
    <2> QED
      BY <1>0, <1>11, <2>1, TypesIf DEF ProcessEnds
  <1>12. ASSUME NEW c \in Clients, LoadTornFile(c) \/ KilledWhileWriting(c) PROVE TypeOK'
    <2>1. crashes' \in 0..MaxCrashes
      BY <1>0, <1>12, Bounds DEF LoadTornFile, KilledWhileWriting
    <2>2. file'.state \in {"absent", "sound", "torn"} /\ file'.lines \in Seq(Periods)
      BY <1>0, <1>9, <1>12 DEF LoadTornFile, KilledWhileWriting
    <2> QED
      BY <1>11, <1>12, <2>1, <2>2 DEF LoadTornFile, KilledWhileWriting
  <1>13. CASE Kill
    <2>1. crashes' \in 0..MaxCrashes
      BY <1>0, <1>13, Bounds DEF Kill
    <2> QED
      BY <1>0, <1>11, <1>13, <2>1 DEF Kill
  <1>14. ASSUME NEW object \in uploads, UploadEnds(object) PROVE TypeOK'
    <2>1. file'.state \in {"absent", "sound", "torn"} /\ file'.lines \in Seq(Periods)
      BY <1>0, <1>14 DEF UploadEnds, Sound
    <2> QED
      BY <1>0, <1>14, <2>1, TypesIf DEF UploadEnds
  <1>15. CASE DeleteFile
    <2>1. file'.state \in {"absent", "sound", "torn"} /\ file'.lines \in Seq(Periods)
      BY <1>0, <1>15 DEF DeleteFile, Absent
    <2> QED
      BY <1>0, <1>15, <2>1, TypesIf DEF DeleteFile
  <1> QED
    BY <1>1, <1>2, <1>4, <1>6, <1>7, <1>8, <1>10, <1>12, <1>13, <1>14, <1>15 DEF Next

\* For any number of requests, periods and crashes: what is kept, missing,
\* written and answered are estimates of periods, and asks and crashes bounded.
THEOREM TypesCorrect == Spec => []TypeOK
  BY InitTypes, NextTypes, PTL DEF Spec

(***************************************************************************)
(* A request that no other one overlaps.                                   *)
(***************************************************************************)
Busy(c) == pc[c] \notin {"idle", "answered", "failed"}

\* No other request is in progress.
NoOther(c) == Busy(c) => \A d \in Clients : Busy(d) => d = c

\* What such a request has so far, and what it was answered.
HasAll(c) ==
  /\ pc[c] \in {"write", "respond"} => ~request[c].ignoreCache
  /\ pc[c] = "fetch" => Wanted(request[c]) \subseteq Elements(cached) \cup missing[c]
  /\ pc[c] \in {"write", "respond"} =>
       Wanted(request[c]) \cap usage \subseteq Elements(cached) \cup Elements(fetched)
  /\ pc[c] = "answered" =>
       IF ~request[c].ignoreCache THEN Complete(c)
       ELSE \A p \in Wanted(request[c]) \cap usage :
              answer[c][p] = 0 => p \notin missing[c]

\* The first invariant: it says nothing of requests that overlap.
AloneInv == \A c \in Clients : alone[c] => NoOther(c) /\ HasAll(c)

\* Nothing has been asked.
LEMMA InitAlone == Init => AloneInv
  BY DEF Init, AloneInv, NoOther, Busy, HasAll

\* Steps of a request in progress: the others, as far as they are alone, have ended.
LEMMA OneAlone ==
  ASSUME AloneInv, NEW d \in Clients, Busy(d), UNCHANGED <<usage, alone, request>>,
         \A c \in Clients \ {d} : /\ pc'[c] = pc[c] /\ missing'[c] = missing[c]
                                  /\ answer'[c] = answer[c],
         alone[d] => HasAll(d)'
  PROVE AloneInv'
  <1> SUFFICES ASSUME NEW c \in Clients, alone[c] PROVE (NoOther(c) /\ HasAll(c))'
    BY DEF AloneInv
  <1>1. NoOther(c) /\ HasAll(c)
    BY DEF AloneInv
  <1>2. CASE c = d
    BY <1>1, <1>2 DEF NoOther, Busy
  <1>3. CASE c # d
    <2>1. ~Busy(c)
      BY <1>1, <1>3 DEF NoOther
    <2> QED
      BY <1>1, <1>3, <2>1 DEF NoOther, Busy, HasAll, Complete, Wanted
  <1> QED
    BY <1>2, <1>3

\* Steps that are not of any request.
LEMMA QuietAlone ==
  ASSUME AloneInv, UNCHANGED <<usage, alone, request, pc, cached, fetched, missing, answer>>
  PROVE AloneInv'
  BY DEF AloneInv, NoOther, HasAll, Busy, Complete, Wanted

\* The process ends, which answers nothing.
LEMMA EndAlone ==
  ASSUME TypeOK, AloneInv, ProcessEnds, UNCHANGED <<usage, alone, request, missing, answer>>
  PROVE AloneInv'
  <1>1. \A c \in Clients : pc'[c] \in {"idle", "answered", "failed"}
                           /\ (pc'[c] = "answered" => pc[c] = "answered")
    BY DEF ProcessEnds
  <1> SUFFICES ASSUME NEW c \in Clients, alone[c] PROVE (NoOther(c) /\ HasAll(c))'
    BY DEF AloneInv
  <1>2. HasAll(c)
    BY DEF AloneInv
  <1> QED
    BY <1>1, <1>2 DEF NoOther, Busy, HasAll, Complete, Wanted

\* A request starts, and ends that others are alone.
LEMMA AskAlone ==
  ASSUME TypeOK, AloneInv, NEW c \in Clients, NEW r \in Requests, Ask(c, r)
  PROVE AloneInv'
  <1> SUFFICES ASSUME NEW d \in Clients, alone'[d] PROVE (NoOther(d) /\ HasAll(d))'
    BY DEF AloneInv
  <1>1. /\ pc' = [pc EXCEPT ![c] = "load"] /\ request' = [request EXCEPT ![c] = r]
        /\ UNCHANGED <<usage, cached, fetched, missing, answer>>
        /\ alone'[d] = IF d = c THEN \A e \in Clients \ {c} : ~Busy(e)
                       ELSE alone[d] /\ ~Busy(d)
    BY DEF Ask, Goto, Busy, given, manager
  <1>2. CASE d = c
    BY <1>1, <1>2 DEF TypeOK, NoOther, Busy, HasAll
  <1>3. CASE d # c
    BY <1>1, <1>3 DEF TypeOK, AloneInv, NoOther, Busy, HasAll, Complete, Wanted
  <1> QED
    BY <1>2, <1>3

\* The invariant is kept by each action, other requests included.
LEMMA NextAlone == TypeOK /\ AloneInv /\ [Next]_vars => AloneInv'
  <1> SUFFICES ASSUME TypeOK, AloneInv, [Next]_vars PROVE AloneInv'
    OBVIOUS
  <1> USE DEF given, manager, history, bounds
  <1>0. /\ cached \in Seq(Periods) /\ fetched \in Seq(Periods)
        /\ request \in [Clients -> Requests] /\ pc \in [Clients -> Stage]
        /\ missing \in [Clients -> SUBSET Periods]
        /\ usage \subseteq Periods
    BY DEF TypeOK, Stage
  <1>1. CASE UNCHANGED vars \/ DeleteFile \/ \E object \in uploads : UploadEnds(object)
    BY <1>1, QuietAlone DEF vars, DeleteFile, UploadEnds
  <1>2. ASSUME NEW c \in Clients, NEW r \in Requests, Ask(c, r) PROVE AloneInv'
    BY <1>2, AskAlone
  <1>3. CASE Kill \/ \E c \in Clients : LoadTornFile(c) \/ KilledWhileWriting(c)
    BY <1>3, EndAlone DEF Kill, LoadTornFile, KilledWhileWriting
  <1>4. ASSUME NEW c \in Clients, LoadFile(c) \/ CreateFile(c) \/ LoadObjectFails(c)
        PROVE AloneInv'
    <2>1. PICK s \in Seq(Periods) : Loaded(c, s)
      <3>1. file.lines \in Seq(Periods) /\ <<>> \in Seq(Periods)
        BY DEF TypeOK
      <3> QED
        BY <1>4, <3>1 DEF LoadFile, CreateFile, LoadObjectFails
    <2>2. /\ Busy(c) /\ UNCHANGED <<usage, alone, request, fetched, answer>>
      BY <1>4 DEF LoadFile, CreateFile, LoadObjectFails, Busy
    <2>3. Elements(cached') \cup missing'[c] = Wanted(request[c]) \cup Elements(cached')
      BY <2>1, LoadedTypes
    <2>4. /\ pc'[c] = IF missing'[c] = {} /\ ~request[c].ignoreCache THEN "respond" ELSE "fetch"
          /\ \A d \in Clients \ {c} : pc'[d] = pc[d] /\ missing'[d] = missing[d]
      BY <1>0, <2>1 DEF Loaded, Goto
    <2>5. HasAll(c)'
      <3>1. CASE pc'[c] = "respond"
        <4>1. Wanted(request[c]) \cap usage \subseteq Elements(cached') \cup Elements(fetched')
          BY <2>3, <2>4, <3>1
        <4>2. ~request[c].ignoreCache
          BY <2>4, <3>1
        <4> QED
          BY <2>2, <3>1, <4>1, <4>2 DEF HasAll, Wanted
      <3>2. CASE pc'[c] = "fetch"
        <4>1. Wanted(request[c]) \subseteq Elements(cached') \cup missing'[c]
          BY <2>3
        <4> QED
          BY <2>2, <3>2, <4>1 DEF HasAll, Wanted
      <3> QED
        BY <2>4, <3>1, <3>2
    <2> QED
      BY <2>2, <2>4, <2>5, OneAlone
  <1>5. ASSUME NEW c \in Clients, FileIsMissing(c) \/ FetchFails(c) PROVE AloneInv'
    <2>1. /\ Busy(c) /\ UNCHANGED <<usage, alone, request, missing, answer>>
          /\ pc'[c] \in {"create", "failed"} /\ \A d \in Clients \ {c} : pc'[d] = pc[d]
      BY <1>0, <1>5 DEF FileIsMissing, FetchFails, Busy, Goto
    <2>2. HasAll(c)'
      BY <2>1 DEF HasAll
    <2> QED
      BY <2>1, <2>2, OneAlone
  <1>6. ASSUME NEW c \in Clients, FetchIgnoringCache(c) PROVE AloneInv'
    <2>1. /\ Busy(c) /\ UNCHANGED <<usage, alone, request, missing>>
          /\ request[c].ignoreCache /\ Answer(c, Ascending(missing[c]))
      BY <1>6 DEF FetchIgnoringCache, Busy
    <2>2. pc'[c] = "answered" /\ \A d \in Clients \ {c} : pc'[d] = pc[d] /\ answer'[d] = answer[d]
      BY <1>0, <2>1 DEF Answer, Goto, TypeOK
    <2>3. ASSUME NEW p \in usage, p \in missing[c] PROVE answer'[c][p] # 0
      <3>1. p \in Elements(Ascending(missing[c])) /\ Ascending(missing[c]) \in Seq(Periods)
        BY <1>0, <2>3, AscendingOf
      <3>2. Count(Ascending(missing[c]), p) \in Nat /\ Count(Ascending(missing[c]), p) >= 1
        BY <3>1, CountOf
      <3>3. answer'[c][p] = Count(Ascending(missing[c]), p)
        BY <1>0, <2>1, <2>3, <3>1, AnswerTypes
      <3> QED
        BY <3>2, <3>3
    <2>4. HasAll(c)'
      BY <2>1, <2>2, <2>3 DEF HasAll
    <2> QED
      BY <2>1, <2>2, <2>4, OneAlone
  <1>7. ASSUME NEW c \in Clients, FetchNothing(c) PROVE AloneInv'
    <2>1. /\ Busy(c) /\ UNCHANGED <<usage, alone, request, missing, answer, cached, fetched>>
          /\ pc[c] = "fetch" /\ ~request[c].ignoreCache /\ missing[c] \cap usage = {}
          /\ pc'[c] = "respond" /\ \A d \in Clients \ {c} : pc'[d] = pc[d]
      BY <1>0, <1>7 DEF FetchNothing, Busy, Goto
    <2>2. alone[c] => HasAll(c)'
      <3>1. alone[c] => Wanted(request[c]) \subseteq Elements(cached) \cup missing[c]
        BY <2>1 DEF AloneInv, HasAll
      <3>2. alone[c] => Wanted(request[c]) \cap usage \subseteq Elements(cached) \cup Elements(fetched)
        BY <2>1, <3>1
      <3> QED
        BY <2>1, <3>2 DEF HasAll, Wanted
    <2> QED
      BY <2>1, <2>2, OneAlone
  <1>8. ASSUME NEW c \in Clients, Fetch(c) PROVE AloneInv'
    <2>1. /\ Busy(c) /\ UNCHANGED <<usage, alone, request, missing, answer, cached>>
          /\ pc[c] = "fetch" /\ ~request[c].ignoreCache
          /\ fetched' = Persisted(c)
          /\ pc'[c] = "write" /\ \A d \in Clients \ {c} : pc'[d] = pc[d]
      BY <1>0, <1>8 DEF Fetch, Busy, Goto
    <2>2. Elements(fetched') = Periods \cap missing[c]
      BY <2>1, AscendingOf DEF Persisted
    <2>3. alone[c] => HasAll(c)'
      <3>1. alone[c] => Wanted(request[c]) \subseteq Elements(cached) \cup missing[c]
        BY <2>1 DEF AloneInv, HasAll
      <3>2. alone[c] => Wanted(request[c]) \cap usage \subseteq Elements(cached) \cup Elements(fetched')
        BY <1>0, <2>1, <2>2, <3>1
      <3> QED
        BY <2>1, <3>2 DEF HasAll, Wanted
    <2> QED
      BY <2>1, <2>3, OneAlone
  <1>9. ASSUME NEW c \in Clients, WriteFile(c) \/ StartUpload(c) PROVE AloneInv'
    <2>1. /\ Busy(c) /\ UNCHANGED <<usage, alone, request, missing, answer, cached, fetched>>
          /\ pc[c] = "write"
          /\ pc'[c] = "respond" /\ \A d \in Clients \ {c} : pc'[d] = pc[d]
      BY <1>0, <1>9 DEF WriteFile, StartUpload, Busy, Goto
    <2>2. alone[c] => HasAll(c)'
      BY <2>1 DEF AloneInv, HasAll, Wanted
    <2> QED
      BY <2>1, <2>2, OneAlone
  <1>10. ASSUME NEW c \in Clients, Respond(c) PROVE AloneInv'
    <2>1. /\ Busy(c) /\ UNCHANGED <<usage, alone, request, missing, cached, fetched>>
          /\ pc[c] = "respond" /\ Answer(c, cached \o fetched)
      BY <1>10 DEF Respond, Busy
    <2>2. pc'[c] = "answered" /\ \A d \in Clients \ {c} : pc'[d] = pc[d] /\ answer'[d] = answer[d]
      BY <1>0, <2>1 DEF Answer, Goto, TypeOK
    <2>3. ASSUME NEW p \in usage, p \in Elements(cached) \cup Elements(fetched) PROVE answer'[c][p] >= 1
      <3>1. p \in Elements(cached \o fetched) /\ cached \o fetched \in Seq(Periods)
        BY <1>0, <2>3, ElementsOfTwo
      <3>2. Count(cached \o fetched, p) >= 1
        BY <3>1, CountOf
      <3>3. answer'[c][p] = Count(cached \o fetched, p)
        BY <1>0, <2>1, <2>3, <3>1, AnswerTypes
      <3> QED
        BY <3>2, <3>3
    <2>4. alone[c] => HasAll(c)'
      <3> SUFFICES ASSUME alone[c] PROVE HasAll(c)'
        OBVIOUS
      <3>1. /\ ~request[c].ignoreCache
            /\ Wanted(request[c]) \cap usage \subseteq Elements(cached) \cup Elements(fetched)
        BY <2>1 DEF AloneInv, HasAll
      <3>2. \A p \in Wanted(request[c]) \cap usage : answer'[c][p] >= 1
        BY <2>3, <3>1
      <3>3. Complete(c)'
        BY <2>1, <3>2 DEF Complete, Wanted
      <3> QED
        BY <2>1, <2>2, <3>1, <3>3 DEF HasAll
    <2> QED
      BY <2>1, <2>2, <2>4, OneAlone
  <1> QED
    BY <1>1, <1>2, <1>3, <1>4, <1>5, <1>6, <1>7, <1>8, <1>9, <1>10 DEF Next

\* What the invariant says of an answer.
LEMMA AloneFromInv == AloneInv => AloneIsComplete
  BY DEF AloneInv, HasAll, AloneIsComplete

(***************************************************************************)
(* One request at a time, all from the first period on: the cache is a     *)
(* beginning of the calendar.                                              *)
(***************************************************************************)
\* The first n periods.
Upto(n) == [p \in 1..n |-> p]
\* What the cache file may hold in orderly use.
Prefixes == {Upto(n) : n \in 0..NPeriods}

\* The items of such a beginning, each at its place.
LEMMA UptoFacts ==
  ASSUME NEW n \in 0..NPeriods
  PROVE /\ Upto(n) \in Seq(Periods) /\ Len(Upto(n)) = n /\ DOMAIN Upto(n) = 1..n
        /\ \A i \in 1..n : Upto(n)[i] = i
        /\ Elements(Upto(n)) = 1..n
        /\ \A p \in Periods : Count(Upto(n), p) = IF p <= n THEN 1 ELSE 0
        /\ n < NPeriods => Append(Upto(n), n + 1) = Upto(n + 1)
  <1>1. NPeriods \in Nat /\ n \in Nat /\ n <= NPeriods /\ 1..n \subseteq Periods
    BY Bounds DEF Periods
  <1>2. /\ Upto(n) \in Seq(Periods) /\ Len(Upto(n)) = n /\ DOMAIN Upto(n) = 1..n
        /\ \A i \in 1..n : Upto(n)[i] = i
    BY <1>1 DEF Upto
  <1>3. Elements(Upto(n)) = 1..n
    BY <1>2 DEF Elements
  <1>4. ASSUME NEW p \in Periods PROVE Count(Upto(n), p) = IF p <= n THEN 1 ELSE 0
    <2>1. p \in Nat \ {0}
      BY Bounds DEF Periods
    <2>2. {i \in DOMAIN Upto(n) : Upto(n)[i] = p} = IF p <= n THEN {p} ELSE {}
      BY <1>1, <1>2, <2>1
    <2>3. Cardinality({p}) = 1 /\ Cardinality({}) = 0
      BY FS_Singleton, FS_EmptySet
    <2> QED
      BY <2>2, <2>3 DEF Count
  <1>5. ASSUME n < NPeriods PROVE Append(Upto(n), n + 1) = Upto(n + 1)
    <2> DEFINE s == Upto(n)
    <2>1. s \in Seq(Nat) /\ Len(s) = n /\ \A i \in 1..n : s[i] = i
      <3>1. \A i \in 1..n : s[i] = i
        BY <1>2
      <3>2. s = [i \in 1..n |-> s[i]]
        BY DEF Upto
      <3> QED
        BY <1>1, <1>2, <3>1, <3>2
    <2> HIDE DEF s
    <2>2. Append(s, n + 1) = [i \in 1..n + 1 |-> IF i = n + 1 THEN n + 1 ELSE s[i]]
      BY <1>1, <2>1
    <2>3. \A i \in 1..n + 1 : (IF i = n + 1 THEN n + 1 ELSE s[i]) = i
      BY <1>1, <2>1
    <2> QED
      BY <2>2, <2>3 DEF Upto, s
  <1> QED
    BY <1>2, <1>3, <1>4, <1>5

\* The shortest one.
LEMMA UptoNone == Upto(0) = <<>>
  <1>1. 0 \in 0..NPeriods
    BY Bounds
  <1>2. Upto(0) \in Seq(Periods) /\ Len(Upto(0)) = 0
    BY <1>1, UptoFacts
  <1> QED
    BY <1>2, EmptySeq

\* One period more is selected, or not.
LEMMA SelectNext ==
  ASSUME NEW S, NEW j \in 0..NPeriods, j < NPeriods
  PROVE Select(Upto(j + 1), S) =
          IF j + 1 \in S THEN Append(Select(Upto(j), S), j + 1) ELSE Select(Upto(j), S)
  <1>1. ASSUME NEW s \in Seq(Periods), NEW x \in Periods, NEW t, t = Append(s, x)
        PROVE Select(t, S) = IF x \in S THEN Append(Select(s, S), x) ELSE Select(s, S)
    BY <1>1, SelectAppend
  <1>2. Upto(j) \in Seq(Periods) /\ Upto(j + 1) = Append(Upto(j), j + 1)
    BY UptoFacts
  <1>3. j + 1 \in Periods
    BY Bounds DEF Periods
  <1> QED
    BY <1>1, <1>2, <1>3

\* What is selected up to a period.
LEMMA SelectUpto ==
  ASSUME NEW k \in 0..NPeriods, NEW m \in Nat, NEW S,
         \A p \in Periods : p \in S <=> p <= m
  PROVE Select(Upto(k), S) = Upto(IF k <= m THEN k ELSE m)
  <1> DEFINE good == {j \in Nat : j <= NPeriods =>
                        Select(Upto(j), S) = Upto(IF j <= m THEN j ELSE m)}
  <1>1. 0 \in good
    BY SelectEmpty, UptoNone
  <1>2. ASSUME NEW j \in Nat, j \in good PROVE j + 1 \in good
    <2> SUFFICES ASSUME j + 1 <= NPeriods
                 PROVE Select(Upto(j + 1), S) = Upto(IF j + 1 <= m THEN j + 1 ELSE m)
      OBVIOUS
    <2>1. j \in 0..NPeriods /\ j < NPeriods /\ j + 1 \in Periods
      BY Bounds DEF Periods
    <2>2. Select(Upto(j), S) = Upto(IF j <= m THEN j ELSE m)
      BY <1>2, <2>1, Bounds
    <2>3. Append(Upto(j), j + 1) = Upto(j + 1) /\ Upto(j) \in Seq(Periods)
      BY <2>1, UptoFacts
    <2>4. Select(Upto(j + 1), S) =
            IF j + 1 \in S THEN Append(Select(Upto(j), S), j + 1) ELSE Select(Upto(j), S)
      BY <2>1, SelectNext
    <2>5. CASE j + 1 <= m
      <3>1. Select(Upto(j), S) = Upto(j) /\ j + 1 \in S
        BY <2>1, <2>2, <2>5
      <3>2. Select(Upto(j + 1), S) = Upto(j + 1)
        BY <2>3, <2>4, <3>1
      <3> QED
        BY <2>5, <3>2
    <2>6. CASE j + 1 > m
      <3>1. (IF j <= m THEN j ELSE m) = m /\ ~(j + 1 <= m)
        BY <2>6
      <3> QED
        BY <2>1, <2>2, <2>3, <2>4, <3>1
    <2> QED
      BY <2>5, <2>6
  <1> HIDE DEF good
  <1>3. Nat \subseteq good
    BY <1>1, <1>2, Induction
  <1> QED
    BY <1>3, Bounds DEF good

\* What follows what is there.
LEMMA JoinUpto ==
  ASSUME NEW i \in 0..NPeriods, NEW last \in 0..NPeriods, i <= last
  PROVE Upto(i) \o Ascending(i + 1..last) = Upto(last)
  <1> DEFINE S == i + 1..last
  <1> DEFINE to(j) == IF j <= i THEN i ELSE IF j <= last THEN j ELSE last
  <1> DEFINE good == {j \in Nat : j <= NPeriods => Upto(i) \o Select(Upto(j), S) = Upto(to(j))}
  <1>0. Upto(i) \in Seq(Periods) /\ NPeriods \in Nat /\ i \in Nat /\ last \in Nat
    BY UptoFacts, Bounds
  <1>1. 0 \in good
    <2>1. Select(Upto(0), S) = <<>>
      BY SelectEmpty, UptoNone
    <2>2. Upto(i) \o <<>> = Upto(i)
      BY <1>0
    <2> QED
      BY <1>0, <2>1, <2>2
  <1>2. ASSUME NEW j \in Nat, j \in good PROVE j + 1 \in good
    <2> SUFFICES ASSUME j + 1 <= NPeriods PROVE Upto(i) \o Select(Upto(j + 1), S) = Upto(to(j + 1))
      OBVIOUS
    <2>1. j \in 0..NPeriods /\ j < NPeriods /\ j + 1 \in Periods
      BY Bounds DEF Periods
    <2>2. Upto(i) \o Select(Upto(j), S) = Upto(to(j))
      BY <1>0, <1>2, <2>1
    <2>3. Append(Upto(j), j + 1) = Upto(j + 1) /\ Upto(j) \in Seq(Periods)
      BY <2>1, UptoFacts
    <2>4. Select(Upto(j + 1), S) =
            IF j + 1 \in S THEN Append(Select(Upto(j), S), j + 1) ELSE Select(Upto(j), S)
      <3> HIDE DEF S
      <3> QED
        BY <2>1, SelectNext
    <2>5. Select(Upto(j), S) \in Seq(Periods)
      BY <2>3, SelectedPeriods
    <2>6. CASE j + 1 \in S
      <3>1. to(j) = j /\ to(j + 1) = j + 1
        BY <1>0, <2>6
      <3> DEFINE t == Select(Upto(j), S)
      <3>2. t \in Seq(Periods) /\ Upto(i) \o t = Upto(j)
        BY <2>2, <2>5, <3>1
      <3> HIDE DEF t
      <3>3. Upto(i) \o Append(t, j + 1) = Append(Upto(i) \o t, j + 1)
        BY <1>0, <2>1, <3>2
      <3> QED
        BY <2>3, <2>4, <2>6, <3>1, <3>2, <3>3 DEF t
    <2>7. CASE j + 1 \notin S
      <3>1. to(j + 1) = to(j)
        BY <1>0, <2>7
      <3> HIDE DEF to, S
      <3> QED
        BY <2>2, <2>3, <2>4, <2>7, <3>1
    <2> QED
      BY <2>6, <2>7
  <1>3. Nat \subseteq good
    <2> HIDE DEF good
    <2> QED
      BY <1>1, <1>2, Induction
  <1>4. Upto(i) \o Select(Upto(NPeriods), S) = Upto(last)
    <2>1. NPeriods \in good /\ to(NPeriods) = last
      BY <1>0, <1>3
    <2> QED
      BY <1>0, <2>1
  <1>5. Ascending(S) = Select(Upto(NPeriods), S)
    BY DEF Ascending, Upto, Periods
  <1> HIDE DEF S
  <1>6. Upto(i) \o Ascending(S) = Upto(last)
    BY <1>4, <1>5
  <1> QED
    BY <1>6 DEF S

\* Writing more of the calendar over less of it leaves nothing behind.
LEMMA WriteUpto ==
  ASSUME NEW n \in 0..NPeriods, NEW k \in 0..NPeriods, k <= n
  PROVE Overwritten(Upto(n), Upto(k)) = {Sound(Upto(n))}
  <1>1. /\ Upto(n) \in Seq(Periods) /\ Len(Upto(n)) = n /\ \A i \in 1..n : Upto(n)[i] = i
        /\ Upto(k) \in Seq(Periods) /\ Len(Upto(k)) = k
    BY UptoFacts
  <1>2. SubSeq(Upto(n), 1, k) = Upto(k)
    <2> DEFINE s == Upto(n)
    <2>1. s \in Seq(Periods) /\ Len(s) = n /\ n \in Nat /\ k \in Nat
      BY <1>1, Bounds
    <2>2. \A i \in 1..k : s[i] = i
      BY <1>1, <2>1
    <2> HIDE DEF s
    <2>3. SubSeq(s, 1, k) = [i \in 1..k |-> s[i]]
      BY <2>1
    <2> QED
      BY <2>2, <2>3 DEF Upto, s
  <1>3. Begins(Upto(n), Upto(k))
    BY <1>1, <1>2 DEF Begins
  <1> QED
    BY <1>3 DEF Overwritten
\* What a request keeps of such a cache, and what it then misses.
LEMMA KeepUpto ==
  ASSUME NEW r \in Requests, r.first = 1, r.aligned, NEW k \in 0..NPeriods
  PROVE \E n \in 0..r.last : /\ Filtered(r, Upto(k)) = Upto(n)
                             /\ Wanted(r) \ Elements(Upto(n)) = n + 1..r.last
                             /\ n = k \/ n = r.last
  <1> DEFINE S == {p \in Periods : InRange(r, p)}
             n == IF k <= r.last THEN k ELSE r.last
  <1>1. r.last \in Periods /\ Wanted(r) = 1..r.last /\ NPeriods \in Nat /\ Periods = 1..NPeriods
    BY WantedPeriods, Bounds DEF Wanted, Periods
  <1>2. \A p \in Periods : p \in S <=> p <= r.last
    BY <1>1 DEF InRange
  <1>3. Filtered(r, Upto(k)) = Upto(n)
    <2>1. Filtered(r, Upto(k)) = Select(Upto(k), S) /\ r.last \in Nat
      BY <1>1 DEF Filtered
    <2> HIDE DEF S
    <2> QED
      BY <1>2, <2>1, SelectUpto
  <1>4. n \in 0..r.last /\ n \in 0..NPeriods /\ (n = k \/ n = r.last)
    BY <1>1
  <1>5. Wanted(r) \ Elements(Upto(n)) = n + 1..r.last
    <2>1. Elements(Upto(n)) = 1..n
      BY <1>4, UptoFacts
    <2> QED
      BY <1>1, <1>4, <2>1
  <1> QED
    BY <1>3, <1>4, <1>5

\* What is there for a request that is the first to fetch something.
Got(c) ==
  \E n \in 0..request[c].last : /\ cached \o fetched = Upto(n)
                                /\ \A p \in usage : p <= request[c].last => p <= n

\* A request that is the only one, and starts from the first period.
InOrder(c) ==
  /\ Busy(c) => request[c].first = 1 /\ request[c].aligned
  /\ pc[c] \in {"load", "create", "fetch"} /\ fresh[c] => fetched = <<>>
  /\ pc[c] = "fetch" =>
       \E n \in 0..request[c].last :
         /\ cached = Upto(n)
         /\ missing[c] = n + 1..request[c].last
         /\ mode = "LOCAL" /\ ~request[c].ignoreCache => Len(file.lines) <= n
  /\ pc[c] = "write" =>
       /\ ~request[c].ignoreCache
       /\ output[c] = Upto(request[c].last)
       /\ cached \o fetched = Upto(request[c].last)
       /\ mode = "LOCAL" => Len(file.lines) <= request[c].last
  /\ pc[c] = "respond" /\ fresh[c] => Got(c)
  /\ Served(c) /\ fresh[c] => Exact(c)

\* What is stored, and what will be: only a kill tears the file.
FileInOrder ==
  /\ file.lines \in Prefixes /\ uploads \subseteq Prefixes
  /\ mode = "LOCAL" => uploads = {}
  /\ crashes = 0 => file.state # "torn"

\* The second invariant: it says nothing of any other use.
OrderInv == orderly => FileInOrder /\ \A c \in Clients : NoOther(c) /\ InOrder(c)

\* At first there is no file and no request.
LEMMA InitOrder == Init => OrderInv
  <1> SUFFICES ASSUME Init PROVE FileInOrder /\ \A c \in Clients : NoOther(c) /\ InOrder(c)
    BY DEF OrderInv
  <1>1. <<>> \in Prefixes
    BY UptoNone, Bounds DEF Prefixes
  <1>2. file.lines = <<>> /\ file.state = "absent" /\ uploads = {}
    BY DEF Init, Absent
  <1> QED
    BY <1>1, <1>2 DEF Init, FileInOrder, NoOther, Busy, InOrder, Served

\* A request in progress is the only one: its steps are all that happens.
LEMMA OneInOrder ==
  ASSUME TypeOK, OrderInv, NEW c \in Clients, Busy(c),
         UNCHANGED <<usage, mode, request, fresh, orderly>>,
         \A d \in Clients \ {c} : pc'[d] = pc[d] /\ answer'[d] = answer[d],
         orderly => FileInOrder' /\ InOrder(c)'
  PROVE OrderInv'
  <1> SUFFICES ASSUME orderly, NEW d \in Clients PROVE (NoOther(d) /\ InOrder(d))'
    BY DEF OrderInv
  <1>1. NoOther(c) /\ NoOther(d) /\ InOrder(d)
    BY DEF OrderInv
  <1>2. CASE d = c
    BY <1>1, <1>2 DEF NoOther, Busy
  <1>3. CASE d # c
    <2>1. ~Busy(d) /\ ~Busy(d)'
      BY <1>1, <1>3 DEF NoOther, Busy
    <2>2. Served(d)' /\ fresh'[d] => Exact(d)'
      BY <1>1, <1>3 DEF InOrder, Served, Exact, Wanted
    <2> QED
      BY <2>1, <2>2 DEF NoOther, Busy, InOrder
  <1> QED
    BY <1>2, <1>3

\* What happens to the file only.
LEMMA FileOnly ==
  ASSUME TypeOK, OrderInv, orderly' = orderly,
         UNCHANGED <<usage, mode, request, fresh, pc, cached, fetched, missing, output, answer>>,
         orderly => FileInOrder',
         mode = "LOCAL" => file'.lines = file.lines \/ file'.lines = <<>>
  PROVE OrderInv'
  <1> SUFFICES ASSUME orderly, NEW c \in Clients PROVE (NoOther(c) /\ InOrder(c))'
    BY DEF OrderInv
  <1>1. NoOther(c) /\ InOrder(c) /\ file.lines \in Prefixes
    BY DEF OrderInv, FileInOrder
  <1>2. \A n \in Nat : mode = "LOCAL" /\ Len(file.lines) <= n => Len(file'.lines) <= n
    <2>1. Len(<<>>) = 0 /\ Len(file.lines) \in Nat
      BY <1>1, UptoFacts, Bounds DEF Prefixes
    <2> QED
      BY <2>1
  <1>3. request[c].last \in Nat
    BY WantedPeriods DEF TypeOK
  <1>4. pc[c] = "fetch" =>
          \E n \in 0..request[c].last :
            /\ cached = Upto(n)
            /\ missing[c] = n + 1..request[c].last
            /\ mode = "LOCAL" /\ ~request[c].ignoreCache => Len(file'.lines) <= n
    <2> SUFFICES ASSUME pc[c] = "fetch"
                 PROVE \E n \in 0..request[c].last :
                         /\ cached = Upto(n)
                         /\ missing[c] = n + 1..request[c].last
                         /\ mode = "LOCAL" /\ ~request[c].ignoreCache => Len(file'.lines) <= n
      OBVIOUS
    <2>1. PICK n \in 0..request[c].last :
            /\ cached = Upto(n)
            /\ missing[c] = n + 1..request[c].last
            /\ mode = "LOCAL" /\ ~request[c].ignoreCache => Len(file.lines) <= n
      BY <1>1 DEF InOrder
    <2>2. n \in Nat
      BY <1>3
    <2> QED
      BY <1>2, <2>1, <2>2
  <1>5. pc[c] = "write" /\ mode = "LOCAL" => Len(file'.lines) <= request[c].last
    BY <1>1, <1>2, <1>3 DEF InOrder
  <1> QED
    BY <1>1, <1>4, <1>5 DEF NoOther, Busy, InOrder, Served, Exact, Got, Wanted

\* The process ends.
LEMMA EndInOrder ==
  ASSUME TypeOK, OrderInv, ProcessEnds,
         UNCHANGED <<usage, mode, request, fresh, orderly, answer>>,
         orderly => file'.lines \in Prefixes /\ (crashes' = 0 => file'.state # "torn")
  PROVE OrderInv'
  <1>0. orderly => FileInOrder'
    BY DEF ProcessEnds, FileInOrder
  <1> SUFFICES ASSUME orderly, NEW c \in Clients PROVE (NoOther(c) /\ InOrder(c))'
    BY <1>0 DEF OrderInv
  <1>1. InOrder(c)
    BY DEF OrderInv
  <1>2. pc'[c] \in {"idle", "answered", "failed"} /\ (pc'[c] = "answered" => pc[c] = "answered")
    BY DEF ProcessEnds
  <1> QED
    BY <1>1, <1>2 DEF NoOther, Busy, InOrder, Served, Exact, Wanted

\* A request starts while no other is in progress.
LEMMA AskInOrder ==
  ASSUME TypeOK, OrderInv, NEW c \in Clients, NEW r \in Requests, Ask(c, r)
  PROVE OrderInv'
  <1>1. /\ pc' = [pc EXCEPT ![c] = "load"] /\ request' = [request EXCEPT ![c] = r]
        /\ fresh' = [fresh EXCEPT ![c] = fetched = <<>>]
        /\ UNCHANGED <<usage, mode, cached, fetched, missing, answer, output, file, uploads, crashes>>
        /\ orderly' => /\ orderly /\ r.first = 1 /\ r.aligned
                       /\ \A e \in Clients \ {c} : ~Busy(e)
    BY DEF Ask, Goto, Busy, given, manager
  <1> SUFFICES ASSUME orderly', NEW d \in Clients
               PROVE (NoOther(d) /\ InOrder(d))' /\ FileInOrder'
    BY DEF OrderInv
  <1>2. InOrder(d) /\ FileInOrder
    BY <1>1 DEF OrderInv
  <1>3. FileInOrder'
    BY <1>1, <1>2 DEF FileInOrder
  <1>4. /\ pc \in [Clients -> Stage] /\ request \in [Clients -> Requests]
        /\ fresh \in [Clients -> BOOLEAN]
    BY DEF TypeOK, Stage
  <1>5. CASE d = c
    <2>1. pc'[c] = "load" /\ request'[c] = r /\ (fresh'[c] => fetched' = <<>>)
      BY <1>1, <1>4
    <2>2. \A e \in Clients : Busy(e)' => e = c
      BY <1>1, <1>4 DEF Busy
    <2> QED
      BY <1>1, <1>3, <1>5, <2>1, <2>2 DEF NoOther, InOrder, Served
  <1>6. CASE d # c
    <2>1. /\ pc'[d] = pc[d] /\ request'[d] = request[d] /\ fresh'[d] = fresh[d] /\ answer'[d] = answer[d]
          /\ ~Busy(d)
      BY <1>1, <1>4, <1>6
    <2>2. Served(d)' /\ fresh'[d] => Exact(d)'
      BY <1>1, <1>2, <2>1 DEF InOrder, Served, Exact, Wanted
    <2> QED
      BY <1>3, <2>1, <2>2 DEF NoOther, Busy, InOrder
  <1> QED
    BY <1>5, <1>6

\* A request loads what is a beginning of the calendar.
LEMMA LoadInOrder ==
  ASSUME TypeOK, OrderInv, orderly, NEW c \in Clients, NEW s \in Prefixes, Loaded(c, s),
         pc[c] \in {"load", "create"},
         UNCHANGED <<mode, usage, request, fetched, fresh>>,
         mode = "LOCAL" => file'.lines = s
  PROVE InOrder(c)'
  <1> DEFINE r == request[c]
  <1>1. /\ r \in Requests /\ r.first = 1 /\ r.aligned /\ (fresh[c] => fetched = <<>>)
        /\ r.last \in Nat /\ r.last \in 0..NPeriods
    <2>1. r \in Requests /\ r.first = 1 /\ r.aligned /\ (fresh[c] => fetched = <<>>)
      BY DEF TypeOK, OrderInv, InOrder, Busy
    <2>2. r.last \in Nat /\ r.last \in 0..NPeriods
      BY <2>1, WantedPeriods, Bounds DEF Periods
    <2> QED
      BY <2>1, <2>2
  <1> HIDE DEF r
  <1>2. PICK k \in 0..NPeriods : s = Upto(k)
    BY DEF Prefixes
  <1>3. PICK n \in 0..r.last : /\ Filtered(r, Upto(k)) = Upto(n)
                               /\ Wanted(r) \ Elements(Upto(n)) = n + 1..r.last
                               /\ n = k \/ n = r.last
    BY <1>1, KeepUpto
  <1>4. /\ cached' = Upto(n) /\ missing'[c] = n + 1..r.last
        /\ pc'[c] = IF missing'[c] = {} /\ ~r.ignoreCache THEN "respond" ELSE "fetch"
    BY <1>2, <1>3 DEF Loaded, Gaps, Goto, TypeOK, r
  <1>5. k \in Nat /\ Len(Upto(k)) = k /\ n \in Nat /\ n <= r.last
    BY <1>1, UptoFacts, Bounds
  <1>6. CASE pc'[c] = "fetch"
    <2>1. mode = "LOCAL" /\ ~r.ignoreCache => Len(file'.lines) <= n
      <3>1. ~r.ignoreCache => n # r.last
        <4>1. n = r.last => n + 1..r.last = {}
          BY <1>1, <1>5
        <4> QED
          BY <1>4, <1>6, <4>1
      <3> QED
        BY <1>2, <1>3, <1>5, <3>1
    <2> QED
      BY <1>1, <1>4, <1>6, <2>1 DEF InOrder, Busy, Served, r
  <1>7. CASE pc'[c] = "respond"
    <2>1. n = r.last
      <3>1. n + 1..r.last = {}
        BY <1>4, <1>7
      <3>2. n < r.last => r.last \in n + 1..r.last
        BY <1>1, <1>5
      <3> QED
        BY <1>1, <1>5, <3>1, <3>2
    <2>2. fresh[c] => cached' \o fetched' = Upto(n)
      <3>1. n \in 0..NPeriods
        BY <1>1, <1>5, Bounds
      <3>2. Upto(n) \in Seq(Periods)
        BY <3>1, UptoFacts
      <3> QED
        BY <1>1, <1>4, <3>2
    <2>3. fresh[c] => Got(c)'
      BY <1>4, <2>1, <2>2 DEF Got, r
    <2> QED
      BY <1>1, <1>7, <2>3 DEF InOrder, Busy, Served, r
  <1> QED
    BY <1>4, <1>6, <1>7

\* An answer from the beginning of the calendar.
LEMMA RespondExactly ==
  ASSUME TypeOK, NEW c \in Clients, Got(c), request[c].first = 1,
         Answer(c, cached \o fetched), UNCHANGED <<usage, request>>
  PROVE Exact(c)'
  <1>1. PICK n \in 0..request[c].last :
           /\ cached \o fetched = Upto(n)
           /\ \A p \in usage : p <= request[c].last => p <= n
    BY DEF Got
  <1>2. request[c] \in Requests /\ usage \subseteq Periods
    BY DEF TypeOK
  <1>3. request[c].last \in Periods /\ NPeriods \in Nat /\ Periods = 1..NPeriods
    BY <1>2, WantedPeriods, Bounds DEF Periods
  <1>4. n \in 0..NPeriods /\ n <= request[c].last
    BY <1>3
  <1>5. Upto(n) \in Seq(Periods) /\ \A p \in Periods : Count(Upto(n), p) = IF p <= n THEN 1 ELSE 0
    BY <1>4, UptoFacts
  <1>6. answer'[c] = [p \in Periods |-> IF p \in usage THEN Count(Upto(n), p) ELSE 0]
    BY <1>1, <1>5, AnswerTypes
  <1> SUFFICES ASSUME NEW p \in Periods
               PROVE answer'[c][p] = IF p \in Wanted(request[c]) \cap usage THEN 1 ELSE 0
    BY DEF Exact, Wanted
  <1>7. answer'[c][p] = IF p \in usage THEN IF p <= n THEN 1 ELSE 0 ELSE 0
    BY <1>5, <1>6
  <1>8. p \in Wanted(request[c]) <=> p <= request[c].last
    BY <1>3 DEF Wanted
  <1> QED
    BY <1>1, <1>3, <1>4, <1>7, <1>8

\* What a write leaves.
LEMMA WrittenInOrder ==
  ASSUME TypeOK, OrderInv, orderly, NEW c \in Clients, pc[c] = "write", mode = "LOCAL",
         NEW f \in Written(c)
  PROVE f.lines \in Prefixes /\ (file.state # "torn" => f.state # "torn")
  <1> DEFINE n == request[c].last
  <1>1. n \in 0..NPeriods
    BY WantedPeriods, Bounds DEF TypeOK, Periods
  <1>2. output[c] = Upto(n) /\ Len(file.lines) <= n
    BY DEF OrderInv, InOrder
  <1>3. PICK k \in 0..NPeriods : file.lines = Upto(k)
    BY DEF OrderInv, FileInOrder, Prefixes
  <1>4. k <= n
    <2>1. Len(Upto(k)) = k
      BY UptoFacts
    <2> QED
      BY <1>2, <1>3, <2>1
  <1>5. Overwritten(output[c], file.lines) = {Sound(Upto(n))}
    BY <1>1, <1>2, <1>3, <1>4, WriteUpto
  <1>6. Upto(n) \in Prefixes /\ <<>> \in Prefixes
    BY <1>1, UptoNone, Bounds DEF Prefixes
  <1>7. file.state \in {"absent", "sound", "torn"}
    BY DEF TypeOK
  <1> HIDE DEF n
  <1>8. CASE f = Sound(Upto(n))
    BY <1>6, <1>8 DEF Sound
  <1>9. CASE f = Torn /\ file.state = "torn"
    BY <1>6, <1>9 DEF Torn
  <1>10. CASE f = Absent
    BY <1>6, <1>10 DEF Absent
  <1> QED
    BY <1>2, <1>5, <1>7, <1>8, <1>9, <1>10 DEF Written

\* One case for each action.
LEMMA NextOrder == TypeOK /\ OrderInv /\ [Next]_vars => OrderInv'
  <1> SUFFICES ASSUME TypeOK, OrderInv, [Next]_vars PROVE OrderInv'
    OBVIOUS
  <1> USE DEF given, manager, history, bounds
  <1>0. /\ cached \in Seq(Periods) /\ fetched \in Seq(Periods)
        /\ request \in [Clients -> Requests] /\ pc \in [Clients -> Stage]
        /\ missing \in [Clients -> SUBSET Periods] /\ output \in [Clients -> Seq(Periods)]
        /\ usage \subseteq Periods /\ <<>> \in Prefixes
    BY UptoNone, Bounds DEF TypeOK, Stage, Prefixes
  <1>1. CASE UNCHANGED vars \/ DeleteFile
    <2>1. orderly => FileInOrder'
      <3>1. CASE UNCHANGED vars
        BY <3>1 DEF OrderInv, FileInOrder, vars
      <3>2. CASE DeleteFile
        BY <1>0, <3>2 DEF OrderInv, FileInOrder, DeleteFile, Absent
      <3> QED
        BY <1>1, <3>1, <3>2
    <2>2. file'.lines = file.lines \/ file'.lines = <<>>
      BY <1>1 DEF DeleteFile, Absent, vars
    <2> QED
      BY <1>1, <2>1, <2>2, FileOnly DEF DeleteFile, vars
  <1>2. ASSUME NEW object \in uploads, UploadEnds(object) PROVE OrderInv'
    <2>1. orderly => FileInOrder'
      BY <1>2 DEF OrderInv, FileInOrder, UploadEnds, Sound
    <2>2. orderly => mode # "LOCAL"
      BY <1>2 DEF OrderInv, FileInOrder
    <2>3. CASE orderly
      BY <1>2, <2>1, <2>2, <2>3, FileOnly DEF UploadEnds
    <2>4. CASE ~orderly
      BY <1>2, <2>4 DEF UploadEnds, OrderInv
    <2> QED
      BY <2>3, <2>4
  <1>3. ASSUME NEW c \in Clients, NEW r \in Requests, Ask(c, r) PROVE OrderInv'
    BY <1>3, AskInOrder
  <1>4. CASE Kill
    <2>1. crashes' = crashes + 1 /\ crashes \in Nat
      BY <1>4, Bounds DEF Kill, TypeOK
    <2>2. orderly => file'.lines \in Prefixes /\ (crashes' = 0 => file'.state # "torn")
      BY <1>4, <2>1 DEF Kill, OrderInv, FileInOrder
    <2> QED
      BY <1>4, <2>2, EndInOrder DEF Kill
  <1>5. ASSUME NEW c \in Clients, LoadTornFile(c) PROVE OrderInv'
    BY <1>5, EndInOrder DEF LoadTornFile, OrderInv, FileInOrder
  <1>6. ASSUME NEW c \in Clients, KilledWhileWriting(c) PROVE OrderInv'
    <2>1. crashes' = crashes + 1 /\ crashes \in Nat
      BY <1>6, Bounds DEF KilledWhileWriting, TypeOK
    <2>2. orderly => file'.lines \in Prefixes
      <3> SUFFICES ASSUME orderly PROVE file'.lines \in Prefixes
        OBVIOUS
      <3>1. CASE file' \in Written(c)
        BY <1>6, <3>1, WrittenInOrder DEF KilledWhileWriting
      <3>2. CASE file' \in {file, Torn}
        BY <1>0, <3>2 DEF OrderInv, FileInOrder, Torn
      <3> QED
        BY <1>6, <3>1, <3>2 DEF KilledWhileWriting
    <2>3. orderly => file'.lines \in Prefixes /\ (crashes' = 0 => file'.state # "torn")
      BY <2>1, <2>2
    <2> QED
      BY <1>6, <2>3, EndInOrder DEF KilledWhileWriting
  <1>7. ASSUME NEW c \in Clients, LoadFile(c) \/ CreateFile(c) \/ LoadObjectFails(c)
        PROVE OrderInv'
    <2>1. /\ Busy(c) /\ UNCHANGED <<usage, mode, request, fetched, fresh, orderly, answer, uploads, crashes>>
          /\ pc[c] \in {"load", "create"}
      BY <1>7 DEF LoadFile, CreateFile, LoadObjectFails, Busy
    <2>2. PICK s : /\ Loaded(c, s) /\ (orderly => s \in Prefixes)
                   /\ (mode = "LOCAL" => file'.lines = s)
      <3>1. CASE LoadFile(c)
        BY <3>1 DEF LoadFile, OrderInv, FileInOrder
      <3>2. CASE CreateFile(c)
        BY <1>0, <3>2 DEF CreateFile, Sound
      <3>3. CASE LoadObjectFails(c)
        BY <1>0, <3>3 DEF LoadObjectFails
      <3> QED
        BY <1>7, <3>1, <3>2, <3>3
    <2>3. \A d \in Clients \ {c} : pc'[d] = pc[d] /\ answer'[d] = answer[d]
      BY <2>1, <2>2 DEF Loaded, Goto, TypeOK
    <2>4. orderly => FileInOrder'
      <3>1. UNCHANGED file \/ file' = Sound(<<>>)
        BY <1>7 DEF LoadFile, CreateFile, LoadObjectFails
      <3> QED
        BY <1>0, <2>1, <3>1 DEF OrderInv, FileInOrder, Sound
    <2>5. orderly => InOrder(c)'
      BY <2>1, <2>2, LoadInOrder
    <2> QED
      BY <2>1, <2>3, <2>4, <2>5, OneInOrder
  <1>8. ASSUME NEW c \in Clients, FileIsMissing(c) \/ FetchFails(c) PROVE OrderInv'
    <2>1. /\ Busy(c) /\ UNCHANGED <<usage, mode, file, request, fetched, fresh, orderly, answer,
                                    uploads, crashes>>
          /\ \A d \in Clients \ {c} : pc'[d] = pc[d]
          /\ (pc[c] = "load" /\ pc'[c] = "create") \/ pc'[c] = "failed"
      BY <1>0, <1>8 DEF FileIsMissing, FetchFails, Busy, Goto
    <2>2. orderly => FileInOrder' /\ InOrder(c)'
      BY <2>1 DEF OrderInv, FileInOrder, InOrder, Busy, Served
    <2> QED
      BY <2>1, <2>2, OneInOrder
  <1>9. ASSUME NEW c \in Clients, FetchIgnoringCache(c) PROVE OrderInv'
    <2>1. /\ Busy(c) /\ UNCHANGED <<usage, mode, file, request, fetched, fresh, orderly, uploads, crashes>>
          /\ pc'[c] = "answered" /\ request[c].ignoreCache
          /\ \A d \in Clients \ {c} : pc'[d] = pc[d] /\ answer'[d] = answer[d]
      BY <1>0, <1>9 DEF FetchIgnoringCache, Busy, Answer, Goto, TypeOK
    <2>2. orderly => FileInOrder' /\ InOrder(c)'
      BY <2>1 DEF OrderInv, FileInOrder, InOrder, Busy, Served
    <2> QED
      BY <2>1, <2>2, OneInOrder
  <1>10. ASSUME NEW c \in Clients, FetchNothing(c) PROVE OrderInv'
    <2>1. /\ Busy(c) /\ pc[c] = "fetch" /\ ~request[c].ignoreCache /\ missing[c] \cap usage = {}
          /\ UNCHANGED <<usage, mode, file, request, cached, fetched, fresh, orderly, answer, uploads, crashes>>
          /\ pc'[c] = "respond" /\ \A d \in Clients \ {c} : pc'[d] = pc[d]
      BY <1>0, <1>10 DEF FetchNothing, Busy, Goto
    <2>2. orderly /\ fresh[c] => Got(c)'
      <3> SUFFICES ASSUME orderly, fresh[c] PROVE Got(c)'
        OBVIOUS
      <3>1. PICK n \in 0..request[c].last :
              cached = Upto(n) /\ missing[c] = n + 1..request[c].last
        BY <2>1 DEF OrderInv, InOrder
      <3>2. fetched = <<>>
        BY <2>1 DEF OrderInv, InOrder
      <3>3. request[c].last \in Nat /\ NPeriods \in Nat /\ Periods = 1..NPeriods
        BY <1>0, WantedPeriods, Bounds DEF Periods
      <3>4. \A p \in usage : p <= request[c].last => p <= n
        BY <1>0, <2>1, <3>1, <3>3
      <3>5. cached \o fetched = Upto(n)
        BY <1>0, <3>1, <3>2
      <3> QED
        BY <2>1, <3>4, <3>5 DEF Got
    <2>3. orderly => FileInOrder' /\ InOrder(c)'
      BY <2>1, <2>2 DEF OrderInv, FileInOrder, InOrder, Busy, Served
    <2> QED
      BY <2>1, <2>3, OneInOrder
  <1>11. ASSUME NEW c \in Clients, Fetch(c) PROVE OrderInv'
    <2>1. /\ Busy(c) /\ pc[c] = "fetch" /\ ~request[c].ignoreCache
          /\ fetched' = Ascending(missing[c]) /\ output'[c] = cached \o Ascending(missing[c])
          /\ UNCHANGED <<usage, mode, file, request, cached, fresh, orderly, answer, uploads, crashes>>
          /\ pc'[c] = "write" /\ \A d \in Clients \ {c} : pc'[d] = pc[d]
      BY <1>0, <1>11 DEF Fetch, Busy, Goto, Output, Persisted
    <2>2. orderly => /\ cached \o Ascending(missing[c]) = Upto(request[c].last)
                     /\ mode = "LOCAL" => Len(file.lines) <= request[c].last
      <3> SUFFICES ASSUME orderly
                   PROVE /\ cached \o Ascending(missing[c]) = Upto(request[c].last)
                         /\ mode = "LOCAL" => Len(file.lines) <= request[c].last
        OBVIOUS
      <3>1. PICK n \in 0..request[c].last :
              /\ cached = Upto(n) /\ missing[c] = n + 1..request[c].last
              /\ mode = "LOCAL" => Len(file.lines) <= n
        BY <2>1 DEF OrderInv, InOrder
      <3>2. request[c].last \in 0..NPeriods /\ n \in 0..NPeriods /\ n <= request[c].last
            /\ request[c].last \in Nat /\ n \in Nat
        <4>1. request[c].last \in Periods /\ NPeriods \in Nat
          BY <1>0, WantedPeriods, Bounds
        <4> QED
          BY <4>1 DEF Periods
      <3>3. Len(file.lines) \in Nat
        BY DEF TypeOK
      <3>4. Upto(n) \o Ascending(n + 1..request[c].last) = Upto(request[c].last)
        BY <3>2, JoinUpto
      <3> QED
        BY <3>1, <3>2, <3>3, <3>4
    <2>3. orderly => FileInOrder' /\ InOrder(c)'
      BY <2>1, <2>2 DEF OrderInv, FileInOrder, InOrder, Busy, Served
    <2> QED
      BY <2>1, <2>3, OneInOrder
  <1>12. ASSUME NEW c \in Clients, WriteFile(c) \/ StartUpload(c) PROVE OrderInv'
    <2>1. /\ Busy(c) /\ pc[c] = "write"
          /\ UNCHANGED <<usage, mode, request, cached, fetched, fresh, orderly, answer, crashes>>
          /\ pc'[c] = "respond" /\ \A d \in Clients \ {c} : pc'[d] = pc[d]
      BY <1>0, <1>12 DEF WriteFile, StartUpload, Busy, Goto
    <2>2. request[c].last \in 0..NPeriods /\ request[c].last \in Nat
      <3>1. request[c].last \in Periods /\ NPeriods \in Nat
        BY <1>0, WantedPeriods, Bounds
      <3> QED
        BY <3>1 DEF Periods
    <2>3. orderly => FileInOrder'
      <3> SUFFICES ASSUME orderly PROVE FileInOrder'
        OBVIOUS
      <3>1. FileInOrder
        BY DEF OrderInv
      <3>2. CASE WriteFile(c)
        BY <2>1, <3>1, <3>2, WrittenInOrder DEF WriteFile, FileInOrder
      <3>3. CASE StartUpload(c)
        <4>1. output[c] \in Prefixes
          BY <2>1, <2>2 DEF OrderInv, InOrder, Prefixes
        <4> QED
          BY <3>1, <3>3, <4>1 DEF StartUpload, FileInOrder
      <3> QED
        BY <1>12, <3>2, <3>3
    <2>4. orderly => Got(c)'
      <3> SUFFICES ASSUME orderly PROVE Got(c)'
        OBVIOUS
      <3>1. cached \o fetched = Upto(request[c].last)
        BY <2>1 DEF OrderInv, InOrder
      <3>2. request[c].last \in 0..request[c].last
        BY <2>2
      <3> QED
        BY <2>1, <3>1, <3>2 DEF Got
    <2>5. orderly => InOrder(c)'
      BY <2>1, <2>4 DEF OrderInv, InOrder, Busy, Served
    <2> QED
      BY <2>1, <2>3, <2>5, OneInOrder
  <1>13. ASSUME NEW c \in Clients, Respond(c) PROVE OrderInv'
    <2>1. /\ Busy(c) /\ pc[c] = "respond" /\ Answer(c, cached \o fetched)
          /\ UNCHANGED <<usage, mode, file, request, cached, fetched, fresh, orderly, uploads, crashes>>
          /\ pc'[c] = "answered"
          /\ \A d \in Clients \ {c} : pc'[d] = pc[d] /\ answer'[d] = answer[d]
      BY <1>0, <1>13 DEF Respond, Busy, Answer, Goto, TypeOK
    <2>2. orderly /\ fresh[c] => Exact(c)'
      BY <2>1, RespondExactly DEF OrderInv, InOrder
    <2>3. orderly => FileInOrder' /\ InOrder(c)'
      BY <2>1, <2>2 DEF OrderInv, FileInOrder, InOrder, Busy, Served
    <2> QED
      BY <2>1, <2>3, OneInOrder
  <1> QED
    BY <1>1, <1>2, <1>3, <1>4, <1>5, <1>6, <1>7, <1>8, <1>9, <1>10, <1>11, <1>12, <1>13 DEF Next

\* The properties from the invariants.
LEMMA RightFromInv == AloneInv /\ OrderInv => AnswersAreRight
  BY AloneFromInv DEF OrderInv, InOrder, AnswersAreRight, FirstIsExact

LEMMA SoundFromInv == OrderInv => CacheStaysSound
  <1> SUFFICES ASSUME OrderInv, orderly
               PROVE /\ crashes = 0 => file.state # "torn"
                     /\ \A p \in Periods : Count(file.lines, p) <= 1
    BY DEF CacheStaysSound, FileStaysSound, NoDuplicates
  <1>1. PICK k \in 0..NPeriods : file.lines = Upto(k)
    BY DEF OrderInv, FileInOrder, Prefixes
  <1>2. \A p \in Periods : Count(file.lines, p) \in {0, 1}
    BY <1>1, UptoFacts
  <1> QED
    BY <1>2 DEF OrderInv, FileInOrder

\* For any number of periods and requests: whatever was cached before and by
\* whom, a request that no other one overlaps misses nothing of its range, and in
\* orderly use what is answered until the process has fetched is exact.
THEOREM RightAnswers == Spec => []AnswersAreRight
  BY InitTypes, NextTypes, InitAlone, NextAlone, InitOrder, NextOrder, RightFromInv, PTL
     DEF Spec

\* For any number of periods and requests: in orderly use no write leaves a part
\* of a line behind, and the cache never holds an estimate twice.
THEOREM SoundCache == Spec => []CacheStaysSound
  BY InitTypes, NextTypes, InitOrder, NextOrder, SoundFromInv, PTL DEF Spec

=============================================================================
