--------------------------- MODULE PagedEstimates ---------------------------
(***************************************************************************)
(* The views of the dashboard over the MongoDB cache: the loop in the      *)
(* footprint hook of the client that reads page after page of estimates,   *)
(* and the seeding script, which asks once.                                *)
(***************************************************************************)
EXTENDS MongoCache

CONSTANTS
  Requests,   \* what clients ask
  MaxViews    \* bound: views and seedings

ASSUME PagedAssumption ==
  /\ Requests \subseteq RequestType /\ Requests # {}
  /\ MaxViews \in Nat

VARIABLES
  steady,  \* a provider's estimates are the same in every period
  data,    \* the results a view has put together
  read,    \* the documents it was sent
  views

vars == <<server, steady, data, read, views>>

Init ==
  /\ usage \in SUBSET Documents
  /\ exists = FALSE
  /\ docs = <<>>
  /\ creating = 0
  /\ stage = [c \in Clients |-> "idle"]
  /\ request = [c \in Clients |-> CHOOSE r \in Requests : TRUE]
  /\ skip = [c \in Clients |-> 0]
  /\ missing = [c \in Clients |-> {}]
  /\ inserting = [c \in Clients |-> {}]
  /\ page = [c \in Clients |-> <<>>]
  /\ faults = 0
  /\ disturbed = {}
  /\ steady \in BOOLEAN
  /\ data = [c \in Clients |-> <<>>]
  /\ read = [c \in Clients |-> <<>>]
  /\ views = 0

Finished == {"idle", "shown", "failed"}

Open(c, r) ==
  /\ stage[c] \in Finished
  /\ views < MaxViews
  /\ views' = views + 1
  /\ Send(c, r, 0)
  /\ data' = [data EXCEPT ![c] = <<>>]
  /\ read' = [read EXCEPT ![c] = <<>>]
  /\ disturbed' = disturbed
       \cup (IF \E d \in Clients \ {c} : stage[d] \notin Finished THEN {"overlap"} ELSE {})
       \cup (IF r.seed # 0 THEN {"seed"} ELSE {})
       \cup (IF r.seed # 0 /\ ~r.capitals THEN {"name"} ELSE {})
  /\ UNCHANGED <<usage, database, missing, inserting, faults, steady>>

\* The server's steps, and what they send.
Sent(c) ==
  read' = [read EXCEPT ![c] =
             IF stage[c] = "read" /\ exists /\ request[c].seed = 0
             THEN @ \o PageOf(c) ELSE @]

ServerStep(c) == Serve(c) /\ Sent(c) /\ UNCHANGED <<steady, data, views>>
ServerDisturbed == Disturb /\ UNCHANGED <<steady, data, read, views>>

(***************************************************************************)
(* The loop of useRemoteFootprintService                                   *)
(***************************************************************************)
LastResult(results) == results[Len(results)]
LastProvider(results) ==
  LET providers == LastResult(results).providers IN providers[Len(providers)]

\* checkForEqualObjects: the last service estimates are equal.  They do not
\* have a timestamp.
EqualLast(new, old) ==
  /\ old # <<>>
  /\ \/ new = <<>>
     \/ /\ new # <<>>
        /\ LastProvider(new) = LastProvider(old)
        /\ steady \/ LastResult(new).period = LastResult(old).period

\* Faulty variant: the results of a page are appended as they are.
ConcatenateAll(old, new) == old \o new

\* concatenateResults: a result whose date is there already is looked for with
\* find, which returns no index, and is not merged.
Concatenate(old, new) ==
  old \o Select(new, {g \in Elements(new) : \A k \in DOMAIN old : old[k].period # g.period})

LoopExit(c) ==
  page[c] = <<>> \/ request[c].ignoreCache \/ EqualLast(page[c], data[c])

NextPage(c) ==
  /\ stage[c] = "answered"
  /\ request[c].seed = 0
  /\ ~LoopExit(c)
  /\ data' = [data EXCEPT ![c] = Concatenate(@, page[c])]
  /\ Send(c, request[c], skip[c] + Limit)
  /\ UNCHANGED <<usage, database, missing, inserting, events, steady, read, views>>

LastPage(c) ==
  /\ stage[c] = "answered"
  /\ request[c].seed = 0
  /\ LoopExit(c)
  /\ data' = [data EXCEPT ![c] = Concatenate(@, page[c])]
  /\ page' = [page EXCEPT ![c] = <<>>]
  /\ Goto(c, "shown")
  /\ UNCHANGED <<usage, database, request, skip, missing, inserting, events, steady,
                 read, views>>

\* seedCacheFile does not look at the answer.
Seeded(c) ==
  /\ stage[c] = "answered"
  /\ request[c].seed # 0
  /\ page' = [page EXCEPT ![c] = <<>>]
  /\ Goto(c, "shown")
  /\ UNCHANGED <<usage, database, request, skip, missing, inserting, events, steady,
                 data, read, views>>

Next ==
  \/ \E c \in Clients :
       \/ \E r \in Requests : Open(c, r)
       \/ ServerStep(c)
       \/ NextPage(c) \/ LastPage(c) \/ Seeded(c)
  \/ ServerDisturbed

Spec == Init /\ [][Next]_vars

\* The database and the providers answer, and the browser goes on.
Fairness ==
  \A c \in Clients :
    WF_vars(ServerStep(c)) /\ WF_vars(NextPage(c) \/ LastPage(c) \/ Seeded(c))

FairSpec == Spec /\ Fairness
-----------------------------------------------------------------------------
(***************************************************************************)
(* Properties.                                                             *)
(***************************************************************************)
Results == [period : Periods, providers : Seq(Providers)]

TypeOK ==
  /\ usage \subseteq Documents
  /\ exists \in BOOLEAN /\ docs \in Seq(Documents) /\ creating \in Nat
  /\ stage \in [Clients -> Active \cup Finished \cup {"answered"}]
  /\ request \in [Clients -> Requests]
  /\ skip \in [Clients -> Nat]
  /\ missing \in [Clients -> SUBSET Periods]
  /\ inserting \in [Clients -> SUBSET Documents]
  /\ page \in [Clients -> Seq(Results)]
  /\ faults \in 0..MaxFaults
  /\ disturbed \subseteq {"fault", "race", "overlap", "seed", "name"}
  /\ steady \in BOOLEAN
  /\ data \in [Clients -> Seq(Results)]
  /\ read \in [Clients -> Seq(Documents)]
  /\ views \in 0..MaxViews

Count(s, x) == Cardinality({i \in DOMAIN s : s[i] = x})

\* Whatever fails, and wherever an insertion or the process stops: if requests do
\* not overlap, and no provider is seeded by a name in small letters, which finds
\* none of its documents, no estimate is ever in the collection twice, where every
\* later total would contain it twice.
EachEstimateOnce ==
  disturbed \cap {"overlap", "name"} = {} => \A d \in Documents : Count(docs, d) <= 1

\* Whatever other requests insert between the pages of a view, among them documents
\* of earlier periods, no document is sent to it twice: the order that skip counts
\* in is that of insertion.
NothingAgain ==
  \A c \in Clients : \A d \in Elements(read[c]) : Count(read[c], d) <= Count(docs, d)

\* If nothing failed, nothing overlapped and no single provider was seeded, a
\* view that ends was sent all usage of its range, unless two estimates that
\* are equal but for their period made it end early.
NothingMissed ==
  \A c \in Clients :
    /\ stage[c] = "shown" /\ disturbed = {} /\ ~steady
    /\ request[c].seed = 0 /\ ~request[c].ignoreCache
    => Elements(read[c]) = {d \in usage : d[1] \in Wanted(c)}

\* What a view shows has each period once, and no period it was sent is absent.
EachPeriodOnce ==
  \A c \in Clients :
    /\ \A i, j \in DOMAIN data[c] : data[c][i].period = data[c][j].period => i = j
    /\ stage[c] = "shown" =>
         {d[1] : d \in Elements(read[c])} \subseteq {data[c][k].period : k \in DOMAIN data[c]}

\* All of the pages of a view.
ViewIsComplete == NothingAgain /\ NothingMissed /\ EachPeriodOnce

\* The loop of a view ends, whatever other requests insert meanwhile.
ViewsEnd == \A c \in Clients : stage[c] \notin Finished ~> stage[c] \in Finished
=============================================================================
