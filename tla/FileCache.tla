----------------------------- MODULE FileCache -----------------------------
(***************************************************************************)
(* The estimates cache kept in one JSON file, and the requests that use it: *)
(* the cache decorator around App.getCostAndEstimates with the local file  *)
(* and the Google Cloud Storage cache managers.                            *)
(*                                                                         *)
(* A request loads the file, keeps what falls into its range, estimates the *)
(* periods that are missing, writes both and answers with both.  What it   *)
(* keeps between these steps are fields of the cache manager, and there is *)
(* one manager for all requests of the process.  An estimate is the number *)
(* of its period: what providers report for a period does not change here. *)
(***************************************************************************)
EXTENDS CacheFile

CONSTANTS
  Clients,     \* requests that may be in progress at the same time
  NPeriods,    \* days, weeks or months
  Requests,    \* what clients ask: see RequestType
  Modes,       \* values of CACHE_MODE: "LOCAL", "GCS"
  MaxAsks,     \* bound: requests asked
  MaxCrashes   \* bound: crashes of the process from outside

Periods == 1..NPeriods

\* A request that starts within its first period is not aligned: the period
\* belongs to it, but the period's timestamp is before its start date.
RequestType ==
  [first : Periods, last : Periods, aligned : BOOLEAN, ignoreCache : BOOLEAN]

ASSUME CacheAssumption ==
  /\ NPeriods \in Nat \ {0}
  /\ Requests \subseteq RequestType /\ Requests # {}
  /\ Modes \subseteq {"LOCAL", "GCS"}
  /\ MaxAsks \in Nat
  /\ MaxCrashes \in Nat

VARIABLES
  mode,      \* CACHE_MODE
  usage,     \* periods the providers report usage for
  file,      \* the cache file or object
  cached,    \* cachedEstimates of the cache manager
  fetched,   \* fetchedEstimates of the cache manager
  pc,        \* what the request of a client is doing
  request,   \* what the client asked
  missing,   \* its missingDates
  output,    \* what it writes
  answer,    \* how often each period is in the client's last answer
  alone,     \* no other request was in progress since the client asked
  fresh,     \* nothing had been fetched in the process when it asked
  orderly,   \* one request at a time so far, all from the same start date
  uploads,   \* objects being uploaded to the bucket
  asks, crashes

given == <<mode, usage>>
manager == <<cached, fetched>>
history == <<alone, fresh, orderly>>
bounds == <<asks, crashes>>
vars == <<given, file, manager, pc, request, missing, output, answer, history,
          uploads, bounds>>

\* Faulty variant: the date after the end is requested, too.
WantedPastEnd(r) == r.first..r.last + 1

\* getDatesWithinRequestTimeFrame
Wanted(r) == r.first..r.last

\* filterEstimatesForRequest
InRange(r, p) == p \in Wanted(r) /\ (p = r.first => r.aligned)
Filtered(r, estimates) == Select(estimates, {p \in Periods : InRange(r, p)})

Count(s, p) == Cardinality({i \in DOMAIN s : s[i] = p})
Ascending(S) == Select([p \in Periods |-> p], S)

NoAnswer == [p \in Periods |-> 0]

Init ==
  /\ mode \in Modes
  /\ usage \in SUBSET Periods
  /\ file = Absent
  /\ cached = <<>> /\ fetched = <<>>
  /\ pc = [c \in Clients |-> "idle"]
  /\ request = [c \in Clients |-> CHOOSE r \in Requests : TRUE]
  /\ missing = [c \in Clients |-> {}]
  /\ output = [c \in Clients |-> <<>>]
  /\ answer = [c \in Clients |-> NoAnswer]
  /\ alone = [c \in Clients |-> TRUE]
  /\ fresh = [c \in Clients |-> TRUE]
  /\ orderly = TRUE
  /\ uploads = {}
  /\ asks = 0 /\ crashes = 0

Goto(c, label) == pc' = [pc EXCEPT ![c] = label]

\* A process that ends loses its requests and the fields of its manager.
ProcessEnds ==
  /\ pc' = [c \in Clients |-> IF pc[c] \in {"idle", "answered"} THEN pc[c] ELSE "failed"]
  /\ cached' = <<>> /\ fetched' = <<>>
  /\ uploads' = {}

-----------------------------------------------------------------------------
Ask(c, r) ==
  /\ pc[c] \in {"idle", "answered", "failed"}
  /\ asks < MaxAsks
  /\ asks' = asks + 1
  /\ request' = [request EXCEPT ![c] = r]
  /\ LET others == {d \in Clients \ {c} : pc[d] \notin {"idle", "answered", "failed"}}
     IN  alone' = [d \in Clients |-> IF d = c THEN others = {}
                                     ELSE alone[d] /\ d \notin others]
         /\ orderly' = (orderly /\ others = {} /\ r.first = 1 /\ r.aligned)
  /\ fresh' = [fresh EXCEPT ![c] = fetched = <<>>]
  /\ Goto(c, "load")
  /\ UNCHANGED <<given, file, manager, missing, output, answer, uploads, crashes>>

(***************************************************************************)
(* cacheManager.getMissingDates                                            *)
(***************************************************************************)

\* Faulty variants: the dates are looked up in the whole file; all are missing.
GapsInFile(c, kept, estimates) == Wanted(request[c]) \ Elements(estimates)
GapsEverywhere(c, kept, estimates) == Wanted(request[c])

Gaps(c, kept, estimates) == Wanted(request[c]) \ Elements(kept)

\* The decorator goes on with the missing dates.
Loaded(c, estimates) ==
  LET kept == Filtered(request[c], estimates)
      gaps == Gaps(c, kept, estimates)
  IN  /\ cached' = kept
      /\ missing' = [missing EXCEPT ![c] = gaps]
      /\ Goto(c, IF gaps = {} /\ ~request[c].ignoreCache THEN "respond" ELSE "fetch")

LoadFile(c) ==
  /\ pc[c] = "load"
  /\ file.state = "sound"
  /\ Loaded(c, file.lines)
  /\ UNCHANGED <<given, file, fetched, request, output, answer, history, uploads, bounds>>

\* A missing file is created, which empties one that appeared meanwhile.
FileIsMissing(c) ==
  /\ pc[c] = "load"
  /\ file = Absent
  /\ Goto(c, "create")
  /\ UNCHANGED <<given, file, manager, request, missing, output, answer, history,
                 uploads, bounds>>

CreateFile(c) ==
  /\ pc[c] = "create"
  /\ file' = Sound(<<>>)
  /\ Loaded(c, <<>>)
  /\ UNCHANGED <<given, fetched, request, output, answer, history, uploads, bounds>>

\* JSON.parse throws in a listener of the stream, where no promise sees it.
LoadTornFile(c) ==
  /\ pc[c] = "load"
  /\ file.state = "torn"
  /\ ProcessEnds
  /\ UNCHANGED <<given, file, request, missing, output, answer, history, bounds>>

\* An object that cannot be loaded counts as an empty one.
LoadObjectFails(c) ==
  /\ mode = "GCS"
  /\ pc[c] = "load"
  /\ Loaded(c, <<>>)
  /\ UNCHANGED <<given, file, fetched, request, output, answer, history, uploads, bounds>>

(***************************************************************************)
(* getEstimatesForMissingDates                                             *)
(***************************************************************************)
FetchFails(c) ==
  /\ pc[c] = "fetch"
  /\ Goto(c, "failed")
  /\ UNCHANGED <<given, file, manager, request, missing, output, answer, history,
                 uploads, bounds>>

Answer(c, estimates) ==
  /\ answer' = [answer EXCEPT ![c] =
                  [p \in Periods |-> IF p \in usage THEN Count(estimates, p) ELSE 0]]
  /\ Goto(c, "answered")

\* With ignoreCache the estimates of the missing dates are the answer.
FetchIgnoringCache(c) ==
  /\ pc[c] = "fetch"
  /\ request[c].ignoreCache
  /\ Answer(c, Ascending(missing[c]))
  /\ UNCHANGED <<given, file, manager, request, missing, output, history, uploads, bounds>>

FetchNothing(c) ==
  /\ pc[c] = "fetch"
  /\ ~request[c].ignoreCache
  /\ missing[c] \cap usage = {}
  /\ Goto(c, "respond")
  /\ UNCHANGED <<given, file, manager, request, missing, output, answer, history,
                 uploads, bounds>>

\* fillDates: periods without usage are persisted as empty estimates.
Persisted(c) == Ascending(missing[c])

\* Faulty variant: what the cache held is not written again.
OutputOnlyNew(c) == Persisted(c)

Output(c) == cached \o Persisted(c)

\* setEstimates begins as soon as the estimates are there.
Fetch(c) ==
  /\ pc[c] = "fetch"
  /\ ~request[c].ignoreCache
  /\ missing[c] \cap usage # {}
  /\ fetched' = Persisted(c)
  /\ output' = [output EXCEPT ![c] = Output(c)]
  /\ Goto(c, "write")
  /\ UNCHANGED <<given, file, cached, request, missing, answer, history, uploads, bounds>>

(***************************************************************************)
(* LocalCacheManager.fileHandle                                            *)
(***************************************************************************)

\* "r+" does not create the file: without it a warning is all that happens.
Written(c) ==
  CASE file.state = "absent" -> {Absent}
    [] file.state = "torn" -> {Torn, Sound(output[c])}
    [] OTHER -> Overwritten(output[c], file.lines)

WriteFile(c) ==
  /\ mode = "LOCAL"
  /\ pc[c] = "write"
  /\ file' \in Written(c)
  /\ Goto(c, "respond")
  /\ UNCHANGED <<given, manager, request, missing, output, answer, history, uploads, bounds>>

\* The process is killed between the chunks, or within one.
KilledWhileWriting(c) ==
  /\ mode = "LOCAL"
  /\ pc[c] = "write"
  /\ crashes < MaxCrashes
  /\ crashes' = crashes + 1
  /\ file.state # "absent"
  /\ file' \in {file, Torn} \cup Written(c)
  /\ ProcessEnds
  /\ UNCHANGED <<given, request, missing, output, answer, history, asks>>

(***************************************************************************)
(* GoogleCloudCacheManager.setEstimates: the object is replaced as a whole, *)
(* some time after the end of the write stream was requested.               *)
(***************************************************************************)
StartUpload(c) ==
  /\ mode = "GCS"
  /\ pc[c] = "write"
  /\ uploads' = uploads \cup {output[c]}
  /\ Goto(c, "respond")
  /\ UNCHANGED <<given, file, manager, request, missing, output, answer, history, bounds>>

UploadEnds(object) ==
  /\ uploads' = uploads \ {object}
  /\ file' \in {Sound(object), file}   \* an error is only logged
  /\ UNCHANGED <<given, manager, pc, request, missing, output, answer, history, bounds>>

(***************************************************************************)
(* cacheManager.getEstimates, whose arguments neither manager looks at.    *)
(***************************************************************************)
Respond(c) ==
  /\ pc[c] = "respond"
  /\ Answer(c, cached \o fetched)
  /\ UNCHANGED <<given, file, manager, request, missing, output, history, uploads, bounds>>

\* The user deletes the file to get up-to-date estimates.
DeleteFile ==
  /\ file # Absent
  /\ file' = Absent
  /\ UNCHANGED <<given, manager, pc, request, missing, output, answer, history,
                 uploads, bounds>>

Kill ==
  /\ crashes < MaxCrashes
  /\ crashes' = crashes + 1
  /\ ProcessEnds
  /\ UNCHANGED <<given, file, request, missing, output, answer, history, asks>>

Next ==
  \/ \E c \in Clients :
       \/ \E r \in Requests : Ask(c, r)
       \/ LoadFile(c) \/ FileIsMissing(c) \/ CreateFile(c)
       \/ LoadTornFile(c) \/ LoadObjectFails(c)
       \/ FetchFails(c) \/ FetchIgnoringCache(c) \/ FetchNothing(c) \/ Fetch(c)
       \/ WriteFile(c) \/ KilledWhileWriting(c) \/ StartUpload(c)
       \/ Respond(c)
  \/ \E object \in uploads : UploadEnds(object)
  \/ DeleteFile
  \/ Kill

Spec == Init /\ [][Next]_vars
-----------------------------------------------------------------------------
(***************************************************************************)
(* Properties.                                                             *)
(***************************************************************************)
TypeOK ==
  /\ mode \in Modes
  /\ usage \subseteq Periods
  /\ file.state \in {"absent", "sound", "torn"} /\ file.lines \in Seq(Periods)
  /\ cached \in Seq(Periods) /\ fetched \in Seq(Periods)
  /\ pc \in [Clients -> {"idle", "load", "create", "fetch", "write", "respond",
                         "answered", "failed"}]
  /\ request \in [Clients -> Requests]
  /\ missing \in [Clients -> SUBSET Periods]
  /\ output \in [Clients -> Seq(Periods)]
  /\ answer \in [Clients -> [Periods -> Nat]]
  /\ alone \in [Clients -> BOOLEAN] /\ fresh \in [Clients -> BOOLEAN]
  /\ orderly \in BOOLEAN
  /\ uploads \subseteq Seq(Periods)
  /\ asks \in 0..MaxAsks /\ crashes \in 0..MaxCrashes

Complete(c) == \A p \in Wanted(request[c]) \cap usage : answer[c][p] >= 1

Exact(c) ==
  \A p \in Periods :
    answer[c][p] = IF p \in Wanted(request[c]) \cap usage THEN 1 ELSE 0

Served(c) == pc[c] = "answered" /\ ~request[c].ignoreCache

\* Whatever was cached before, by whom, and whatever survived in the file: a
\* request that no other one overlaps misses no usage of its range.  One that
\* ignores the cache does miss usage, but only what the cache had.
AloneIsComplete ==
  \A c \in Clients : pc[c] = "answered" /\ alone[c] =>
    IF ~request[c].ignoreCache THEN Complete(c)
    ELSE \A p \in Wanted(request[c]) \cap usage :
           answer[c][p] = 0 => p \notin missing[c]

\* Used by one request at a time, all from the same start date: the first of a
\* process that fetches something, and the ones before it, are answered with
\* each estimate of their range once.
FirstIsExact ==
  orderly => \A c \in Clients : Served(c) /\ fresh[c] => Exact(c)

\* Both: what one request is answered by itself is right.
AnswersAreRight == AloneIsComplete /\ FirstIsExact

\* In such use no write leaves a part of a line behind, so that the process can
\* load the file again: only what a kill cuts is torn.
FileStaysSound == orderly /\ crashes = 0 => file.state # "torn"

\* In such use no estimate is in the cache twice: a duplicate would be added to
\* the answers of every later request.
NoDuplicates == orderly => \A p \in Periods : Count(file.lines, p) <= 1

\* Both: what one process after the other leaves in the cache can be loaded and
\* has each estimate once.
CacheStaysSound == FileStaysSound /\ NoDuplicates

\* "Returns cached estimates for the given request and grouping."
EveryAnswerIsExact == \A c \in Clients : Served(c) /\ alone[c] => Exact(c)

=============================================================================
