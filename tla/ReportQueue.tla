---------------------------- MODULE ReportQueue ----------------------------
(***************************************************************************)
(* The life of a message of the report queue, and of the workers that      *)
(* take messages: run of pulling.ts and the control of processMessage.     *)
(*                                                                         *)
(* A worker is a process.  It asks the queue once, processes what it gets  *)
(* and then only answers health checks.  Errors that reach the catch of     *)
(* processMessage are returned and ignored; those that do not (the queue's,  *)
(* JSON.parse in run, an upload nobody awaits yet) are unhandled rejections *)
(* and end the process.  Several workers share the queue, the source and    *)
(* the destination; a message reappears when its visibility timeout ends.   *)
(***************************************************************************)
EXTENDS Naturals

CONSTANTS
  Workers,       \* processes
  Messages,
  MaxFiles,      \* files a message lists, at most
  MaxDeliveries, \* bound: how often the queue hands out a message
  None           \* what a worker has before it receives a message

ASSUME QueueAssumption ==
  /\ None \notin Messages
  /\ MaxFiles \in Nat
  /\ MaxDeliveries \in Nat \ {0}

\* "garbled" bodies are not JSON, "incomplete" ones lack files or accountType.
Bodies == [kind : {"garbled", "incomplete", "report"}, files : 0..MaxFiles]

VARIABLES
  body,       \* what every message says
  queue,      \* "unsent", "visible" or "hidden": nothing deletes a message
  delivered,  \* how often a message was handed out
  blob,       \* the delivery whose upload of a file was committed last
  stage,      \* what a worker is doing
  job,        \* the message it has, and the delivery that gave it
  current,    \* the file it is at
  counted,    \* messages with rows in the process's accumulator
  result      \* of the last processMessage: "none", "ok" or "error"

store == <<queue, delivered>>
queueVars == <<body, queue, delivered, blob, stage, job, current, counted, result>>

NoJob == [message |-> None, delivery |-> 0]
Jobs == [message : Messages, delivery : 1..MaxDeliveries]

Message(w) == job[w].message
LastFile(w) == body[Message(w)].files

QueueInit ==
  /\ body \in [Messages -> Bodies]
  /\ queue = [m \in Messages |-> "unsent"]
  /\ delivered = [m \in Messages |-> 0]
  /\ blob = [m \in Messages |-> [f \in 1..MaxFiles |-> 0]]
  /\ stage = [w \in Workers |-> "start"]
  /\ job = [w \in Workers |-> NoJob]
  /\ current = [w \in Workers |-> 1]
  /\ counted = [w \in Workers |-> {}]
  /\ result = [w \in Workers |-> "none"]

(***************************************************************************)
(* The queue.                                                              *)
(***************************************************************************)
Send(m) ==
  /\ queue[m] = "unsent"
  /\ queue' = [queue EXCEPT ![m] = "visible"]
  /\ UNCHANGED <<body, delivered, blob, stage, job, current, counted, result>>

\* The visibility timeout knows nothing of the worker that has the message.
Reappear(m) ==
  /\ queue[m] = "hidden"
  /\ delivered[m] < MaxDeliveries
  /\ queue' = [queue EXCEPT ![m] = "visible"]
  /\ UNCHANGED <<body, delivered, blob, stage, job, current, counted, result>>

(***************************************************************************)
(* Endings.  A worker at "idle" keeps its port open and does no more.      *)
(***************************************************************************)

\* Faulty variant: the worker asks for another message, as waitMessages did.
ReturnAndAskAgain(w, value) ==
  /\ stage' = [stage EXCEPT ![w] = "start"]
  /\ result' = [result EXCEPT ![w] = value]

Return(w, value) ==
  /\ stage' = [stage EXCEPT ![w] = "idle"]
  /\ result' = [result EXCEPT ![w] = value]

Crash(w) ==
  /\ stage' = [stage EXCEPT ![w] = "crashed"]
  /\ UNCHANGED result

(***************************************************************************)
(* run.                                                                    *)
(***************************************************************************)
ReceiveNothing(w) ==
  /\ stage[w] = "start"
  /\ \A m \in Messages : queue[m] # "visible"
  /\ stage' = [stage EXCEPT ![w] = "idle"]
  /\ UNCHANGED <<body, store, blob, job, current, counted, result>>

ReceiveFails(w) ==
  /\ stage[w] = "start"
  /\ Crash(w)
  /\ UNCHANGED <<body, store, blob, job, current, counted>>

\* The message is parsed for the log, outside every try, and again by
\* processMessage, which refuses an incomplete one and has nothing to do for
\* a report without files.
Receive(w, m) ==
  /\ stage[w] = "start"
  /\ queue[m] = "visible"
  /\ queue' = [queue EXCEPT ![m] = "hidden"]
  /\ delivered' = [delivered EXCEPT ![m] = @ + 1]
  /\ job' = [job EXCEPT ![w] = [message |-> m, delivery |-> delivered'[m]]]
  /\ current' = [current EXCEPT ![w] = 1]
  /\ \/ body[m].kind = "garbled" /\ Crash(w)
     \/ body[m].kind = "incomplete" /\ Return(w, "error")
     \/ body[m].kind = "report" /\ body[m].files = 0 /\ Return(w, "ok")
     \/ /\ body[m].kind = "report" /\ body[m].files > 0
        /\ stage' = [stage EXCEPT ![w] = "accumulate"]
        /\ UNCHANGED result
  /\ UNCHANGED <<body, blob, counted>>

(***************************************************************************)
(* processMessage, first loop.                                             *)
(***************************************************************************)

\* Faulty variant: the loop runs one index too far.
AccumulateOneMore(w) ==
  /\ stage[w] = "accumulate"
  /\ counted' = [counted EXCEPT ![w] = @ \cup {Message(w)}]
  /\ IF current[w] <= LastFile(w)
     THEN current' = [current EXCEPT ![w] = @ + 1] /\ UNCHANGED stage
     ELSE current' = [current EXCEPT ![w] = 1] /\ stage' = [stage EXCEPT ![w] = "open"]
  /\ UNCHANGED <<body, store, blob, job, result>>

AccumulateFile(w) ==
  /\ stage[w] = "accumulate"
  /\ counted' = [counted EXCEPT ![w] = @ \cup {Message(w)}]
  /\ IF current[w] < LastFile(w)
     THEN current' = [current EXCEPT ![w] = @ + 1] /\ UNCHANGED stage
     ELSE current' = [current EXCEPT ![w] = 1] /\ stage' = [stage EXCEPT ![w] = "open"]
  /\ UNCHANGED <<body, store, blob, job, result>>

\* Faulty variant: a failed file starts the loop again.
AccumulateFromStart(w) ==
  /\ stage[w] = "accumulate"
  /\ current' = [current EXCEPT ![w] = 1]
  /\ UNCHANGED <<body, store, blob, stage, job, counted, result>>

\* The source cannot be opened, or it or a row fails after some rows.
AccumulateFails(w) ==
  /\ stage[w] = "accumulate"
  /\ counted' \in {counted, [counted EXCEPT ![w] = @ \cup {Message(w)}]}
  /\ Return(w, "error")
  /\ UNCHANGED <<body, store, blob, job, current>>

(***************************************************************************)
(* processMessage, second loop.  The upload is started before the rows are *)
(* enriched and awaited after them.                                        *)
(***************************************************************************)
StartFile(w) ==
  /\ stage[w] = "open"
  /\ stage' = [stage EXCEPT ![w] = "enrich"]
  /\ UNCHANGED <<body, store, blob, job, current, counted, result>>

StartFails(w) ==
  /\ stage[w] = "open"
  /\ Return(w, "error")
  /\ UNCHANGED <<body, store, blob, job, current, counted>>

\* All rows were written: the PassThrough has ended.
Enrich(w) ==
  /\ stage[w] = "enrich"
  /\ stage' = [stage EXCEPT ![w] = "upload"]
  /\ UNCHANGED <<body, store, blob, job, current, counted, result>>

\* Whichever of the two fails while the rows are enriched, the upload's
\* promise rejects with nobody awaiting it: the catch of processMessage sees
\* the error of enrichReport only.
EnrichOrUploadFails(w) ==
  /\ stage[w] = "enrich"
  /\ Crash(w)
  /\ UNCHANGED <<body, store, blob, job, current, counted>>

\* The storage service makes the blocks the new content of the blob.
Commit(w) ==
  /\ stage[w] = "upload"
  /\ blob' = [blob EXCEPT ![Message(w)][current[w]] = job[w].delivery]
  /\ stage' = [stage EXCEPT ![w] = "committed"]
  /\ UNCHANGED <<body, store, job, current, counted, result>>

\* Faulty variant: the upload is not awaited before the next file.
UploadNotAwaited(w) ==
  /\ stage[w] \in {"upload", "committed"}
  /\ IF current[w] < LastFile(w)
     THEN /\ current' = [current EXCEPT ![w] = @ + 1]
          /\ stage' = [stage EXCEPT ![w] = "open"]
          /\ UNCHANGED result
     ELSE Return(w, "ok") /\ UNCHANGED current
  /\ UNCHANGED <<body, store, blob, job, counted>>

\* The files of the message are done one after the other; nothing deletes the
\* message after the last one.
UploadDone(w) ==
  /\ stage[w] = "committed"
  /\ IF current[w] < LastFile(w)
     THEN /\ current' = [current EXCEPT ![w] = @ + 1]
          /\ stage' = [stage EXCEPT ![w] = "open"]
          /\ UNCHANGED result
     ELSE Return(w, "ok") /\ UNCHANGED current
  /\ UNCHANGED <<body, store, blob, job, counted>>

\* Faulty variant: the error is logged and the loop goes on.
UploadErrorIgnored(w) ==
  /\ stage[w] \in {"upload", "committed"}
  /\ current[w] < LastFile(w)
  /\ current' = [current EXCEPT ![w] = @ + 1]
  /\ stage' = [stage EXCEPT ![w] = "open"]
  /\ UNCHANGED <<body, store, blob, job, counted, result>>

\* The upload fails while it is awaited, or only its answer is lost.
UploadFails(w) ==
  /\ stage[w] \in {"upload", "committed"}
  /\ Return(w, "error")
  /\ UNCHANGED <<body, store, blob, job, current, counted>>

(***************************************************************************)
(* The machine and its service manager.                                    *)
(***************************************************************************)
Kill(w) ==
  /\ stage[w] # "crashed"
  /\ Crash(w)
  /\ UNCHANGED <<body, store, blob, job, current, counted>>

Restart(w) ==
  /\ stage[w] = "crashed"
  /\ stage' = [stage EXCEPT ![w] = "start"]
  /\ job' = [job EXCEPT ![w] = NoJob]
  /\ current' = [current EXCEPT ![w] = 1]
  /\ counted' = [counted EXCEPT ![w] = {}]
  /\ result' = [result EXCEPT ![w] = "none"]
  /\ UNCHANGED <<body, store, blob>>

\* What a worker does by itself: every request gets an answer or fails.
Work(w) ==
  \/ ReceiveNothing(w)
  \/ ReceiveFails(w)
  \/ \E m \in Messages : Receive(w, m)
  \/ AccumulateFile(w)
  \/ AccumulateFails(w)
  \/ StartFile(w)
  \/ StartFails(w)
  \/ Enrich(w)
  \/ EnrichOrUploadFails(w)
  \/ Commit(w)
  \/ UploadDone(w)
  \/ UploadFails(w)

QueueNext ==
  \/ \E w \in Workers : Work(w) \/ Kill(w) \/ Restart(w)
  \/ \E m \in Messages : Send(m) \/ Reappear(m)

QueueSpec == QueueInit /\ [][QueueNext]_queueVars

QueueFairness ==
  /\ \A w \in Workers : WF_queueVars(Work(w)) /\ WF_queueVars(Restart(w))
  /\ \A m \in Messages : WF_queueVars(Send(m)) /\ WF_queueVars(Reappear(m))

QueueFairSpec == QueueSpec /\ QueueFairness
-----------------------------------------------------------------------------
(***************************************************************************)
(* Properties.                                                             *)
(***************************************************************************)
QueueTypeOK ==
  /\ body \in [Messages -> Bodies]
  /\ queue \in [Messages -> {"unsent", "visible", "hidden"}]
  /\ delivered \in [Messages -> 0..MaxDeliveries]
  /\ blob \in [Messages -> [1..MaxFiles -> 0..MaxDeliveries]]
  /\ stage \in [Workers -> {"start", "accumulate", "open", "enrich", "upload",
                            "committed", "idle", "crashed"}]
  /\ job \in [Workers -> Jobs \cup {NoJob}]
  /\ current \in [Workers -> 1..(IF MaxFiles = 0 THEN 1 ELSE MaxFiles)]
  /\ counted \in [Workers -> SUBSET Messages]
  /\ result \in [Workers -> {"none", "ok", "error"}]

\* A worker reports success only when every file the message lists is in the
\* destination, whatever other workers did with the same message meanwhile.
OkMeansUploaded ==
  \A w \in Workers : result[w] = "ok" =>
    \A f \in 1..LastFile(w) : blob[Message(w)][f] # 0

\* After any failure, crash, kill or redelivery the files of a message that
\* are in the destination are the first ones it lists.
ResultsArePrefix ==
  \A m \in Messages : \A f, g \in 1..MaxFiles :
    blob[m][f] # 0 /\ g < f => blob[m][g] # 0

\* Both: what the destination has of a message, whatever happened to it.
DestinationIsSound == OkMeansUploaded /\ ResultsArePrefix

\* The accumulator is process-wide and never emptied, yet no row is enriched
\* with energy of another report: a process takes one message in its life.
OneReportPerProcess ==
  \A w \in Workers :
    stage[w] \in {"open", "enrich", "upload", "committed"} =>
      counted[w] = {Message(w)}

\* Every worker that has something to do gets to an end of it.
EveryJobEnds ==
  \A w \in Workers : stage[w] \notin {"idle", "crashed"} ~> stage[w] \in {"idle", "crashed"}
=============================================================================
