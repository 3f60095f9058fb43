------------------------------ MODULE Pipeline ------------------------------
(***************************************************************************)
(* The inspection pipeline: ingestion commits image rows and enqueues      *)
(* run_inference; the inference worker detects, stores the baseline        *)
(* analysis and may hand the image to run_agent_analysis; agent threads    *)
(* enrich the analysis; API requests re-open a completed image; retention  *)
(* deletes rows.                                                           *)
(*                                                                         *)
(* Code: backend/app/tasks/pipeline.py, tasks/base.py, tasks/celery_app.py,*)
(* tasks/db.py, ingestion/service.py (_enqueue_ingested), inference/       *)
(* service.py, analyses/service.py (create_baseline_analysis),             *)
(* inspections/router.py (request_agent_analysis), retention/service.py.   *)
(*                                                                         *)
(* Every session is optimistic: it reads a row, works, and its commit      *)
(* UPDATEs only the columns that differ from what it read.  No row is      *)
(* locked and no version is compared, so the read and the commit are       *)
(* separate steps here wherever another process can get in between.        *)
(*                                                                         *)
(* The broker delivers at least once: task_acks_late acknowledges a        *)
(* message after its task, and task_reject_on_worker_lost puts the message *)
(* of a killed worker back.  Queues are bags; order is not relied upon.    *)
(***************************************************************************)
EXTENDS Naturals, FiniteSets, ImageStatus

CONSTANTS
  Images,           \* InspectionImage rows (one per ingested file)
  InferenceWorker,  \* the one consumer of the inference queue (--pool=solo)
  AgentThreads,     \* threads of worker-agents (--pool=threads)
  Requests,         \* POST /inspections/{id}/agent-analysis calls; each is made once
  MaxRetries,       \* PipelineTask.max_retries
  MaxCrashes,       \* bound on the number of worker crashes
  Environments,     \* the combinations of disturbances to consider
  NoImage           \* the image of a worker or request that has none

Disturbances ==
  {"inference_crash",    \* the inference worker is killed
   "agents_crash",       \* worker-agents is killed with all its threads
   "api_crash",          \* the API (or housekeeping) process is killed
   "broker",             \* a publish raises and the message is not in the queue
   "broker_ambiguous",   \* a publish raises although the message is in the queue
   "transient",          \* TransientProcessingError: no active model, unreadable file
   "error",              \* any other exception, with a message
   "blank_error",        \* any other exception whose str() is empty
   "on_failure_error",   \* the database is unreachable while on_failure runs
   "purge",              \* a row grows past its retention window
   "agent_request"}      \* an operator asks for the agent chain on a completed image

ASSUME PipelineAssumption ==
  /\ Environments \subseteq SUBSET Disturbances
  /\ InferenceWorker \notin AgentThreads
  /\ IsFiniteSet(AgentThreads)
  /\ NoImage \notin Images
  /\ MaxRetries \in Nat
  /\ MaxCrashes \in Nat

VARIABLES
  image,        \* inspection_image rows: [Images -> row]
  detections,   \* how many times a set of Detection rows was stored for the image
  analysis,     \* analysis.source of the image's Analysis row, "none" without one
  inferenceQ,   \* [Images -> [0..MaxRetries -> Nat]]: messages by image and retry count
  agentsQ,      \* [Images -> Nat]: messages by image
  pending,      \* ingested images whose run_inference.delay is still to come
  task,         \* what each worker is doing
  request,      \* what each API request is doing
  crashes,      \* worker crashes so far
  env           \* the disturbances that may happen in this behaviour

vars == <<image, detections, analysis, inferenceQ, agentsQ, pending, task, request, crashes, env>>
rows == <<image, detections, analysis>>
queues == <<inferenceQ, agentsQ>>

Workers == AgentThreads \cup {InferenceWorker}

RowStatuses ==
  {"ABSENT", "QUEUED", "PROCESSING", "ANALYZING", "COMPLETED", "FAILED", "PURGED"}
Rows == [status : RowStatuses, failure_reason : {"null", "set"}, processed_at : {"null", "set"}]
Row(status) == [status |-> status, failure_reason |-> "null", processed_at |-> "null"]

\* `db.get` returns None.
Missing(i) == image[i].status \in {"ABSENT", "PURGED"}

(***************************************************************************)
(* A session's flush: the columns of `new` that differ from what was       *)
(* loaded are written, the others keep what the database has by now.       *)
(***************************************************************************)
Flush(db, loaded, new) ==
  [status |-> IF new.status = loaded.status THEN db.status ELSE new.status,
   failure_reason |-> IF new.failure_reason = loaded.failure_reason
                      THEN db.failure_reason ELSE new.failure_reason,
   processed_at |-> IF new.processed_at = loaded.processed_at
                    THEN db.processed_at ELSE new.processed_at]

WriteRow(i, loaded, new) == image' = [image EXCEPT ![i] = Flush(@, loaded, new)]

-----------------------------------------------------------------------------
(* Tasks *)

\* What a worker holds: the message (img, tries), the row as its session read it (seen) and,
\* once its task raised, whether the exception has a message.
Idle == [pc |-> "idle", img |-> NoImage, tries |-> 0, seen |-> Row("ABSENT"), exc |-> "none"]

Pcs == {"idle", "received", "starting", "detecting", "enqueue", "loaded", "chain",
        "failing", "marking", "ack"}

Tasks == [pc : Pcs, img : Images \cup {NoImage}, tries : 0..MaxRetries, seen : Rows,
          exc : {"none", "worded", "blank"}]

Img(w) == task[w].img
At(w, pc) == task[w].pc = pc
Goto(w, pc) == task' = [task EXCEPT ![w].pc = pc]

\* The exception leaves the task body: Celery calls on_failure in the same worker.
Raise(w, exc) == task' = [task EXCEPT ![w].pc = "failing", ![w].exc = exc]

\* Nothing more to do: the message is acknowledged when the task returns.
Settled(w) ==
  task' = [task EXCEPT ![w] = [Idle EXCEPT !.pc = "ack", !.img = task[w].img,
                                           !.tries = task[w].tries]]

Load(w, pc) == task' = [task EXCEPT ![w].pc = pc, ![w].seen = image[Img(w)]]

PublishInference(i, n) == inferenceQ' = [inferenceQ EXCEPT ![i][n] = @ + 1]
PublishAgents(i) == agentsQ' = [agentsQ EXCEPT ![i] = @ + 1]

-----------------------------------------------------------------------------
(* Ingestion (the housekeeping worker's poll, or /scan and /import in the API) *)

\* A scan commits all the rows of its files in one transaction: `good` files wait for their
\* publish, files that are no readable image are FAILED from the start.
Ingest ==
  \E good, bad \in SUBSET {i \in Images : image[i].status = "ABSENT"} :
    /\ good \cap bad = {}
    /\ good \cup bad # {}
    /\ image' = [i \in Images |->
                   IF i \in good THEN Row("QUEUED")
                   ELSE IF i \in bad THEN [Row("FAILED") EXCEPT !.failure_reason = "set"]
                   ELSE image[i]]
    /\ pending' = pending \cup good
    /\ UNCHANGED <<detections, analysis, queues, task, request, crashes, env>>

\* _enqueue_ingested publishes after the commit; a publish that raises is logged and skipped.
EnqueueIngested(i) ==
  /\ i \in pending
  /\ pending' = pending \ {i}
  /\ \/ PublishInference(i, 0)
     \/ "broker" \in env /\ UNCHANGED inferenceQ
  /\ UNCHANGED <<rows, agentsQ, task, request, crashes, env>>

\* The ingesting process dies: what it had not published yet is never published.
IngestCrash ==
  /\ "api_crash" \in env
  /\ pending # {}
  /\ pending' = {}
  /\ UNCHANGED <<rows, queues, task, request, crashes, env>>

-----------------------------------------------------------------------------
(* run_inference *)

W == InferenceWorker

InfReceive(i, n) ==
  /\ At(W, "idle")
  /\ inferenceQ[i][n] > 0
  /\ inferenceQ' = [inferenceQ EXCEPT ![i][n] = @ - 1]
  /\ task' = [task EXCEPT ![W] = [Idle EXCEPT !.pc = "received", !.img = i, !.tries = n]]
  /\ UNCHANGED <<rows, agentsQ, pending, request, crashes, env>>

\* A mutant of InfLoad: without the guard on a redelivered message whose work is done.
InfLoadNoGuard ==
  /\ At(W, "received")
  /\ IF Missing(Img(W)) THEN Settled(W)
     ELSE IF image[Img(W)].status = "QUEUED" THEN Load(W, "starting")
     ELSE Load(W, "detecting")
  /\ UNCHANGED <<rows, queues, pending, request, crashes, env>>

\* A mutant of InfLoad: a message that finds PROCESSING is taken for a duplicate as well.
InfLoadOnlyQueued ==
  /\ At(W, "received")
  /\ IF ~Missing(Img(W)) /\ image[Img(W)].status = "QUEUED"
     THEN Load(W, "starting") ELSE Settled(W)
  /\ UNCHANGED <<rows, queues, pending, request, crashes, env>>

\* Reads the row.  PROCESSING is an earlier attempt's work to be resumed, any other status
\* but QUEUED an earlier attempt's work that is finished.
InfLoad ==
  /\ At(W, "received")
  /\ IF Missing(Img(W)) THEN Settled(W)
     ELSE IF image[Img(W)].status = "QUEUED" THEN Load(W, "starting")
     ELSE IF image[Img(W)].status = "PROCESSING" THEN Load(W, "detecting")
     ELSE Settled(W)
  /\ UNCHANGED <<rows, queues, pending, request, crashes, env>>

\* Commits PROCESSING.  The UPDATE of a row purged meanwhile matches nothing and raises.
InfStart ==
  /\ At(W, "starting")
  /\ LET new == Transition(task[W].seen, "PROCESSING") IN
       IF Missing(Img(W))
       THEN Raise(W, "worded") /\ UNCHANGED image
       ELSE /\ WriteRow(Img(W), task[W].seen, new)
            /\ task' = [task EXCEPT ![W].pc = "detecting", ![W].seen = new]
  /\ UNCHANGED <<detections, analysis, queues, pending, request, crashes, env>>

\* A mutant of InfTransient: the retry is published without counting it.
InfTransientForever ==
  /\ "transient" \in env
  /\ At(W, "detecting")
  /\ PublishInference(Img(W), task[W].tries)
  /\ Settled(W)
  /\ UNCHANGED <<rows, agentsQ, pending, request, crashes, env>>

\* TransientProcessingError from ensure_model_loaded or from an unreadable file.  A retry is
\* a new message, published before the old one is acknowledged; a retry that cannot be
\* published is rejected by Celery without a call to on_failure.
InfTransient ==
  /\ "transient" \in env
  /\ At(W, "detecting")
  /\ \/ /\ task[W].tries < MaxRetries
        /\ PublishInference(Img(W), task[W].tries + 1)
        /\ Settled(W)
     \/ /\ task[W].tries < MaxRetries
        /\ "broker" \in env
        /\ Settled(W)
        /\ UNCHANGED inferenceQ
     \/ /\ task[W].tries >= MaxRetries
        /\ Raise(W, "worded")
        /\ UNCHANGED inferenceQ
  /\ UNCHANGED <<rows, agentsQ, pending, request, crashes, env>>

\* Any other exception before the second commit: detection, annotation, policy, database.
InfError ==
  /\ task[W].pc \in {"received", "starting", "detecting"}
  /\ \/ "error" \in env /\ Raise(W, "worded")
     \/ "blank_error" \in env /\ Raise(W, "blank")
  /\ UNCHANGED <<rows, queues, pending, request, crashes, env>>

\* The three ways process_image and the trigger policy can settle an image: without a
\* reportable defect, with a baseline as its final analysis, or on its way to the agents.
Outcomes ==
  {[to |-> "COMPLETED", baseline |-> "none"],
   [to |-> "COMPLETED", baseline |-> "knowledge_base"],
   [to |-> "ANALYZING", baseline |-> "knowledge_base"]}

\* The transitions of the one transaction; DETECTED is passed through.
SettledRow(row, o) ==
  IF o.baseline = "none" THEN Transition(row, o.to)
  ELSE Transition(Transition(row, "DETECTED"), o.to)

\* What the commit raises on: a transition that is not allowed, rows that refer to a purged
\* image, a second analysis for an image (its image_id is unique).
CommitRefused(o) ==
  \/ ~CanTransition(task[W].seen.status, IF o.baseline = "none" THEN o.to ELSE "DETECTED")
  \/ Missing(Img(W))
  \/ o.baseline # "none" /\ analysis[Img(W)] # "none"

\* A mutant of InfCommit: a commit of its own after process_image, before the analysis.
InfCommitTwice(o) ==
  /\ At(W, "detecting")
  /\ IF CommitRefused(o)
     THEN Raise(W, "worded") /\ UNCHANGED rows
     ELSE /\ WriteRow(Img(W), task[W].seen,
                      IF o.baseline = "none" THEN Transition(task[W].seen, o.to)
                      ELSE Transition(task[W].seen, "DETECTED"))
          /\ detections' = [detections EXCEPT ![Img(W)] = @ + 1]
          /\ UNCHANGED analysis
          /\ IF o.baseline = "none" THEN Settled(W) ELSE Goto(W, "enqueue")
  /\ UNCHANGED <<queues, pending, request, crashes, env>>

\* A mutant of InfCommit: the baseline analysis is left to the agent chain.
InfCommitNoBaseline(o) ==
  /\ At(W, "detecting")
  /\ IF CommitRefused(o)
     THEN Raise(W, "worded") /\ UNCHANGED rows
     ELSE /\ WriteRow(Img(W), task[W].seen, SettledRow(task[W].seen, o))
          /\ detections' = [detections EXCEPT ![Img(W)] = @ + 1]
          /\ UNCHANGED analysis
          /\ IF o.to = "ANALYZING" THEN Goto(W, "enqueue") ELSE Settled(W)
  /\ UNCHANGED <<queues, pending, request, crashes, env>>

\* The second commit: Detection rows, status and baseline analysis, all or nothing.
InfCommit(o) ==
  /\ At(W, "detecting")
  /\ IF CommitRefused(o)
     THEN Raise(W, "worded") /\ UNCHANGED rows
     ELSE /\ WriteRow(Img(W), task[W].seen, SettledRow(task[W].seen, o))
          /\ detections' = [detections EXCEPT ![Img(W)] = @ + 1]
          /\ analysis' = [analysis EXCEPT ![Img(W)] = IF o.baseline = "none" THEN @
                                                      ELSE o.baseline]
          /\ IF o.to = "ANALYZING" THEN Goto(W, "enqueue") ELSE Settled(W)
  /\ UNCHANGED <<queues, pending, request, crashes, env>>

\* run_agent_analysis.delay, after the commit.  If it raises, the task fails.
InfEnqueueAgents ==
  /\ At(W, "enqueue")
  /\ \/ PublishAgents(Img(W)) /\ Settled(W)
     \/ "broker" \in env /\ Raise(W, "worded") /\ UNCHANGED agentsQ
     \/ "broker_ambiguous" \in env /\ PublishAgents(Img(W)) /\ Raise(W, "worded")
  /\ UNCHANGED <<rows, inferenceQ, pending, request, crashes, env>>

-----------------------------------------------------------------------------
(* run_agent_analysis *)

AgReceive(t, i) ==
  /\ At(t, "idle")
  /\ agentsQ[i] > 0
  /\ agentsQ' = [agentsQ EXCEPT ![i] = @ - 1]
  /\ task' = [task EXCEPT ![t] = [Idle EXCEPT !.pc = "received", !.img = i]]
  /\ UNCHANGED <<rows, inferenceQ, pending, request, crashes, env>>

AgLoad(t) ==
  /\ At(t, "received")
  /\ IF image[Img(t)].status = "ANALYZING" THEN Load(t, "loaded") ELSE Settled(t)
  /\ UNCHANGED <<rows, queues, pending, request, crashes, env>>

\* The commit of a task: an UPDATE that finds no row raises instead.
CommitAgents(t, newSource) ==
  IF Missing(Img(t))
  THEN Raise(t, "worded") /\ UNCHANGED rows
  ELSE /\ WriteRow(Img(t), task[t].seen, Transition(task[t].seen, "COMPLETED"))
       /\ analysis' = [analysis EXCEPT ![Img(t)] = newSource]
       /\ Settled(t)
       /\ UNCHANGED detections

\* No analysis to enrich: the image is completed as it is.
AgNoAnalysis(t) ==
  /\ At(t, "loaded")
  /\ analysis[Img(t)] = "none"
  /\ CommitAgents(t, "none")
  /\ UNCHANGED <<queues, pending, request, crashes, env>>

\* The chain of LLM calls begins; nothing is held in the database meanwhile.
AgStartChain(t) ==
  /\ At(t, "loaded")
  /\ analysis[Img(t)] # "none"
  /\ Goto(t, "chain")
  /\ UNCHANGED <<rows, queues, pending, request, crashes, env>>

\* A mutant of AgFinish: the fallback writes the baseline again over what is stored.
AgFinishResets(t) ==
  /\ At(t, "chain")
  /\ \E source \in {"agents", "knowledge_base"} : CommitAgents(t, source)
  /\ UNCHANGED <<queues, pending, request, crashes, env>>

\* A mutant of AgFinish: the fallback leaves the image to a later retry, which never comes.
AgFinishFallbackReturns(t) ==
  /\ At(t, "chain")
  /\ CommitAgents(t, "agents") \/ (Settled(t) /\ UNCHANGED rows)
  /\ UNCHANGED <<queues, pending, request, crashes, env>>

\* The chain succeeded and its result replaces the analysis, or it was aborted, raised or had
\* no LLM client and the stored analysis is kept.  Either way the image is completed.
AgFinish(t) ==
  /\ At(t, "chain")
  /\ \E source \in {"agents", analysis[Img(t)]} : CommitAgents(t, source)
  /\ UNCHANGED <<queues, pending, request, crashes, env>>

\* An exception outside the guarded call of run_chain: database, settings, decryption.
AgError(t) ==
  /\ task[t].pc \in {"received", "loaded", "chain"}
  /\ \/ "error" \in env /\ Raise(t, "worded")
     \/ "blank_error" \in env /\ Raise(t, "blank")
  /\ UNCHANGED <<rows, queues, pending, request, crashes, env>>

-----------------------------------------------------------------------------
(* PipelineTask.on_failure, and the end of a task *)

\* _mark_failed_async reads the row in a session of its own.  What mark_failed refuses is
\* logged and dropped.
FailLoad(w) ==
  /\ At(w, "failing")
  /\ IF Missing(Img(w)) \/ ~CanMarkFailed(image[Img(w)].status, task[w].exc)
     THEN Settled(w)
     ELSE Load(w, "marking")
  /\ UNCHANGED <<rows, queues, pending, request, crashes, env>>

FailWrite(w) ==
  /\ At(w, "marking")
  /\ IF Missing(Img(w)) THEN UNCHANGED image
     ELSE WriteRow(Img(w), task[w].seen, MarkFailed(task[w].seen))
  /\ Settled(w)
  /\ UNCHANGED <<detections, analysis, queues, pending, request, crashes, env>>

\* on_failure swallows its own errors.
FailSwallow(w) ==
  /\ "on_failure_error" \in env
  /\ task[w].pc \in {"failing", "marking"}
  /\ Settled(w)
  /\ UNCHANGED <<rows, queues, pending, request, crashes, env>>

Ack(w) ==
  /\ At(w, "ack")
  /\ task' = [task EXCEPT ![w] = Idle]
  /\ UNCHANGED <<rows, queues, pending, request, crashes, env>>

-----------------------------------------------------------------------------
(* Worker crashes: the sessions roll back, the unacknowledged messages return *)

InferenceCrash ==
  /\ "inference_crash" \in env
  /\ crashes < MaxCrashes
  /\ ~At(W, "idle")
  /\ crashes' = crashes + 1
  /\ PublishInference(Img(W), task[W].tries)
  /\ task' = [task EXCEPT ![W] = Idle]
  /\ UNCHANGED <<rows, agentsQ, pending, request, env>>

AgentsCrash ==
  /\ "agents_crash" \in env
  /\ crashes < MaxCrashes
  /\ \E t \in AgentThreads : ~At(t, "idle")
  /\ crashes' = crashes + 1
  /\ agentsQ' = [i \in Images |-> agentsQ[i] + Cardinality({t \in AgentThreads : Img(t) = i})]
  /\ task' = [w \in Workers |-> IF w \in AgentThreads THEN Idle ELSE task[w]]
  /\ UNCHANGED <<rows, inferenceQ, pending, request, env>>

-----------------------------------------------------------------------------
(* POST /inspections/{id}/agent-analysis *)

NoRequest == [pc |-> "ready", img |-> NoImage, seen |-> Row("ABSENT")]
RequestDone == [NoRequest EXCEPT !.pc = "done"]
RequestPcs == {"ready", "opening", "publishing", "done"}
RequestStates == [pc : RequestPcs, img : Images \cup {NoImage}, seen : Rows]

\* A mutant of ReqLoad: the baseline analysis is not asked for.
ReqLoadNoAnalysisCheck(r, i) ==
  /\ "agent_request" \in env
  /\ request[r].pc = "ready"
  /\ request' = [request EXCEPT ![r] =
                   IF CanTransition(image[i].status, "ANALYZING")
                   THEN [pc |-> "opening", img |-> i, seen |-> image[i]]
                   ELSE RequestDone]
  /\ UNCHANGED <<rows, queues, pending, task, crashes, env>>

\* 404 without an image, 409 without an analysis or when the image is not COMPLETED.
ReqLoad(r, i) ==
  /\ "agent_request" \in env
  /\ request[r].pc = "ready"
  /\ request' = [request EXCEPT ![r] =
                   IF analysis[i] # "none" /\ CanTransition(image[i].status, "ANALYZING")
                   THEN [pc |-> "opening", img |-> i, seen |-> image[i]]
                   ELSE RequestDone]
  /\ UNCHANGED <<rows, queues, pending, task, crashes, env>>

\* A mutant of ReqCommit: the endpoint only sets the status.
ReqCommitWithoutPublish(r) ==
  /\ request[r].pc = "opening"
  /\ IF Missing(request[r].img)
     THEN UNCHANGED image
     ELSE WriteRow(request[r].img, request[r].seen, Transition(request[r].seen, "ANALYZING"))
  /\ request' = [request EXCEPT ![r] = RequestDone]
  /\ UNCHANGED <<detections, analysis, queues, pending, task, crashes, env>>

ReqCommit(r) ==
  /\ request[r].pc = "opening"
  /\ IF Missing(request[r].img)
     THEN request' = [request EXCEPT ![r] = RequestDone] /\ UNCHANGED image
     ELSE /\ WriteRow(request[r].img, request[r].seen,
                      Transition(request[r].seen, "ANALYZING"))
          /\ request' = [request EXCEPT ![r].pc = "publishing", ![r].seen = Row("ABSENT")]
  /\ UNCHANGED <<detections, analysis, queues, pending, task, crashes, env>>

\* The publish follows the commit; the caller gets a 500 if it raises.
ReqPublish(r) ==
  /\ request[r].pc = "publishing"
  /\ \/ PublishAgents(request[r].img)
     \/ "broker" \in env /\ UNCHANGED agentsQ
  /\ request' = [request EXCEPT ![r] = RequestDone]
  /\ UNCHANGED <<rows, inferenceQ, pending, task, crashes, env>>

ReqCrash(r) ==
  /\ "api_crash" \in env
  /\ request[r].pc \in {"opening", "publishing"}
  /\ request' = [request EXCEPT ![r] = RequestDone]
  /\ UNCHANGED <<rows, queues, pending, task, crashes, env>>

-----------------------------------------------------------------------------
(* Retention: a row past its window goes with its detections and analysis, whatever its
   status is. *)
Purge(i) ==
  /\ "purge" \in env
  /\ ~Missing(i)
  /\ image' = [image EXCEPT ![i] = Row("PURGED")]
  /\ detections' = [detections EXCEPT ![i] = 0]
  /\ analysis' = [analysis EXCEPT ![i] = "none"]
  /\ UNCHANGED <<queues, pending, task, request, crashes, env>>

-----------------------------------------------------------------------------
Init ==
  /\ image = [i \in Images |-> Row("ABSENT")]
  /\ detections = [i \in Images |-> 0]
  /\ analysis = [i \in Images |-> "none"]
  /\ inferenceQ = [i \in Images |-> [n \in 0..MaxRetries |-> 0]]
  /\ agentsQ = [i \in Images |-> 0]
  /\ pending = {}
  /\ task = [w \in Workers |-> Idle]
  /\ request = [r \in Requests |-> NoRequest]
  /\ crashes = 0
  /\ env \in Environments

\* What on_failure and the acknowledgement do, in either kind of worker.
EndStep(w) == FailLoad(w) \/ FailWrite(w) \/ FailSwallow(w) \/ Ack(w)

InferenceStep ==
  \/ \E i \in Images, n \in 0..MaxRetries : InfReceive(i, n)
  \/ InfLoad
  \/ InfStart
  \/ InfTransient
  \/ InfError
  \/ \E o \in Outcomes : InfCommit(o)
  \/ InfEnqueueAgents
  \/ EndStep(W)

AgentStep(t) ==
  \/ \E i \in Images : AgReceive(t, i)
  \/ AgLoad(t)
  \/ AgNoAnalysis(t)
  \/ AgStartChain(t)
  \/ AgFinish(t)
  \/ AgError(t)
  \/ EndStep(t)

RequestStep(r) ==
  \/ \E i \in Images : ReqLoad(r, i)
  \/ ReqCommit(r)
  \/ ReqPublish(r)
  \/ ReqCrash(r)

Next ==
  \/ Ingest
  \/ \E i \in Images : EnqueueIngested(i) \/ Purge(i)
  \/ IngestCrash
  \/ InferenceStep
  \/ \E t \in AgentThreads : AgentStep(t)
  \/ \E r \in Requests : RequestStep(r)
  \/ InferenceCrash
  \/ AgentsCrash

Spec == Init /\ [][Next]_vars

\* The workers are restarted and keep consuming (compose, Celery), and a process that
\* committed goes on to publish.  Files, requests and faults owe nothing.
Fairness ==
  /\ \A i \in Images : WF_vars(EnqueueIngested(i))
  /\ WF_vars(InferenceStep)
  /\ \A t \in AgentThreads : WF_vars(AgentStep(t))
  /\ \A r \in Requests : WF_vars(ReqCommit(r) \/ ReqPublish(r))

FairSpec == Spec /\ Fairness

-----------------------------------------------------------------------------
(* Properties *)

RowTypes ==
  /\ image \in [Images -> Rows]
  /\ detections \in [Images -> Nat]
  /\ analysis \in [Images -> {"none", "knowledge_base", "agents"}]

QueueTypes ==
  /\ inferenceQ \in [Images -> [0..MaxRetries -> Nat]]
  /\ agentsQ \in [Images -> Nat]
  /\ pending \in SUBSET Images

TaskTypes ==
  /\ task \in [Workers -> Tasks]
  /\ \A w \in Workers : At(w, "idle") <=> Img(w) = NoImage

RequestTypes ==
  /\ request \in [Requests -> RequestStates]
  /\ \A r \in Requests : request[r].pc \in {"opening", "publishing"} => request[r].img \in Images

BoundTypes == crashes \in 0..MaxCrashes /\ env \in Environments

\* Rows hold committed statuses only; a worker is idle exactly when it has no image.
TypeOK == RowTypes /\ QueueTypes /\ TaskTypes /\ RequestTypes /\ BoundTypes

\* However often run_inference is delivered, retried or resumed, an image gets the Detection
\* rows of one pass, and none before the pass that settles it (pipeline.py:78-81).
DetectionsOnce ==
  \A i \in Images :
    /\ detections[i] <= 1
    /\ image[i].status \in {"QUEUED", "PROCESSING"} => detections[i] = 0

\* An image waits for the agent chain only with a baseline to fall back on, and an analysis
\* exists only for an image whose detections are stored (pipeline.py:170-173, :193).
BaselineFirst ==
  \A i \in Images :
    /\ image[i].status = "ANALYZING" => analysis[i] # "none"
    /\ analysis[i] # "none" => detections[i] = 1

\* Status, reason and timestamp tell the same story: a reason exactly when the image is
\* FAILED, a timestamp when it is COMPLETED, none while it is in flight (state.py:58-66).
RowConsistent ==
  \A i \in Images :
    /\ image[i].failure_reason = "set" <=> image[i].status = "FAILED"
    /\ image[i].status = "COMPLETED" => image[i].processed_at = "set"
    /\ image[i].processed_at = "set" => image[i].status \in TERMINAL_STATUSES

InferenceOutstanding(i) ==
  \/ i \in pending
  \/ \E n \in 0..MaxRetries : inferenceQ[i][n] > 0
  \/ Img(W) = i /\ ~At(W, "ack")

\* A task that ends without having settled its image leaves it FAILED (base.py:25-26), so an
\* image that is QUEUED or PROCESSING still has a run_inference to come: in the ingesting
\* process, in the queue or in the worker.
FailureIsRecorded ==
  \A i \in Images :
    image[i].status \in {"QUEUED", "PROCESSING"} => InferenceOutstanding(i)

\* Worker crashes, retries and failed tasks strand no image before its detections
\* (celery_app.py:23-26, base.py:20-26); only a publish that never happens does, or a failure
\* that on_failure cannot record.
InferenceNeverLost ==
  env \cap {"api_crash", "broker", "blank_error", "on_failure_error"} = {} =>
    FailureIsRecorded

AgentsOutstanding(i) ==
  \/ agentsQ[i] > 0
  \/ \E t \in AgentThreads : Img(t) = i /\ ~At(t, "ack")
  \/ Img(W) = i /\ task[W].pc \in {"enqueue", "failing", "marking"}
  \/ \E r \in Requests : request[r].pc = "publishing" /\ request[r].img = i

\* The same without a proviso, as pipeline.py:36-39 says it: an image that moves to ANALYZING
\* has its run_agent_analysis enqueued.
AnalysisOutstanding ==
  \A i \in Images : image[i].status = "ANALYZING" => AgentsOutstanding(i)

\* An ANALYZING image has a run_agent_analysis that will take it the rest of the way
\* (pipeline.py:36-39), as long as no process dies between its commit and its publish.
AnalysisNeverLost ==
  env \cap {"inference_crash", "api_crash", "broker", "blank_error", "on_failure_error"} = {} =>
    AnalysisOutstanding

\* The result of the agent chain is never replaced by the baseline again, whatever a
\* duplicate or a later run of the chain ends with (pipeline.py:175-178).
AgentsResultKept ==
  [][\A i \in Images :
       analysis[i] = "agents" => analysis'[i] = "agents" \/ image'[i].status = "PURGED"]_vars

\* No two tasks can come to work on one image: no publish raises after the message was
\* queued; a run_inference that may be delivered again raises nothing when it finds its work
\* done; and images are re-opened by one request, while agent threads do not die.
OneTaskPerImage ==
  /\ "broker_ambiguous" \notin env
  /\ "inference_crash" \in env => env \cap {"error", "blank_error"} = {}
  /\ "agent_request" \in env =>
       "agents_crash" \notin env /\ \A q, r \in Requests : q = r

\* The database rows follow the abstract life cycle.
Lifecycle == INSTANCE InspectionLifecycle
               WITH status <- [i \in Images |-> image[i].status], source <- analysis

ImplementsLifecycle == Lifecycle!Spec

\* Every image that is ingested leaves QUEUED and PROCESSING for good.
InferenceSettles ==
  \A i \in Images :
    image[i].status = "QUEUED" ~> image[i].status \notin {"QUEUED", "PROCESSING"}

\* Every image that is ingested or re-opened comes to rest, unless the inference worker dies
\* between the commit of ANALYZING and the publish that follows it.
EveryImageSettles ==
  \A i \in Images :
    "inference_crash" \notin env /\ image[i].status \in {"QUEUED", "PROCESSING", "ANALYZING"}
      ~> image[i].status \in {"COMPLETED", "FAILED", "PURGED"}
=============================================================================
