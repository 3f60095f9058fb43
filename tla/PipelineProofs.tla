--------------------------- MODULE PipelineProofs ---------------------------
(***************************************************************************)
(* Proofs about Pipeline, for any number of images, agent threads,         *)
(* requests, retries, crashes and in every environment.  In this order:    *)
(*                                                                         *)
(*   1. type correctness                            (TypeOK)               *)
(*   2. detections once, baselines first            (IInv)                 *)
(*   3. the result of the agents is kept            (an action property)   *)
(*   4. no image is stranded                        (LossInv)              *)
(*   5. rows tell one story, and follow the abstract life cycle, while no  *)
(*      two tasks work on one image                 (OrderInv, refinement) *)
(*                                                                         *)
(* Each part builds on the invariant of the one before it.                 *)
(***************************************************************************)
EXTENDS Pipeline, FiniteSetTheorems, TLAPS

-----------------------------------------------------------------------------
(* Rows *)

\* Rows as a transaction sees them: it may hold DETECTED, which is never committed.
SessionRows ==
  [status : RowStatuses \cup {"DETECTED"},
   failure_reason : {"null", "set"}, processed_at : {"null", "set"}]

LEMMA TransitionType ==
  ASSUME NEW row \in SessionRows, NEW to \in {"PROCESSING", "ANALYZING", "COMPLETED", "FAILED"}
  PROVE  Transition(row, to) \in Rows /\ Transition(row, to).status = to
BY DEF Transition, SessionRows, Rows, RowStatuses, TERMINAL_STATUSES, SetIf

LEMMA DetectedType ==
  ASSUME NEW row \in Rows
  PROVE  Transition(row, "DETECTED") \in SessionRows
BY DEF Transition, SessionRows, Rows, RowStatuses, TERMINAL_STATUSES, SetIf

LEMMA RowsAreSessionRows == Rows \subseteq SessionRows
BY DEF Rows, SessionRows

LEMMA SettledRowType ==
  ASSUME NEW row \in Rows, NEW o \in Outcomes
  PROVE  SettledRow(row, o) \in Rows /\ SettledRow(row, o).status = o.to
<1>1. o.to \in {"PROCESSING", "ANALYZING", "COMPLETED", "FAILED"}
  BY DEF Outcomes
<1>2. CASE o.baseline = "none"
  BY <1>1, <1>2, TransitionType, RowsAreSessionRows DEF SettledRow
<1>3. CASE o.baseline # "none"
  BY <1>1, <1>3, TransitionType, DetectedType DEF SettledRow
<1> QED
  BY <1>2, <1>3

LEMMA MarkFailedType ==
  ASSUME NEW row \in Rows
  PROVE  MarkFailed(row) \in Rows /\ MarkFailed(row).status = "FAILED"
BY DEF MarkFailed, Transition, Rows, RowStatuses, TERMINAL_STATUSES, SetIf

\* A flush leaves the status either as the database has it or as the session set it.
LEMMA FlushType ==
  ASSUME NEW db \in Rows, NEW loaded \in Rows, NEW new \in Rows
  PROVE  /\ Flush(db, loaded, new) \in Rows
         /\ Flush(db, loaded, new).status = IF new.status = loaded.status
                                            THEN db.status ELSE new.status
BY DEF Flush, Rows

LEMMA ConstantTypes ==
  /\ Row("ABSENT") \in Rows
  /\ Row("QUEUED") \in Rows
  /\ [Row("FAILED") EXCEPT !.failure_reason = "set"] \in Rows
  /\ Row("PURGED") \in Rows
  /\ Idle \in Tasks
  /\ NoRequest \in RequestStates
  /\ RequestDone \in RequestStates
BY PipelineAssumption
DEF Row, Rows, RowStatuses, Idle, Tasks, Pcs, NoRequest, RequestDone, RequestStates, RequestPcs

LEMMA InitType == Init => TypeOK
<1> SUFFICES ASSUME Init PROVE TypeOK
  OBVIOUS
<1>1. image \in [Images -> Rows] /\ detections \in [Images -> Nat]
  BY ConstantTypes DEF Init
<1>2. task \in [Workers -> Tasks] /\ request \in [Requests -> RequestStates]
  BY ConstantTypes DEF Init
<1>3. \A w \in Workers : At(w, "idle") <=> Img(w) = NoImage
  BY DEF Init, At, Img, Idle
<1>4. \A r \in Requests : request[r].pc = "ready"
  BY DEF Init, NoRequest
<1>5. crashes \in 0..MaxCrashes
  BY PipelineAssumption DEF Init
<1> QED
  BY <1>1, <1>2, <1>3, <1>4, <1>5
  DEF Init, TypeOK, RowTypes, QueueTypes, TaskTypes, RequestTypes, BoundTypes

-----------------------------------------------------------------------------
(* Type correctness.  What the steps of a task do to `task` comes first. *)

\* A worker that goes on with its message, whatever else it takes note of.
LEMMA TaskUpdateType ==
  ASSUME TaskTypes, NEW w \in Workers, ~At(w, "idle"),
         NEW t \in Tasks, t.pc # "idle", t.img = Img(w), task' = [task EXCEPT ![w] = t]
  PROVE  TaskTypes'
<1>1. task' \in [Workers -> Tasks]
  BY DEF TaskTypes
<1>2. \A v \in Workers \ {w} : task'[v] = task[v]
  BY DEF TaskTypes
<1>3. task'[w] = t
  BY DEF TaskTypes
<1>4. t.img # NoImage
  BY DEF TaskTypes, At, Img
<1>5. ASSUME NEW v \in Workers PROVE task'[v].pc = "idle" <=> task'[v].img = NoImage
  <2>1. CASE v = w
    BY <1>3, <1>4, <2>1
  <2>2. CASE v # w
    BY <1>2, <2>2 DEF TaskTypes, At, Img
  <2> QED
    BY <2>1, <2>2
<1> QED
  BY <1>1, <1>5 DEF TaskTypes, At, Img

LEMMA GotoType ==
  ASSUME TaskTypes, NEW w \in Workers, ~At(w, "idle"), NEW pc \in Pcs \ {"idle"}, Goto(w, pc)
  PROVE  TaskTypes'
<1> DEFINE t == [task[w] EXCEPT !.pc = pc]
<1>1. task[w] \in Tasks
  BY DEF TaskTypes
<1>2. t \in Tasks /\ t.pc = pc /\ t.img = task[w].img
  BY <1>1 DEF Tasks
<1>3. task' = [task EXCEPT ![w] = t]
  BY DEF Goto
<1> HIDE DEF t
<1> QED
  BY <1>2, <1>3, TaskUpdateType DEF Img

LEMMA RaiseType ==
  ASSUME TaskTypes, NEW w \in Workers, ~At(w, "idle"), NEW exc \in {"worded", "blank"},
         Raise(w, exc)
  PROVE  TaskTypes'
<1> DEFINE t == [task[w] EXCEPT !.pc = "failing", !.exc = exc]
<1>1. task[w] \in Tasks
  BY DEF TaskTypes
<1>2. t \in Tasks /\ t.pc = "failing" /\ t.img = task[w].img
  BY <1>1 DEF Tasks, Pcs
<1>3. task' = [task EXCEPT ![w] = t]
  BY DEF Raise
<1> HIDE DEF t
<1> QED
  BY <1>2, <1>3, TaskUpdateType DEF Img

LEMMA SettledType ==
  ASSUME TaskTypes, NEW w \in Workers, ~At(w, "idle"), Settled(w)
  PROVE  TaskTypes'
BY ConstantTypes DEF TaskTypes, Settled, At, Img, Tasks, Pcs, Idle

LEMMA LoadType ==
  ASSUME TaskTypes, NEW w \in Workers, ~At(w, "idle"), image \in [Images -> Rows],
         NEW pc \in Pcs \ {"idle"}, Load(w, pc)
  PROVE  TaskTypes'
<1>1. Img(w) \in Images
  BY DEF TaskTypes, At, Img, Tasks
<1> QED
  BY <1>1 DEF TaskTypes, Load, At, Img, Tasks

LEMMA WriteRowType ==
  ASSUME image \in [Images -> Rows], NEW i \in Images, NEW loaded \in Rows, NEW new \in Rows,
         WriteRow(i, loaded, new)
  PROVE  /\ image' \in [Images -> Rows]
         /\ \A j \in Images \ {i} : image'[j] = image[j]
         /\ image'[i].status = IF new.status = loaded.status
                               THEN image[i].status ELSE new.status
<1>1. /\ Flush(image[i], loaded, new) \in Rows
      /\ Flush(image[i], loaded, new).status = IF new.status = loaded.status
                                               THEN image[i].status ELSE new.status
  BY FlushType
<1> QED
  BY <1>1 DEF WriteRow

LEMMA WorkerSets == W \in Workers /\ AgentThreads \subseteq Workers
BY DEF W, Workers

\* The image of a worker that is not idle is one, and so is its row.
LEMMA BusyWorker ==
  ASSUME TypeOK, NEW w \in Workers, ~At(w, "idle")
  PROVE  /\ Img(w) \in Images
         /\ task[w].tries \in 0..MaxRetries
         /\ task[w].seen \in Rows
         /\ image[Img(w)] \in Rows
BY DEF TypeOK, RowTypes, TaskTypes, At, Img, Tasks

\* Steps that leave some of the parts alone keep their types.
LEMMA UnchangedTypes ==
  /\ RowTypes /\ UNCHANGED rows => RowTypes'
  /\ QueueTypes /\ UNCHANGED <<queues, pending>> => QueueTypes'
  /\ TaskTypes /\ UNCHANGED task => TaskTypes'
  /\ RequestTypes /\ UNCHANGED request => RequestTypes'
  /\ BoundTypes /\ UNCHANGED <<crashes, env>> => BoundTypes'
BY DEF RowTypes, QueueTypes, TaskTypes, RequestTypes, BoundTypes, rows, queues, At, Img

LEMMA PublishInferenceType ==
  ASSUME QueueTypes, NEW i \in Images, NEW n \in 0..MaxRetries, PublishInference(i, n)
  PROVE  inferenceQ' \in [Images -> [0..MaxRetries -> Nat]]
<1> DEFINE q == inferenceQ[i]
           more == [q EXCEPT ![n] = @ + 1]
<1>1. q \in [0..MaxRetries -> Nat]
  BY DEF QueueTypes
<1>2. q[n] + 1 \in Nat
  BY <1>1, PipelineAssumption
<1> HIDE DEF q
<1>3. more \in [0..MaxRetries -> Nat]
  BY <1>1, <1>2, PipelineAssumption
<1>4. inferenceQ' = [inferenceQ EXCEPT ![i] = more]
  BY DEF PublishInference, q
<1> QED
  BY <1>3, <1>4 DEF QueueTypes

LEMMA PublishAgentsType ==
  ASSUME QueueTypes, NEW i \in Images, PublishAgents(i), UNCHANGED <<inferenceQ, pending>>
  PROVE  QueueTypes'
BY DEF QueueTypes, PublishAgents

-----------------------------------------------------------------------------
(* Type correctness, by kind of step *)

LEMMA IngestionTypes ==
  TypeOK /\ (Ingest \/ IngestCrash \/ \E i \in Images : EnqueueIngested(i) \/ Purge(i)) => TypeOK'
<1> SUFFICES ASSUME TypeOK, Ingest \/ IngestCrash \/ \E i \in Images : EnqueueIngested(i) \/ Purge(i)
             PROVE  TypeOK'
  OBVIOUS
<1> USE DEF TypeOK
<1>1. CASE Ingest
  <2>1. RowTypes'
    BY <1>1, ConstantTypes DEF Ingest, RowTypes
  <2>2. QueueTypes'
    BY <1>1 DEF Ingest, QueueTypes, queues
  <2> QED
    BY <1>1, <2>1, <2>2, UnchangedTypes DEF Ingest
<1>2. CASE IngestCrash
  <2>1. QueueTypes'
    BY <1>2 DEF IngestCrash, QueueTypes, queues
  <2> QED
    BY <1>2, <2>1, UnchangedTypes DEF IngestCrash
<1>3. ASSUME NEW i \in Images, EnqueueIngested(i) PROVE TypeOK'
  <2>1. QueueTypes'
    <3>0. 0 \in 0..MaxRetries
      BY PipelineAssumption
    <3> QED
      BY <1>3, <3>0, PublishInferenceType DEF EnqueueIngested, QueueTypes
  <2> QED
    BY <1>3, <2>1, UnchangedTypes DEF EnqueueIngested
<1>4. ASSUME NEW i \in Images, Purge(i) PROVE TypeOK'
  <2>1. RowTypes'
    BY <1>4, ConstantTypes DEF Purge, RowTypes
  <2> QED
    BY <1>4, <2>1, UnchangedTypes DEF Purge
<1> QED
  BY <1>1, <1>2, <1>3, <1>4

\* on_failure and the acknowledgement, in either kind of worker.
LEMMA EndTypes ==
  ASSUME TypeOK, NEW w \in Workers, EndStep(w)
  PROVE  TypeOK'
<1> USE DEF TypeOK
<1>1. CASE FailLoad(w)
  <2>1. ~At(w, "idle")
    BY <1>1 DEF FailLoad, At
  <2>2. TaskTypes'
    BY <1>1, <2>1, SettledType, LoadType DEF FailLoad, RowTypes, Pcs
  <2> QED
    BY <1>1, <2>2, UnchangedTypes DEF FailLoad
<1>2. CASE FailWrite(w)
  <2>1. ~At(w, "idle")
    BY <1>2 DEF FailWrite, At
  <2>2. TaskTypes'
    BY <1>2, <2>1, SettledType DEF FailWrite
  <2>3. RowTypes'
    BY <1>2, <2>1, BusyWorker, MarkFailedType, WriteRowType DEF FailWrite, RowTypes
  <2> QED
    BY <1>2, <2>2, <2>3, UnchangedTypes DEF FailWrite
<1>3. CASE FailSwallow(w)
  <2>1. TaskTypes'
    BY <1>3, SettledType DEF FailSwallow, At
  <2> QED
    BY <1>3, <2>1, UnchangedTypes DEF FailSwallow
<1>4. CASE Ack(w)
  <2>1. TaskTypes'
    BY <1>4, ConstantTypes DEF Ack, TaskTypes, At, Img, Idle
  <2> QED
    BY <1>4, <2>1, UnchangedTypes DEF Ack
<1> QED
  BY <1>1, <1>2, <1>3, <1>4 DEF EndStep

LEMMA InferenceTypes ==
  TypeOK /\ InferenceStep => TypeOK'
<1> SUFFICES ASSUME TypeOK, InferenceStep PROVE TypeOK'
  OBVIOUS
<1> USE WorkerSets
<1> USE DEF TypeOK
<1>1. ASSUME NEW i \in Images, NEW n \in 0..MaxRetries, InfReceive(i, n) PROVE TypeOK'
  <2>1. inferenceQ' \in [Images -> [0..MaxRetries -> Nat]]
    <3> DEFINE q == inferenceQ[i]
               less == [q EXCEPT ![n] = @ - 1]
    <3>1. q \in [0..MaxRetries -> Nat]
      BY DEF QueueTypes
    <3>2. q[n] > 0
      BY <1>1 DEF InfReceive
    <3>3. q[n] - 1 \in Nat
      BY <3>1, <3>2, PipelineAssumption
    <3>4. inferenceQ' = [inferenceQ EXCEPT ![i] = less]
      BY <1>1 DEF InfReceive
    <3> HIDE DEF q
    <3>5. less \in [0..MaxRetries -> Nat]
      BY <3>1, <3>3, PipelineAssumption
    <3> QED
      BY <3>4, <3>5 DEF QueueTypes
  <2>2. QueueTypes'
    BY <1>1, <2>1 DEF InfReceive, QueueTypes
  <2>3. TaskTypes'
    BY <1>1, ConstantTypes, PipelineAssumption
    DEF InfReceive, TaskTypes, Idle, Tasks, Pcs, At, Img
  <2> QED
    BY <1>1, <2>2, <2>3, UnchangedTypes DEF InfReceive
<1>2. CASE InfLoad
  <2>1. TaskTypes'
    BY <1>2, SettledType, LoadType DEF InfLoad, RowTypes, At, Pcs
  <2> QED
    BY <1>2, <2>1, UnchangedTypes DEF InfLoad
<1>3. CASE InfStart
  <2> DEFINE new == Transition(task[W].seen, "PROCESSING")
  <2>1. ~At(W, "idle")
    BY <1>3 DEF InfStart, At
  <2>2. new \in Rows
    BY <2>1, BusyWorker, RowsAreSessionRows, TransitionType
  <2>3. CASE Missing(Img(W))
    <3>1. TaskTypes' /\ UNCHANGED rows
      BY <1>3, <2>1, <2>3, RaiseType DEF InfStart, rows
    <3> QED
      BY <1>3, <3>1, UnchangedTypes DEF InfStart
  <2>4. CASE ~Missing(Img(W))
    <3>1. WriteRow(Img(W), task[W].seen, new)
      BY <1>3, <2>4 DEF InfStart
    <3>2. RowTypes'
      BY <1>3, <2>1, <2>2, <3>1, BusyWorker, WriteRowType DEF InfStart, RowTypes
    <3>3. task' = [task EXCEPT ![W].pc = "detecting", ![W].seen = new]
      BY <1>3, <2>4 DEF InfStart
    <3> HIDE DEF new
    <3>4. TaskTypes'
      <4>1. [task[W] EXCEPT !.pc = "detecting", !.seen = new] \in Tasks
        BY <2>2 DEF TaskTypes, Tasks, Pcs
      <4>2. task' \in [Workers -> Tasks]
        BY <3>3, <4>1 DEF TaskTypes
      <4>3. Img(W) # NoImage
        BY <2>1 DEF TaskTypes
      <4> QED
        BY <3>3, <4>2, <4>3 DEF TaskTypes, Tasks, At, Img
    <3> QED
      BY <1>3, <3>2, <3>4, UnchangedTypes DEF InfStart
  <2> QED
    BY <2>3, <2>4
<1>4. CASE InfTransient
  <2>1. ~At(W, "idle")
    BY <1>4 DEF InfTransient, At
  <2>2. TaskTypes'
    BY <1>4, <2>1, SettledType, RaiseType DEF InfTransient
  <2>3. QueueTypes'
    <3>1. CASE UNCHANGED inferenceQ
      BY <1>4, <3>1, UnchangedTypes DEF InfTransient, queues
    <3>2. CASE /\ task[W].tries < MaxRetries
               /\ PublishInference(Img(W), task[W].tries + 1)
      <4>1. task[W].tries + 1 \in 0..MaxRetries
        BY <2>1, <3>2, BusyWorker, PipelineAssumption
      <4> QED
        BY <1>4, <2>1, <3>2, <4>1, BusyWorker, PublishInferenceType DEF InfTransient, QueueTypes
    <3> QED
      BY <1>4, <3>1, <3>2 DEF InfTransient
  <2> QED
    BY <1>4, <2>2, <2>3, UnchangedTypes DEF InfTransient
<1>5. CASE InfError
  <2>1. TaskTypes'
    BY <1>5, RaiseType DEF InfError, At
  <2> QED
    BY <1>5, <2>1, UnchangedTypes DEF InfError
<1>6. ASSUME NEW o \in Outcomes, InfCommit(o) PROVE TypeOK'
  <2>1. ~At(W, "idle")
    BY <1>6 DEF InfCommit, At
  <2>2. TaskTypes'
    BY <1>6, <2>1, RaiseType, GotoType, SettledType DEF InfCommit, Pcs
  <2>3. RowTypes'
    <3>1. CASE CommitRefused(o)
      BY <1>6, <3>1, UnchangedTypes DEF InfCommit
    <3>2. CASE ~CommitRefused(o)
      <4>1. image' \in [Images -> Rows]
        BY <1>6, <2>1, <3>2, BusyWorker, SettledRowType, WriteRowType DEF InfCommit, RowTypes
      <4>2. o.baseline \in {"none", "knowledge_base"}
        BY DEF Outcomes
      <4>3. analysis' \in [Images -> {"none", "knowledge_base", "agents"}]
        BY <1>6, <2>1, <3>2, <4>2, BusyWorker DEF InfCommit, RowTypes
      <4>4. detections' \in [Images -> Nat]
        BY <1>6, <2>1, <3>2, BusyWorker DEF InfCommit, RowTypes
      <4> QED
        BY <4>1, <4>3, <4>4 DEF RowTypes
    <3> QED
      BY <3>1, <3>2
  <2> QED
    BY <1>6, <2>2, <2>3, UnchangedTypes DEF InfCommit
<1>7. CASE InfEnqueueAgents
  <2>1. ~At(W, "idle")
    BY <1>7 DEF InfEnqueueAgents, At
  <2>2. TaskTypes'
    BY <1>7, <2>1, RaiseType, SettledType DEF InfEnqueueAgents
  <2>3. QueueTypes'
    BY <1>7, <2>1, BusyWorker, PublishAgentsType, UnchangedTypes DEF InfEnqueueAgents, queues
  <2> QED
    BY <1>7, <2>2, <2>3, UnchangedTypes DEF InfEnqueueAgents
<1> QED
  BY <1>1, <1>2, <1>3, <1>4, <1>5, <1>6, <1>7, EndTypes DEF InferenceStep

LEMMA AgentTypes ==
  ASSUME TypeOK, NEW t \in AgentThreads, AgentStep(t)
  PROVE  TypeOK'
<1> USE WorkerSets
<1> USE DEF TypeOK
<1>1. ASSUME NEW i \in Images, AgReceive(t, i) PROVE TypeOK'
  <2>1. QueueTypes'
    BY <1>1 DEF AgReceive, QueueTypes
  <2>2. TaskTypes'
    BY <1>1, ConstantTypes, PipelineAssumption DEF AgReceive, TaskTypes, Idle, Tasks, Pcs, At, Img
  <2> QED
    BY <1>1, <2>1, <2>2, UnchangedTypes DEF AgReceive
<1>2. CASE AgLoad(t)
  <2>1. TaskTypes'
    BY <1>2, SettledType, LoadType DEF AgLoad, RowTypes, At, Pcs
  <2> QED
    BY <1>2, <2>1, UnchangedTypes DEF AgLoad
<1>3. ASSUME NEW source \in {"none", "knowledge_base", "agents"}, ~At(t, "idle"),
             CommitAgents(t, source), UNCHANGED <<queues, pending, request, crashes, env>>
      PROVE  TypeOK'
  <2>1. TaskTypes'
    BY <1>3, RaiseType, SettledType DEF CommitAgents
  <2>2. Transition(task[t].seen, "COMPLETED") \in Rows
    BY <1>3, BusyWorker, RowsAreSessionRows, TransitionType
  <2>3. RowTypes'
    BY <1>3, <2>2, BusyWorker, WriteRowType, UnchangedTypes DEF CommitAgents, RowTypes
  <2> QED
    BY <1>3, <2>1, <2>3, UnchangedTypes
<1>4. CASE AgNoAnalysis(t)
  BY <1>3, <1>4 DEF AgNoAnalysis, At
<1>5. CASE AgStartChain(t)
  <2>1. TaskTypes'
    BY <1>5, GotoType DEF AgStartChain, At, Pcs
  <2> QED
    BY <1>5, <2>1, UnchangedTypes DEF AgStartChain
<1>6. CASE AgFinish(t)
  <2>1. ~At(t, "idle")
    BY <1>6 DEF AgFinish, At
  <2>2. analysis[Img(t)] \in {"none", "knowledge_base", "agents"}
    BY <2>1, BusyWorker DEF RowTypes
  <2> QED
    BY <1>3, <1>6, <2>1, <2>2 DEF AgFinish
<1>7. CASE AgError(t)
  <2>1. TaskTypes'
    BY <1>7, RaiseType DEF AgError, At
  <2> QED
    BY <1>7, <2>1, UnchangedTypes DEF AgError
<1> QED
  BY <1>1, <1>2, <1>4, <1>5, <1>6, <1>7, EndTypes DEF AgentStep

LEMMA RequestStepTypes ==
  ASSUME TypeOK, NEW r \in Requests, RequestStep(r)
  PROVE  TypeOK'
<1> USE DEF TypeOK
<1>1. ASSUME NEW i \in Images, ReqLoad(r, i) PROVE TypeOK'
  <2>1. [pc |-> "opening", img |-> i, seen |-> image[i]] \in RequestStates
    BY DEF RequestStates, RequestPcs, RowTypes
  <2>2. RequestTypes'
    BY <1>1, <2>1, ConstantTypes DEF ReqLoad, RequestTypes, RequestDone
  <2> QED
    BY <1>1, <2>2, UnchangedTypes DEF ReqLoad
<1>2. CASE ReqCommit(r)
  <2>1. /\ request[r].img \in Images
        /\ request[r].seen \in Rows
    BY <1>2 DEF ReqCommit, RequestTypes, RequestStates
  <2>2. Transition(request[r].seen, "ANALYZING") \in Rows
    BY <2>1, RowsAreSessionRows, TransitionType
  <2>3. RowTypes'
    BY <1>2, <2>1, <2>2, WriteRowType DEF ReqCommit, RowTypes
  <2>4. RequestTypes'
    BY <1>2, <2>1, ConstantTypes
    DEF ReqCommit, RequestTypes, RequestStates, RequestPcs, RequestDone
  <2> QED
    BY <1>2, <2>3, <2>4, UnchangedTypes DEF ReqCommit
<1>3. CASE ReqPublish(r)
  <2>1. request[r].img \in Images
    BY <1>3 DEF ReqPublish, RequestTypes
  <2>2. QueueTypes'
    BY <1>3, <2>1, PublishAgentsType, UnchangedTypes DEF ReqPublish, queues
  <2>3. RequestTypes'
    BY <1>3, ConstantTypes DEF ReqPublish, RequestTypes, RequestDone
  <2> QED
    BY <1>3, <2>2, <2>3, UnchangedTypes DEF ReqPublish
<1>4. CASE ReqCrash(r)
  <2>1. RequestTypes'
    BY <1>4, ConstantTypes DEF ReqCrash, RequestTypes, RequestDone
  <2> QED
    BY <1>4, <2>1, UnchangedTypes DEF ReqCrash
<1> QED
  BY <1>1, <1>2, <1>3, <1>4 DEF RequestStep

LEMMA CrashTypes ==
  TypeOK /\ (InferenceCrash \/ AgentsCrash) => TypeOK'
<1> SUFFICES ASSUME TypeOK, InferenceCrash \/ AgentsCrash PROVE TypeOK'
  OBVIOUS
<1> USE WorkerSets
<1> USE DEF TypeOK
<1>1. CASE InferenceCrash
  <2>1. crashes' \in 0..MaxCrashes
    BY <1>1, PipelineAssumption DEF InferenceCrash, BoundTypes
  <2>2. QueueTypes'
    BY <1>1, BusyWorker, PublishInferenceType DEF InferenceCrash, QueueTypes
  <2>3. TaskTypes'
    BY <1>1, ConstantTypes DEF InferenceCrash, TaskTypes, At, Img, Idle
  <2> QED
    BY <1>1, <2>1, <2>2, <2>3, UnchangedTypes DEF InferenceCrash, BoundTypes
<1>2. CASE AgentsCrash
  <2>1. crashes' \in 0..MaxCrashes
    BY <1>2, PipelineAssumption DEF AgentsCrash, BoundTypes
  <2>2. \A i \in Images : Cardinality({t \in AgentThreads : Img(t) = i}) \in Nat
    BY PipelineAssumption, FS_Subset, FS_CardinalityType
  <2>3. QueueTypes'
    BY <1>2, <2>2 DEF AgentsCrash, QueueTypes
  <2>4. TaskTypes'
    BY <1>2, ConstantTypes DEF AgentsCrash, TaskTypes, At, Img, Idle
  <2> QED
    BY <1>2, <2>1, <2>3, <2>4, UnchangedTypes DEF AgentsCrash, BoundTypes
<1> QED
  BY <1>1, <1>2

LEMMA NextType == TypeOK /\ [Next]_vars => TypeOK'
<1>1. TypeOK /\ UNCHANGED vars => TypeOK'
  BY UnchangedTypes DEF TypeOK, vars, rows, queues
<1> QED
  BY <1>1, IngestionTypes, InferenceTypes, AgentTypes, RequestStepTypes, CrashTypes DEF Next

\* Every row holds a status the pipeline commits, every queue a number of messages for each
\* image and retry count, and every worker that is not idle an image, in every reachable state.
THEOREM TypeCorrect == Spec => []TypeOK
BY InitType, NextType, PTL DEF Spec

-----------------------------------------------------------------------------
(***************************************************************************)
(* DetectionsOnce and BaselineFirst hold of every instance.                *)
(*                                                                         *)
(* Neither is inductive: whether the commit of run_inference may store     *)
(* detections depends on what the worker knew of the row when it read it,  *)
(* and whether a row may become ANALYZING again on what the request knew.  *)
(* IInv says what such old knowledge is still worth: the inference worker  *)
(* is the only one to touch a row that is not past its detections, every   *)
(* other party holds rows that are past them, and what is past them        *)
(* remains so, with its analysis if it had one.                            *)
(***************************************************************************)

\* Nothing but the agent chain, requests and retention acts on the image from here on.
Past(i) == image[i].status \in {"ANALYZING", "COMPLETED", "FAILED", "PURGED"}
Analyzed(i) == analysis[i] # "none" \/ image[i].status = "PURGED"

RowInv ==
  \A i \in Images :
    /\ ~Past(i) => detections[i] = 0 /\ analysis[i] = "none"
    /\ detections[i] <= 1
    /\ image[i].status = "ANALYZING" => analysis[i] # "none"
    /\ analysis[i] # "none" => detections[i] = 1

QueueInv == \A i \in Images : agentsQ[i] > 0 => Past(i)

InferenceInv ==
  /\ At(W, "starting") => /\ image[Img(W)].status \in {"QUEUED", "PURGED"}
                          /\ task[W].seen.status = "QUEUED"
  /\ At(W, "detecting") => /\ image[Img(W)].status \in {"PROCESSING", "PURGED"}
                           /\ task[W].seen.status = "PROCESSING"
  /\ At(W, "enqueue") => Past(Img(W))

AgentInv ==
  \A t \in AgentThreads :
    /\ ~At(t, "idle") => Past(Img(t))
    /\ At(t, "chain") => Analyzed(Img(t))

RequestInv ==
  \A r \in Requests :
    /\ request[r].pc \in {"opening", "publishing"} => Past(request[r].img)
    /\ request[r].pc = "opening" => Analyzed(request[r].img)

IInv == TypeOK /\ RowInv /\ QueueInv /\ InferenceInv /\ AgentInv /\ RequestInv

-----------------------------------------------------------------------------
(* What a step must respect for the parts it does not touch to survive it *)

\* What is past its detections stays so, and what is analyzed as well.
Forward ==
  \A i \in Images : (Past(i) => Past(i)') /\ (Analyzed(i) => Analyzed(i)')

\* The rows the inference worker may be working on change by being purged at most.
LeavesWork ==
  \A i \in Images :
    image[i].status \in {"QUEUED", "PROCESSING", "PURGED"}
      => image'[i].status \in {image[i].status, "PURGED"}

LEMMA Frames ==
  ASSUME IInv, Forward
  PROVE  /\ UNCHANGED agentsQ => QueueInv'
         /\ UNCHANGED request => RequestInv'
         /\ (\A t \in AgentThreads : task'[t] = task[t]) => AgentInv'
<1>1. UNCHANGED agentsQ => QueueInv'
  BY DEF IInv, Forward, QueueInv
<1>2. UNCHANGED request => RequestInv'
  <2>1. \A r \in Requests :
          request[r].pc \in {"opening", "publishing"} => request[r].img \in Images
    BY DEF IInv, TypeOK, RequestTypes
  <2> QED
    BY <2>1 DEF IInv, Forward, RequestInv
<1>3. (\A t \in AgentThreads : task'[t] = task[t]) => AgentInv'
  <2>1. \A t \in AgentThreads : ~At(t, "idle") => Img(t) \in Images
    BY BusyWorker, WorkerSets DEF IInv
  <2>2. \A t \in AgentThreads : At(t, "chain") => ~At(t, "idle")
    BY DEF At
  <2> QED
    BY <2>1, <2>2 DEF IInv, Forward, AgentInv, At, Img
<1> QED
  BY <1>1, <1>2, <1>3

LEMMA InferenceFrame ==
  ASSUME IInv, Forward, LeavesWork, task'[W] = task[W]
  PROVE  InferenceInv'
<1>1. task[W].pc \in {"starting", "detecting", "enqueue"} => Img(W) \in Images
  BY BusyWorker, WorkerSets DEF IInv, At
<1> QED
  BY <1>1 DEF IInv, Forward, LeavesWork, InferenceInv, At, Img

\* A step that leaves all the rows alone.
LEMMA SameRows ==
  ASSUME IInv, UNCHANGED rows
  PROVE  RowInv' /\ Forward /\ LeavesWork
BY DEF IInv, rows, RowInv, Past, Analyzed, Forward, LeavesWork

\* A commit on a row that is past its detections.
LEMMA PastWrite ==
  ASSUME IInv, NEW i \in Images, Past(i), ~Missing(i), NEW loaded \in Rows, NEW new \in Rows,
         new.status \in {"ANALYZING", "COMPLETED", "FAILED"}, WriteRow(i, loaded, new),
         new.status = "ANALYZING" => analysis[i] # "none",
         UNCHANGED detections,
         NEW source, analysis' = [analysis EXCEPT ![i] = source],
         source = analysis[i] \/ (analysis[i] # "none" /\ source # "none")
  PROVE  RowInv' /\ Forward /\ LeavesWork
<1> USE DEF IInv, TypeOK, RowTypes
<1>1. /\ \A j \in Images \ {i} : image'[j] = image[j] /\ analysis'[j] = analysis[j]
      /\ image'[i].status \in {new.status, image[i].status}
      /\ analysis'[i] = source
  BY WriteRowType
<1>2. image[i].status \in {"ANALYZING", "COMPLETED", "FAILED"}
  BY DEF Past, Missing
<1>3. RowInv'
  BY <1>1, <1>2 DEF RowInv, Past
<1>4. Forward
  BY <1>1, <1>2 DEF Forward, Past, Analyzed
<1>5. LeavesWork
  BY <1>1, <1>2 DEF LeavesWork
<1> QED
  BY <1>3, <1>4, <1>5

-----------------------------------------------------------------------------
(* What the building blocks of a task leave its worker with *)

LEMMA RaiseTo ==
  ASSUME task \in [Workers -> Tasks], NEW w \in Workers, NEW exc, Raise(w, exc)
  PROVE  task'[w].pc = "failing" /\ Img(w)' = Img(w)
<1>1. task'[w] = [task[w] EXCEPT !.pc = "failing", !.exc = exc]
  BY DEF Raise
<1> QED
  BY <1>1 DEF Img, Tasks

LEMMA SettledTo ==
  ASSUME task \in [Workers -> Tasks], NEW w \in Workers, Settled(w)
  PROVE  task'[w].pc = "ack" /\ Img(w)' = Img(w)
<1>1. task'[w] = [Idle EXCEPT !.pc = "ack", !.img = task[w].img, !.tries = task[w].tries]
  BY DEF Settled
<1> QED
  BY <1>1 DEF Img, Idle

LEMMA LoadTo ==
  ASSUME task \in [Workers -> Tasks], NEW w \in Workers, NEW pc, Load(w, pc)
  PROVE  task'[w].pc = pc /\ Img(w)' = Img(w) /\ task'[w].seen = image[Img(w)]
<1>1. task'[w] = [task[w] EXCEPT !.pc = pc, !.seen = image[Img(w)]]
  BY DEF Load
<1> QED
  BY <1>1 DEF Img, Tasks

LEMMA GotoTo ==
  ASSUME task \in [Workers -> Tasks], NEW w \in Workers, NEW pc, Goto(w, pc)
  PROVE  task'[w].pc = pc /\ Img(w)' = Img(w)
BY DEF Goto, Img, Tasks

-----------------------------------------------------------------------------
LEMMA InitInv == Init => IInv
<1> SUFFICES ASSUME Init PROVE IInv
  OBVIOUS
<1>1. RowInv /\ QueueInv
  BY DEF Init, RowInv, QueueInv, Past, Row
<1>2. InferenceInv /\ AgentInv
  BY WorkerSets DEF Init, InferenceInv, AgentInv, At, Idle
<1>3. RequestInv
  BY DEF Init, RequestInv, NoRequest
<1> QED
  BY <1>1, <1>2, <1>3, InitType DEF IInv

LEMMA IngestionInv ==
  IInv /\ (Ingest \/ IngestCrash \/ \E i \in Images : EnqueueIngested(i) \/ Purge(i))
    => RowInv' /\ QueueInv' /\ InferenceInv' /\ AgentInv' /\ RequestInv'
<1> SUFFICES ASSUME IInv,
                    Ingest \/ IngestCrash \/ \E i \in Images : EnqueueIngested(i) \/ Purge(i)
             PROVE  RowInv' /\ QueueInv' /\ InferenceInv' /\ AgentInv' /\ RequestInv'
  OBVIOUS
<1>0. UNCHANGED <<agentsQ, task, request>>
  BY DEF Ingest, IngestCrash, EnqueueIngested, Purge, queues
<1>1. RowInv' /\ Forward /\ LeavesWork
  <2>1. CASE Ingest
    <3>1. UNCHANGED <<detections, analysis>>
      BY <2>1 DEF Ingest
    <3>2. \A i \in Images :
            \/ image'[i] = image[i]
            \/ image[i].status = "ABSENT" /\ image'[i].status \in {"QUEUED", "FAILED"}
      BY <2>1 DEF Ingest, Row
    <3> QED
      BY <3>1, <3>2 DEF IInv, RowInv, Forward, LeavesWork, Past, Analyzed
  <2>2. CASE IngestCrash \/ \E i \in Images : EnqueueIngested(i)
    BY <2>2, SameRows DEF IngestCrash, EnqueueIngested
  <2>3. ASSUME NEW i \in Images, Purge(i) PROVE RowInv' /\ Forward /\ LeavesWork
    <3>1. /\ image'[i].status = "PURGED" /\ detections'[i] = 0 /\ analysis'[i] = "none"
          /\ \A j \in Images \ {i} : /\ image'[j] = image[j]
                                     /\ detections'[j] = detections[j]
                                     /\ analysis'[j] = analysis[j]
      BY <2>3 DEF Purge, Row, IInv, TypeOK, RowTypes
    <3> QED
      BY <3>1 DEF IInv, RowInv, Forward, LeavesWork, Past, Analyzed
  <2> QED
    BY <2>1, <2>2, <2>3
<1> QED
  BY <1>0, <1>1, Frames, InferenceFrame

\* on_failure and the acknowledgement.  A worker that fails marks an image that is past its
\* detections, or one that only the inference worker, the one failing, has in its hands.
LEMMA EndInv ==
  ASSUME IInv, NEW w \in Workers, EndStep(w)
  PROVE  /\ RowInv' /\ Forward
         /\ w # W => LeavesWork
         /\ UNCHANGED <<agentsQ, request>>
         /\ task'[w].pc \in {"idle", "marking", "ack"}
         /\ task'[w].pc # "idle" => Img(w)' = Img(w) /\ ~At(w, "idle")
         /\ \A v \in Workers \ {w} : task'[v] = task[v]
<1> USE DEF IInv, TypeOK, TaskTypes
<1>1. UNCHANGED <<agentsQ, request>>
  BY DEF EndStep, FailLoad, FailWrite, FailSwallow, Ack, queues
<1>2. /\ task'[w].pc \in {"idle", "marking", "ack"}
      /\ task'[w].pc # "idle" => Img(w)' = Img(w) /\ ~At(w, "idle")
      /\ \A v \in Workers \ {w} : task'[v] = task[v]
  <2>1. Settled(w) => /\ task'[w].pc = "ack" /\ Img(w)' = Img(w)
                      /\ \A v \in Workers \ {w} : task'[v] = task[v]
    BY SettledTo DEF Settled
  <2>2. Load(w, "marking") => /\ task'[w].pc = "marking" /\ Img(w)' = Img(w)
                              /\ \A v \in Workers \ {w} : task'[v] = task[v]
    BY LoadTo DEF Load
  <2>3. Ack(w) => /\ task'[w].pc = "idle"
                  /\ \A v \in Workers \ {w} : task'[v] = task[v]
    BY DEF Ack, Idle
  <2>4. Ack(w) \/ ((Settled(w) \/ Load(w, "marking")) /\ ~At(w, "idle"))
    BY DEF EndStep, FailLoad, FailWrite, FailSwallow, At
  <2> QED
    BY <2>1, <2>2, <2>3, <2>4
<1>3. CASE UNCHANGED rows
  BY <1>1, <1>2, <1>3, SameRows
<1>4. CASE FailWrite(w) /\ ~Missing(Img(w))
  <2>1. ~At(w, "idle")
    BY <1>4 DEF FailWrite, At
  <2>2. /\ Img(w) \in Images
        /\ MarkFailed(task[w].seen) \in Rows
        /\ MarkFailed(task[w].seen).status = "FAILED"
        /\ task[w].seen \in Rows
    BY <2>1, BusyWorker, MarkFailedType
  <2>3. WriteRow(Img(w), task[w].seen, MarkFailed(task[w].seen)) /\ UNCHANGED <<detections, analysis>>
    BY <1>4 DEF FailWrite
  <2>4. /\ \A j \in Images \ {Img(w)} : image'[j] = image[j]
        /\ image'[Img(w)].status \in {"FAILED", image[Img(w)].status}
    BY <2>2, <2>3, WriteRowType DEF RowTypes
  <2>5. image[Img(w)].status # "PURGED"
    BY <1>4 DEF Missing
  <2>6. RowInv'
    BY <2>2, <2>3, <2>4 DEF RowInv, Past
  <2>7. Forward
    BY <2>2, <2>3, <2>4, <2>5 DEF Forward, Past, Analyzed
  <2>8. w # W => LeavesWork
    <3>1. w # W => w \in AgentThreads
      BY DEF Workers, W
    <3>2. w # W => Past(Img(w))
      BY <2>1, <3>1 DEF AgentInv
    <3> QED
      BY <2>2, <2>4, <2>5, <3>2 DEF LeavesWork, Past
  <2> QED
    BY <1>1, <1>2, <2>6, <2>7, <2>8
<1>5. CASE FailWrite(w) /\ Missing(Img(w))
  BY <1>3, <1>5 DEF FailWrite, rows
<1> QED
  BY <1>3, <1>4, <1>5 DEF EndStep, FailLoad, FailSwallow, Ack

LEMMA InferenceStepInv ==
  IInv /\ InferenceStep => RowInv' /\ QueueInv' /\ InferenceInv' /\ AgentInv' /\ RequestInv'
<1> SUFFICES ASSUME IInv, InferenceStep
             PROVE  RowInv' /\ QueueInv' /\ InferenceInv' /\ AgentInv' /\ RequestInv'
  OBVIOUS
<1> USE WorkerSets
<1> USE DEF IInv
\* It is enough to look at the rows, the agents' queue and the worker itself.
<1>0. ASSUME RowInv', Forward, QueueInv', InferenceInv', UNCHANGED request,
             \A t \in AgentThreads : task'[t] = task[t]
      PROVE  RowInv' /\ QueueInv' /\ InferenceInv' /\ AgentInv' /\ RequestInv'
  BY <1>0, Frames
<1>a. task \in [Workers -> Tasks] /\ W \notin AgentThreads
  BY PipelineAssumption DEF TypeOK, TaskTypes, W
<1>1. ASSUME NEW i \in Images, NEW n \in 0..MaxRetries, InfReceive(i, n)
      PROVE  RowInv' /\ QueueInv' /\ InferenceInv' /\ AgentInv' /\ RequestInv'
  <2>1. InferenceInv'
    BY <1>1, <1>a DEF InfReceive, InferenceInv, At, Idle
  <2>2. \A t \in AgentThreads : task'[t] = task[t]
    BY <1>1, <1>a DEF InfReceive
  <2> QED
    BY <1>0, <1>1, <2>1, <2>2, SameRows, Frames DEF InfReceive
<1>2. CASE InfLoad
  <2>1. /\ Img(W)' = Img(W)
        /\ \/ task'[W].pc = "ack"
           \/ /\ task'[W].seen = image[Img(W)]
              /\ \/ task'[W].pc = "starting" /\ image[Img(W)].status = "QUEUED"
                 \/ task'[W].pc = "detecting" /\ image[Img(W)].status = "PROCESSING"
    BY <1>2, <1>a, SettledTo, LoadTo DEF InfLoad
  <2>2. UNCHANGED rows
    BY <1>2 DEF InfLoad
  <2>3. InferenceInv'
    BY <2>1, <2>2 DEF InferenceInv, At, rows
  <2>4. \A t \in AgentThreads : task'[t] = task[t]
    BY <1>2, <1>a DEF InfLoad, Settled, Load
  <2> QED
    BY <1>0, <1>2, <2>2, <2>3, <2>4, SameRows, Frames DEF InfLoad, queues
<1>3. CASE InfStart
  <2> DEFINE new == Transition(task[W].seen, "PROCESSING")
  <2>1. At(W, "starting") /\ ~At(W, "idle")
    BY <1>3 DEF InfStart, At
  <2>2. \A t \in AgentThreads : task'[t] = task[t]
    BY <1>3, <1>a DEF InfStart, Raise
  <2>3. CASE Missing(Img(W))
    <3>1. UNCHANGED rows /\ task'[W].pc = "failing"
      BY <1>3, <1>a, <2>3, RaiseTo DEF InfStart, rows
    <3>2. InferenceInv'
      BY <3>1 DEF InferenceInv, At
    <3> QED
      BY <1>0, <1>3, <2>2, <3>1, <3>2, SameRows, Frames DEF InfStart, queues
  <2>4. CASE ~Missing(Img(W))
    <3>1. /\ Img(W) \in Images /\ task[W].seen \in Rows
          /\ new \in Rows /\ new.status = "PROCESSING"
      BY <2>1, BusyWorker, RowsAreSessionRows, TransitionType
    <3>2. image[Img(W)].status = "QUEUED" /\ task[W].seen.status = "QUEUED"
      BY <2>1, <2>4 DEF InferenceInv, Missing
    <3>3. WriteRow(Img(W), task[W].seen, new) /\ UNCHANGED <<detections, analysis>>
      BY <1>3, <2>4 DEF InfStart
    <3>4. /\ \A j \in Images \ {Img(W)} : image'[j] = image[j]
          /\ image'[Img(W)].status = "PROCESSING"
      BY <3>1, <3>2, <3>3, WriteRowType DEF TypeOK, RowTypes
    <3>5. RowInv' /\ Forward
      BY <3>1, <3>2, <3>3, <3>4 DEF RowInv, Forward, Past, Analyzed
    <3>6. task' = [task EXCEPT ![W].pc = "detecting", ![W].seen = new]
      BY <1>3, <2>4 DEF InfStart
    <3> HIDE DEF new
    <3>7. task'[W].pc = "detecting" /\ Img(W)' = Img(W) /\ task'[W].seen = new
      BY <1>a, <3>6 DEF Img, Tasks
    <3>8. InferenceInv'
      BY <3>1, <3>4, <3>7 DEF InferenceInv, At
    <3> QED
      BY <1>0, <1>3, <2>2, <3>5, <3>8, Frames DEF InfStart, queues
  <2> QED
    BY <2>3, <2>4
<1>4. CASE InfTransient \/ InfError
  <2>1. task'[W].pc \in {"ack", "failing"}
    BY <1>4, <1>a, SettledTo, RaiseTo DEF InfTransient, InfError
  <2>2. \A t \in AgentThreads : task'[t] = task[t]
    BY <1>4, <1>a DEF InfTransient, InfError, Settled, Raise
  <2>3. InferenceInv'
    BY <2>1 DEF InferenceInv, At
  <2> QED
    BY <1>0, <1>4, <2>2, <2>3, SameRows, Frames DEF InfTransient, InfError, queues
<1>5. ASSUME NEW o \in Outcomes, InfCommit(o)
      PROVE  RowInv' /\ QueueInv' /\ InferenceInv' /\ AgentInv' /\ RequestInv'
  <2>1. At(W, "detecting") /\ ~At(W, "idle")
    BY <1>5 DEF InfCommit, At
  <2>2. \A t \in AgentThreads : task'[t] = task[t]
    BY <1>5, <1>a DEF InfCommit, Raise, Goto, Settled
  <2>3. CASE CommitRefused(o)
    <3>1. UNCHANGED rows /\ task'[W].pc = "failing"
      BY <1>5, <1>a, <2>3, RaiseTo DEF InfCommit
    <3>2. InferenceInv'
      BY <3>1 DEF InferenceInv, At
    <3> QED
      BY <1>0, <1>5, <2>2, <3>1, <3>2, SameRows, Frames DEF InfCommit, queues
  <2>4. CASE ~CommitRefused(o)
    <3>1. /\ Img(W) \in Images /\ task[W].seen \in Rows
          /\ SettledRow(task[W].seen, o) \in Rows
          /\ SettledRow(task[W].seen, o).status = o.to
      BY <2>1, BusyWorker, SettledRowType
    <3>2. image[Img(W)].status = "PROCESSING" /\ task[W].seen.status = "PROCESSING"
      BY <2>1, <2>4 DEF InferenceInv, CommitRefused, Missing
    <3>3. /\ o.to \in {"COMPLETED", "ANALYZING"}
          /\ o.to = "ANALYZING" => o.baseline = "knowledge_base"
          /\ o.baseline \in {"none", "knowledge_base"}
      BY DEF Outcomes
    <3>4. /\ WriteRow(Img(W), task[W].seen, SettledRow(task[W].seen, o))
          /\ detections' = [detections EXCEPT ![Img(W)] = @ + 1]
          /\ analysis' = [analysis EXCEPT ![Img(W)] = IF o.baseline = "none" THEN @
                                                      ELSE o.baseline]
      BY <1>5, <2>4 DEF InfCommit
    <3>5. /\ \A j \in Images \ {Img(W)} : image'[j] = image[j]
          /\ image'[Img(W)].status = o.to
      BY <3>1, <3>2, <3>3, <3>4, WriteRowType DEF TypeOK, RowTypes
    <3>6. detections[Img(W)] = 0 /\ analysis[Img(W)] = "none"
      BY <3>1, <3>2 DEF RowInv, Past
    <3>7. /\ detections'[Img(W)] = 1
          /\ analysis'[Img(W)] = o.baseline
          /\ \A j \in Images \ {Img(W)} : detections'[j] = detections[j] /\ analysis'[j] = analysis[j]
      BY <3>1, <3>3, <3>4, <3>6 DEF TypeOK, RowTypes
    <3>8. RowInv' /\ Forward
      BY <3>1, <3>2, <3>3, <3>5, <3>6, <3>7 DEF RowInv, Forward, Past, Analyzed
    <3>9. task'[W].pc \in {"enqueue", "ack"} /\ Img(W)' = Img(W)
      BY <1>5, <1>a, <2>4, SettledTo, GotoTo DEF InfCommit
    <3>10. InferenceInv'
      BY <3>1, <3>3, <3>5, <3>9 DEF InferenceInv, At, Past
    <3> QED
      BY <1>0, <1>5, <2>2, <3>8, <3>10, Frames DEF InfCommit, queues
  <2> QED
    BY <2>3, <2>4
<1>6. CASE InfEnqueueAgents
  <2>1. /\ Img(W) \in Images
        /\ Past(Img(W))
    BY <1>6, BusyWorker DEF InfEnqueueAgents, At, InferenceInv
  <2>2. task'[W].pc \in {"ack", "failing"}
    BY <1>6, <1>a, SettledTo, RaiseTo DEF InfEnqueueAgents
  <2>3. \A t \in AgentThreads : task'[t] = task[t]
    BY <1>6, <1>a DEF InfEnqueueAgents, Settled, Raise
  <2>4. InferenceInv'
    BY <2>2 DEF InferenceInv, At
  <2>5. RowInv' /\ Forward /\ UNCHANGED image
    BY <1>6, SameRows DEF InfEnqueueAgents, rows
  <2>6. \A j \in Images \ {Img(W)} : agentsQ'[j] = agentsQ[j]
    BY <1>6 DEF InfEnqueueAgents, PublishAgents, TypeOK, QueueTypes
  <2>7. QueueInv'
    BY <2>1, <2>5, <2>6 DEF QueueInv, Past
  <2> QED
    BY <1>0, <1>6, <2>3, <2>4, <2>5, <2>7 DEF InfEnqueueAgents
<1>7. CASE EndStep(W)
  <2>1. InferenceInv'
    BY <1>7, EndInv DEF InferenceInv, At
  <2> QED
    BY <1>0, <1>7, <1>a, <2>1, EndInv, Frames
<1> QED
  BY <1>1, <1>2, <1>3, <1>4, <1>5, <1>6, <1>7 DEF InferenceStep

LEMMA AgentStepInv ==
  ASSUME IInv, NEW t \in AgentThreads, AgentStep(t)
  PROVE  RowInv' /\ QueueInv' /\ InferenceInv' /\ AgentInv' /\ RequestInv'
<1> USE WorkerSets
<1> USE DEF IInv
<1>a. task \in [Workers -> Tasks] /\ t # W
  BY PipelineAssumption DEF TypeOK, TaskTypes, W
\* It is enough to look at the rows, the agents' queue and the thread itself.
<1>0. ASSUME RowInv', Forward, LeavesWork, QueueInv', UNCHANGED request,
             \A w \in Workers \ {t} : task'[w] = task[w],
             task'[t].pc # "idle" => Img(t)' \in Images /\ Past(Img(t)'),
             task'[t].pc = "chain" => Analyzed(Img(t)')
      PROVE  RowInv' /\ QueueInv' /\ InferenceInv' /\ AgentInv' /\ RequestInv'
  <2>1. InferenceInv'
    BY <1>0, <1>a, InferenceFrame
  <2>2. /\ \A u \in AgentThreads : ~At(u, "idle") => Img(u) \in Images
        /\ \A u \in AgentThreads : At(u, "chain") => ~At(u, "idle")
    BY BusyWorker DEF At
  <2>3. ASSUME NEW u \in AgentThreads \ {t}
        PROVE  /\ ~At(u, "idle")' => Past(Img(u))'
               /\ At(u, "chain")' => Analyzed(Img(u))'
    BY <1>0, <2>2, <2>3 DEF AgentInv, Forward, At, Img
  <2>4. /\ ~At(t, "idle")' => Past(Img(t))'
        /\ At(t, "chain")' => Analyzed(Img(t))'
    <3>1. At(t, "chain")' => ~At(t, "idle")'
      BY DEF At
    <3>2. ~At(t, "idle")' => Img(t)' \in Images /\ Past(Img(t)')
      BY <1>0 DEF At
    <3>3. At(t, "chain")' => Analyzed(Img(t)')
      BY <1>0 DEF At
    <3> QED
      BY <1>0, <3>1, <3>2, <3>3 DEF Forward, Past, Analyzed
  <2>5. AgentInv'
    BY <2>3, <2>4 DEF AgentInv
  <2>6. RequestInv'
    BY <1>0, Frames
  <2> QED
    BY <1>0, <2>1, <2>5, <2>6
<1>b. ~At(t, "idle") => Img(t) \in Images /\ Past(Img(t))
  BY BusyWorker DEF AgentInv
<1>1. ASSUME NEW i \in Images, AgReceive(t, i)
      PROVE  RowInv' /\ QueueInv' /\ InferenceInv' /\ AgentInv' /\ RequestInv'
  <2>1. /\ RowInv' /\ Forward /\ LeavesWork
        /\ UNCHANGED <<image, request>>
    BY <1>1, SameRows DEF AgReceive, rows
  <2>2. Past(i)
    BY <1>1 DEF AgReceive, QueueInv
  <2>3. QueueInv'
    BY <1>1, <2>1, <2>2 DEF AgReceive, QueueInv, Past, TypeOK, QueueTypes
  <2>4. /\ task'[t] = [Idle EXCEPT !.pc = "received", !.img = i]
        /\ \A w \in Workers \ {t} : task'[w] = task[w]
    BY <1>1, <1>a DEF AgReceive
  <2>5. task'[t].pc = "received" /\ Img(t)' = i
    BY <2>4 DEF Img, Idle
  <2> QED
    BY <1>0, <2>1, <2>2, <2>3, <2>4, <2>5
<1>2. CASE AgLoad(t) \/ AgError(t)
  <2>1. /\ task'[t].pc \in {"ack", "loaded", "failing"} /\ Img(t)' = Img(t) /\ ~At(t, "idle")
        /\ \A w \in Workers \ {t} : task'[w] = task[w]
    <3>1. ~At(t, "idle")
      BY <1>2 DEF AgLoad, AgError, At
    <3>2. task'[t].pc \in {"ack", "loaded", "failing"} /\ Img(t)' = Img(t)
      BY <1>2, <1>a, SettledTo, LoadTo, RaiseTo DEF AgLoad, AgError
    <3>3. \A w \in Workers \ {t} : task'[w] = task[w]
      BY <1>2, <1>a DEF AgLoad, AgError, Settled, Load, Raise
    <3> QED
      BY <3>1, <3>2, <3>3
  <2>2. UNCHANGED <<rows, queues, request>>
    BY <1>2 DEF AgLoad, AgError
  <2>3. RowInv' /\ Forward /\ LeavesWork /\ QueueInv'
    BY <2>2, SameRows, Frames DEF queues
  <2> QED
    BY <1>0, <1>b, <2>1, <2>2, <2>3
<1>3. CASE AgStartChain(t)
  <2>1. /\ task'[t].pc = "chain" /\ Img(t)' = Img(t) /\ ~At(t, "idle")
        /\ Analyzed(Img(t))
    BY <1>3, <1>a, GotoTo DEF AgStartChain, At, Analyzed
  <2>2. UNCHANGED <<rows, queues, request>>
    BY <1>3 DEF AgStartChain
  <2>3. \A w \in Workers \ {t} : task'[w] = task[w]
    BY <1>3, <1>a DEF AgStartChain, Goto
  <2>4. RowInv' /\ Forward /\ LeavesWork /\ QueueInv'
    BY <2>2, SameRows, Frames DEF queues
  <2> QED
    BY <1>0, <1>b, <2>1, <2>2, <2>3, <2>4
<1>4. ASSUME NEW source, ~At(t, "idle"), CommitAgents(t, source), UNCHANGED <<queues, request>>,
             source = analysis[Img(t)]
               \/ (source # "none" /\ (Missing(Img(t)) \/ analysis[Img(t)] # "none"))
      PROVE  RowInv' /\ QueueInv' /\ InferenceInv' /\ AgentInv' /\ RequestInv'
  <2>1. task'[t].pc \in {"ack", "failing"} /\ Img(t)' = Img(t)
    BY <1>4, <1>a, SettledTo, RaiseTo DEF CommitAgents
  <2>2. \A w \in Workers \ {t} : task'[w] = task[w]
    BY <1>4, <1>a DEF CommitAgents, Settled, Raise
  <2>3. RowInv' /\ Forward /\ LeavesWork
    <3>1. CASE Missing(Img(t))
      BY <1>4, <3>1, SameRows DEF CommitAgents
    <3>2. CASE ~Missing(Img(t))
      <4>1. /\ task[t].seen \in Rows
            /\ Transition(task[t].seen, "COMPLETED") \in Rows
            /\ Transition(task[t].seen, "COMPLETED").status = "COMPLETED"
        BY <1>4, BusyWorker, RowsAreSessionRows, TransitionType
      <4>2. /\ WriteRow(Img(t), task[t].seen, Transition(task[t].seen, "COMPLETED"))
            /\ analysis' = [analysis EXCEPT ![Img(t)] = source]
            /\ UNCHANGED detections
        BY <1>4, <3>2 DEF CommitAgents
      <4> QED
        BY <1>4, <1>b, <3>2, <4>1, <4>2, PastWrite
    <3> QED
      BY <3>1, <3>2
  <2>4. QueueInv'
    BY <1>4, <2>3, Frames DEF queues
  <2> QED
    BY <1>0, <1>4, <1>b, <2>1, <2>2, <2>3, <2>4
<1>5. CASE AgNoAnalysis(t)
  BY <1>4, <1>5 DEF AgNoAnalysis, At
<1>6. CASE AgFinish(t)
  <2>1. ~At(t, "idle") /\ Analyzed(Img(t))
    BY <1>6 DEF AgFinish, AgentInv, At
  <2>2. Missing(Img(t)) \/ analysis[Img(t)] # "none"
    BY <2>1 DEF Analyzed, Missing
  <2> QED
    BY <1>4, <1>6, <2>1, <2>2 DEF AgFinish
<1>7. CASE EndStep(t)
  <2>1. /\ RowInv' /\ Forward /\ LeavesWork
        /\ UNCHANGED <<agentsQ, request>>
        /\ task'[t].pc \in {"idle", "marking", "ack"}
        /\ task'[t].pc # "idle" => Img(t)' = Img(t) /\ ~At(t, "idle")
        /\ \A w \in Workers \ {t} : task'[w] = task[w]
    BY <1>7, <1>a, EndInv
  <2> QED
    BY <1>0, <1>b, <2>1, Frames
<1> QED
  BY <1>1, <1>2, <1>3, <1>5, <1>6, <1>7 DEF AgentStep

LEMMA RequestStepInv ==
  ASSUME IInv, NEW r \in Requests, RequestStep(r)
  PROVE  RowInv' /\ QueueInv' /\ InferenceInv' /\ AgentInv' /\ RequestInv'
<1> USE DEF IInv
<1>a. request \in [Requests -> RequestStates] /\ UNCHANGED task
  BY DEF TypeOK, RequestTypes, RequestStep, ReqLoad, ReqCommit, ReqPublish, ReqCrash
<1>b. \A q \in Requests \ {r} : request'[q] = request[q]
  BY <1>a DEF RequestStep, ReqLoad, ReqCommit, ReqPublish, ReqCrash
<1>c. /\ request[r].pc \in {"opening", "publishing"}
           => request[r].img \in Images /\ Past(request[r].img)
      /\ request[r].pc = "opening" => Analyzed(request[r].img)
  BY DEF TypeOK, RequestTypes, RequestInv
\* It is enough to look at the rows, the agents' queue and the request itself.
<1>0. ASSUME RowInv', Forward, LeavesWork, QueueInv',
             request'[r].pc \in {"opening", "publishing"}
               => request'[r].img \in Images /\ Past(request'[r].img),
             request'[r].pc = "opening" => Analyzed(request'[r].img)
      PROVE  RowInv' /\ QueueInv' /\ InferenceInv' /\ AgentInv' /\ RequestInv'
  <2>1. InferenceInv' /\ AgentInv'
    BY <1>0, <1>a, Frames, InferenceFrame
  <2>2. ASSUME NEW q \in Requests \ {r}
        PROVE  /\ request'[q].pc \in {"opening", "publishing"} => Past(request[q].img)'
               /\ request'[q].pc = "opening" => Analyzed(request[q].img)'
    <3>1. request[q].pc \in {"opening", "publishing"} => request[q].img \in Images
      BY DEF TypeOK, RequestTypes
    <3> QED
      BY <1>0, <1>b, <3>1 DEF RequestInv, Forward
  <2>3. /\ request'[r].pc \in {"opening", "publishing"} => Past(request[r].img)'
        /\ request'[r].pc = "opening" => Analyzed(request[r].img)'
    BY <1>0 DEF Forward, Past, Analyzed
  <2>4. RequestInv'
    BY <2>2, <2>3 DEF RequestInv
  <2> QED
    BY <1>0, <2>1, <2>4
<1>1. ASSUME NEW i \in Images, ReqLoad(r, i)
      PROVE  RowInv' /\ QueueInv' /\ InferenceInv' /\ AgentInv' /\ RequestInv'
  <2>1. UNCHANGED <<rows, queues>>
    BY <1>1 DEF ReqLoad
  <2>2. RowInv' /\ Forward /\ LeavesWork /\ QueueInv'
    BY <2>1, SameRows, Frames DEF queues
  <2>3. CanTransition(image[i].status, "ANALYZING") => image[i].status = "COMPLETED"
    <3>1. image[i].status \in RowStatuses
      BY DEF TypeOK, RowTypes, Rows
    <3> QED
      BY <3>1 DEF CanTransition, ALLOWED_TRANSITIONS, ImageStatuses, RowStatuses
  <2>4. CASE analysis[i] # "none" /\ CanTransition(image[i].status, "ANALYZING")
    <3>1. request'[r] = [pc |-> "opening", img |-> i, seen |-> image[i]]
      BY <1>1, <1>a, <2>4 DEF ReqLoad
    <3>2. Past(i) /\ Analyzed(i)
      BY <2>3, <2>4 DEF Past, Analyzed
    <3> QED
      BY <1>0, <2>2, <3>1, <3>2
  <2>5. CASE ~(analysis[i] # "none" /\ CanTransition(image[i].status, "ANALYZING"))
    <3>1. request'[r].pc = "done"
      BY <1>1, <1>a, <2>5 DEF ReqLoad, RequestDone, NoRequest
    <3> QED
      BY <1>0, <2>2, <3>1
  <2> QED
    BY <2>4, <2>5
<1>2. CASE ReqCommit(r)
  <2>0. request[r].pc = "opening"
    BY <1>2 DEF ReqCommit
  <2>1. /\ request'[r].pc = "publishing" => request'[r].img = request[r].img
        /\ request'[r].pc \in {"publishing", "done"}
    BY <1>2, <1>a DEF ReqCommit, RequestDone, NoRequest, RequestStates
  <2>2. RowInv' /\ Forward /\ LeavesWork
    <3>1. CASE Missing(request[r].img)
      BY <1>2, <3>1, SameRows DEF ReqCommit, rows
    <3>2. CASE ~Missing(request[r].img)
      <4>1. request[r].seen \in Rows
        BY <1>a DEF RequestStates
      <4>2. /\ Transition(request[r].seen, "ANALYZING") \in Rows
            /\ Transition(request[r].seen, "ANALYZING").status = "ANALYZING"
        BY <4>1, RowsAreSessionRows, TransitionType
      <4>3. /\ WriteRow(request[r].img, request[r].seen, Transition(request[r].seen, "ANALYZING"))
            /\ UNCHANGED <<detections, analysis>>
        BY <1>2, <3>2 DEF ReqCommit
      <4>4. analysis[request[r].img] # "none"
        BY <1>c, <2>0, <3>2 DEF Analyzed, Missing
      <4>5. analysis' = [analysis EXCEPT ![request[r].img] = analysis[request[r].img]]
        BY <1>c, <2>0, <4>3 DEF TypeOK, RowTypes
      <4> QED
        BY <1>c, <2>0, <3>2, <4>1, <4>2, <4>3, <4>4, <4>5, PastWrite
    <3> QED
      BY <3>1, <3>2
  <2>3. QueueInv'
    BY <1>2, <2>2, Frames DEF ReqCommit, queues
  <2> QED
    BY <1>0, <1>c, <2>0, <2>1, <2>2, <2>3
<1>3. CASE ReqPublish(r)
  <2>1. UNCHANGED rows /\ request'[r].pc = "done"
    BY <1>3, <1>a DEF ReqPublish, RequestDone, NoRequest
  <2>2. RowInv' /\ Forward /\ LeavesWork
    BY <2>1, SameRows
  <2>3. QueueInv'
    <3>1. Past(request[r].img) /\ request[r].img \in Images
      BY <1>3, <1>c DEF ReqPublish
    <3>2. \A j \in Images \ {request[r].img} : agentsQ'[j] = agentsQ[j]
      BY <1>3, <3>1 DEF ReqPublish, PublishAgents, TypeOK, QueueTypes
    <3> QED
      BY <2>1, <3>1, <3>2 DEF QueueInv, Past, rows
  <2> QED
    BY <1>0, <2>1, <2>2, <2>3
<1>4. CASE ReqCrash(r)
  <2>1. UNCHANGED <<rows, queues>> /\ request'[r].pc = "done"
    BY <1>4, <1>a DEF ReqCrash, RequestDone, NoRequest
  <2> QED
    BY <1>0, <2>1, SameRows, Frames DEF queues
<1> QED
  BY <1>1, <1>2, <1>3, <1>4 DEF RequestStep

LEMMA CrashInv ==
  IInv /\ (InferenceCrash \/ AgentsCrash)
    => RowInv' /\ QueueInv' /\ InferenceInv' /\ AgentInv' /\ RequestInv'
<1> SUFFICES ASSUME IInv, InferenceCrash \/ AgentsCrash
             PROVE  RowInv' /\ QueueInv' /\ InferenceInv' /\ AgentInv' /\ RequestInv'
  OBVIOUS
<1> USE WorkerSets
<1> USE DEF IInv
<1>a. task \in [Workers -> Tasks] /\ W \notin AgentThreads
  BY PipelineAssumption DEF TypeOK, TaskTypes, W
<1>b. UNCHANGED <<rows, request>>
  BY DEF InferenceCrash, AgentsCrash
<1>c. RowInv' /\ Forward /\ LeavesWork /\ RequestInv'
  BY <1>b, SameRows, Frames
<1>1. CASE InferenceCrash
  <2>1. task'[W].pc = "idle" /\ \A t \in AgentThreads : task'[t] = task[t]
    BY <1>1, <1>a DEF InferenceCrash, Idle
  <2>2. InferenceInv'
    BY <2>1 DEF InferenceInv, At
  <2> QED
    BY <1>1, <1>c, <2>1, <2>2, Frames DEF InferenceCrash
<1>2. CASE AgentsCrash
  <2>1. task'[W] = task[W] /\ \A t \in AgentThreads : task'[t].pc = "idle"
    BY <1>2, <1>a DEF AgentsCrash, Idle
  <2>2. InferenceInv'
    BY <1>c, <2>1, InferenceFrame
  <2>3. AgentInv'
    BY <2>1 DEF AgentInv, At
  <2>4. QueueInv'
    <3>1. ASSUME NEW i \in Images, agentsQ'[i] > 0 PROVE Past(i)
      <4>1. CASE \E t \in AgentThreads : Img(t) = i
        <5>1. PICK t \in AgentThreads : Img(t) = i
          BY <4>1
        <5>2. ~At(t, "idle")
          BY <5>1, PipelineAssumption DEF TypeOK, TaskTypes
        <5> QED
          BY <5>1, <5>2 DEF AgentInv
      <4>2. CASE ~ \E t \in AgentThreads : Img(t) = i
        <5>1. {t \in AgentThreads : Img(t) = i} = {}
          BY <4>2
        <5>2. Cardinality({t \in AgentThreads : Img(t) = i}) = 0
          BY <5>1, FS_EmptySet
        <5>3. agentsQ'[i] = agentsQ[i]
          BY <1>2, <5>2 DEF AgentsCrash, TypeOK, QueueTypes
        <5> QED
          BY <3>1, <5>3 DEF QueueInv
      <4> QED
        BY <4>1, <4>2
    <3> QED
      BY <1>b, <3>1 DEF QueueInv, Past, rows
  <2> QED
    BY <1>c, <2>2, <2>3, <2>4
<1> QED
  BY <1>1, <1>2

LEMMA NextInv == IInv /\ [Next]_vars => IInv'
<1> SUFFICES ASSUME IInv, [Next]_vars PROVE IInv'
  OBVIOUS
<1>1. TypeOK'
  BY NextType DEF IInv
<1>2. RowInv' /\ QueueInv' /\ InferenceInv' /\ AgentInv' /\ RequestInv'
  <2>1. CASE UNCHANGED vars
    <3>1. /\ UNCHANGED rows /\ UNCHANGED <<agentsQ, task, request>>
      BY <2>1 DEF vars, rows
    <3> QED
      BY <3>1, SameRows, Frames, InferenceFrame
  <2>2. CASE Next
    BY <2>2, IngestionInv, InferenceStepInv, AgentStepInv, RequestStepInv, CrashInv DEF Next
  <2> QED
    BY <2>1, <2>2
<1> QED
  BY <1>1, <1>2 DEF IInv

-----------------------------------------------------------------------------
\* An image gets the Detection rows of one pass, and none before the pass that settles it,
\* whatever is retried, delivered twice, killed or purged (pipeline.py:78-81, the early
\* return of run_inference for work that is done).
THEOREM DetectionsOnceHolds == Spec => []DetectionsOnce
<1>1. IInv => DetectionsOnce
  BY DEF IInv, RowInv, Past, DetectionsOnce
<1> QED
  BY <1>1, InitInv, NextInv, PTL DEF Spec

\* An ANALYZING image has an analysis to fall back on, and an analysis has its detections
\* (pipeline.py:84-104: one transaction stores both before the agents are asked).
THEOREM BaselineFirstHolds == Spec => []BaselineFirst
<1>1. IInv => BaselineFirst
  BY DEF IInv, RowInv, BaselineFirst
<1> QED
  BY <1>1, InitInv, NextInv, PTL DEF Spec

-----------------------------------------------------------------------------
(* What the agents have written is not replaced by a baseline. *)

KeepsAgents(i) ==
  analysis[i] = "agents" => analysis'[i] = "agents" \/ image'[i].status = "PURGED"

LEMMA StepKeepsAgents ==
  ASSUME TypeOK, [Next]_vars
  PROVE  \A i \in Images : KeepsAgents(i)
<1>1. CASE UNCHANGED analysis
  BY <1>1 DEF KeepsAgents
<1>2. ASSUME NEW o \in Outcomes, InfCommit(o) PROVE \A i \in Images : KeepsAgents(i)
  <2>1. CASE CommitRefused(o)
    BY <1>1, <1>2, <2>1 DEF InfCommit, rows
  <2>2. CASE ~CommitRefused(o)
    <3>1. analysis' = [analysis EXCEPT ![Img(W)] = IF o.baseline = "none" THEN @ ELSE o.baseline]
      BY <1>2, <2>2 DEF InfCommit
    <3>2. o.baseline = "none" \/ analysis[Img(W)] = "none"
      BY <2>2 DEF CommitRefused
    <3> QED
      BY <3>1, <3>2 DEF KeepsAgents, TypeOK, RowTypes
  <2> QED
    BY <2>1, <2>2
<1>3. ASSUME NEW t \in AgentThreads, AgNoAnalysis(t) \/ AgFinish(t)
      PROVE  \A i \in Images : KeepsAgents(i)
  <2>1. PICK source : /\ CommitAgents(t, source)
                      /\ source \in {"agents", analysis[Img(t)]}
    <3>1. CASE AgNoAnalysis(t)
      BY <3>1 DEF AgNoAnalysis
    <3>2. CASE AgFinish(t)
      BY <3>2 DEF AgFinish
    <3> QED
      BY <1>3, <3>1, <3>2
  <2>2. UNCHANGED analysis \/ analysis' = [analysis EXCEPT ![Img(t)] = source]
    BY <2>1 DEF CommitAgents, rows
  <2> QED
    BY <2>1, <2>2 DEF KeepsAgents, TypeOK, RowTypes
<1>4. ASSUME NEW i \in Images, Purge(i) PROVE \A j \in Images : KeepsAgents(j)
  <2>1. image'[i].status = "PURGED" /\ \A j \in Images \ {i} : analysis'[j] = analysis[j]
    BY <1>4 DEF Purge, Row, TypeOK, RowTypes
  <2> QED
    BY <2>1 DEF KeepsAgents
<1>5. CASE UNCHANGED vars
  BY <1>1, <1>5 DEF vars
<1>6. CASE Next
  <2>1. CASE Ingest \/ IngestCrash \/ InferenceCrash \/ AgentsCrash
    BY <1>1, <2>1 DEF Ingest, IngestCrash, InferenceCrash, AgentsCrash, rows
  <2>2. CASE \E i \in Images : EnqueueIngested(i) \/ Purge(i)
    BY <1>1, <1>4, <2>2 DEF EnqueueIngested, rows
  <2>3. ASSUME NEW w \in Workers, EndStep(w) PROVE UNCHANGED analysis
    BY <2>3 DEF EndStep, FailLoad, FailWrite, FailSwallow, Ack, rows
  <2>4. CASE InferenceStep
    BY <1>1, <1>2, <2>3, <2>4, WorkerSets DEF InferenceStep, InfReceive, InfLoad, InfStart,
       InfTransient, InfError, InfEnqueueAgents, rows
  <2>5. ASSUME NEW t \in AgentThreads, AgentStep(t) PROVE \A i \in Images : KeepsAgents(i)
    <3>1. CASE EndStep(t)
      BY <1>1, <2>3, <3>1, WorkerSets
    <3>2. CASE AgLoad(t) \/ AgStartChain(t) \/ AgError(t) \/ \E i \in Images : AgReceive(t, i)
      BY <1>1, <3>2 DEF AgLoad, AgStartChain, AgError, AgReceive, rows
    <3> QED
      BY <1>3, <2>5, <3>1, <3>2 DEF AgentStep
  <2>6. ASSUME NEW r \in Requests, RequestStep(r) PROVE UNCHANGED analysis
    BY <2>6 DEF RequestStep, ReqLoad, ReqCommit, ReqPublish, ReqCrash, rows
  <2> QED
    BY <1>1, <1>6, <2>1, <2>2, <2>4, <2>5, <2>6 DEF Next
<1> QED
  BY <1>5, <1>6

\* The chain's result is never replaced by the baseline.
THEOREM AgentsResultAlwaysKept == Spec => AgentsResultKept
<1>1. TypeOK /\ [Next]_vars =>
        [\A i \in Images :
           analysis[i] = "agents" => analysis'[i] = "agents" \/ image'[i].status = "PURGED"]_vars
  BY StepKeepsAgents DEF KeepsAgents
<1> QED
  BY <1>1, TypeCorrect, PTL DEF Spec, AgentsResultKept

-----------------------------------------------------------------------------
(***************************************************************************)
(* No image is stranded.  Who is to take an image further must be able to: *)
(* a worker at "marking" counts only if it has read a row that it will     *)
(* mark, and an exception has a message where no environment has blank     *)
(* ones.                                                                   *)
(***************************************************************************)

\* A worker that is about to record a failure finds something to record.
Records(w) == At(w, "marking") => task[w].seen.status # "FAILED"

LoadedInv ==
  \A t \in AgentThreads : task[t].pc \in {"loaded", "chain"} => task[t].seen.status = "ANALYZING"

WordedInv ==
  "blank_error" \notin env =>
    \A w \in Workers : task[w].pc \in {"failing", "marking"} => task[w].exc = "worded"

InferenceComes(i) ==
  \/ i \in pending
  \/ \E n \in 0..MaxRetries : inferenceQ[i][n] > 0
  \/ Img(W) = i /\ ~At(W, "ack") /\ Records(W)

AgentsCome(i) ==
  \/ agentsQ[i] > 0
  \/ \E t \in AgentThreads : Img(t) = i /\ ~At(t, "ack") /\ Records(t)
  \/ Img(W) = i /\ task[W].pc \in {"enqueue", "failing", "marking"} /\ Records(W)
  \/ \E r \in Requests : request[r].pc = "publishing" /\ request[r].img = i

InferenceReliable == env \cap {"api_crash", "broker", "blank_error", "on_failure_error"} = {}
AnalysisReliable ==
  env \cap {"inference_crash", "api_crash", "broker", "blank_error", "on_failure_error"} = {}

InferenceLossInv ==
  InferenceReliable =>
    \A i \in Images : image[i].status \in {"QUEUED", "PROCESSING"} => InferenceComes(i)
AnalysisLossInv ==
  AnalysisReliable => \A i \in Images : image[i].status = "ANALYZING" => AgentsCome(i)

LossInv == IInv /\ LoadedInv /\ WordedInv /\ InferenceLossInv /\ AnalysisLossInv

-----------------------------------------------------------------------------
(* What the building blocks of a task leave in `task`. *)

OthersWork(w) == \A v \in Workers \ {w} : task'[v] = task[v]

LEMMA RaiseLeaves ==
  ASSUME TypeOK, NEW w \in Workers, NEW exc, Raise(w, exc)
  PROVE  /\ At(w, "failing")' /\ Img(w)' = Img(w) /\ task'[w].exc = exc /\ OthersWork(w)
<1>1. task \in [Workers -> Tasks]
  BY DEF TypeOK, TaskTypes
<1>2. task'[w] = [task[w] EXCEPT !.pc = "failing", !.exc = exc]
  BY <1>1 DEF Raise
<1> QED
  BY <1>1, <1>2 DEF Raise, Img, At, Tasks, OthersWork

LEMMA SettledLeaves ==
  ASSUME TypeOK, NEW w \in Workers, Settled(w)
  PROVE  At(w, "ack")' /\ Img(w)' = Img(w) /\ OthersWork(w)
<1>1. task \in [Workers -> Tasks]
  BY DEF TypeOK, TaskTypes
<1> QED
  BY <1>1, SettledTo DEF Settled, At, OthersWork

LEMMA LoadLeaves ==
  ASSUME TypeOK, NEW w \in Workers, NEW pc, Load(w, pc)
  PROVE  /\ At(w, pc)' /\ Img(w)' = Img(w) /\ task'[w].seen = image[Img(w)]
         /\ task'[w].exc = task[w].exc /\ OthersWork(w)
<1>1. task \in [Workers -> Tasks]
  BY DEF TypeOK, TaskTypes
<1>2. task'[w] = [task[w] EXCEPT !.pc = pc, !.seen = image[Img(w)]]
  BY <1>1 DEF Load
<1> QED
  BY <1>1, <1>2 DEF Load, Img, At, Tasks, OthersWork

LEMMA GotoLeaves ==
  ASSUME TypeOK, NEW w \in Workers, NEW pc, Goto(w, pc)
  PROVE  /\ At(w, pc)' /\ Img(w)' = Img(w) /\ task'[w].seen = task[w].seen
         /\ task'[w].exc = task[w].exc /\ OthersWork(w)
<1>1. task \in [Workers -> Tasks]
  BY DEF TypeOK, TaskTypes
<1>2. task'[w] = [task[w] EXCEPT !.pc = pc]
  BY <1>1 DEF Goto
<1> QED
  BY <1>1, <1>2 DEF Goto, Img, At, Tasks, OthersWork

LEMMA IdleLeaves ==
  ASSUME TypeOK, NEW w \in Workers, task' = [task EXCEPT ![w] = Idle]
  PROVE  At(w, "idle")' /\ OthersWork(w)
<1>1. task \in [Workers -> Tasks]
  BY DEF TypeOK, TaskTypes
<1> QED
  BY <1>1 DEF At, Idle, OthersWork

LEMMA ReceiveLeaves ==
  ASSUME TypeOK, NEW w \in Workers, NEW i, NEW n,
         task' = [task EXCEPT ![w] = [Idle EXCEPT !.pc = "received", !.img = i, !.tries = n]]
  PROVE  At(w, "received")' /\ Img(w)' = i /\ OthersWork(w)
<1>1. task \in [Workers -> Tasks]
  BY DEF TypeOK, TaskTypes
<1> QED
  BY <1>1 DEF At, Img, Idle, OthersWork

-----------------------------------------------------------------------------
(* The two invariants of `task` alone. *)

\* What a step of worker w may leave it with.
Sound(w) ==
  /\ task'[w].pc \in {"failing", "marking"} => "blank_error" \in env \/ task'[w].exc = "worded"
  /\ task'[w].pc \in {"loaded", "chain"} /\ w # W => task'[w].seen.status = "ANALYZING"

LEMMA EndSound ==
  ASSUME TypeOK, WordedInv, NEW w \in Workers, EndStep(w)
  PROVE  Sound(w) /\ OthersWork(w)
<1>1. CASE Settled(w)
  BY <1>1, SettledLeaves DEF Sound, At
<1>2. CASE At(w, "failing") /\ Load(w, "marking")
  <2>1. "blank_error" \in env \/ task[w].exc = "worded"
    BY <1>2 DEF WordedInv, At
  <2> QED
    BY <1>2, <2>1, LoadLeaves DEF Sound, At
<1>3. CASE Ack(w)
  BY <1>3, IdleLeaves DEF Sound, At, Ack
<1> QED
  BY <1>1, <1>2, <1>3 DEF EndStep, FailLoad, FailWrite, FailSwallow

LEMMA InferenceSound ==
  ASSUME TypeOK, WordedInv, InferenceStep
  PROVE  Sound(W) /\ OthersWork(W)
<1> USE WorkerSets
<1>1. ASSUME NEW i \in Images, NEW n \in 0..MaxRetries, InfReceive(i, n)
      PROVE  Sound(W) /\ OthersWork(W)
  BY <1>1, ReceiveLeaves DEF InfReceive, Sound, At
<1>2. CASE Settled(W)
  BY <1>2, SettledLeaves DEF Sound, At
<1>3. CASE Load(W, "starting") \/ Load(W, "detecting") \/ Goto(W, "enqueue")
  BY <1>3, LoadLeaves, GotoLeaves DEF Sound, At
<1>4. CASE Raise(W, "worded") \/ ("blank_error" \in env /\ Raise(W, "blank"))
  BY <1>4, RaiseLeaves DEF Sound, At
<1>5. ASSUME NEW seen, task' = [task EXCEPT ![W].pc = "detecting", ![W].seen = seen]
      PROVE  Sound(W) /\ OthersWork(W)
  <2>1. task \in [Workers -> Tasks]
    BY DEF TypeOK, TaskTypes
  <2>2. task'[W] = [task[W] EXCEPT !.pc = "detecting", !.seen = seen]
    BY <1>5, <2>1
  <2> QED
    BY <1>5, <2>1, <2>2 DEF Sound, Tasks, OthersWork
<1>6. CASE EndStep(W)
  BY <1>6, EndSound
<1>7. CASE InfLoad \/ InfTransient \/ InfError \/ InfEnqueueAgents
  BY <1>2, <1>3, <1>4, <1>7 DEF InfLoad, InfTransient, InfError, InfEnqueueAgents
<1>8. CASE InfStart
  BY <1>4, <1>5, <1>8 DEF InfStart
<1>9. CASE \E o \in Outcomes : InfCommit(o)
  BY <1>2, <1>3, <1>4, <1>9 DEF InfCommit
<1> QED
  BY <1>1, <1>6, <1>7, <1>8, <1>9 DEF InferenceStep

LEMMA AgentSound ==
  ASSUME TypeOK, WordedInv, LoadedInv, NEW t \in AgentThreads, AgentStep(t)
  PROVE  Sound(t) /\ OthersWork(t)
<1> USE WorkerSets
<1>1. ASSUME NEW i \in Images, AgReceive(t, i) PROVE Sound(t) /\ OthersWork(t)
  <2>1. task \in [Workers -> Tasks]
    BY DEF TypeOK, TaskTypes
  <2> QED
    BY <1>1, <2>1 DEF AgReceive, Sound, Idle, OthersWork
<1>2. CASE Settled(t)
  BY <1>2, SettledLeaves DEF Sound, At
<1>3. CASE AgLoad(t)
  <2>1. CASE Settled(t)
    BY <1>2, <2>1
  <2>2. CASE Load(t, "loaded") /\ image[Img(t)].status = "ANALYZING"
    BY <2>2, LoadLeaves DEF Sound, At
  <2> QED
    BY <1>3, <2>1, <2>2 DEF AgLoad
<1>4. CASE AgStartChain(t)
  <2>1. task[t].seen.status = "ANALYZING"
    BY <1>4 DEF AgStartChain, LoadedInv, At
  <2> QED
    BY <1>4, <2>1, GotoLeaves DEF AgStartChain, Sound, At
<1>5. CASE Raise(t, "worded") \/ ("blank_error" \in env /\ Raise(t, "blank"))
  BY <1>5, RaiseLeaves DEF Sound, At
<1>6. CASE AgNoAnalysis(t) \/ AgFinish(t)
  BY <1>2, <1>5, <1>6 DEF AgNoAnalysis, AgFinish, CommitAgents
<1>7. CASE AgError(t)
  BY <1>5, <1>7 DEF AgError
<1>8. CASE EndStep(t)
  BY <1>8, EndSound
<1> QED
  BY <1>1, <1>3, <1>4, <1>6, <1>7, <1>8 DEF AgentStep

\* The environment of a behaviour is the same throughout.
LEMMA SameEnv == [Next]_vars => UNCHANGED env
<1>1. \A w \in Workers : EndStep(w) => UNCHANGED env
  BY DEF EndStep, FailLoad, FailWrite, FailSwallow, Ack
<1>2. InferenceStep => UNCHANGED env
  BY <1>1, WorkerSets DEF InferenceStep, InfReceive, InfLoad, InfStart, InfTransient, InfError,
     InfCommit, InfEnqueueAgents
<1>3. \A t \in AgentThreads : AgentStep(t) => UNCHANGED env
  BY <1>1, WorkerSets DEF AgentStep, AgReceive, AgLoad, AgNoAnalysis, AgStartChain, AgFinish,
     AgError
<1>4. \A r \in Requests : RequestStep(r) => UNCHANGED env
  BY DEF RequestStep, ReqLoad, ReqCommit, ReqPublish, ReqCrash
<1>5. \A i \in Images : EnqueueIngested(i) \/ Purge(i) => UNCHANGED env
  BY DEF EnqueueIngested, Purge
<1>6. Ingest \/ IngestCrash \/ InferenceCrash \/ AgentsCrash => UNCHANGED env
  BY DEF Ingest, IngestCrash, InferenceCrash, AgentsCrash
<1> QED
  BY <1>2, <1>3, <1>4, <1>5, <1>6 DEF Next, vars

LEMMA TaskInv ==
  TypeOK /\ WordedInv /\ LoadedInv /\ [Next]_vars => WordedInv' /\ LoadedInv'
<1> SUFFICES ASSUME TypeOK, WordedInv, LoadedInv, [Next]_vars PROVE WordedInv' /\ LoadedInv'
  OBVIOUS
<1>a. W \notin AgentThreads /\ Workers = AgentThreads \cup {W} /\ UNCHANGED env
  BY PipelineAssumption, SameEnv DEF W, Workers
<1>1. ASSUME NEW w \in Workers, Sound(w), OthersWork(w) PROVE WordedInv' /\ LoadedInv'
  <2>1. WordedInv'
    BY <1>1, <1>a DEF Sound, OthersWork, WordedInv
  <2>2. LoadedInv'
    BY <1>1, <1>a DEF Sound, OthersWork, LoadedInv
  <2> QED
    BY <2>1, <2>2
<1>2. CASE UNCHANGED task
  BY <1>2, <1>a DEF WordedInv, LoadedInv
<1>3. CASE InferenceCrash
  BY <1>1, <1>3, <1>a, IdleLeaves DEF InferenceCrash, Sound, At
<1>4. CASE AgentsCrash
  <2>1. \A w \in Workers : task'[w] = task[w] \/ task'[w].pc = "idle"
    BY <1>4 DEF AgentsCrash, Idle
  <2> QED
    BY <2>1, <1>a DEF WordedInv, LoadedInv
<1>5. CASE InferenceStep
  BY <1>1, <1>5, <1>a, InferenceSound
<1>6. ASSUME NEW t \in AgentThreads, AgentStep(t) PROVE WordedInv' /\ LoadedInv'
  BY <1>1, <1>6, <1>a, AgentSound
<1>7. CASE Ingest \/ IngestCrash \/ (\E i \in Images : EnqueueIngested(i) \/ Purge(i))
             \/ (\E r \in Requests : RequestStep(r)) \/ UNCHANGED vars
  BY <1>2, <1>7 DEF Ingest, IngestCrash, EnqueueIngested, Purge, RequestStep, ReqLoad, ReqCommit,
     ReqPublish, ReqCrash, vars
<1> QED
  BY <1>3, <1>4, <1>5, <1>6, <1>7 DEF Next

-----------------------------------------------------------------------------
(* A step of a worker concerns the image it holds, and who else was to take *)
(* an image further still is.                                               *)

\* Worker w moves; the images it does not hold, and what waits for them, stay.
OnlyOn(w) ==
  /\ OthersWork(w)
  /\ UNCHANGED <<pending, request>>
  /\ \A i \in Images \ {Img(w)} : /\ image'[i] = image[i]
                                  /\ inferenceQ'[i] = inferenceQ[i]
                                  /\ agentsQ'[i] = agentsQ[i]
  /\ Img(w)' = Img(w) \/ Img(w)' = NoImage

LEMMA OtherImages ==
  ASSUME TypeOK, NEW w \in Workers, OnlyOn(w), NEW i \in Images, i # Img(w)
  PROVE  /\ image'[i] = image[i]
         /\ InferenceComes(i) => InferenceComes(i)'
         /\ AgentsCome(i) => AgentsCome(i)'
<1>1. image'[i] = image[i] /\ inferenceQ'[i] = inferenceQ[i] /\ agentsQ'[i] = agentsQ[i]
  BY DEF OnlyOn
<1>2. \A v \in Workers : Img(v) = i => task'[v] = task[v]
  BY DEF OnlyOn, OthersWork
<1>3. InferenceComes(i) => InferenceComes(i)'
  BY <1>1, <1>2, WorkerSets DEF OnlyOn, InferenceComes, Img, At, Records
<1>4. AgentsCome(i) => AgentsCome(i)'
  BY <1>1, <1>2, WorkerSets DEF OnlyOn, AgentsCome, Img, At, Records
<1> QED
  BY <1>1, <1>3, <1>4

\* What a step of worker w must do for the image it holds.
Continues(w) ==
  \A i \in Images : i = Img(w) =>
    /\ InferenceReliable /\ image'[i].status \in {"QUEUED", "PROCESSING"} => InferenceComes(i)'
    /\ AnalysisReliable /\ image'[i].status = "ANALYZING" => AgentsCome(i)'

LEMMA LossFrame ==
  ASSUME LossInv, UNCHANGED env, NEW w \in Workers, OnlyOn(w), Continues(w)
  PROVE  InferenceLossInv' /\ AnalysisLossInv'
<1>0. TypeOK /\ (InferenceReliable' <=> InferenceReliable) /\ (AnalysisReliable' <=> AnalysisReliable)
  BY DEF LossInv, IInv, InferenceReliable, AnalysisReliable
<1>1. InferenceLossInv'
  <2> SUFFICES ASSUME InferenceReliable, NEW i \in Images,
                      image'[i].status \in {"QUEUED", "PROCESSING"}
               PROVE  InferenceComes(i)'
    BY <1>0 DEF InferenceLossInv
  <2>1. CASE i = Img(w)
    BY <2>1 DEF Continues
  <2>2. CASE i # Img(w)
    BY <1>0, <2>2, OtherImages DEF LossInv, InferenceLossInv
  <2> QED
    BY <2>1, <2>2
<1>2. AnalysisLossInv'
  <2> SUFFICES ASSUME AnalysisReliable, NEW i \in Images, image'[i].status = "ANALYZING"
               PROVE  AgentsCome(i)'
    BY <1>0 DEF AnalysisLossInv
  <2>1. CASE i = Img(w)
    BY <2>1 DEF Continues
  <2>2. CASE i # Img(w)
    BY <1>0, <2>2, OtherImages DEF LossInv, AnalysisLossInv
  <2> QED
    BY <2>1, <2>2
<1> QED
  BY <1>1, <1>2

\* A worker that works on, or fails, takes its image further itself.
LEMMA StillAt ==
  ASSUME NEW w \in Workers, Img(w)' = Img(w), ~At(w, "ack")', ~At(w, "marking")'
  PROVE  \A i \in Images : i = Img(w) =>
           /\ w = W => InferenceComes(i)'
           /\ w \in AgentThreads => AgentsCome(i)'
           /\ w = W /\ task'[W].pc \in {"enqueue", "failing"} => AgentsCome(i)'
BY DEF InferenceComes, AgentsCome, At, Records

\* One that was not going to leaves it to whoever was.
LEMMA LeavesToOthers ==
  ASSUME TypeOK, NEW w \in Workers, OthersWork(w), UNCHANGED <<pending, inferenceQ, agentsQ, request>>,
         NEW i \in Images
  PROVE  /\ w # W /\ InferenceComes(i) => InferenceComes(i)'
         /\ ~(Img(w) = i /\ ~At(w, "ack") /\ Records(w)) /\ InferenceComes(i) => InferenceComes(i)'
         /\ ~(Img(w) = i /\ ~At(w, "ack") /\ Records(w)) /\ AgentsCome(i) => AgentsCome(i)'
         /\ w = W /\ task[W].pc \notin {"enqueue", "failing", "marking"} /\ AgentsCome(i)
              => AgentsCome(i)'
<1>1. \A v \in Workers : v # w => task'[v] = task[v]
  BY DEF OthersWork
<1>2. W \in Workers /\ AgentThreads \subseteq Workers /\ W \notin AgentThreads
  BY WorkerSets, PipelineAssumption DEF W
<1>3. w # W /\ InferenceComes(i) => InferenceComes(i)'
  BY <1>1, <1>2 DEF InferenceComes, Img, At, Records
<1>4. ~(Img(w) = i /\ ~At(w, "ack") /\ Records(w)) /\ InferenceComes(i) => InferenceComes(i)'
  BY <1>1, <1>2 DEF InferenceComes, Img, At, Records
<1>5. ~(Img(w) = i /\ ~At(w, "ack") /\ Records(w)) /\ AgentsCome(i) => AgentsCome(i)'
  <2> SUFFICES ASSUME ~(Img(w) = i /\ ~At(w, "ack") /\ Records(w)), AgentsCome(i)
               PROVE  AgentsCome(i)'
    OBVIOUS
  <2>1. \A v \in Workers : Img(v) = i /\ ~At(v, "ack") /\ Records(v) =>
          task'[v] = task[v] /\ Img(v)' = i /\ ~At(v, "ack")' /\ Records(v)'
    BY <1>1 DEF Img, At, Records
  <2>2. task[W].pc \in {"enqueue", "failing", "marking"} => ~At(W, "ack")
    BY DEF At
  <2> QED
    BY <1>2, <2>1, <2>2 DEF AgentsCome
<1>6. w = W /\ task[W].pc \notin {"enqueue", "failing", "marking"} /\ AgentsCome(i)
        => AgentsCome(i)'
  <2> SUFFICES ASSUME w = W, task[W].pc \notin {"enqueue", "failing", "marking"}, AgentsCome(i)
               PROVE  AgentsCome(i)'
    OBVIOUS
  <2>1. \A t \in AgentThreads : task'[t] = task[t]
    BY <1>1, <1>2
  <2> QED
    BY <2>1 DEF AgentsCome, Img, At, Records
<1> QED
  BY <1>3, <1>4, <1>5, <1>6

LEMMA Published ==
  ASSUME inferenceQ \in [Images -> [0..MaxRetries -> Nat]], NEW i \in Images,
         NEW n \in 0..MaxRetries, PublishInference(i, n)
  PROVE  /\ inferenceQ'[i][n] > 0
         /\ \A j \in Images \ {i} : inferenceQ'[j] = inferenceQ[j]
<1>1. inferenceQ[i] \in [0..MaxRetries -> Nat]
  OBVIOUS
<1>2. inferenceQ'[i] = [inferenceQ[i] EXCEPT ![n] = inferenceQ[i][n] + 1]
  BY DEF PublishInference
<1>3. inferenceQ[i][n] \in Nat
  BY <1>1
<1>4. inferenceQ'[i][n] = inferenceQ[i][n] + 1
  BY <1>1, <1>2
<1> QED
  BY <1>3, <1>4 DEF PublishInference

LEMMA EndContinues ==
  ASSUME LossInv, NEW w \in Workers, EndStep(w)
  PROVE  OnlyOn(w) /\ Continues(w)
<1> USE WorkerSets
<1>0. /\ TypeOK /\ OthersWork(w)
      /\ UNCHANGED <<pending, request, inferenceQ, agentsQ>>
      /\ ~At(w, "idle") /\ Img(w) \in Images
  <2>1. ~At(w, "idle")
    BY DEF EndStep, FailLoad, FailWrite, FailSwallow, Ack, At
  <2>2. TypeOK
    BY DEF LossInv, IInv
  <2> QED
    BY <2>1, <2>2, BusyWorker, EndSound
    DEF LossInv, EndStep, FailLoad, FailWrite, FailSwallow, Ack, queues
\* Only FailWrite touches a row.
<1>1. CASE FailLoad(w) \/ FailSwallow(w) \/ Ack(w)
  <2>1. UNCHANGED image
    BY <1>1 DEF FailLoad, FailSwallow, Ack, rows
  <2>2. CASE FailLoad(w)
    <3>1. "blank_error" \notin env => task[w].exc = "worded"
      BY <2>2 DEF LossInv, WordedInv, FailLoad, At
    <3>2. image[Img(w)].status \in {"QUEUED", "PROCESSING", "ANALYZING"} /\ "blank_error" \notin env
            => Load(w, "marking")
      <4> SUFFICES ASSUME image[Img(w)].status \in {"QUEUED", "PROCESSING", "ANALYZING"},
                          "blank_error" \notin env
                   PROVE  ~Missing(Img(w)) /\ CanMarkFailed(image[Img(w)].status, task[w].exc)
        BY <2>2 DEF FailLoad
      <4> QED
        BY <3>1 DEF Missing, CanMarkFailed, CanTransition, ImageStatuses, ALLOWED_TRANSITIONS
    <3>3. Img(w)' = Img(w)
      BY <1>0, <2>2, SettledLeaves, LoadLeaves DEF FailLoad
    <3>4. OnlyOn(w)
      BY <1>0, <2>1, <3>3 DEF OnlyOn
    <3>5. ASSUME image[Img(w)].status \in {"QUEUED", "PROCESSING", "ANALYZING"}, Load(w, "marking")
          PROVE  At(w, "marking")' /\ Records(w)' /\ Img(w)' = Img(w)
      <4>1. At(w, "marking")' /\ task'[w].seen.status # "FAILED"
        BY <1>0, <3>5, LoadLeaves
      <4> QED
        BY <3>3, <4>1 DEF Records
    <3>6. w # W => Past(Img(w))
      BY <1>0 DEF LossInv, IInv, AgentInv, Workers, W
    <3>7. Continues(w)
      <4> SUFFICES ASSUME NEW i \in Images, i = Img(w), "blank_error" \notin env
                   PROVE  /\ image'[i].status \in {"QUEUED", "PROCESSING"} => InferenceComes(i)'
                          /\ image'[i].status = "ANALYZING" => AgentsCome(i)'
        BY DEF Continues, InferenceReliable, AnalysisReliable
      <4>1. image[i].status \in {"QUEUED", "PROCESSING", "ANALYZING"}
              => At(w, "marking")' /\ Records(w)' /\ Img(w)' = i
        BY <3>2, <3>5
      <4>2. w \in AgentThreads \/ w = W
        BY DEF Workers, W
      <4>3. image[i].status \in {"QUEUED", "PROCESSING"} => w = W
        BY <3>6 DEF Past
      <4> QED
        BY <2>1, <4>1, <4>2, <4>3 DEF InferenceComes, AgentsCome, At
    <3> QED
      BY <3>4, <3>7
  <2>3. CASE FailSwallow(w)
    <3>1. Img(w)' = Img(w) /\ "on_failure_error" \in env
      BY <1>0, <2>3, SettledLeaves DEF FailSwallow
    <3> QED
      BY <1>0, <2>1, <3>1 DEF OnlyOn, Continues, InferenceReliable, AnalysisReliable
  <2>4. CASE Ack(w)
    <3>1. Img(w)' = NoImage
      BY <1>0, <2>4 DEF Ack, TypeOK, TaskTypes, Img, Idle
    <3>2. OnlyOn(w)
      BY <1>0, <2>1, <3>1 DEF OnlyOn
    <3>3. \A i \in Images : /\ InferenceComes(i) => InferenceComes(i)'
                            /\ AgentsCome(i) => AgentsCome(i)'
      BY <1>0, <2>4, LeavesToOthers DEF Ack
    <3> QED
      BY <2>1, <3>2, <3>3 DEF Continues, LossInv, InferenceLossInv, AnalysisLossInv
  <2> QED
    BY <1>1, <2>2, <2>3, <2>4
<1>2. CASE FailWrite(w)
  <2>1. Img(w)' = Img(w)
    BY <1>0, <1>2, SettledLeaves DEF FailWrite
  <2>2. CASE Missing(Img(w))
    <3>1. UNCHANGED image
      BY <1>2, <2>2 DEF FailWrite
    <3> QED
      BY <1>0, <2>1, <2>2, <3>1 DEF OnlyOn, Continues, Missing
  <2>3. CASE ~Missing(Img(w))
    <3>1. /\ task[w].seen \in Rows /\ MarkFailed(task[w].seen) \in Rows
          /\ MarkFailed(task[w].seen).status = "FAILED"
      BY <1>0, BusyWorker, MarkFailedType
    <3>2. WriteRow(Img(w), task[w].seen, MarkFailed(task[w].seen))
      BY <1>2, <2>3 DEF FailWrite
    <3>3. /\ \A j \in Images \ {Img(w)} : image'[j] = image[j]
          /\ image'[Img(w)].status = IF task[w].seen.status = "FAILED"
                                     THEN image[Img(w)].status ELSE "FAILED"
      BY <1>0, <3>1, <3>2, WriteRowType DEF TypeOK, RowTypes
    <3>4. OnlyOn(w)
      BY <1>0, <2>1, <3>3 DEF OnlyOn
    <3>5. CASE Records(w)
      <4>1. task[w].seen.status # "FAILED"
        BY <1>2, <3>5 DEF FailWrite, Records
      <4> QED
        BY <3>3, <3>4, <4>1 DEF Continues
    <3>6. CASE ~Records(w)
      <4>1. image'[Img(w)].status = image[Img(w)].status
        BY <3>3, <3>6 DEF Records
      <4>2. \A i \in Images : /\ InferenceComes(i) => InferenceComes(i)'
                              /\ AgentsCome(i) => AgentsCome(i)'
        BY <1>0, <3>6, LeavesToOthers
      <4> QED
        BY <3>4, <4>1, <4>2 DEF Continues, LossInv, InferenceLossInv, AnalysisLossInv
    <3> QED
      BY <3>5, <3>6
  <2> QED
    BY <2>2, <2>3
<1> QED
  BY <1>1, <1>2 DEF EndStep

LEMMA InferenceContinues ==
  ASSUME LossInv,
         InfLoad \/ InfStart \/ InfTransient \/ InfError \/ InfEnqueueAgents
           \/ \E o \in Outcomes : InfCommit(o)
  PROVE  OnlyOn(W) /\ Continues(W)
<1> USE WorkerSets
<1>0. /\ TypeOK /\ OthersWork(W) /\ ~At(W, "idle")
      /\ UNCHANGED <<pending, request>>
  BY InferenceSound DEF LossInv, IInv, InferenceStep, InfLoad, InfStart, InfTransient, InfError,
     InfEnqueueAgents, InfCommit, At
<1>a. /\ Img(W) \in Images /\ task[W].seen \in Rows /\ task[W].tries \in 0..MaxRetries
      /\ inferenceQ \in [Images -> [0..MaxRetries -> Nat]] /\ agentsQ \in [Images -> Nat]
  BY <1>0, BusyWorker DEF TypeOK, QueueTypes
<1>b. /\ InferenceLossInv /\ AnalysisLossInv
      /\ At(W, "starting") => image[Img(W)].status \in {"QUEUED", "PURGED"}
      /\ At(W, "detecting") => /\ image[Img(W)].status \in {"PROCESSING", "PURGED"}
                               /\ task[W].seen.status = "PROCESSING"
  BY DEF LossInv, IInv, InferenceInv
<1>1. CASE InfLoad
  <2>1. UNCHANGED <<image, inferenceQ, agentsQ>> /\ At(W, "received")
    BY <1>1 DEF InfLoad, rows, queues
  <2>2. Img(W)' = Img(W)
    BY <1>0, <1>1, SettledLeaves, LoadLeaves DEF InfLoad
  <2>3. OnlyOn(W)
    BY <1>0, <2>1, <2>2 DEF OnlyOn
  <2>4. image[Img(W)].status \in {"QUEUED", "PROCESSING"}
          => ~At(W, "ack")' /\ ~At(W, "marking")'
    BY <1>0, <1>1, LoadLeaves DEF InfLoad, Missing, At
  <2>5. \A i \in Images : AgentsCome(i) => AgentsCome(i)'
    BY <1>0, <2>1, LeavesToOthers DEF At
  <2> QED
    BY <1>b, <2>1, <2>2, <2>3, <2>4, <2>5, StillAt DEF Continues, AnalysisLossInv
<1>2. CASE InfStart
  <2> DEFINE new == Transition(task[W].seen, "PROCESSING")
  <2>1. UNCHANGED <<inferenceQ, agentsQ>>
    BY <1>2 DEF InfStart, queues
  <2>2. CASE Missing(Img(W))
    <3>1. UNCHANGED image /\ Img(W)' = Img(W)
      BY <1>0, <1>2, <2>2, RaiseLeaves DEF InfStart
    <3> QED
      BY <1>0, <2>1, <2>2, <3>1 DEF OnlyOn, Continues, Missing
  <2>3. CASE ~Missing(Img(W))
    <3>1. new \in Rows /\ new.status = "PROCESSING"
      BY <1>a, RowsAreSessionRows, TransitionType
    <3>2. /\ WriteRow(Img(W), task[W].seen, new)
          /\ task' = [task EXCEPT ![W].pc = "detecting", ![W].seen = new]
      BY <1>2, <2>3 DEF InfStart
    <3> HIDE DEF new
    <3>3. Img(W)' = Img(W) /\ At(W, "detecting")'
      BY <1>0, <3>2 DEF TypeOK, TaskTypes, Tasks, Img, At
    <3>4. /\ \A j \in Images \ {Img(W)} : image'[j] = image[j]
          /\ image'[Img(W)].status \in {"PROCESSING", image[Img(W)].status}
      BY <1>0, <1>a, <3>1, <3>2, WriteRowType DEF TypeOK, RowTypes
    <3>5. OnlyOn(W)
      BY <1>0, <2>1, <3>3, <3>4 DEF OnlyOn
    <3>6. image'[Img(W)].status # "ANALYZING"
      BY <1>2, <1>b, <3>4 DEF InfStart
    <3> QED
      BY <3>3, <3>5, <3>6, StillAt DEF Continues, At
  <2> QED
    BY <2>2, <2>3
<1>3. CASE InfTransient
  <2>1. UNCHANGED <<image, agentsQ>> /\ At(W, "detecting")
    BY <1>3 DEF InfTransient, rows
  <2>2. Img(W)' = Img(W)
    BY <1>0, <1>3, SettledLeaves, RaiseLeaves DEF InfTransient
  <2>3. \A i \in Images \ {Img(W)} : inferenceQ'[i] = inferenceQ[i]
    BY <1>3, <1>a DEF InfTransient, PublishInference
  <2>4. OnlyOn(W)
    BY <1>0, <2>1, <2>2, <2>3 DEF OnlyOn
  <2>5. InferenceReliable => InferenceComes(Img(W))'
    <3>1. CASE task[W].tries < MaxRetries /\ PublishInference(Img(W), task[W].tries + 1)
      <4>1. task[W].tries + 1 \in 0..MaxRetries
        BY <1>a, <3>1, PipelineAssumption
      <4>2. inferenceQ'[Img(W)][task[W].tries + 1] > 0
        BY <1>a, <3>1, <4>1, Published
      <4> QED
        BY <2>2, <4>1, <4>2 DEF InferenceComes
    <3>2. CASE Raise(W, "worded")
      BY <1>0, <1>a, <2>2, <3>2, RaiseLeaves, StillAt DEF At
    <3>3. CASE "broker" \in env
      BY <3>3 DEF InferenceReliable
    <3> QED
      BY <1>3, <3>1, <3>2, <3>3 DEF InfTransient
  <2>6. image'[Img(W)].status # "ANALYZING"
    BY <1>b, <2>1
  <2> QED
    BY <2>2, <2>4, <2>5, <2>6 DEF Continues, InferenceComes
<1>4. CASE InfError
  <2>1. /\ UNCHANGED <<image, inferenceQ, agentsQ>>
        /\ task[W].pc \in {"received", "starting", "detecting"}
    BY <1>4 DEF InfError, rows, queues
  <2>2. Img(W)' = Img(W) /\ At(W, "failing")'
    BY <1>0, <1>4, RaiseLeaves DEF InfError
  <2>3. OnlyOn(W)
    BY <1>0, <2>1, <2>2 DEF OnlyOn
  <2> QED
    BY <2>2, <2>3, StillAt DEF Continues, At
<1>5. ASSUME NEW o \in Outcomes, InfCommit(o) PROVE OnlyOn(W) /\ Continues(W)
  <2>1. UNCHANGED <<inferenceQ, agentsQ>> /\ At(W, "detecting")
    BY <1>5 DEF InfCommit, queues
  <2>2. CASE CommitRefused(o)
    <3>1. UNCHANGED image /\ Raise(W, "worded")
      BY <1>5, <2>2 DEF InfCommit, rows
    <3>2. Img(W)' = Img(W) /\ At(W, "failing")'
      BY <1>0, <3>1, RaiseLeaves
    <3>3. OnlyOn(W)
      BY <1>0, <2>1, <3>1, <3>2 DEF OnlyOn
    <3> QED
      BY <3>2, <3>3, StillAt DEF Continues, At
  <2>3. CASE ~CommitRefused(o)
    <3>1. /\ WriteRow(Img(W), task[W].seen, SettledRow(task[W].seen, o))
          /\ IF o.to = "ANALYZING" THEN Goto(W, "enqueue") ELSE Settled(W)
      BY <1>5, <2>3 DEF InfCommit
    <3>2. /\ SettledRow(task[W].seen, o) \in Rows
          /\ SettledRow(task[W].seen, o).status = o.to
          /\ o.to \in {"COMPLETED", "ANALYZING"}
      BY <1>a, SettledRowType DEF Outcomes
    <3>3. /\ \A j \in Images \ {Img(W)} : image'[j] = image[j]
          /\ image'[Img(W)].status = o.to
      BY <1>0, <1>a, <1>b, <2>1, <3>1, <3>2, WriteRowType DEF TypeOK, RowTypes
    <3>4. Img(W)' = Img(W) /\ (o.to = "ANALYZING" => At(W, "enqueue")')
      BY <1>0, <3>1, GotoLeaves, SettledLeaves
    <3>5. OnlyOn(W)
      BY <1>0, <2>1, <3>3, <3>4 DEF OnlyOn
    <3> QED
      BY <3>2, <3>3, <3>4, <3>5, StillAt DEF Continues, At
  <2> QED
    BY <2>2, <2>3
<1>6. CASE InfEnqueueAgents
  <2>1. UNCHANGED <<image, inferenceQ>> /\ At(W, "enqueue")
    BY <1>6 DEF InfEnqueueAgents, rows
  <2>2. Img(W)' = Img(W)
    BY <1>0, <1>6, SettledLeaves, RaiseLeaves DEF InfEnqueueAgents
  <2>3. \A i \in Images \ {Img(W)} : agentsQ'[i] = agentsQ[i]
    BY <1>6, <1>a DEF InfEnqueueAgents, PublishAgents
  <2>4. OnlyOn(W)
    BY <1>0, <2>1, <2>2, <2>3 DEF OnlyOn
  <2>5. Past(Img(W))
    BY <2>1 DEF LossInv, IInv, InferenceInv
  <2>6. AgentsCome(Img(W))'
    <3>1. CASE PublishAgents(Img(W))
      <4>1. agentsQ'[Img(W)] > 0
        BY <1>a, <3>1 DEF PublishAgents
      <4> QED
        BY <2>2, <4>1 DEF AgentsCome
    <3>2. CASE Raise(W, "worded")
      BY <1>0, <1>a, <2>2, <3>2, RaiseLeaves, StillAt DEF At
    <3> QED
      BY <1>6, <3>1, <3>2 DEF InfEnqueueAgents
  <2> QED
    BY <2>1, <2>2, <2>4, <2>5, <2>6 DEF Continues, Past, AgentsCome
<1> QED
  BY <1>1, <1>2, <1>3, <1>4, <1>5, <1>6

LEMMA AgentContinues ==
  ASSUME LossInv, NEW t \in AgentThreads,
         AgLoad(t) \/ AgNoAnalysis(t) \/ AgStartChain(t) \/ AgFinish(t) \/ AgError(t)
  PROVE  OnlyOn(t) /\ Continues(t)
<1> USE WorkerSets
<1>0. /\ TypeOK /\ OthersWork(t) /\ ~At(t, "idle")
      /\ UNCHANGED <<pending, request, inferenceQ, agentsQ>>
  BY AgentSound DEF LossInv, IInv, AgentStep, AgLoad, AgNoAnalysis, AgStartChain, AgFinish,
     AgError, At, queues
<1>a. /\ Img(t) \in Images /\ task[t].seen \in Rows /\ Past(Img(t))
      /\ task[t].pc \in {"loaded", "chain"} => task[t].seen.status = "ANALYZING"
  BY <1>0, BusyWorker DEF LossInv, IInv, AgentInv, LoadedInv
<1>1. ASSUME UNCHANGED image, Img(t)' = Img(t),
             image[Img(t)].status = "ANALYZING" => ~At(t, "ack")' /\ ~At(t, "marking")'
      PROVE  OnlyOn(t) /\ Continues(t)
  <2>1. OnlyOn(t)
    BY <1>0, <1>1 DEF OnlyOn
  <2> QED
    BY <1>1, <1>a, <2>1, StillAt DEF Continues, Past
<1>2. CASE AgLoad(t)
  <2>1. UNCHANGED image
    BY <1>2 DEF AgLoad, rows
  <2> QED
    BY <1>0, <1>1, <1>2, <2>1, SettledLeaves, LoadLeaves DEF AgLoad, At
<1>3. CASE AgStartChain(t)
  <2>1. UNCHANGED image
    BY <1>3 DEF AgStartChain, rows
  <2> QED
    BY <1>0, <1>1, <1>3, <2>1, GotoLeaves DEF AgStartChain, At
<1>4. CASE AgError(t)
  <2>1. UNCHANGED image
    BY <1>4 DEF AgError, rows
  <2> QED
    BY <1>0, <1>1, <1>4, <2>1, RaiseLeaves DEF AgError, At
<1>5. CASE AgNoAnalysis(t) \/ AgFinish(t)
  <2>1. PICK source : CommitAgents(t, source)
    BY <1>5 DEF AgNoAnalysis, AgFinish
  <2>2. CASE Missing(Img(t))
    <3>1. UNCHANGED image /\ Raise(t, "worded")
      BY <2>1, <2>2 DEF CommitAgents, rows
    <3> QED
      BY <1>0, <1>1, <3>1, RaiseLeaves DEF At
  <2>3. CASE ~Missing(Img(t))
    <3>1. /\ Transition(task[t].seen, "COMPLETED") \in Rows
          /\ Transition(task[t].seen, "COMPLETED").status = "COMPLETED"
          /\ WriteRow(Img(t), task[t].seen, Transition(task[t].seen, "COMPLETED"))
          /\ Settled(t)
      BY <1>a, <2>1, <2>3, RowsAreSessionRows, TransitionType DEF CommitAgents
    <3>2. task[t].seen.status = "ANALYZING"
      BY <1>a, <1>5 DEF AgNoAnalysis, AgFinish, At
    <3>3. /\ \A j \in Images \ {Img(t)} : image'[j] = image[j]
          /\ image'[Img(t)].status = "COMPLETED"
      BY <1>0, <1>a, <3>1, <3>2, WriteRowType DEF TypeOK, RowTypes
    <3>4. Img(t)' = Img(t)
      BY <1>0, <3>1, SettledLeaves
    <3> QED
      BY <1>0, <3>3, <3>4 DEF OnlyOn, Continues
  <2> QED
    BY <2>2, <2>3
<1> QED
  BY <1>2, <1>3, <1>4, <1>5

-----------------------------------------------------------------------------
(* The other steps, and the invariants. *)

LEMMA ReceiveLoss ==
  ASSUME LossInv, UNCHANGED env,
         \/ \E i \in Images, n \in 0..MaxRetries : InfReceive(i, n)
         \/ \E t \in AgentThreads : \E i \in Images : AgReceive(t, i)
  PROVE  InferenceLossInv' /\ AnalysisLossInv'
<1> USE WorkerSets
<1>0. /\ TypeOK /\ UNCHANGED <<image, pending, request, env>>
      /\ inferenceQ \in [Images -> [0..MaxRetries -> Nat]] /\ agentsQ \in [Images -> Nat]
      /\ W \notin AgentThreads
  BY PipelineAssumption
  DEF LossInv, IInv, InfReceive, AgReceive, rows, TypeOK, QueueTypes, W
<1>1. SUFFICES \A i \in Images : /\ InferenceComes(i) => InferenceComes(i)'
                                 /\ AgentsCome(i) => AgentsCome(i)'
  BY <1>0 DEF LossInv, InferenceLossInv, AnalysisLossInv, InferenceReliable, AnalysisReliable
<1>2. ASSUME NEW i \in Images, NEW n \in 0..MaxRetries, InfReceive(i, n), NEW j \in Images
      PROVE  /\ InferenceComes(j) => InferenceComes(j)'
             /\ AgentsCome(j) => AgentsCome(j)'
  <2>1. /\ At(W, "received")' /\ Img(W)' = i /\ OthersWork(W) /\ UNCHANGED agentsQ
        /\ At(W, "idle")
    BY <1>0, <1>2, ReceiveLeaves DEF InfReceive
  <2>2. Img(W) # j
    BY <1>0, <2>1, PipelineAssumption DEF TypeOK, TaskTypes
  <2>3. j # i => inferenceQ'[j] = inferenceQ[j]
    BY <1>0, <1>2 DEF InfReceive
  <2>4. InferenceComes(j) => InferenceComes(j)'
    BY <1>0, <2>1, <2>2, <2>3 DEF InferenceComes, At, Records
  <2>5. AgentsCome(j) => AgentsCome(j)'
    BY <1>0, <2>1, <2>2 DEF AgentsCome, At, Records, OthersWork, Img
  <2> QED
    BY <2>4, <2>5
<1>3. ASSUME NEW t \in AgentThreads, NEW i \in Images, AgReceive(t, i), NEW j \in Images
      PROVE  /\ InferenceComes(j) => InferenceComes(j)'
             /\ AgentsCome(j) => AgentsCome(j)'
  <2>1. /\ At(t, "received")' /\ Img(t)' = i /\ OthersWork(t) /\ UNCHANGED inferenceQ
        /\ At(t, "idle")
    <3>1. task'[t] = [Idle EXCEPT !.pc = "received", !.img = i]
      BY <1>0, <1>3 DEF AgReceive, TypeOK, TaskTypes
    <3> QED
      BY <1>0, <1>3, <3>1 DEF AgReceive, At, Img, Idle, OthersWork, TypeOK, TaskTypes
  <2>2. Img(t) # j
    BY <1>0, <2>1, PipelineAssumption DEF TypeOK, TaskTypes
  <2>3. j # i => agentsQ'[j] = agentsQ[j]
    BY <1>0, <1>3 DEF AgReceive
  <2>4. InferenceComes(j) => InferenceComes(j)'
    BY <1>0, <2>1 DEF InferenceComes, At, Records, OthersWork, Img
  <2>5. AgentsCome(j) => AgentsCome(j)'
    <3>1. CASE j = i
      BY <2>1, <3>1 DEF AgentsCome, At, Records
    <3>2. CASE j # i
      <4>1. \A v \in Workers : Img(v) = j => task'[v] = task[v]
        BY <2>1, <2>2 DEF OthersWork
      <4> QED
        BY <1>0, <2>3, <3>2, <4>1 DEF AgentsCome, At, Records, Img
    <3> QED
      BY <3>1, <3>2
  <2> QED
    BY <2>4, <2>5
<1> QED
  BY <1>2, <1>3

LEMMA CrashLoss ==
  ASSUME LossInv, InferenceCrash \/ AgentsCrash
  PROVE  InferenceLossInv' /\ AnalysisLossInv'
<1> USE WorkerSets
<1>0. /\ TypeOK /\ UNCHANGED <<image, pending, request, env>>
      /\ inferenceQ \in [Images -> [0..MaxRetries -> Nat]] /\ agentsQ \in [Images -> Nat]
      /\ W \notin AgentThreads
  BY PipelineAssumption
  DEF LossInv, IInv, InferenceCrash, AgentsCrash, rows, TypeOK, QueueTypes, W
<1>1. SUFFICES \A i \in Images :
                 /\ InferenceReliable /\ InferenceComes(i) => InferenceComes(i)'
                 /\ AnalysisReliable /\ AgentsCome(i) => AgentsCome(i)'
  BY <1>0 DEF LossInv, InferenceLossInv, AnalysisLossInv, InferenceReliable, AnalysisReliable
<1>2. ASSUME InferenceCrash, NEW j \in Images
      PROVE  /\ InferenceComes(j) => InferenceComes(j)'
             /\ AnalysisReliable => FALSE
  <2>1. "inference_crash" \in env /\ PublishInference(Img(W), task[W].tries)
    BY <1>2 DEF InferenceCrash
  <2>2. Img(W) \in Images /\ task[W].tries \in 0..MaxRetries
    BY <1>0, <1>2, BusyWorker DEF InferenceCrash
  <2>3. /\ inferenceQ'[Img(W)][task[W].tries] > 0
        /\ \A i \in Images \ {Img(W)} : inferenceQ'[i] = inferenceQ[i]
    BY <1>0, <2>1, <2>2, Published
  <2>4. InferenceComes(j) => InferenceComes(j)'
    <3>1. CASE j = Img(W)
      BY <2>2, <2>3, <3>1 DEF InferenceComes
    <3>2. CASE j # Img(W)
      BY <1>0, <2>3, <3>2 DEF InferenceComes
    <3> QED
      BY <3>1, <3>2
  <2> QED
    BY <2>1, <2>4 DEF AnalysisReliable
<1>3. ASSUME AgentsCrash, NEW j \in Images
      PROVE  /\ InferenceComes(j) => InferenceComes(j)'
             /\ AgentsCome(j) => AgentsCome(j)'
  <2>1. /\ task'[W] = task[W] /\ UNCHANGED inferenceQ
        /\ agentsQ'[j] = agentsQ[j] + Cardinality({t \in AgentThreads : Img(t) = j})
    BY <1>0, <1>3 DEF AgentsCrash
  <2>2. InferenceComes(j) => InferenceComes(j)'
    BY <1>0, <2>1 DEF InferenceComes, Img, At, Records
  <2> DEFINE held == {t \in AgentThreads : Img(t) = j}
  <2>3. IsFiniteSet(held) /\ Cardinality(held) \in Nat
    BY PipelineAssumption, FS_Subset, FS_CardinalityType
  <2>4. agentsQ'[j] >= agentsQ[j]
    BY <1>0, <2>1, <2>3
  <2>5. ASSUME NEW t \in AgentThreads, Img(t) = j PROVE agentsQ'[j] > 0
    <3>1. held # {}
      BY <2>5
    <3>2. Cardinality(held) # 0
      BY <2>3, <3>1, FS_EmptySet
    <3> QED
      BY <1>0, <2>1, <2>3, <3>2
  <2>6. AgentsCome(j) => AgentsCome(j)'
    <3>1. agentsQ[j] > 0 => agentsQ'[j] > 0
      BY <1>0, <2>4, <2>1, <2>3
    <3> QED
      BY <1>0, <2>1, <2>5, <3>1 DEF AgentsCome, Img, At, Records
  <2> QED
    BY <2>2, <2>6
<1> QED
  BY <1>2, <1>3

LEMMA IngestionLoss ==
  ASSUME LossInv, Ingest \/ IngestCrash \/ \E i \in Images : EnqueueIngested(i) \/ Purge(i)
  PROVE  InferenceLossInv' /\ AnalysisLossInv'
<1>0. /\ UNCHANGED <<task, request, agentsQ, env>>
      /\ inferenceQ \in [Images -> [0..MaxRetries -> Nat]]
      /\ InferenceLossInv /\ AnalysisLossInv
  BY DEF Ingest, IngestCrash, EnqueueIngested, Purge, queues, LossInv, IInv, TypeOK, QueueTypes
<1>1. SUFFICES ASSUME NEW j \in Images
               PROVE  /\ InferenceReliable /\ image'[j].status \in {"QUEUED", "PROCESSING"}
                           => InferenceComes(j)'
                      /\ image'[j].status = "ANALYZING" => image[j].status = "ANALYZING"
  <2>1. \A i \in Images : AgentsCome(i) => AgentsCome(i)'
    BY <1>0 DEF AgentsCome, Img, At, Records
  <2> QED
    BY <1>0, <1>1, <2>1
    DEF InferenceLossInv, AnalysisLossInv, InferenceReliable, AnalysisReliable
<1>2. UNCHANGED <<inferenceQ>> /\ pending \subseteq pending'
        => (InferenceComes(j) => InferenceComes(j)')
  BY <1>0 DEF InferenceComes, Img, At, Records
<1>3. CASE Ingest
  <2>1. /\ UNCHANGED inferenceQ /\ pending \subseteq pending'
        /\ \/ image'[j] = image[j]
           \/ image'[j].status = "QUEUED" /\ j \in pending'
           \/ image'[j].status = "FAILED"
    BY <1>3 DEF Ingest, queues, Row
  <2> QED
    BY <1>0, <1>2, <2>1 DEF InferenceLossInv, InferenceComes
<1>4. CASE IngestCrash
  BY <1>4 DEF IngestCrash, InferenceReliable, rows
<1>5. ASSUME NEW i \in Images, EnqueueIngested(i)
      PROVE  /\ UNCHANGED image
             /\ InferenceReliable /\ InferenceComes(j) => InferenceComes(j)'
  <2>1. pending' = pending \ {i} /\ UNCHANGED image
    BY <1>5 DEF EnqueueIngested, rows
  <2>2. CASE "broker" \in env
    BY <2>1, <2>2 DEF InferenceReliable
  <2>3. CASE PublishInference(i, 0)
    <3>1. 0 \in 0..MaxRetries
      BY PipelineAssumption
    <3>2. inferenceQ'[i][0] > 0 /\ (j # i => inferenceQ'[j] = inferenceQ[j])
      BY <1>0, <2>3, <3>1, Published
    <3>3. InferenceComes(j) => InferenceComes(j)'
      <4>1. CASE j = i
        BY <3>1, <3>2, <4>1 DEF InferenceComes
      <4>2. CASE j # i
        BY <1>0, <2>1, <3>2, <4>2 DEF InferenceComes, Img, At, Records
      <4> QED
        BY <4>1, <4>2
    <3> QED
      BY <2>1, <3>3
  <2> QED
    BY <1>5, <2>2, <2>3 DEF EnqueueIngested
<1>6. ASSUME NEW i \in Images, Purge(i)
      PROVE  /\ image'[j].status \in {"PURGED", image[j].status}
             /\ UNCHANGED <<inferenceQ, pending>>
  BY <1>6 DEF Purge, Row, queues, LossInv, IInv, TypeOK, RowTypes
<1> QED
  BY <1>0, <1>2, <1>3, <1>4, <1>5, <1>6 DEF InferenceLossInv

LEMMA RequestLoss ==
  ASSUME LossInv, NEW r \in Requests, RequestStep(r)
  PROVE  InferenceLossInv' /\ AnalysisLossInv'
<1> USE WorkerSets
<1>0. /\ TypeOK /\ UNCHANGED <<task, inferenceQ, pending, env>>
      /\ agentsQ \in [Images -> Nat]
      /\ request \in [Requests -> RequestStates]
      /\ InferenceLossInv /\ AnalysisLossInv
  BY DEF RequestStep, ReqLoad, ReqCommit, ReqPublish, ReqCrash, queues,
     LossInv, IInv, TypeOK, QueueTypes, RequestTypes
<1>1. SUFFICES ASSUME NEW j \in Images
               PROVE  /\ image'[j].status \in {"QUEUED", "PROCESSING"} => image'[j] = image[j]
                      /\ AnalysisReliable /\ image'[j].status = "ANALYZING"
                           => AgentsCome(j)' \/ (image'[j] = image[j] /\ (AgentsCome(j) => AgentsCome(j)'))
  <2>1. \A i \in Images : InferenceComes(i) => InferenceComes(i)'
    BY <1>0 DEF InferenceComes, Img, At, Records
  <2> QED
    BY <1>0, <1>1, <2>1
    DEF InferenceLossInv, AnalysisLossInv, InferenceReliable, AnalysisReliable
<1>2. \A q \in Requests \ {r} : request'[q] = request[q]
  BY <1>0 DEF RequestStep, ReqLoad, ReqCommit, ReqPublish, ReqCrash
\* Unless it was this request that waited to publish.
<1>3. ASSUME UNCHANGED agentsQ, ~(request[r].pc = "publishing" /\ request[r].img = j)
      PROVE  AgentsCome(j) => AgentsCome(j)'
  BY <1>0, <1>2, <1>3 DEF AgentsCome, Img, At, Records
<1>4. ASSUME NEW i \in Images, ReqLoad(r, i) PROVE UNCHANGED image /\ (AgentsCome(j) => AgentsCome(j)')
  BY <1>3, <1>4 DEF ReqLoad, rows, queues
<1>5. CASE ReqCommit(r)
  <2>1. /\ request[r].img \in Images /\ request[r].seen \in Rows /\ Past(request[r].img)
        /\ request[r].pc = "opening" /\ UNCHANGED agentsQ
    BY <1>0, <1>5 DEF ReqCommit, TypeOK, RequestTypes, RequestStates, LossInv, IInv, RequestInv,
       queues
  <2>2. AgentsCome(j) => AgentsCome(j)'
    BY <1>3, <2>1
  <2>3. CASE Missing(request[r].img)
    BY <1>5, <2>2, <2>3 DEF ReqCommit
  <2>4. CASE ~Missing(request[r].img)
    <3> DEFINE new == Transition(request[r].seen, "ANALYZING")
    <3>1. new \in Rows /\ new.status = "ANALYZING"
      BY <2>1, RowsAreSessionRows, TransitionType
    <3>2. /\ WriteRow(request[r].img, request[r].seen, new)
          /\ request' = [request EXCEPT ![r].pc = "publishing", ![r].seen = Row("ABSENT")]
      BY <1>5, <2>4 DEF ReqCommit
    <3> HIDE DEF new
    <3>3. request'[r].pc = "publishing" /\ request'[r].img = request[r].img
      BY <1>0, <3>2 DEF RequestStates
    <3>4. /\ \A i \in Images \ {request[r].img} : image'[i] = image[i]
          /\ image'[request[r].img].status \in {"ANALYZING", image[request[r].img].status}
      BY <1>0, <2>1, <3>1, <3>2, WriteRowType DEF TypeOK, RowTypes
    <3>5. CASE j = request[r].img
      BY <2>1, <3>3, <3>4, <3>5 DEF AgentsCome, Past
    <3>6. CASE j # request[r].img
      BY <2>2, <3>4, <3>6
    <3> QED
      BY <3>5, <3>6
  <2> QED
    BY <2>3, <2>4
<1>6. CASE ReqPublish(r)
  <2>1. UNCHANGED image /\ request[r].pc = "publishing" /\ request[r].img \in Images
    BY <1>0, <1>6 DEF ReqPublish, rows, TypeOK, RequestTypes
  <2>2. CASE "broker" \in env
    BY <2>1, <2>2 DEF AnalysisReliable
  <2>3. CASE PublishAgents(request[r].img)
    <3>1. /\ agentsQ'[request[r].img] > 0
          /\ j # request[r].img => agentsQ'[j] = agentsQ[j]
      BY <1>0, <2>1, <2>3 DEF PublishAgents
    <3>2. AgentsCome(j) => AgentsCome(j)'
      <4>1. CASE j = request[r].img
        BY <3>1, <4>1 DEF AgentsCome
      <4>2. CASE j # request[r].img
        BY <1>0, <1>2, <3>1, <4>2 DEF AgentsCome, Img, At, Records
      <4> QED
        BY <4>1, <4>2
    <3> QED
      BY <2>1, <3>2
  <2> QED
    BY <1>6, <2>2, <2>3 DEF ReqPublish
<1>7. CASE ReqCrash(r)
  BY <1>7 DEF ReqCrash, AnalysisReliable, rows
<1> QED
  BY <1>4, <1>5, <1>6, <1>7 DEF RequestStep

LEMMA InitLoss == Init => LossInv
<1> SUFFICES ASSUME Init PROVE LossInv
  OBVIOUS
<1>1. /\ \A w \in Workers : task[w].pc = "idle"
      /\ \A i \in Images : image[i].status = "ABSENT"
  BY DEF Init, Idle, Row
<1> QED
  BY <1>1, InitInv, WorkerSets
  DEF LossInv, LoadedInv, WordedInv, InferenceLossInv, AnalysisLossInv

LEMMA NextLoss == LossInv /\ [Next]_vars => LossInv'
<1> SUFFICES ASSUME LossInv, [Next]_vars PROVE LossInv'
  OBVIOUS
<1>0. /\ IInv' /\ WordedInv' /\ LoadedInv' /\ UNCHANGED env
  BY NextInv, TaskInv, SameEnv DEF LossInv, IInv
<1>1. InferenceLossInv' /\ AnalysisLossInv'
  <2>1. CASE UNCHANGED vars
    BY <2>1 DEF vars, LossInv, InferenceLossInv, AnalysisLossInv, InferenceReliable,
       AnalysisReliable, InferenceComes, AgentsCome, Img, At, Records
  <2>2. CASE InferenceStep
    <3>1. CASE EndStep(W)
      BY <1>0, <3>1, EndContinues, LossFrame, WorkerSets
    <3>2. CASE \E i \in Images, n \in 0..MaxRetries : InfReceive(i, n)
      BY <1>0, <3>2, ReceiveLoss
    <3> QED
      BY <1>0, <2>2, <3>1, <3>2, InferenceContinues, LossFrame, WorkerSets DEF InferenceStep
  <2>3. ASSUME NEW t \in AgentThreads, AgentStep(t) PROVE InferenceLossInv' /\ AnalysisLossInv'
    <3>1. CASE EndStep(t)
      BY <1>0, <3>1, EndContinues, LossFrame, WorkerSets
    <3>2. CASE \E i \in Images : AgReceive(t, i)
      BY <1>0, <3>2, ReceiveLoss
    <3> QED
      BY <1>0, <2>3, <3>1, <3>2, AgentContinues, LossFrame, WorkerSets DEF AgentStep
  <2> QED
    BY <2>1, <2>2, <2>3, IngestionLoss, RequestLoss, CrashLoss DEF Next
<1> QED
  BY <1>0, <1>1 DEF LossInv

LEMMA LossPromised == LossInv => InferenceNeverLost /\ AnalysisNeverLost
<1> SUFFICES ASSUME LossInv PROVE InferenceNeverLost /\ AnalysisNeverLost
  OBVIOUS
<1>1. \A i \in Images : InferenceComes(i) => InferenceOutstanding(i)
  BY DEF InferenceComes, InferenceOutstanding
<1>2. \A i \in Images : AgentsCome(i) => AgentsOutstanding(i)
  BY DEF AgentsCome, AgentsOutstanding
<1> QED
  BY <1>1, <1>2 DEF LossInv, InferenceLossInv, AnalysisLossInv, InferenceNeverLost,
     AnalysisNeverLost, FailureIsRecorded, AnalysisOutstanding, InferenceReliable,
     AnalysisReliable

\* An image that is QUEUED or PROCESSING still has a run_inference to come (base.py:20-26).
THEOREM InferenceIsNeverLost == Spec => []InferenceNeverLost
BY InitLoss, NextLoss, LossPromised, PTL DEF Spec

\* An image that is ANALYZING still has a run_agent_analysis to come (pipeline.py:36-39).
THEOREM AnalysisIsNeverLost == Spec => []AnalysisNeverLost
BY InitLoss, NextLoss, LossPromised, PTL DEF Spec

-----------------------------------------------------------------------------
(***************************************************************************)
(* One task per image.  Whoever holds a row it may still write has the row *)
(* as it is, because nobody else acts on that image: a flush then writes   *)
(* what `transition` returned, column by column, and every commit is a     *)
(* step of the life cycle.  A purged image has nothing left to protect.    *)
(***************************************************************************)

\* The row's reason and timestamp agree with its status (the body of RowConsistent).
Told(row) ==
  /\ row.failure_reason = "set" <=> row.status = "FAILED"
  /\ row.status = "COMPLETED" => row.processed_at = "set"
  /\ row.processed_at = "set" => row.status \in TERMINAL_STATUSES

Live(i) == image[i].status # "PURGED"

\* The thread has a run_agent_analysis for the image that is not over: until its worker can
\* no longer die with the message unacknowledged.
ThreadOn(t, i) == Img(t) = i /\ (At(t, "ack") => "agents_crash" \in env)
AgentJob(i) == agentsQ[i] > 0 \/ \E t \in AgentThreads : ThreadOn(t, i)
TailOn(i) == Img(W) = i /\ task[W].pc \in {"enqueue", "failing", "marking"}
RequestOn(r, i) == request[r].pc \in {"opening", "publishing"} /\ request[r].img = i

Alone(i) ==
  /\ agentsQ[i] <= 1
  /\ \A t \in AgentThreads : ThreadOn(t, i) =>
       /\ agentsQ[i] = 0
       /\ \A u \in AgentThreads : ThreadOn(u, i) => t = u
  /\ \A r \in Requests : RequestOn(r, i) =>
       "agent_request" \in env /\ ~TailOn(i) /\ ~AgentJob(i)
  /\ AgentJob(i) =>
       /\ ~TailOn(i)
       /\ "agents_crash" \notin env => image[i].status = "ANALYZING"

FreshW(i) ==
  Img(W) = i =>
    /\ At(W, "starting") => image[i].status = "QUEUED"
    /\ At(W, "detecting") => image[i].status = "PROCESSING"
    /\ At(W, "enqueue") => image[i].status = "ANALYZING"
    /\ task[W].pc \in {"failing", "marking"}
         => image[i].status \in {"QUEUED", "PROCESSING", "ANALYZING"}
    /\ task[W].pc \in {"starting", "detecting", "marking"} => task[W].seen = image[i]
    /\ task[W].pc \notin {"loaded", "chain"}

FreshThread(t, i) ==
  Img(t) = i =>
    /\ task[t].pc \in {"loaded", "chain"} => image[i].status = "ANALYZING"
    /\ At(t, "marking") => image[i].status \in {"ANALYZING", "FAILED"}
    /\ task[t].pc \in {"loaded", "chain", "marking"} => task[t].seen = image[i]

FreshRequest(r, i) ==
  request[r].img = i =>
    /\ request[r].pc = "opening" => image[i].status = "COMPLETED" /\ request[r].seen = image[i]
    /\ request[r].pc = "publishing" => image[i].status = "ANALYZING"

Fresh(i) ==
  /\ FreshW(i)
  /\ \A t \in AgentThreads : FreshThread(t, i)
  /\ \A r \in Requests : FreshRequest(r, i)

\* Unless the worker dies, the image has one run_inference at a time.
InferenceJob(i) == i \in pending \/ \E n \in 0..MaxRetries : inferenceQ[i][n] > 0

Single(i) ==
  "inference_crash" \notin env =>
    /\ i \in pending => \A n \in 0..MaxRetries : inferenceQ[i][n] = 0
    /\ \A n \in 0..MaxRetries : inferenceQ[i][n] > 0 =>
         inferenceQ[i][n] = 1 /\ \A m \in 0..MaxRetries : inferenceQ[i][m] > 0 => m = n
    /\ Img(W) = i /\ ~At(W, "ack") => ~InferenceJob(i)
    /\ InferenceJob(i) \/ (Img(W) = i /\ At(W, "received"))
         => image[i].status \in {"QUEUED", "PROCESSING"}

Lone(i) == Live(i) => Alone(i) /\ Fresh(i) /\ Single(i)
LoneInv == \A i \in Images : Told(image[i]) /\ Lone(i)

OrderInv == LossInv /\ OneTaskPerImage /\ LoneInv

-----------------------------------------------------------------------------
(* Rows *)

LEMMA TransitionTold ==
  ASSUME NEW row \in SessionRows, NEW to \in {"PROCESSING", "ANALYZING", "COMPLETED", "FAILED"}
  PROVE  Told(Transition(row, to))
BY DEF Told, Transition, SessionRows, SetIf, TERMINAL_STATUSES

LEMMA SettledRowTold ==
  ASSUME NEW row \in Rows, NEW o \in Outcomes
  PROVE  Told(SettledRow(row, o))
<1>1. o.to \in {"PROCESSING", "ANALYZING", "COMPLETED", "FAILED"}
  BY DEF Outcomes
<1>2. row \in SessionRows /\ Transition(row, "DETECTED") \in SessionRows
  BY DetectedType, RowsAreSessionRows
<1> QED
  BY <1>1, <1>2, TransitionTold DEF SettledRow

LEMMA MarkFailedTold ==
  ASSUME NEW row \in Rows, Told(row)
  PROVE  Told(MarkFailed(row))
<1>1. CASE row.status = "FAILED"
  BY <1>1 DEF MarkFailed, Told, Rows, TERMINAL_STATUSES
<1>2. CASE row.status # "FAILED"
  BY <1>2, TransitionTold, RowsAreSessionRows DEF MarkFailed
<1> QED
  BY <1>1, <1>2

\* A session that has the row as the database has it writes the row it holds.
LEMMA FreshWrite ==
  ASSUME image \in [Images -> Rows], NEW i \in Images, NEW new \in Rows,
         WriteRow(i, image[i], new)
  PROVE  image' = [image EXCEPT ![i] = new]
<1>1. Flush(image[i], image[i], new) = new
  BY DEF Flush, Rows
<1> QED
  BY <1>1 DEF WriteRow

-----------------------------------------------------------------------------
(* Frames *)

\* Nothing happens to what belongs to the image.
Untouched(i) ==
  /\ image'[i] = image[i] /\ agentsQ'[i] = agentsQ[i] /\ inferenceQ'[i] = inferenceQ[i]
  /\ i \in pending' <=> i \in pending
  /\ \A w \in Workers : Img(w) = i \/ Img(w)' = i => task'[w] = task[w]
  /\ \A r \in Requests : RequestOn(r, i) \/ RequestOn(r, i)' => request'[r] = request[r]

LEMMA UntouchedLone ==
  ASSUME NEW i \in Images, Told(image[i]), Lone(i), Untouched(i), UNCHANGED env
  PROVE  Told(image[i])' /\ Lone(i)'
<1> USE WorkerSets
<1>1. \A w \in Workers : /\ Img(w)' = i <=> Img(w) = i
                         /\ Img(w) = i => task'[w] = task[w]
  BY DEF Untouched, Img
<1>2. \A r \in Requests : /\ RequestOn(r, i)' <=> RequestOn(r, i)
                          /\ RequestOn(r, i) => request'[r] = request[r]
  BY DEF Untouched, RequestOn
<1>3. \A t \in AgentThreads : ThreadOn(t, i)' <=> ThreadOn(t, i)
  BY <1>1 DEF ThreadOn, At
<1>4. (AgentJob(i)' <=> AgentJob(i)) /\ (TailOn(i)' <=> TailOn(i))
  BY <1>1, <1>3 DEF AgentJob, TailOn, Untouched
<1>5. Alone(i) => Alone(i)'
  BY <1>2, <1>3, <1>4 DEF Alone, Untouched
<1>6. Fresh(i) => Fresh(i)'
  <2>1. FreshW(i) => FreshW(i)'
    BY <1>1 DEF FreshW, At, Untouched
  <2>2. \A t \in AgentThreads : FreshThread(t, i) => FreshThread(t, i)'
    BY <1>1 DEF FreshThread, At, Untouched
  <2>3. \A r \in Requests : FreshRequest(r, i) => FreshRequest(r, i)'
    BY <1>2 DEF FreshRequest, RequestOn, Untouched
  <2> QED
    BY <2>1, <2>2, <2>3 DEF Fresh
<1>7. Single(i) => Single(i)'
  <2>1. InferenceJob(i)' <=> InferenceJob(i)
    BY DEF InferenceJob, Untouched
  <2> QED
    BY <1>1, <2>1 DEF Single, At, Untouched
<1> QED
  BY <1>5, <1>6, <1>7 DEF Lone, Live, Untouched

\* A step of a worker on one image.
LEMMA LoneFrame ==
  ASSUME OrderInv, UNCHANGED env, NEW w \in Workers, OnlyOn(w),
         NEW i \in Images, Img(w) = i, Told(image[i])', Lone(i)'
  PROVE  LoneInv'
<1>1. ASSUME NEW j \in Images, j # i PROVE Untouched(j)
  <2>1. Img(w) # j /\ Img(w)' # j
    BY <1>1, PipelineAssumption DEF OnlyOn
  <2> QED
    BY <1>1, <2>1 DEF OnlyOn, OthersWork, Untouched
<1> QED
  BY <1>1, UntouchedLone DEF OrderInv, LoneInv

-----------------------------------------------------------------------------
(* Whoever acts on an image acts alone *)

Quiet(i) == ~AgentJob(i) /\ \A r \in Requests : ~RequestOn(r, i)

LEMMA AgentJobPast ==
  ASSUME OrderInv, NEW i \in Images, AgentJob(i)
  PROVE  Past(i)
<1>1. \A t \in AgentThreads : Img(t) = i => ~At(t, "idle")
  BY WorkerSets, PipelineAssumption DEF OrderInv, LossInv, IInv, TypeOK, TaskTypes
<1> QED
  BY <1>1 DEF OrderInv, LossInv, IInv, QueueInv, AgentInv, AgentJob, ThreadOn

LEMMA WQuiet ==
  ASSUME OrderInv, NEW i \in Images, Img(W) = i, Live(i),
         task[W].pc \in {"starting", "detecting", "enqueue", "failing", "marking"}
  PROVE  Quiet(i)
<1>1. Alone(i) /\ Fresh(i)
  BY DEF OrderInv, LoneInv, Lone
<1>2. CASE TailOn(i)
  BY <1>1, <1>2 DEF Alone, Quiet
<1>3. CASE task[W].pc \in {"starting", "detecting"}
  <2>1. image[i].status \in {"QUEUED", "PROCESSING"}
    BY <1>1, <1>3 DEF Fresh, FreshW, At
  <2>2. ~AgentJob(i)
    BY <2>1, AgentJobPast DEF Past
  <2>3. \A r \in Requests : ~RequestOn(r, i)
    BY <1>1, <2>1 DEF Fresh, FreshRequest, RequestOn
  <2> QED
    BY <2>2, <2>3 DEF Quiet
<1> QED
  BY <1>2, <1>3 DEF TailOn

\* A step of the inference worker that publishes nothing to the agents.
LEMMA WStep ==
  ASSUME OrderInv, UNCHANGED env, OnlyOn(W), NEW i \in Images, Img(W) = i, Live(i),
         agentsQ'[i] = agentsQ[i], FreshW(i)', Single(i)',
         Quiet(i) \/ (image'[i] = image[i] /\ ~TailOn(i)')
  PROVE  Lone(i)'
<1> USE WorkerSets
<1>0. Alone(i) /\ Fresh(i)
  BY DEF OrderInv, LoneInv, Lone
<1>1. W \notin AgentThreads
  BY PipelineAssumption DEF W
<1>2. \A t \in AgentThreads : task'[t] = task[t] /\ Img(t)' = Img(t)
  BY <1>1 DEF OnlyOn, OthersWork, Img
<1>3. /\ \A t \in AgentThreads : ThreadOn(t, i)' <=> ThreadOn(t, i)
      /\ AgentJob(i)' <=> AgentJob(i)
      /\ \A r \in Requests : RequestOn(r, i)' <=> RequestOn(r, i)
  BY <1>2 DEF ThreadOn, At, AgentJob, OnlyOn, RequestOn
<1>4. CASE Quiet(i)
  <2>1. \A t \in AgentThreads : ~ThreadOn(t, i)
    BY <1>4 DEF Quiet, AgentJob
  <2>2. Alone(i)'
    BY <1>0, <1>3, <1>4, <2>1 DEF Alone, Quiet
  <2>3. \A t \in AgentThreads : FreshThread(t, i)'
    BY <1>2, <2>1 DEF ThreadOn, FreshThread, At
  <2>4. \A r \in Requests : FreshRequest(r, i)'
    BY <1>3, <1>4 DEF Quiet, FreshRequest, RequestOn
  <2> QED
    BY <2>2, <2>3, <2>4 DEF Lone, Fresh
<1>5. CASE image'[i] = image[i] /\ ~TailOn(i)'
  <2>1. Alone(i)'
    BY <1>0, <1>3, <1>5 DEF Alone
  <2>2. \A t \in AgentThreads : FreshThread(t, i)'
    BY <1>0, <1>2, <1>5 DEF Fresh, FreshThread, At
  <2>3. \A r \in Requests : FreshRequest(r, i)'
    BY <1>0, <1>5 DEF Fresh, FreshRequest, OnlyOn
  <2> QED
    BY <2>1, <2>2, <2>3 DEF Lone, Fresh
<1> QED
  BY <1>4, <1>5

\* A step of a thread whose task is not over yet.
LEMMA ThreadStep ==
  ASSUME OrderInv, UNCHANGED env, NEW t \in AgentThreads, OnlyOn(t),
         NEW i \in Images, Img(t) = i, ~At(t, "ack"), Live(i),
         agentsQ'[i] = agentsQ[i], inferenceQ'[i] = inferenceQ[i],
         FreshThread(t, i)', Img(t)' = i,
         "agents_crash" \notin env /\ ~At(t, "ack")' => image'[i].status = "ANALYZING"
  PROVE  Lone(i)'
<1> USE WorkerSets
<1>0. Alone(i) /\ Fresh(i) /\ Single(i)
  BY DEF OrderInv, LoneInv, Lone
<1>1. W \in Workers \ {t}
  BY PipelineAssumption DEF W
<1>2. \A v \in Workers \ {t} : task'[v] = task[v] /\ Img(v)' = Img(v)
  BY DEF OnlyOn, OthersWork, Img
<1>3. ThreadOn(t, i) /\ AgentJob(i)
  BY DEF ThreadOn, AgentJob
<1>4. /\ agentsQ[i] = 0 /\ ~TailOn(i) /\ Past(i)
      /\ \A u \in AgentThreads \ {t} : ~ThreadOn(u, i)
      /\ \A r \in Requests : ~RequestOn(r, i)
  BY <1>0, <1>3, AgentJobPast DEF Alone
<1>5. /\ \A u \in AgentThreads \ {t} : ~ThreadOn(u, i)'
      /\ ~TailOn(i)'
      /\ \A r \in Requests : ~RequestOn(r, i)'
  BY <1>1, <1>2, <1>4 DEF ThreadOn, At, TailOn, RequestOn, OnlyOn
<1>6. Alone(i)'
  <2>1. ASSUME "agents_crash" \notin env, AgentJob(i)' PROVE image'[i].status = "ANALYZING"
    <3>1. ThreadOn(t, i)'
      BY <1>4, <1>5, <2>1 DEF AgentJob
    <3> QED
      BY <2>1, <3>1 DEF ThreadOn
  <2> QED
    BY <1>4, <1>5, <2>1 DEF Alone
<1>7. Fresh(i)'
  <2>1. FreshW(i)'
    <3>1. Img(W) = i => task[W].pc \notin {"starting", "detecting", "enqueue", "failing",
                                           "marking", "loaded", "chain"}
      BY <1>0, <1>4 DEF Fresh, FreshW, Past, Live, TailOn, At
    <3> QED
      BY <1>1, <1>2, <3>1 DEF FreshW, At
  <2>2. \A u \in AgentThreads \ {t} : FreshThread(u, i)'
    BY <1>5 DEF ThreadOn, FreshThread, At
  <2>3. \A r \in Requests : FreshRequest(r, i)'
    BY <1>5 DEF RequestOn, FreshRequest
  <2> QED
    BY <2>1, <2>2, <2>3 DEF Fresh
<1>8. Single(i)'
  <2>1. "inference_crash" \notin env => ~InferenceJob(i) /\ ~(Img(W) = i /\ At(W, "received"))
    BY <1>0, <1>4 DEF Single, Past, Live
  <2>2. InferenceJob(i)' <=> InferenceJob(i)
    BY DEF InferenceJob, OnlyOn
  <2> QED
    BY <1>0, <1>1, <1>2, <2>1, <2>2 DEF Single, At, OnlyOn
<1> QED
  BY <1>6, <1>7, <1>8 DEF Lone

\* A run_inference at work is the only one of its image.
LEMMA SingleStep ==
  ASSUME OrderInv, UNCHANGED env, OnlyOn(W), NEW i \in Images, Img(W) = i, Live(i),
         ~At(W, "ack"), inferenceQ'[i] = inferenceQ[i], ~At(W, "received")'
  PROVE  Single(i)'
<1>1. Single(i)
  BY DEF OrderInv, LoneInv, Lone
<1>2. InferenceJob(i)' <=> InferenceJob(i)
  BY DEF InferenceJob, OnlyOn
<1> QED
  BY <1>1, <1>2 DEF Single, OnlyOn

\* A step on an image whose row is gone.
LEMMA GoneStep ==
  ASSUME OrderInv, UNCHANGED env, NEW w \in Workers, OnlyOn(w), NEW i \in Images, Img(w) = i,
         ~Live(i), image'[i] = image[i]
  PROVE  LoneInv'
<1>1. Told(image[i])' /\ Lone(i)'
  BY DEF OrderInv, LoneInv, Lone, Live
<1> QED
  BY <1>1, LoneFrame

LEMMA AckLone ==
  ASSUME OrderInv, UNCHANGED env, NEW w \in Workers, NEW i \in Images, Img(w) = i, Ack(w)
  PROVE  LoneInv'
<1> USE WorkerSets
<1>0. TypeOK /\ LossInv
  BY DEF OrderInv, LossInv, IInv
<1>1. /\ At(w, "ack") /\ ~At(w, "idle") /\ i \in Images
      /\ UNCHANGED <<rows, queues, pending, request>>
  BY <1>0, BusyWorker DEF Ack, At
<1>2. OnlyOn(w)
  BY <1>0, EndContinues DEF EndStep
<1>3. Img(w)' = NoImage /\ At(w, "idle")' /\ NoImage \notin Images
  BY <1>0, PipelineAssumption DEF Ack, TypeOK, TaskTypes, Img, Idle, At
<1>4. CASE ~Live(i)
  BY <1>1, <1>2, <1>4, GoneStep DEF rows
<1>5. CASE Live(i)
  <2>0. Alone(i) /\ Fresh(i) /\ Single(i)
    BY <1>1, <1>5 DEF OrderInv, LoneInv, Lone
  <2>1. UNCHANGED <<image, agentsQ, inferenceQ, pending, request>>
    BY <1>1 DEF rows, queues
  <2>2. \A v \in Workers \ {w} : task'[v] = task[v] /\ Img(v)' = Img(v)
    BY <1>2 DEF OnlyOn, OthersWork, Img
  <2>3. CASE w = W
    <3>1. ~TailOn(i)' /\ FreshW(i)'
      BY <1>1, <1>3, <2>3 DEF TailOn, FreshW, At
    <3>2. Single(i)'
      BY <1>1, <1>3, <2>0, <2>1, <2>3 DEF Single, InferenceJob
    <3> QED
      BY <1>1, <1>2, <1>5, <2>1, <2>3, <3>1, <3>2, WStep, LoneFrame DEF OrderInv, LoneInv
  <2>4. CASE w # W
    <3>1. w \in AgentThreads /\ W \in Workers \ {w}
      BY <2>4 DEF Workers, W
    <3>2. /\ \A t \in AgentThreads : ThreadOn(t, i)' => ThreadOn(t, i)
          /\ AgentJob(i)' => AgentJob(i)
          /\ TailOn(i)' <=> TailOn(i)
          /\ \A r \in Requests : RequestOn(r, i)' <=> RequestOn(r, i)
      BY <1>1, <1>3, <2>1, <2>2, <3>1 DEF ThreadOn, At, AgentJob, TailOn, RequestOn
    <3>3. Alone(i)'
      BY <2>0, <2>1, <3>2 DEF Alone
    <3>4. Fresh(i)'
      <4>1. FreshW(i)'
        BY <2>0, <2>1, <2>2, <3>1 DEF Fresh, FreshW, At
      <4>2. \A t \in AgentThreads : FreshThread(t, i)'
        BY <1>1, <1>3, <2>0, <2>1, <2>2 DEF Fresh, FreshThread, At
      <4>3. \A r \in Requests : FreshRequest(r, i)'
        BY <2>0, <2>1 DEF Fresh, FreshRequest
      <4> QED
        BY <4>1, <4>2, <4>3 DEF Fresh
    <3>5. Single(i)'
      BY <2>0, <2>1, <2>2, <3>1 DEF Single, InferenceJob, At
    <3> QED
      BY <1>1, <1>2, <2>1, <3>3, <3>4, <3>5, LoneFrame DEF Lone, OrderInv, LoneInv
  <2> QED
    BY <2>3, <2>4
<1> QED
  BY <1>4, <1>5

LEMMA EndLone ==
  ASSUME OrderInv, UNCHANGED env, NEW w \in Workers, NEW i \in Images, Img(w) = i, EndStep(w)
  PROVE  LoneInv'
<1> USE WorkerSets
<1>0. TypeOK /\ LossInv /\ IInv
  BY DEF OrderInv, LossInv, IInv
<1>1. CASE Ack(w)
  BY <1>1, AckLone
<1>2. CASE FailLoad(w) \/ FailWrite(w) \/ FailSwallow(w)
  <2>1. /\ task[w].pc \in {"failing", "marking"} /\ i \in Images
        /\ UNCHANGED <<queues, pending, request>>
        /\ OnlyOn(w) /\ Img(w)' = i
        /\ task'[w].pc \in {"marking", "ack"}
    <3>1. task[w].pc \in {"failing", "marking"}
      BY <1>2 DEF FailLoad, FailWrite, FailSwallow, At
    <3>2. Img(w)' = i /\ task'[w].pc \in {"marking", "ack"}
      BY <1>0, <1>2, SettledLeaves, LoadLeaves DEF FailLoad, FailWrite, FailSwallow, At
    <3> QED
      BY <1>0, <1>2, <3>1, <3>2, BusyWorker, EndContinues
      DEF At, FailLoad, FailWrite, FailSwallow, EndStep
  <2>2. i \in Images /\ Told(image[i]) /\ image[i] \in Rows
    BY <1>0, <2>1 DEF OrderInv, LoneInv, TypeOK, RowTypes
  <2>3. CASE ~Live(i)
    <3>1. image'[i] = image[i]
      BY <1>2, <2>3 DEF FailLoad, FailWrite, FailSwallow, rows, Live, Missing
    <3> QED
      BY <2>1, <2>2, <2>3, <3>1, GoneStep
  <2>4. CASE Live(i)
    <3>0. Alone(i) /\ Fresh(i) /\ Single(i)
      BY <2>2, <2>4 DEF OrderInv, LoneInv, Lone
    \* The row it holds, if it is to write one, and the row afterwards.
    <3>1. /\ Told(image[i])'
          /\ image'[i] = image[i] \/ (image'[i].status = "FAILED" /\ At(w, "ack")')
          /\ At(w, "marking")' => /\ image'[i] = image[i] /\ task'[w].seen = image[i]
                                  /\ CanMarkFailed(image[i].status, task[w].exc)
                                  /\ At(w, "failing")
      <4>1. CASE FailLoad(w)
        <5>1. image' = image
          BY <4>1 DEF FailLoad, rows
        <5>2. At(w, "marking")' => Load(w, "marking") /\ CanMarkFailed(image[i].status, task[w].exc)
          BY <1>0, <4>1, SettledLeaves DEF FailLoad, At
        <5>3. Load(w, "marking") => task'[w].seen = image[i]
          BY <1>0, LoadLeaves
        <5> QED
          BY <2>2, <4>1, <5>1, <5>2, <5>3 DEF FailLoad
      <4>2. CASE FailSwallow(w)
        <5>1. image' = image /\ At(w, "ack")'
          BY <1>0, <4>2, SettledLeaves DEF FailSwallow, rows
        <5> QED
          BY <2>2, <5>1 DEF At
      <4>3. CASE FailWrite(w)
        <5>1. At(w, "ack")' /\ At(w, "marking")
          BY <1>0, <4>3, SettledLeaves DEF FailWrite
        <5>2. CASE Missing(i)
          BY <2>2, <4>3, <5>1, <5>2 DEF FailWrite, At
        <5>3. CASE ~Missing(i)
          <6>1. task[w].seen = image[i]
            BY <3>0, <5>1 DEF Fresh, FreshW, FreshThread, At, Workers, W
          <6>2. MarkFailed(image[i]) \in Rows /\ MarkFailed(image[i]).status = "FAILED"
            BY <2>2, MarkFailedType
          <6>3. image' = [image EXCEPT ![i] = MarkFailed(image[i])]
            BY <1>0, <2>2, <4>3, <5>3, <6>1, <6>2, FreshWrite
            DEF FailWrite, TypeOK, RowTypes
          <6>4. image'[i] = MarkFailed(image[i])
            BY <1>0, <2>2, <6>3 DEF TypeOK, RowTypes
          <6> QED
            BY <2>2, <5>1, <6>2, <6>4, MarkFailedTold DEF At
        <5> QED
          BY <5>2, <5>3
      <4> QED
        BY <1>2, <4>1, <4>2, <4>3
    <3>2. CASE w = W
      <4>1. Quiet(i)
        BY <2>1, <2>2, <2>4, <3>2, WQuiet
      <4>2. FreshW(i)'
        BY <2>1, <3>0, <3>1, <3>2 DEF Fresh, FreshW, At
      <4>3. Single(i)'
        BY <2>1, <2>2, <2>4, <3>2, SingleStep DEF queues, At
      <4>4. Lone(i)'
        BY <2>1, <2>2, <2>4, <3>2, <4>1, <4>2, <4>3, WStep DEF queues
      <4> QED
        BY <2>1, <2>2, <3>1, <4>4, LoneFrame
    <3>3. CASE w \in AgentThreads
      <4>1. Past(i)
        BY <1>0, <2>1, <3>3 DEF IInv, AgentInv, At
      <4>2. FreshThread(w, i)'
        BY <2>1, <2>4, <3>1, <4>1
        DEF FreshThread, At, CanMarkFailed, CanTransition, ALLOWED_TRANSITIONS, Past, Live
      <4>3. "agents_crash" \notin env /\ ~At(w, "ack")' => image'[i].status = "ANALYZING"
        <5>1. ThreadOn(w, i) /\ AgentJob(i)
          BY <2>1, <3>3 DEF ThreadOn, AgentJob, At
        <5> QED
          BY <3>0, <3>1, <5>1 DEF Alone
      <4>4. Lone(i)'
        BY <2>1, <2>2, <2>4, <3>3, <4>2, <4>3, ThreadStep DEF queues, At
      <4> QED
        BY <2>1, <2>2, <3>1, <4>4, LoneFrame
    <3> QED
      BY <3>2, <3>3 DEF Workers, W
  <2> QED
    BY <2>3, <2>4
<1> QED
  BY <1>1, <1>2 DEF EndStep

-----------------------------------------------------------------------------
(* run_inference *)

LEMMA ReceiveLone ==
  ASSUME OrderInv, UNCHANGED env, NEW i \in Images, NEW n \in 0..MaxRetries, InfReceive(i, n)
  PROVE  LoneInv'
<1> USE WorkerSets
<1>0. TypeOK /\ NoImage \notin Images
  BY PipelineAssumption DEF OrderInv, LossInv, IInv
<1>1. At(W, "received")' /\ Img(W)' = i /\ OthersWork(W)
  BY <1>0, ReceiveLeaves DEF InfReceive
<1>2. Img(W) = NoImage /\ W \notin AgentThreads
  BY <1>0, PipelineAssumption DEF InfReceive, TypeOK, TaskTypes, W
<1>3. inferenceQ[i] \in [0..MaxRetries -> Nat] /\ inferenceQ[i][n] > 0
  BY <1>0 DEF TypeOK, QueueTypes, InfReceive
<1>4. /\ inferenceQ'[i][n] = inferenceQ[i][n] - 1
      /\ \A m \in (0..MaxRetries) \ {n} : inferenceQ'[i][m] = inferenceQ[i][m]
      /\ \A j \in Images \ {i} : inferenceQ'[j] = inferenceQ[j]
  <2>1. inferenceQ'[i] = [inferenceQ[i] EXCEPT ![n] = inferenceQ[i][n] - 1]
    BY <1>0 DEF TypeOK, QueueTypes, InfReceive
  <2>2. \A j \in Images \ {i} : inferenceQ'[j] = inferenceQ[j]
    BY <1>0 DEF TypeOK, QueueTypes, InfReceive
  <2> QED
    BY <1>3, <2>1, <2>2
<1>5. UNCHANGED <<image, agentsQ, pending, request>>
  BY DEF InfReceive, rows
<1>6. ASSUME NEW j \in Images, j # i PROVE Untouched(j)
  <2>1. Img(W) # j /\ Img(W)' # j
    BY <1>0, <1>1, <1>2, <1>6
  <2> QED
    BY <1>1, <1>4, <1>5, <1>6, <2>1 DEF OthersWork, Untouched
<1>7. Lone(i)'
  <2> SUFFICES ASSUME Live(i) PROVE Lone(i)'
    BY <1>5 DEF Lone, Live
  <2>0. Alone(i) /\ Fresh(i) /\ Single(i)
    BY DEF OrderInv, LoneInv, Lone
  <2>1. \A t \in AgentThreads : task'[t] = task[t] /\ Img(t)' = Img(t)
    BY <1>1, <1>2 DEF OthersWork, Img
  <2>2. /\ \A t \in AgentThreads : ThreadOn(t, i)' <=> ThreadOn(t, i)
        /\ AgentJob(i)' <=> AgentJob(i)
        /\ \A r \in Requests : RequestOn(r, i)' <=> RequestOn(r, i)
        /\ ~TailOn(i)'
    BY <1>1, <1>5, <2>1 DEF ThreadOn, At, AgentJob, RequestOn, TailOn
  <2>3. Alone(i)'
    BY <1>5, <2>0, <2>2 DEF Alone
  <2>4. Fresh(i)'
    <3>1. FreshW(i)'
      BY <1>1 DEF FreshW, At
    <3>2. \A t \in AgentThreads : FreshThread(t, i)'
      BY <1>5, <2>0, <2>1 DEF Fresh, FreshThread, At
    <3>3. \A r \in Requests : FreshRequest(r, i)'
      BY <1>5, <2>0 DEF Fresh, FreshRequest
    <3> QED
      BY <3>1, <3>2, <3>3 DEF Fresh
  <2>5. Single(i)'
    <3> SUFFICES ASSUME "inference_crash" \notin env PROVE Single(i)'
      BY DEF Single
    <3>1. /\ i \notin pending /\ inferenceQ[i][n] = 1
          /\ \A m \in (0..MaxRetries) \ {n} : ~(inferenceQ[i][m] > 0)
          /\ image[i].status \in {"QUEUED", "PROCESSING"}
      BY <1>3, <2>0 DEF Single, InferenceJob
    <3>2. \A m \in 0..MaxRetries : ~(inferenceQ'[i][m] > 0)
      BY <1>4, <3>1
    <3> QED
      BY <1>1, <1>5, <3>1, <3>2 DEF Single, InferenceJob
  <2> QED
    BY <2>3, <2>4, <2>5 DEF Lone
<1>8. Told(image[i])'
  BY <1>5 DEF OrderInv, LoneInv
<1> QED
  BY <1>6, <1>7, <1>8, UntouchedLone DEF OrderInv, LoneInv

LEMMA EnqueueLone ==
  ASSUME OrderInv, UNCHANGED env, NEW i \in Images, Img(W) = i, Live(i), InfEnqueueAgents
  PROVE  Told(image[i])' /\ Lone(i)'
<1> USE WorkerSets
<1>0. TypeOK /\ LossInv /\ OnlyOn(W) /\ Alone(i) /\ Fresh(i) /\ Single(i) /\ Told(image[i])
  BY InferenceContinues DEF OrderInv, LoneInv, Lone, LossInv, IInv
<1>1. /\ At(W, "enqueue") /\ UNCHANGED <<image, inferenceQ, pending, request>>
      /\ image[i].status = "ANALYZING" /\ agentsQ \in [Images -> Nat]
  BY <1>0 DEF InfEnqueueAgents, rows, Fresh, FreshW, TypeOK, QueueTypes
<1>2. Quiet(i)
  BY <1>1, WQuiet DEF At
<1>3. CASE Raise(W, "worded") /\ UNCHANGED agentsQ
  <2>1. At(W, "failing")' /\ Img(W)' = i
    BY <1>0, <1>3, RaiseLeaves
  <2>2. FreshW(i)'
    BY <1>1, <2>1 DEF FreshW, At
  <2>3. Single(i)'
    BY <1>0, <1>1, <2>1, SingleStep DEF At
  <2> QED
    BY <1>0, <1>1, <1>2, <1>3, <2>2, <2>3, WStep
<1>4. CASE PublishAgents(i) /\ Settled(W)
  <2>1. At(W, "ack")' /\ Img(W)' = i /\ OthersWork(W) /\ W \notin AgentThreads
    BY <1>0, <1>4, SettledLeaves, PipelineAssumption DEF W
  <2>2. \A t \in AgentThreads : task'[t] = task[t] /\ Img(t)' = Img(t)
    BY <2>1 DEF OthersWork, Img
  <2>3. agentsQ[i] = 0 /\ agentsQ'[i] = 1
    BY <1>1, <1>2, <1>4 DEF Quiet, AgentJob, PublishAgents
  <2>4. /\ \A t \in AgentThreads : ~ThreadOn(t, i)'
        /\ \A r \in Requests : ~RequestOn(r, i)'
        /\ ~TailOn(i)'
    BY <1>1, <1>2, <2>1, <2>2 DEF Quiet, AgentJob, ThreadOn, At, RequestOn, TailOn
  <2>5. Alone(i)'
    BY <1>1, <2>3, <2>4 DEF Alone
  <2>6. Fresh(i)'
    <3>1. FreshW(i)'
      BY <2>1 DEF FreshW, At
    <3>2. \A t \in AgentThreads : FreshThread(t, i)'
      BY <1>0, <1>1, <2>2 DEF Fresh, FreshThread, At
    <3>3. \A r \in Requests : FreshRequest(r, i)'
      BY <1>0, <1>1 DEF Fresh, FreshRequest
    <3> QED
      BY <3>1, <3>2, <3>3 DEF Fresh
  <2>7. Single(i)'
    BY <1>0, <1>1, <2>1, SingleStep DEF At
  <2> QED
    BY <1>0, <1>1, <2>5, <2>6, <2>7 DEF Lone
<1> QED
  BY <1>3, <1>4 DEF InfEnqueueAgents, OrderInv, OneTaskPerImage

LEMMA CommitLone ==
  ASSUME OrderInv, UNCHANGED env, NEW i \in Images, Img(W) = i, Live(i),
         NEW o \in Outcomes, InfCommit(o)
  PROVE  Told(image[i])' /\ Lone(i)'
<1> USE WorkerSets
<1>0. /\ TypeOK /\ LossInv /\ OnlyOn(W) /\ Fresh(i) /\ Told(image[i])
      /\ image \in [Images -> Rows]
  BY InferenceContinues DEF OrderInv, LoneInv, Lone, LossInv, IInv, TypeOK, RowTypes
<1>1. /\ At(W, "detecting") /\ UNCHANGED <<inferenceQ, agentsQ, pending, request>>
      /\ image[i].status = "PROCESSING" /\ task[W].seen = image[i]
  BY <1>0 DEF InfCommit, queues, Fresh, FreshW, At
<1>2. Quiet(i)
  BY <1>1, WQuiet DEF At
<1>3. CASE CommitRefused(o)
  <2>1. At(W, "failing")' /\ Img(W)' = i /\ image' = image
    BY <1>0, <1>3, RaiseLeaves DEF InfCommit, rows
  <2>2. FreshW(i)'
    BY <1>1, <2>1 DEF FreshW, At
  <2>3. Single(i)'
    BY <1>0, <1>1, <2>1, SingleStep DEF At
  <2> QED
    BY <1>0, <1>1, <1>2, <2>1, <2>2, <2>3, WStep
<1>4. CASE ~CommitRefused(o)
  <2> DEFINE new == SettledRow(image[i], o)
  <2>1. new \in Rows /\ new.status = o.to /\ Told(new)
    BY <1>0, SettledRowType, SettledRowTold
  <2>2. WriteRow(i, image[i], new)
    BY <1>1, <1>4 DEF InfCommit
  <2> HIDE DEF new
  <2>3. image'[i] = new
    BY <1>0, <2>1, <2>2, FreshWrite
  <2>4. /\ At(W, "ack")' \/ At(W, "enqueue")'
        /\ At(W, "enqueue")' => o.to = "ANALYZING"
    BY <1>0, <1>4, SettledLeaves, GotoLeaves DEF InfCommit, At
  <2>5. FreshW(i)'
    BY <2>1, <2>3, <2>4 DEF FreshW, At
  <2>6. Single(i)'
    BY <1>0, <1>1, <2>4, SingleStep DEF At
  <2>7. Lone(i)'
    BY <1>0, <1>1, <1>2, <2>5, <2>6, WStep
  <2>8. Told(image[i])'
    BY <2>1, <2>3
  <2> QED
    BY <2>7, <2>8
<1> QED
  BY <1>3, <1>4

LEMMA StartLone ==
  ASSUME OrderInv, UNCHANGED env, NEW i \in Images, Img(W) = i, Live(i), InfStart
  PROVE  Told(image[i])' /\ Lone(i)'
<1> USE WorkerSets
<1>0. /\ TypeOK /\ LossInv /\ OnlyOn(W) /\ Fresh(i) /\ Told(image[i])
      /\ image \in [Images -> Rows] /\ task \in [Workers -> Tasks]
  BY InferenceContinues DEF OrderInv, LoneInv, Lone, LossInv, IInv, TypeOK, RowTypes, TaskTypes
<1>1. /\ At(W, "starting") /\ UNCHANGED <<inferenceQ, agentsQ, pending, request>>
      /\ image[i].status = "QUEUED" /\ task[W].seen = image[i]
  BY <1>0 DEF InfStart, queues, Fresh, FreshW, At
<1>2. Quiet(i)
  BY <1>1, WQuiet DEF At
<1> DEFINE new == Transition(image[i], "PROCESSING")
<1>3. new \in Rows /\ new.status = "PROCESSING" /\ Told(new)
  BY <1>0, TransitionType, TransitionTold, RowsAreSessionRows
<1>4. /\ WriteRow(i, image[i], new)
      /\ task' = [task EXCEPT ![W].pc = "detecting", ![W].seen = new]
  BY <1>1 DEF InfStart, Missing
<1> HIDE DEF new
<1>5. image'[i] = new
  BY <1>0, <1>3, <1>4, FreshWrite
<1>6. At(W, "detecting")' /\ task'[W].seen = new
  <2>1. task'[W] = [task[W] EXCEPT !.pc = "detecting", !.seen = new]
    BY <1>0, <1>4
  <2> QED
    BY <1>0, <2>1 DEF At, Tasks
<1>7. FreshW(i)'
  BY <1>3, <1>5, <1>6 DEF FreshW, At
<1>8. Single(i)'
  BY <1>0, <1>1, <1>6, SingleStep DEF At
<1>9. Lone(i)'
  BY <1>0, <1>1, <1>2, <1>7, <1>8, WStep
<1> QED
  BY <1>3, <1>5, <1>9

LEMMA TransientLone ==
  ASSUME OrderInv, UNCHANGED env, NEW i \in Images, Img(W) = i, Live(i), InfTransient
  PROVE  Told(image[i])' /\ Lone(i)'
<1> USE WorkerSets
<1>0. /\ TypeOK /\ LossInv /\ OnlyOn(W) /\ Fresh(i) /\ Single(i) /\ Told(image[i])
      /\ inferenceQ \in [Images -> [0..MaxRetries -> Nat]]
      /\ task[W].tries \in 0..MaxRetries /\ MaxRetries \in Nat
  BY InferenceContinues, PipelineAssumption
  DEF OrderInv, LoneInv, Lone, LossInv, IInv, TypeOK, QueueTypes, TaskTypes, Tasks
<1>1. /\ At(W, "detecting") /\ UNCHANGED <<image, agentsQ, pending, request>>
      /\ image[i].status = "PROCESSING"
  BY <1>0 DEF InfTransient, rows, Fresh, FreshW
<1>2. Quiet(i)
  BY <1>1, WQuiet DEF At
<1>3. CASE Raise(W, "worded") /\ UNCHANGED inferenceQ
  <2>1. At(W, "failing")'
    BY <1>0, <1>3, RaiseLeaves
  <2>2. FreshW(i)'
    BY <1>1, <2>1 DEF FreshW, At
  <2>3. Single(i)'
    BY <1>0, <1>1, <1>3, <2>1, SingleStep DEF At
  <2> QED
    BY <1>0, <1>1, <1>2, <2>2, <2>3, WStep
<1>4. CASE Settled(W) /\ UNCHANGED inferenceQ
  <2>1. At(W, "ack")'
    BY <1>0, <1>4, SettledLeaves
  <2>2. FreshW(i)'
    BY <2>1 DEF FreshW, At
  <2>3. Single(i)'
    BY <1>0, <1>1, <1>4, <2>1, SingleStep DEF At
  <2> QED
    BY <1>0, <1>1, <1>2, <2>2, <2>3, WStep
<1>5. CASE /\ Settled(W) /\ task[W].tries < MaxRetries
           /\ PublishInference(i, task[W].tries + 1)
  <2>1. At(W, "ack")'
    BY <1>0, <1>5, SettledLeaves
  <2>2. FreshW(i)'
    BY <2>1 DEF FreshW, At
  <2>3. Single(i)'
    <3> SUFFICES ASSUME "inference_crash" \notin env PROVE Single(i)'
      BY DEF Single
    <3> DEFINE n == task[W].tries + 1
    <3>1. n \in 0..MaxRetries
      BY <1>0, <1>5
    <3>2. i \notin pending /\ \A m \in 0..MaxRetries : inferenceQ[i][m] = 0
      BY <1>0, <1>1 DEF Single, InferenceJob, At
    <3>3. inferenceQ'[i] = [inferenceQ[i] EXCEPT ![n] = inferenceQ[i][n] + 1]
      BY <1>0, <1>5 DEF PublishInference
    <3> HIDE DEF n
    <3>4. inferenceQ'[i][n] = 1 /\ \A m \in (0..MaxRetries) \ {n} : inferenceQ'[i][m] = 0
      BY <1>0, <3>1, <3>2, <3>3
    <3> QED
      BY <1>1, <2>1, <3>2, <3>4 DEF Single, InferenceJob, At
  <2> QED
    BY <1>0, <1>1, <1>2, <2>2, <2>3, WStep
<1> QED
  BY <1>3, <1>4, <1>5 DEF InfTransient

LEMMA ErrorLone ==
  ASSUME OrderInv, UNCHANGED env, NEW i \in Images, Img(W) = i, Live(i), InfError
  PROVE  Told(image[i])' /\ Lone(i)'
<1> USE WorkerSets
<1>0. TypeOK /\ LossInv /\ OnlyOn(W) /\ Fresh(i) /\ Single(i) /\ Told(image[i])
  BY InferenceContinues DEF OrderInv, LoneInv, Lone, LossInv, IInv
<1>1. /\ UNCHANGED <<image, inferenceQ, agentsQ, pending, request>>
      /\ task[W].pc \in {"received", "starting", "detecting"}
      /\ "inference_crash" \notin env
  BY DEF InfError, rows, queues, OrderInv, OneTaskPerImage
<1>2. image[i].status \in {"QUEUED", "PROCESSING"}
  BY <1>0, <1>1 DEF Fresh, FreshW, Single, At
<1>3. Quiet(i)
  <2>1. ~AgentJob(i)
    BY <1>2, AgentJobPast DEF Past
  <2>2. \A r \in Requests : ~RequestOn(r, i)
    BY <1>0, <1>2 DEF Fresh, FreshRequest, RequestOn
  <2> QED
    BY <2>1, <2>2 DEF Quiet
<1>4. At(W, "failing")'
  BY <1>0, RaiseLeaves DEF InfError
<1>5. FreshW(i)'
  BY <1>1, <1>2, <1>4 DEF FreshW, At
<1>6. Single(i)'
  BY <1>0, <1>1, <1>4, SingleStep DEF At
<1> QED
  BY <1>0, <1>1, <1>3, <1>5, <1>6, WStep

LEMMA LoadLone ==
  ASSUME OrderInv, UNCHANGED env, NEW i \in Images, Img(W) = i, Live(i), InfLoad
  PROVE  Told(image[i])' /\ Lone(i)'
<1> USE WorkerSets
<1>0. TypeOK /\ LossInv /\ OnlyOn(W) /\ Told(image[i])
  BY InferenceContinues DEF OrderInv, LoneInv, LossInv, IInv
<1>1. UNCHANGED <<image, inferenceQ, agentsQ, pending, request>> /\ At(W, "received")
  BY DEF InfLoad, rows, queues
<1>2. \/ At(W, "ack")'
      \/ At(W, "starting")' /\ image[i].status = "QUEUED" /\ task'[W].seen = image[i]
      \/ At(W, "detecting")' /\ image[i].status = "PROCESSING" /\ task'[W].seen = image[i]
  BY <1>0, SettledLeaves, LoadLeaves DEF InfLoad
<1>3. ~TailOn(i)' /\ FreshW(i)'
  BY <1>1, <1>2 DEF FreshW, At, TailOn
<1>4. Single(i)'
  BY <1>0, <1>1, <1>2, SingleStep DEF At
<1> QED
  BY <1>0, <1>1, <1>3, <1>4, WStep

LEMMA InferenceLone ==
  ASSUME OrderInv, UNCHANGED env, InferenceStep
  PROVE  LoneInv'
<1> USE WorkerSets
<1>0. TypeOK /\ LossInv
  BY DEF OrderInv, LossInv, IInv
<1>1. CASE \E i \in Images, n \in 0..MaxRetries : InfReceive(i, n)
  BY <1>1, ReceiveLone
<1>2. CASE EndStep(W)
  <2>1. Img(W) \in Images
    BY <1>0, <1>2, BusyWorker DEF EndStep, FailLoad, FailWrite, FailSwallow, Ack, At
  <2> QED
    BY <1>2, <2>1, EndLone
<1>3. CASE InfLoad \/ InfStart \/ InfTransient \/ InfError \/ InfEnqueueAgents
             \/ \E o \in Outcomes : InfCommit(o)
  <2>1. Img(W) \in Images /\ OnlyOn(W)
    BY <1>0, <1>3, BusyWorker, InferenceContinues
    DEF InfLoad, InfStart, InfTransient, InfError, InfEnqueueAgents, InfCommit, At
  <2> SUFFICES ASSUME NEW i \in Images, Img(W) = i PROVE LoneInv'
    BY <2>1
  <2>2. CASE ~Live(i)
    <3>1. image'[i] = image[i]
      BY <1>3, <2>2 DEF InfLoad, InfStart, InfTransient, InfError, InfEnqueueAgents, InfCommit,
         rows, CommitRefused, Missing, Live
    <3> QED
      BY <2>1, <2>2, <3>1, GoneStep
  <2>3. CASE Live(i)
    <3>1. Told(image[i])' /\ Lone(i)'
      BY <1>3, <2>3, LoadLone, StartLone, TransientLone, ErrorLone, EnqueueLone, CommitLone
    <3> QED
      BY <2>1, <3>1, LoneFrame
  <2> QED
    BY <2>2, <2>3
<1> QED
  BY <1>1, <1>2, <1>3 DEF InferenceStep

-----------------------------------------------------------------------------
(* run_agent_analysis *)

LEMMA AgentReceiveLone ==
  ASSUME OrderInv, UNCHANGED env, NEW t \in AgentThreads, NEW i \in Images, AgReceive(t, i)
  PROVE  LoneInv'
<1> USE WorkerSets
<1>0. TypeOK /\ NoImage \notin Images
  BY PipelineAssumption DEF OrderInv, LossInv, IInv
<1>1. At(t, "received")' /\ Img(t)' = i /\ OthersWork(t)
  <2>1. task \in [Workers -> Tasks]
    BY <1>0 DEF TypeOK, TaskTypes
  <2> QED
    BY <2>1 DEF AgReceive, At, Img, Idle, OthersWork
<1>2. Img(t) = NoImage /\ W \in Workers \ {t}
  BY <1>0, PipelineAssumption DEF AgReceive, TypeOK, TaskTypes, W
<1>3. /\ agentsQ[i] \in Nat /\ agentsQ[i] > 0 /\ agentsQ'[i] = agentsQ[i] - 1
      /\ \A j \in Images \ {i} : agentsQ'[j] = agentsQ[j]
  BY <1>0 DEF AgReceive, TypeOK, QueueTypes
<1>4. UNCHANGED <<image, inferenceQ, pending, request>>
  BY DEF AgReceive, rows
<1>5. ASSUME NEW j \in Images, j # i PROVE Untouched(j)
  <2>1. Img(t) # j /\ Img(t)' # j
    BY <1>0, <1>1, <1>2, <1>5
  <2> QED
    BY <1>1, <1>3, <1>4, <1>5, <2>1 DEF OthersWork, Untouched
<1>6. Lone(i)'
  <2> SUFFICES ASSUME Live(i) PROVE Lone(i)'
    BY <1>4 DEF Lone, Live
  <2>0. Alone(i) /\ Fresh(i) /\ Single(i) /\ AgentJob(i)
    BY <1>3 DEF OrderInv, LoneInv, Lone, AgentJob
  <2>1. \A v \in Workers \ {t} : task'[v] = task[v] /\ Img(v)' = Img(v)
    BY <1>1 DEF OthersWork, Img
  <2>2. agentsQ'[i] = 0 /\ \A u \in AgentThreads \ {t} : ~ThreadOn(u, i)'
    <3>1. \A u \in AgentThreads : ~ThreadOn(u, i)
      BY <1>3, <2>0 DEF Alone
    <3> QED
      BY <1>3, <2>0, <2>1, <3>1 DEF Alone, ThreadOn, At
  <2>3. /\ TailOn(i)' <=> TailOn(i)
        /\ \A r \in Requests : RequestOn(r, i)' <=> RequestOn(r, i)
    BY <1>2, <1>4, <2>1 DEF TailOn, RequestOn
  <2>4. Alone(i)'
    BY <1>4, <2>0, <2>2, <2>3 DEF Alone
  <2>5. Fresh(i)'
    <3>1. FreshW(i)'
      BY <1>2, <1>4, <2>0, <2>1 DEF Fresh, FreshW, At
    <3>2. \A u \in AgentThreads : FreshThread(u, i)'
      BY <1>1, <1>4, <2>0, <2>1 DEF Fresh, FreshThread, At
    <3>3. \A r \in Requests : FreshRequest(r, i)'
      BY <1>4, <2>0 DEF Fresh, FreshRequest
    <3> QED
      BY <3>1, <3>2, <3>3 DEF Fresh
  <2>6. Single(i)'
    BY <1>2, <1>4, <2>0, <2>1 DEF Single, InferenceJob, At
  <2> QED
    BY <2>4, <2>5, <2>6 DEF Lone
<1>7. Told(image[i])'
  BY <1>4 DEF OrderInv, LoneInv
<1> QED
  BY <1>5, <1>6, <1>7, UntouchedLone DEF OrderInv, LoneInv

LEMMA CommitAgentsLone ==
  ASSUME OrderInv, UNCHANGED env, NEW t \in AgentThreads, NEW i \in Images, Img(t) = i, Live(i),
         OnlyOn(t), task[t].pc \in {"loaded", "chain"},
         agentsQ'[i] = agentsQ[i], inferenceQ'[i] = inferenceQ[i],
         NEW source, CommitAgents(t, source)
  PROVE  Told(image[i])' /\ Lone(i)'
<1> USE WorkerSets
<1>0. TypeOK /\ Fresh(i) /\ image \in [Images -> Rows]
  BY DEF OrderInv, LoneInv, Lone, LossInv, IInv, TypeOK, RowTypes
<1>1. image[i].status = "ANALYZING" /\ task[t].seen = image[i] /\ image[i] \in Rows
  BY <1>0 DEF Fresh, FreshThread
<1> DEFINE new == Transition(image[i], "COMPLETED")
<1>2. new \in Rows /\ new.status = "COMPLETED" /\ Told(new)
  BY <1>1, TransitionType, TransitionTold, RowsAreSessionRows
<1>3. WriteRow(i, image[i], new) /\ Settled(t)
  BY <1>1 DEF CommitAgents, Missing
<1> HIDE DEF new
<1>4. image'[i] = new
  BY <1>0, <1>2, <1>3, FreshWrite
<1>5. At(t, "ack")' /\ Img(t)' = i
  BY <1>0, <1>3, SettledLeaves
<1>6. FreshThread(t, i)'
  BY <1>5 DEF FreshThread, At
<1>7. Lone(i)'
  BY <1>5, <1>6, ThreadStep DEF At
<1> QED
  BY <1>2, <1>4, <1>7

LEMMA AgentLone ==
  ASSUME OrderInv, UNCHANGED env, NEW t \in AgentThreads, AgentStep(t)
  PROVE  LoneInv'
<1> USE WorkerSets
<1>0. TypeOK /\ LossInv
  BY DEF OrderInv, LossInv, IInv
<1>1. CASE \E i \in Images : AgReceive(t, i)
  BY <1>1, AgentReceiveLone
<1>2. CASE EndStep(t)
  <2>1. Img(t) \in Images
    BY <1>0, <1>2, BusyWorker DEF EndStep, FailLoad, FailWrite, FailSwallow, Ack, At
  <2> QED
    BY <1>2, <2>1, EndLone
<1>3. CASE AgLoad(t) \/ AgNoAnalysis(t) \/ AgStartChain(t) \/ AgFinish(t) \/ AgError(t)
  <2>1. /\ Img(t) \in Images /\ OnlyOn(t) /\ task[t].pc \in {"received", "loaded", "chain"}
        /\ UNCHANGED queues
    BY <1>0, <1>3, BusyWorker, AgentContinues
    DEF AgLoad, AgNoAnalysis, AgStartChain, AgFinish, AgError, At
  <2> SUFFICES ASSUME NEW i \in Images, Img(t) = i PROVE LoneInv'
    BY <2>1
  <2>2. CASE ~Live(i)
    <3>1. image'[i] = image[i]
      BY <1>3, <2>2 DEF AgLoad, AgNoAnalysis, AgStartChain, AgFinish, AgError, CommitAgents,
         rows, Missing, Live
    <3> QED
      BY <2>1, <2>2, <3>1, GoneStep
  <2>3. CASE Live(i)
    <3>0. Alone(i) /\ Fresh(i) /\ Told(image[i])
      BY <2>3 DEF OrderInv, LoneInv, Lone
    <3>1. CASE AgNoAnalysis(t) \/ AgFinish(t)
      <4>1. /\ task[t].pc \in {"loaded", "chain"}
            /\ \E source \in {"agents", "none", analysis[i]} : CommitAgents(t, source)
        BY <3>1 DEF AgNoAnalysis, AgFinish, At
      <4>2. Told(image[i])' /\ Lone(i)'
        BY <2>1, <2>3, <4>1, CommitAgentsLone DEF queues
      <4> QED
        BY <2>1, <4>2, LoneFrame
    <3>2. CASE AgLoad(t) \/ AgStartChain(t) \/ AgError(t)
      <4>1. image' = image
        BY <3>2 DEF AgLoad, AgStartChain, AgError, rows
      <4>2. "agents_crash" \notin env => image[i].status = "ANALYZING"
        <5>1. ThreadOn(t, i) /\ AgentJob(i)
          BY <2>1 DEF ThreadOn, AgentJob, At
        <5> QED
          BY <3>0, <5>1 DEF Alone
      <4>3. Img(t)' = i /\ FreshThread(t, i)'
        <5>1. CASE AgLoad(t)
          <6>1. CASE Settled(t)
            BY <1>0, <6>1, SettledLeaves DEF FreshThread, At
          <6>2. CASE image[i].status = "ANALYZING" /\ Load(t, "loaded")
            BY <1>0, <4>1, <6>2, LoadLeaves DEF FreshThread, At
          <6> QED
            BY <5>1, <6>1, <6>2 DEF AgLoad
        <5>2. CASE AgStartChain(t)
          BY <1>0, <3>0, <4>1, <5>2, GotoLeaves DEF AgStartChain, Fresh, FreshThread, At
        <5>3. CASE AgError(t)
          BY <1>0, <5>3, RaiseLeaves DEF AgError, FreshThread, At
        <5> QED
          BY <3>2, <5>1, <5>2, <5>3
      <4>4. Lone(i)'
        BY <2>1, <2>3, <4>1, <4>2, <4>3, ThreadStep DEF queues, At
      <4>5. Told(image[i])'
        BY <3>0, <4>1
      <4> QED
        BY <2>1, <4>4, <4>5, LoneFrame
    <3> QED
      BY <1>3, <3>1, <3>2
  <2> QED
    BY <2>2, <2>3
<1> QED
  BY <1>1, <1>2, <1>3 DEF AgentStep

-----------------------------------------------------------------------------
(* Requests *)

LEMMA RequestSole ==
  ASSUME OrderInv, NEW r \in Requests, NEW i \in Images, RequestOn(r, i), Live(i)
  PROVE  /\ agentsQ[i] = 0 /\ \A t \in AgentThreads : ~ThreadOn(t, i)
         /\ ~TailOn(i) /\ \A q \in Requests : q = r
         /\ image[i].status \in {"COMPLETED", "ANALYZING"}
         /\ Img(W) = i => task[W].pc \notin {"starting", "detecting", "enqueue", "failing",
                                            "marking", "loaded", "chain"}
         /\ "inference_crash" \notin env =>
              ~InferenceJob(i) /\ ~(Img(W) = i /\ At(W, "received"))
<1>0. Alone(i) /\ Fresh(i) /\ Single(i) /\ OneTaskPerImage /\ agentsQ[i] \in Nat
  BY DEF OrderInv, LoneInv, Lone, LossInv, IInv, TypeOK, QueueTypes
<1>1. /\ ~AgentJob(i) /\ ~TailOn(i) /\ \A q \in Requests : q = r
      /\ image[i].status \in {"COMPLETED", "ANALYZING"}
  BY <1>0 DEF Alone, OneTaskPerImage, Fresh, FreshRequest, RequestOn
<1> QED
  BY <1>0, <1>1 DEF AgentJob, Fresh, FreshW, TailOn, At, Single

\* A step of the request on its image.
LEMMA RequestStepLone ==
  ASSUME OrderInv, UNCHANGED env, NEW r \in Requests, NEW i \in Images,
         UNCHANGED <<task, inferenceQ, pending>>,
         \A q \in Requests \ {r} : request'[q] = request[q],
         \A j \in Images \ {i} : /\ image'[j] = image[j] /\ agentsQ'[j] = agentsQ[j]
                                 /\ ~RequestOn(r, j) /\ ~RequestOn(r, j)',
         Told(image[i])', Lone(i)'
  PROVE  LoneInv'
<1>1. ASSUME NEW j \in Images, j # i PROVE Untouched(j)
  BY <1>1 DEF Untouched
<1> QED
  BY <1>1, UntouchedLone DEF OrderInv, LoneInv

LEMMA RequestLone ==
  ASSUME OrderInv, UNCHANGED env, NEW r \in Requests, RequestStep(r)
  PROVE  LoneInv'
<1>0. /\ TypeOK /\ OneTaskPerImage /\ UNCHANGED <<task, inferenceQ, pending>>
      /\ request \in [Requests -> RequestStates] /\ image \in [Images -> Rows]
      /\ agentsQ \in [Images -> Nat]
      /\ \A i \in Images : Told(image[i]) /\ Lone(i)
  BY DEF OrderInv, LoneInv, LossInv, IInv, TypeOK, RequestTypes, RowTypes, QueueTypes,
     RequestStep, ReqLoad, ReqCommit, ReqPublish, ReqCrash, queues
<1>1. \A q \in Requests \ {r} : request'[q] = request[q]
  BY <1>0 DEF RequestStep, ReqLoad, ReqCommit, ReqPublish, ReqCrash
<1>2. ASSUME NEW i \in Images, ReqLoad(r, i) PROVE LoneInv'
  <2>1. UNCHANGED <<image, agentsQ>> /\ request[r].pc = "ready" /\ "agent_request" \in env
    BY <1>2 DEF ReqLoad, rows, queues
  <2>2. \/ request'[r] = RequestDone
        \/ /\ CanTransition(image[i].status, "ANALYZING")
           /\ request'[r] = [pc |-> "opening", img |-> i, seen |-> image[i]]
    BY <1>0, <1>2 DEF ReqLoad
  <2>3. \A j \in Images : ~RequestOn(r, j)
    BY <2>1 DEF RequestOn
  <2>4. \A j \in Images \ {i} : ~RequestOn(r, j)'
    BY <2>2 DEF RequestOn, RequestDone, NoRequest
  <2>5. /\ \A t \in AgentThreads : ThreadOn(t, i)' <=> ThreadOn(t, i)
        /\ AgentJob(i)' <=> AgentJob(i)
        /\ TailOn(i)' <=> TailOn(i)
        /\ \A q \in Requests \ {r} : RequestOn(q, i)' <=> RequestOn(q, i)
    BY <1>0, <1>1, <2>1 DEF ThreadOn, AgentJob, TailOn, RequestOn, Img, At
  <2>6. Lone(i)'
    <3> SUFFICES ASSUME Live(i) PROVE Lone(i)'
      BY <2>1 DEF Lone, Live
    <3>0. Alone(i) /\ Fresh(i) /\ Single(i)
      BY <1>0 DEF Lone
    <3>1. RequestOn(r, i)' => /\ image[i].status = "COMPLETED" /\ request'[r].seen = image[i]
                              /\ request'[r].pc = "opening" /\ ~TailOn(i) /\ ~AgentJob(i)
      <4> SUFFICES ASSUME RequestOn(r, i)'
                   PROVE  /\ image[i].status = "COMPLETED" /\ request'[r].seen = image[i]
                          /\ request'[r].pc = "opening" /\ ~TailOn(i) /\ ~AgentJob(i)
        OBVIOUS
      <4>1. /\ request'[r] = [pc |-> "opening", img |-> i, seen |-> image[i]]
            /\ CanTransition(image[i].status, "ANALYZING")
        BY <2>2 DEF RequestOn, RequestDone, NoRequest
      <4>2. image[i].status = "COMPLETED"
        <5>1. image[i].status \in RowStatuses
          BY <1>0 DEF Rows
        <5> QED
          BY <4>1, <5>1 DEF CanTransition, ImageStatuses, ALLOWED_TRANSITIONS, RowStatuses
      <4> QED
        BY <1>0, <2>1, <3>0, <4>1, <4>2 DEF Alone, Fresh, FreshW, TailOn, At, OneTaskPerImage
    <3>2. Alone(i)'
      BY <2>1, <2>5, <3>0, <3>1 DEF Alone
    <3>3. Fresh(i)'
      <4>1. FreshW(i)'
        BY <1>0, <2>1, <3>0 DEF Fresh, FreshW, At, Img
      <4>2. \A t \in AgentThreads : FreshThread(t, i)'
        BY <1>0, <2>1, <3>0 DEF Fresh, FreshThread, At, Img
      <4>3. FreshRequest(r, i)'
        BY <2>1, <3>1 DEF FreshRequest, RequestOn
      <4>4. \A q \in Requests \ {r} : FreshRequest(q, i)'
        BY <1>1, <2>1, <3>0 DEF Fresh, FreshRequest
      <4> QED
        BY <4>1, <4>2, <4>3, <4>4 DEF Fresh
    <3>4. Single(i)'
      BY <1>0, <2>1, <3>0 DEF Single, InferenceJob, At, Img
    <3> QED
      BY <3>2, <3>3, <3>4 DEF Lone
  <2> QED
    BY <1>0, <1>1, <2>1, <2>3, <2>4, <2>6, RequestStepLone
<1>3. CASE ReqCommit(r) \/ ReqPublish(r) \/ ReqCrash(r)
  <2>0. request[r].pc \in {"opening", "publishing"} /\ request[r].img \in Images
    BY <1>0, <1>3 DEF ReqCommit, ReqPublish, ReqCrash, TypeOK, RequestTypes
  <2> SUFFICES ASSUME NEW i \in Images, request[r].img = i PROVE LoneInv'
    BY <2>0
  <2>1. RequestOn(r, i)
    BY <2>0 DEF RequestOn
  <2>2. request'[r] = RequestDone \/ request'[r] = [request[r] EXCEPT !.pc = "publishing",
                                                                     !.seen = Row("ABSENT")]
    BY <1>0, <1>3 DEF ReqCommit, ReqPublish, ReqCrash
  <2>3. /\ \A j \in Images \ {i} : ~RequestOn(r, j) /\ ~RequestOn(r, j)'
        /\ RequestOn(r, i)' => request'[r].pc = "publishing"
    BY <1>0, <2>1, <2>2 DEF RequestOn, RequestDone, NoRequest, RequestStates
  \* What the step does to the row and to the queue.
  <2>4. /\ \A j \in Images \ {i} : image'[j] = image[j] /\ agentsQ'[j] = agentsQ[j]
        /\ Told(image[i])'
        /\ ~Live(i) => image'[i] = image[i]
        /\ Live(i) =>
             \/ image'[i] = image[i] /\ agentsQ'[i] = agentsQ[i] /\ ~RequestOn(r, i)'
             \/ image'[i].status = "ANALYZING" /\ agentsQ'[i] = agentsQ[i]
             \/ /\ image'[i] = image[i] /\ image[i].status = "ANALYZING"
                /\ agentsQ'[i] = agentsQ[i] + 1 /\ ~RequestOn(r, i)'
    <3>1. CASE ReqCommit(r)
      <4>1. CASE Missing(i)
        <5>1. UNCHANGED <<image, agentsQ>> /\ request'[r] = RequestDone
          BY <1>0, <3>1, <4>1 DEF ReqCommit, queues
        <5>2. ~RequestOn(r, i)'
          BY <5>1 DEF RequestOn, RequestDone, NoRequest
        <5> QED
          BY <1>0, <5>1, <5>2
      <4>2. CASE ~Missing(i)
        <5> DEFINE new == Transition(image[i], "ANALYZING")
        <5>1. request[r].seen = image[i]
          BY <1>0, <3>1, <4>2 DEF ReqCommit, Missing, Lone, Live, Fresh, FreshRequest
        <5>2. new \in Rows /\ new.status = "ANALYZING" /\ Told(new)
          BY <1>0, TransitionType, TransitionTold, RowsAreSessionRows
        <5>3. WriteRow(i, image[i], new) /\ UNCHANGED agentsQ
          BY <3>1, <4>2, <5>1 DEF ReqCommit, queues
        <5> HIDE DEF new
        <5>4. image' = [image EXCEPT ![i] = new]
          BY <1>0, <5>2, <5>3, FreshWrite
        <5>5. image'[i] = new /\ \A j \in Images \ {i} : image'[j] = image[j]
          BY <1>0, <5>4
        <5>6. Live(i)
          BY <4>2 DEF Missing, Live
        <5> QED
          BY <5>2, <5>3, <5>5, <5>6
      <4> QED
        BY <4>1, <4>2
    <3>2. CASE ReqPublish(r)
      <4>1. /\ UNCHANGED image /\ request'[r] = RequestDone
            /\ PublishAgents(i) \/ UNCHANGED agentsQ
        BY <1>0, <3>2 DEF ReqPublish, rows
      <4>2. ~RequestOn(r, i)'
        BY <4>1 DEF RequestOn, RequestDone, NoRequest
      <4>3. Live(i) => image[i].status = "ANALYZING"
        BY <1>0, <3>2 DEF ReqPublish, Lone, Fresh, FreshRequest
      <4> QED
        BY <1>0, <4>1, <4>2, <4>3 DEF PublishAgents
    <3>3. CASE ReqCrash(r)
      <4>1. UNCHANGED <<image, agentsQ>> /\ request'[r] = RequestDone
        BY <1>0, <3>3 DEF ReqCrash, rows, queues
      <4>2. ~RequestOn(r, i)'
        BY <4>1 DEF RequestOn, RequestDone, NoRequest
      <4> QED
        BY <1>0, <4>1, <4>2
    <3> QED
      BY <1>3, <3>1, <3>2, <3>3
  <2>5. Lone(i)'
    <3>1. CASE ~Live(i)
      BY <2>4, <3>1 DEF Lone, Live
    <3>2. CASE Live(i)
      <4>0. Alone(i) /\ Fresh(i) /\ Single(i)
        BY <1>0, <3>2 DEF Lone
      <4>1. /\ agentsQ[i] = 0 /\ ~TailOn(i) /\ \A q \in Requests : q = r
            /\ \A t \in AgentThreads : ~ThreadOn(t, i)
            /\ Img(W) = i => task[W].pc \notin {"starting", "detecting", "enqueue", "failing",
                                               "marking", "loaded", "chain"}
            /\ "inference_crash" \notin env =>
                 ~InferenceJob(i) /\ ~(Img(W) = i /\ At(W, "received"))
            /\ "agent_request" \in env
        BY <2>1, <3>2, <4>0, RequestSole DEF Alone
      <4>2. /\ \A t \in AgentThreads : ~ThreadOn(t, i)'
            /\ ~TailOn(i)'
            /\ InferenceJob(i)' <=> InferenceJob(i)
        BY <1>0, <4>1 DEF ThreadOn, TailOn, InferenceJob, Img, At
      <4>3. /\ agentsQ'[i] = 0 \/ (agentsQ'[i] = 1 /\ ~RequestOn(r, i)'
                                     /\ image'[i].status = "ANALYZING")
            /\ RequestOn(r, i)' => image'[i].status = "ANALYZING"
        BY <2>4, <3>2, <4>1
      <4>4. Alone(i)'
        <5>1. RequestOn(r, i)' => "agent_request" \in env /\ ~TailOn(i)' /\ ~AgentJob(i)'
          BY <4>1, <4>2, <4>3 DEF AgentJob
        <5> QED
          BY <4>1, <4>2, <4>3, <5>1 DEF Alone, AgentJob
      <4>5. Fresh(i)'
        <5>1. FreshW(i)'
          BY <1>0, <4>1 DEF FreshW, At, Img
        <5>2. \A t \in AgentThreads : FreshThread(t, i)'
          BY <4>2 DEF ThreadOn, FreshThread, At
        <5>3. \A q \in Requests : FreshRequest(q, i)'
          BY <2>3, <4>1, <4>3 DEF FreshRequest, RequestOn
        <5> QED
          BY <5>1, <5>2, <5>3 DEF Fresh
      <4>6. Single(i)'
        BY <1>0, <4>0, <4>1, <4>2 DEF Single, At, Img
      <4> QED
        BY <4>4, <4>5, <4>6 DEF Lone
    <3> QED
      BY <3>1, <3>2
  <2> QED
    BY <1>0, <1>1, <2>3, <2>4, <2>5, RequestStepLone
<1> QED
  BY <1>2, <1>3 DEF RequestStep

-----------------------------------------------------------------------------
(* Ingestion, retention and crashes *)

\* Nobody is at work on a file that has not been ingested.
LEMMA AbsentQuiet ==
  ASSUME OrderInv, NEW i \in Images, image[i].status = "ABSENT"
  PROVE  /\ Live(i) /\ Quiet(i) /\ agentsQ[i] = 0 /\ \A t \in AgentThreads : ~ThreadOn(t, i)
         /\ ~TailOn(i)
         /\ Img(W) = i => task[W].pc \notin {"starting", "detecting", "enqueue", "failing",
                                            "marking", "loaded", "chain"}
         /\ "inference_crash" \notin env =>
              ~InferenceJob(i) /\ (Img(W) = i => At(W, "ack") \/ At(W, "idle"))
<1>0. Live(i) /\ Fresh(i) /\ Single(i) /\ agentsQ[i] \in Nat /\ task[W].pc \in Pcs
  BY WorkerSets
  DEF OrderInv, LoneInv, Lone, Live, LossInv, IInv, TypeOK, QueueTypes, TaskTypes, Tasks
<1>1. ~AgentJob(i)
  BY AgentJobPast DEF Past
<1>2. \A r \in Requests : ~RequestOn(r, i)
  BY <1>0 DEF Fresh, FreshRequest, RequestOn
<1>3. Img(W) = i => task[W].pc \notin {"starting", "detecting", "enqueue", "failing",
                                       "marking", "loaded", "chain"}
  BY <1>0 DEF Fresh, FreshW, At
<1>4. "inference_crash" \notin env => ~InferenceJob(i) /\ ~(Img(W) = i /\ At(W, "received"))
  BY <1>0 DEF Single
<1> QED
  BY <1>0, <1>1, <1>2, <1>3, <1>4 DEF Quiet, AgentJob, TailOn, At, Pcs

LEMMA IngestLone ==
  ASSUME OrderInv, Ingest
  PROVE  LoneInv'
<1>0. /\ UNCHANGED <<inferenceQ, agentsQ, task, request, env>>
      /\ \A i \in Images : Told(image[i]) /\ Lone(i)
      /\ inferenceQ \in [Images -> [0..MaxRetries -> Nat]]
  BY DEF Ingest, queues, OrderInv, LoneInv, LossInv, IInv, TypeOK, QueueTypes
<1>1. PICK good, bad \in SUBSET {i \in Images : image[i].status = "ABSENT"} :
        /\ good \cap bad = {}
        /\ image' = [i \in Images |->
                       IF i \in good THEN Row("QUEUED")
                       ELSE IF i \in bad THEN [Row("FAILED") EXCEPT !.failure_reason = "set"]
                       ELSE image[i]]
        /\ pending' = pending \cup good
  BY DEF Ingest
<1>2. ASSUME NEW i \in Images PROVE Told(image[i])' /\ Lone(i)'
  <2>1. CASE i \notin good \cup bad
    <3>1. Untouched(i)
      BY <1>0, <1>1, <2>1 DEF Untouched
    <3> QED
      BY <1>0, <3>1, UntouchedLone
  <2>2. CASE i \in good \cup bad
    <3>1. image[i].status = "ABSENT"
      BY <1>1, <2>2
    <3>2. /\ image'[i] = IF i \in good THEN Row("QUEUED")
                         ELSE [Row("FAILED") EXCEPT !.failure_reason = "set"]
          /\ image'[i].status = IF i \in good THEN "QUEUED" ELSE "FAILED"
      BY <1>1, <2>2 DEF Row
    <3>3. Told(image[i])'
      BY <3>2 DEF Told, Row, TERMINAL_STATUSES
    <3>4. Quiet(i)' /\ agentsQ'[i] = 0 /\ \A t \in AgentThreads : ~ThreadOn(t, i)'
      BY <1>0, <3>1, AbsentQuiet DEF Quiet, AgentJob, ThreadOn, RequestOn, Img, At
    <3>5. Alone(i)'
      BY <3>4 DEF Alone, Quiet
    <3>6. Fresh(i)'
      <4>1. FreshW(i)'
        BY <1>0, <3>1, AbsentQuiet DEF FreshW, At, Img
      <4>2. \A t \in AgentThreads : FreshThread(t, i)'
        BY <3>4 DEF ThreadOn, FreshThread, At
      <4>3. \A r \in Requests : FreshRequest(r, i)'
        BY <3>4 DEF Quiet, RequestOn, FreshRequest
      <4> QED
        BY <4>1, <4>2, <4>3 DEF Fresh
    <3>7. Single(i)'
      <4> SUFFICES ASSUME "inference_crash" \notin env PROVE Single(i)'
        BY <1>0 DEF Single
      <4>1. /\ ~InferenceJob(i)
            /\ Img(W)' = i => At(W, "ack")' \/ At(W, "idle")'
            /\ Img(W) = NoImage <=> At(W, "idle")
        BY <1>0, <3>1, AbsentQuiet, WorkerSets
        DEF Img, At, OrderInv, LossInv, IInv, TypeOK, TaskTypes
      <4>2. \A n \in 0..MaxRetries : inferenceQ'[i][n] = 0
        <5>1. inferenceQ[i] \in [0..MaxRetries -> Nat] /\ inferenceQ'[i] = inferenceQ[i]
          BY <1>0
        <5>2. \A n \in 0..MaxRetries : inferenceQ[i][n] \in Nat /\ ~(inferenceQ[i][n] > 0)
          BY <4>1, <5>1 DEF InferenceJob
        <5> QED
          BY <5>1, <5>2
      <4>3. i \in pending' => image'[i].status = "QUEUED"
        BY <1>1, <3>2, <4>1 DEF InferenceJob
      <4>4. Img(W)' = i => At(W, "ack")' /\ ~At(W, "received")'
        BY <1>0, <4>1, PipelineAssumption DEF Img, At
      <4> QED
        BY <4>2, <4>3, <4>4 DEF Single, InferenceJob
    <3> QED
      BY <3>3, <3>5, <3>6, <3>7 DEF Lone
  <2> QED
    BY <2>1, <2>2
<1> QED
  BY <1>2 DEF LoneInv

\* What a step leaves alone that touches nothing but the images' run_inference messages.
LEMMA MessagesLone ==
  ASSUME OrderInv, UNCHANGED <<image, agentsQ, task, request, env>>, NEW i \in Images,
         Live(i) => Single(i)'
  PROVE  Told(image[i])' /\ Lone(i)'
<1>0. Told(image[i]) /\ Lone(i)
  BY DEF OrderInv, LoneInv
<1>1. Told(image[i])' /\ (Live(i)' <=> Live(i))
  BY <1>0 DEF Live
<1>2. /\ \A t \in AgentThreads : ThreadOn(t, i)' <=> ThreadOn(t, i)
      /\ AgentJob(i)' <=> AgentJob(i)
      /\ TailOn(i)' <=> TailOn(i)
      /\ \A r \in Requests : RequestOn(r, i)' <=> RequestOn(r, i)
  BY DEF ThreadOn, AgentJob, TailOn, RequestOn, Img, At
<1>3. Alone(i) => Alone(i)'
  BY <1>2 DEF Alone
<1>4. Fresh(i) => Fresh(i)'
  <2>1. FreshW(i) => FreshW(i)'
    BY DEF FreshW, At, Img
  <2>2. \A t \in AgentThreads : FreshThread(t, i) => FreshThread(t, i)'
    BY DEF FreshThread, At, Img
  <2>3. \A r \in Requests : FreshRequest(r, i) => FreshRequest(r, i)'
    BY DEF FreshRequest
  <2> QED
    BY <2>1, <2>2, <2>3 DEF Fresh
<1> QED
  BY <1>0, <1>1, <1>3, <1>4 DEF Lone

LEMMA IngestionLone ==
  ASSUME OrderInv, UNCHANGED env,
         IngestCrash \/ \E i \in Images : EnqueueIngested(i) \/ Purge(i)
  PROVE  LoneInv'
<1>0. /\ inferenceQ \in [Images -> [0..MaxRetries -> Nat]] /\ MaxRetries \in Nat
      /\ image \in [Images -> Rows]
      /\ \A i \in Images : Told(image[i]) /\ Lone(i)
  BY PipelineAssumption DEF OrderInv, LoneInv, LossInv, IInv, TypeOK, QueueTypes, RowTypes
<1>1. CASE IngestCrash
  <2>1. UNCHANGED <<image, agentsQ, task, request, inferenceQ>> /\ pending' = {}
    BY <1>1 DEF IngestCrash, rows, queues
  <2>2. ASSUME NEW i \in Images, Live(i) PROVE Single(i)'
    BY <1>0, <2>1, <2>2 DEF Lone, Single, InferenceJob, Img, At
  <2> QED
    BY <2>1, <2>2, MessagesLone DEF LoneInv
<1>2. ASSUME NEW i \in Images, EnqueueIngested(i) PROVE LoneInv'
  <2>1. /\ UNCHANGED <<image, agentsQ, task, request>>
        /\ i \in pending /\ pending' = pending \ {i}
        /\ PublishInference(i, 0) \/ UNCHANGED inferenceQ
    BY <1>2 DEF EnqueueIngested, rows
  <2>2. ASSUME NEW j \in Images, Live(j) PROVE Single(j)'
    <3>0. Single(j)
      BY <1>0, <2>2 DEF Lone
    <3>1. CASE j # i
      <4>1. inferenceQ'[j] = inferenceQ[j] /\ (j \in pending' <=> j \in pending)
        BY <1>0, <2>1, <3>1 DEF PublishInference
      <4> QED
        BY <2>1, <3>0, <4>1 DEF Single, InferenceJob, Img, At
    <3>2. CASE j = i
      <4> SUFFICES ASSUME "inference_crash" \notin env PROVE Single(i)'
        BY <3>2 DEF Single
      <4>1. /\ \A n \in 0..MaxRetries : inferenceQ[i][n] = 0
            /\ image[i].status \in {"QUEUED", "PROCESSING"}
            /\ ~(Img(W) = i /\ ~At(W, "ack"))
        BY <2>1, <3>0, <3>2 DEF Single, InferenceJob
      <4>2. UNCHANGED inferenceQ \/ inferenceQ'[i] = [inferenceQ[i] EXCEPT ![0] = inferenceQ[i][0] + 1]
        BY <1>0, <2>1 DEF PublishInference
      <4>3. inferenceQ'[i][0] \in {0, 1} /\ \A n \in (0..MaxRetries) \ {0} : inferenceQ'[i][n] = 0
        BY <1>0, <4>1, <4>2
      <4> QED
        BY <2>1, <4>1, <4>3 DEF Single, InferenceJob, Img, At
    <3> QED
      BY <3>1, <3>2
  <2> QED
    BY <2>1, <2>2, MessagesLone DEF LoneInv
<1>3. ASSUME NEW i \in Images, Purge(i) PROVE LoneInv'
  <2>1. /\ image'[i] = Row("PURGED") /\ \A j \in Images \ {i} : image'[j] = image[j]
        /\ UNCHANGED <<inferenceQ, agentsQ, pending, task, request>>
    BY <1>0, <1>3 DEF Purge, queues
  <2>2. Told(image[i])' /\ Lone(i)'
    BY <2>1 DEF Told, Lone, Live, Row
  <2>3. ASSUME NEW j \in Images, j # i PROVE Told(image[j])' /\ Lone(j)'
    <3>1. Untouched(j)
      BY <2>1, <2>3 DEF Untouched
    <3> QED
      BY <1>0, <3>1, UntouchedLone
  <2> QED
    BY <2>2, <2>3 DEF LoneInv
<1> QED
  BY <1>1, <1>2, <1>3

LEMMA InferenceCrashLone ==
  ASSUME OrderInv, UNCHANGED env, InferenceCrash
  PROVE  LoneInv'
<1> USE WorkerSets
<1>0. /\ TypeOK /\ LossInv /\ Img(W) \in Images /\ "inference_crash" \in env
      /\ UNCHANGED <<image, agentsQ, pending, request>>
      /\ inferenceQ \in [Images -> [0..MaxRetries -> Nat]]
  BY BusyWorker DEF OrderInv, LossInv, IInv, TypeOK, QueueTypes, InferenceCrash, rows
<1> SUFFICES ASSUME NEW i \in Images, Img(W) = i PROVE LoneInv'
  BY <1>0
<1>1. OnlyOn(W) /\ At(W, "idle")' /\ Img(W)' = NoImage
  <2>1. At(W, "idle")' /\ OthersWork(W)
    BY <1>0, IdleLeaves DEF InferenceCrash
  <2>2. Img(W)' = NoImage
    BY <1>0 DEF InferenceCrash, TypeOK, TaskTypes, Img, Idle
  <2>3. \A j \in Images \ {i} : inferenceQ'[j] = inferenceQ[j]
    BY <1>0 DEF InferenceCrash, PublishInference
  <2> QED
    BY <1>0, <2>1, <2>2, <2>3 DEF OnlyOn
<1>2. Told(image[i])'
  BY <1>0 DEF OrderInv, LoneInv
<1>3. CASE ~Live(i)
  BY <1>0, <1>1, <1>3, GoneStep
<1>4. CASE Live(i)
  <2>1. FreshW(i)' /\ ~TailOn(i)'
    BY <1>1, PipelineAssumption DEF FreshW, TailOn, At
  <2>2. Single(i)'
    BY <1>0 DEF Single
  <2> QED
    BY <1>0, <1>1, <1>2, <1>4, <2>1, <2>2, WStep, LoneFrame
<1> QED
  BY <1>3, <1>4

LEMMA AgentsCrashLone ==
  ASSUME OrderInv, UNCHANGED env, AgentsCrash
  PROVE  LoneInv'
<1> USE WorkerSets
<1>0. /\ TypeOK /\ OneTaskPerImage /\ "agents_crash" \in env
      /\ UNCHANGED <<image, inferenceQ, pending, request>>
      /\ \A i \in Images : Told(image[i]) /\ Lone(i)
      /\ agentsQ \in [Images -> Nat] /\ W \notin AgentThreads /\ IsFiniteSet(AgentThreads)
  BY PipelineAssumption
  DEF OrderInv, LoneInv, LossInv, IInv, TypeOK, QueueTypes, AgentsCrash, rows, W
<1>1. /\ task'[W] = task[W] /\ Img(W)' = Img(W)
      /\ \A t \in AgentThreads : task'[t] = Idle /\ Img(t)' = NoImage /\ At(t, "idle")'
  BY <1>0 DEF AgentsCrash, Img, Idle, At
<1>2. ASSUME NEW i \in Images, Live(i) PROVE Alone(i)' /\ Fresh(i)' /\ Single(i)'
  <2> DEFINE T == {t \in AgentThreads : Img(t) = i}
  <2>0. Alone(i) /\ Fresh(i) /\ Single(i)
    BY <1>0, <1>2 DEF Lone
  <2>1. /\ agentsQ'[i] = agentsQ[i] + Cardinality(T)
        /\ T = {t \in AgentThreads : ThreadOn(t, i)}
    BY <1>0 DEF AgentsCrash, ThreadOn
  <2>2. \/ T = {} /\ Cardinality(T) = 0
        \/ T # {} /\ Cardinality(T) = 1 /\ agentsQ[i] = 0
    <3>1. CASE T = {}
      BY <3>1, FS_EmptySet
    <3>2. CASE T # {}
      <4>1. PICK t \in AgentThreads : ThreadOn(t, i)
        BY <2>1, <3>2
      <4>2. T = {t} /\ agentsQ[i] = 0
        BY <2>0, <2>1, <4>1 DEF Alone
      <4> QED
        BY <3>2, <4>2, FS_Singleton
    <3> QED
      BY <3>1, <3>2
  <2> HIDE DEF T
  <2>3. /\ agentsQ'[i] <= 1
        /\ agentsQ'[i] > 0 => AgentJob(i)
    BY <1>0, <2>0, <2>1, <2>2 DEF Alone, AgentJob
  <2>4. \A t \in AgentThreads : ~ThreadOn(t, i)'
    BY <1>1, PipelineAssumption DEF ThreadOn
  <2>5. /\ AgentJob(i)' => AgentJob(i)
        /\ TailOn(i)' <=> TailOn(i)
        /\ \A r \in Requests : RequestOn(r, i)' <=> RequestOn(r, i)
    BY <1>0, <1>1, <2>3, <2>4 DEF AgentJob, TailOn, RequestOn
  <2>6. Alone(i)'
    BY <1>0, <2>0, <2>3, <2>4, <2>5 DEF Alone
  <2>7. Fresh(i)'
    <3>1. FreshW(i)'
      BY <1>0, <1>1, <2>0 DEF Fresh, FreshW, At
    <3>2. \A t \in AgentThreads : FreshThread(t, i)'
      BY <1>1, PipelineAssumption DEF FreshThread
    <3>3. \A r \in Requests : FreshRequest(r, i)'
      BY <1>0, <2>0 DEF Fresh, FreshRequest
    <3> QED
      BY <3>1, <3>2, <3>3 DEF Fresh
  <2>8. Single(i)'
    BY <1>0, <1>1, <2>0 DEF Single, InferenceJob, At
  <2> QED
    BY <2>6, <2>7, <2>8
<1>3. \A i \in Images : Told(image[i])' /\ (Live(i)' <=> Live(i))
  BY <1>0 DEF Live
<1> QED
  BY <1>2, <1>3 DEF LoneInv, Lone

-----------------------------------------------------------------------------
LEMMA InitLone == Init /\ OneTaskPerImage => OrderInv
<1> SUFFICES ASSUME Init, OneTaskPerImage PROVE OrderInv
  OBVIOUS
<1> USE WorkerSets
<1>1. \A w \in Workers : task[w] = Idle /\ Img(w) = NoImage /\ NoImage \notin Images
  BY PipelineAssumption DEF Init, Idle, Img
<1>2. ASSUME NEW i \in Images PROVE Told(image[i]) /\ Lone(i)
  <2>1. image[i] = Row("ABSENT") /\ agentsQ[i] = 0 /\ i \notin pending
        /\ \A n \in 0..MaxRetries : inferenceQ[i][n] = 0
    BY DEF Init
  <2>2. \A r \in Requests : request[r].pc = "ready"
    BY DEF Init, NoRequest
  <2>3. Told(image[i])
    BY <2>1 DEF Told, Row
  <2>4. Alone(i)
    BY <1>1, <2>1, <2>2 DEF Alone, ThreadOn, AgentJob, RequestOn
  <2>5. Fresh(i)
    BY <1>1, <2>2 DEF Fresh, FreshW, FreshThread, FreshRequest
  <2>6. Single(i)
    BY <1>1, <2>1 DEF Single, InferenceJob
  <2> QED
    BY <2>3, <2>4, <2>5, <2>6 DEF Lone
<1> QED
  BY <1>2, InitLoss DEF OrderInv, LoneInv

LEMMA NextLone == OrderInv /\ [Next]_vars => OrderInv'
<1> SUFFICES ASSUME OrderInv, [Next]_vars PROVE OrderInv'
  OBVIOUS
<1>0. LossInv' /\ UNCHANGED env /\ OneTaskPerImage'
  BY NextLoss, SameEnv DEF OrderInv, OneTaskPerImage
<1>1. CASE UNCHANGED vars
  <2>1. \A i \in Images : Untouched(i)
    BY <1>1 DEF vars, Untouched
  <2> QED
    BY <1>0, <2>1, UntouchedLone DEF OrderInv, LoneInv
<1>2. CASE Next
  <2>1. LoneInv'
    BY <1>0, <1>2, IngestLone, IngestionLone, InferenceLone, AgentLone, RequestLone,
       InferenceCrashLone, AgentsCrashLone
    DEF Next
  <2> QED
    BY <1>0, <2>1 DEF OrderInv
<1> QED
  BY <1>1, <1>2

\* While no two tasks work on one image, status, reason and timestamp of every row tell the
\* same story (state.py:58-66).
THEOREM RowsAreConsistent == Spec /\ OneTaskPerImage => []RowConsistent
<1>1. OrderInv => RowConsistent
  BY DEF OrderInv, LoneInv, Told, RowConsistent
<1> QED
  BY <1>1, InitLone, NextLone, PTL DEF Spec

-----------------------------------------------------------------------------
(***************************************************************************)
(* Refinement: under the same condition every commit is a step of          *)
(* InspectionLifecycle, and everything else leaves what it shows alone.    *)
(***************************************************************************)

Statuses == [i \in Images |-> image[i].status]

LEMMA OneRowMaps ==
  ASSUME image \in [Images -> Rows], NEW i \in Images, NEW new \in Rows,
         image' = [image EXCEPT ![i] = new]
  PROVE  Statuses' = [Statuses EXCEPT ![i] = new.status]
<1>1. \A j \in Images : image'[j].status = IF j = i THEN new.status ELSE image[j].status
  OBVIOUS
<1> QED
  BY <1>1 DEF Statuses

LEMMA InitMaps == Init => Lifecycle!Init
BY DEF Init, Lifecycle!Init, Row

LEMMA Stutters == UNCHANGED <<image, analysis>> => UNCHANGED Lifecycle!vars
BY DEF Lifecycle!vars

\* The moves of one image, in terms of its row.
LEMMA MoveMaps ==
  ASSUME image \in [Images -> Rows], NEW i \in Images, NEW new \in Rows,
         image' = [image EXCEPT ![i] = new]
  PROVE  /\ new.status = image[i].status /\ UNCHANGED analysis => UNCHANGED Lifecycle!vars
         /\ \A from : image[i].status \in from => Lifecycle!Move(i, from, new.status)
<1>1. Statuses' = [Statuses EXCEPT ![i] = new.status] /\ Statuses[i] = image[i].status
  BY OneRowMaps DEF Statuses
<1>2. new.status = image[i].status => Statuses' = Statuses
  BY <1>1 DEF Statuses
<1> QED
  BY <1>1, <1>2 DEF Lifecycle!Move, Lifecycle!vars, Statuses

LEMMA IngestMaps == Ingest => Lifecycle!Register
<1> SUFFICES ASSUME Ingest PROVE Lifecycle!Register
  OBVIOUS
<1>1. PICK good, bad \in SUBSET {i \in Images : image[i].status = "ABSENT"} :
        /\ good \cap bad = {}
        /\ image' = [i \in Images |->
                       IF i \in good THEN Row("QUEUED")
                       ELSE IF i \in bad THEN [Row("FAILED") EXCEPT !.failure_reason = "set"]
                       ELSE image[i]]
        /\ UNCHANGED analysis
  BY DEF Ingest
<1>2. Statuses' = [i \in Images |-> IF i \in good THEN "QUEUED"
                                    ELSE IF i \in bad THEN "FAILED" ELSE Statuses[i]]
  BY <1>1 DEF Row, Statuses
<1>3. good \in SUBSET {i \in Images : Statuses[i] = "ABSENT"}
      /\ bad \in SUBSET {i \in Images : Statuses[i] = "ABSENT"}
  BY DEF Statuses
<1> QED
  BY <1>1, <1>2, <1>3 DEF Lifecycle!Register, Statuses

LEMMA PurgeMaps ==
  ASSUME TypeOK, NEW i \in Images, Purge(i)
  PROVE  Lifecycle!Purge(i)
<1>1. image \in [Images -> Rows] /\ Row("PURGED") \in Rows /\ Row("PURGED").status = "PURGED"
  BY ConstantTypes DEF TypeOK, RowTypes, Row
<1>2. image' = [image EXCEPT ![i] = Row("PURGED")]
  BY DEF Purge
<1>3. Statuses' = [Statuses EXCEPT ![i] = "PURGED"]
  BY <1>1, <1>2, OneRowMaps
<1> QED
  BY <1>3 DEF Purge, Missing, Lifecycle!Purge, Statuses

\* What the steps of one image come to.
ImageStep(i) ==
  \/ Lifecycle!Begin(i) \/ Lifecycle!FinishClean(i) \/ Lifecycle!Baseline(i)
  \/ Lifecycle!KeepAnalysis(i) \/ Lifecycle!Enrich(i) \/ Lifecycle!Reopen(i)
  \/ Lifecycle!Fail(i) \/ UNCHANGED Lifecycle!vars

LEMMA StartMaps ==
  ASSUME OrderInv, InfStart
  PROVE  \E i \in Images : ImageStep(i)
<1>0. /\ TypeOK /\ image \in [Images -> Rows] /\ Img(W) \in Images
  BY BusyWorker, WorkerSets DEF OrderInv, LossInv, IInv, TypeOK, RowTypes, InfStart, At
<1> SUFFICES ASSUME NEW i \in Images, Img(W) = i PROVE ImageStep(i)
  BY <1>0
<1>1. UNCHANGED analysis
  BY DEF InfStart
<1>2. CASE Missing(i)
  BY <1>1, <1>2, Stutters DEF InfStart, ImageStep
<1>3. CASE ~Missing(i)
  <2>1. task[W].seen = image[i] /\ image[i].status = "QUEUED"
    BY <1>3 DEF OrderInv, LoneInv, Lone, Live, Missing, Fresh, FreshW, InfStart, At
  <2> DEFINE new == Transition(image[i], "PROCESSING")
  <2>2. new \in Rows /\ new.status = "PROCESSING"
    BY <1>0, TransitionType, RowsAreSessionRows
  <2>3. WriteRow(i, image[i], new)
    BY <1>3, <2>1 DEF InfStart
  <2> HIDE DEF new
  <2>4. Lifecycle!Move(i, {"QUEUED"}, "PROCESSING")
    BY <1>0, <2>1, <2>2, <2>3, FreshWrite, MoveMaps
  <2> QED
    BY <1>1, <2>4 DEF ImageStep, Lifecycle!Begin
<1> QED
  BY <1>2, <1>3

LEMMA CommitMaps ==
  ASSUME OrderInv, NEW o \in Outcomes, InfCommit(o)
  PROVE  \E i \in Images : ImageStep(i)
<1>0. /\ TypeOK /\ image \in [Images -> Rows] /\ Img(W) \in Images /\ At(W, "detecting")
      /\ analysis \in [Images -> {"none", "knowledge_base", "agents"}]
  BY BusyWorker, WorkerSets DEF OrderInv, LossInv, IInv, TypeOK, RowTypes, InfCommit, At
<1> SUFFICES ASSUME NEW i \in Images, Img(W) = i PROVE ImageStep(i)
  BY <1>0
<1>1. CASE CommitRefused(o)
  BY <1>1, Stutters DEF InfCommit, rows, ImageStep
<1>2. CASE ~CommitRefused(o)
  <2>1. task[W].seen = image[i] /\ image[i].status = "PROCESSING"
    BY <1>0, <1>2
    DEF OrderInv, LoneInv, Lone, Live, CommitRefused, Missing, Fresh, FreshW, At
  <2> DEFINE new == SettledRow(image[i], o)
  <2>2. new \in Rows /\ new.status = o.to
    BY <1>0, SettledRowType
  <2>3. /\ WriteRow(i, image[i], new)
        /\ analysis' = [analysis EXCEPT ![i] = IF o.baseline = "none" THEN @ ELSE o.baseline]
    BY <1>2, <2>1 DEF InfCommit
  <2> HIDE DEF new
  <2>4. Lifecycle!Move(i, {"PROCESSING"}, o.to)
    BY <1>0, <2>1, <2>2, <2>3, FreshWrite, MoveMaps
  <2>5. CASE o.baseline = "none"
    <3>1. o.to = "COMPLETED" /\ UNCHANGED analysis
      BY <1>0, <2>3, <2>5 DEF Outcomes
    <3> QED
      BY <2>4, <3>1 DEF ImageStep, Lifecycle!FinishClean
  <2>6. CASE o.baseline # "none"
    <3>1. o.baseline = "knowledge_base" /\ o.to \in {"COMPLETED", "ANALYZING"}
      BY <2>6 DEF Outcomes
    <3>2. analysis[i] = "none"
      BY <1>2, <2>6 DEF CommitRefused
    <3>3. analysis' = [analysis EXCEPT ![i] = "knowledge_base"]
      BY <2>3, <3>1
    <3> QED
      BY <2>4, <3>1, <3>2, <3>3 DEF ImageStep, Lifecycle!Baseline
  <2> QED
    BY <2>5, <2>6
<1> QED
  BY <1>1, <1>2

LEMMA CommitAgentsMaps ==
  ASSUME OrderInv, NEW t \in AgentThreads, task[t].pc \in {"loaded", "chain"},
         NEW i \in Images, Img(t) = i, NEW source, CommitAgents(t, source),
         source \in {"agents", analysis[i]}
  PROVE  ImageStep(i)
<1>0. /\ TypeOK /\ image \in [Images -> Rows]
      /\ analysis \in [Images -> {"none", "knowledge_base", "agents"}]
  BY DEF OrderInv, LossInv, IInv, TypeOK, RowTypes
<1>1. CASE Missing(i)
  BY <1>1, Stutters DEF CommitAgents, rows, ImageStep
<1>2. CASE ~Missing(i)
  <2>1. task[t].seen = image[i] /\ image[i].status = "ANALYZING"
    BY <1>2 DEF OrderInv, LoneInv, Lone, Live, Missing, Fresh, FreshThread
  <2> DEFINE new == Transition(image[i], "COMPLETED")
  <2>2. new \in Rows /\ new.status = "COMPLETED"
    BY <1>0, TransitionType, RowsAreSessionRows
  <2>3. WriteRow(i, image[i], new) /\ analysis' = [analysis EXCEPT ![i] = source]
    BY <1>2, <2>1 DEF CommitAgents
  <2> HIDE DEF new
  <2>4. Lifecycle!Move(i, {"ANALYZING"}, "COMPLETED")
    <3>1. image' = [image EXCEPT ![i] = new]
      BY <1>0, <2>2, <2>3, FreshWrite
    <3>2. image[i].status \in {"ANALYZING"}
      BY <2>1
    <3> QED
      BY <1>0, <2>2, <3>1, <3>2, MoveMaps
  <2>5. analysis[i] # "none"
    BY <2>1 DEF OrderInv, LossInv, IInv, RowInv
  <2>6. CASE source = analysis[i]
    <3>1. UNCHANGED analysis
      BY <1>0, <2>3, <2>6
    <3> QED
      BY <2>4, <3>1 DEF ImageStep, Lifecycle!KeepAnalysis
  <2>7. CASE source = "agents"
    BY <2>3, <2>4, <2>5, <2>7 DEF ImageStep, Lifecycle!Enrich
  <2> QED
    BY <2>6, <2>7
<1> QED
  BY <1>1, <1>2

LEMMA FailWriteMaps ==
  ASSUME OrderInv, NEW w \in Workers, FailWrite(w)
  PROVE  \E i \in Images : ImageStep(i)
<1>0. /\ TypeOK /\ image \in [Images -> Rows] /\ Img(w) \in Images /\ UNCHANGED analysis
  BY BusyWorker DEF OrderInv, LossInv, IInv, TypeOK, RowTypes, FailWrite, At
<1> SUFFICES ASSUME NEW i \in Images, Img(w) = i PROVE ImageStep(i)
  BY <1>0
<1>1. CASE Missing(i)
  BY <1>0, <1>1, Stutters DEF FailWrite, ImageStep
<1>2. CASE ~Missing(i)
  <2>1. /\ task[w].seen = image[i]
        /\ image[i].status \in {"QUEUED", "PROCESSING", "ANALYZING", "FAILED"}
    BY <1>2 DEF OrderInv, LoneInv, Lone, Live, Missing, Fresh, FreshW, FreshThread, FailWrite,
       At, Workers, W
  <2> DEFINE new == MarkFailed(image[i])
  <2>2. new \in Rows /\ new.status = "FAILED"
    BY <1>0, MarkFailedType
  <2>3. WriteRow(i, image[i], new)
    BY <1>2, <2>1 DEF FailWrite
  <2> HIDE DEF new
  <2>4. image' = [image EXCEPT ![i] = new]
    BY <1>0, <2>2, <2>3, FreshWrite
  <2>5. CASE image[i].status = "FAILED"
    BY <1>0, <2>2, <2>4, <2>5, MoveMaps DEF ImageStep
  <2>6. CASE image[i].status # "FAILED"
    <3>1. Lifecycle!Move(i, {"QUEUED", "PROCESSING", "ANALYZING"}, "FAILED")
      BY <1>0, <2>1, <2>2, <2>4, <2>6, MoveMaps
    <3> QED
      BY <1>0, <3>1 DEF ImageStep, Lifecycle!Fail
  <2> QED
    BY <2>5, <2>6
<1> QED
  BY <1>1, <1>2

LEMMA ReqCommitMaps ==
  ASSUME OrderInv, NEW r \in Requests, ReqCommit(r)
  PROVE  \E i \in Images : ImageStep(i)
<1>0. /\ TypeOK /\ image \in [Images -> Rows] /\ request[r].img \in Images
      /\ request[r].pc = "opening" /\ UNCHANGED analysis
  BY DEF OrderInv, LossInv, IInv, TypeOK, RowTypes, RequestTypes, ReqCommit
<1> SUFFICES ASSUME NEW i \in Images, request[r].img = i PROVE ImageStep(i)
  BY <1>0
<1>1. CASE Missing(i)
  BY <1>0, <1>1, Stutters DEF ReqCommit, ImageStep
<1>2. CASE ~Missing(i)
  <2>1. request[r].seen = image[i] /\ image[i].status = "COMPLETED"
    BY <1>0, <1>2 DEF OrderInv, LoneInv, Lone, Live, Missing, Fresh, FreshRequest
  <2> DEFINE new == Transition(image[i], "ANALYZING")
  <2>2. new \in Rows /\ new.status = "ANALYZING"
    BY <1>0, TransitionType, RowsAreSessionRows
  <2>3. WriteRow(i, image[i], new)
    BY <1>2, <2>1 DEF ReqCommit
  <2> HIDE DEF new
  <2>4. Lifecycle!Move(i, {"COMPLETED"}, "ANALYZING")
    BY <1>0, <2>1, <2>2, <2>3, FreshWrite, MoveMaps
  <2>5. analysis[i] # "none"
    BY <1>0, <1>2 DEF OrderInv, LossInv, IInv, RequestInv, Analyzed, Missing
  <2> QED
    BY <1>0, <2>4, <2>5 DEF ImageStep, Lifecycle!Reopen
<1> QED
  BY <1>1, <1>2

LEMMA ImageStepMaps ==
  ASSUME NEW i \in Images, ImageStep(i)
  PROVE  [Lifecycle!Next]_(Lifecycle!vars)
BY DEF ImageStep, Lifecycle!Next

LEMMA NextMaps == OrderInv /\ [Next]_vars => [Lifecycle!Next]_(Lifecycle!vars)
<1> SUFFICES ASSUME OrderInv, [Next]_vars PROVE [Lifecycle!Next]_(Lifecycle!vars)
  OBVIOUS
<1> USE WorkerSets
<1>0. TypeOK
  BY DEF OrderInv, LossInv, IInv
<1>1. CASE UNCHANGED vars
  BY <1>1, Stutters DEF vars
<1>2. CASE Ingest
  BY <1>2, IngestMaps DEF Lifecycle!Next
<1>3. ASSUME NEW i \in Images, EnqueueIngested(i) \/ Purge(i)
      PROVE  [Lifecycle!Next]_(Lifecycle!vars)
  BY <1>0, <1>3, PurgeMaps, Stutters DEF EnqueueIngested, rows, Lifecycle!Next
<1>4. CASE IngestCrash \/ InferenceCrash \/ AgentsCrash
  BY <1>4, Stutters DEF IngestCrash, InferenceCrash, AgentsCrash, rows
<1>5. ASSUME NEW w \in Workers, EndStep(w) PROVE [Lifecycle!Next]_(Lifecycle!vars)
  <2>1. FailWrite(w) \/ UNCHANGED rows
    BY <1>5 DEF EndStep, FailLoad, FailSwallow, Ack
  <2> QED
    BY <2>1, FailWriteMaps, ImageStepMaps, Stutters DEF rows
<1>6. CASE InferenceStep
  <2>1. InfStart \/ (\E o \in Outcomes : InfCommit(o)) \/ EndStep(W) \/ UNCHANGED rows
    BY <1>6 DEF InferenceStep, InfReceive, InfLoad, InfTransient, InfError, InfEnqueueAgents
  <2> QED
    BY <1>5, <2>1, StartMaps, CommitMaps, ImageStepMaps, Stutters DEF rows
<1>7. ASSUME NEW t \in AgentThreads, AgentStep(t) PROVE [Lifecycle!Next]_(Lifecycle!vars)
  <2>1. AgNoAnalysis(t) \/ AgFinish(t) \/ EndStep(t) \/ UNCHANGED rows
    BY <1>7 DEF AgentStep, AgReceive, AgLoad, AgStartChain, AgError
  <2>2. CASE AgNoAnalysis(t) \/ AgFinish(t)
    <3>1. /\ task[t].pc \in {"loaded", "chain"}
          /\ \E source \in {"agents", analysis[Img(t)]} : CommitAgents(t, source)
      BY <2>2 DEF AgNoAnalysis, AgFinish, At
    <3>2. Img(t) \in Images
      BY <1>0, <3>1, BusyWorker DEF At
    <3> QED
      BY <3>1, <3>2, CommitAgentsMaps, ImageStepMaps
  <2> QED
    BY <1>5, <2>1, <2>2, Stutters DEF rows
<1>8. ASSUME NEW r \in Requests, RequestStep(r) PROVE [Lifecycle!Next]_(Lifecycle!vars)
  <2>1. ReqCommit(r) \/ UNCHANGED rows
    BY <1>8 DEF RequestStep, ReqLoad, ReqPublish, ReqCrash
  <2> QED
    BY <2>1, ReqCommitMaps, ImageStepMaps, Stutters DEF rows
<1> QED
  BY <1>1, <1>2, <1>3, <1>4, <1>6, <1>7, <1>8 DEF Next

\* While no two tasks work on one image, Pipeline implements the life cycle of its rows.
THEOREM RowsFollowLifecycle == Spec /\ OneTaskPerImage => ImplementsLifecycle
BY InitLone, NextLone, InitMaps, NextMaps, PTL DEF Spec, ImplementsLifecycle, Lifecycle!Spec
=============================================================================
