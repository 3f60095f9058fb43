--------------------------- MODULE ModelRegistry ----------------------------
(***************************************************************************)
(* Model versions: registration, golden-set evaluation, activation, and    *)
(* the model the inference worker has in memory.                           *)
(*                                                                         *)
(* Code: backend/app/settings/models_service.py, settings/models_router.py,*)
(* tasks/models.py, inference/model.py, models/model_version.py.           *)
(*                                                                         *)
(* Activation requests run side by side in the API, each in a READ         *)
(* COMMITTED transaction that reads twice before it writes; the evaluation *)
(* and the reload run one at a time in the inference worker.  They write   *)
(* different columns of the row, so none overwrites the other's.  A        *)
(* transaction's writes take effect when it commits; two that update the   *)
(* same row wait for each other, which decides no more than their order.   *)
(***************************************************************************)
EXTENDS Naturals, FiniteSets

CONSTANTS
  Versions,      \* ModelVersion rows
  Seed,          \* the version that db/seed.py installs as active
  NoVersion,     \* None
  Activations,   \* POST /settings/models/{id}/activate calls; each is made once
  MaxCrashes,    \* bound on the number of worker crashes
  Environments   \* the combinations of disturbances to consider

Disturbances ==
  {"inference_crash",  \* the inference worker is killed
   "api_crash",        \* the API process is killed, or a request is cancelled
   "broker",           \* a publish raises and the message is not in the queue
   "weights",          \* the active version or its weights cannot be read
   "error"}            \* a database error in the evaluation task

ASSUME RegistryAssumption ==
  /\ Seed \in Versions
  /\ NoVersion \notin Versions
  /\ MaxCrashes \in Nat
  /\ Environments \subseteq SUBSET Disturbances

VARIABLES
  version,      \* [Versions -> row]
  overridden,   \* versions with an audit entry "model.activated" that carries an override
  registering,  \* registered versions whose run_model_evaluation.delay is still to come
  evaluations,  \* [Versions -> Nat]: run_model_evaluation messages
  reloads,      \* reload_inference_model messages
  worker,       \* what the inference worker is doing
  loaded,       \* inference.model._loaded of the worker process
  activation,   \* what each activation request is doing
  crashes,      \* worker crashes so far
  env           \* the disturbances that may happen in this behaviour

vars == <<version, overridden, registering, evaluations, reloads, worker, loaded, activation,
          crashes, env>>
queues == <<registering, evaluations, reloads>>

\* Metrics are abstracted to whether mAP@50 is below MAP50_FLOOR; a row without metrics
\* counts as below.
VersionRows ==
  [evaluation_status : {"ABSENT", "PENDING", "RUNNING", "COMPLETED", "FAILED"},
   metrics : {"none", "below", "meets"},
   is_active : {"yes", "no"}]

Active(v) == version[v].is_active = "yes"

\* `select(ModelVersion).where(is_active)`, as the database has it now.
ActiveVersion ==
  IF \E v \in Versions : Active(v) THEN CHOOSE v \in Versions : Active(v) ELSE NoVersion

-----------------------------------------------------------------------------
(* Registration: the row is committed, then its evaluation is enqueued. *)

Register(v) ==
  /\ version[v].evaluation_status = "ABSENT"
  /\ version' = [version EXCEPT ![v].evaluation_status = "PENDING"]
  /\ registering' = registering \cup {v}
  /\ UNCHANGED <<overridden, evaluations, reloads, worker, loaded, activation, crashes, env>>

PublishEvaluation(v) ==
  /\ v \in registering
  /\ registering' = registering \ {v}
  /\ \/ evaluations' = [evaluations EXCEPT ![v] = @ + 1]
     \/ env \cap {"broker", "api_crash"} # {} /\ UNCHANGED evaluations
  /\ UNCHANGED <<version, overridden, reloads, worker, loaded, activation, crashes, env>>

-----------------------------------------------------------------------------
(* The inference worker.  A worker is at rest, has a version's weights under evaluation, has
   read the active version and is loading its weights, or is done with a message that it has
   not acknowledged. *)

Rest == [pc |-> "idle", message |-> "none", version |-> NoVersion]
WorkerStates ==
  [pc : {"idle", "evaluating", "loading", "ack"}, message : {"none", "evaluate", "reload"},
   version : Versions \cup {NoVersion}]

Done == worker' = [worker EXCEPT !.pc = "ack"]

\* run_model_evaluation commits RUNNING before it evaluates, whatever the status was.
EvStart(v) ==
  /\ worker.pc = "idle"
  /\ evaluations[v] > 0
  /\ evaluations' = [evaluations EXCEPT ![v] = @ - 1]
  /\ worker' = [pc |-> "evaluating", message |-> "evaluate", version |-> v]
  /\ version' = [version EXCEPT ![v].evaluation_status = "RUNNING"]
  /\ UNCHANGED <<overridden, registering, reloads, loaded, activation, crashes, env>>

\* The candidate is loaded beside the production model, and only its metrics are kept.
EvComplete ==
  /\ worker.pc = "evaluating"
  /\ \E m \in {"below", "meets"} :
       version' = [version EXCEPT ![worker.version].evaluation_status = "COMPLETED",
                                  ![worker.version].metrics = m]
  /\ Done
  /\ UNCHANGED <<overridden, queues, loaded, activation, crashes, env>>

\* A mutant of EvFail: the exception of a bad golden set or bad weights leaves the task.
EvFailUncaught ==
  /\ worker.pc = "evaluating"
  /\ Done
  /\ UNCHANGED <<version, overridden, queues, loaded, activation, crashes, env>>

EvFail ==
  /\ worker.pc = "evaluating"
  /\ version' = [version EXCEPT ![worker.version].evaluation_status = "FAILED"]
  /\ Done
  /\ UNCHANGED <<overridden, queues, loaded, activation, crashes, env>>

\* The task is no PipelineTask: an exception outside its try is final.  One that comes before
\* the first commit leaves the row as it is, a later one leaves RUNNING behind.
EvUnstarted(v) ==
  /\ "error" \in env
  /\ worker.pc = "idle"
  /\ evaluations[v] > 0
  /\ evaluations' = [evaluations EXCEPT ![v] = @ - 1]
  /\ worker' = [pc |-> "ack", message |-> "evaluate", version |-> v]
  /\ UNCHANGED <<version, overridden, registering, reloads, loaded, activation, crashes, env>>

EvError ==
  /\ "error" \in env
  /\ worker.pc = "evaluating"
  /\ Done
  /\ UNCHANGED <<version, overridden, queues, loaded, activation, crashes, env>>

\* A mutant of ReloadStart: the cache is not reset, so ensure_model_loaded returns it.
ReloadStartCached ==
  /\ worker.pc = "idle"
  /\ reloads > 0
  /\ reloads' = reloads - 1
  /\ worker' = [pc |-> IF loaded = NoVersion THEN "loading" ELSE "ack", message |-> "reload",
                version |-> ActiveVersion]
  /\ UNCHANGED <<version, overridden, registering, evaluations, loaded, activation, crashes, env>>

\* reload_active_model forgets the model and reads which version is active.
ReloadStart ==
  /\ worker.pc = "idle"
  /\ reloads > 0
  /\ reloads' = reloads - 1
  /\ loaded' = NoVersion
  /\ worker' = [pc |-> "loading", message |-> "reload", version |-> ActiveVersion]
  /\ UNCHANGED <<version, overridden, registering, evaluations, activation, crashes, env>>

\* ensure_model_loaded at boot or in a run_inference task that finds nothing loaded.
LoadStart ==
  /\ worker.pc = "idle"
  /\ loaded = NoVersion
  /\ worker' = [pc |-> "loading", message |-> "none", version |-> ActiveVersion]
  /\ UNCHANGED <<version, overridden, queues, loaded, activation, crashes, env>>

LoadFinish ==
  /\ worker.pc = "loading"
  /\ worker.version # NoVersion
  /\ loaded' = worker.version
  /\ Done
  /\ UNCHANGED <<version, overridden, queues, activation, crashes, env>>

\* No active version, or weights that cannot be read: nothing is loaded, and a reload is not
\* tried again (the next run_inference will load).
LoadFail ==
  /\ worker.pc = "loading"
  /\ worker.version = NoVersion \/ "weights" \in env
  /\ Done
  /\ UNCHANGED <<version, overridden, queues, loaded, activation, crashes, env>>

Ack ==
  /\ worker.pc = "ack"
  /\ worker' = Rest
  /\ UNCHANGED <<version, overridden, queues, loaded, activation, crashes, env>>

\* The process dies with its model; the message it had returns to the queue.
InferenceCrash ==
  /\ "inference_crash" \in env
  /\ crashes < MaxCrashes
  /\ crashes' = crashes + 1
  /\ evaluations' = IF worker.message = "evaluate"
                    THEN [evaluations EXCEPT ![worker.version] = @ + 1] ELSE evaluations
  /\ reloads' = IF worker.message = "reload" THEN reloads + 1 ELSE reloads
  /\ worker' = Rest
  /\ loaded' = NoVersion
  /\ UNCHANGED <<version, overridden, registering, activation, env>>

-----------------------------------------------------------------------------
(* Activation *)

NoActivation == [pc |-> "ready", version |-> NoVersion, override |-> "no", active |-> "no",
                 previous |-> NoVersion]
ActivationDone == [NoActivation EXCEPT !.pc = "done"]
ActivationStates ==
  [pc : {"ready", "gated", "picked", "publishing", "done"}, version : Versions \cup {NoVersion},
   override : {"no", "yes"}, active : {"yes", "no"}, previous : Versions \cup {NoVersion}]

\* A mutant of Admitted: a version that has metrics may be activated again after a failed
\* evaluation.
AdmittedByMetrics(row, justified) ==
  /\ row.evaluation_status \in {"COMPLETED", "FAILED"}
  /\ row.metrics = "meets" \/ justified

\* The gate: the evaluation is COMPLETED and mAP@50 reaches the floor, unless the operator
\* overrides it with a justification.
Admitted(row, justified) ==
  /\ row.evaluation_status = "COMPLETED"
  /\ row.metrics = "meets" \/ justified

\* The row is read and judged; is_active is remembered as it was.
ActGate(a, v) ==
  /\ activation[a].pc = "ready"
  /\ version[v].evaluation_status # "ABSENT"
  /\ \E justified \in BOOLEAN :
       activation' = [activation EXCEPT ![a] =
         IF Admitted(version[v], justified)
         THEN [NoActivation EXCEPT
                 !.pc = "gated", !.version = v, !.active = version[v].is_active,
                 !.override = IF justified /\ version[v].metrics # "meets" THEN "yes" ELSE "no"]
         ELSE ActivationDone]
  /\ UNCHANGED <<version, overridden, queues, worker, loaded, crashes, env>>

\* The second SELECT, of the version that is active by now.
ActPick(a) ==
  /\ activation[a].pc = "gated"
  /\ activation' = [activation EXCEPT ![a].pc = "picked", ![a].previous = ActiveVersion]
  /\ UNCHANGED <<version, overridden, queues, worker, loaded, crashes, env>>

\* What the transaction's UPDATEs make of the rows: the previous version is deactivated, and
\* the column of the new one is written only if it was not "yes" when the row was read.
Swapped(a) ==
  [v \in Versions |->
     [version[v] EXCEPT !.is_active =
        IF v = activation[a].version
        THEN IF activation[a].active = "yes" THEN @ ELSE "yes"
        ELSE IF v = activation[a].previous THEN "no" ELSE @]]

\* A mutant of Conflict: the index is not unique.
NoConflict(rows) == FALSE

\* The partial unique index on is_active.
Conflict(rows) ==
  \E v, w \in Versions : v # w /\ rows[v].is_active = "yes" /\ rows[w].is_active = "yes"

\* Swap, audit entry and commit; the index turns a loser away.
ActCommit(a) ==
  /\ activation[a].pc = "picked"
  /\ IF Conflict(Swapped(a))
     THEN /\ activation' = [activation EXCEPT ![a] = ActivationDone]
          /\ UNCHANGED <<version, overridden>>
     ELSE /\ version' = Swapped(a)
          /\ overridden' = IF activation[a].override = "yes"
                           THEN overridden \cup {activation[a].version} ELSE overridden
          /\ activation' = [activation EXCEPT ![a].pc = "publishing"]
  /\ UNCHANGED <<queues, worker, loaded, crashes, env>>

\* reload_inference_model.delay follows the commit.
ActPublish(a) ==
  /\ activation[a].pc = "publishing"
  /\ \/ reloads' = reloads + 1
     \/ env \cap {"broker", "api_crash"} # {} /\ UNCHANGED reloads
  /\ activation' = [activation EXCEPT ![a] = ActivationDone]
  /\ UNCHANGED <<version, overridden, registering, evaluations, worker, loaded, crashes, env>>

\* A transaction that does not commit leaves nothing.
ActCrash(a) ==
  /\ "api_crash" \in env
  /\ activation[a].pc \in {"gated", "picked"}
  /\ activation' = [activation EXCEPT ![a] = ActivationDone]
  /\ UNCHANGED <<version, overridden, queues, worker, loaded, crashes, env>>

-----------------------------------------------------------------------------
Init ==
  /\ version = [v \in Versions |->
                  IF v = Seed
                  THEN [evaluation_status |-> "COMPLETED", metrics |-> "meets", is_active |-> "yes"]
                  ELSE [evaluation_status |-> "ABSENT", metrics |-> "none", is_active |-> "no"]]
  /\ overridden = {}
  /\ registering = {}
  /\ evaluations = [v \in Versions |-> 0]
  /\ reloads = 0
  /\ worker = Rest
  /\ loaded = NoVersion
  /\ activation = [a \in Activations |-> NoActivation]
  /\ crashes = 0
  /\ env \in Environments

WorkerStep ==
  \/ \E v \in Versions : EvStart(v) \/ EvUnstarted(v)
  \/ EvComplete \/ EvFail \/ EvError
  \/ ReloadStart \/ LoadStart \/ LoadFinish \/ LoadFail
  \/ Ack

ActivationStep(a) ==
  \/ \E v \in Versions : ActGate(a, v)
  \/ ActPick(a) \/ ActCommit(a) \/ ActPublish(a) \/ ActCrash(a)

Next ==
  \/ \E v \in Versions : Register(v) \/ PublishEvaluation(v)
  \/ WorkerStep
  \/ InferenceCrash
  \/ \E a \in Activations : ActivationStep(a)

Spec == Init /\ [][Next]_vars

\* The worker keeps consuming and, the queue being first in first out, comes to every
\* message; a request that committed goes on to publish.
Fairness ==
  /\ WF_vars(WorkerStep)
  /\ \A v \in Versions : SF_vars(EvStart(v) \/ EvUnstarted(v)) /\ WF_vars(PublishEvaluation(v))
  /\ SF_vars(ReloadStart)
  /\ \A a \in Activations : WF_vars(ActPick(a) \/ ActCommit(a) \/ ActPublish(a))

FairSpec == Spec /\ Fairness

-----------------------------------------------------------------------------
(* Properties *)

\* Types, and that the unique index leaves no two versions active (RN-02).
TypeOK ==
  /\ version \in [Versions -> VersionRows]
  /\ \A v, w \in Versions : Active(v) /\ Active(w) => v = w
  /\ overridden \in SUBSET Versions
  /\ registering \in SUBSET Versions
  /\ evaluations \in [Versions -> Nat]
  /\ reloads \in Nat
  /\ worker \in WorkerStates
  /\ worker.message = "evaluate" => worker.version \in Versions
  /\ worker.pc = "evaluating" => worker.message = "evaluate"
  /\ loaded \in Versions \cup {NoVersion}
  /\ activation \in [Activations -> ActivationStates]
  /\ \A a \in Activations :
       activation[a].pc \in {"gated", "picked", "publishing"} => activation[a].version \in Versions
  /\ crashes \in 0..MaxCrashes
  /\ env \in Environments

\* A reload message is in the queue, or the request that will send it has committed.
ReloadDue == reloads > 0 \/ \E a \in Activations : activation[a].pc = "publishing"

\* No-downtime switch (FR-12): unless a publish is lost, a worker that holds another model
\* than the active one has a reload coming, however loads, activations and crashes interleave
\* (reload_active_model and activate_model: a load may read a version that is replaced
\* before its weights are in memory).
WorkerNotStale ==
  env \cap {"broker", "api_crash"} = {}
    => (loaded # NoVersion /\ ~Active(loaded) => ReloadDue)

\* Activation gate (NFR-05, RN-10): a version in production has completed its evaluation, and
\* reaches the floor or was overridden in the audit log, although activate_model_version
\* judges a row that it writes two statements later.  (A redelivered evaluation reopens the
\* row of a version that is already active, so crashes of the worker are left out.)
GateHolds ==
  "inference_crash" \notin env
    => \A v \in Versions : Active(v) =>
         /\ version[v].evaluation_status = "COMPLETED"
         /\ version[v].metrics = "meets" \/ v \in overridden

\* A registered version is evaluated or reported FAILED in the end (run_model_evaluation),
\* even if the worker dies in the middle, as long as its message gets published and the
\* database answers.
EvaluationSettles ==
  \A v \in Versions :
    env \cap {"error", "broker", "api_crash"} = {} /\ version[v].evaluation_status = "PENDING"
      ~> version[v].evaluation_status \in {"COMPLETED", "FAILED"}

\* A swap replaces the active version by another (activate_model_version: "Swaps `is_active`
\* old->new within this same transaction"): once there is an active version, there is one.
SomeVersionActive == \E v \in Versions : Active(v)
=============================================================================
