# PCB-Inspect in TLA+

PCB-Inspect takes photographs of circuit boards from a watched directory, detects defects with
a YOLO model, writes an analysis for each image that has some, and may let a chain of LLM agents
enrich that analysis. This directory models how its parts work together: what is committed when,
what is read before and written after, and what happens when a process dies or a call fails in
between. TLC checks the models on small instances; TLAPS proves their safety properties for
every instance.

Paths below are relative to `src/backend/app/` unless they start with `src/`.

## 1. The system

Five processes share a PostgreSQL database and a Redis broker (`src/docker-compose.yml`):

| process | runs | concurrency |
|---|---|---|
| `api` | FastAPI handlers | many at once, interleaving at every `await` |
| `worker-inference` | `run_inference`, `run_model_evaluation`, `reload_inference_model` | `--pool=solo`: one task at a time |
| `worker-agents` | `run_agent_analysis` | four threads |
| `worker-housekeeping` | `poll_watch_root` (every 5 s), `evaluate_thresholds` (5 min), `purge_expired` (daily), reports, exports | solo |
| `beat` | publishes the periodic tasks | one |

Transactions are READ COMMITTED, no row is locked, no version column exists: a session reads,
works, and its UPDATE writes the columns it changed. Celery acknowledges late and re-queues the
message of a killed worker (`tasks/celery_app.py`), so every task may run again from its start.

### Components

| component | state it keeps | operations | interacts with | what is hard | what makes it correct |
|---|---|---|---|---|---|
| status state machine (`inspections/state.py`) | `InspectionImage.status`, `failure_reason`, `processed_at` | `transition`, `mark_failed` | called by every stage | stale callers | the three columns tell the same story; only allowed transitions are seen |
| pipeline tasks (`tasks/pipeline.py`, `tasks/base.py`) | messages, a session per task | `run_inference`, `run_agent_analysis`, `on_failure`, retries | database, broker, model, agents | crashes and redelivery between two commits, overlapping tasks, failures that fail | detections once, a baseline before the agents, no image stranded |
| inference (`inference/`) | loaded model (process global), Detection rows, annotated files | `process_image`, `ensure_model_loaded`, `reload_active_model` | pipeline, registry | transient errors, stale model | every Detection names the model that made it |
| analyses (`analyses/`) | `Analysis` (one per image), `AnalysisReview` | baseline, review | pipeline, agents, operator | an enriched analysis keeps the old review status | one analysis, never degraded |
| agents (`agents/`) | none (a loop of LLM calls) | `run_chain`, `evaluate_trigger` | LLM, pipeline | bounded review loop, malformed answers | ends after the allowed attempts, approved results only |
| inspections API (`inspections/`) | disposition, manual detections | agent request, disposition, annotation, delete | pipeline | check, then act after an `await` | re-opens only completed images with an analysis |
| ingestion (`ingestion/`, `tasks/ingestion.py`) | `Batch`, `Board`, `InspectionImage` | scan, import, poll | pipeline, retention | concurrent scans, a check with no unique constraint behind it | one row per file, one per checksum in a batch |
| model registry (`settings/models_*`, `tasks/models.py`) | `ModelVersion` | register, evaluate, activate, reload | inference worker | redelivered evaluation, concurrent activations, lost reload | one active version, with a completed evaluation; the worker follows it |
| settings (`settings/service.py`) | `SystemConfig` | patch | all | a cleared value passes every validator | readers cope with what is stored |
| alerts (`alerts/`) | `Alert` | evaluate, acknowledge | detections, operator | re-arm rule against a concurrent acknowledge | one open alert per cause |
| retention (`retention/`) | deletes | preview, purge | everything that holds a row | rows in use, files that stay under the watch root | never an original file, nothing inside its window |
| reports, dataset exports | `Report`, `DatasetExport`, files | request, generate | housekeeping worker | publish fails, redelivery, purge meanwhile | every enqueued request ends COMPLETED or FAILED; what reads COMPLETED can be downloaded |
| statistics (`stats/`) | Redis cache, TTL 60 s | read, invalidate | pipeline | set after invalidate | never stale for longer than the TTL |
| events (`events/`), frontend stream | none / connection, timers | publish, subscribe, reconnect | browser | lost events, reconnect storms | the client catches up |
| chat (`chat/`) | `ChatSession`, `ChatMessage` | ask, tool loop | LLM | failure between two messages, overlapping turns, bounded loop | the question survives, and is answered once |
| accounts (`auth/`, `users/`) | `User` | set up, log in, create, deactivate | operator | two requests at once | never without an active account |
| audit (`audit/`) | `AuditLog` | append | inside callers' transactions | - | the log agrees with the rows |
| launcher (`src/launcher/core`) | phase of the start sequence | start, stop, poll health | docker compose | time-outs, cancel | ends READY or with an error |
| batches, knowledge base, core | - | queries, constants, probes | - | - | - |

`PROJECT.json` lists the hazards at the lines where they bite, with the properties that would
catch them.

## 2. Modules

| module | models | uses |
|---|---|---|
| `ImageStatus` | the state machine as functions on a row | - |
| `InspectionLifecycle` | abstract specification: the life of an image as a reader of the database sees it | - |
| `Pipeline` | ingestion's commit and enqueue, both workers, retries, `on_failure`, redelivery, agent requests, retention | `ImageStatus`; implements `InspectionLifecycle` |
| `MCPipeline` | environments and symmetry for TLC | `Pipeline` |
| `PipelineProofs` | theorems about `Pipeline`, the refinement of `InspectionLifecycle` included | `Pipeline`, TLAPS |
| `ModelRegistry` | registration, golden-set evaluation, activation, the model the worker has loaded | - |
| `MCModelRegistry` | environments and symmetry for TLC | `ModelRegistry` |
| `Ingestion` | scans of the watch root: which files get rows | - |
| `MCIngestion` | files, boards and environments for TLC | `Ingestion` |
| `IngestionProofs` | theorems about `Ingestion` | `Ingestion`, TLAPS |
| `ModelRegistryProofs` | theorems about `ModelRegistry` | `ModelRegistry`, TLAPS |
| `Alerts`, `AlertsProofs` | the poll of the defect rates, and acknowledgements | - |
| `Accounts`, `AccountsProofs` | set-up, creation, renaming, removal, sign-in with lockout | - |
| `AgentChain` | trigger policy, baseline, overlapping chains with their Analyst/Reviewer loop and Summarizer | details `Pipeline`'s `AgFinish` |
| `Chat` | turns of a chat session, with their tool calls | - |
| `Feedback`, `FeedbackProofs` | reviews, dispositions, annotations and their audit entries | - |
| `Housekeeping`, `HousekeepingProofs` | generation of reports and exports, their purge, the retention override | - |
| `Dashboard` | aggregates computed by several statements, and their cache; a batch's severity | - |
| `GoldenSet` | matching of predictions with boxes, average precision | details what `ModelRegistry` calls "reaches the floor" |
| `EventStream` | a completion's way to the browser: cache, pub/sub, event stream, refetch | - |
| `Launcher` | the start sequence, its polling and deadline | - |
| `Services` | one instance of each of the ten above (`Alerts` to `Launcher`), and one of `ModelRegistry`; `part` says whose behaviour it is | all of them |
| `MCServices` | values of its constants for TLC | `Services` |
| `ServicesProofs` | theorems about `Services`: those of the modules of proofs above carried over, and the proofs about the services that have no such module | `Services`, TLAPS |

### Pipeline

State: `image` holds the three columns of each row, with `ABSENT` before ingestion and `PURGED`
after retention as statuses of their own; `detections` counts the passes that stored Detection
rows (more than one is the bug to exclude), `analysis` is `Analysis.source`. `inferenceQ` and
`agentsQ` are bags of messages (by image and, for inference, by retry count). `task` says for
each worker which message it holds, where in the task it is and which row its session read.

| code | actions |
|---|---|
| `scan_directory`, `import_files`: commit of the rows | `Ingest` |
| `_enqueue_ingested` | `EnqueueIngested`, `IngestCrash` |
| `_run_inference_async`: read, first commit, work, second commit, publish | `InfReceive`, `InfLoad`, `InfStart`, `InfTransient`/`InfError`, `InfCommit`, `InfEnqueueAgents` |
| `_run_agent_analysis_async`: read, no analysis, chain, commit | `AgReceive`, `AgLoad`, `AgNoAnalysis`, `AgStartChain`, `AgFinish`, `AgError` |
| `PipelineTask.on_failure`, `_mark_failed_async` | `FailLoad`, `FailWrite`, `FailSwallow` |
| late acknowledgement, `reject_on_worker_lost` | `Ack`, `InferenceCrash`, `AgentsCrash` |
| `request_agent_analysis` | `ReqLoad`, `ReqCommit`, `ReqPublish`, `ReqCrash` |
| `execute_purge` | `Purge` |

A session's write is `Flush`: the columns that differ from what the session read are written,
the others keep what the database has by then. That is what SQLAlchemy's unit of work does, and
what makes one of the findings possible. An UPDATE that finds no row (the image was purged)
raises, as `StaleDataError` does.

What may go wrong is a set of `Disturbances`; a behaviour is given one of the sets in the constant
`Environments`. Properties that hold only under some of them say so in terms of `env`, so the
proviso is visible where the property is stated.

Abstracted: which detections there are (only whether one is reportable and what the policy
decides), the contents of an analysis (only its source), the LLM chain (it ends with a result or
without one), events and cache invalidation (best-effort, after the commit, they change nothing
here).

### ModelRegistry

State: `version` holds a row per model version (evaluation status, whether mAP@50 reaches the
floor, `is_active`), `overridden` the versions whose activation was logged with an override,
`evaluations` and `reloads` the messages of the two tasks, `loaded` the process-global model of
the inference worker, `worker` what that worker is doing, `activation` the state of each request's
transaction. It shares no variable with `Pipeline`: of `run_inference` only the load of a missing
model matters here (`LoadStart`), and what the model detects does not matter there.

| code | actions |
|---|---|
| `register_model`: commit, then publish | `Register`, `PublishEvaluation` |
| `run_model_evaluation`: RUNNING, golden set, COMPLETED or FAILED | `EvStart`, `EvComplete`, `EvFail`; `EvUnstarted`, `EvError` for exceptions outside the `try` |
| `reload_active_model`, `ensure_model_loaded`, warm start | `ReloadStart`, `LoadStart`, `LoadFinish`, `LoadFail` |
| `activate_model_version`: gate, second SELECT, swap and commit | `ActGate`, `ActPick`, `ActCommit`, `ActCrash` |
| `activate_model`: publish of the reload | `ActPublish` |
| late acknowledgement | `Ack`, `InferenceCrash` |

The two SELECTs of an activation are separate actions because READ COMMITTED lets another
activation commit between them. `Swapped` writes `is_active` only where the session's copy
changes, as the ORM does; `Conflict` is the partial unique index. It alone keeps a second version from
becoming active: neither SELECT locks a row.

### Ingestion

State: `file` is the watch root as it is on disk, `rows` and `keys` the committed image rows and
batch and board rows, `scan` each scan's transaction: what it has listed, where it is, what it has
inserted. `Pipeline` starts where this module ends, with rows that are QUEUED or FAILED.

| code | actions |
|---|---|
| `scan_directory`: list the files, at the end commit | `Start`, `Commit` |
| `_is_known_path` | `KnownPath` |
| `_get_or_create_batch`, `_get_or_create_board`: SELECT, INSERT | `FindKey`, `InsertKey`, `BreakDeadlock` |
| `sha256_checksum`, `read_image_metadata` | `Checksum`, `Metadata` |
| `_find_duplicate_in_batch` | `Duplicate` |
| `execute_purge` | `Purge` |
| a process that dies, a request that is cancelled | `Crash` |
| outside: the camera, whoever moves files | `Camera` |

Each SELECT is an action of its own, since other scans commit in between. The file is looked at
twice, as in the code. An INSERT of a key another open transaction holds waits for it
(`WaitsFor`). Whether a complete file is an image depends on its content, so a copy of a bad file
is bad.

### Alerts

State: per scope (a batch, or the window) the sequence of its `quality_alert` rows; the poll's
transaction with what it has measured and staged; each acknowledgement's read. Images are counted,
not named.

| code | actions |
|---|---|
| `_batch_defect_rates`, `_window_defect_rate` | `MeasureBatches`, `CountWindow`, `EvaluateWindow` |
| `_evaluate_scope` | `EvaluateScope`, in `EvaluateBatch` and `EvaluateWindow` |
| commit of the poll; its worker dies | `CommitPoll`, `MonitorCrash` |
| `acknowledge_alert` | `ReadAlert`, `Acknowledge` |
| outside: the pipeline, annotations, the window moving on | `CompleteImage`, `AnnotateImage`, `ImageLeavesWindow` |

### Accounts

State: `user` rows, and for each request under way what it will write given what it has read.
`Begin...` is everything up to the first write (authentication included), `Commit...` the write,
with the UNIQUE constraint on the e-mail as the only check the database makes.

| code | actions |
|---|---|
| `create_initial_account`, `create_user` | `BeginSetup`, `BeginCreate`, `CommitAccount` |
| `update_user`, `deactivate_user` | `BeginRename`, `CommitRename`, `BeginDeactivate`, `CommitDeactivate` |
| `authenticate`, `_lockout_seconds` | `BeginLogin`, `CommitFailure`, `CommitLogin`; `ClockTick` |

### AgentChain

State: the reported detections on the board; for each task its place, the Analysis row and the
detections it has read, the attempts left and the draft; whether the status is ANALYZING; the
Analysis row. A finding is a detection and a severity, and the model may answer anything:
detections that do not exist, several findings for one, none for another. A draft that
`_validate_coverage` refuses is one of the ways a chain ends in `Abort`.

Two tasks of one image may overlap, as in `Pipeline`: `TakeTask` looks at the status, `LoadAnalysis`
reads the row later, and another task may commit in between or afterwards. `Summarize` writes what
the session writes, the columns in which its result differs from what it had read (`Written`); so
one chain may leave `severity_max` and another `per_defect`. `torn` records, for the property only,
that the last task to write met a row it had not read.

| code | actions |
|---|---|
| `create_baseline_analysis`, `evaluate_trigger` | `Detect` |
| `_run_agent_analysis_async`: status, row, policy and detections | `TakeTask`, `LoadAnalysis`, `StartChain` |
| `run_chain`, `_draft_until_approved`, `_validate_coverage` | `Draft`, `Approve`, `Reject`, `Abort` |
| `run_summarizer`, and the commit of `_run_agent_analysis_async` | `Summarize`; `Degrade` without a result |
| `request_agent_analysis`, `annotate_detection` | `RequestChain`, `Annotate` |
| a worker that is killed | `Dies` |

### Chat

State: the session's messages, and for each turn its place, its completions so far and the tool
calls left of the last one. Of a tool it matters whether calling it can raise.

| code | actions |
|---|---|
| `get_owned_session`, `append_user_message` | `Open`, `Ask` |
| `run_turn`, `execute_tool` | `Prepare`, `Complete`, `RunTool`, `Exhaust` |
| `append_assistant_message` | `Answer` |
| the client leaves, `delete_session` | `Leave`, `DeleteSession` |

### Feedback

State: what each row shows (an analysis, a detection, a disposition), its audit entries in commit
order, what each request has read. The four operations are one scheme in the code, so they are
one in the model: `BeginReview`, `BeginDisposition`, `BeginAnnotation` read; `CommitUpdate`,
`CommitInsert`, `CommitFails`, `CommitEntryOnly` are what the flush may come to, depending on what
others have committed since and on whether the value differs; `PurgeInspection` is retention.
They are not alike in what they tell the audit log: the review of a detection and a disposition
record the value they replace, the review of an analysis records its comment and an annotation what
was drawn. `Entry` says so (`Unrecorded`), and `AuditTellsPrevious` is about the entries that record
a value. Who has decided is a column that the model leaves out; where it matters, since another
operator's same decision is an UPDATE and fails on a purged row, `CommitFails` has the case.

### Housekeeping

State: report and export rows, their files (none, partial, whole), the queue and the task at hand
of the solo worker, the retention that applies: the override, the base setting where the override is
unset or null, or "" (`Cleared`), which is neither. Files are not transactional.

| code | actions |
|---|---|
| `create_report`, `create_dataset_export`: commit, publish | `RequestDocument`, `EnqueueDocument` |
| `generate_report`, `generate_dataset_export` | `StartGenerating`/`StartForNothing`, `OpenFile`, `WriteFile`, `CommitCompleted`, `GenerationFails` |
| `execute_purge`, `_remove_derived_file`, `_retention_days` | `StartPurge`, `PurgeCannotStart`, `RemoveDerivedFile`, `RemovalFails`, `CommitPurge` |
| `update_config`, beat, redelivery | `SetRetention`, `DayPasses`, `EndTask`, `WorkerDies` |

### Dashboard

State: the images with their defects, the cached answer and the time it has left, what each request
has read so far. Each SELECT of a request is an action (`ReadOverview`, `ReadDefectCounts`,
`ReadBoardsWithDefects`). Of the cache are `CheckCache`, whose hit leaves the key its time,
`SetCached`, which gives it its full time again, `InvalidateStats` and `Tick`. `Severity` is
`severity_from_defect_counts`, in integers.

### GoldenSet

State: what every prediction so far was matched with, for each IoU threshold. `Match` is one turn of
the loop of `_class_ap_at_iou`, `AveragePrecision` is `_average_precision`, in integers.

### EventStream

State: how far each task has come after its commit, the cached answer, the stream and what it
carries, what the dashboard shows and waits for, the API's requests. `excused` records for whom
something was lost (Redis down, a break of the stream, an answer stored after an invalidation):
the code promises best effort, and the property is about everybody else.

| code | actions |
|---|---|
| the end of a task: commit, `invalidate_all`, `publish_event` | `CompleteImage`, `InvalidateStats`, `PublishEvent` |
| `stream_events`, `_event_stream`, `connectLoop` | `Connect`, `Subscribe`, `Drop` |
| `get_summary`, `get_cached`, `set_cached` | `CheckCache`, `ComputeSummary`, `SetCached`, `Reply`, `Expire` |
| `handleRawEvent`, mounting, focus | `HandleEvent`, `Refetch` |

### Launcher

State: the startup thread's `LauncherState`, what the splash shows, the time since the deadline
was set, the sleep or request under way, and for how long the stack has been healthy.

| code | actions |
|---|---|
| `start_stack` | `CheckRuntime`, `ComposeUp`, `PollOk`, `PollNotOk`, `GiveUp`, `Sleep`, `PollAgain` |
| `retry_startup`, `stop_stack` | `Retry`, `StopStack` |
| outside: time, the stack's health | `Tick`, `HealthChanges` |

### Services

The ten services, and the registry's evaluations, do not change what another one reads, so nothing
is to be learnt from their product: every behaviour is of one `part`, while the variables of the
others rest. Instances share no variable; where two modules have one of the same name, the INSTANCE
renames it. A service with a module of proofs is instantiated from that module, so that its theorems can
be used of `Services`. Where services do meet on a row (an annotation that the chain, the alerts and the
dashboard each count), each module has the others' step as an action of its own.

## 3. Runs

All runs finish within three minutes with two workers.

| run | instance | question | result |
|---|---|---|---|
| `orderly` | 2 images, 2 threads, 1 request, 3 retries, 2 crashes | are the rows consistent, and do they follow `InspectionLifecycle`, while no two tasks overlap on an image? | yes (1 175 328 states up to symmetry) |
| `chaotic` | 1 image, 2 threads, 2 requests, 3 retries, 1 crash, every disturbance | what survives overlapping tasks? | detections once, baseline first, nothing stranded by a crash, agents' results kept (356 610 states) |
| `fair` | 2 images, 1 thread, 1 request, 2 retries, 1 crash | does every image come to rest? | yes, under the fairness below |
| `stranded_analysis` | 1 image, 1 crash of the inference worker | is `run_agent_analysis` always enqueued? | no: finding |
| `stale_reason` | 1 image, 2 requests, tasks that fail | does leaving a terminal status always clear the reason? | no: finding |
| `unrecorded_failure` | 1 image, one exception without a message | is a failed task's image always FAILED? | no: finding |
| `registry` | 3 versions, 2 activations, 2 crashes | is the active version unique and admitted, and does the worker follow it? | yes (1 071 028 states up to symmetry) |
| `no_active_version` | 2 versions, 2 activations | does a swap leave an active version? | no: finding |
| `watching` | 3 files, 2 boards, 2 contents, the poll and 1 request, 1 crash | are the rows unique and true, and is every valid file ingested? | yes (121 975 states) |
| `services` | see below | is what the services show, store and remove right, whatever interleaves? | yes (697 387 states of the ten services together, up to symmetry) |
| `services_settle` | see below | is an excess alerted, a turn answered, a document generated, a stale answer dropped, an evaluation ended? | yes, under the fairness below (80 708 states) |
| `bad_file` | as `watching`, files that cannot be read | can a bad file stop the others? | yes: finding |

**Bounds.** `MaxRetries` is the code's 3 in the safety runs. One image is enough for overlaps,
since tasks of different images share no row; two images are there for what they do share, the
queues and the solo worker. Two threads and two requests are what an overlap needs: the four
threads of the deployment add more of the same pairs. Two crashes let a redelivered message be
interrupted again. In `registry` three versions are the active one and two that
compete for its place, so that an activation can find another active version than the one it
read; two activations are what such a race needs. `watching` has the
fewest files with which two share a board, two a content, and one is no image; the poll comes back
for ever, so one request besides it is enough for every overlap of two. `orderly` has the four
largest sets of disturbances that satisfy `OneTaskPerImage`, because the row's consistency is known to fail
when tasks overlap (`stale_reason` shows how); `chaotic` has all of them at once.

The instances of `services` (`Services.cfg` gives the constants, `MCServices` those that a `.cfg`
cannot write) have what the hazard of each needs:
`Alerts` one batch and the window, two images (rates of 0, half and all, against 50 %), one
acknowledgement and one crash, with any number of polls; `Accounts` two accounts, two e-mails and
two requests at a time, which is what every race takes, a lock after the first failure and one of
twice its length, with any number of requests; `AgentChain` one found detection and one drawn, two
severities, two findings in a draft (so one may be missing, doubled or unknown), two attempts, two
tasks at a time (interchangeable, hence the symmetry), any number of requests and deaths; `Chat` two turns,
two completions of one call each, with all disturbances or only a model that is down; `Feedback` an
analysis, a disposition and a drawn detection, two requests at a time, three entries in all;
`Housekeeping` two documents, one of them under the watch root, a retention of one day or "",
one crash, documents two days old; `Dashboard` two boards, classes of the least and the greatest
weight, one drawn defect, one request at a time, an answer kept for one tick; `GoldenSet` two boxes, four predictions with any
overlaps of four ranks, two thresholds; `EventStream` two images, two requests (one may be
abandoned while the next is on its way), one break of the stream; `Launcher` a timeout of four
units, polls of three, requests of two, so that a deadline falls before, in and after a request.
`services_settle` has one document and one board, but two requests for the dashboard and two ticks
for its answers: a stale one is stored after another, and asked for again before its time is over.
Deadlock is not checked: a service whose bounds
are used up rests.

**Fairness** (`fair`, `services_settle`, `watching`, `bad_file`). A worker that can step does, and a process that committed goes on to
publish. The code justifies this by late acknowledgement and by consumers that loop for ever; it
also needs dead containers to be started again. `src/docker-compose.yml` has no `restart:` entry
(the requirements, `src/pcb-inspect-product-requirements-document.md:522`, speak of automatic
restart), so that part is an assumption on whoever operates the launcher. No fault, request or
file is ever owed, and the broker is assumed to keep its messages.

In `services_settle` the inference worker comes to every evaluation message (strong fairness of taking
it): the queue is first in, first out, so loads and reloads cannot keep it waiting for ever. In
the runs of `Ingestion` the poll starts again and again, as beat sends it every five seconds, and
an open transaction goes on; one that waits for a key is served when the holder ends (strong
fairness of `InsertKey`, PostgreSQL wakes the waiting session), or a request could lose every
deadlock to the next poll. No request is owed.

The other services of `services_settle` ask for little: beat keeps sending polls of the alerts and
the worker runs them (`Poll`); a turn of the chat goes on, since every call of the model has a
timeout, unless the client leaves or the session is deleted (`Work`); the housekeeping worker never
rests while it has a task and is started again when it dies (`Progress`: which task it takes is
left open); time passes for a cached answer (`Tick`), and Redis drops it when its time is over; that
it ever is, is not assumed, it is what `StaleAnswersEnd` says: a hit does not renew the key, and while
an answer is there only the requests already under way can store another. No operator owes anything.

Deadlock is checked where the poll runs for ever (`watching`, `bad_file`). It is not in the
others: when all images are at rest and all requests are made, the system stops.

### Findings

* `stranded_analysis` — `tasks/pipeline.py:138` publishes after, and outside, the transaction that
  commits ANALYZING; a worker killed in between leaves the image there, because the redelivered
  task takes ANALYZING for work already done. The endpoint then refuses to help (409).
* `stale_reason` — the ORM writes changed columns only, so the `None` that `transition` assigns is
  not written by a session that never saw the reason: COMPLETED with a failure reason.
* `unrecorded_failure` — `mark_failed` rejects an empty reason, and `str(exc)` is empty for an
  exception without arguments; `on_failure` swallows the rejection.
* `no_active_version` — `settings/models_service.py:88` and `:116` read twice. Re-activating the
  active version while another activation commits in between deactivates the other and writes
  nothing for its own, whose copy says it is active already. The API answers `is_active: true`,
  the audit log agrees, and inference stops for want of an active version.
* `bad_file` — `ingestion/service.py:117` reads the file outside the `try`; one file that raises
  `OSError` rolls back every scan of the directory, while the module's docstring promises that one
  bad file cannot stop the rest.

Divergences noted while reading, without a run: the requirements promise "maximum 3 attempts"
(line 169), the code makes four executions (`max_retries = 3` counts retries); `mark_failed`'s
comment says that COMPLETED has no outgoing transitions, it has one; FAILED -> QUEUED is in the
table but no caller uses it, and the path check makes a second scan skip a FAILED file; an
overlapping chain may replace the analysis of an image that is already COMPLETED; when two chains
overlap, the one that commits last may find its `severity_max` to be the one it had read and leave
that column to the other, so that the row has the findings of one chain and the worst severity of
the other (`tasks/pipeline.py:232`-`241`; `AnalysisFitsBoard` says for which rows the severity is that
of the findings, and TLC reaches the others); an on-demand request whose publish fails, or whose
process dies before it, leaves the image ANALYZING as `stranded_analysis` does, and the next request
is refused (`inspections/router.py:205`); a publish that fails after the ingestion's commit is logged
and skipped, and no later scan takes the QUEUED row up (`ingestion/service.py:176`;
`InferenceNeverLost` and `AnalysisNeverLost` have publishes that succeed in their premises); a
redelivered
evaluation sets RUNNING or FAILED on a version that is in production by then (`GateHolds` leaves
crashes of the worker out for that reason); a lost publish of `reload_inference_model` leaves the
worker on the old model until it restarts (`WorkerNotStale` says so in its premise); a
registration whose publish fails stays PENDING, and no endpoint evaluates it again although
`tasks/models.py:59` speaks of an operator who re-triggers. RN-04 rests on two SELECTs:
`NoDuplicates` fails as soon as its premise `"concurrent" \notin env` is dropped (a scan looks the
path up, the other commits, the first finds the board and inserts the file again). A file that is
seen half-written is FAILED for good, or QUEUED with the checksum of a fragment
(`RowsMatchFiles` has in its premise that files are complete when first seen). One that vanishes
between the two reads is FAILED as well, and a copy of it is then taken for its duplicate. The path
of a purged image is unknown again, so the next poll ingests the file anew.

In the services: "at least one local account must remain" (`users/service.py:113`) fails when two
removals overlap, `AccountRemains` says so in its premise; the check "to close the race between two
concurrent first-run setup requests" (`auth/service.py:28`) does not close it, both get an account.
An e-mail of a removed account passes `_email_taken` and breaks the constraint: 500. Overlapping
failed sign-ins lose counts (`LockoutProgresses` leaves them out). `review_status` "only reflects the
latest action" (`analyses/service.py:96`); of two that overlap it may be the one the history lists
first, since an unchanged value is not written. Duplicate findings pass `_validate_coverage`, which
compares sets. A tool's exception escapes the turn (`chat/agent.py:119`) and the question goes
unanswered; the question is in the prompt twice (`chat/agent.py:94`-`106`). A comment of
`settings/config_schema.py:121`-`124` says of the retention overrides that "unset (None/"") falls back to
`retention_days`"; None does, "" is taken for a number and stops every purge
(`retention/service.py:42`-`43`). A ZIP of a FAILED export has no row naming it and stays for ever.
`stats/cache.py:51`-`55` promises that the refetch an event triggers is not answered stale; a
computation that overlaps the invalidation stores the older answer after it, for up to a minute.
`events/publisher.py:4`-`6` counts on polling as a fallback, but no query of the frontend has a
`refetchInterval`, and nothing is fetched again after a reconnection. In the launcher a retry
without a project directory shows "Retrying" for good (`lib.rs:134`-`149`), docker commands have no
timeout, and stopping the stack during a startup ends as "did not become healthy".

## 4. Proofs

Every invariant and every safety property of steps that a passing run checks is also a theorem,
for all values of the constants that satisfy the module's assumption; so is the refinement of
`InspectionLifecycle`. An assumption is a definition of the module it is about, and TLC evaluates
it in the runs (`ServicesAssumption` collects those of the services). Each invariant was checked by
TLC on the instance of a run before it was proved.

### Pipeline

`PipelineProofs` holds for every finite set of agent threads, any sets of images and requests, any
bounds on retries and crashes and every environment (`PipelineAssumption`). Each part builds on the
invariant of the one before.

* `TypeCorrect`: `TypeOK` is inductive. It says more than types: no row is committed as DETECTED, a
  worker without an image is idle, a request that is under way has one.
* `DetectionsOnceHolds` and `BaselineFirstHolds`. Neither is inductive: whether a commit may store
  detections depends on what the worker's session read. `IInv` adds what such old reads are still
  worth. An image is *past* its detections when it is ANALYZING, COMPLETED, FAILED or PURGED. Only
  the inference worker touches a row that is not (`InferenceInv`: while it starts or detects, the
  row is as it read it, or purged); everyone else, every message to the agents and every request
  included, holds rows that are past (`AgentInv`, `QueueInv`, `RequestInv`); nothing ever takes an
  image back (`Forward`). `LeavesWork` is the other half: the others' commits do not reach the
  row the inference worker is on.
* `AgentsResultAlwaysKept`, the action property, from the types: the commit of a baseline is refused
  where there is an analysis, and that of the agents writes their result or what is there already.
* `InferenceIsNeverLost` and `AnalysisIsNeverLost` ("while publishes succeed and failures can be
  recorded, somebody is still to take the image further"). Whoever is to do so must be able to:
  `LossInv` adds that a worker about to record a failure has a row it will mark and a message to
  write. A step of a worker concerns the image it holds and leaves the others to whoever had them
  (`LossFrame`); for its own image it either goes on, publishes, or records.
* `RowsAreConsistent` and `RowsFollowLifecycle`, under `OneTaskPerImage`. `OrderInv` says that whoever acts
  on an image acts alone (`Alone`, `Single`) and that a session that may still write has the row as
  the database has it (`Fresh`); then a flush writes what `transition` returned, column by column.
  Refinement: every commit maps to a step of `InspectionLifecycle` and every other step to a
  stutter, step by step of `Next`. `OneTaskPerImage` is not assumed for convenience: `stale_reason` violates
  `RowConsistent` without it, and its clauses name what brings two tasks to one image (a publish
  that raises after the message was queued, a redelivered task that raises on finding its work
  done, two requests, an agent thread that dies beside a request).

### Ingestion

`IngestionProofs` holds for any finite set of files, any boards, batches, contents, requests and
crashes (`IngestionAssumption`: files are numbered in the order of their paths, boards are no
batches). `TypeCorrect` includes the foreign keys. `NoDuplicatesAlone` and `RowsMatch` need what a
transaction carries from one statement to the next: `Fits` says, of the state of a scan, that the
keys it found are there, that the path it looked up is still new and the checksum still without a
twin while it is alone, and that file and checksum agree where files are complete when they are
first seen. A step changes one scan, so it keeps the invariant if the state it leads to fits
(`BecomesFits`). A purge or a crash takes rows away but leaves every batch and board that a row needs.

### ModelRegistry

`ModelRegistryProofs` holds for any sets of versions and activations, any bound on crashes and
every environment (`RegistryAssumption`):

* `TypeCorrect`: `TypeOK` is inductive, at most one active version included (the step that needs
  an argument is `ActCommit`, by `Conflict`).
* `WorkerNotStaleHolds`: a load reads the active version and finishes later, so `FollowInv`
  promises the same for the version being loaded. Most steps keep it because they change no
  `is_active`, let no due reload disappear and take up no version (`Following`); the others set
  `loaded` to none, read a version that is active at that moment, or leave a reload due.
* `GateHoldsAlways`: the gate judges a row that is written two statements later. `GateInv` says
  that an evaluation is in one place at a time (request, queue or worker) and gone once the row is
  COMPLETED, so what was admitted stays as it was; `EvaluationFrame` covers the steps that move an
  evaluation, `GateFrame` those that leave the rows alone.

### Services

A behaviour of `Services` is, seen by one service, a behaviour of its own: a step is one of that
service or leaves its variables alone. That is a lemma for each (`AlertsRuns`, `ChatRuns`, ...), and it
carries the theorems of the modules below over to the names that the run `services` checks.

`AlertsProofs` (any batches, threshold, acknowledgements, crashes; the window is no batch).
`AlertsInvariant` is `TypeOK` and `OneAlertAtATime`; `NoAlertStormHolds` is the action property.
Neither follows from the rows alone: a poll decides from rows that acknowledgements change before
it commits. `PollInv` says that what it has decided still stands then, because an acknowledgement
only ever closes, and that it decides on a scope once; `ClearedInv` that a row reads cleared only
after a measurement under the threshold.

`AccountsProofs` (any finite set of accounts, some e-mail, any requests, attempts and durations).
`EmailsIdentify` needs that a removal is of a row that exists (`TargetsExist`) and the constraint;
`AnAccountRemains` needs `RemovalIsSafe`: while no two removals overlap, the account that a removal
has counted on is still active when it commits, as the other steps remove nobody. `LocksProgress`:
`LockInv` says that sign-ins which do not overlap know the row's count and that the last lock is no
longer than the one the present count stands for; a count that is higher by one stands for a lock
that is no shorter (`LongerLocks`), because the power of two grows and the cap is one for all.

`FeedbackProofs` (any rows and overlapping requests; rows of different kinds are different rows).
`RowsShowALatestFeedback` and `AuditAlwaysTellsPrevious` look back at what a request read before
others committed, the second for the entries that record a previous value (of detections and
dispositions, not of analyses). `ReadStands` says that what it read was a latest feedback of the entries there
were; `WriteStands` that, if the row shows something else by now, a latest feedback committed since
says so. `RowAfterCommit` is the argument: a commit that leaves the row alone, because its decision
is the value it read, does not hide the feedback that the row shows.

`HousekeepingProofs` (any documents, ages, overrides, crashes; a purge is no document).
`CompletedStaysWhole` and `PurgeNeverLeavesAFile` rest on `WorkInv`, what rows and files say of each
other at each place of the worker: the task at hand is in the queue, its document exists while it
is generated, the file is whole once written and accounted for when the task ends.

In `ServicesProofs` itself, for any values of the constants in `ServicesAssumption`:

* `AnalysisAlwaysFitsBoard` holds for any number of tasks that overlap. It compares the analysis with
  the board as it is; a chain works on what it has read at its start. `ChainFits` relates the two:
  meanwhile the board gains drawn detections only, and a draft past the Analyst has passed
  `_validate_coverage`. So whoever writes last names the reported detections, and findings that are
  not written were those in the row, or another chain's, which name them as well. The severity
  follows where the row is what the task had read; elsewhere the theorem makes no promise, nor does
  the code.
* `LauncherGivesUpFairly`: what is left of a sleep or a request bounds how late the next look at the
  deadline is; a request that has met an unhealthy stack bounds for how long it has been healthy.
* `ConversationStaysIntact`: the rows of a turn are counted by their positions, none before the
  question is stored, one of the question then, one of the answer when the turn is done.
* `CompletionsAreShown`: nothing is missing from the cache that it was invalidated for, nothing from
  an answer on its way when no announcement is, nothing from the view when neither is; except for
  what something was lost of (`KeptIsCurrent`, `AnswerIsCurrent`, `ViewIsCurrent`).
* `SkewStaysBounded`: the images that are complete and did not arrive since a request counted are no
  more than it counted (`Kept`).
* `SeveritiesFollow`: one board more changes two sums over the classes and two counts of boards. The
  sum of the model is defined by recursion over sets; `SumsDefined` shows that it has its equation
  in every finite set, and from there that it is natural, monotone, additive and scales. Which band
  a score lies in is then a comparison of products (`OneMoreClean`, `OneMoreDefective`).
* `ScoresAreAveragePrecision`: the code's three loops (precision so far, its envelope from the right,
  the area under it) compute the mean over the boxes of the best precision at which each is
  recalled. `EnvelopeIsHighest` says what the second loop has after each turn, `AreaSoFar` what the third has.
* `StricterScoresAreLower`: each threshold matches anew, so a stricter one may match other boxes.
  `GoldenInv` says that what it has matched so far a laxer one has as well (`MatchStricter`), which
  bounds each precision, hence each best one.
* `TypeCorrect`: the variables of all ten; the attempts a chain has left, and that a cached answer
  has time left exactly while it is there (`CacheClock`), among them.

Some of these go over the natural numbers or over finite sets. The library's induction theorems
take an operator as a parameter, so the proofs use least counterexamples instead (`HasLeast` from
the well-foundedness of `<`, `LeastSet` from that of the cardinality), and for a function defined by recursion
they show first that tables of its first values exist and agree (`TablesExist`, `TotalsExist`,
`SumsExist`); no definition is taken on trust.

Only model-checked: the liveness properties (`InferenceSettles`, `EveryImageSettles`,
`EveryFileIngested`, and those of `services_settle`), since fairness and ENABLED are out of the
prover's reach. The five runs that expect a violation show counterexamples, which need no proof.

## 5. Plan

Everything of the first plan but ad hoc imports is done, and the safety properties are proved. What
would come next:

1. Ad hoc imports, which look a checksum up and insert later, without a batch.
2. The browser's session: the refresh of a token against a logout and against other tabs.
3. A refinement of the agents' result in `Pipeline` by `AgentChain`, whose steps it takes as one.

## 6. Not modelled

Ad hoc imports (`ingestion/service.py:223`-`306`) take one upload at a time and share with the
watch only the rows and the queue, where `Pipeline`'s `Ingest` stands for them. The browser's
session (`AuthContext`, `auth-store`) keeps its state in one tab's memory. Detection itself, drawing, rendering of reports, prompts and the texts of the knowledge base are
computations without shared state. Listings, filters, trend and
Pareto statistics, previews and the audit log's search are queries that change nothing. Pages of the frontend are presentation. `PROJECT.json` names every component with its
reason.
