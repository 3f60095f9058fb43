---------------------------- MODULE Housekeeping -----------------------------
(***************************************************************************)
(* The housekeeping worker: it writes the reports and dataset exports that *)
(* were requested, and once a day purges what is past its retention.       *)
(*                                                                         *)
(* Code: backend/app/tasks/reports.py, tasks/dataset_exports.py,           *)
(* tasks/retention.py, tasks/celery_app.py; reports/service.py, router.py, *)
(* content.py; datasets/service.py, router.py, exporter.py;                *)
(* retention/service.py; settings/service.py and config_schema.py for the  *)
(* retention override.                                                     *)
(*                                                                         *)
(* The worker has --pool=solo: one task at a time.  Tasks are acknowledged *)
(* when they end, well or badly; a task whose worker dies is delivered     *)
(* again.  Files are not transactional: they are written before the row    *)
(* says so, and removed before the row is.                                 *)
(***************************************************************************)
EXTENDS Naturals, FiniteSets

CONSTANTS
  Documents,        \* Report and DatasetExport rows, each with the file it gets
  UnderWatchRoot,   \* those whose file would lie under the watch root
  Purge,            \* the task purge_expired
  Blank,            \* "", which clears a setting and is no number
  RetentionValues,  \* what may apply: numbers of days, Blank
  MaxAge,           \* bound on the age of a document, in days
  MaxWorkerCrashes  \* bound on the crashes of worker-housekeeping

\* What the proofs ask of the constants: the purge and "no task" are no documents.
HousekeepingAssumption ==
  /\ Purge \notin Documents /\ "none" \notin Documents
  /\ MaxAge \in Nat /\ MaxWorkerCrashes \in Nat

VARIABLES
  document,   \* [Documents -> row]
  file,       \* [Documents -> what is on disk at its path]
  age,        \* [Documents -> days since it was requested]
  retention,  \* what applies: the override, the base setting's days if it is unset or null
  requesting, \* documents committed whose task is still to be enqueued
  tasks,      \* tasks that are enqueued and not acknowledged
  worker,     \* what the worker is doing
  died,       \* crashes so far
  removed     \* history: documents whose file a purge has unlinked

housekeepingVars == <<document, file, age, retention, requesting, tasks, worker, died, removed>>

DocumentRows == [status : {"absent", "PENDING", "COMPLETED", "FAILED", "deleted"},
                 file_path : BOOLEAN, error_message : BOOLEAN]
Exists(d) == document[d].status \notin {"absent", "deleted"}

Idle == [task |-> "none", pc |-> "idle", expired |-> {}]
Working(task, pc) == worker.task = task /\ worker.pc = pc
Goto(pc) == worker' = [worker EXCEPT !.pc = pc]

-----------------------------------------------------------------------------
(* Requests: commit the PENDING row, then enqueue its task. *)

RequestDocument(d) ==
  /\ document[d].status = "absent"
  /\ document' = [document EXCEPT ![d].status = "PENDING"]
  /\ requesting' = requesting \cup {d}
  /\ UNCHANGED <<file, age, retention, tasks, worker, died, removed>>

\* The broker takes it, or the request fails and nobody will enqueue it any more.
EnqueueDocument(d) ==
  /\ d \in requesting
  /\ requesting' = requesting \ {d}
  /\ tasks' \in {tasks, tasks \cup {d}}
  /\ UNCHANGED <<document, file, age, retention, worker, died, removed>>

\* PATCH /settings/config of the override or of the base setting: "" passes any validator, and so
\* does null, which for the override means the days of the base setting.
SetRetention(value) ==
  /\ retention' = value
  /\ UNCHANGED <<document, file, age, requesting, tasks, worker, died, removed>>

DayPasses ==
  /\ \E d \in Documents : Exists(d) /\ age[d] < MaxAge
  /\ age' = [d \in Documents |-> IF Exists(d) /\ age[d] < MaxAge THEN age[d] + 1 ELSE age[d]]
  /\ tasks' = tasks \cup {Purge}
  /\ UNCHANGED <<document, file, retention, requesting, worker, died, removed>>

-----------------------------------------------------------------------------
(* The worker. *)

Acknowledge == worker' = Idle /\ tasks' = tasks \ {worker.task}

\* A document that retention has purged in the meantime needs no generating.
StartTask(task, pc, expired) ==
  /\ worker = Idle /\ task \in tasks
  /\ worker' = [task |-> task, pc |-> pc, expired |-> expired]
  /\ UNCHANGED <<document, file, age, retention, requesting, tasks, died, removed>>

StartGenerating(d) == Exists(d) /\ StartTask(d, "gathering", {})
StartForNothing(d) == ~Exists(d) /\ StartTask(d, "ended", {})

OpenFile(d) ==
  /\ Working(d, "gathering")
  /\ file' = [file EXCEPT ![d] = "partial"]
  /\ Goto("writing")
  /\ UNCHANGED <<document, age, retention, requesting, tasks, died, removed>>

WriteFile(d) ==
  /\ Working(d, "writing")
  /\ file' = [file EXCEPT ![d] = "whole"]
  /\ Goto("written")
  /\ UNCHANGED <<document, age, retention, requesting, tasks, died, removed>>

\* A mutant of GenerationFails: the failure is not recorded.
GenerationFailsUnrecorded(d) ==
  /\ Working(d, "gathering") \/ Working(d, "writing")
  /\ Goto("ended")
  /\ UNCHANGED <<document, file, age, retention, requesting, tasks, died, removed>>

\* The inspection is gone, a filter is bad; or, with the ZIP open, a source image is gone.
GenerationFails(d) ==
  /\ Working(d, "gathering") \/ Working(d, "writing")
  /\ document' = [document EXCEPT ![d].status = "FAILED", ![d].error_message = TRUE]
  /\ Goto("ended")
  /\ UNCHANGED <<file, age, retention, requesting, tasks, died, removed>>

\* A mutant of CommitCompleted: the row is committed before the file is written.
CommitCompletedEarly(d) ==
  /\ Working(d, "writing")
  /\ document' = [document EXCEPT ![d].status = "COMPLETED", ![d].file_path = TRUE]
  /\ Goto("ended")
  /\ UNCHANGED <<file, age, retention, requesting, tasks, died, removed>>

CommitCompleted(d) ==
  /\ Working(d, "written")
  /\ document' = [document EXCEPT ![d].status = "COMPLETED", ![d].file_path = TRUE]
  /\ Goto("ended")
  /\ UNCHANGED <<file, age, retention, requesting, tasks, died, removed>>

\* _cutoffs and the queries; int("") raises before anything is looked at, also where it is the
\* override that is "".
StartPurge ==
  /\ retention # Blank
  /\ StartTask(Purge, "purging", {d \in Documents : Exists(d) /\ age[d] > retention})

PurgeCannotStart == retention = Blank /\ StartTask(Purge, "ended", {})

HasFile(d) == document[d].file_path /\ d \notin UnderWatchRoot /\ file[d] # "none"

RemoveDerivedFile(d) ==
  /\ Working(Purge, "purging") /\ d \in worker.expired /\ HasFile(d)
  /\ file' = [file EXCEPT ![d] = "none"]
  /\ removed' = removed \cup {d}
  /\ UNCHANGED <<document, age, retention, requesting, tasks, worker, died>>

\* unlink raises anything but FileNotFoundError: the transaction rolls back.
RemovalFails(d) ==
  /\ Working(Purge, "purging") /\ d \in worker.expired /\ HasFile(d)
  /\ Goto("ended")
  /\ UNCHANGED <<document, file, age, retention, requesting, tasks, died, removed>>

\* A mutant of CommitPurge: rows are deleted without their files.
CommitPurgeRowsOnly ==
  /\ Working(Purge, "purging")
  /\ document' = [d \in Documents |-> IF d \in worker.expired
                    THEN [document[d] EXCEPT !.status = "deleted"] ELSE document[d]]
  /\ Goto("ended")
  /\ UNCHANGED <<file, age, retention, requesting, tasks, died, removed>>

CommitPurge ==
  /\ Working(Purge, "purging") /\ \A d \in worker.expired : ~HasFile(d)
  /\ document' = [d \in Documents |-> IF d \in worker.expired
                    THEN [document[d] EXCEPT !.status = "deleted"] ELSE document[d]]
  /\ Goto("ended")
  /\ UNCHANGED <<file, age, retention, requesting, tasks, died, removed>>

EndTask ==
  /\ worker.pc = "ended"
  /\ Acknowledge
  /\ UNCHANGED <<document, file, age, retention, requesting, died, removed>>

\* The task is still in the queue: it will be delivered again.
WorkerDies ==
  /\ died < MaxWorkerCrashes /\ worker # Idle
  /\ died' = died + 1
  /\ worker' = Idle
  /\ UNCHANGED <<document, file, age, retention, requesting, tasks, removed>>

-----------------------------------------------------------------------------
Init ==
  /\ document = [d \in Documents |->
                  [status |-> "absent", file_path |-> FALSE, error_message |-> FALSE]]
  /\ file = [d \in Documents |-> "none"]
  /\ age = [d \in Documents |-> 0]
  /\ retention \in RetentionValues
  /\ requesting = {} /\ tasks = {} /\ worker = Idle /\ died = 0 /\ removed = {}

Generate(d) == \/ StartGenerating(d) \/ StartForNothing(d) \/ OpenFile(d) \/ WriteFile(d)
               \/ GenerationFails(d) \/ CommitCompleted(d)

PurgeExpired == \/ StartPurge \/ PurgeCannotStart \/ CommitPurge
                \/ \E d \in Documents : RemoveDerivedFile(d) \/ RemovalFails(d)

Next == \/ \E d \in Documents : RequestDocument(d) \/ EnqueueDocument(d) \/ Generate(d)
        \/ \E value \in RetentionValues : SetRetention(value)
        \/ DayPasses \/ PurgeExpired \/ EndTask \/ WorkerDies

Spec == Init /\ [][Next]_housekeepingVars

\* The worker is up, and never rests while there is a task (it may leave one for another).
Progress == \/ EndTask \/ StartPurge \/ PurgeCannotStart \/ CommitPurge
            \/ \E d \in Documents : \/ StartGenerating(d) \/ StartForNothing(d) \/ OpenFile(d)
                                    \/ WriteFile(d) \/ CommitCompleted(d) \/ RemoveDerivedFile(d)
FairSpec == Spec /\ WF_housekeepingVars(Progress)

-----------------------------------------------------------------------------
TypeOK ==
  /\ document \in [Documents -> DocumentRows]
  /\ file \in [Documents -> {"none", "partial", "whole"}]
  /\ age \in [Documents -> 0..MaxAge]
  /\ retention \in RetentionValues
  /\ requesting \subseteq Documents
  /\ tasks \subseteq Documents \cup {Purge}
  /\ worker \in [task : Documents \cup {Purge, "none"}, expired : SUBSET Documents,
                 pc : {"idle", "gathering", "writing", "written", "purging", "ended"}]
  /\ died \in 0..MaxWorkerCrashes
  /\ removed \subseteq Documents

\* A document that reads COMPLETED can be downloaded, whatever crashes and is delivered again,
\* unless its task is about to write the file anew or a purge got as far as the file and no
\* further (it rolls back, and the row may outlive the file if the retention is raised).
CompletedIsWhole ==
  \A d \in Documents :
    document[d].status = "COMPLETED" => file[d] = "whole" \/ d \in tasks \/ d \in removed

\* Derived files are cleaned up with their rows: no file outlives its row but one the row never
\* named, left by a generation that failed or died before its commit, or one under the watch
\* root, where nothing is ever removed.
PurgeLeavesNoFile ==
  \A d \in Documents :
    document[d].status = "deleted" /\ document[d].file_path /\ d \notin UnderWatchRoot =>
      file[d] = "none"

\* A document whose task was enqueued does not stay PENDING.
GenerationEnds == \A d \in Documents : d \in tasks ~> document[d].status # "PENDING"
=============================================================================
