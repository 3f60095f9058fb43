------------------------- MODULE HousekeepingProofs --------------------------
(***************************************************************************)
(* CompletedIsWhole and PurgeLeavesNoFile hold of every instance of        *)
(* Housekeeping that satisfies HousekeepingAssumption, for any number of   *)
(* documents, crashes and redeliveries.                                    *)
(*                                                                         *)
(* Neither is inductive: what the rows and the files say of each other     *)
(* depends on how far the worker is.  WorkInv is that: the task at hand is *)
(* still in the queue, its document exists while it is generated, its file *)
(* is whole once written, and is accounted for when the task ends.         *)
(***************************************************************************)
EXTENDS Housekeeping, TLAPS

Types ==
  /\ document \in [Documents -> DocumentRows]
  /\ file \in [Documents -> {"none", "partial", "whole"}]
  /\ worker \in [task : Documents \cup {Purge, "none"}, expired : SUBSET Documents,
                 pc : {"idle", "gathering", "writing", "written", "purging", "ended"}]

Kept(d) == document[d].status = "COMPLETED" => file[d] = "whole" \/ d \in removed

WorkInv ==
  /\ worker.pc # "idle" => worker.task \in tasks
  /\ worker.pc = "idle" => worker = Idle
  /\ worker.pc \in {"gathering", "writing", "written"} =>
       worker.task \in Documents /\ Exists(worker.task)
  /\ worker.pc = "written" => file[worker.task] = "whole"
  /\ worker.pc = "ended" /\ worker.task \in Documents => Kept(worker.task)

IInv == Types /\ WorkInv /\ CompletedIsWhole /\ PurgeLeavesNoFile

LEMMA InitIInv == Init => IInv
<1> SUFFICES ASSUME Init PROVE IInv
  OBVIOUS
<1>1. Types
  BY DEF Init, Types, DocumentRows, Idle
<1>2. \A d \in Documents : document[d].status = "absent"
  BY DEF Init
<1> QED
  BY <1>1, <1>2 DEF Init, IInv, WorkInv, Idle, CompletedIsWhole, PurgeLeavesNoFile

-----------------------------------------------------------------------------
(* Requests and the clock. *)

LEMMA StepRequest ==
  ASSUME IInv, NEW d \in Documents, RequestDocument(d)
  PROVE  IInv'
<1>1. /\ Types' /\ document'[d].status = "PENDING"
      /\ \A e \in Documents : e # d => document'[e] = document[e]
  BY DEF IInv, Types, RequestDocument, DocumentRows
<1>2. UNCHANGED <<file, tasks, worker, removed>>
  BY DEF RequestDocument
<1>3. WorkInv'
  BY <1>1, <1>2 DEF IInv, WorkInv, Exists, Kept
<1>4. CompletedIsWhole' /\ PurgeLeavesNoFile'
  BY <1>1, <1>2 DEF IInv, CompletedIsWhole, PurgeLeavesNoFile
<1> QED
  BY <1>1, <1>3, <1>4 DEF IInv

\* What only lets the queue grow keeps the invariant.
LEMMA StepOutside ==
  ASSUME IInv, UNCHANGED <<document, file, worker, removed>>, tasks \subseteq tasks'
  PROVE  IInv'
<1>1. Types' /\ WorkInv'
  BY DEF IInv, Types, WorkInv, Exists, Kept
<1>2. CompletedIsWhole' /\ PurgeLeavesNoFile'
  BY DEF IInv, CompletedIsWhole, PurgeLeavesNoFile
<1> QED
  BY <1>1, <1>2 DEF IInv

-----------------------------------------------------------------------------
(* The worker's steps. *)

LEMMA StepStartGenerating ==
  ASSUME IInv, NEW d \in Documents, StartGenerating(d)
  PROVE  IInv'
<1>1. /\ worker' = [task |-> d, pc |-> "gathering", expired |-> {}] /\ d \in tasks /\ Exists(d)
      /\ UNCHANGED <<document, file, tasks, removed>>
  BY DEF StartGenerating, StartTask
<1>2. Types'
  BY <1>1 DEF IInv, Types
<1>3. WorkInv'
  BY <1>1 DEF WorkInv, Exists
<1>4. CompletedIsWhole' /\ PurgeLeavesNoFile'
  BY <1>1 DEF IInv, CompletedIsWhole, PurgeLeavesNoFile
<1> QED
  BY <1>2, <1>3, <1>4 DEF IInv

LEMMA StepStartForNothing ==
  ASSUME IInv, NEW d \in Documents, StartForNothing(d)
  PROVE  IInv'
<1>1. /\ worker' = [task |-> d, pc |-> "ended", expired |-> {}] /\ d \in tasks /\ ~Exists(d)
      /\ UNCHANGED <<document, file, tasks, removed>>
  BY DEF StartForNothing, StartTask
<1>2. Types'
  BY <1>1 DEF IInv, Types
<1>3. WorkInv'
  BY <1>1 DEF WorkInv, Exists, Kept
<1>4. CompletedIsWhole' /\ PurgeLeavesNoFile'
  BY <1>1 DEF IInv, CompletedIsWhole, PurgeLeavesNoFile
<1> QED
  BY <1>2, <1>3, <1>4 DEF IInv

LEMMA StepStartPurge ==
  ASSUME HousekeepingAssumption, IInv, NEW pc \in {"purging", "ended"},
         NEW expired \in SUBSET Documents, StartTask(Purge, pc, expired)
  PROVE  IInv'
<1>1. /\ worker' = [task |-> Purge, pc |-> pc, expired |-> expired] /\ Purge \in tasks
      /\ UNCHANGED <<document, file, tasks, removed>>
  BY DEF StartTask
<1>2. Types'
  BY <1>1 DEF IInv, Types
<1>3. WorkInv'
  BY <1>1 DEF WorkInv, HousekeepingAssumption
<1>4. CompletedIsWhole' /\ PurgeLeavesNoFile'
  BY <1>1 DEF IInv, CompletedIsWhole, PurgeLeavesNoFile
<1> QED
  BY <1>2, <1>3, <1>4 DEF IInv

\* A file is opened, or filled, for a document that exists and whose task is in the queue.
LEMMA StepWrite ==
  ASSUME IInv, NEW d \in Documents, NEW pc \in {"gathering", "writing"}, Working(d, pc),
         NEW state \in {"partial", "whole"}, NEW next \in {"writing", "written"},
         next = "written" => state = "whole", file' = [file EXCEPT ![d] = state], Goto(next),
         UNCHANGED <<document, tasks, removed>>
  PROVE  IInv'
<1>1. /\ worker'.task = d /\ worker'.pc = next /\ worker'.expired = worker.expired
      /\ worker.task = d /\ d \in tasks /\ Exists(d)
  BY DEF IInv, Types, WorkInv, Working, Goto
<1>2. /\ Types' /\ file'[d] = state
      /\ \A e \in Documents : e # d => file'[e] = file[e]
  BY DEF IInv, Types, Goto
<1>3. WorkInv'
  BY <1>1, <1>2 DEF WorkInv, Exists
<1>4. CompletedIsWhole'
  BY <1>1, <1>2 DEF IInv, CompletedIsWhole
<1>5. PurgeLeavesNoFile'
  BY <1>1, <1>2 DEF IInv, PurgeLeavesNoFile, Exists
<1> QED
  BY <1>2, <1>3, <1>4, <1>5 DEF IInv

LEMMA StepGenerationFails ==
  ASSUME IInv, NEW d \in Documents, GenerationFails(d)
  PROVE  IInv'
<1>1. /\ worker'.task = d /\ worker'.pc = "ended" /\ d \in tasks
      /\ worker' = [worker EXCEPT !.pc = "ended"] /\ UNCHANGED <<file, tasks, removed>>
  BY DEF GenerationFails, IInv, Types, WorkInv, Working, Goto
<1>2. /\ Types' /\ document'[d].status = "FAILED"
      /\ \A e \in Documents : e # d => document'[e] = document[e]
  <2> DEFINE row == [document[d] EXCEPT !.status = "FAILED", !.error_message = TRUE]
  <2>1. row \in DocumentRows /\ row.status = "FAILED"
    BY DEF IInv, Types, DocumentRows
  <2>2. document' = [document EXCEPT ![d] = row]
    BY DEF GenerationFails, IInv, Types, DocumentRows
  <2> HIDE DEF row
  <2> QED
    BY <1>1, <2>1, <2>2 DEF IInv, Types
<1>3. WorkInv'
  BY <1>1, <1>2 DEF WorkInv, Kept
<1>4. CompletedIsWhole' /\ PurgeLeavesNoFile'
  BY <1>1, <1>2 DEF IInv, CompletedIsWhole, PurgeLeavesNoFile
<1> QED
  BY <1>2, <1>3, <1>4 DEF IInv

LEMMA StepCommitCompleted ==
  ASSUME IInv, NEW d \in Documents, CommitCompleted(d)
  PROVE  IInv'
<1>1. /\ worker'.task = d /\ worker'.pc = "ended" /\ d \in tasks /\ file[d] = "whole"
      /\ worker' = [worker EXCEPT !.pc = "ended"] /\ UNCHANGED <<file, tasks, removed>>
  BY DEF CommitCompleted, IInv, Types, WorkInv, Working, Goto
<1>2. /\ Types' /\ document'[d].status = "COMPLETED"
      /\ \A e \in Documents : e # d => document'[e] = document[e]
  <2> DEFINE row == [document[d] EXCEPT !.status = "COMPLETED", !.file_path = TRUE]
  <2>1. row \in DocumentRows /\ row.status = "COMPLETED"
    BY DEF IInv, Types, DocumentRows
  <2>2. document' = [document EXCEPT ![d] = row]
    BY DEF CommitCompleted, IInv, Types, DocumentRows
  <2> HIDE DEF row
  <2> QED
    BY <1>1, <2>1, <2>2 DEF IInv, Types
<1>3. WorkInv'
  BY <1>1, <1>2 DEF WorkInv, Kept
<1>4. CompletedIsWhole' /\ PurgeLeavesNoFile'
  BY <1>1, <1>2 DEF IInv, CompletedIsWhole, PurgeLeavesNoFile
<1> QED
  BY <1>2, <1>3, <1>4 DEF IInv

LEMMA StepRemove ==
  ASSUME IInv, NEW d \in Documents, RemoveDerivedFile(d)
  PROVE  IInv'
<1>1. /\ worker' = worker /\ worker.pc = "purging" /\ removed' = removed \cup {d}
      /\ UNCHANGED <<document, tasks>>
  BY DEF RemoveDerivedFile, Working
<1>2. /\ Types' /\ file'[d] = "none"
      /\ \A e \in Documents : e # d => file'[e] = file[e]
  BY DEF RemoveDerivedFile, IInv, Types
<1>3. WorkInv'
  BY <1>1 DEF IInv, WorkInv
<1>4. CompletedIsWhole' /\ PurgeLeavesNoFile'
  BY <1>1, <1>2 DEF IInv, CompletedIsWhole, PurgeLeavesNoFile
<1> QED
  BY <1>2, <1>3, <1>4 DEF IInv

LEMMA StepRemovalFails ==
  ASSUME HousekeepingAssumption, IInv, NEW d \in Documents, RemovalFails(d)
  PROVE  IInv'
<1>1. /\ worker'.task = Purge /\ worker'.pc = "ended" /\ Purge \in tasks
      /\ UNCHANGED <<document, file, tasks, removed>>
  BY DEF RemovalFails, IInv, Types, WorkInv, Working, Goto
<1>2. Types'
  BY DEF RemovalFails, IInv, Types, Goto
<1>3. WorkInv'
  BY <1>1 DEF WorkInv, HousekeepingAssumption
<1>4. CompletedIsWhole' /\ PurgeLeavesNoFile'
  BY <1>1 DEF IInv, CompletedIsWhole, PurgeLeavesNoFile
<1> QED
  BY <1>2, <1>3, <1>4 DEF IInv

\* The rows go once their files have gone.
LEMMA StepCommitPurge ==
  ASSUME HousekeepingAssumption, IInv, CommitPurge
  PROVE  IInv'
<1>1. /\ worker'.task = Purge /\ worker'.pc = "ended" /\ Purge \in tasks
      /\ UNCHANGED <<file, tasks, removed>>
  BY DEF CommitPurge, IInv, Types, WorkInv, Working, Goto
<1>2. \A e \in Documents :
        /\ document'[e] \in DocumentRows /\ document'[e].file_path = document[e].file_path
        /\ e \in worker.expired => document'[e].status = "deleted"
        /\ e \notin worker.expired => document'[e] = document[e]
  BY DEF CommitPurge, IInv, Types, DocumentRows
<1>3. Types'
  <2>1. document' \in [Documents -> DocumentRows]
    BY <1>2 DEF CommitPurge
  <2> QED
    BY <2>1 DEF CommitPurge, IInv, Types, Goto
<1>4. WorkInv'
  BY <1>1 DEF WorkInv, HousekeepingAssumption
<1>5. CompletedIsWhole'
  BY <1>1, <1>2 DEF IInv, CompletedIsWhole
<1>6. PurgeLeavesNoFile'
  BY <1>1, <1>2 DEF IInv, PurgeLeavesNoFile, CommitPurge, HasFile
<1> QED
  BY <1>3, <1>4, <1>5, <1>6 DEF IInv

\* The task leaves the queue: its document must be accounted for without it.
LEMMA StepEnd ==
  ASSUME IInv, EndTask
  PROVE  IInv'
<1>1. /\ worker' = Idle /\ tasks' = tasks \ {worker.task} /\ worker.pc = "ended"
      /\ UNCHANGED <<document, file, removed>>
  BY DEF EndTask, Acknowledge
<1>2. Types' /\ WorkInv'
  BY <1>1 DEF IInv, Types, WorkInv, Idle
<1>3. CompletedIsWhole' /\ PurgeLeavesNoFile'
  BY <1>1 DEF IInv, WorkInv, Kept, CompletedIsWhole, PurgeLeavesNoFile
<1> QED
  BY <1>2, <1>3 DEF IInv

LEMMA StepDies ==
  ASSUME IInv, WorkerDies
  PROVE  IInv'
<1>1. worker' = Idle /\ UNCHANGED <<document, file, tasks, removed>>
  BY DEF WorkerDies
<1>2. Types' /\ WorkInv'
  BY <1>1 DEF IInv, Types, WorkInv, Idle
<1>3. CompletedIsWhole' /\ PurgeLeavesNoFile'
  BY <1>1 DEF IInv, CompletedIsWhole, PurgeLeavesNoFile
<1> QED
  BY <1>2, <1>3 DEF IInv

-----------------------------------------------------------------------------
LEMMA Inductive == HousekeepingAssumption /\ IInv /\ [Next]_housekeepingVars => IInv'
<1> SUFFICES ASSUME HousekeepingAssumption, IInv, [Next]_housekeepingVars PROVE IInv'
  OBVIOUS
<1>1. CASE UNCHANGED housekeepingVars
  BY <1>1, StepOutside DEF housekeepingVars
<1>2. ASSUME NEW d \in Documents, RequestDocument(d) \/ EnqueueDocument(d) PROVE IInv'
  BY <1>2, StepRequest, StepOutside DEF EnqueueDocument
<1>3. ASSUME NEW d \in Documents, Generate(d) PROVE IInv'
  <2>1. CASE OpenFile(d)
    BY <2>1, StepWrite DEF OpenFile
  <2>2. CASE WriteFile(d)
    BY <2>2, StepWrite DEF WriteFile
  <2> QED
    BY <1>3, <2>1, <2>2, StepStartGenerating, StepStartForNothing, StepGenerationFails,
       StepCommitCompleted DEF Generate
<1>4. ASSUME NEW value, SetRetention(value) PROVE IInv'
  BY <1>4, StepOutside DEF SetRetention
<1>5. CASE DayPasses
  BY <1>5, StepOutside DEF DayPasses
<1>6. CASE PurgeExpired
  <2>1. CASE StartPurge
    BY <2>1, StepStartPurge DEF StartPurge
  <2>2. CASE PurgeCannotStart
    BY <2>2, StepStartPurge DEF PurgeCannotStart
  <2> QED
    BY <1>6, <2>1, <2>2, StepCommitPurge, StepRemove, StepRemovalFails DEF PurgeExpired
<1> QED
  BY <1>1, <1>2, <1>3, <1>4, <1>5, <1>6, StepEnd, StepDies DEF Next

\* CompletedIsWhole: whatever crashes and is delivered again, a document that reads COMPLETED has
\* its file, has a task that will write it, or lost it to a purge (generate_report).
THEOREM CompletedStaysWhole ==
  ASSUME HousekeepingAssumption
  PROVE  Spec => []CompletedIsWhole
<1>1. Init => IInv
  BY InitIInv
<1>2. IInv /\ [Next]_housekeepingVars => IInv'
  BY Inductive
<1>3. IInv => CompletedIsWhole
  BY DEF IInv
<1> QED
  BY <1>1, <1>2, <1>3, PTL DEF Spec

\* PurgeLeavesNoFile: a purged row leaves no file it named, however often a purge was rolled back
\* or repeated before (execute_purge).
THEOREM PurgeNeverLeavesAFile ==
  ASSUME HousekeepingAssumption
  PROVE  Spec => []PurgeLeavesNoFile
<1>1. Init => IInv
  BY InitIInv
<1>2. IInv /\ [Next]_housekeepingVars => IInv'
  BY Inductive
<1>3. IInv => PurgeLeavesNoFile
  BY DEF IInv
<1> QED
  BY <1>1, <1>2, <1>3, PTL DEF Spec

-----------------------------------------------------------------------------
(* Types: what the proofs above do not look at keeps within its bounds as well. *)

OtherTypes ==
  /\ age \in [Documents -> 0..MaxAge]
  /\ retention \in RetentionValues
  /\ requesting \subseteq Documents
  /\ tasks \subseteq Documents \cup {Purge}
  /\ died \in 0..MaxWorkerCrashes
  /\ removed \subseteq Documents

LEMMA OtherTypesStep ==
  ASSUME HousekeepingAssumption, OtherTypes, [Next]_housekeepingVars
  PROVE  OtherTypes'
<1> USE DEF OtherTypes
<1>1. CASE UNCHANGED <<age, retention, requesting, tasks, died, removed>>
  BY <1>1
<1>2. ASSUME NEW d \in Documents, RequestDocument(d) \/ EnqueueDocument(d) PROVE OtherTypes'
  BY <1>2 DEF RequestDocument, EnqueueDocument
<1>3. ASSUME NEW value \in RetentionValues, SetRetention(value) PROVE OtherTypes'
  BY <1>3 DEF SetRetention
<1>4. CASE DayPasses
  <2>1. \A d \in Documents : age[d] \in 0..MaxAge /\ (age[d] < MaxAge => age[d] + 1 \in 0..MaxAge)
    BY DEF HousekeepingAssumption
  <2>2. age' \in [Documents -> 0..MaxAge]
    BY <1>4, <2>1 DEF DayPasses
  <2> QED
    BY <1>4, <2>2 DEF DayPasses
<1>5. CASE EndTask
  BY <1>5 DEF EndTask, Acknowledge
<1>6. CASE WorkerDies
  BY <1>6 DEF WorkerDies, HousekeepingAssumption
<1>7. ASSUME NEW d \in Documents, RemoveDerivedFile(d) PROVE OtherTypes'
  BY <1>7 DEF RemoveDerivedFile
<1>8. ASSUME NEW d \in Documents, Generate(d) \/ RemovalFails(d)
      PROVE  UNCHANGED <<age, retention, requesting, tasks, died, removed>>
  BY <1>8 DEF Generate, StartGenerating, StartForNothing, StartTask, OpenFile, WriteFile,
     GenerationFails, CommitCompleted, RemovalFails
<1>9. CASE StartPurge \/ PurgeCannotStart \/ CommitPurge
  BY <1>1, <1>9 DEF StartPurge, PurgeCannotStart, StartTask, CommitPurge
<1>10. CASE UNCHANGED housekeepingVars
  BY <1>1, <1>10 DEF housekeepingVars
<1> QED
  BY <1>1, <1>2, <1>3, <1>4, <1>5, <1>6, <1>7, <1>8, <1>9, <1>10 DEF Next, PurgeExpired

\* Documents, files, the queue and the worker keep their types, for any documents, ages, overrides
\* and crashes (Report, DatasetExport, purge_expired).
THEOREM TypeCorrect ==
  ASSUME HousekeepingAssumption
  PROVE  Spec => []TypeOK
<1>1. Init => IInv /\ OtherTypes
  BY InitIInv DEF Init, OtherTypes, HousekeepingAssumption
<1>2. IInv /\ OtherTypes /\ [Next]_housekeepingVars => (IInv /\ OtherTypes)'
  BY Inductive, OtherTypesStep
<1>3. IInv /\ OtherTypes => TypeOK
  BY DEF IInv, Types, OtherTypes, TypeOK
<1> QED
  BY <1>1, <1>2, <1>3, PTL DEF Spec
=============================================================================
