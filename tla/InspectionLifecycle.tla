------------------------- MODULE InspectionLifecycle -------------------------
(***************************************************************************)
(* What the pipeline promises for each inspection image, one row at a      *)
(* time: the states a client that reads the database may see, and the      *)
(* steps between them.  There are no workers, queues, sessions or crashes  *)
(* here; Pipeline is shown to implement this module.                       *)
(*                                                                         *)
(* DETECTED never appears: the code passes through it inside one           *)
(* transaction and commits the row with the next status.                   *)
(***************************************************************************)
CONSTANT Images

VARIABLES
  status,   \* [Images -> status], "ABSENT" before ingestion, "PURGED" after retention
  source    \* [Images -> "none" | "knowledge_base" | "agents"]: the image's Analysis

vars == <<status, source>>

TypeOK ==
  /\ status \in [Images -> {"ABSENT", "QUEUED", "PROCESSING", "ANALYZING",
                            "COMPLETED", "FAILED", "PURGED"}]
  /\ source \in [Images -> {"none", "knowledge_base", "agents"}]

Init ==
  /\ status = [i \in Images |-> "ABSENT"]
  /\ source = [i \in Images |-> "none"]

Move(i, from, to) ==
  /\ status[i] \in from
  /\ status' = [status EXCEPT ![i] = to]

\* A scan commits all its files at once: readable ones queue up, the others fail.
Register ==
  \E good, bad \in SUBSET {i \in Images : status[i] = "ABSENT"} :
    /\ good \cap bad = {}
    /\ status' = [i \in Images |-> IF i \in good THEN "QUEUED"
                                   ELSE IF i \in bad THEN "FAILED" ELSE status[i]]
    /\ UNCHANGED source

Begin(i) == Move(i, {"QUEUED"}, "PROCESSING") /\ UNCHANGED source

FinishClean(i) == Move(i, {"PROCESSING"}, "COMPLETED") /\ UNCHANGED source

\* The baseline analysis and the status it leads to become visible together.
Baseline(i) ==
  /\ Move(i, {"PROCESSING"}, "COMPLETED") \/ Move(i, {"PROCESSING"}, "ANALYZING")
  /\ source[i] = "none"
  /\ source' = [source EXCEPT ![i] = "knowledge_base"]

\* The agent chain degrades to whatever analysis was there...
KeepAnalysis(i) == Move(i, {"ANALYZING"}, "COMPLETED") /\ UNCHANGED source

\* ...or replaces it, and the image is complete in the same step.
Enrich(i) ==
  /\ Move(i, {"ANALYZING"}, "COMPLETED")
  /\ source[i] # "none"
  /\ source' = [source EXCEPT ![i] = "agents"]

\* Only an image that has an analysis is re-opened.
Reopen(i) ==
  /\ source[i] # "none"
  /\ Move(i, {"COMPLETED"}, "ANALYZING")
  /\ UNCHANGED source

Fail(i) ==
  /\ Move(i, {"QUEUED", "PROCESSING", "ANALYZING"}, "FAILED")
  /\ UNCHANGED source

Purge(i) ==
  /\ status[i] \notin {"ABSENT", "PURGED"}
  /\ status' = [status EXCEPT ![i] = "PURGED"]
  /\ source' = [source EXCEPT ![i] = "none"]

Next ==
  \/ Register
  \/ \E i \in Images :
       \/ Begin(i) \/ FinishClean(i) \/ Baseline(i) \/ KeepAnalysis(i)
       \/ Enrich(i) \/ Reopen(i) \/ Fail(i) \/ Purge(i)

Spec == Init /\ [][Next]_vars
=============================================================================
