----------------------------- MODULE AgentChain ------------------------------
(***************************************************************************)
(* The in-depth analysis of one board: the policy that decides whether it  *)
(* runs by itself, the Analyst -> Reviewer loop, the Summarizer, and what  *)
(* becomes of the stored analysis.                                         *)
(*                                                                         *)
(* Code: backend/app/agents/policy.py, chain.py, analyst.py, reviewer.py,  *)
(* summarizer.py, schemas.py, analyses/service.py (baseline),              *)
(* tasks/pipeline.py (run_agent_analysis).                                 *)
(*                                                                         *)
(* The language model may answer anything that its schema admits, or fail. *)
(* Of a finding only the detection it names and its severity matter.       *)
(*                                                                         *)
(* Two tasks of one image may be under way at a time, when its message is  *)
(* delivered again or two requests pass the check of its status together   *)
(* (module Pipeline, which also deletes the image).  Each writes, as the   *)
(* session does, only the columns in which its result differs from what it *)
(* had read.                                                               *)
(***************************************************************************)
EXTENDS Naturals, FiniteSets

CONSTANTS
  Found,            \* Detection rows of the model with is_reported
  Drawn,            \* Detection rows an operator may draw: reported, too
  Unknown,          \* a detection_id that is none of them
  Classes,          \* DefectType
  ClassOf,          \* [Found -> Classes]
  KnowledgeBase,    \* [Classes -> Severities]: DEFECT_KNOWLEDGE_BASE severities
  Severities,       \* ranks of Severity
  MaxFindings,      \* bound on the findings of a draft
  ChainTasks,       \* run_agent_analysis tasks that may be under way at a time
  MaxReviewAttempts \* largest agent_analysis_max_review_attempts

\* What the proofs ask of the constants: a drawn detection is no reported one, no id is "unknown",
\* and the ranks of Severity are a few numbers.
AgentChainAssumption ==
  /\ Found \cap Drawn = {} /\ Unknown \notin Found \cup Drawn
  /\ Severities \subseteq Nat /\ IsFiniteSet(Severities)
  /\ ClassOf \in [Found -> Classes] /\ KnowledgeBase \in [Classes -> Severities]
  /\ MaxReviewAttempts \in Nat

VARIABLES
  board,     \* the image's detections with is_reported
  chain,     \* [ChainTasks -> what the task has read and drafted]
  analyzing, \* whether image.status is ANALYZING
  analysis,  \* the Analysis row
  covered,   \* history: drawn detections among those its per_defect was made for
  torn       \* history: the last task to write met a row that it had not read

Detections == Found \cup Drawn

chainVars == <<board, chain, analyzing, analysis, covered, torn>>

Highest(ranks) == CHOOSE s \in ranks : \A t \in ranks : t <= s
SeverityOf(d) == KnowledgeBase[ClassOf[d]]

Policies ==
  [mode : {"always", "conditional", "on_demand"}, min_defect_count : 1..Cardinality(Found) + 1,
   critical_classes : SUBSET Classes, min_severity : Severities]

\* evaluate_trigger, for a board with reportable detections.
EvaluateTrigger(p, D) ==
  \/ p.mode = "always"
  \/ /\ p.mode = "conditional"
     /\ \/ Cardinality(D) >= p.min_defect_count
        \/ \E d \in D : ClassOf[d] \in p.critical_classes
        \/ Highest({SeverityOf(d) : d \in D}) >= p.min_severity

-----------------------------------------------------------------------------
(* Findings, and the analysis made of them. *)

Findings == [detection : Detections \cup {Unknown}, severity : Severities]
Drafts == {F \in SUBSET Findings : F # {} /\ Cardinality(F) <= MaxFindings}
NoFindings == {}

Named(findings) == {f.detection : f \in findings}
SeverityMax(findings) == Highest({f.severity : f \in findings})

\* A mutant of ValidCoverage: nothing unknown is named, but something may be missing.
CoverageOfKnown(t, findings) == Named(findings) \subseteq chain[t].detections

\* _validate_coverage compares sets: a detection may have two findings, none may be missing.
ValidCoverage(t, findings) == Named(findings) = chain[t].detections

\* create_baseline_analysis: one entry per reportable detection, from the knowledge base.
Baseline(D) ==
  [source |-> "knowledge_base", severity_max |-> Highest({SeverityOf(d) : d \in D}),
   per_defect |-> {[detection |-> d, severity |-> SeverityOf(d)] : d \in D}]

NoAnalysis == [source |-> "none", severity_max |-> 0, per_defect |-> {}]

-----------------------------------------------------------------------------
(* Where the image comes from, and how it comes back. *)

\* Inference has found D; the baseline is stored, the policy evaluated and the status set in one
\* transaction.
Detect(D, p) ==
  /\ analysis = NoAnalysis /\ D # {}
  /\ board' = board \cup D
  /\ analysis' = Baseline(D)
  /\ analyzing' = EvaluateTrigger(p, D)
  /\ UNCHANGED <<chain, covered, torn>>

\* An operator draws a detection, at any time; the analysis is left as it is.
Annotate(d) ==
  /\ d \in Drawn \ board
  /\ board' = board \cup {d}
  /\ UNCHANGED <<chain, analyzing, analysis, covered, torn>>

\* POST /inspections/{id}/agent-analysis asks for the chain whatever the policy says, and again
\* after an earlier one; 409 while the status is ANALYZING.
RequestChain ==
  /\ analysis # NoAnalysis /\ ~analyzing
  /\ analyzing' = TRUE
  /\ UNCHANGED <<board, chain, analysis, covered, torn>>

-----------------------------------------------------------------------------
(* run_agent_analysis.  Every failure of the chain keeps the analysis there is. *)

Inactive == [pc |-> "idle", seen |-> NoAnalysis, detections |-> {}, left |-> 0,
             draft |-> NoFindings]

Goes(t, state) == /\ chain' = [chain EXCEPT ![t] = state]
                  /\ UNCHANGED <<board, analyzing, analysis, covered, torn>>

\* The status is looked at, the rows are read afterwards: another task may commit in between.
TakeTask(t) ==
  /\ chain[t] = Inactive /\ analyzing
  /\ Goes(t, [Inactive EXCEPT !.pc = "taken"])

LoadAnalysis(t) ==
  /\ chain[t].pc = "taken"
  /\ Goes(t, [Inactive EXCEPT !.pc = "loaded", !.seen = analysis])

\* COMPLETED is committed, with whatever else the session has changed.
Complete(t) == /\ chain' = [chain EXCEPT ![t] = Inactive]
               /\ analyzing' = FALSE

Degrade(t) == Complete(t) /\ UNCHANGED <<board, analysis, covered, torn>>

\* The detections are read, drawn ones included, and the policy again, of which only
\* max_review_attempts is used; 0 stands for a missing client as well.
StartChain(t, max_review_attempts) ==
  /\ chain[t].pc = "loaded"
  /\ \/ max_review_attempts < 1 /\ Degrade(t)
     \/ /\ max_review_attempts >= 1
        /\ Goes(t, [chain[t] EXCEPT !.pc = "analyst", !.detections = board,
                                    !.left = max_review_attempts - 1])

\* The model is unreachable, its answer does not fit the schema, or _validate_coverage refuses it.
Abort(t) == chain[t].pc \in {"analyst", "reviewer", "summarizer"} /\ Degrade(t)

Draft(t, findings) ==
  /\ chain[t].pc = "analyst" /\ ValidCoverage(t, findings)
  /\ Goes(t, [chain[t] EXCEPT !.pc = "reviewer", !.draft = findings])

\* Approval may come with revised findings (an empty list counts as none), checked like a draft.
Approve(t, revised) ==
  LET findings == IF revised = NoFindings THEN chain[t].draft ELSE revised IN
  /\ chain[t].pc = "reviewer" /\ ValidCoverage(t, findings)
  /\ Goes(t, [chain[t] EXCEPT !.pc = "summarizer", !.draft = findings])

Redraft(t) == Goes(t, [chain[t] EXCEPT !.pc = "analyst", !.left = @ - 1, !.draft = NoFindings])

\* A mutant of Reject: one attempt too many.
RejectLate(t) ==
  /\ chain[t].pc = "reviewer"
  /\ \/ chain[t].left < 0 /\ Degrade(t)
     \/ chain[t].left >= 0 /\ Redraft(t)

\* The Reviewer has the Analyst try again while attempts are left.
Reject(t) ==
  /\ chain[t].pc = "reviewer"
  /\ \/ chain[t].left = 0 /\ Degrade(t)
     \/ chain[t].left > 0 /\ Redraft(t)

\* A column is written if the result differs from what was read.
Written(new, seen, now) == IF new = seen THEN now ELSE new

\* The last call, and the commit.  Findings with the detections and severities that were read may
\* differ from those in their texts, or be the `same`.
Summarize(t) ==
  LET draft == chain[t].draft
      seen == chain[t].seen
  IN
  /\ chain[t].pc = "summarizer"
  /\ \E same \in {b \in BOOLEAN : b => draft = seen.per_defect} :
       /\ analysis' =
            [source |-> Written("agents", seen.source, analysis.source),
             severity_max |-> Written(SeverityMax(draft), seen.severity_max, analysis.severity_max),
             per_defect |-> IF same THEN analysis.per_defect ELSE draft]
       /\ covered' = IF same THEN covered ELSE chain[t].detections \cap Drawn
  /\ torn' = (seen # analysis)
  /\ Complete(t)
  /\ UNCHANGED board

\* The worker dies with all it has not committed; the message comes back (module Pipeline).
Dies(t) == chain[t].pc # "idle" /\ Goes(t, Inactive)

-----------------------------------------------------------------------------
Init ==
  /\ board = {}
  /\ chain = [t \in ChainTasks |-> Inactive]
  /\ analyzing = FALSE
  /\ analysis = NoAnalysis
  /\ covered = {}
  /\ torn = FALSE

Next ==
  \/ \E D \in SUBSET Found, p \in Policies : Detect(D, p)
  \/ \E d \in Drawn : Annotate(d)
  \/ RequestChain
  \/ \E t \in ChainTasks :
       \/ TakeTask(t) \/ LoadAnalysis(t) \/ Abort(t) \/ Reject(t) \/ Summarize(t) \/ Dies(t)
       \/ \E attempts \in 0..MaxReviewAttempts : StartChain(t, attempts)
       \/ \E findings \in Drafts : Draft(t, findings)
       \/ \E revised \in Drafts \cup {NoFindings} : Approve(t, revised)

Spec == Init /\ [][Next]_chainVars

-----------------------------------------------------------------------------
AnalysisRows == [source : {"none", "knowledge_base", "agents"}, severity_max : Severities \cup {0},
                 per_defect : SUBSET Findings]

TypeOK ==
  /\ board \in SUBSET Detections
  /\ chain \in [ChainTasks ->
       [pc : {"idle", "taken", "loaded", "analyst", "reviewer", "summarizer"}, seen : AnalysisRows,
        detections : SUBSET Detections, left : 0..MaxReviewAttempts, draft : Drafts \cup {NoFindings}]]
  /\ analyzing \in BOOLEAN /\ torn \in BOOLEAN
  /\ analysis \in AnalysisRows
  /\ covered \subseteq Drawn

\* Whatever the model answers, whatever operators draw meanwhile and however tasks overlap, a
\* stored analysis speaks of each detection inference has reported, of the drawn ones that the
\* chain its findings come from has read, and of nothing else.  Its severity_max is that of its
\* worst finding, unless a task has written over a row it had not read: then the column may be
\* left by one chain and the findings by another.
AnalysisFitsBoard ==
  analysis # NoAnalysis =>
    /\ Named(analysis.per_defect) = (board \cap Found) \cup covered
    /\ ~torn => analysis.severity_max = SeverityMax(analysis.per_defect)
=============================================================================
