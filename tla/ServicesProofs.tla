--------------------------- MODULE ServicesProofs ----------------------------
(***************************************************************************)
(* What is proved of Services, for any values of its constants that        *)
(* satisfy ServicesAssumption.                                             *)
(*                                                                         *)
(* A behaviour of Services is, seen by one service, one of its own: each   *)
(* step is a step of it or leaves its variables alone.  So what the        *)
(* modules of proofs show of Alerts, Accounts, Feedback and Housekeeping   *)
(* holds here; the proofs about the other services are in this module.     *)
(***************************************************************************)
EXTENDS Services, FiniteSetTheorems, SequenceTheorems, WellFoundedInduction, TLAPS

-----------------------------------------------------------------------------
(* Each service sees a behaviour of its own. *)

LEMMA Rest ==
  ASSUME OthersRest
  PROVE  /\ part # "alerts" => UNCHANGED alertVars
         /\ part # "accounts" => UNCHANGED accountVars
         /\ part # "agent_chain" => UNCHANGED chainVars
         /\ part # "chat" => UNCHANGED chatVars
         /\ part # "feedback" => UNCHANGED feedbackVars
         /\ part # "housekeeping" => UNCHANGED housekeepingVars
         /\ part # "dashboard" => UNCHANGED dashboardVars
         /\ part # "golden_set" => UNCHANGED goldenVars
         /\ part # "event_stream" => UNCHANGED eventVars
         /\ part # "launcher" => UNCHANGED launcherVars
BY DEF OthersRest

LEMMA AlertsRuns == Spec => Alerts!Spec
<1>1. Init => Alerts!Init
  BY DEF Init
<1>2. [Next]_vars => [Alerts!Next]_(Alerts!alertVars)
  BY Rest DEF Next, vars, alertVars, Alerts!alertVars
<1> QED
  BY <1>1, <1>2, PTL DEF Spec, Alerts!Spec

LEMMA AccountsRuns == Spec => Accounts!Spec
<1>1. Init => Accounts!Init
  BY DEF Init
<1>2. [Next]_vars => [Accounts!Next]_(Accounts!accountVars)
  BY Rest DEF Next, vars, accountVars, Accounts!accountVars
<1> QED
  BY <1>1, <1>2, PTL DEF Spec, Accounts!Spec

LEMMA ChainRuns == Spec => Chain!Spec
<1>1. Init => Chain!Init
  BY DEF Init
<1>2. [Next]_vars => [Chain!Next]_(Chain!chainVars)
  BY Rest DEF Next, vars, chainVars, Chain!chainVars
<1> QED
  BY <1>1, <1>2, PTL DEF Spec, Chain!Spec

LEMMA ChatRuns == Spec => Chat!Spec
<1>1. Init => Chat!Init
  BY DEF Init
<1>2. [Next]_vars => [Chat!Next]_(Chat!chatVars)
  BY Rest DEF Next, vars, chatVars, Chat!chatVars
<1> QED
  BY <1>1, <1>2, PTL DEF Spec, Chat!Spec

LEMMA FeedbackRuns == Spec => Feedback!Spec
<1>1. Init => Feedback!Init
  BY DEF Init
<1>2. [Next]_vars => [Feedback!Next]_(Feedback!feedbackVars)
  BY Rest DEF Next, vars, feedbackVars, Feedback!feedbackVars
<1> QED
  BY <1>1, <1>2, PTL DEF Spec, Feedback!Spec

LEMMA HousekeepingRuns == Spec => Housekeeping!Spec
<1>1. Init => Housekeeping!Init
  BY DEF Init
<1>2. [Next]_vars => [Housekeeping!Next]_(Housekeeping!housekeepingVars)
  BY Rest DEF Next, vars, housekeepingVars, Housekeeping!housekeepingVars
<1> QED
  BY <1>1, <1>2, PTL DEF Spec, Housekeeping!Spec

LEMMA DashboardRuns == Spec => Dashboard!Spec
<1>1. Init => Dashboard!Init
  BY DEF Init
<1>2. [Next]_vars => [Dashboard!Next]_(Dashboard!dashboardVars)
  BY Rest DEF Next, vars, dashboardVars, Dashboard!dashboardVars
<1> QED
  BY <1>1, <1>2, PTL DEF Spec, Dashboard!Spec

LEMMA GoldenSetRuns == Spec => GoldenSet!Spec
<1>1. Init => GoldenSet!Init
  BY DEF Init
<1>2. [Next]_vars => [GoldenSet!Next]_(GoldenSet!goldenVars)
  BY Rest DEF Next, vars, goldenVars, GoldenSet!goldenVars
<1> QED
  BY <1>1, <1>2, PTL DEF Spec, GoldenSet!Spec

LEMMA EventStreamRuns == Spec => EventStream!Spec
<1>1. Init => EventStream!Init
  BY DEF Init
<1>2. [Next]_vars => [EventStream!Next]_(EventStream!eventVars)
  BY Rest DEF Next, vars, eventVars, EventStream!eventVars
<1> QED
  BY <1>1, <1>2, PTL DEF Spec, EventStream!Spec

LEMMA LauncherRuns == Spec => Launcher!Spec
<1>1. Init => Launcher!Init
  BY DEF Init
<1>2. [Next]_vars => [Launcher!Next]_(Launcher!launcherVars)
  BY Rest DEF Next, vars, launcherVars, Launcher!launcherVars
<1> QED
  BY <1>1, <1>2, PTL DEF Spec, Launcher!Spec

-----------------------------------------------------------------------------
(***************************************************************************)
(* AgentChain.  AnalysisFitsBoard compares the analysis with the board as  *)
(* it is now, a chain works on the detections it has read when it          *)
(* started; meanwhile the board only gains drawn detections, and another   *)
(* chain may replace the analysis.  ChainFits says what the state of a     *)
(* task owes to the board.                                                 *)
(***************************************************************************)

\* An instance has its own copy of the operators of FiniteSets.
LEMMA ChainFiniteSets == \A S : Chain!IsFiniteSet(S) <=> IsFiniteSet(S)
BY DEF Chain!IsFiniteSet, IsFiniteSet

\* What the proofs use of the assumptions.
LEMMA ChainConstants ==
  ASSUME ServicesAssumption
  PROVE  /\ Found \cap Drawn = {} /\ Unknown \notin Found \cup Drawn
         /\ Severities \subseteq Nat /\ IsFiniteSet(Severities)
         /\ \A d \in Found : Chain!SeverityOf(d) \in Severities
         /\ MaxReviewAttempts \in Nat
BY ChainFiniteSets DEF ServicesAssumption, Chain!AgentChainAssumption, Chain!SeverityOf

LEMMA HasGreatest ==
  ASSUME NEW S \in SUBSET Nat, IsFiniteSet(S), S # {}
  PROVE  Chain!Highest(S) \in S
<1> DEFINE above(m) == {t \in S : m <= t}
           sizes == {Cardinality(above(m)) : m \in S}
<1>1. \A m \in S : IsFiniteSet(above(m)) /\ Cardinality(above(m)) \in Nat
  BY FS_Subset, FS_CardinalityType
<1>2. PICK size \in sizes : \A other \in sizes : ~(<<other, size>> \in OpToRel(<, Nat))
  <2>1. sizes \subseteq Nat /\ sizes # {}
    BY <1>1
  <2> HIDE DEF sizes
  <2> QED BY <2>1, NatLessThanWellFounded, WFMin
<1>3. PICK m \in S : size = Cardinality(above(m))
  OBVIOUS
<1>4. ASSUME NEW t \in S, ~(t <= m)
      PROVE  FALSE
  <2>1. above(t) \subseteq above(m) /\ m \in above(m) /\ m \notin above(t)
    BY <1>3, <1>4
  <2> HIDE DEF above
  <2>2. Cardinality(above(t)) < Cardinality(above(m))
    BY <1>1, <2>1, FS_Subset
  <2>3. Cardinality(above(t)) \in sizes /\ size \in Nat /\ Cardinality(above(t)) \in Nat
    BY <1>1, <1>3
  <2>4. \A a, b \in Nat : a < b => <<a, b>> \in OpToRel(<, Nat)
    BY DEF OpToRel
  <2> QED BY <1>2, <1>3, <2>2, <2>3, <2>4
<1>5. \E n \in S : \A t \in S : t <= n
  BY <1>4
<1> QED
  BY <1>5 DEF Chain!Highest

ChainStates ==
  [pc : {"idle", "taken", "loaded", "analyst", "reviewer", "summarizer"},
   seen : Chain!AnalysisRows, detections : SUBSET Chain!Detections, left : 0..MaxReviewAttempts,
   draft : Chain!Drafts \cup {Chain!NoFindings}]

ChainFits(n) ==
  /\ n \in ChainStates
  /\ n.pc # "idle" => analysis # Chain!NoAnalysis
  /\ n.pc \in {"analyst", "reviewer", "summarizer"} => n.detections \cap Found = board \cap Found
  /\ n.pc \in {"reviewer", "summarizer"} =>
       n.draft \in Chain!Drafts /\ Chain!Named(n.draft) = n.detections

\* A row that has been stored names its source, and there is one before anything is reported.
RowInv ==
  /\ analysis.source = "none" => analysis = Chain!NoAnalysis
  /\ analysis = Chain!NoAnalysis => board \cap Found = {} /\ covered = {} /\ ~analyzing

ChainInv ==
  /\ Chain!TypeOK
  /\ \A t \in ChainTasks : ChainFits(chain[t])
  /\ RowInv
  /\ AnalysisFitsBoard

ChainRest == UNCHANGED <<board, analysis, covered, torn>>

\* A step of one task that stores no analysis.
LEMMA ChainStep ==
  ASSUME ChainInv, NEW t \in ChainTasks, NEW n, ChainFits(n), chain' = [chain EXCEPT ![t] = n],
         ChainRest, analyzing' = analyzing \/ analyzing' = FALSE
  PROVE  ChainInv'
<1>1. UNCHANGED <<board, analysis, covered, torn>>
  BY DEF ChainRest
<1>2. chain \in [ChainTasks -> ChainStates] /\ n \in ChainStates
  BY DEF ChainInv, Chain!TypeOK, ChainStates, ChainFits
<1>3. chain' \in [ChainTasks -> ChainStates] /\ \A o \in ChainTasks : chain'[o] \in {n, chain[o]}
  BY <1>2
<1>4. \A o \in ChainTasks : ChainFits(chain'[o])
  BY <1>3 DEF ChainInv
<1>5. \A o \in ChainTasks : ChainFits(chain[o])'
  BY <1>1, <1>4 DEF ChainFits
<1>6. Chain!TypeOK'
  BY <1>1, <1>3 DEF ChainInv, ChainStates, Chain!TypeOK
<1>7. RowInv' /\ AnalysisFitsBoard'
  BY <1>1 DEF ChainInv, RowInv, AnalysisFitsBoard, Chain!AnalysisFitsBoard
<1> QED
  BY <1>5, <1>6, <1>7 DEF ChainInv

\* A task that keeps no more than its place.
LEMMA InactiveState ==
  ASSUME ServicesAssumption
  PROVE  /\ Chain!Inactive \in ChainStates /\ Chain!Inactive.pc = "idle"
         /\ ChainFits(Chain!Inactive)
<1>1. Chain!NoAnalysis \in Chain!AnalysisRows
  BY DEF Chain!NoAnalysis, Chain!AnalysisRows
<1>2. Chain!Inactive \in ChainStates /\ Chain!Inactive.pc = "idle"
  BY <1>1, ChainConstants DEF Chain!Inactive, ChainStates
<1> QED
  BY <1>2 DEF ChainFits

LEMMA ChainBegins == ServicesAssumption /\ Chain!Init => ChainInv
<1> SUFFICES ASSUME ServicesAssumption, Chain!Init
             PROVE  ChainInv
  OBVIOUS
<1>1. /\ board = {} /\ chain = [t \in ChainTasks |-> Chain!Inactive]
      /\ analysis = Chain!NoAnalysis /\ covered = {} /\ analyzing = FALSE /\ torn = FALSE
  BY DEF Chain!Init
<1>2. Chain!TypeOK
  BY <1>1, InactiveState DEF ChainStates, Chain!TypeOK, Chain!NoAnalysis, Chain!AnalysisRows
<1> QED
  BY <1>1, <1>2, InactiveState DEF ChainInv, RowInv, AnalysisFitsBoard, Chain!AnalysisFitsBoard

\* A row for the worst of what is stored, whatever "worst" is.
LEMMA BaselineFits ==
  ASSUME ServicesAssumption, NEW D \in SUBSET Found, D # {}
  PROVE  LET baseline == Chain!Baseline(D) IN
         /\ Chain!Named(baseline.per_defect) = D
         /\ baseline.severity_max = Chain!SeverityMax(baseline.per_defect)
         /\ baseline.source # "none" /\ baseline # Chain!NoAnalysis
         /\ baseline \in Chain!AnalysisRows
<1> DEFINE row(d) == [detection |-> d, severity |-> Chain!SeverityOf(d)]
           rows == {row(d) : d \in D}
           ranks == {Chain!SeverityOf(d) : d \in D}
<1>1. \A d \in D : row(d) \in rows /\ row(d).detection = d /\ row(d).severity = Chain!SeverityOf(d)
  OBVIOUS
<1>2. \A f \in rows : \E d \in D : f.detection = d /\ f.severity = Chain!SeverityOf(d)
  BY <1>1
<1>3. \A d \in D : Chain!SeverityOf(d) \in Severities
  BY ChainConstants
<1>4. rows \subseteq Chain!Findings
  BY <1>3 DEF Chain!Findings, Chain!Detections
<1>5. Chain!Highest(ranks) \in Severities
  <2>1. ranks \subseteq Severities /\ ranks # {}
    BY <1>3
  <2> HIDE DEF ranks
  <2> QED
    BY <2>1, ChainConstants, HasGreatest, FS_Subset
<1>6. Chain!Baseline(D) =
        [source |-> "knowledge_base", severity_max |-> Chain!Highest(ranks), per_defect |-> rows]
  BY DEF Chain!Baseline
<1>7. Chain!Baseline(D).source # "none" /\ Chain!NoAnalysis.source = "none"
  BY <1>6 DEF Chain!NoAnalysis
<1> HIDE DEF row, rows
<1>8. {f.detection : f \in rows} = D /\ {f.severity : f \in rows} = ranks
  BY <1>1, <1>2
<1> HIDE DEF ranks
<1> DEFINE baseline == Chain!Baseline(D)
<1>9. baseline.per_defect = rows /\ baseline.severity_max = Chain!Highest(ranks)
  BY <1>6
<1>10. baseline \in Chain!AnalysisRows
  BY <1>4, <1>5, <1>6 DEF Chain!AnalysisRows
<1> QED
  BY <1>7, <1>8, <1>9, <1>10 DEF Chain!Named, Chain!SeverityMax

LEMMA ChainDetect ==
  ASSUME ServicesAssumption, ChainInv, NEW D \in SUBSET Found, NEW p, Chain!Detect(D, p)
  PROVE  ChainInv'
<1>1. /\ analysis = Chain!NoAnalysis /\ D # {} /\ covered = {}
      /\ board' = board \cup D /\ analysis' = Chain!Baseline(D)
      /\ analyzing' = Chain!EvaluateTrigger(p, D)
      /\ covered' = covered /\ chain' = chain /\ torn' = torn
  BY DEF Chain!Detect, ChainInv, RowInv
<1>2. board' \cap Found = D
  BY <1>1 DEF ChainInv, RowInv
<1>3. \A t \in ChainTasks : chain[t] \in ChainStates /\ chain[t].pc = "idle"
  BY <1>1 DEF ChainInv, ChainFits
<1>4. \A t \in ChainTasks : ChainFits(chain[t])'
  BY <1>1, <1>3 DEF ChainFits
<1>5. board' \in SUBSET Chain!Detections
  BY <1>1 DEF ChainInv, Chain!TypeOK, Chain!Detections
<1>6. analyzing' \in BOOLEAN
  BY <1>1 DEF Chain!EvaluateTrigger
<1>7. Chain!TypeOK'
  BY <1>1, <1>5, <1>6, BaselineFits DEF ChainInv, Chain!TypeOK
<1>8. AnalysisFitsBoard'
  BY <1>1, <1>2, BaselineFits DEF AnalysisFitsBoard, Chain!AnalysisFitsBoard
<1>9. RowInv'
  BY <1>1, BaselineFits DEF RowInv
<1> QED
  BY <1>4, <1>7, <1>8, <1>9 DEF ChainInv

LEMMA ChainAnnotate ==
  ASSUME ServicesAssumption, ChainInv, NEW d \in Drawn, Chain!Annotate(d)
  PROVE  ChainInv'
<1>1. board' = board \cup {d} /\ UNCHANGED <<chain, analyzing, analysis, covered, torn>>
  BY DEF Chain!Annotate
<1>2. board' \cap Found = board \cap Found /\ board' \in SUBSET Chain!Detections
  BY <1>1, ChainConstants DEF ChainInv, Chain!TypeOK, Chain!Detections
<1>3. \A t \in ChainTasks : ChainFits(chain[t])'
  BY <1>1, <1>2 DEF ChainInv, ChainFits
<1>4. Chain!TypeOK'
  BY <1>1, <1>2 DEF ChainInv, Chain!TypeOK
<1> QED
  BY <1>1, <1>2, <1>3, <1>4 DEF ChainInv, RowInv, AnalysisFitsBoard, Chain!AnalysisFitsBoard

LEMMA ChainRequest == ASSUME ServicesAssumption, ChainInv, Chain!RequestChain PROVE ChainInv'
<1>1. /\ analysis # Chain!NoAnalysis /\ analyzing' = TRUE
      /\ UNCHANGED <<board, chain, analysis, covered, torn>>
  BY DEF Chain!RequestChain
<1>2. \A t \in ChainTasks : ChainFits(chain[t])'
  BY <1>1 DEF ChainInv, ChainFits
<1>3. Chain!TypeOK'
  BY <1>1 DEF ChainInv, Chain!TypeOK
<1> QED
  BY <1>1, <1>2, <1>3 DEF ChainInv, RowInv, AnalysisFitsBoard, Chain!AnalysisFitsBoard

LEMMA ChainTakes ==
  ASSUME ServicesAssumption, ChainInv, NEW t \in ChainTasks,
         Chain!TakeTask(t) \/ Chain!LoadAnalysis(t)
  PROVE  ChainInv'
<1>1. analysis # Chain!NoAnalysis /\ analysis \in Chain!AnalysisRows
  BY DEF Chain!TakeTask, Chain!LoadAnalysis, ChainInv, RowInv, ChainFits, Chain!TypeOK
<1>2. PICK n \in {[Chain!Inactive EXCEPT !.pc = "taken"],
                  [Chain!Inactive EXCEPT !.pc = "loaded", !.seen = analysis]} : Chain!Goes(t, n)
  BY DEF Chain!TakeTask, Chain!LoadAnalysis
<1>3. n \in ChainStates /\ n.pc \in {"taken", "loaded"}
  BY <1>1, <1>2, InactiveState DEF ChainStates
<1>4. ChainFits(n)
  BY <1>1, <1>3 DEF ChainFits
<1> QED
  BY <1>2, <1>4, ChainStep DEF Chain!Goes, ChainRest

LEMMA ChainDegrades ==
  ASSUME ServicesAssumption, ChainInv, NEW t \in ChainTasks, Chain!Degrade(t)
  PROVE  ChainInv'
BY InactiveState, ChainStep DEF Chain!Degrade, Chain!Complete, ChainRest

LEMMA ChainStart ==
  ASSUME ServicesAssumption, ChainInv, NEW t \in ChainTasks, NEW attempts \in 0..MaxReviewAttempts,
         Chain!StartChain(t, attempts)
  PROVE  ChainInv'
<1>1. chain[t].pc = "loaded"
  BY DEF Chain!StartChain
<1>2. CASE Chain!Degrade(t)
  BY <1>2, ChainDegrades
<1>3. CASE ~Chain!Degrade(t)
  <2> DEFINE n == [chain[t] EXCEPT !.pc = "analyst", !.detections = board, !.left = attempts - 1]
  <2>1. /\ chain[t] \in ChainStates /\ board \in SUBSET Chain!Detections
        /\ analysis # Chain!NoAnalysis
    BY <1>1 DEF ChainInv, ChainFits, Chain!TypeOK
  <2>2. Chain!Goes(t, n) /\ attempts >= 1
    BY <1>3 DEF Chain!StartChain
  <2>3. attempts - 1 \in 0..MaxReviewAttempts
    BY <2>2, ChainConstants
  <2>4. n \in ChainStates /\ n.pc = "analyst" /\ n.detections = board
    BY <2>1, <2>3 DEF ChainStates
  <2>5. ChainFits(n)
    BY <2>1, <2>4 DEF ChainFits
  <2> HIDE DEF n
  <2> QED
    BY <2>2, <2>5, ChainStep DEF Chain!Goes, ChainRest
<1> QED
  BY <1>2, <1>3

\* A draft, or revised findings, that have been checked.
LEMMA ChainChecked ==
  ASSUME ServicesAssumption, ChainInv, NEW t \in ChainTasks, NEW findings \in Chain!Drafts,
         NEW pc \in {"reviewer", "summarizer"}, chain[t].pc \in {"analyst", "reviewer"},
         Chain!ValidCoverage(t, findings),
         Chain!Goes(t, [chain[t] EXCEPT !.pc = pc, !.draft = findings])
  PROVE  ChainInv'
<1> DEFINE n == [chain[t] EXCEPT !.pc = pc, !.draft = findings]
<1>1. /\ chain[t] \in ChainStates /\ analysis # Chain!NoAnalysis
      /\ chain[t].detections \cap Found = board \cap Found
  BY DEF ChainInv, ChainFits
<1>2. n \in ChainStates /\ n.pc = pc /\ n.draft = findings /\ n.detections = chain[t].detections
  BY <1>1 DEF ChainStates
<1>3. ChainFits(n)
  BY <1>1, <1>2 DEF ChainFits, Chain!ValidCoverage
<1> QED
  BY <1>3, ChainStep DEF Chain!Goes, ChainRest

LEMMA ChainApprove ==
  ASSUME ServicesAssumption, ChainInv, NEW t \in ChainTasks,
         NEW revised \in Chain!Drafts \cup {Chain!NoFindings}, Chain!Approve(t, revised)
  PROVE  ChainInv'
<1> DEFINE findings == IF revised = Chain!NoFindings THEN chain[t].draft ELSE revised
<1>1. chain[t].pc = "reviewer" /\ findings \in Chain!Drafts
  BY DEF Chain!Approve, ChainInv, ChainFits
<1>2. /\ Chain!ValidCoverage(t, findings)
      /\ Chain!Goes(t, [chain[t] EXCEPT !.pc = "summarizer", !.draft = findings])
  BY DEF Chain!Approve
<1> HIDE DEF findings
<1> QED
  BY <1>1, <1>2, ChainChecked

LEMMA ChainReject ==
  ASSUME ServicesAssumption, ChainInv, NEW t \in ChainTasks, Chain!Reject(t)
  PROVE  ChainInv'
<1>1. CASE Chain!Degrade(t)
  BY <1>1, ChainDegrades
<1>2. CASE ~Chain!Degrade(t)
  <2> DEFINE n == [chain[t] EXCEPT !.pc = "analyst", !.left = chain[t].left - 1,
                                   !.draft = Chain!NoFindings]
  <2>1. /\ chain[t] \in ChainStates /\ analysis # Chain!NoAnalysis
        /\ chain[t].detections \cap Found = board \cap Found
    BY DEF Chain!Reject, ChainInv, ChainFits
  <2>2. chain[t].left > 0 /\ Chain!Goes(t, n)
    BY <1>2 DEF Chain!Reject, Chain!Redraft
  <2>3. chain[t].left - 1 \in 0..MaxReviewAttempts
    BY <2>1, <2>2, ChainConstants DEF ChainStates
  <2>4. n \in ChainStates /\ n.pc = "analyst" /\ n.detections = chain[t].detections
    BY <2>1, <2>3 DEF ChainStates
  <2>5. ChainFits(n)
    BY <2>1, <2>4 DEF ChainFits
  <2> HIDE DEF n
  <2> QED
    BY <2>2, <2>5, ChainStep DEF Chain!Goes, ChainRest
<1> QED
  BY <1>1, <1>2

LEMMA ChainDies ==
  ASSUME ServicesAssumption, ChainInv, NEW t \in ChainTasks, Chain!Dies(t)
  PROVE  ChainInv'
BY InactiveState, ChainStep DEF Chain!Dies, Chain!Goes, ChainRest

\* Findings that replace others name what the chain has read: the board's found detections, and
\* those drawn by then.  Where the row is what the task had read, all of it is of these findings.
LEMMA ChainSummarize ==
  ASSUME ServicesAssumption, ChainInv, NEW t \in ChainTasks, Chain!Summarize(t)
  PROVE  ChainInv'
<1> DEFINE draft == chain[t].draft
           seen == chain[t].seen
           ranks == {f.severity : f \in draft}
<1>1. /\ chain[t] \in ChainStates /\ draft \in Chain!Drafts /\ seen \in Chain!AnalysisRows
      /\ Chain!Named(draft) = chain[t].detections
      /\ chain[t].detections \cap Found = board \cap Found
      /\ analysis # Chain!NoAnalysis
  BY DEF Chain!Summarize, ChainInv, ChainFits, ChainStates
<1>2. PICK same \in {b \in BOOLEAN : b => draft = seen.per_defect} :
        /\ analysis' =
             [source |-> Chain!Written("agents", seen.source, analysis.source),
              severity_max |-> Chain!Written(Chain!SeverityMax(draft), seen.severity_max,
                                             analysis.severity_max),
              per_defect |-> IF same THEN analysis.per_defect ELSE draft]
        /\ covered' = IF same THEN covered ELSE chain[t].detections \cap Drawn
  BY DEF Chain!Summarize
<1>3. /\ torn' = (seen # analysis) /\ board' = board /\ analyzing' = FALSE
      /\ chain' = [chain EXCEPT ![t] = Chain!Inactive]
  BY DEF Chain!Summarize, Chain!Complete
<1>4. draft \subseteq Chain!Findings /\ draft # {}
  BY <1>1 DEF Chain!Drafts
<1>5. Chain!SeverityMax(draft) \in Severities
  <2>1. ranks \subseteq Severities /\ ranks # {}
    BY <1>4 DEF Chain!Findings
  <2>2. Chain!SeverityMax(draft) = Chain!Highest(ranks)
    BY DEF Chain!SeverityMax
  <2> HIDE DEF ranks
  <2> QED
    BY <2>1, <2>2, ChainConstants, HasGreatest, FS_Subset
<1> HIDE DEF draft, seen
<1>6. /\ analysis \in Chain!AnalysisRows /\ analysis.source # "none"
      /\ covered \subseteq Drawn /\ board \in SUBSET Chain!Detections
      /\ Chain!Named(analysis.per_defect) = (board \cap Found) \cup covered
  BY <1>1 DEF ChainInv, RowInv, Chain!TypeOK, AnalysisFitsBoard, Chain!AnalysisFitsBoard
<1>7. analysis' \in Chain!AnalysisRows /\ analysis'.source # "none"
  <2>1. Chain!Written("agents", seen.source, analysis.source) \in {"agents", analysis.source}
    BY DEF Chain!Written
  <2>2. Chain!Written(Chain!SeverityMax(draft), seen.severity_max, analysis.severity_max)
          \in {Chain!SeverityMax(draft), analysis.severity_max}
    BY DEF Chain!Written
  <2> QED
    BY <1>2, <1>4, <1>5, <1>6, <2>1, <2>2 DEF Chain!AnalysisRows
<1>8. analysis' # Chain!NoAnalysis
  BY <1>7 DEF Chain!NoAnalysis
<1>9. Chain!Named(analysis'.per_defect) = (board' \cap Found) \cup covered'
  <2>1. chain[t].detections = (board \cap Found) \cup (chain[t].detections \cap Drawn)
    BY <1>1 DEF ChainStates, Chain!Detections
  <2> QED
    BY <1>1, <1>2, <1>3, <1>6, <2>1
<1>10. ASSUME ~torn' PROVE analysis'.severity_max = Chain!SeverityMax(analysis'.per_defect)
  <2>1. seen = analysis
    BY <1>3, <1>10
  <2>2. analysis'.per_defect = draft
    BY <1>2, <2>1
  <2>3. analysis'.severity_max = Chain!SeverityMax(draft)
    BY <1>2, <2>1 DEF Chain!Written
  <2> QED
    BY <2>2, <2>3
<1>11. AnalysisFitsBoard'
  BY <1>9, <1>10 DEF AnalysisFitsBoard, Chain!AnalysisFitsBoard
<1>12. chain \in [ChainTasks -> ChainStates]
  BY DEF ChainInv, Chain!TypeOK, ChainStates
<1>13. /\ chain' \in [ChainTasks -> ChainStates]
       /\ \A o \in ChainTasks : chain'[o] \in {Chain!Inactive, chain[o]}
  BY <1>3, <1>12, InactiveState
<1>14. \A o \in ChainTasks : ChainFits(chain'[o])
  BY <1>13, InactiveState DEF ChainInv
<1>15. \A o \in ChainTasks : ChainFits(chain[o])'
  BY <1>3, <1>8, <1>14 DEF ChainFits
<1>16. covered' \subseteq Drawn /\ torn' \in BOOLEAN
  BY <1>2, <1>3, <1>6
<1>17. Chain!TypeOK'
  BY <1>3, <1>6, <1>7, <1>13, <1>16 DEF ChainStates, Chain!TypeOK
<1> QED
  BY <1>7, <1>8, <1>11, <1>15, <1>17 DEF ChainInv, RowInv

LEMMA ChainInvariance == Spec => []ChainInv
<1>1. Chain!Init => ChainInv
  BY ServicesAssumption, ChainBegins
<1>2. ChainInv /\ [Chain!Next]_(Chain!chainVars) => ChainInv'
  <2> SUFFICES ASSUME ChainInv, [Chain!Next]_(Chain!chainVars)
               PROVE  ChainInv'
    OBVIOUS
  <2>1. CASE UNCHANGED Chain!chainVars
    BY <2>1 DEF Chain!chainVars, ChainInv, ChainFits, RowInv, Chain!TypeOK, AnalysisFitsBoard,
                Chain!AnalysisFitsBoard
  <2>2. CASE \/ \E D \in SUBSET Found, p \in Chain!Policies : Chain!Detect(D, p)
             \/ \E d \in Drawn : Chain!Annotate(d)
             \/ Chain!RequestChain
    BY <2>2, ServicesAssumption, ChainDetect, ChainAnnotate, ChainRequest
  <2>3. ASSUME NEW t \in ChainTasks,
               \/ Chain!TakeTask(t) \/ Chain!LoadAnalysis(t) \/ Chain!Abort(t) \/ Chain!Reject(t)
               \/ Chain!Summarize(t) \/ Chain!Dies(t)
        PROVE  ChainInv'
    BY <2>3, ServicesAssumption, ChainTakes, ChainDegrades, ChainReject, ChainSummarize, ChainDies
       DEF Chain!Abort
  <2>4. ASSUME NEW t \in ChainTasks,
               \/ \E attempts \in 0..MaxReviewAttempts : Chain!StartChain(t, attempts)
               \/ \E findings \in Chain!Drafts : Chain!Draft(t, findings)
               \/ \E revised \in Chain!Drafts \cup {Chain!NoFindings} : Chain!Approve(t, revised)
        PROVE  ChainInv'
    <3>1. ASSUME NEW findings \in Chain!Drafts, Chain!Draft(t, findings)
          PROVE  ChainInv'
      BY <3>1, ServicesAssumption, ChainChecked DEF Chain!Draft
    <3> QED
      BY <2>4, <3>1, ServicesAssumption, ChainStart, ChainApprove
  <2> QED
    BY <2>1, <2>2, <2>3, <2>4 DEF Chain!Next
<1> QED
  BY <1>1, <1>2, ChainRuns, PTL DEF Chain!Spec

\* Whatever the model answers, operators draw meanwhile and tasks that overlap leave, the stored
\* analysis speaks of each reported detection, of those drawn before the chain its findings come
\* from, and of nothing else; its severity is that of its worst finding, unless a task has written
\* over a row it had not read (create_baseline_analysis, _validate_coverage, run_agent_analysis).
THEOREM AnalysisAlwaysFitsBoard == Spec => []AnalysisFitsBoard
<1>1. ChainInv => AnalysisFitsBoard
  BY DEF ChainInv
<1> QED
  BY <1>1, ChainInvariance, PTL

-----------------------------------------------------------------------------
(***************************************************************************)
(* Launcher.  What is left of a sleep or of a request bounds how late the  *)
(* next look at the deadline is; a request that has met a stack that was   *)
(* not healthy bounds for how long the stack has been healthy since.       *)
(***************************************************************************)

Latest == HealthTimeout + PollInterval + ClientTimeout

LauncherInv ==
  /\ Launcher!TypeOK
  /\ startup = "Sleeping" => elapsed + timer <= HealthTimeout + PollInterval
  /\ startup = "Polling" => timer <= ClientTimeout /\ elapsed + timer <= Latest
  /\ startup = "Polling" /\ unsure => healthyFor + timer <= ClientTimeout + 1
  /\ startup = "Waiting" => healthyFor <= ClientTimeout + 1

LEMMA LauncherConstants ==
  ASSUME ServicesAssumption
  PROVE  HealthTimeout \in Nat /\ PollInterval \in Nat /\ ClientTimeout \in Nat
BY DEF ServicesAssumption, Launcher!LauncherAssumption

LEMMA LauncherNumbers ==
  ASSUME ServicesAssumption, LauncherInv
  PROVE  /\ HealthTimeout \in Nat /\ PollInterval \in Nat /\ ClientTimeout \in Nat
         /\ Latest \in Nat /\ Latest = HealthTimeout + PollInterval + ClientTimeout
         /\ elapsed \in Nat /\ elapsed <= Latest
         /\ timer \in Nat /\ timer <= PollInterval + ClientTimeout
         /\ healthyFor \in Nat /\ healthyFor <= ClientTimeout + 2
BY LauncherConstants DEF LauncherInv, Launcher!TypeOK, Launcher!Long, Latest

\* What Emit shows is one of the three.
LEMMA LauncherShows ==
  ASSUME NEW state \in Launcher!Startups, Launcher!Emit(state)
  PROVE  startup' = state /\ shownBy' \in {"busy", "error", "frontend"}
BY DEF Launcher!Emit, Launcher!Show

LEMMA LauncherStep ==
  ASSUME ServicesAssumption, LauncherInv, Launcher!Next
  PROVE  LauncherInv'
<1> USE LauncherNumbers
<1>1. ASSUME startup' \in Launcher!Startups, shownBy' \in {"busy", "error", "frontend"},
             installed' \in BOOLEAN, running' \in BOOLEAN, unsure' \in BOOLEAN,
             elapsed' \in Nat, elapsed' <= Latest,
             timer' \in Nat, timer' <= PollInterval + ClientTimeout,
             healthyFor' \in Nat, healthyFor' <= ClientTimeout + 2
      PROVE  Launcher!TypeOK'
  BY <1>1 DEF Launcher!TypeOK, Launcher!Long, Latest
<1>2. CASE Launcher!CheckRuntime
  BY <1>1, <1>2, LauncherShows DEF Launcher!CheckRuntime, LauncherInv, Launcher!TypeOK,
     Launcher!Startups, Launcher!Terminal
<1>3. CASE Launcher!ComposeUp
  <2>1. installed' \in BOOLEAN /\ running' \in BOOLEAN /\ healthyFor' = healthyFor
    BY <1>3 DEF Launcher!ComposeUp, LauncherInv, Launcher!TypeOK
  <2>2. CASE Launcher!Emit("StartupFailed") /\ UNCHANGED <<elapsed, timer, unsure>>
    <3>1. startup' = "StartupFailed" /\ shownBy' \in {"busy", "error", "frontend"}
      BY <2>2, LauncherShows DEF Launcher!Startups, Launcher!Terminal
    <3>2. Launcher!TypeOK'
      BY <1>1, <2>1, <2>2, <3>1 DEF LauncherInv, Launcher!TypeOK, Launcher!Startups,
         Launcher!Terminal
    <3> QED
      BY <3>1, <3>2 DEF LauncherInv
  <2>3. CASE Launcher!Emit("Polling") /\ elapsed' = 0 /\ Launcher!BeginRequest
    <3>1. startup' = "Polling" /\ shownBy' \in {"busy", "error", "frontend"}
      BY <2>3, LauncherShows DEF Launcher!Startups
    <3>2. elapsed' = 0 /\ timer' = ClientTimeout /\ unsure' = (healthyFor = 0)
      BY <2>3 DEF Launcher!BeginRequest
    <3>3. Launcher!TypeOK'
      BY <1>1, <2>1, <3>1, <3>2 DEF Launcher!Startups
    <3> QED
      <4>1. timer' <= ClientTimeout /\ elapsed' + timer' <= Latest
        BY <3>2
      <4>2. unsure' => healthyFor' + timer' <= ClientTimeout + 1
        <5>1. unsure' => healthyFor = 0
          BY <3>2
        <5> QED
          BY <2>1, <3>2, <5>1
      <4> QED
        BY <3>1, <3>3, <4>1, <4>2, LauncherConstants DEF LauncherInv, Latest
  <2> QED
    BY <1>3, <2>2, <2>3 DEF Launcher!ComposeUp
<1>4. CASE Launcher!PollOk
  BY <1>1, <1>4, LauncherShows DEF Launcher!PollOk, LauncherInv, Launcher!TypeOK,
     Launcher!Startups, Launcher!Terminal
<1>5. CASE Launcher!PollNotOk
  BY <1>1, <1>5, LauncherShows DEF Launcher!PollNotOk, LauncherInv, Launcher!TypeOK,
     Launcher!Startups
<1>6. CASE Launcher!GiveUp
  BY <1>1, <1>6, LauncherShows DEF Launcher!GiveUp, LauncherInv, Launcher!TypeOK,
     Launcher!Startups, Launcher!Terminal
<1>7. CASE Launcher!Sleep
  BY <1>1, <1>7 DEF Launcher!Sleep, LauncherInv, Launcher!TypeOK, Launcher!Startups
<1>8. CASE Launcher!PollAgain
  <2>1. /\ startup = "Sleeping" /\ timer = 0 /\ startup' = "Polling"
        /\ timer' = ClientTimeout /\ unsure' = (healthyFor = 0)
        /\ UNCHANGED <<installed, shownBy, elapsed, running, healthyFor>>
    BY <1>8 DEF Launcher!PollAgain, Launcher!BeginRequest
  <2>2. elapsed <= HealthTimeout + PollInterval
    BY <2>1 DEF LauncherInv
  <2>3. Launcher!TypeOK'
    BY <1>1, <2>1 DEF LauncherInv, Launcher!TypeOK, Launcher!Startups
  <2> QED
    <3>1. timer' <= ClientTimeout /\ elapsed' + timer' <= Latest
      BY <2>1, <2>2
    <3>2. unsure' => healthyFor' + timer' <= ClientTimeout + 1
      <4>1. unsure' => healthyFor = 0
        BY <2>1
      <4> QED
        BY <2>1, <4>1
    <3> QED
      BY <2>1, <2>3, <3>1, <3>2, LauncherConstants DEF LauncherInv, Latest
<1>9. CASE Launcher!Tick
  <2>1. /\ healthyFor' \in Nat /\ healthyFor' <= ClientTimeout + 2 /\ healthyFor' <= healthyFor + 1
        /\ startup # "Waiting" /\ UNCHANGED <<installed, startup, shownBy, unsure, running>>
    BY <1>9 DEF Launcher!Tick, Launcher!Long
  <2>2. CASE Launcher!Timed
    <3>1. timer > 0 /\ timer' = timer - 1 /\ elapsed' = elapsed + 1
      BY <1>9, <2>2 DEF Launcher!Tick
    <3>2. elapsed + timer <= Latest
      BY <2>2 DEF LauncherInv, Launcher!Timed
    <3>3. timer' \in Nat /\ elapsed' \in Nat /\ elapsed' <= Latest
      BY <3>1, <3>2
    <3>4. Launcher!TypeOK'
      BY <1>1, <2>1, <3>1, <3>3 DEF LauncherInv, Launcher!TypeOK
    <3> QED
      BY <2>1, <3>1, <3>4 DEF LauncherInv
  <2>3. CASE ~Launcher!Timed
    <3>1. UNCHANGED <<timer, elapsed>>
      BY <1>9, <2>3 DEF Launcher!Tick
    <3>2. Launcher!TypeOK'
      BY <1>1, <2>1, <3>1 DEF LauncherInv, Launcher!TypeOK
    <3> QED
      BY <2>1, <2>3, <3>1, <3>2 DEF LauncherInv, Launcher!Timed
  <2> QED
    BY <2>2, <2>3
<1>10. CASE Launcher!Retry
  BY <1>1, <1>10 DEF Launcher!Retry, LauncherInv, Launcher!TypeOK, Launcher!Startups
<1>11. CASE Launcher!StopStack
  <2>1. /\ running' = FALSE /\ healthyFor' = 0
        /\ unsure' = (unsure \/ startup = "Polling")
        /\ UNCHANGED <<installed, startup, shownBy, elapsed, timer>>
    BY <1>11 DEF Launcher!StopStack
  <2>2. unsure' \in BOOLEAN /\ running' \in BOOLEAN
    BY <2>1 DEF LauncherInv, Launcher!TypeOK
  <2>3. Launcher!TypeOK'
    BY <1>1, <2>1, <2>2 DEF LauncherInv, Launcher!TypeOK
  <2> QED
    BY <2>1, <2>3 DEF LauncherInv
<1>12. CASE Launcher!HealthChanges
  BY <1>1, <1>12 DEF Launcher!HealthChanges, LauncherInv, Launcher!TypeOK
<1> QED
  BY <1>2, <1>3, <1>4, <1>5, <1>6, <1>7, <1>8, <1>9, <1>10, <1>11, <1>12 DEF Launcher!Next

LEMMA LauncherBegins == ServicesAssumption /\ Launcher!Init => LauncherInv
<1> SUFFICES ASSUME ServicesAssumption, Launcher!Init
             PROVE  LauncherInv
  OBVIOUS
<1>1. /\ startup \in {"CheckingRuntime", "None"} /\ shownBy \in {"busy", "error"}
      /\ elapsed = 0 /\ timer = 0 /\ unsure = FALSE
      /\ installed \in BOOLEAN /\ running \in BOOLEAN /\ healthyFor \in {0, ClientTimeout + 2}
  BY DEF Launcher!Init, Launcher!Long
<1>2. HealthTimeout + PollInterval + ClientTimeout \in Nat /\ PollInterval + ClientTimeout \in Nat
  BY LauncherConstants
<1>3. healthyFor \in 0..(ClientTimeout + 2) /\ 0 \in 0..(PollInterval + ClientTimeout)
      /\ 0 \in 0..(HealthTimeout + PollInterval + ClientTimeout)
  BY <1>1, <1>2, LauncherConstants
<1>4. Launcher!TypeOK
  BY <1>1, <1>3 DEF Launcher!TypeOK, Launcher!Startups, Launcher!Long
<1> QED
  BY <1>1, <1>4 DEF LauncherInv

LEMMA LauncherInvariance == Spec => []LauncherInv
<1>1. Launcher!Init => LauncherInv
  BY ServicesAssumption, LauncherBegins
<1>2. LauncherInv /\ [Launcher!Next]_(Launcher!launcherVars) => LauncherInv'
  <2> SUFFICES ASSUME LauncherInv, [Launcher!Next]_(Launcher!launcherVars)
               PROVE  LauncherInv'
    OBVIOUS
  <2>1. CASE UNCHANGED Launcher!launcherVars
    BY <2>1 DEF Launcher!launcherVars, LauncherInv, Launcher!TypeOK
  <2> QED
    BY <2>1, ServicesAssumption, LauncherStep
<1> QED
  BY <1>1, <1>2, LauncherRuns, PTL DEF Launcher!Spec

\* A startup gives up no earlier than its timeout, no later than one interval and one request
\* after it, and never on a stack that has been healthy for longer than a request takes, for any
\* timeouts (start_stack).
THEOREM LauncherGivesUpFairly == Spec => GivesUpFairly
<1>1. LauncherInv /\ [Launcher!Next]_(Launcher!launcherVars) =>
        [startup # "HealthTimedOut" /\ startup' = "HealthTimedOut" =>
           /\ elapsed \in HealthTimeout..(HealthTimeout + PollInterval + ClientTimeout)
           /\ healthyFor <= ClientTimeout + 1]_(Launcher!launcherVars)
  <2> SUFFICES ASSUME LauncherInv, Launcher!Next,
                      startup # "HealthTimedOut", startup' = "HealthTimedOut"
               PROVE  /\ elapsed \in HealthTimeout..(HealthTimeout + PollInterval + ClientTimeout)
                      /\ healthyFor <= ClientTimeout + 1
    OBVIOUS
  <2>1. Launcher!GiveUp
    BY DEF Launcher!Next, Launcher!CheckRuntime, Launcher!ComposeUp, Launcher!PollOk,
       Launcher!PollNotOk, Launcher!Sleep, Launcher!PollAgain, Launcher!Tick, Launcher!Retry,
       Launcher!StopStack, Launcher!HealthChanges, Launcher!Emit
  <2> QED
    BY <2>1, ServicesAssumption, LauncherNumbers DEF Launcher!GiveUp, LauncherInv
<1>2. GivesUpFairly <=> Launcher!GivesUpFairly
  BY DEF GivesUpFairly
<1> QED
  BY <1>1, <1>2, LauncherInvariance, LauncherRuns, PTL DEF Launcher!Spec, Launcher!GivesUpFairly

-----------------------------------------------------------------------------
(***************************************************************************)
(* Chat.  The rows of a turn are counted by their positions: none before   *)
(* the question is stored, one of the question afterwards, one of the      *)
(* answer when the turn is done.                                           *)
(***************************************************************************)

ChatPcs == {"new", "asking", "asked", "calling", "tools", "answering", "unavailable", "done",
            "broken", "left"}
ChatRows == [turn : Turns, role : {"user", "assistant"}]
ChatTurns == [pc : ChatPcs, rounds : 0..MaxToolIterations, calls : 0..MaxCalls]

Positions(t, role) == {n \in 1..Len(messages) : messages[n] = Chat!Message(t, role)}

ChatTypes ==
  /\ present \in BOOLEAN
  /\ messages \in Seq(ChatRows)
  /\ turn \in [Turns -> ChatTurns]
  /\ faults \in ChatFaults
  /\ \A t \in Turns : turn[t].pc = "tools" => turn[t].calls # 0

\* The rows of a turn, while its session exists.
QuestionStored(t) ==
  IF turn[t].pc \in {"new", "asking"} THEN Positions(t, "user") = {}
  ELSE turn[t].pc # "left" => \E n \in 1..Len(messages) : Positions(t, "user") = {n}
AnswerStored(t) ==
  IF turn[t].pc = "done" THEN \E n \in 1..Len(messages) : Positions(t, "assistant") = {n}
  ELSE Positions(t, "assistant") = {}
AnswerFollows(t) ==
  \A n \in Positions(t, "assistant") : \E k \in Positions(t, "user") : k < n

RowsOf(t) == QuestionStored(t) /\ AnswerStored(t) /\ AnswerFollows(t)

ChatInv == ChatTypes /\ (present => \A t \in Turns : RowsOf(t))

LEMMA ChatConstants ==
  ASSUME ServicesAssumption
  PROVE  MaxToolIterations \in Nat /\ MaxCalls \in Nat
BY DEF ServicesAssumption, Chat!ChatAssumption

\* A step that stores nothing keeps the rows of a turn that does not pass the question or its end.
LEMMA ChatKeeps ==
  ASSUME NEW t \in Turns, RowsOf(t), UNCHANGED messages,
         \/ turn'[t].pc = turn[t].pc
         \/ turn[t].pc = "new" /\ turn'[t].pc = "asking"
         \/ turn[t].pc \notin {"new", "asking", "left", "done"} /\ turn'[t].pc \notin {"new", "asking", "done"}
         \/ turn'[t].pc = "left" /\ turn[t].pc # "done"
  PROVE  RowsOf(t)'
<1>1. \A role : Positions(t, role)' = Positions(t, role)
  BY DEF Positions, Chat!Message
<1>2. Len(messages)' = Len(messages)
  OBVIOUS
<1>3. QuestionStored(t)'
  BY <1>1, <1>2 DEF RowsOf, QuestionStored
<1>4. AnswerStored(t)'
  BY <1>1, <1>2 DEF RowsOf, AnswerStored
<1>5. AnswerFollows(t)'
  BY <1>1 DEF RowsOf, AnswerFollows
<1> QED
  BY <1>3, <1>4, <1>5 DEF RowsOf

\* What a row that is stored changes.
LEMMA ChatStores ==
  ASSUME ChatTypes, NEW s \in Turns, NEW kind \in {"user", "assistant"},
         messages' = Append(messages, Chat!Message(s, kind))
  PROVE  /\ messages' \in Seq(ChatRows)
         /\ Len(messages) \in Nat /\ Len(messages)' = Len(messages) + 1
         /\ \A t \in Turns, role \in {"user", "assistant"} :
              Positions(t, role)' =
                IF t = s /\ role = kind THEN Positions(t, role) \cup {Len(messages)'}
                ELSE Positions(t, role)
<1>1. messages \in Seq(ChatRows) /\ Chat!Message(s, kind) \in ChatRows
  BY DEF ChatTypes, ChatRows, Chat!Message
<1>2. /\ messages' \in Seq(ChatRows)
      /\ Len(messages) \in Nat /\ Len(messages)' = Len(messages) + 1
      /\ \A n \in 1..Len(messages) : messages'[n] = messages[n]
      /\ messages'[Len(messages) + 1] = Chat!Message(s, kind)
  BY <1>1
<1>3. ASSUME NEW t \in Turns, NEW role \in {"user", "assistant"}
      PROVE  Positions(t, role)' =
                IF t = s /\ role = kind THEN Positions(t, role) \cup {Len(messages)'}
                ELSE Positions(t, role)
  <2>1. Chat!Message(t, role) = Chat!Message(s, kind) <=> t = s /\ role = kind
    BY DEF Chat!Message
  <2>2. Chat!Message(t, role)' = Chat!Message(t, role)
    BY DEF Chat!Message
  <2>3. 1..Len(messages)' = 1..Len(messages) \cup {Len(messages) + 1}
    BY <1>2
  <2> QED
    BY <1>2, <2>1, <2>2, <2>3 DEF Positions
<1> QED
  BY <1>2, <1>3

\* The step of a turn that stores nothing.
LEMMA ChatMoves ==
  ASSUME ServicesAssumption, ChatInv, NEW s \in Turns,
         Chat!Open(s) \/ Chat!Prepare(s) \/ Chat!Complete(s) \/ Chat!Exhaust(s)
           \/ (\E name \in Chat!Tools \cup {"unknown"} : Chat!RunTool(s, name)) \/ Chat!Leave(s)
  PROVE  /\ UNCHANGED <<present, messages, faults>>
         /\ turn' \in [Turns -> ChatTurns]
         /\ \A t \in Turns \ {s} : turn'[t] = turn[t]
         /\ turn'[s].pc = "tools" => turn'[s].calls # 0
         /\ \/ turn'[s].pc = turn[s].pc
            \/ turn[s].pc = "new" /\ turn'[s].pc = "asking"
            \/ turn[s].pc \notin {"new", "asking", "left", "done"} /\ turn'[s].pc \notin {"new", "asking", "done"}
            \/ turn'[s].pc = "left" /\ turn[s].pc # "done"
<1> USE ChatConstants
<1>1. turn \in [Turns -> ChatTurns] /\ turn[s] \in ChatTurns
      /\ (turn[s].pc = "tools" => turn[s].calls # 0)
  BY DEF ChatInv, ChatTypes
<1>2. ASSUME NEW pc \in ChatPcs, Chat!Enter(s, pc)
      PROVE  /\ turn' \in [Turns -> ChatTurns]
             /\ \A t \in Turns \ {s} : turn'[t] = turn[t]
             /\ turn'[s] = [turn[s] EXCEPT !.pc = pc]
             /\ turn'[s].pc = pc
  <2>1. turn' = [turn EXCEPT ![s] = [turn[s] EXCEPT !.pc = pc]]
    BY <1>2 DEF Chat!Enter
  <2>2. [turn[s] EXCEPT !.pc = pc] \in ChatTurns /\ [turn[s] EXCEPT !.pc = pc].pc = pc
    BY <1>1 DEF ChatTurns
  <2> QED
    BY <1>1, <2>1, <2>2
<1>3. CASE Chat!Open(s)
  BY <1>3, <1>2 DEF Chat!Open, ChatPcs
<1>4. CASE Chat!Prepare(s)
  BY <1>4, <1>2 DEF Chat!Prepare, ChatPcs
<1>5. CASE Chat!Complete(s)
  <2>1. UNCHANGED <<present, messages, faults>> /\ turn[s].pc = "calling"
        /\ turn[s].rounds < MaxToolIterations
    BY <1>5 DEF Chat!Complete
  <2>2. CASE \E pc \in {"answering", "unavailable", "broken"} : Chat!Enter(s, pc)
    BY <2>1, <2>2, <1>2 DEF ChatPcs
  <2>3. ASSUME NEW n \in 1..MaxCalls,
               turn' = [turn EXCEPT ![s].pc = "tools", ![s].rounds = @ + 1, ![s].calls = n]
        PROVE  /\ turn' \in [Turns -> ChatTurns]
               /\ \A t \in Turns \ {s} : turn'[t] = turn[t]
               /\ turn'[s].pc = "tools" /\ turn'[s].calls # 0
    <3>1. turn[s].rounds \in 0..MaxToolIterations /\ turn[s].rounds + 1 \in 0..MaxToolIterations
      BY <1>1, <2>1 DEF ChatTurns
    <3>2. turn' = [turn EXCEPT ![s] =
                     [turn[s] EXCEPT !.pc = "tools", !.rounds = turn[s].rounds + 1, !.calls = n]]
      BY <2>3, <1>1
    <3> DEFINE moved == [turn[s] EXCEPT !.pc = "tools", !.rounds = turn[s].rounds + 1, !.calls = n]
    <3>3. moved \in ChatTurns /\ moved.pc = "tools" /\ moved.calls = n /\ n # 0
      <4>1. n \in 0..MaxCalls /\ n # 0
        BY <2>3
      <4>2. "tools" \in ChatPcs
        BY DEF ChatPcs
      <4> QED
        BY <1>1, <3>1, <4>1, <4>2 DEF ChatTurns
    <3> HIDE DEF moved
    <3>4. turn' = [turn EXCEPT ![s] = moved]
      BY <3>2 DEF moved
    <3> QED
      BY <1>1, <3>3, <3>4
  <2> QED
    BY <1>5, <2>1, <2>2, <2>3 DEF Chat!Complete
<1>6. CASE Chat!Exhaust(s)
  BY <1>6, <1>2 DEF Chat!Exhaust, ChatPcs
<1>7. ASSUME NEW name \in Chat!Tools \cup {"unknown"}, Chat!RunTool(s, name)
      PROVE  /\ UNCHANGED <<present, messages, faults>>
             /\ turn' \in [Turns -> ChatTurns]
             /\ \A t \in Turns \ {s} : turn'[t] = turn[t]
             /\ turn[s].pc = "tools"
             /\ turn'[s].pc = "tools" => turn'[s].calls # 0
             /\ turn'[s].pc \in {"broken", "calling", "tools"}
  <2>1. UNCHANGED <<present, messages, faults>> /\ turn[s].pc = "tools"
    BY <1>7 DEF Chat!RunTool
  <2>2. CASE Chat!Enter(s, "broken")
    BY <2>1, <2>2, <1>2 DEF ChatPcs
  <2>3. CASE turn' = [turn EXCEPT ![s].calls = @ - 1,
                                  ![s].pc = IF turn[s].calls = 1 THEN "calling" ELSE @]
    <3> DEFINE pc == IF turn[s].calls = 1 THEN "calling" ELSE "tools"
               moved == [turn[s] EXCEPT !.calls = turn[s].calls - 1, !.pc = pc]
    <3>1. turn[s].calls \in 0..MaxCalls /\ turn[s].calls # 0 /\ turn[s].calls - 1 \in 0..MaxCalls
      BY <1>1, <2>1 DEF ChatTurns
    <3>2. turn' = [turn EXCEPT ![s] = moved]
      BY <2>1, <2>3, <1>1
    <3>3. moved \in ChatTurns /\ moved.pc = pc /\ moved.calls = turn[s].calls - 1
      BY <1>1, <3>1 DEF ChatTurns, ChatPcs
    <3>4. moved.pc = "tools" => moved.calls # 0
      BY <3>1, <3>3
    <3>5. moved.pc \in {"calling", "tools"}
      BY <3>3
    <3> HIDE DEF moved
    <3> QED
      BY <1>1, <2>1, <3>2, <3>3, <3>4, <3>5
  <2> QED
    BY <1>7, <2>2, <2>3 DEF Chat!RunTool
<1>8. CASE Chat!Leave(s)
  BY <1>8, <1>2 DEF Chat!Leave, ChatPcs
<1> QED
  BY <1>3, <1>4, <1>5, <1>6, <1>7, <1>8

\* The step of a turn that stores a row, or finds its session deleted.
LEMMA ChatStep ==
  ASSUME ServicesAssumption, ChatInv, Chat!Next
  PROVE  ChatInv'
<1> USE ChatConstants
<1>1. CASE \E s \in Turns :
             \/ Chat!Open(s) \/ Chat!Prepare(s) \/ Chat!Complete(s) \/ Chat!Exhaust(s)
             \/ (\E name \in Chat!Tools \cup {"unknown"} : Chat!RunTool(s, name)) \/ Chat!Leave(s)
  <2>1. PICK s \in Turns :
             Chat!Open(s) \/ Chat!Prepare(s) \/ Chat!Complete(s) \/ Chat!Exhaust(s)
             \/ (\E name \in Chat!Tools \cup {"unknown"} : Chat!RunTool(s, name)) \/ Chat!Leave(s)
    BY <1>1
  <2>2. /\ UNCHANGED <<present, messages, faults>>
        /\ turn' \in [Turns -> ChatTurns]
        /\ \A t \in Turns \ {s} : turn'[t] = turn[t]
        /\ turn'[s].pc = "tools" => turn'[s].calls # 0
        /\ \/ turn'[s].pc = turn[s].pc
           \/ turn[s].pc = "new" /\ turn'[s].pc = "asking"
           \/ turn[s].pc \notin {"new", "asking", "left", "done"} /\ turn'[s].pc \notin {"new", "asking", "done"}
           \/ turn'[s].pc = "left" /\ turn[s].pc # "done"
    BY <2>1, ChatMoves
  <2>3. ChatTypes'
    BY <2>2 DEF ChatInv, ChatTypes
  <2>4. ASSUME present', NEW t \in Turns
        PROVE  RowsOf(t)'
    <3>1. RowsOf(t) /\ UNCHANGED messages
      BY <2>2, <2>4 DEF ChatInv
    <3>2. CASE t = s
      BY <2>2, <3>1, <3>2, ChatKeeps
    <3>3. CASE t # s
      BY <2>2, <3>1, <3>3, ChatKeeps
    <3> QED
      BY <3>2, <3>3
  <2> QED
    BY <2>3, <2>4 DEF ChatInv
<1>2. ASSUME NEW s \in Turns, NEW role \in {"user", "assistant"}, NEW pc \in {"asked", "done"},
             UNCHANGED <<present, faults>>, Chat!Store(s, role, pc)
      PROVE  /\ ChatTypes'
             /\ \A t \in Turns \ {s} : turn'[t] = turn[t]
             /\ present => turn'[s].pc = pc /\ messages' = Append(messages, Chat!Message(s, role))
  <2> DEFINE next == IF present THEN pc ELSE "broken"
  <2>1. turn \in [Turns -> ChatTurns] /\ turn[s] \in ChatTurns /\ next \in ChatPcs
        /\ next # "tools"
    BY DEF ChatInv, ChatTypes, ChatPcs
  <2> HIDE DEF next
  <2>2. turn' = [turn EXCEPT ![s] = [turn[s] EXCEPT !.pc = next]]
    BY <1>2 DEF Chat!Store, Chat!Enter, next
  <2>3. [turn[s] EXCEPT !.pc = next] \in ChatTurns /\ [turn[s] EXCEPT !.pc = next].pc = next
    BY <2>1 DEF ChatTurns
  <2>4. /\ turn' \in [Turns -> ChatTurns] /\ turn'[s].pc = next
        /\ \A t \in Turns \ {s} : turn'[t] = turn[t]
    BY <2>1, <2>2, <2>3
  <2>5. messages' = IF present THEN Append(messages, Chat!Message(s, role)) ELSE messages
    BY <1>2 DEF Chat!Store
  <2>6. messages' \in Seq(ChatRows)
    BY <2>5, ChatStores DEF ChatInv, ChatTypes
  <2>7. ASSUME NEW t \in Turns, turn'[t].pc = "tools" PROVE turn'[t].calls # 0
    <3>1. t # s
      BY <2>1, <2>4, <2>7
    <3> QED
      BY <2>4, <2>7, <3>1 DEF ChatInv, ChatTypes
  <2> QED
    BY <1>2, <2>4, <2>5, <2>6, <2>7 DEF ChatInv, ChatTypes, next
<1>3. ASSUME NEW s \in Turns, Chat!Ask(s)
      PROVE  ChatInv'
  <2>1. turn[s].pc = "asking" /\ UNCHANGED <<present, faults>> /\ Chat!Store(s, "user", "asked")
    BY <1>3 DEF Chat!Ask
  <2>2. /\ ChatTypes'
        /\ \A t \in Turns \ {s} : turn'[t] = turn[t]
        /\ present => turn'[s].pc = "asked" /\ messages' = Append(messages, Chat!Message(s, "user"))
    BY <1>2, <2>1
  <2>3. ASSUME present', NEW t \in Turns
        PROVE  RowsOf(t)'
    <3>1. /\ Len(messages) \in Nat /\ Len(messages)' = Len(messages) + 1
          /\ Positions(t, "assistant")' = Positions(t, "assistant")
          /\ Positions(t, "user")' = IF t = s THEN Positions(t, "user") \cup {Len(messages)'}
                                      ELSE Positions(t, "user")
      BY <2>1, <2>2, <2>3, ChatStores DEF ChatInv
    <3>2. RowsOf(t)
      BY <2>1, <2>3 DEF ChatInv
    <3>3. CASE t = s
      <4>1. Positions(t, "user") = {} /\ Positions(t, "assistant") = {}
        BY <2>1, <3>2, <3>3 DEF RowsOf, QuestionStored, AnswerStored
      <4>2. turn'[t].pc = "asked" /\ Positions(t, "user")' = {Len(messages)'}
            /\ Positions(t, "assistant")' = {} /\ Len(messages)' \in 1..Len(messages)'
        BY <2>1, <2>2, <2>3, <3>1, <3>3, <4>1
      <4> QED
        BY <4>2 DEF RowsOf, QuestionStored, AnswerStored, AnswerFollows
    <3>4. CASE t # s
      <4>1. turn'[t] = turn[t] /\ Positions(t, "user")' = Positions(t, "user")
            /\ Positions(t, "assistant")' = Positions(t, "assistant")
            /\ \A n \in 1..Len(messages) : n \in 1..Len(messages)'
        BY <2>2, <3>1, <3>4
      <4> QED
        BY <3>2, <4>1 DEF RowsOf, QuestionStored, AnswerStored, AnswerFollows
    <3> QED
      BY <3>3, <3>4
  <2> QED
    BY <2>2, <2>3 DEF ChatInv
<1>4. ASSUME NEW s \in Turns, Chat!Answer(s)
      PROVE  ChatInv'
  <2>1. turn[s].pc \in {"answering", "unavailable"} /\ UNCHANGED <<present, faults>>
        /\ Chat!Store(s, "assistant", "done")
    BY <1>4 DEF Chat!Answer
  <2>2. /\ ChatTypes'
        /\ \A t \in Turns \ {s} : turn'[t] = turn[t]
        /\ present => turn'[s].pc = "done"
                      /\ messages' = Append(messages, Chat!Message(s, "assistant"))
    BY <1>2, <2>1
  <2>3. ASSUME present', NEW t \in Turns
        PROVE  RowsOf(t)'
    <3>1. /\ Len(messages) \in Nat /\ Len(messages)' = Len(messages) + 1
          /\ Positions(t, "user")' = Positions(t, "user")
          /\ Positions(t, "assistant")' =
               IF t = s THEN Positions(t, "assistant") \cup {Len(messages)'}
               ELSE Positions(t, "assistant")
      BY <2>1, <2>2, <2>3, ChatStores DEF ChatInv
    <3>2. RowsOf(t)
      BY <2>1, <2>3 DEF ChatInv
    <3>3. CASE t = s
      <4>1. Positions(t, "assistant") = {}
            /\ \E k \in 1..Len(messages) : Positions(t, "user") = {k}
        BY <2>1, <3>2, <3>3 DEF RowsOf, QuestionStored, AnswerStored
      <4>2. PICK k \in 1..Len(messages) : Positions(t, "user") = {k}
        BY <4>1
      <4>3. turn'[t].pc = "done" /\ Positions(t, "assistant")' = {Len(messages)'}
            /\ Positions(t, "user")' = {k} /\ Len(messages)' \in 1..Len(messages)'
            /\ k < Len(messages)' /\ k \in 1..Len(messages)'
        BY <2>1, <2>2, <2>3, <3>1, <3>3, <4>1, <4>2
      <4> QED
        BY <4>3 DEF RowsOf, QuestionStored, AnswerStored, AnswerFollows
    <3>4. CASE t # s
      <4>1. turn'[t] = turn[t] /\ Positions(t, "user")' = Positions(t, "user")
            /\ Positions(t, "assistant")' = Positions(t, "assistant")
            /\ \A n \in 1..Len(messages) : n \in 1..Len(messages)'
        BY <2>2, <3>1, <3>4
      <4> QED
        BY <3>2, <4>1 DEF RowsOf, QuestionStored, AnswerStored, AnswerFollows
    <3> QED
      BY <3>3, <3>4
  <2> QED
    BY <2>2, <2>3 DEF ChatInv
<1>5. CASE Chat!DeleteSession
  <2>1. present' = FALSE /\ messages' = <<>> /\ UNCHANGED <<turn, faults>>
    BY <1>5 DEF Chat!DeleteSession
  <2>2. present' \in BOOLEAN /\ messages' \in Seq(ChatRows)
    <3>1. <<>> \in Seq(ChatRows)
      OBVIOUS
    <3> QED
      BY <2>1, <3>1
  <2>3. ChatTypes'
    BY <2>1, <2>2 DEF ChatInv, ChatTypes
  <2> QED
    BY <2>1, <2>3 DEF ChatInv
<1> QED
  BY <1>1, <1>3, <1>4, <1>5 DEF Chat!Next, Chat!Work

LEMMA ChatBegins == ServicesAssumption /\ Chat!Init => ChatInv
<1> SUFFICES ASSUME ServicesAssumption, Chat!Init
             PROVE  ChatInv
  OBVIOUS
<1>1. /\ present = TRUE /\ messages = <<>> /\ turn = [t \in Turns |-> Chat!Waiting]
      /\ faults \in ChatFaults
  BY DEF Chat!Init
<1>2. Chat!Waiting \in ChatTurns /\ Chat!Waiting.pc = "new"
  BY ChatConstants DEF Chat!Waiting, ChatTurns, ChatPcs
<1>3. messages \in Seq(ChatRows) /\ Len(messages) = 0
  BY <1>1
<1>4. \A t \in Turns, role \in {"user", "assistant"} : Positions(t, role) = {}
  BY <1>3 DEF Positions
<1>5. \A t \in Turns : turn[t] = Chat!Waiting
  BY <1>1
<1> QED
  BY <1>1, <1>2, <1>3, <1>4, <1>5
  DEF ChatInv, ChatTypes, RowsOf, QuestionStored, AnswerStored, AnswerFollows

LEMMA ChatInvariance == Spec => []ChatInv
<1>1. Chat!Init => ChatInv
  BY ServicesAssumption, ChatBegins
<1>2. ChatInv /\ [Chat!Next]_(Chat!chatVars) => ChatInv'
  <2> SUFFICES ASSUME ChatInv, [Chat!Next]_(Chat!chatVars)
               PROVE  ChatInv'
    OBVIOUS
  <2>1. CASE UNCHANGED Chat!chatVars
    BY <2>1 DEF Chat!chatVars, ChatInv, ChatTypes, RowsOf, QuestionStored, AnswerStored,
       AnswerFollows, Positions, Chat!Message
  <2> QED
    BY <2>1, ServicesAssumption, ChatStep
<1> QED
  BY <1>1, <1>2, ChatRuns, PTL DEF Chat!Spec

LEMMA ChatCardinality ==
  /\ Chat!Cardinality({}) = 0
  /\ \A n : Chat!Cardinality({n}) = 1
<1>1. \A S : Chat!Cardinality(S) = Cardinality(S)
  BY Zenon DEF Chat!Cardinality, Cardinality
<1> QED
  BY <1>1, FS_EmptySet, FS_Singleton

LEMMA ChatIsTyped == ChatInv => Chat!TypeOK
BY DEF ChatInv, ChatTypes, Chat!TypeOK, ChatRows, ChatTurns, ChatPcs

\* While its session exists, a question whose turn reached the model is in the history once,
\* before its answer, and has one answer exactly when its turn came to an end, for any turns side
\* by side and whatever fails (run_turn, append_user_message, append_assistant_message).
THEOREM ConversationStaysIntact == Spec => []ConversationIntact
<1>1. ChatInv => ConversationIntact
  <2> SUFFICES ASSUME ChatInv, present, NEW t \in Turns
               PROVE  /\ Chat!Begun(t) /\ turn[t].pc # "left" => Chat!Count(t, "user") = 1
                      /\ Chat!Count(t, "assistant") = (IF turn[t].pc = "done" THEN 1 ELSE 0)
                      /\ \A n \in DOMAIN messages :
                           messages[n] = Chat!Message(t, "assistant") =>
                             \E k \in 1..(n - 1) : messages[k] = Chat!Message(t, "user")
    BY DEF ConversationIntact, Chat!ConversationIntact
  <2>1. RowsOf(t) /\ DOMAIN messages = 1..Len(messages) /\ Len(messages) \in Nat
    BY DEF ChatInv, ChatTypes
  <2>2. \A role : Chat!Count(t, role) = Chat!Cardinality(Positions(t, role))
    BY <2>1 DEF Chat!Count, Positions
  <2>3. Chat!Begun(t) /\ turn[t].pc # "left" => Chat!Count(t, "user") = 1
    BY <2>1, <2>2, ChatCardinality DEF RowsOf, QuestionStored, Chat!Begun
  <2>4. Chat!Count(t, "assistant") = (IF turn[t].pc = "done" THEN 1 ELSE 0)
    BY <2>1, <2>2, ChatCardinality DEF RowsOf, AnswerStored
  <2>5. ASSUME NEW n \in DOMAIN messages, messages[n] = Chat!Message(t, "assistant")
        PROVE  \E k \in 1..(n - 1) : messages[k] = Chat!Message(t, "user")
    <3>1. n \in Positions(t, "assistant")
      BY <2>1, <2>5 DEF Positions
    <3>2. PICK k \in Positions(t, "user") : k < n
      BY <2>1, <3>1 DEF RowsOf, AnswerFollows
    <3>3. k \in 1..(n - 1) /\ messages[k] = Chat!Message(t, "user")
      BY <2>1, <3>2 DEF Positions
    <3> QED
      BY <3>3
  <2> QED
    BY <2>3, <2>4, <2>5
<1> QED
  BY <1>1, ChatInvariance, PTL

-----------------------------------------------------------------------------
(***************************************************************************)
(* EventStream.  What is excused is excused from three sides: the cache    *)
(* lacks no image it was invalidated for; an answer on its way to the      *)
(* dashboard, when no announcement is, lacks no announced image; and so    *)
(* does what the dashboard shows when nothing is on its way at all.        *)
(***************************************************************************)

Announced == {i \in Images : stage[i] = "announced"}
Passed == {i \in Images : stage[i] \in {"invalidated", "announced"}}
Finished == {i \in Images : stage[i] # "queued"}

ServingStates ==
  {EventStream!Idle} \cup [pc : {"check", "compute"}]
    \cup [pc : {"store", "reply"}, answer : EventStream!Aggregates]

EventTypes ==
  /\ stage \in [Images -> EventStream!Stages]
  /\ kept \in EventStream!Aggregates /\ view \in EventStream!Aggregates
  /\ stream \in {"waiting", "connected", "subscribed"}
  /\ channel \in Nat /\ channel <= Cardinality(Announced)
  /\ fetch \in Requests \cup {EventStream!NoFetch}
  /\ serving \in [Requests -> ServingStates]
  /\ drops \in 0..MaxDrops
  /\ excused \subseteq Images

KeptIsCurrent == kept # EventStream!Nothing => Passed \ excused \subseteq kept
AnswerIsCurrent ==
  \A r \in Requests :
    channel = 0 /\ fetch = r /\ serving[r].pc \in {"store", "reply"} =>
      Announced \ excused \subseteq serving[r].answer
ViewIsCurrent ==
  view # EventStream!Nothing /\ channel = 0 /\ fetch = EventStream!NoFetch =>
    Announced \ excused \subseteq view

EventInv == EventTypes /\ KeptIsCurrent /\ AnswerIsCurrent /\ ViewIsCurrent

LEMMA EventConstants ==
  ASSUME ServicesAssumption
  PROVE  IsFiniteSet(Images) /\ MaxDrops \in Nat /\ EventStream!NoFetch \notin Requests
<1>1. \A S : EventStream!IsFiniteSet(S) <=> IsFiniteSet(S)
  BY DEF EventStream!IsFiniteSet, IsFiniteSet
<1> QED
  BY <1>1 DEF ServicesAssumption, EventStream!EventStreamAssumption

LEMMA AnnouncedIsFinite ==
  ASSUME ServicesAssumption
  PROVE  IsFiniteSet(Announced) /\ Cardinality(Announced) \in Nat
         /\ Cardinality(Announced) <= Cardinality(Images) /\ Cardinality(Images) \in Nat
<1>1. Announced \subseteq Images
  BY DEF Announced
<1> QED
  BY <1>1, EventConstants, FS_Subset, FS_CardinalityType

\* What a serving state holds, by its pc.
LEMMA ServingByPc ==
  ASSUME NEW s \in ServingStates
  PROVE  /\ s.pc \in {"idle", "check", "compute", "store", "reply"}
         /\ s.pc \in {"check", "compute"} => s \in [pc : {"check", "compute"}]
         /\ s.pc \in {"store", "reply"} => s \in [pc : {"store", "reply"}, answer : EventStream!Aggregates]
BY DEF ServingStates, EventStream!Idle

\* The steps of the task, and the aggregate they are about.
LEMMA TaskStep ==
  ASSUME ServicesAssumption, EventInv, NEW i \in Images,
         EventStream!CompleteImage(i) \/ EventStream!InvalidateStats(i) \/ EventStream!PublishEvent(i)
  PROVE  EventInv'
<1>1. stage \in [Images -> EventStream!Stages] /\ excused \subseteq Images /\ channel \in Nat
      /\ EventTypes
  BY DEF EventInv, EventTypes
<1>2. CASE EventStream!CompleteImage(i)
  <2>1. /\ stage[i] = "queued" /\ stage' = [stage EXCEPT ![i] = "committed"]
        /\ UNCHANGED <<kept, stream, channel, view, fetch, serving, drops, excused>>
    BY <1>2 DEF EventStream!CompleteImage
  <2>2. Announced' = Announced /\ Passed' = Passed
    BY <1>1, <2>1 DEF Announced, Passed
  <2>3. stage' \in [Images -> EventStream!Stages]
    BY <1>1, <2>1 DEF EventStream!Stages
  <2>4. EventTypes'
    BY <2>1, <2>2, <2>3 DEF EventInv, EventTypes
  <2> QED
    BY <2>1, <2>2, <2>4 DEF EventInv, KeptIsCurrent, AnswerIsCurrent, ViewIsCurrent
<1>3. CASE EventStream!InvalidateStats(i)
  <2>1. /\ stage[i] = "committed" /\ stage' = [stage EXCEPT ![i] = "invalidated"]
        /\ \/ kept' = EventStream!Nothing /\ UNCHANGED excused
           \/ kept' = kept /\ excused' = excused \cup {i}
        /\ UNCHANGED <<stream, channel, view, fetch, serving, drops>>
    BY <1>3 DEF EventStream!InvalidateStats
  <2>2. Announced' = Announced /\ Passed' = Passed \cup {i} /\ excused \subseteq excused'
    BY <1>1, <2>1 DEF Announced, Passed
  <2>3. stage' \in [Images -> EventStream!Stages] /\ kept' \in EventStream!Aggregates
        /\ excused' \subseteq Images
    BY <1>1, <2>1 DEF EventStream!Stages, EventStream!Aggregates, EventTypes
  <2>4. EventTypes'
    BY <2>1, <2>2, <2>3 DEF EventInv, EventTypes
  <2>5. KeptIsCurrent'
    BY <2>1, <2>2 DEF EventInv, KeptIsCurrent
  <2> QED
    BY <2>1, <2>2, <2>4, <2>5 DEF EventInv, AnswerIsCurrent, ViewIsCurrent
<1>4. CASE EventStream!PublishEvent(i)
  <2>1. /\ stage[i] = "invalidated" /\ stage' = [stage EXCEPT ![i] = "announced"]
        /\ \/ channel' = channel + 1 /\ UNCHANGED excused
           \/ channel' = channel /\ excused' = excused \cup {i}
        /\ UNCHANGED <<kept, stream, view, fetch, serving, drops>>
    BY <1>4 DEF EventStream!PublishEvent, EventStream!Publish
  <2>2. Announced' = Announced \cup {i} /\ Passed' = Passed /\ i \notin Announced
    BY <1>1, <2>1 DEF Announced, Passed
  <2>3. stage' \in [Images -> EventStream!Stages] /\ excused' \subseteq Images
    BY <1>1, <2>1 DEF EventStream!Stages
  <2>4. Cardinality(Announced)' = Cardinality(Announced) + 1
    BY <2>2, AnnouncedIsFinite, FS_AddElement
  <2>5. channel' \in Nat /\ channel' <= Cardinality(Announced)'
    BY <1>1, <2>1, <2>4, AnnouncedIsFinite DEF EventTypes
  <2>6. EventTypes'
    BY <2>1, <2>3, <2>5 DEF EventInv, EventTypes
  <2>7. KeptIsCurrent'
    BY <2>1, <2>2 DEF EventInv, KeptIsCurrent
  <2>8. channel' = 0 => channel = 0 /\ Announced' \ excused' = Announced \ excused'
    BY <1>1, <2>1, <2>2
  <2>9. AnswerIsCurrent' /\ ViewIsCurrent'
    BY <2>1, <2>8 DEF EventInv, AnswerIsCurrent, ViewIsCurrent
  <2> QED
    BY <2>6, <2>7, <2>9 DEF EventInv
<1> QED
  BY <1>2, <1>3, <1>4

\* The steps of the API for a request.
LEMMA ApiStep ==
  ASSUME ServicesAssumption, EventInv, NEW r \in Requests,
         EventStream!CheckCache(r) \/ EventStream!ComputeSummary(r) \/ EventStream!SetCached(r)
           \/ EventStream!Reply(r)
  PROVE  EventInv'
<1>1. /\ EventTypes /\ serving \in [Requests -> ServingStates] /\ serving[r] \in ServingStates
      /\ kept \in EventStream!Aggregates /\ excused \subseteq Images
  BY DEF EventInv, EventTypes
<1>2. Announced \subseteq Passed /\ Announced \subseteq Finished
      /\ Finished \in EventStream!Aggregates /\ EventStream!Done = Finished
  BY DEF Announced, Passed, Finished, EventStream!Aggregates, EventStream!Done
<1>3. ASSUME NEW s \in ServingStates, serving' = [serving EXCEPT ![r] = s]
      PROVE  /\ serving' \in [Requests -> ServingStates] /\ serving'[r] = s
             /\ \A q \in Requests \ {r} : serving'[q] = serving[q]
  BY <1>1, <1>3
<1>4. CASE EventStream!CheckCache(r)
  <2>1. /\ serving[r].pc = "check"
        /\ UNCHANGED <<stage, kept, stream, channel, view, fetch, drops, excused>>
    BY <1>4 DEF EventStream!CheckCache
  <2>2. Announced' = Announced /\ Passed' = Passed
    BY <2>1 DEF Announced, Passed
  <2>3. PICK s \in ServingStates :
          /\ serving' = [serving EXCEPT ![r] = s]
          /\ s.pc = "reply" => kept # EventStream!Nothing /\ s.answer = kept
          /\ s.pc \in {"reply", "compute"}
    <3>1. CASE kept # EventStream!Nothing
               /\ serving' = [serving EXCEPT ![r] = [pc |-> "reply", answer |-> kept]]
      <4>1. [pc |-> "reply", answer |-> kept] \in ServingStates
        BY <1>1 DEF ServingStates
      <4> QED
        BY <3>1, <4>1
    <3>2. CASE serving' = [serving EXCEPT ![r] = [pc |-> "compute"]]
      <4>1. [pc |-> "compute"] \in ServingStates
        BY DEF ServingStates
      <4> QED
        BY <3>2, <4>1
    <3> QED
      BY <1>4, <3>1, <3>2 DEF EventStream!CheckCache
  <2>4. /\ serving' \in [Requests -> ServingStates] /\ serving'[r] = s
        /\ \A q \in Requests \ {r} : serving'[q] = serving[q]
    BY <1>3, <2>3
  <2>5. EventTypes'
    BY <2>1, <2>2, <2>4 DEF EventInv, EventTypes
  <2>6. AnswerIsCurrent'
    BY <1>2, <2>1, <2>2, <2>3, <2>4 DEF EventInv, AnswerIsCurrent, KeptIsCurrent
  <2> QED
    BY <2>1, <2>2, <2>5, <2>6 DEF EventInv, KeptIsCurrent, ViewIsCurrent
<1>5. CASE EventStream!ComputeSummary(r)
  <2>1. /\ serving' = [serving EXCEPT ![r] = [pc |-> "store", answer |-> Finished]]
        /\ UNCHANGED <<stage, kept, stream, channel, view, fetch, drops, excused>>
    BY <1>2, <1>5 DEF EventStream!ComputeSummary
  <2>2. Announced' = Announced /\ Passed' = Passed
    BY <2>1 DEF Announced, Passed
  <2>3. [pc |-> "store", answer |-> Finished] \in ServingStates
    BY <1>2 DEF ServingStates
  <2>4. /\ serving' \in [Requests -> ServingStates] /\ serving'[r].answer = Finished
        /\ \A q \in Requests \ {r} : serving'[q] = serving[q]
    BY <1>3, <2>1, <2>3
  <2>5. EventTypes'
    BY <2>1, <2>2, <2>4 DEF EventInv, EventTypes
  <2>6. AnswerIsCurrent'
    BY <1>2, <2>1, <2>2, <2>4 DEF EventInv, AnswerIsCurrent
  <2> QED
    BY <2>1, <2>2, <2>5, <2>6 DEF EventInv, KeptIsCurrent, ViewIsCurrent
<1>6. CASE EventStream!SetCached(r)
  <2>1. /\ serving[r].pc = "store" /\ serving' = [serving EXCEPT ![r].pc = "reply"]
        /\ UNCHANGED <<stage, stream, channel, view, fetch, drops>>
        /\ \/ /\ kept' = serving[r].answer
              /\ excused' = excused \cup (Passed \ serving[r].answer)
           \/ kept' = kept /\ UNCHANGED excused
    <3>1. {i \in Images \ serving[r].answer : stage[i] \in {"invalidated", "announced"}}
            = Passed \ serving[r].answer
      BY DEF Passed
    <3> QED
      BY <1>6, <3>1 DEF EventStream!SetCached
  <2>2. Announced' = Announced /\ Passed' = Passed /\ Passed \subseteq Images
    BY <2>1 DEF Announced, Passed
  <2>3. serving[r] \in [pc : {"store", "reply"}, answer : EventStream!Aggregates]
    BY <1>1, <2>1, ServingByPc
  <2> DEFINE s == [serving[r] EXCEPT !.pc = "reply"]
  <2>4. /\ s \in [pc : {"store", "reply"}, answer : EventStream!Aggregates]
        /\ s.pc = "reply" /\ s.answer = serving[r].answer
    BY <2>3
  <2>5. s \in ServingStates
    BY <2>4 DEF ServingStates
  <2>6. serving' = [serving EXCEPT ![r] = s]
    BY <2>1
  <2> HIDE DEF s
  <2>7. /\ serving' \in [Requests -> ServingStates] /\ serving'[r] = s
        /\ \A q \in Requests \ {r} : serving'[q] = serving[q]
    BY <1>3, <2>5, <2>6
  <2>8. excused \subseteq excused' /\ excused' \subseteq Images
        /\ kept' \in EventStream!Aggregates
    BY <1>1, <2>1, <2>2, <2>3
  <2>9. EventTypes'
    BY <2>1, <2>2, <2>7, <2>8 DEF EventInv, EventTypes
  <2>10. KeptIsCurrent'
    BY <2>1, <2>2 DEF EventInv, KeptIsCurrent
  <2>11. AnswerIsCurrent'
    BY <2>1, <2>2, <2>4, <2>7, <2>8 DEF EventInv, AnswerIsCurrent
  <2>12. ViewIsCurrent'
    BY <2>1, <2>2, <2>8 DEF EventInv, ViewIsCurrent
  <2> QED
    BY <2>9, <2>10, <2>11, <2>12 DEF EventInv
<1>7. CASE EventStream!Reply(r)
  <2>1. /\ serving[r].pc = "reply" /\ serving' = [serving EXCEPT ![r] = EventStream!Idle]
        /\ UNCHANGED <<stage, kept, stream, channel, drops>>
        /\ \/ /\ fetch = r /\ fetch' = EventStream!NoFetch
              /\ \/ view' = serving[r].answer /\ UNCHANGED excused
                 \/ view' = view /\ excused' = excused \cup Finished
           \/ fetch # r /\ UNCHANGED <<view, fetch, excused>>
    BY <1>2, <1>7 DEF EventStream!Reply
  <2>2. Announced' = Announced /\ Passed' = Passed /\ Finished \subseteq Images
    BY <2>1 DEF Announced, Passed, Finished
  <2>3. serving[r].answer \in EventStream!Aggregates
    BY <1>1, <2>1, ServingByPc
  <2>4. EventStream!Idle \in ServingStates /\ EventStream!Idle.pc = "idle"
    BY DEF ServingStates, EventStream!Idle
  <2>5. /\ serving' \in [Requests -> ServingStates] /\ serving'[r].pc = "idle"
        /\ \A q \in Requests \ {r} : serving'[q] = serving[q]
    BY <1>3, <2>1, <2>4
  <2>6. excused \subseteq excused' /\ excused' \subseteq Images
    BY <1>1, <2>1, <2>2
  <2>7. EventTypes'
    BY <2>1, <2>2, <2>3, <2>5, <2>6 DEF EventInv, EventTypes
  <2>8. KeptIsCurrent'
    BY <2>1, <2>2, <2>6 DEF EventInv, KeptIsCurrent
  <2>9. AnswerIsCurrent'
    BY <2>1, <2>2, <2>5, EventConstants DEF EventInv, AnswerIsCurrent
  <2>10. ViewIsCurrent'
    <3>1. CASE fetch = r /\ view' = serving[r].answer /\ UNCHANGED excused
      BY <2>1, <2>2, <3>1 DEF EventInv, AnswerIsCurrent, ViewIsCurrent
    <3>2. CASE view' = view /\ excused' = excused \cup Finished
      BY <1>2, <2>1, <2>2, <3>2 DEF ViewIsCurrent
    <3>3. CASE UNCHANGED <<view, fetch, excused>>
      BY <2>1, <2>2, <3>3 DEF EventInv, ViewIsCurrent
    <3> QED
      BY <2>1, <3>1, <3>2, <3>3
  <2> QED
    BY <2>7, <2>8, <2>9, <2>10 DEF EventInv
<1> QED
  BY <1>4, <1>5, <1>6, <1>7

\* The browser begins a request.
LEMMA FetchBegins ==
  ASSUME ServicesAssumption, EventInv, NEW r \in Requests, EventStream!Fetch(r)
  PROVE  /\ fetch' = r /\ fetch' # EventStream!NoFetch
         /\ serving' \in [Requests -> ServingStates] /\ serving'[r].pc = "check"
<1>1. fetch' = r /\ serving' = [serving EXCEPT ![r] = [pc |-> "check"]]
  BY DEF EventStream!Fetch
<1>2. [pc |-> "check"] \in ServingStates
  BY DEF ServingStates
<1>3. serving \in [Requests -> ServingStates]
  BY DEF EventInv, EventTypes
<1> QED
  BY <1>1, <1>2, <1>3, EventConstants

\* The steps of the browser for a request, and those of the stream and of the cache.
LEMMA BrowserStep ==
  ASSUME ServicesAssumption, EventInv, NEW r \in Requests,
         EventStream!Refetch(r) \/ EventStream!HandleEvent(r)
  PROVE  EventInv'
<1>1. /\ EventTypes /\ channel \in Nat /\ excused \subseteq Images
      /\ channel <= Cardinality(Announced) /\ Cardinality(Announced) \in Nat
  BY AnnouncedIsFinite DEF EventInv, EventTypes
<1>2. CASE EventStream!Refetch(r)
  <2>1. EventStream!Fetch(r) /\ UNCHANGED <<stage, kept, stream, channel, view, drops, excused>>
    BY <1>2 DEF EventStream!Refetch
  <2>2. Announced' = Announced /\ Passed' = Passed
    BY <2>1 DEF Announced, Passed
  <2>3. EventTypes'
    BY <2>1, <2>2, FetchBegins DEF EventInv, EventTypes
  <2>4. AnswerIsCurrent' /\ ViewIsCurrent'
    BY <2>1, FetchBegins DEF AnswerIsCurrent, ViewIsCurrent
  <2> QED
    BY <2>1, <2>2, <2>3, <2>4 DEF EventInv, KeptIsCurrent
<1>3. CASE EventStream!HandleEvent(r)
  <2>1. /\ channel > 0 /\ channel' = channel - 1
        /\ UNCHANGED <<stage, kept, stream, view, drops>>
        /\ \/ /\ fetch # EventStream!NoFetch /\ excused' = excused \cup Finished
              /\ UNCHANGED <<fetch, serving>>
           \/ EventStream!Fetch(r) /\ UNCHANGED excused
    <3>1. EventStream!Done = Finished
      BY DEF EventStream!Done, Finished
    <3> QED
      BY <1>3, <3>1 DEF EventStream!HandleEvent
  <2>2. Announced' = Announced /\ Passed' = Passed /\ Announced \subseteq Finished
        /\ Finished \subseteq Images
    BY <2>1 DEF Announced, Passed, Finished
  <2>3. channel' \in Nat /\ channel' <= Cardinality(Announced)'
    BY <1>1, <2>1, <2>2
  <2>4. excused \subseteq excused' /\ excused' \subseteq Images
    BY <1>1, <2>1, <2>2
  <2>5. fetch' \in Requests \cup {EventStream!NoFetch} /\ fetch' # EventStream!NoFetch
        /\ serving' \in [Requests -> ServingStates]
    BY <1>1, <2>1, FetchBegins DEF EventTypes
  <2>6. EventTypes'
    BY <2>1, <2>3, <2>4, <2>5 DEF EventInv, EventTypes
  <2>7. KeptIsCurrent'
    BY <2>1, <2>2, <2>4 DEF EventInv, KeptIsCurrent
  <2>8. AnswerIsCurrent'
    <3>1. CASE excused' = excused \cup Finished
      BY <2>2, <3>1 DEF AnswerIsCurrent
    <3>2. CASE EventStream!Fetch(r)
      BY <3>2, FetchBegins DEF AnswerIsCurrent
    <3> QED
      BY <2>1, <3>1, <3>2
  <2> QED
    BY <2>5, <2>6, <2>7, <2>8 DEF EventInv, ViewIsCurrent
<1> QED
  BY <1>2, <1>3

LEMMA StreamStep ==
  ASSUME ServicesAssumption, EventInv,
         EventStream!Expire \/ EventStream!Connect \/ EventStream!Subscribe \/ EventStream!Drop
  PROVE  EventInv'
<1>1. EventTypes /\ channel \in Nat /\ excused \subseteq Images /\ drops \in 0..MaxDrops
      /\ Cardinality(Announced) \in Nat /\ MaxDrops \in Nat
  BY AnnouncedIsFinite, EventConstants DEF EventInv, EventTypes
<1>2. UNCHANGED <<stage, view, fetch, serving>>
  BY DEF EventStream!Expire, EventStream!Connect, EventStream!Subscribe, EventStream!Drop
<1>3. Announced' = Announced /\ Passed' = Passed /\ Announced \subseteq Images
  BY <1>2 DEF Announced, Passed
<1>4. CASE EventStream!Expire
  <2>1. kept' = EventStream!Nothing /\ UNCHANGED <<stream, channel, drops, excused>>
    BY <1>4 DEF EventStream!Expire
  <2>2. kept' \in EventStream!Aggregates
    BY <2>1 DEF EventStream!Aggregates
  <2>3. EventTypes'
    BY <1>1, <1>2, <1>3, <2>1, <2>2 DEF EventTypes
  <2> QED
    BY <1>2, <1>3, <2>1, <2>3 DEF EventInv, KeptIsCurrent, AnswerIsCurrent, ViewIsCurrent
<1>5. CASE EventStream!Connect \/ EventStream!Subscribe
  <2>1. stream' \in {"connected", "subscribed"} /\ UNCHANGED <<kept, channel, drops, excused>>
    BY <1>5 DEF EventStream!Connect, EventStream!Subscribe
  <2>2. EventTypes'
    BY <1>1, <1>2, <1>3, <2>1 DEF EventTypes
  <2> QED
    BY <1>2, <1>3, <2>1, <2>2 DEF EventInv, KeptIsCurrent, AnswerIsCurrent, ViewIsCurrent
<1>6. CASE EventStream!Drop
  <2>1. /\ stream' = "waiting" /\ drops < MaxDrops /\ drops' = drops + 1 /\ channel' = 0
        /\ excused' = IF channel > 0 THEN excused \cup Announced ELSE excused
        /\ kept' = kept
    BY <1>6 DEF EventStream!Drop, Announced
  <2>2. drops' \in 0..MaxDrops /\ channel' \in Nat /\ channel' <= Cardinality(Announced)'
    BY <1>1, <1>3, <2>1
  <2>3. excused \subseteq excused' /\ excused' \subseteq Images
    BY <1>1, <1>3, <2>1
  <2>4. EventTypes'
    BY <1>1, <1>2, <2>1, <2>2, <2>3 DEF EventTypes
  <2>5. KeptIsCurrent'
    BY <1>3, <2>1, <2>3 DEF EventInv, KeptIsCurrent
  <2>6. channel = 0 \/ Announced' \ excused' = {}
    BY <1>1, <1>3, <2>1
  <2>7. AnswerIsCurrent' /\ ViewIsCurrent'
    BY <1>2, <1>3, <2>3, <2>6 DEF EventInv, AnswerIsCurrent, ViewIsCurrent
  <2> QED
    BY <2>4, <2>5, <2>7 DEF EventInv
<1> QED
  BY <1>4, <1>5, <1>6

LEMMA EventBegins == ServicesAssumption /\ EventStream!Init => EventInv
<1> SUFFICES ASSUME ServicesAssumption, EventStream!Init
             PROVE  EventInv
  OBVIOUS
<1>1. /\ stage = [i \in Images |-> "queued"] /\ kept = EventStream!Nothing /\ stream = "waiting"
      /\ channel = 0 /\ view = EventStream!Nothing /\ fetch = EventStream!NoFetch
      /\ serving = [r \in Requests |-> EventStream!Idle] /\ drops = 0 /\ excused = {}
  BY DEF EventStream!Init
<1>2. stage \in [Images -> EventStream!Stages] /\ serving \in [Requests -> ServingStates]
      /\ EventStream!Nothing \in EventStream!Aggregates
  BY <1>1 DEF EventStream!Stages, ServingStates, EventStream!Aggregates
<1>3. 0 \in 0..MaxDrops /\ 0 <= Cardinality(Announced)
  BY EventConstants, AnnouncedIsFinite
<1>4. EventTypes
  BY <1>1, <1>2, <1>3 DEF EventTypes
<1> QED
  BY <1>1, <1>4, EventConstants DEF EventInv, KeptIsCurrent, AnswerIsCurrent, ViewIsCurrent

LEMMA EventInvariance == Spec => []EventInv
<1>1. EventStream!Init => EventInv
  BY ServicesAssumption, EventBegins
<1>2. EventInv /\ [EventStream!Next]_(EventStream!eventVars) => EventInv'
  <2> SUFFICES ASSUME EventInv, [EventStream!Next]_(EventStream!eventVars)
               PROVE  EventInv'
    OBVIOUS
  <2>1. CASE UNCHANGED EventStream!eventVars
    BY <2>1 DEF EventStream!eventVars, EventInv, EventTypes, KeptIsCurrent, AnswerIsCurrent,
       ViewIsCurrent, Announced, Passed
  <2>2. CASE EventStream!Next
    BY <2>2, ServicesAssumption, TaskStep, ApiStep, BrowserStep, StreamStep DEF EventStream!Next
  <2> QED
    BY <2>1, <2>2
<1> QED
  BY <1>1, <1>2, EventStreamRuns, PTL DEF EventStream!Spec

LEMMA EventIsTyped == ServicesAssumption /\ EventInv => EventStream!TypeOK
<1> SUFFICES ASSUME ServicesAssumption, EventInv
             PROVE  EventStream!TypeOK
  OBVIOUS
<1>1. EventStream!Cardinality(Images) = Cardinality(Images)
  BY Zenon DEF EventStream!Cardinality, Cardinality
<1>2. channel \in 0..Cardinality(Images)
  BY AnnouncedIsFinite DEF EventInv, EventTypes
<1> QED
  BY <1>1, <1>2 DEF EventInv, EventTypes, ServingStates, EventStream!TypeOK

\* When every announcement has been handled and its fetch answered, the dashboard counts every
\* image whose task is over but for those with something of theirs lost, for any images, requests
\* and breaks of the stream (publish_event, invalidate_all, useEventStream).
THEOREM CompletionsAreShown == Spec => []EveryCompletionIsShown
<1>1. EventInv => EveryCompletionIsShown
  BY DEF EventInv, ViewIsCurrent, Announced, EveryCompletionIsShown,
     EventStream!EveryCompletionIsShown
<1> QED
  BY <1>1, EventInvariance, PTL

-----------------------------------------------------------------------------
(***************************************************************************)
(* Dashboard.  Between its first count and its last a request has missed   *)
(* no completed image but those that arrived meanwhile: the images that    *)
(* are complete and did not arrive are no more than it has counted.        *)
(***************************************************************************)

ImageRows == [status : Dashboard!Statuses, found : SUBSET Classes, drawn : SUBSET Classes]
Reading ==
  [pc : {"overview", "defects", "boards", "answer"}, arrived : SUBSET Images,
   completed : Nat, counts : [Classes -> Nat], boards : Nat]
Complete == {i \in Images : image[i].status = "COMPLETED"}

DashboardTypes ==
  /\ image \in [Images -> ImageRows]
  /\ finishing \subseteq Images
  /\ asked \in Keys
  /\ query \in [Queries -> {Dashboard!Idle} \cup Reading]

\* One request: it has counted what is complete and did not arrive since; its answer is not skewed.
Kept(q) ==
  /\ q.pc \in {"defects", "boards"} => Cardinality(Complete \ q.arrived) <= q.completed
  /\ q.pc = "answer" => q.boards <= q.completed + Cardinality(q.arrived)

DashboardInv == DashboardTypes /\ \A r \in Queries : Kept(query[r])

LEMMA DashboardFinite ==
  ASSUME ServicesAssumption
  PROVE  /\ IsFiniteSet(Images)
         /\ \A S \in SUBSET Images : IsFiniteSet(S) /\ Cardinality(S) \in Nat
         /\ \A S \in SUBSET Images : Dashboard!Cardinality(S) = Cardinality(S)
         /\ \A S, T \in SUBSET Images : S \subseteq T => Cardinality(S) <= Cardinality(T)
<1>1. \A S : Dashboard!IsFiniteSet(S) <=> IsFiniteSet(S)
  BY DEF Dashboard!IsFiniteSet, IsFiniteSet
<1>2. \A S : Dashboard!Cardinality(S) = Cardinality(S)
  BY Zenon DEF Dashboard!Cardinality, Cardinality
<1>3. IsFiniteSet(Images)
  BY <1>1 DEF ServicesAssumption, Dashboard!DashboardAssumption
<1>4. \A S \in SUBSET Images : IsFiniteSet(S) /\ Cardinality(S) \in Nat
  BY <1>3, FS_Subset, FS_CardinalityType
<1>5. \A S, T \in SUBSET Images : S \subseteq T => Cardinality(S) <= Cardinality(T)
  BY <1>4, FS_Subset
<1> QED
  BY <1>2, <1>3, <1>4, <1>5

LEMMA ReadingByPc ==
  ASSUME NEW q \in {Dashboard!Idle} \cup Reading
  PROVE  /\ q.pc \in {"idle", "overview", "defects", "boards", "answer"}
         /\ q.pc # "idle" => q \in Reading
BY DEF Dashboard!Idle, Reading

\* An image changes its status: a request under way takes note of one that completes.
LEMMA SettleKeeps ==
  ASSUME ServicesAssumption, DashboardInv, NEW i \in Images, NEW status \in Dashboard!Statuses,
         NEW detected \in SUBSET Classes, Dashboard!Settle(i, status, detected)
  PROVE  /\ image' \in [Images -> ImageRows]
         /\ query' \in [Queries -> {Dashboard!Idle} \cup Reading]
         /\ \A r \in Queries : Kept(query[r])'
<1>1. image \in [Images -> ImageRows] /\ query \in [Queries -> {Dashboard!Idle} \cup Reading]
  BY DEF DashboardInv, DashboardTypes
<1>2. image' = [image EXCEPT ![i] = [image[i] EXCEPT !.status = status, !.found = detected]]
  BY <1>1 DEF Dashboard!Settle
<1>3. [image[i] EXCEPT !.status = status, !.found = detected] \in ImageRows
      /\ [image[i] EXCEPT !.status = status, !.found = detected].status = status
  BY <1>1 DEF ImageRows
<1>4. image' \in [Images -> ImageRows] /\ image'[i].status = status
      /\ \A j \in Images \ {i} : image'[j] = image[j]
  BY <1>1, <1>2, <1>3
<1>5. /\ Complete' \subseteq Complete \cup {i}
      /\ status # "COMPLETED" => Complete' \subseteq Complete
      /\ Complete \subseteq Images /\ Complete' \subseteq Images
  BY <1>4 DEF Complete
<1>6. ASSUME NEW r \in Queries
      PROVE  query'[r] \in {Dashboard!Idle} \cup Reading /\ Kept(query[r])'
  <2>1. query[r] \in {Dashboard!Idle} \cup Reading /\ Kept(query[r])
    BY <1>1 DEF DashboardInv
  <2>2. CASE status = "COMPLETED" /\ query[r].pc # "idle"
    <3>1. query[r] \in Reading
      BY <2>1, <2>2, ReadingByPc
    <3> DEFINE noted == [query[r] EXCEPT !.arrived = query[r].arrived \cup {i}]
    <3>2. query'[r] = noted
      BY <2>2 DEF Dashboard!Settle
    <3>3. /\ noted \in Reading /\ noted.pc = query[r].pc /\ noted.completed = query[r].completed
          /\ noted.boards = query[r].boards /\ noted.arrived = query[r].arrived \cup {i}
      BY <3>1 DEF Reading
    <3> HIDE DEF noted
    <3>4. /\ query[r].arrived \in SUBSET Images /\ noted.arrived \in SUBSET Images
          /\ query[r].completed \in Nat /\ query[r].boards \in Nat
      BY <3>1, <3>3 DEF Reading
    <3>5. Complete' \ noted.arrived \subseteq Complete \ query[r].arrived
      BY <1>5, <3>3
    <3>6. /\ Cardinality(Complete' \ noted.arrived) <= Cardinality(Complete \ query[r].arrived)
          /\ Cardinality(query[r].arrived) <= Cardinality(noted.arrived)
      BY <1>5, <3>3, <3>4, <3>5, DashboardFinite
    <3>7. /\ Cardinality(Complete' \ noted.arrived) \in Nat
          /\ Cardinality(Complete \ query[r].arrived) \in Nat
          /\ Cardinality(query[r].arrived) \in Nat /\ Cardinality(noted.arrived) \in Nat
      BY <1>5, <3>4, DashboardFinite
    <3>8. noted.pc \in {"defects", "boards"} =>
            Cardinality(Complete' \ noted.arrived) <= noted.completed
      BY <2>1, <3>3, <3>4, <3>6, <3>7 DEF Kept
    <3>9. noted.pc = "answer" => noted.boards <= noted.completed + Cardinality(noted.arrived)
      BY <2>1, <3>3, <3>4, <3>6, <3>7 DEF Kept
    <3> QED
      BY <3>2, <3>3, <3>8, <3>9 DEF Kept
  <2>3. CASE ~(status = "COMPLETED" /\ query[r].pc # "idle")
    <3>1. query'[r] = query[r]
      BY <2>3 DEF Dashboard!Settle
    <3>2. CASE query[r].pc = "idle"
      BY <2>1, <3>1, <3>2 DEF Kept
    <3>3. CASE query[r].pc # "idle"
      <4>1. query[r] \in Reading
        BY <2>1, <3>3, ReadingByPc
      <4>2. Complete' \ query[r].arrived \subseteq Complete \ query[r].arrived
        BY <1>5, <2>3, <3>3
      <4>3. Cardinality(Complete' \ query[r].arrived) <= Cardinality(Complete \ query[r].arrived)
            /\ Cardinality(Complete' \ query[r].arrived) \in Nat
            /\ Cardinality(Complete \ query[r].arrived) \in Nat /\ query[r].completed \in Nat
        BY <1>5, <4>1, <4>2, DashboardFinite DEF Reading
      <4>4. query[r].pc \in {"defects", "boards"} =>
              Cardinality(Complete' \ query[r].arrived) <= query[r].completed
        BY <2>1, <4>3 DEF Kept
      <4> QED
        BY <2>1, <3>1, <4>4 DEF Kept
    <3> QED
      BY <3>2, <3>3
  <2> QED
    BY <2>2, <2>3
<1>7. query' \in [Queries -> {Dashboard!Idle} \cup Reading]
  <2>1. query' = [r \in Queries |-> query'[r]]
    BY DEF Dashboard!Settle
  <2> QED
    BY <1>6, <2>1
<1> QED
  BY <1>4, <1>6, <1>7

\* The pipeline, and the operator who draws.
LEMMA ImageStep ==
  ASSUME ServicesAssumption, DashboardInv, NEW i \in Images,
         \/ Dashboard!InferImage(i) \/ Dashboard!CompleteAnalysis(i) \/ Dashboard!RequestAnalysis(i)
         \/ Dashboard!InvalidateStats(i) \/ \E c \in Classes : Dashboard!AnnotateImage(i, c)
  PROVE  DashboardInv'
<1>1. image \in [Images -> ImageRows] /\ finishing \subseteq Images /\ asked \in Keys
      /\ query \in [Queries -> {Dashboard!Idle} \cup Reading]
  BY DEF DashboardInv, DashboardTypes
<1>2. image[i] \in ImageRows /\ image[i].found \in SUBSET Classes
  BY <1>1 DEF ImageRows
<1>3. asked' = asked
  BY DEF Dashboard!InferImage, Dashboard!CompleteAnalysis, Dashboard!RequestAnalysis,
     Dashboard!InvalidateStats, Dashboard!AnnotateImage
<1>4. CASE Dashboard!InferImage(i) \/ Dashboard!CompleteAnalysis(i) \/ Dashboard!RequestAnalysis(i)
  <2>1. PICK status \in Dashboard!Statuses, detected \in SUBSET Classes :
          Dashboard!Settle(i, status, detected)
    BY <1>2, <1>4 DEF Dashboard!InferImage, Dashboard!CompleteAnalysis, Dashboard!RequestAnalysis,
       Dashboard!Statuses
  <2>2. finishing' \subseteq Images
    BY <1>1, <1>4 DEF Dashboard!InferImage, Dashboard!CompleteAnalysis, Dashboard!RequestAnalysis
  <2> QED
    BY <1>1, <1>3, <2>1, <2>2, SettleKeeps DEF DashboardInv, DashboardTypes
<1>5. CASE Dashboard!InvalidateStats(i)
  <2>1. finishing' = finishing \ {i} /\ UNCHANGED <<image, query>>
    BY <1>5 DEF Dashboard!InvalidateStats
  <2>2. Complete' = Complete
    BY <2>1 DEF Complete
  <2> QED
    BY <1>1, <1>3, <2>1, <2>2 DEF DashboardInv, DashboardTypes, Kept
<1>6. ASSUME NEW c \in Classes, Dashboard!AnnotateImage(i, c)
      PROVE  DashboardInv'
  <2>1. UNCHANGED <<finishing, query>>
        /\ image' = [image EXCEPT ![i] = [image[i] EXCEPT !.drawn = image[i].drawn \cup {c}]]
    BY <1>1, <1>6 DEF Dashboard!AnnotateImage
  <2>2. [image[i] EXCEPT !.drawn = image[i].drawn \cup {c}] \in ImageRows
        /\ [image[i] EXCEPT !.drawn = image[i].drawn \cup {c}].status = image[i].status
    BY <1>2 DEF ImageRows
  <2>3. image' \in [Images -> ImageRows]
        /\ \A j \in Images : image'[j].status = image[j].status
    BY <1>1, <2>1, <2>2
  <2>4. Complete' = Complete
    BY <2>3 DEF Complete
  <2> QED
    BY <1>1, <1>3, <2>1, <2>3, <2>4 DEF DashboardInv, DashboardTypes, Kept
<1> QED
  BY <1>4, <1>5, <1>6

\* What the statements count.
LEMMA Counts ==
  ASSUME ServicesAssumption, DashboardInv
  PROVE  /\ Complete \in SUBSET Images
         /\ Dashboard!CompletedCount = Cardinality(Complete) /\ Dashboard!CompletedCount \in Nat
         /\ Dashboard!BoardsWithDefects \in Nat
         /\ Dashboard!BoardsWithDefects <= Cardinality(Complete)
         /\ Dashboard!DefectCounts \in [Classes -> Nat]
<1>1. Dashboard!Completed = Complete /\ Complete \in SUBSET Images
  BY DEF Dashboard!Completed, Complete
<1>2. Dashboard!Defective \in SUBSET Complete
  BY <1>1 DEF Dashboard!Defective
<1>3. Dashboard!CompletedCount = Cardinality(Complete) /\ Dashboard!CompletedCount \in Nat
  BY <1>1, DashboardFinite DEF Dashboard!CompletedCount
<1>4. Dashboard!BoardsWithDefects \in Nat /\ Dashboard!BoardsWithDefects <= Cardinality(Complete)
  BY <1>1, <1>2, DashboardFinite DEF Dashboard!BoardsWithDefects
<1>5. Dashboard!DefectCounts \in [Classes -> Nat]
  <2> SUFFICES ASSUME NEW c \in Classes
               PROVE  Dashboard!Cardinality({i \in Dashboard!Completed : c \in image[i].found})
                      + Dashboard!Cardinality({i \in Dashboard!Completed : c \in image[i].drawn}) \in Nat
    BY DEF Dashboard!DefectCounts
  <2>1. {i \in Dashboard!Completed : c \in image[i].found} \in SUBSET Images
        /\ {i \in Dashboard!Completed : c \in image[i].drawn} \in SUBSET Images
    BY <1>1
  <2>2. Dashboard!Cardinality({i \in Dashboard!Completed : c \in image[i].found}) \in Nat
    BY <2>1, DashboardFinite
  <2>3. Dashboard!Cardinality({i \in Dashboard!Completed : c \in image[i].drawn}) \in Nat
    BY <2>1, DashboardFinite
  <2> QED
    BY <2>2, <2>3
<1> QED
  BY <1>1, <1>3, <1>4, <1>5

\* A statement of a request.
LEMMA QueryStep ==
  ASSUME ServicesAssumption, DashboardInv, NEW r \in Queries,
         \/ Dashboard!CheckCache(r) \/ Dashboard!ReadOverview(r) \/ Dashboard!ReadDefectCounts(r)
         \/ Dashboard!ReadBoardsWithDefects(r) \/ Dashboard!SetCached(r)
  PROVE  DashboardInv'
<1>1. image \in [Images -> ImageRows] /\ finishing \subseteq Images /\ asked \in Keys
      /\ query \in [Queries -> {Dashboard!Idle} \cup Reading]
      /\ query[r] \in {Dashboard!Idle} \cup Reading /\ Kept(query[r])
  BY DEF DashboardInv, DashboardTypes
<1>2. UNCHANGED <<image, finishing, asked>>
  BY DEF Dashboard!CheckCache, Dashboard!ReadOverview, Dashboard!ReadDefectCounts,
     Dashboard!ReadBoardsWithDefects, Dashboard!SetCached
<1>3. Complete' = Complete
  BY <1>2 DEF Complete
<1>4. ASSUME NEW q \in {Dashboard!Idle} \cup Reading, query' = [query EXCEPT ![r] = q], Kept(q)
      PROVE  DashboardInv'
  <2>1. query' \in [Queries -> {Dashboard!Idle} \cup Reading] /\ query'[r] = q
        /\ \A o \in Queries \ {r} : query'[o] = query[o]
    BY <1>1, <1>4
  <2>2. ASSUME NEW o \in Queries PROVE Kept(query[o])'
    <3>1. Kept(query'[o])
      BY <1>4, <2>1 DEF DashboardInv
    <3> QED
      BY <1>3, <3>1 DEF Kept
  <2> QED
    BY <1>1, <1>2, <2>1, <2>2 DEF DashboardInv, DashboardTypes
<1>5. CASE Dashboard!CheckCache(r)
  <2>1. CASE cache = Dashboard!Miss
    <3>1. query' = [query EXCEPT ![r] = Dashboard!Begun]
      BY <1>5, <2>1 DEF Dashboard!CheckCache
    <3>2. Dashboard!Begun \in Reading /\ Dashboard!Begun.pc = "overview"
      BY DEF Dashboard!Begun, Reading
    <3> QED
      BY <1>4, <3>1, <3>2 DEF Kept
  <2>2. CASE cache # Dashboard!Miss
    <3>1. query' = query
      BY <1>5, <2>2 DEF Dashboard!CheckCache
    <3> QED
      BY <1>2, <1>3, <3>1 DEF DashboardInv, DashboardTypes, Kept
  <2> QED
    BY <2>1, <2>2
<1>6. CASE Dashboard!ReadOverview(r)
  <2> DEFINE pc == IF asked = "summary" THEN "boards" ELSE "defects"
             q == [query[r] EXCEPT !.pc = pc, !.completed = Dashboard!CompletedCount]
  <2>1. query[r] \in Reading
    BY <1>1, <1>6, ReadingByPc DEF Dashboard!ReadOverview
  <2>2. query' = [query EXCEPT ![r] = q]
    BY <1>1, <1>6 DEF Dashboard!ReadOverview
  <2>3. /\ q \in Reading /\ q.pc = pc /\ q.completed = Dashboard!CompletedCount
        /\ q.arrived = query[r].arrived
    BY <2>1, Counts DEF Reading
  <2>4. q.pc # "answer"
    BY <2>3
  <2> HIDE DEF q
  <2>5. Complete \ q.arrived \in SUBSET Images /\ Complete \ q.arrived \subseteq Complete
    BY Counts
  <2>6. Cardinality(Complete \ q.arrived) <= q.completed
    BY <2>3, <2>5, Counts, DashboardFinite
  <2> QED
    BY <1>4, <2>2, <2>3, <2>4, <2>6 DEF Kept
<1>7. CASE Dashboard!ReadDefectCounts(r)
  <2> DEFINE q == [query[r] EXCEPT !.pc = "boards", !.counts = Dashboard!DefectCounts]
  <2>1. query[r] \in Reading /\ query[r].pc = "defects"
    BY <1>1, <1>7, ReadingByPc DEF Dashboard!ReadDefectCounts
  <2>2. query' = [query EXCEPT ![r] = q]
    BY <1>1, <1>7 DEF Dashboard!ReadDefectCounts
  <2>3. /\ q \in Reading /\ q.pc = "boards" /\ q.completed = query[r].completed
        /\ q.arrived = query[r].arrived
    BY <2>1, Counts DEF Reading
  <2> HIDE DEF q
  <2> QED
    BY <1>1, <1>4, <2>1, <2>2, <2>3 DEF Kept
<1>8. CASE Dashboard!ReadBoardsWithDefects(r)
  <2> DEFINE q == [query[r] EXCEPT !.pc = "answer", !.boards = Dashboard!BoardsWithDefects]
  <2>1. query[r] \in Reading /\ query[r].pc = "boards"
    BY <1>1, <1>8, ReadingByPc DEF Dashboard!ReadBoardsWithDefects
  <2>2. query' = [query EXCEPT ![r] = q]
    BY <1>1, <1>8 DEF Dashboard!ReadBoardsWithDefects
  <2>3. /\ q \in Reading /\ q.pc = "answer" /\ q.completed = query[r].completed
        /\ q.arrived = query[r].arrived /\ q.boards = Dashboard!BoardsWithDefects
    BY <2>1, Counts DEF Reading
  <2> HIDE DEF q
  <2>4. q.completed \in Nat /\ q.arrived \in SUBSET Images /\ q.boards \in Nat
    BY <2>3 DEF Reading
  <2>5. Cardinality(Complete \ q.arrived) <= q.completed
    BY <1>1, <2>1, <2>3 DEF Kept
  <2>6. Cardinality(Complete) <= Cardinality(Complete \ q.arrived) + Cardinality(q.arrived)
    <3>1. IsFiniteSet(Complete \ q.arrived) /\ IsFiniteSet(q.arrived)
          /\ Complete \in SUBSET Images
          /\ (Complete \ q.arrived) \cup q.arrived \in SUBSET Images
          /\ Complete \subseteq (Complete \ q.arrived) \cup q.arrived
      BY <2>4, Counts, DashboardFinite
    <3>2. Cardinality(Complete) <= Cardinality((Complete \ q.arrived) \cup q.arrived)
      BY <3>1, DashboardFinite
    <3>3. (Complete \ q.arrived) \cap q.arrived = {}
      OBVIOUS
    <3>4. Cardinality((Complete \ q.arrived) \cup q.arrived)
            = Cardinality(Complete \ q.arrived) + Cardinality(q.arrived)
              - Cardinality((Complete \ q.arrived) \cap q.arrived)
      BY <3>1, FS_Union
    <3>5. Cardinality(Complete \ q.arrived) \in Nat /\ Cardinality(q.arrived) \in Nat
      BY <3>1, FS_CardinalityType
    <3>6. Cardinality((Complete \ q.arrived) \cap q.arrived) = 0
      BY <3>3, FS_EmptySet
    <3> QED
      BY <3>2, <3>4, <3>5, <3>6
  <2>7. q.boards <= q.completed + Cardinality(q.arrived)
    <3>1. Cardinality(Complete) \in Nat /\ Cardinality(Complete \ q.arrived) \in Nat
          /\ Cardinality(q.arrived) \in Nat
      BY <2>4, Counts, DashboardFinite
    <3> QED
      BY <2>3, <2>4, <2>5, <2>6, <3>1, Counts
  <2> QED
    BY <1>4, <2>2, <2>3, <2>7 DEF Kept
<1>9. CASE Dashboard!SetCached(r)
  <2>1. query' = [query EXCEPT ![r] = Dashboard!Idle]
    BY <1>9 DEF Dashboard!SetCached
  <2>2. Dashboard!Idle.pc = "idle"
    BY DEF Dashboard!Idle
  <2> QED
    BY <1>4, <2>1, <2>2 DEF Kept
<1> QED
  BY <1>5, <1>6, <1>7, <1>8, <1>9

LEMMA DashboardBegins == ServicesAssumption /\ Dashboard!Init => DashboardInv
<1> SUFFICES ASSUME ServicesAssumption, Dashboard!Init
             PROVE  DashboardInv
  OBVIOUS
<1>1. /\ image = [i \in Images |-> [status |-> "QUEUED", found |-> {}, drawn |-> {}]]
      /\ finishing = {} /\ asked \in Keys /\ query = [r \in Queries |-> Dashboard!Idle]
  BY DEF Dashboard!Init
<1>2. image \in [Images -> ImageRows]
  BY <1>1 DEF ImageRows, Dashboard!Statuses
<1>3. Kept(Dashboard!Idle)
  BY DEF Kept, Dashboard!Idle
<1>4. query \in [Queries -> {Dashboard!Idle} \cup Reading] /\ \A r \in Queries : Kept(query[r])
  BY <1>1, <1>3
<1> QED
  BY <1>1, <1>2, <1>4 DEF DashboardInv, DashboardTypes

LEMMA DashboardInvariance == Spec => []DashboardInv
<1>1. Dashboard!Init => DashboardInv
  BY ServicesAssumption, DashboardBegins
<1>2. DashboardInv /\ [Dashboard!Next]_(Dashboard!dashboardVars) => DashboardInv'
  <2> SUFFICES ASSUME DashboardInv, [Dashboard!Next]_(Dashboard!dashboardVars)
               PROVE  DashboardInv'
    OBVIOUS
  <2>1. CASE UNCHANGED Dashboard!dashboardVars \/ Dashboard!Tick
    <3>1. UNCHANGED <<image, finishing, asked, query>>
      BY <2>1 DEF Dashboard!dashboardVars, Dashboard!Tick
    <3>2. Complete' = Complete
      BY <3>1 DEF Complete
    <3> QED
      BY <3>1, <3>2 DEF DashboardInv, DashboardTypes, Kept
  <2>2. ASSUME Dashboard!Next
        PROVE  DashboardInv'
    BY <2>1, <2>2, ServicesAssumption, ImageStep, QueryStep DEF Dashboard!Next
  <2> QED
    BY <2>1, <2>2
<1> QED
  BY <1>1, <1>2, DashboardRuns, PTL DEF Dashboard!Spec

\* A key that is there has time left, and no more than its full time.
CacheClock == ttl \in 0..Ttl /\ (ttl = 0 <=> cache = Dashboard!Miss)

LEMMA AnswerIsStored == \A q : Dashboard!Answer(q) # Dashboard!Miss
<1> TAKE q
<1>1. CASE asked = "summary"
  <2> DEFINE a == q.completed
             b == q.boards
  <2>1. Dashboard!Answer(q) = [completed |-> a, boards |-> b]
    BY <1>1 DEF Dashboard!Answer
  <2> HIDE DEF a, b
  <2>2. [completed |-> a, boards |-> b] # << >>
    OBVIOUS
  <2> QED
    BY <2>1, <2>2 DEF Dashboard!Miss
<1>2. CASE asked # "summary"
  <2> DEFINE a == Dashboard!Sum(q.counts)
             b == Dashboard!Severity(q.counts, q.boards, q.completed)
  <2>1. Dashboard!Answer(q) = [defects |-> a, severity |-> b]
    BY <1>2 DEF Dashboard!Answer
  <2> HIDE DEF a, b
  <2>2. [defects |-> a, severity |-> b] # << >>
    OBVIOUS
  <2> QED
    BY <2>1, <2>2 DEF Dashboard!Miss
<1> QED
  BY <1>1, <1>2

LEMMA ClockStep ==
  ASSUME ServicesAssumption, CacheClock, [Dashboard!Next]_(Dashboard!dashboardVars)
  PROVE  CacheClock'
<1>1. Ttl \in Nat \ {0}
  BY DEF ServicesAssumption, Dashboard!DashboardAssumption
<1>2. CASE UNCHANGED <<cache, ttl>>
  BY <1>2 DEF CacheClock
<1>3. CASE \E i \in Images : Dashboard!InvalidateStats(i)
  BY <1>1, <1>2, <1>3 DEF Dashboard!InvalidateStats, CacheClock
<1>4. CASE \E r \in Queries : Dashboard!SetCached(r)
  BY <1>1, <1>2, <1>4, AnswerIsStored DEF Dashboard!SetCached, CacheClock
<1>5. CASE Dashboard!Tick
  BY <1>1, <1>5 DEF Dashboard!Tick, CacheClock
<1>6. ASSUME NEW i \in Images, NEW c \in Classes,
             \/ Dashboard!InferImage(i) \/ Dashboard!CompleteAnalysis(i)
             \/ Dashboard!RequestAnalysis(i) \/ Dashboard!AnnotateImage(i, c)
      PROVE  UNCHANGED <<cache, ttl>>
  BY <1>6 DEF Dashboard!InferImage, Dashboard!CompleteAnalysis, Dashboard!RequestAnalysis,
              Dashboard!AnnotateImage
<1>7. ASSUME NEW r \in Queries,
             \/ Dashboard!CheckCache(r) \/ Dashboard!ReadOverview(r)
             \/ Dashboard!ReadDefectCounts(r) \/ Dashboard!ReadBoardsWithDefects(r)
      PROVE  UNCHANGED <<cache, ttl>>
  BY <1>7 DEF Dashboard!CheckCache, Dashboard!ReadOverview, Dashboard!ReadDefectCounts,
              Dashboard!ReadBoardsWithDefects
<1>8. ASSUME NEW i \in Images,
             Dashboard!InferImage(i) \/ Dashboard!CompleteAnalysis(i) \/ Dashboard!RequestAnalysis(i)
      PROVE  UNCHANGED <<cache, ttl>>
  BY <1>8 DEF Dashboard!InferImage, Dashboard!CompleteAnalysis, Dashboard!RequestAnalysis
<1>9. CASE UNCHANGED Dashboard!dashboardVars
  BY <1>2, <1>9 DEF Dashboard!dashboardVars
<1> QED
  BY <1>2, <1>3, <1>4, <1>5, <1>6, <1>7, <1>8, <1>9 DEF Dashboard!Next

LEMMA ClockInvariance == Spec => []CacheClock
<1>1. Dashboard!Init => CacheClock
  BY ServicesAssumption
     DEF ServicesAssumption, Dashboard!DashboardAssumption, Dashboard!Init, CacheClock
<1>2. CacheClock /\ [Dashboard!Next]_(Dashboard!dashboardVars) => CacheClock'
  BY ServicesAssumption, ClockStep
<1> QED
  BY <1>1, <1>2, DashboardRuns, PTL DEF Dashboard!Spec

LEMMA DashboardIsTyped == DashboardInv /\ CacheClock => Dashboard!TypeOK
BY DEF DashboardInv, DashboardTypes, CacheClock, ImageRows, Reading, Dashboard!TypeOK

\* Two counts of one answer are out of step by no more than the images that completed between
\* them, for any images, operators and requests side by side (get_summary, _aggregate_rows).
THEOREM SkewStaysBounded == Spec => []SkewIsBounded
<1>1. ServicesAssumption /\ DashboardInv => SkewIsBounded
  <2> SUFFICES ASSUME ServicesAssumption, DashboardInv, NEW r \in Queries, query[r].pc = "answer"
               PROVE  query[r].boards <= query[r].completed + Dashboard!Cardinality(query[r].arrived)
    BY DEF SkewIsBounded, Dashboard!SkewIsBounded
  <2>1. query[r].arrived \in SUBSET Images
    BY ReadingByPc DEF DashboardInv, DashboardTypes, Reading
  <2>2. query[r].boards <= query[r].completed + Cardinality(query[r].arrived)
    BY DEF DashboardInv, Kept
  <2> QED
    BY <2>1, <2>2, DashboardFinite
<1> QED
  BY <1>1, ServicesAssumption, DashboardInvariance, PTL

-----------------------------------------------------------------------------
(***************************************************************************)
(* GoldenSet: the score is the average precision of the definition, and a  *)
(* stricter threshold never scores higher.                                 *)
(***************************************************************************)

\* Least counterexamples: how the proofs below go over the natural numbers.
LEMMA HasLeast ==
  ASSUME NEW S \in SUBSET Nat, S # {}
  PROVE  \E n \in S : \A m \in 0..(n - 1) : m \notin S
<1>1. PICK n \in S : \A m \in S : ~(<<m, n>> \in OpToRel(<, Nat))
  BY NatLessThanWellFounded, WFMin
<1>2. \A m \in 0..(n - 1) : <<m, n>> \in OpToRel(<, Nat)
  BY DEF OpToRel
<1> QED
  BY <1>1, <1>2

LEMMA HasMaximum ==
  ASSUME NEW S \in SUBSET Nat, NEW bound \in Nat, \A n \in S : n <= bound, S # {}
  PROVE  \E n \in S : \A m \in S : m <= n
<1> DEFINE above == {u \in Nat : \A n \in S : n <= u}
<1>1. PICK u \in above : \A m \in 0..(u - 1) : m \notin above
  <2>1. above \in SUBSET Nat /\ bound \in above
    OBVIOUS
  <2> HIDE DEF above
  <2> QED
    BY <2>1, HasLeast
<1>2. u \in S
  <2> SUFFICES ASSUME u \notin S PROVE FALSE
    OBVIOUS
  <2>1. \A n \in S : n < u
    <3> SUFFICES ASSUME NEW n \in S PROVE n < u
      OBVIOUS
    <3>1. n <= u /\ n # u /\ n \in Nat /\ u \in Nat
      BY <1>1
    <3> QED BY <3>1
  <2>2. u \in Nat /\ u # 0
    <3>1. PICK n \in S : n \in Nat
      OBVIOUS
    <3>2. n < u
      BY <2>1
    <3>3. u \in Nat
      BY <1>1
    <3> QED
      BY <3>1, <3>2, <3>3
  <2>3. u - 1 \in Nat /\ u - 1 \in 0..(u - 1) /\ \A n \in S : n <= u - 1
    BY <2>1, <2>2
  <2> QED
    BY <1>1, <2>3
<1> QED
  BY <1>1, <1>2

\* Totals: its recursive definition is that of one function of n.
IsTotal(g, f, n) ==
  /\ g = [k \in 0..n |-> g[k]]
  /\ g[0] = 0
  /\ \A k \in 1..n : g[k] = g[k - 1] + f[k]

LEMMA TotalsAgree ==
  ASSUME NEW f, NEW m \in Nat, NEW n \in Nat, NEW g, NEW h, IsTotal(g, f, m), IsTotal(h, f, n)
  PROVE  \A k \in 0..m \cap 0..n : g[k] = h[k]
<1> DEFINE differ == {k \in 0..m \cap 0..n : g[k] # h[k]}
<1> SUFFICES ASSUME differ # {} PROVE FALSE
  OBVIOUS
<1>1. differ \in SUBSET Nat
  OBVIOUS
<1>2. PICK k \in differ : \A l \in 0..(k - 1) : l \notin differ
  <2> HIDE DEF differ
  <2> QED BY <1>1, HasLeast
<1>3. k # 0
  BY DEF IsTotal
<1>4. k - 1 \in 0..m /\ k - 1 \in 0..n /\ k \in 1..m /\ k \in 1..n /\ k - 1 \in 0..(k - 1)
  BY <1>3
<1>5. g[k - 1] = h[k - 1]
  BY <1>2, <1>4
<1>6. g[k] = g[k - 1] + f[k] /\ h[k] = h[k - 1] + f[k]
  BY <1>4 DEF IsTotal
<1> QED
  BY <1>5, <1>6

LEMMA TotalsExist == ASSUME NEW f PROVE \A n \in Nat : \E g : IsTotal(g, f, n)
<1> DEFINE missing == {n \in Nat : ~\E g : IsTotal(g, f, n)}
<1> SUFFICES ASSUME missing # {} PROVE FALSE
  OBVIOUS
<1>1. PICK n \in missing : \A l \in 0..(n - 1) : l \notin missing
  <2>1. missing \in SUBSET Nat
    OBVIOUS
  <2> HIDE DEF missing
  <2> QED BY <2>1, HasLeast
<1>2. n # 0
  <2>1. IsTotal([k \in 0..0 |-> 0], f, 0)
    BY DEF IsTotal
  <2> QED
    BY <2>1
<1>3. PICK g : IsTotal(g, f, n - 1)
  BY <1>1, <1>2
<1> DEFINE h == [k \in 0..n |-> IF k = n THEN g[n - 1] + f[n] ELSE g[k]]
<1>4. h = [k \in 0..n |-> h[k]] /\ h[0] = 0
  BY <1>2, <1>3 DEF IsTotal
<1>5. \A k \in 1..n : h[k] = h[k - 1] + f[k]
  <2> SUFFICES ASSUME NEW k \in 1..n PROVE h[k] = h[k - 1] + f[k]
    OBVIOUS
  <2>1. CASE k = n
    <3>1. h[n - 1] = g[n - 1] /\ h[n] = g[n - 1] + f[n]
      BY <1>2
    <3> HIDE DEF h
    <3> QED BY <2>1, <3>1
  <2>2. CASE k # n
    <3>1. k \in 1..(n - 1) /\ k \in 0..n /\ k - 1 \in 0..n /\ k - 1 # n
      BY <1>2, <2>2
    <3>2. h[k] = g[k] /\ h[k - 1] = g[k - 1]
      BY <2>2, <3>1
    <3>3. g[k] = g[k - 1] + f[k]
      BY <1>3, <3>1 DEF IsTotal
    <3> HIDE DEF h
    <3> QED BY <3>2, <3>3
  <2> QED BY <2>1, <2>2
<1>6. IsTotal(h, f, n)
  <2> HIDE DEF h
  <2> QED BY <1>4, <1>5 DEF IsTotal
<1> QED
  BY <1>6

LEMMA TotalsDefined ==
  ASSUME NEW f
  PROVE  /\ GoldenSet!Totals(f)[0] = 0
         /\ \A n \in Nat : GoldenSet!Totals(f)[n + 1] = GoldenSet!Totals(f)[n] + f[n + 1]
<1> DEFINE table(n) == CHOOSE g : IsTotal(g, f, n)
           t == [n \in Nat |-> table(n)[n]]
           Equation(g) == g = [n \in Nat |-> IF n = 0 THEN 0 ELSE g[n - 1] + f[n]]
<1>1. \A n \in Nat : IsTotal(table(n), f, n)
  BY TotalsExist
<1> HIDE DEF table
<1>2. t[0] = 0
  BY <1>1 DEF IsTotal
<1>3. ASSUME NEW n \in Nat, n # 0
      PROVE  t[n] = t[n - 1] + f[n]
  <2>1. n - 1 \in Nat /\ n \in 1..n /\ n - 1 \in 0..n /\ n - 1 \in 0..(n - 1)
    BY <1>3
  <2>2. table(n)[n] = table(n)[n - 1] + f[n]
    BY <1>1, <2>1 DEF IsTotal
  <2>3. table(n)[n - 1] = table(n - 1)[n - 1]
    BY <1>1, <2>1, TotalsAgree
  <2>4. t[n] = table(n)[n] /\ t[n - 1] = table(n - 1)[n - 1]
    BY <2>1
  <2> HIDE DEF t
  <2> QED
    BY <2>2, <2>3, <2>4
<1>4. Equation(t)
  <2> DEFINE body == [n \in Nat |-> IF n = 0 THEN 0 ELSE t[n - 1] + f[n]]
  <2>1. \A n \in Nat : t[n] = body[n]
    <3> HIDE DEF t
    <3> QED BY <1>2, <1>3
  <2>2. t = [n \in Nat |-> t[n]] /\ body = [n \in Nat |-> body[n]]
    OBVIOUS
  <2> HIDE DEF t, body
  <2>3. t = body
    BY <2>1, <2>2
  <2> QED BY <2>3 DEF body
<1>5. Equation(CHOOSE g : Equation(g))
  <2> HIDE DEF Equation, t
  <2> QED BY <1>4
<1>6. GoldenSet!Totals(f) = CHOOSE g : Equation(g)
  BY DEF GoldenSet!Totals
<1>7. Equation(GoldenSet!Totals(f))
  <2> HIDE DEF Equation
  <2> QED BY <1>5, <1>6
<1>8. \A n \in Nat : GoldenSet!Totals(f)[n] = IF n = 0 THEN 0 ELSE GoldenSet!Totals(f)[n - 1] + f[n]
  <2> DEFINE g == GoldenSet!Totals(f)
  <2>1. g = [n \in Nat |-> IF n = 0 THEN 0 ELSE g[n - 1] + f[n]]
    BY <1>7
  <2> HIDE DEF g
  <2>2. \A n \in Nat : g[n] = IF n = 0 THEN 0 ELSE g[n - 1] + f[n]
    BY <2>1
  <2> QED BY <2>2 DEF g
<1>9. ASSUME NEW n \in Nat
      PROVE  GoldenSet!Totals(f)[n + 1] = GoldenSet!Totals(f)[n] + f[n + 1]
  <2>1. n + 1 \in Nat /\ n + 1 # 0 /\ (n + 1) - 1 = n
    OBVIOUS
  <2>2. GoldenSet!Totals(f)[n + 1] = GoldenSet!Totals(f)[(n + 1) - 1] + f[n + 1]
    BY <1>8, <2>1
  <2> QED BY <2>1, <2>2
<1> QED
  BY <1>8, <1>9

LEMMA TotalsAreNatural ==
  ASSUME NEW f, NEW n \in Nat, \A k \in 1..n : f[k] \in Nat
  PROVE  \A k \in 0..n : GoldenSet!Totals(f)[k] \in Nat
<1> DEFINE bad == {k \in 0..n : GoldenSet!Totals(f)[k] \notin Nat}
<1> SUFFICES ASSUME bad # {} PROVE FALSE
  OBVIOUS
<1>1. PICK k \in bad : \A l \in 0..(k - 1) : l \notin bad
  <2>1. bad \in SUBSET Nat
    OBVIOUS
  <2> HIDE DEF bad
  <2> QED BY <2>1, HasLeast
<1>2. k # 0
  BY TotalsDefined
<1>3. k - 1 \in Nat /\ k - 1 \in 0..(k - 1) /\ k - 1 \in 0..n /\ k \in 1..n /\ (k - 1) + 1 = k
  BY <1>2
<1>4. GoldenSet!Totals(f)[k - 1] \in Nat /\ f[k] \in Nat
  BY <1>1, <1>3
<1>5. GoldenSet!Totals(f)[k] = GoldenSet!Totals(f)[k - 1] + f[k]
  BY <1>3, TotalsDefined
<1> QED
  BY <1>4, <1>5

LEMMA TotalsGrow ==
  ASSUME NEW f, NEW g, NEW n \in Nat,
         \A k \in 1..n : f[k] \in Nat /\ g[k] \in Nat /\ f[k] <= g[k]
  PROVE  GoldenSet!Totals(f)[n] <= GoldenSet!Totals(g)[n]
<1> DEFINE bad == {k \in 0..n : ~(GoldenSet!Totals(f)[k] <= GoldenSet!Totals(g)[k])}
<1> SUFFICES ASSUME bad # {} PROVE FALSE
  OBVIOUS
<1>1. PICK k \in bad : \A l \in 0..(k - 1) : l \notin bad
  <2>1. bad \in SUBSET Nat
    OBVIOUS
  <2> HIDE DEF bad
  <2> QED BY <2>1, HasLeast
<1>2. k # 0
  BY TotalsDefined
<1>3. k - 1 \in Nat /\ k - 1 \in 0..(k - 1) /\ k - 1 \in 0..n /\ k \in 1..n /\ (k - 1) + 1 = k
  BY <1>2
<1>4. GoldenSet!Totals(f)[k - 1] <= GoldenSet!Totals(g)[k - 1]
  BY <1>1, <1>3
<1>5. /\ GoldenSet!Totals(f)[k] = GoldenSet!Totals(f)[k - 1] + f[k]
      /\ GoldenSet!Totals(g)[k] = GoldenSet!Totals(g)[k - 1] + g[k]
  BY <1>3, TotalsDefined
<1>6. GoldenSet!Totals(f)[k - 1] \in Nat /\ GoldenSet!Totals(g)[k - 1] \in Nat
  BY <1>3, TotalsAreNatural
<1>7. f[k] \in Nat /\ g[k] \in Nat /\ f[k] <= g[k]
  BY <1>3
<1>8. GoldenSet!Totals(f)[k] <= GoldenSet!Totals(g)[k]
  BY <1>4, <1>5, <1>6, <1>7
<1> QED
  BY <1>8

\* Precision: what it counts and how it compares.
LEMMA Quotients ==
  ASSUME NEW n \in Nat \ {0}
  PROVE  /\ \A a \in Nat : a \div n \in Nat
         /\ \A a, b \in Nat : a <= b => a \div n <= b \div n
<1>1. \A a \in Nat : a \div n \in Nat
  OBVIOUS
<1>2. \A a, b \in Nat : a <= b => a \div n <= b \div n
  OBVIOUS
<1> QED
  BY <1>1, <1>2

Hits(boxes, n) == {m \in 1..n : boxes[m] # GoldenSet!NoBox}

LEMMA HitsAreCounted ==
  ASSUME NEW boxes, NEW n
  PROVE  GoldenSet!TruePositives(boxes, n) = Cardinality(Hits(boxes, n))
<1>1. GoldenSet!TruePositives(boxes, n) = GoldenSet!Cardinality(Hits(boxes, n))
  BY Zenon DEF GoldenSet!TruePositives, Hits
<1>2. \A S : GoldenSet!Cardinality(S) = Cardinality(S)
  BY Zenon DEF GoldenSet!Cardinality, Cardinality
<1> QED
  BY <1>1, <1>2

LEMMA CountHits ==
  ASSUME NEW boxes
  PROVE  /\ \A n \in Nat : GoldenSet!TruePositives(boxes, n) \in Nat
         /\ GoldenSet!TruePositives(boxes, 0) = 0
         /\ \A n \in Nat : GoldenSet!TruePositives(boxes, n + 1) =
              GoldenSet!TruePositives(boxes, n) + IF boxes[n + 1] # GoldenSet!NoBox THEN 1 ELSE 0
         /\ \A m, n \in Nat : m <= n =>
              GoldenSet!TruePositives(boxes, m) <= GoldenSet!TruePositives(boxes, n)
<1>1. \A n \in Nat : /\ IsFiniteSet(Hits(boxes, n)) /\ Cardinality(Hits(boxes, n)) \in Nat
                     /\ GoldenSet!TruePositives(boxes, n) = Cardinality(Hits(boxes, n))
  <2> SUFFICES ASSUME NEW n \in Nat
               PROVE  /\ IsFiniteSet(Hits(boxes, n)) /\ Cardinality(Hits(boxes, n)) \in Nat
                      /\ GoldenSet!TruePositives(boxes, n) = Cardinality(Hits(boxes, n))
    OBVIOUS
  <2>1. IsFiniteSet(1..n) /\ Hits(boxes, n) \subseteq 1..n
    BY FS_Interval DEF Hits
  <2>2. IsFiniteSet(Hits(boxes, n)) /\ Cardinality(Hits(boxes, n)) \in Nat
    BY <2>1, FS_Subset, FS_CardinalityType
  <2> QED
    BY <2>2, HitsAreCounted
<1>2. GoldenSet!TruePositives(boxes, 0) = 0
  <2>1. Hits(boxes, 0) = {}
    BY DEF Hits
  <2> QED
    BY <1>1, <2>1, FS_EmptySet
<1>3. ASSUME NEW n \in Nat
      PROVE  GoldenSet!TruePositives(boxes, n + 1) =
               GoldenSet!TruePositives(boxes, n) + IF boxes[n + 1] # GoldenSet!NoBox THEN 1 ELSE 0
  <2>1. CASE boxes[n + 1] # GoldenSet!NoBox
    <3>1. Hits(boxes, n + 1) = Hits(boxes, n) \cup {n + 1} /\ n + 1 \notin Hits(boxes, n)
      BY <2>1 DEF Hits
    <3>2. Cardinality(Hits(boxes, n) \cup {n + 1}) = Cardinality(Hits(boxes, n)) + 1
      BY <1>1, <3>1, FS_AddElement
    <3> QED
      BY <1>1, <2>1, <3>1, <3>2
  <2>2. CASE boxes[n + 1] = GoldenSet!NoBox
    <3>1. Hits(boxes, n + 1) = Hits(boxes, n)
      BY <2>2 DEF Hits
    <3> QED
      BY <1>1, <2>2, <3>1
  <2> QED
    BY <2>1, <2>2
<1>4. ASSUME NEW m \in Nat, NEW n \in Nat, m <= n
      PROVE  GoldenSet!TruePositives(boxes, m) <= GoldenSet!TruePositives(boxes, n)
  <2>1. Hits(boxes, m) \subseteq Hits(boxes, n)
    BY <1>4 DEF Hits
  <2> QED
    BY <1>1, <2>1, FS_Subset
<1> QED
  BY <1>1, <1>2, <1>3, <1>4

LEMMA Precisions ==
  ASSUME GoldenSet!GoldenSetAssumption, NEW boxes, NEW n \in Nat \ {0}
  PROVE  GoldenSet!Precision(boxes, n) \in 0..(Scale * n)
<1>1. GoldenSet!TruePositives(boxes, n) \in Nat /\ GoldenSet!TruePositives(boxes, n) <= n
  <2>1. Hits(boxes, n) \subseteq 1..n /\ IsFiniteSet(1..n) /\ Cardinality(1..n) = n
    BY FS_Interval DEF Hits
  <2>2. GoldenSet!TruePositives(boxes, n) = Cardinality(Hits(boxes, n))
    BY HitsAreCounted
  <2>3. Cardinality(Hits(boxes, n)) <= Cardinality(1..n)
    BY <2>1, FS_Subset
  <2> QED
    BY <2>1, <2>2, <2>3, CountHits
<1> DEFINE tp == GoldenSet!TruePositives(boxes, n)
<1> HIDE DEF tp
<1>2. Scale * tp \in Nat /\ Scale * tp <= Scale * n
  BY <1>1 DEF GoldenSet!GoldenSetAssumption, tp
<1>3. \A a \in Nat : a \div n \in Nat /\ a \div n <= a
  OBVIOUS
<1>4. (Scale * tp) \div n \in Nat /\ (Scale * tp) \div n <= Scale * tp
  BY <1>2, <1>3
<1>5. Scale * n \in Nat
  BY DEF GoldenSet!GoldenSetAssumption
<1> QED
  BY <1>2, <1>4, <1>5 DEF GoldenSet!Precision, tp

\* Envelope: from n on, the highest precision of the predictions that are left.
Levels(boxes, ns) == {0} \cup {GoldenSet!Precision(boxes, n) : n \in ns}
Larger(p, q) == IF p > q THEN p ELSE q
Highest(boxes, ns) == CHOOSE p \in Levels(boxes, ns) : \A q \in Levels(boxes, ns) : q <= p

LEMMA HighestIs ==
  ASSUME GoldenSet!GoldenSetAssumption, NEW boxes, NEW size \in Nat, NEW ns \in SUBSET (1..size)
  PROVE  /\ Levels(boxes, ns) \subseteq Nat
         /\ Highest(boxes, ns) \in Levels(boxes, ns)
         /\ \A q \in Levels(boxes, ns) : q <= Highest(boxes, ns)
<1>1. Scale * size \in Nat
  BY DEF GoldenSet!GoldenSetAssumption
<1>2. \A n \in ns : GoldenSet!Precision(boxes, n) \in Nat
        /\ GoldenSet!Precision(boxes, n) <= Scale * size
  <2> SUFFICES ASSUME NEW n \in ns
               PROVE  GoldenSet!Precision(boxes, n) \in Nat
                        /\ GoldenSet!Precision(boxes, n) <= Scale * size
    OBVIOUS
  <2>1. n \in Nat \ {0} /\ n <= size
    OBVIOUS
  <2>2. GoldenSet!Precision(boxes, n) \in 0..(Scale * n)
    BY <2>1, Precisions
  <2>3. Scale * n <= Scale * size /\ Scale * n \in Nat
    BY <2>1 DEF GoldenSet!GoldenSetAssumption
  <2> QED
    BY <1>1, <2>2, <2>3
<1>3. Levels(boxes, ns) \in SUBSET Nat /\ \A q \in Levels(boxes, ns) : q <= Scale * size
  BY <1>1, <1>2 DEF Levels
<1>4. 0 \in Levels(boxes, ns)
  BY DEF Levels
<1>5. \E p \in Levels(boxes, ns) : \A q \in Levels(boxes, ns) : q <= p
  BY <1>1, <1>3, <1>4, HasMaximum
<1> QED
  BY <1>3, <1>5 DEF Highest

LEMMA HighestOfMore ==
  ASSUME GoldenSet!GoldenSetAssumption, NEW boxes, NEW size \in Nat, NEW ns \in SUBSET (1..size),
         NEW n \in 1..size, NEW more, more = ns \cup {n}
  PROVE  Highest(boxes, more) = Larger(GoldenSet!Precision(boxes, n), Highest(boxes, ns))
<1>1. Levels(boxes, more) = Levels(boxes, ns) \cup {GoldenSet!Precision(boxes, n)}
  BY DEF Levels
<1>2. more \in SUBSET (1..size)
  OBVIOUS
<1>3. /\ Levels(boxes, ns) \subseteq Nat
      /\ Highest(boxes, ns) \in Levels(boxes, ns)
      /\ \A q \in Levels(boxes, ns) : q <= Highest(boxes, ns)
  BY HighestIs
<1>4. /\ Levels(boxes, more) \subseteq Nat
      /\ Highest(boxes, more) \in Levels(boxes, more)
      /\ \A q \in Levels(boxes, more) : q <= Highest(boxes, more)
  BY <1>2, HighestIs
<1> QED
  BY <1>1, <1>3, <1>4 DEF Larger

LEMMA HighestOfNone == ASSUME NEW boxes PROVE Highest(boxes, {}) = 0
<1>1. Levels(boxes, {}) = {0}
  BY DEF Levels
<1> QED
  BY <1>1 DEF Highest

LEMMA EnvelopeIsHighest ==
  ASSUME GoldenSet!GoldenSetAssumption, NEW boxes, Len(boxes) \in Nat
  PROVE  \A n \in 1..(Len(boxes) + 1) : GoldenSet!Envelope(boxes)[n] = Highest(boxes, n..Len(boxes))
<1> DEFINE size == Len(boxes)
           Step(g, n) == IF n > size THEN 0 ELSE Larger(GoldenSet!Precision(boxes, n), g[n + 1])
           Equation(g) == g = [n \in 1..(size + 1) |-> Step(g, n)]
           peaks == [n \in 1..(size + 1) |-> Highest(boxes, n..size)]
<1>1. \A n \in 1..(size + 1) : peaks[n] = Step(peaks, n)
  <2> SUFFICES ASSUME NEW n \in 1..(size + 1) PROVE peaks[n] = Step(peaks, n)
    OBVIOUS
  <2>1. CASE n > size
    <3>1. n..size = {}
      BY <2>1
    <3> QED
      BY <2>1, <3>1, HighestOfNone
  <2>2. CASE ~(n > size)
    <3>1. /\ n \in 1..size /\ n + 1 \in 1..(size + 1) /\ (n + 1)..size \in SUBSET (1..size)
          /\ n..size = (n + 1)..size \cup {n}
      BY <2>2
    <3>2. Highest(boxes, n..size) =
            Larger(GoldenSet!Precision(boxes, n), Highest(boxes, (n + 1)..size))
      <4> DEFINE rest == (n + 1)..size
                 more == n..size
      <4>1. rest \in SUBSET (1..size) /\ n \in 1..size /\ size \in Nat /\ more = rest \cup {n}
        BY <3>1
      <4> HIDE DEF rest, more, size
      <4>2. Highest(boxes, more) = Larger(GoldenSet!Precision(boxes, n), Highest(boxes, rest))
        BY <4>1, HighestOfMore
      <4> QED
        BY <4>2 DEF rest, more
    <3>3. peaks[n] = Highest(boxes, n..size) /\ peaks[n + 1] = Highest(boxes, (n + 1)..size)
      BY <3>1
    <3> HIDE DEF peaks
    <3> QED
      BY <2>2, <3>1, <3>2, <3>3
  <2> QED
    BY <2>1, <2>2
<1>2. Equation(peaks)
  <2> DEFINE body == [n \in 1..(size + 1) |-> Step(peaks, n)]
  <2>1. peaks = [n \in 1..(size + 1) |-> peaks[n]]
    OBVIOUS
  <2>2. \A n \in 1..(size + 1) : body[n] = Step(peaks, n)
    <3> HIDE DEF Step
    <3> QED OBVIOUS
  <2>3. body = [n \in 1..(size + 1) |-> body[n]]
    <3> HIDE DEF Step
    <3> QED OBVIOUS
  <2> HIDE DEF peaks, Step, body
  <2>4. peaks = body
    BY <1>1, <2>1, <2>2, <2>3
  <2> QED
    BY <2>4 DEF body
<1>3. Equation(CHOOSE g : Equation(g))
  <2> HIDE DEF Equation, peaks
  <2> QED BY <1>2
<1>4. GoldenSet!Envelope(boxes) = CHOOSE g : Equation(g)
  BY DEF GoldenSet!Envelope, Larger
<1> DEFINE e == GoldenSet!Envelope(boxes)
<1>5. Equation(e)
  <2> HIDE DEF Equation
  <2> QED BY <1>3, <1>4
<1>6. \A n \in 1..(size + 1) : e[n] = Step(e, n)
  <2> HIDE DEF e, Step
  <2> QED BY <1>5
<1> DEFINE differ == {d \in 0..size : e[size + 1 - d] # peaks[size + 1 - d]}
<1>7. differ = {}
  <2> SUFFICES ASSUME differ # {} PROVE FALSE
    OBVIOUS
  <2>1. differ \in SUBSET Nat
    OBVIOUS
  <2>2. PICK d \in differ : \A c \in 0..(d - 1) : c \notin differ
    <3> HIDE DEF differ
    <3> QED BY <2>1, HasLeast
  <2> DEFINE n == size + 1 - d
  <2>3. n \in 1..(size + 1) /\ d \in 0..size
    OBVIOUS
  <2>4. e[n] = Step(e, n) /\ peaks[n] = Step(peaks, n) /\ e[n] # peaks[n]
    <3>1. e[n] # peaks[n]
      BY <2>2
    <3> HIDE DEF e, Step, peaks, n
    <3> QED BY <1>1, <1>6, <2>3, <3>1
  <2>5. n <= size
    <3> HIDE DEF e, peaks, n
    <3> QED BY <2>3, <2>4
  <2>6. d - 1 \in 0..(d - 1) /\ d - 1 \in 0..size /\ size + 1 - (d - 1) = n + 1
    BY <2>3, <2>5
  <2>7. e[n + 1] = peaks[n + 1]
    <3>1. d - 1 \notin differ
      BY <2>2, <2>6
    <3>2. e[size + 1 - (d - 1)] = peaks[size + 1 - (d - 1)]
      <4> HIDE DEF e, peaks
      <4> QED BY <3>1, <2>6
    <3> HIDE DEF e, peaks, n
    <3> QED BY <3>2, <2>6
  <2>8. Step(e, n) = Step(peaks, n)
    <3> HIDE DEF e, peaks, n
    <3> QED BY <2>7
  <2> HIDE DEF e, peaks, n, Step
  <2> QED BY <2>4, <2>8
<1>8. ASSUME NEW n \in 1..(size + 1)
      PROVE  e[n] = Highest(boxes, n..size)
  <2>1. size + 1 - n \in 0..size /\ size + 1 - (size + 1 - n) = n
    OBVIOUS
  <2>2. e[n] = peaks[n]
    <3> HIDE DEF e, peaks
    <3> QED BY <1>7, <2>1
  <2>3. peaks[n] = Highest(boxes, n..size)
    OBVIOUS
  <2> HIDE DEF e, peaks
  <2> QED BY <2>2, <2>3
<1> QED
  BY <1>8

\* AveragePrecision: a box is found where its best precision is the envelope.
BoxSeqs == Seq(GoldenSet!Boxes \cup {GoldenSet!NoBox})

LEMMA SeqFacts ==
  ASSUME NEW boxes \in BoxSeqs
  PROVE  /\ Len(boxes) \in Nat /\ DOMAIN boxes = 1..Len(boxes)
         /\ \A n \in 1..Len(boxes) : boxes[n] \in GoldenSet!Boxes \cup {GoldenSet!NoBox}
BY DEF BoxSeqs

Bests(boxes) == [k \in GoldenSet!Boxes |-> GoldenSet!BestPrecision(boxes, k)]
Areas(boxes) == [n \in 1..Len(boxes) |-> GoldenSet!Envelope(boxes)[n] * GoldenSet!Gain(boxes, n)]

LEMMA BestIsHighest ==
  ASSUME NEW boxes \in BoxSeqs, NEW k
  PROVE  GoldenSet!BestPrecision(boxes, k) =
           Highest(boxes, {m \in 1..Len(boxes) : GoldenSet!TruePositives(boxes, m) >= k})
BY SeqFacts DEF GoldenSet!BestPrecision, Highest, Levels

LEMMA BestsAreNatural ==
  ASSUME GoldenSet!GoldenSetAssumption, NEW boxes \in BoxSeqs, NEW k
  PROVE  GoldenSet!BestPrecision(boxes, k) \in Nat
<1> DEFINE ns == {m \in 1..Len(boxes) : GoldenSet!TruePositives(boxes, m) >= k}
<1>1. ns \in SUBSET (1..Len(boxes)) /\ Len(boxes) \in Nat
  BY SeqFacts
<1>2. GoldenSet!BestPrecision(boxes, k) = Highest(boxes, ns)
  BY BestIsHighest
<1> HIDE DEF ns
<1> QED
  BY <1>1, <1>2, HighestIs

\* The best precision for the k-th box is the envelope where it is found.
LEMMA BestIsEnvelope ==
  ASSUME GoldenSet!GoldenSetAssumption, NEW boxes \in BoxSeqs,
         NEW n \in 1..Len(boxes), boxes[n] # GoldenSet!NoBox
  PROVE  GoldenSet!BestPrecision(boxes, GoldenSet!TruePositives(boxes, n)) =
           GoldenSet!Envelope(boxes)[n]
<1> DEFINE k == GoldenSet!TruePositives(boxes, n)
           ns == {m \in 1..Len(boxes) : GoldenSet!TruePositives(boxes, m) >= k}
<1>1. Len(boxes) \in Nat /\ n \in Nat /\ n - 1 \in Nat /\ (n - 1) + 1 = n
  BY SeqFacts
<1>2. k = GoldenSet!TruePositives(boxes, n - 1) + 1 /\ k \in Nat
        /\ GoldenSet!TruePositives(boxes, n - 1) \in Nat
  BY <1>1, CountHits
<1>3. \A m \in 1..Len(boxes) : GoldenSet!TruePositives(boxes, m) >= k <=> m >= n
  <2> SUFFICES ASSUME NEW m \in 1..Len(boxes)
               PROVE  GoldenSet!TruePositives(boxes, m) >= k <=> m >= n
    OBVIOUS
  <2>1. m \in Nat /\ GoldenSet!TruePositives(boxes, m) \in Nat
    BY <1>1, CountHits
  <2>2. m >= n => k <= GoldenSet!TruePositives(boxes, m)
    BY <1>1, <2>1, CountHits
  <2>3. ~(m >= n) => GoldenSet!TruePositives(boxes, m) <= GoldenSet!TruePositives(boxes, n - 1)
    <3>1. ~(m >= n) => m <= n - 1
      BY <1>1, <2>1
    <3> QED
      BY <1>1, <2>1, <3>1, CountHits
  <2> HIDE DEF k
  <2> QED
    BY <1>2, <2>1, <2>2, <2>3
<1>4. ns = n..Len(boxes)
  <2> HIDE DEF k
  <2> QED
    BY <1>1, <1>3
<1>5. GoldenSet!BestPrecision(boxes, k) = Highest(boxes, ns)
  BY BestIsHighest
<1>6. GoldenSet!Envelope(boxes)[n] = Highest(boxes, n..Len(boxes))
  BY <1>1, EnvelopeIsHighest
<1> QED
  BY <1>4, <1>5, <1>6

LEMMA AreaSoFar ==
  ASSUME GoldenSet!GoldenSetAssumption, NEW boxes \in BoxSeqs,
         GoldenSet!TruePositives(boxes, Len(boxes)) <= NumBoxes
  PROVE  \A n \in 0..Len(boxes) :
           GoldenSet!Totals(Areas(boxes))[n] =
             GoldenSet!Totals(Bests(boxes))[GoldenSet!TruePositives(boxes, n)]
<1> DEFINE size == Len(boxes)
           tp(n) == GoldenSet!TruePositives(boxes, n)
           bad == {n \in 0..size : GoldenSet!Totals(Areas(boxes))[n] #
                    GoldenSet!Totals(Bests(boxes))[tp(n)]}
<1> SUFFICES ASSUME bad # {} PROVE FALSE
  OBVIOUS
<1>1. size \in Nat
  BY SeqFacts
<1>2. PICK n \in bad : \A l \in 0..(n - 1) : l \notin bad
  <2>1. bad \in SUBSET Nat
    BY <1>1
  <2> HIDE DEF bad
  <2> QED BY <2>1, HasLeast
<1>3. n # 0
  <2>1. GoldenSet!Totals(Areas(boxes))[0] = 0 /\ GoldenSet!Totals(Bests(boxes))[0] = 0 /\ tp(0) = 0
    BY TotalsDefined, CountHits
  <2> QED BY <2>1
<1>4. n - 1 \in Nat /\ n - 1 \in 0..(n - 1) /\ n - 1 \in 0..size /\ n \in 1..size
      /\ (n - 1) + 1 = n
  BY <1>1, <1>3
<1>5. GoldenSet!Totals(Areas(boxes))[n - 1] = GoldenSet!Totals(Bests(boxes))[tp(n - 1)]
  BY <1>2, <1>4
<1>6. GoldenSet!Totals(Areas(boxes))[n] = GoldenSet!Totals(Areas(boxes))[n - 1] + Areas(boxes)[n]
  BY <1>4, TotalsDefined
<1>7. Areas(boxes)[n] = GoldenSet!Envelope(boxes)[n] * GoldenSet!Gain(boxes, n)
  BY <1>4 DEF Areas
<1>8. tp(n) \in Nat /\ tp(n - 1) \in Nat /\ tp(n) <= tp(size)
      /\ tp(n) = tp(n - 1) + IF boxes[n] # GoldenSet!NoBox THEN 1 ELSE 0
  <2>1. n \in Nat /\ n <= size
    BY <1>1, <1>4
  <2>2. GoldenSet!TruePositives(boxes, (n - 1) + 1) =
          GoldenSet!TruePositives(boxes, n - 1) + IF boxes[(n - 1) + 1] #
            GoldenSet!NoBox THEN 1 ELSE 0
    BY <1>4, CountHits
  <2>3. tp(n) \in Nat /\ tp(n - 1) \in Nat /\ tp(n) <= tp(size)
    <3> HIDE DEF size
    <3> QED BY <1>1, <1>4, <2>1, CountHits
  <2> QED
    BY <1>4, <2>2, <2>3
<1>9. GoldenSet!Envelope(boxes)[n] \in Nat
  <2>1. n \in 1..(size + 1) /\ n..size \in SUBSET (1..size)
    BY <1>1, <1>4
  <2>2. GoldenSet!Envelope(boxes)[n] = Highest(boxes, n..size)
    BY <1>1, <2>1, EnvelopeIsHighest
  <2> QED
    BY <1>1, <2>1, <2>2, HighestIs
<1>10. \A k \in 0..NumBoxes : GoldenSet!Totals(Bests(boxes))[k] \in Nat
  <2>1. \A k \in 1..NumBoxes : Bests(boxes)[k] \in Nat
    BY BestsAreNatural DEF Bests, GoldenSet!Boxes
  <2> QED
    BY <2>1, TotalsAreNatural DEF GoldenSet!GoldenSetAssumption
<1>11. tp(size) \in Nat /\ NumBoxes \in Nat /\ tp(size) <= NumBoxes
  BY <1>1, CountHits DEF GoldenSet!GoldenSetAssumption
<1> HIDE DEF bad, size
<1>12. CASE boxes[n] = GoldenSet!NoBox
  <2>1. tp(n) = tp(n - 1) /\ GoldenSet!Gain(boxes, n) = 0
    BY <1>8, <1>12 DEF GoldenSet!Gain
  <2>2. Areas(boxes)[n] = 0
    BY <1>7, <1>9, <2>1
  <2>3. tp(n - 1) \in 0..NumBoxes
    BY <1>8, <1>11, <2>1
  <2>4. GoldenSet!Totals(Bests(boxes))[tp(n - 1)] \in Nat
    BY <1>10, <2>3
  <2> HIDE DEF tp
  <2>5. GoldenSet!Totals(Areas(boxes))[n] = GoldenSet!Totals(Bests(boxes))[tp(n)]
    BY <1>5, <1>6, <2>1, <2>2, <2>4
  <2> QED
    BY <1>2, <2>5 DEF bad, tp
<1>13. CASE boxes[n] # GoldenSet!NoBox
  <2>1. tp(n) = tp(n - 1) + 1 /\ GoldenSet!Gain(boxes, n) = 1
    BY <1>8, <1>13 DEF GoldenSet!Gain
  <2>2. Areas(boxes)[n] = GoldenSet!Envelope(boxes)[n]
    BY <1>7, <1>9, <2>1
  <2>3. tp(n) \in GoldenSet!Boxes
    BY <1>8, <1>11, <2>1 DEF GoldenSet!Boxes
  <2>4. Bests(boxes)[tp(n)] = GoldenSet!Envelope(boxes)[n]
    BY <1>4, <1>13, <2>3, BestIsEnvelope DEF Bests, size
  <2>5. GoldenSet!Totals(Bests(boxes))[tp(n - 1) + 1] =
          GoldenSet!Totals(Bests(boxes))[tp(n - 1)] + Bests(boxes)[tp(n - 1) + 1]
    BY <1>8, TotalsDefined
  <2> HIDE DEF tp
  <2>6. GoldenSet!Totals(Areas(boxes))[n] = GoldenSet!Totals(Bests(boxes))[tp(n)]
    BY <1>5, <1>6, <2>1, <2>2, <2>4, <2>5
  <2> QED
    BY <1>2, <2>6 DEF bad, tp
<1> QED
  BY <1>12, <1>13

LEMMA NoneBeyond ==
  ASSUME GoldenSet!GoldenSetAssumption, NEW boxes \in BoxSeqs
  PROVE  \A k \in GoldenSet!TruePositives(boxes, Len(boxes))..NumBoxes :
           GoldenSet!Totals(Bests(boxes))[k] =
             GoldenSet!Totals(Bests(boxes))[GoldenSet!TruePositives(boxes, Len(boxes))]
<1> DEFINE size == Len(boxes)
           last == GoldenSet!TruePositives(boxes, size)
           bad == {k \in last..NumBoxes : GoldenSet!Totals(Bests(boxes))[k] #
                    GoldenSet!Totals(Bests(boxes))[last]}
<1> SUFFICES ASSUME bad # {} PROVE FALSE
  OBVIOUS
<1>1. size \in Nat /\ last \in Nat /\ NumBoxes \in Nat
  BY SeqFacts, CountHits DEF GoldenSet!GoldenSetAssumption
<1>2. PICK k \in bad : \A l \in 0..(k - 1) : l \notin bad
  <2>1. bad \in SUBSET Nat
    BY <1>1
  <2> HIDE DEF bad
  <2> QED BY <2>1, HasLeast
<1>3. k # last
  OBVIOUS
<1>4. k \in last..NumBoxes
  OBVIOUS
<1> HIDE DEF last
<1>5. k - 1 \in Nat /\ k - 1 \in 0..(k - 1) /\ k - 1 \in last..NumBoxes /\ k \in GoldenSet!Boxes
      /\ (k - 1) + 1 = k /\ k > last
  BY <1>1, <1>3, <1>4 DEF GoldenSet!Boxes
<1>6. GoldenSet!Totals(Bests(boxes))[k - 1] = GoldenSet!Totals(Bests(boxes))[last]
  BY <1>2, <1>5
<1>7. GoldenSet!Totals(Bests(boxes))[k] = GoldenSet!Totals(Bests(boxes))[k - 1] + Bests(boxes)[k]
  BY <1>5, TotalsDefined
<1>8. Bests(boxes)[k] = 0
  <2> DEFINE ns == {m \in 1..size : GoldenSet!TruePositives(boxes, m) >= k}
  <2>1. ns = {}
    <3> SUFFICES ASSUME NEW m \in 1..size, GoldenSet!TruePositives(boxes, m) >= k PROVE FALSE
      OBVIOUS
    <3> HIDE DEF size
    <3>1. m \in Nat /\ m <= size /\ GoldenSet!TruePositives(boxes, m) \in Nat
      <4>1. m \in Nat /\ m <= size
        BY <1>1
      <4> QED BY <4>1, CountHits
    <3>2. GoldenSet!TruePositives(boxes, m) <= last
      BY <1>1, <3>1, CountHits DEF last
    <3> QED
      BY <1>1, <1>5, <3>1, <3>2
  <2>2. GoldenSet!BestPrecision(boxes, k) = Highest(boxes, ns)
    BY BestIsHighest
  <2> HIDE DEF ns
  <2> QED
    BY <1>5, <2>1, <2>2, HighestOfNone DEF Bests
<1>9. GoldenSet!Totals(Bests(boxes))[last] \in Nat
  <2>1. \A j \in 1..NumBoxes : Bests(boxes)[j] \in Nat
    BY BestsAreNatural DEF Bests, GoldenSet!Boxes
  <2>2. last \in 0..NumBoxes
    BY <1>1, <1>4
  <2> QED
    BY <1>1, <2>1, <2>2, TotalsAreNatural
<1>10. GoldenSet!Totals(Bests(boxes))[k] = GoldenSet!Totals(Bests(boxes))[last]
  BY <1>6, <1>7, <1>8, <1>9
<1> QED
  BY <1>2, <1>10

LEMMA AreaIsMean ==
  ASSUME GoldenSet!GoldenSetAssumption, NEW boxes \in BoxSeqs,
         GoldenSet!TruePositives(boxes, Len(boxes)) <= NumBoxes
  PROVE  GoldenSet!AveragePrecision(boxes) = GoldenSet!Totals(Bests(boxes))[NumBoxes]
<1>1. Len(boxes) \in Nat /\ NumBoxes \in Nat /\ GoldenSet!TruePositives(boxes, Len(boxes)) \in Nat
  BY SeqFacts, CountHits DEF GoldenSet!GoldenSetAssumption
<1>2. GoldenSet!AveragePrecision(boxes) = GoldenSet!Totals(Areas(boxes))[Len(boxes)]
  BY DEF GoldenSet!AveragePrecision, Areas
<1>3. GoldenSet!Totals(Areas(boxes))[Len(boxes)] =
        GoldenSet!Totals(Bests(boxes))[GoldenSet!TruePositives(boxes, Len(boxes))]
  BY <1>1, AreaSoFar
<1>4. GoldenSet!Totals(Bests(boxes))[NumBoxes] =
        GoldenSet!Totals(Bests(boxes))[GoldenSet!TruePositives(boxes, Len(boxes))]
  BY <1>1, NoneBeyond
<1> QED
  BY <1>2, <1>3, <1>4

\* The invariant: what a stricter threshold has matched, a laxer one has as well.
Matched(boxes, n) == {boxes[m] : m \in Hits(boxes, n)}
Apart(boxes) ==
  \A m, n \in 1..Len(boxes) : boxes[m] # GoldenSet!NoBox /\ boxes[m] = boxes[n] => m = n

LEMMA CountMatched ==
  ASSUME GoldenSet!GoldenSetAssumption, NEW boxes \in BoxSeqs, Apart(boxes), NEW n \in 0..Len(boxes)
  PROVE  /\ IsFiniteSet(Matched(boxes, n)) /\ Matched(boxes, n) \subseteq GoldenSet!Boxes
         /\ GoldenSet!TruePositives(boxes, n) = Cardinality(Matched(boxes, n))
         /\ GoldenSet!TruePositives(boxes, n) <= NumBoxes
<1> DEFINE box == [m \in Hits(boxes, n) |-> boxes[m]]
<1>1. /\ Len(boxes) \in Nat /\ n \in Nat /\ Hits(boxes, n) \subseteq 1..Len(boxes)
      /\ \A m \in Hits(boxes, n) : boxes[m] # GoldenSet!NoBox /\ boxes[m] \in GoldenSet!Boxes
  BY SeqFacts DEF Hits
<1>2. IsFiniteSet(Hits(boxes, n))
  <2>1. IsFiniteSet(1..Len(boxes))
    BY <1>1, FS_Interval
  <2> QED
    BY <1>1, <2>1, FS_Subset
<1>3. GoldenSet!TruePositives(boxes, n) = Cardinality(Hits(boxes, n))
  BY HitsAreCounted
<1>4. Matched(boxes, n) \subseteq GoldenSet!Boxes
  BY <1>1 DEF Matched
<1>5. box \in Bijection(Hits(boxes, n), Matched(boxes, n))
  <2>1. box \in [Hits(boxes, n) -> Matched(boxes, n)]
    BY DEF Matched
  <2>2. \A l, m \in Hits(boxes, n) : box[l] = box[m] => l = m
    BY <1>1 DEF Apart
  <2>3. \A b \in Matched(boxes, n) : \E m \in Hits(boxes, n) : box[m] = b
    BY DEF Matched
  <2> HIDE DEF box
  <2> QED
    BY <2>1, <2>2, <2>3 DEF Bijection, Injection, Surjection, IsInjective
<1>6. IsFiniteSet(Matched(boxes, n)) /\ Cardinality(Matched(boxes, n)) = Cardinality(Hits(boxes, n))
  <2>1. ExistsBijection(Hits(boxes, n), Matched(boxes, n))
    BY <1>5 DEF ExistsBijection
  <2> QED
    BY <1>2, <2>1, FS_Bijection
<1>7. IsFiniteSet(GoldenSet!Boxes) /\ Cardinality(GoldenSet!Boxes) = NumBoxes
  BY FS_Interval DEF GoldenSet!Boxes, GoldenSet!GoldenSetAssumption
<1>8. Cardinality(Matched(boxes, n)) <= Cardinality(GoldenSet!Boxes)
  BY <1>4, <1>7, FS_Subset
<1> QED
  BY <1>3, <1>4, <1>6, <1>7, <1>8

GoldenInv ==
  /\ found \in [Thresholds -> BoxSeqs]
  /\ \A t \in Thresholds : Apart(found[t])
  /\ \A s, t \in Thresholds : s <= t =>
       /\ Len(found[s]) = Len(found[t])
       /\ \A n \in 0..Len(found[t]) : Matched(found[t], n) \subseteq Matched(found[s], n)

LEMMA FreeBoxes ==
  ASSUME GoldenInv, NEW t \in Thresholds
  PROVE  GoldenSet!Free(t) = GoldenSet!Boxes \ Matched(found[t], Len(found[t]))
<1>1. /\ Len(found[t]) \in Nat /\ DOMAIN found[t] = 1..Len(found[t])
      /\ found[t] \in BoxSeqs
  BY SeqFacts DEF GoldenInv
<1>2. GoldenSet!NoBox \notin GoldenSet!Boxes
  BY DEF GoldenSet!NoBox, GoldenSet!Boxes
<1> QED
  BY <1>1, <1>2 DEF GoldenSet!Free, Matched, Hits

LEMMA MatchIs ==
  ASSUME NEW iou \in [GoldenSet!Boxes -> 0..MaxIoU], NEW t
  PROVE  /\ GoldenSet!Match(iou, t) # GoldenSet!NoBox =>
              /\ GoldenSet!Match(iou, t) \in GoldenSet!Candidate(iou, GoldenSet!Free(t))
              /\ GoldenSet!Match(iou, t) \in GoldenSet!Free(t)
              /\ iou[GoldenSet!Match(iou, t)] >= t
         /\ GoldenSet!Match(iou, t) = GoldenSet!NoBox =>
              \A b \in GoldenSet!Candidate(iou, GoldenSet!Free(t)) : ~(iou[b] >= t)
         /\ GoldenSet!Match(iou, t) \in GoldenSet!Boxes \cup {GoldenSet!NoBox}
<1> DEFINE hit == {b \in GoldenSet!Candidate(iou, GoldenSet!Free(t)) : iou[b] >= t}
<1>1. GoldenSet!Match(iou, t) = IF hit = {} THEN GoldenSet!NoBox ELSE CHOOSE b \in hit : TRUE
  BY DEF GoldenSet!Match
<1>2. /\ GoldenSet!Candidate(iou, GoldenSet!Free(t)) \subseteq GoldenSet!Free(t)
      /\ GoldenSet!Free(t) \subseteq GoldenSet!Boxes /\ GoldenSet!NoBox \notin GoldenSet!Boxes
  BY DEF GoldenSet!Candidate, GoldenSet!Free, GoldenSet!Boxes, GoldenSet!NoBox
<1>3. hit \subseteq GoldenSet!Boxes
  BY <1>2
<1>4. hit # {} => (CHOOSE b \in hit : TRUE) \in hit
  OBVIOUS
<1> QED
  BY <1>1, <1>2, <1>3, <1>4

\* What matches under a stricter threshold matches under a laxer one as well, or has before.
LEMMA MatchStricter ==
  ASSUME GoldenSet!GoldenSetAssumption, NEW iou \in [GoldenSet!Boxes -> 0..MaxIoU],
         NEW s \in Thresholds, NEW t \in Thresholds, s <= t,
         GoldenSet!Free(s) \subseteq GoldenSet!Free(t),
         GoldenSet!Match(iou, t) # GoldenSet!NoBox, GoldenSet!Match(iou, t) \in GoldenSet!Free(s)
  PROVE  GoldenSet!Match(iou, s) = GoldenSet!Match(iou, t)
<1> DEFINE b == GoldenSet!Match(iou, t)
<1>1. b \in GoldenSet!Candidate(iou, GoldenSet!Free(t)) /\ iou[b] >= t /\ b \in GoldenSet!Free(s)
  BY MatchIs
<1>2. s \in Nat /\ t \in Nat /\ MaxIoU \in Nat /\ GoldenSet!Free(s) \subseteq GoldenSet!Boxes
        /\ GoldenSet!Boxes \subseteq Nat
  <2>1. s \in Nat /\ t \in Nat /\ MaxIoU \in Nat
    BY DEF GoldenSet!GoldenSetAssumption
  <2>2. GoldenSet!Free(s) \subseteq GoldenSet!Boxes
    BY DEF GoldenSet!Free
  <2>3. GoldenSet!Boxes \subseteq Nat
    BY DEF GoldenSet!GoldenSetAssumption, GoldenSet!Boxes
  <2> QED
    BY <2>1, <2>2, <2>3
<1>3. \A o \in GoldenSet!Boxes : iou[o] \in Nat
  BY <1>2
<1> HIDE DEF b
<1>4. b \in GoldenSet!Candidate(iou, GoldenSet!Free(s))
  BY <1>1 DEF GoldenSet!Candidate
<1>5. iou[b] >= s
  <2>1. b \in GoldenSet!Boxes
    BY <1>1, <1>2
  <2>2. iou[b] \in Nat
    BY <1>3, <2>1
  <2> QED
    BY <1>1, <1>2, <2>2
<1>6. GoldenSet!Match(iou, s) # GoldenSet!NoBox
  BY <1>4, <1>5, MatchIs
<1> DEFINE c == GoldenSet!Match(iou, s)
<1>7. c \in GoldenSet!Candidate(iou, GoldenSet!Free(s))
  BY <1>6, MatchIs
<1> HIDE DEF c
<1>8. c = b
  <2> SUFFICES ASSUME c # b PROVE FALSE
    OBVIOUS
  <2>1. /\ b \in GoldenSet!Free(s) /\ c \in GoldenSet!Free(s)
        /\ iou[b] < iou[c] \/ (iou[b] = iou[c] /\ c < b)
        /\ iou[c] < iou[b] \/ (iou[c] = iou[b] /\ b < c)
    BY <1>4, <1>7 DEF GoldenSet!Candidate
  <2>2. b \in Nat /\ c \in Nat /\ iou[b] \in Nat /\ iou[c] \in Nat
    BY <1>2, <1>3, <2>1
  <2> QED
    BY <2>1, <2>2
<1> QED
  BY <1>8 DEF b, c

LEMMA Appended ==
  ASSUME NEW boxes \in BoxSeqs, NEW b \in GoldenSet!Boxes \cup {GoldenSet!NoBox},
         NEW more, more = Append(boxes, b)
  PROVE  /\ more \in BoxSeqs /\ Len(boxes) \in Nat /\ Len(more) = Len(boxes) + 1
         /\ \A m \in 1..Len(boxes) : more[m] = boxes[m]
         /\ more[Len(boxes) + 1] = b
BY SeqFacts DEF BoxSeqs

LEMMA AppendedPrefix ==
  ASSUME NEW boxes \in BoxSeqs, NEW b \in GoldenSet!Boxes \cup {GoldenSet!NoBox},
         NEW more, more = Append(boxes, b),
         NEW n \in 0..Len(boxes)
  PROVE  Matched(more, n) = Matched(boxes, n)
<1>1. Len(boxes) \in Nat /\ \A m \in 1..Len(boxes) : more[m] = boxes[m]
  BY Appended
<1>2. Hits(more, n) = Hits(boxes, n) /\ Hits(boxes, n) \subseteq 1..Len(boxes)
  BY <1>1 DEF Hits
<1> QED
  BY <1>1, <1>2 DEF Matched

LEMMA AppendedMatch ==
  ASSUME NEW boxes \in BoxSeqs, NEW b \in GoldenSet!Boxes \cup {GoldenSet!NoBox},
         NEW more, more = Append(boxes, b),
         NEW c
  PROVE  c \in Matched(more, Len(more)) <=>
           c \in Matched(boxes, Len(boxes)) \/ (c = b /\ b # GoldenSet!NoBox)
<1> DEFINE size == Len(boxes)
<1>1. size \in Nat /\ (\A m \in 1..size : more[m] = boxes[m]) /\ more[size + 1] = b
      /\ Len(more) = size + 1
  BY Appended
<1> HIDE DEF size
<1>2. \A m : m \in Hits(more, size + 1) <=>
        m \in Hits(boxes, size) \/ (m = size + 1 /\ b # GoldenSet!NoBox)
  BY <1>1 DEF Hits
<1>3. Hits(boxes, size) \subseteq 1..size
  BY DEF Hits
<1>4. c \in Matched(more, size + 1) <=>
        c \in Matched(boxes, size) \/ (c = b /\ b # GoldenSet!NoBox)
  BY <1>1, <1>2, <1>3 DEF Matched
<1> QED
  BY <1>1, <1>4 DEF size

LEMMA AppendedApart ==
  ASSUME NEW boxes \in BoxSeqs, NEW b \in GoldenSet!Boxes \cup {GoldenSet!NoBox},
         NEW more, more = Append(boxes, b),
         Apart(boxes), b \notin Matched(boxes, Len(boxes))
  PROVE  Apart(more)
<1> DEFINE size == Len(boxes)
<1>1. size \in Nat /\ (\A m \in 1..size : more[m] = boxes[m]) /\ more[size + 1] = b
      /\ Len(more) = size + 1
  BY Appended
<1>2. \A m \in 1..size : boxes[m] # GoldenSet!NoBox => boxes[m] # b
  BY DEF Matched, Hits
<1>3. \A m, n \in 1..size : boxes[m] # GoldenSet!NoBox /\ boxes[m] = boxes[n] => m = n
  BY DEF Apart
<1> HIDE DEF size
<1> SUFFICES ASSUME NEW m \in 1..(size + 1), NEW n \in 1..(size + 1), more[m] # GoldenSet!NoBox,
                    more[m] = more[n]
             PROVE  m = n
  BY <1>1 DEF Apart
<1>4. CASE m \in 1..size /\ n \in 1..size
  BY <1>1, <1>3, <1>4
<1>5. CASE m = size + 1 \/ n = size + 1
  BY <1>1, <1>2, <1>5
<1> QED
  BY <1>1, <1>4, <1>5

\* It holds in every reachable state, and the scores follow from it.
LEMMA InitGolden == GoldenSet!Init => GoldenInv
<1> SUFFICES ASSUME GoldenSet!Init PROVE GoldenInv
  OBVIOUS
<1>1. <<>> \in BoxSeqs
  <2>1. <<>> \in Seq(GoldenSet!Boxes \cup {GoldenSet!NoBox})
    OBVIOUS
  <2> QED BY <2>1 DEF BoxSeqs
<1>2. \A t \in Thresholds : found[t] = <<>>
  BY DEF GoldenSet!Init
<1>3. found \in [Thresholds -> BoxSeqs]
  BY <1>1 DEF GoldenSet!Init
<1>4. Len(<<>>) = 0 /\ Matched(<<>>, 0) = {} /\ Apart(<<>>)
  BY DEF Matched, Hits, Apart
<1> QED
  BY <1>2, <1>3, <1>4 DEF GoldenInv

LEMMA StepPredict ==
  ASSUME GoldenSet!GoldenSetAssumption, GoldenInv,
         NEW iou \in [GoldenSet!Boxes -> 0..MaxIoU], GoldenSet!Predict(iou)
  PROVE  GoldenInv'
<1> DEFINE Box(t) == GoldenSet!Match(iou, t)
           size(t) == Len(found[t])
<1>1. \A t \in Thresholds : /\ found[t] \in BoxSeqs /\ Apart(found[t]) /\ size(t) \in Nat
                            /\ GoldenSet!Free(t) = GoldenSet!Boxes \ Matched(found[t], size(t))
                            /\ Box(t) \in GoldenSet!Boxes \cup {GoldenSet!NoBox}
                            /\ Box(t) # GoldenSet!NoBox => Box(t) \in GoldenSet!Free(t)
  BY SeqFacts, FreeBoxes, MatchIs DEF GoldenInv
<1>2. /\ found' = [t \in Thresholds |-> Append(found[t], Box(t))]
      /\ \A t \in Thresholds : found'[t] = Append(found[t], Box(t))
  BY DEF GoldenSet!Predict
<1> HIDE DEF Box, size
<1>3. \A t \in Thresholds :
        /\ found'[t] \in BoxSeqs /\ Len(found'[t]) = size(t) + 1
        /\ \A n \in 0..size(t) : Matched(found'[t], n) = Matched(found[t], n)
        /\ \A c : c \in Matched(found'[t], size(t) + 1) <=>
             c \in Matched(found[t], size(t)) \/ (c = Box(t) /\ Box(t) # GoldenSet!NoBox)
        /\ Apart(found'[t])
  <2> SUFFICES ASSUME NEW t \in Thresholds
               PROVE  /\ found'[t] \in BoxSeqs /\ Len(found'[t]) = size(t) + 1
                      /\ \A n \in 0..size(t) : Matched(found'[t], n) = Matched(found[t], n)
                      /\ \A c : c \in Matched(found'[t], size(t) + 1) <=>
                           c \in Matched(found[t], size(t)) \/ (c = Box(t)
                             /\ Box(t) # GoldenSet!NoBox)
                      /\ Apart(found'[t])
    OBVIOUS
  <2>1. Box(t) \notin Matched(found[t], size(t))
    <3>1. GoldenSet!NoBox \notin Matched(found[t], size(t))
      BY DEF Matched, Hits
    <3> QED
      BY <1>1, <3>1
  <2>2. found[t] \in BoxSeqs /\ Apart(found[t]) /\ Box(t) \in GoldenSet!Boxes \cup {GoldenSet!NoBox}
        /\ found'[t] = Append(found[t], Box(t))
    BY <1>1, <1>2
  <2> DEFINE boxes == found[t]
             more == found'[t]
             b == Box(t)
  <2>3. boxes \in BoxSeqs /\ b \in GoldenSet!Boxes \cup {GoldenSet!NoBox} /\ more = Append(boxes, b)
    BY <2>2
  <2>4. size(t) = Len(boxes) /\ Apart(boxes) /\ b \notin Matched(boxes, Len(boxes))
    BY <2>1, <2>2 DEF size
  <2> HIDE DEF boxes, more, b
  <2>5. more \in BoxSeqs /\ Len(more) = Len(boxes) + 1
    BY <2>3, Appended
  <2>6. \A n \in 0..Len(boxes) : Matched(more, n) = Matched(boxes, n)
    BY <2>3, AppendedPrefix
  <2>7. \A c : c \in Matched(more, Len(more)) <=>
          c \in Matched(boxes, Len(boxes)) \/ (c = b /\ b # GoldenSet!NoBox)
    BY <2>3, AppendedMatch
  <2>8. Apart(more)
    BY <2>3, <2>4, AppendedApart
  <2> QED
    BY <2>4, <2>5, <2>6, <2>7, <2>8 DEF boxes, more, b
<1>4. found' \in [Thresholds -> BoxSeqs]
  BY <1>2, <1>3
<1>5. ASSUME NEW s \in Thresholds, NEW t \in Thresholds, s <= t
      PROVE  /\ Len(found'[s]) = Len(found'[t])
             /\ \A n \in 0..Len(found'[t]) : Matched(found'[t], n) \subseteq Matched(found'[s], n)
  <2>1. /\ size(s) = size(t) /\ size(t) \in Nat
        /\ \A n \in 0..size(t) : Matched(found[t], n) \subseteq Matched(found[s], n)
    BY <1>1, <1>5 DEF GoldenInv, size
  <2>2. GoldenSet!Free(s) \subseteq GoldenSet!Free(t)
    <3>1. Matched(found[t], size(t)) \subseteq Matched(found[s], size(t))
      BY <2>1
    <3> QED
      BY <1>1, <2>1, <3>1
  <2>3. Matched(found'[t], size(t) + 1) \subseteq Matched(found'[s], size(t) + 1)
    <3> SUFFICES ASSUME NEW b \in Matched(found'[t], size(t) + 1)
                 PROVE  b \in Matched(found'[s], size(t) + 1)
      OBVIOUS
    <3>1. /\ \A c : c \in Matched(found'[s], size(t) + 1) <=>
               c \in Matched(found[s], size(t)) \/ (c = Box(s) /\ Box(s) # GoldenSet!NoBox)
          /\ \A c : c \in Matched(found'[t], size(t) + 1) <=>
               c \in Matched(found[t], size(t)) \/ (c = Box(t) /\ Box(t) # GoldenSet!NoBox)
      BY <1>3, <2>1
    <3>2. CASE b \in Matched(found[t], size(t))
      <4>1. b \in Matched(found[s], size(t))
        BY <2>1, <3>2
      <4> QED
        BY <3>1, <4>1
    <3>3. CASE b \notin Matched(found[t], size(t))
      <4>1. b = Box(t) /\ Box(t) # GoldenSet!NoBox
        BY <3>1, <3>3
      <4>2. CASE b \in GoldenSet!Free(s)
        <5>1. Box(s) = Box(t)
          BY <1>5, <2>2, <4>1, <4>2, MatchStricter DEF Box
        <5> QED
          BY <3>1, <4>1, <5>1
      <4>3. CASE b \notin GoldenSet!Free(s)
        <5>1. b \in GoldenSet!Boxes
          BY <1>1, <4>1
        <5>2. b \in Matched(found[s], size(t))
          BY <1>1, <2>1, <4>3, <5>1
        <5> QED
          BY <3>1, <5>2
      <4> QED
        BY <4>2, <4>3
    <3> QED
      BY <3>2, <3>3
  <2>4. Len(found'[s]) = size(t) + 1 /\ Len(found'[t]) = size(t) + 1
    BY <1>3, <2>1
  <2>5. \A n \in 0..(size(t) + 1) : Matched(found'[t], n) \subseteq Matched(found'[s], n)
    <3> SUFFICES ASSUME NEW n \in 0..(size(t) + 1)
                 PROVE  Matched(found'[t], n) \subseteq Matched(found'[s], n)
      OBVIOUS
    <3>1. CASE n = size(t) + 1
      BY <2>3, <3>1
    <3>2. CASE n # size(t) + 1
      <4>1. n \in 0..size(t)
        BY <2>1, <3>2
      <4>2. /\ Matched(found'[t], n) = Matched(found[t], n)
            /\ Matched(found'[s], n) = Matched(found[s], n)
        BY <1>3, <2>1, <4>1
      <4> QED
        BY <2>1, <4>1, <4>2
    <3> QED
      BY <3>1, <3>2
  <2> QED
    BY <2>4, <2>5
<1>6. \A t \in Thresholds : Apart(found'[t])
  BY <1>3
<1> QED
  BY <1>4, <1>5, <1>6 DEF GoldenInv

LEMMA GoldenInvariance == ASSUME GoldenSet!GoldenSetAssumption PROVE Spec => []GoldenInv
<1>1. GoldenSet!Init => GoldenInv
  BY InitGolden
<1>2. GoldenInv /\ [GoldenSet!Next]_(GoldenSet!goldenVars) => GoldenInv'
  <2> SUFFICES ASSUME GoldenInv, [GoldenSet!Next]_(GoldenSet!goldenVars) PROVE GoldenInv'
    OBVIOUS
  <2>1. CASE UNCHANGED GoldenSet!goldenVars
    BY <2>1 DEF GoldenSet!goldenVars, GoldenInv
  <2>2. CASE GoldenSet!Next
    BY <2>2, StepPredict DEF GoldenSet!Next
  <2> QED
    BY <2>1, <2>2
<1> QED
  BY <1>1, <1>2, GoldenSetRuns, PTL DEF GoldenSet!Spec

LEMMA GoldenIsTyped == GoldenInv => GoldenSet!TypeOK
BY DEF GoldenInv, GoldenSet!TypeOK, BoxSeqs

LEMMA ScoreIsMean ==
  ASSUME GoldenSet!GoldenSetAssumption, GoldenInv, NEW t \in Thresholds
  PROVE  GoldenSet!Score(t) = GoldenSet!Totals(Bests(found[t]))[NumBoxes]
<1>1. found[t] \in BoxSeqs /\ Apart(found[t]) /\ Len(found[t]) \in 0..Len(found[t])
  BY SeqFacts DEF GoldenInv
<1> QED
  BY <1>1, CountMatched, AreaIsMean DEF GoldenSet!Score

LEMMA StricterScores ==
  ASSUME GoldenSet!GoldenSetAssumption, GoldenInv, NEW s \in Thresholds,
         NEW t \in Thresholds, s <= t
  PROVE  GoldenSet!Score(t) <= GoldenSet!Score(s)
<1> DEFINE lax == found[s]
           strict == found[t]
           size == Len(strict)
<1>1. /\ lax \in BoxSeqs /\ strict \in BoxSeqs /\ Apart(lax) /\ Apart(strict)
      /\ Len(lax) = size /\ size \in Nat
      /\ \A n \in 0..size : Matched(strict, n) \subseteq Matched(lax, n)
  BY SeqFacts DEF GoldenInv
<1>2. GoldenSet!Score(t) = GoldenSet!Totals(Bests(strict))[NumBoxes]
        /\ GoldenSet!Score(s) = GoldenSet!Totals(Bests(lax))[NumBoxes]
  BY ScoreIsMean
<1> HIDE DEF lax, strict, size
<1>3. \A n \in 0..size : GoldenSet!TruePositives(strict, n) <= GoldenSet!TruePositives(lax, n)
  <2> SUFFICES ASSUME NEW n \in 0..size
               PROVE  GoldenSet!TruePositives(strict, n) <= GoldenSet!TruePositives(lax, n)
    OBVIOUS
  <2>1. n \in 0..Len(lax) /\ n \in 0..Len(strict)
    BY <1>1 DEF size
  <2>2. /\ IsFiniteSet(Matched(lax, n))
        /\ GoldenSet!TruePositives(strict, n) = Cardinality(Matched(strict, n))
        /\ GoldenSet!TruePositives(lax, n) = Cardinality(Matched(lax, n))
    BY <1>1, <2>1, CountMatched
  <2>3. Matched(strict, n) \subseteq Matched(lax, n)
    BY <1>1
  <2> QED
    BY <2>2, <2>3, FS_Subset
<1>4. ASSUME NEW n \in 1..size
      PROVE  GoldenSet!Precision(strict, n) <= GoldenSet!Precision(lax, n)
  <2>1. n \in Nat \ {0} /\ n \in 0..size /\ Scale \in Nat
    BY <1>1 DEF GoldenSet!GoldenSetAssumption
  <2> DEFINE a == GoldenSet!TruePositives(strict, n)
             b == GoldenSet!TruePositives(lax, n)
  <2>2. a \in Nat /\ b \in Nat /\ a <= b
    BY <1>3, <2>1, CountHits
  <2> HIDE DEF a, b
  <2>3. Scale * a \in Nat /\ Scale * b \in Nat /\ Scale * a <= Scale * b
    BY <2>1, <2>2
  <2>4. (Scale * a) \div n <= (Scale * b) \div n
    BY <2>1, <2>3, Quotients
  <2> QED
    BY <2>4 DEF GoldenSet!Precision, a, b
<1>5. ASSUME NEW k \in GoldenSet!Boxes
      PROVE  GoldenSet!BestPrecision(strict, k) <= GoldenSet!BestPrecision(lax, k)
  <2> DEFINE few == {m \in 1..Len(strict) : GoldenSet!TruePositives(strict, m) >= k}
             many == {m \in 1..Len(lax) : GoldenSet!TruePositives(lax, m) >= k}
  <2>1. /\ GoldenSet!BestPrecision(strict, k) = Highest(strict, few)
        /\ GoldenSet!BestPrecision(lax, k) = Highest(lax, many)
    BY <1>1, BestIsHighest
  <2>2. few \in SUBSET (1..size) /\ many \in SUBSET (1..size)
    BY <1>1 DEF size
  <2>3. few \subseteq many
    <3> SUFFICES ASSUME NEW m \in 1..size, GoldenSet!TruePositives(strict, m) >= k
                 PROVE  GoldenSet!TruePositives(lax, m) >= k
      BY <1>1 DEF size
    <3>1. m \in Nat /\ m \in 0..size
      BY <1>1
    <3>2. GoldenSet!TruePositives(strict, m) \in Nat /\ GoldenSet!TruePositives(lax, m) \in Nat
      BY <3>1, CountHits
    <3>3. GoldenSet!TruePositives(strict, m) <= GoldenSet!TruePositives(lax, m)
      BY <1>3, <3>1
    <3> QED
      BY <3>2, <3>3 DEF GoldenSet!Boxes
  <2> HIDE DEF few, many
  <2>4. /\ Highest(strict, few) \in Levels(strict, few) /\ Levels(strict, few) \subseteq Nat
        /\ Levels(lax, many) \subseteq Nat /\ Highest(lax, many) \in Levels(lax, many)
        /\ \A q \in Levels(lax, many) : q <= Highest(lax, many)
    BY <1>1, <2>2, HighestIs
  <2>5. \A p \in Levels(strict, few) : \E q \in Levels(lax, many) : p <= q
    <3> SUFFICES ASSUME NEW p \in Levels(strict, few)
                 PROVE  \E q \in Levels(lax, many) : p <= q
      OBVIOUS
    <3>1. CASE p = 0
      <4>1. 0 \in Levels(lax, many)
        BY DEF Levels
      <4> QED BY <3>1, <4>1
    <3>2. CASE p # 0
      <4>1. PICK n \in few : p = GoldenSet!Precision(strict, n)
        BY <3>2 DEF Levels
      <4>2. GoldenSet!Precision(lax, n) \in Levels(lax, many)
        BY <2>3 DEF Levels
      <4>3. p <= GoldenSet!Precision(lax, n)
        BY <1>4, <2>2, <4>1
      <4> QED BY <4>2, <4>3
    <3> QED BY <3>1, <3>2
  <2>6. PICK q \in Levels(lax, many) : Highest(strict, few) <= q
    BY <2>4, <2>5
  <2>7. Highest(strict, few) \in Nat /\ Highest(lax, many) \in Nat /\ q \in Nat
        /\ q <= Highest(lax, many)
    BY <2>4
  <2> QED
    BY <2>1, <2>6, <2>7
<1>6. \A k \in 1..NumBoxes : /\ Bests(strict)[k] \in Nat /\ Bests(lax)[k] \in Nat
                             /\ Bests(strict)[k] <= Bests(lax)[k]
  BY <1>1, <1>5, BestsAreNatural DEF Bests, GoldenSet!Boxes
<1>7. NumBoxes \in Nat
  BY DEF GoldenSet!GoldenSetAssumption
<1>8. GoldenSet!Totals(Bests(strict))[NumBoxes] <= GoldenSet!Totals(Bests(lax))[NumBoxes]
  BY <1>6, <1>7, TotalsGrow
<1> QED
  BY <1>2, <1>8


-----------------------------------------------------------------------------
(***************************************************************************)
(* Dashboard, the severity of a batch.  A board more changes two sums over *)
(* the classes and two counts: in which band the score then lies follows   *)
(* from products of them.                                                  *)
(***************************************************************************)

\* Of some subsets of a finite set one has no other of them below it.
LEMMA LeastSet ==
  ASSUME NEW S, IsFiniteSet(S), NEW bad \in SUBSET (SUBSET S), bad # {}
  PROVE  \E T \in bad : \A U \in SUBSET T : U # T => U \notin bad
<1> DEFINE sizes == {Cardinality(T) : T \in bad}
<1>1. \A T \in bad : IsFiniteSet(T) /\ Cardinality(T) \in Nat
  BY FS_Subset, FS_CardinalityType
<1>2. sizes \in SUBSET Nat /\ sizes # {}
  BY <1>1
<1>3. PICK n \in sizes : \A m \in 0..(n - 1) : m \notin sizes
  <2> HIDE DEF sizes
  <2> QED BY <1>2, HasLeast
<1>4. PICK T \in bad : n = Cardinality(T)
  OBVIOUS
<1>5. ASSUME NEW U \in SUBSET T, U # T, U \in bad
      PROVE  FALSE
  <2>1. Cardinality(U) < Cardinality(T)
    BY <1>1, <1>5, FS_Subset
  <2>2. Cardinality(U) \in sizes /\ Cardinality(U) \in Nat /\ n \in Nat
    BY <1>1, <1>4, <1>5
  <2>3. Cardinality(U) \in 0..(n - 1)
    <3> HIDE DEF sizes
    <3> QED BY <1>4, <2>1, <2>2
  <2> QED
    BY <1>3, <2>2, <2>3
<1> QED
  BY <1>5

\* Sum: the definition by recursion over the subsets is that of one function of the subset.
Pick(s) == CHOOSE x \in s : TRUE
IsSum(g, f, T) ==
  /\ g = [s \in SUBSET T |-> g[s]]
  /\ g[{}] = 0
  /\ \A s \in SUBSET T : s # {} => g[s] = f[Pick(s)] + g[s \ {Pick(s)}]

LEMMA SumsAgree ==
  ASSUME NEW f, NEW T, IsFiniteSet(T), NEW U \in SUBSET T,
         NEW g, NEW h, IsSum(g, f, T), IsSum(h, f, U)
  PROVE  g[U] = h[U]
<1> DEFINE differ == {s \in SUBSET U : g[s] # h[s]}
<1>1. differ = {}
  <2> SUFFICES ASSUME differ # {} PROVE FALSE
    OBVIOUS
  <2>1. IsFiniteSet(U) /\ differ \in SUBSET (SUBSET U)
    BY FS_Subset
  <2>2. PICK s \in differ : \A r \in SUBSET s : r # s => r \notin differ
    <3> HIDE DEF differ
    <3> QED BY <2>1, LeastSet
  <2>3. s # {} /\ s \in SUBSET U /\ s \in SUBSET T
    BY DEF IsSum
  <2>4. Pick(s) \in s
    BY <2>3 DEF Pick
  <2> DEFINE rest == s \ {Pick(s)}
  <2>5. rest \in SUBSET s /\ rest # s /\ rest \in SUBSET U
    BY <2>3, <2>4
  <2>6. g[rest] = h[rest]
    BY <2>2, <2>5
  <2>7. g[s] = f[Pick(s)] + g[rest] /\ h[s] = f[Pick(s)] + h[rest]
    BY <2>3 DEF IsSum
  <2> QED
    BY <2>6, <2>7
<1> QED
  BY <1>1

LEMMA SumsExist ==
  ASSUME NEW f, NEW S, IsFiniteSet(S)
  PROVE  \A T \in SUBSET S : \E g : IsSum(g, f, T)
<1> DEFINE missing == {T \in SUBSET S : ~\E g : IsSum(g, f, T)}
           table(T) == CHOOSE g : IsSum(g, f, T)
<1> SUFFICES ASSUME missing # {} PROVE FALSE
  OBVIOUS
<1>1. PICK T \in missing : \A U \in SUBSET T : U # T => U \notin missing
  <2>1. missing \in SUBSET (SUBSET S)
    OBVIOUS
  <2> HIDE DEF missing
  <2> QED BY <2>1, LeastSet
<1>2. \A U \in SUBSET T : U # T => IsSum(table(U), f, U) /\ IsFiniteSet(U)
  BY <1>1, FS_Subset
<1> HIDE DEF table
<1>3. T # {}
  <2>1. IsSum([s \in SUBSET {} |-> 0], f, {})
    BY DEF IsSum
  <2> QED
    BY <2>1
<1>4. \A s \in SUBSET T : s # {} => /\ Pick(s) \in s /\ s \ {Pick(s)} \in SUBSET T
                                    /\ s \ {Pick(s)} # T /\ s \ {Pick(s)} \in SUBSET s
  BY DEF Pick
<1> DEFINE h == [s \in SUBSET T |->
                   IF s = T THEN f[Pick(T)] + table(T \ {Pick(T)})[T \ {Pick(T)}] ELSE table(s)[s]]
<1>5. h = [s \in SUBSET T |-> h[s]] /\ h[{}] = 0
  BY <1>2, <1>3 DEF IsSum
<1>6. ASSUME NEW s \in SUBSET T, s # {}
      PROVE  h[s] = f[Pick(s)] + h[s \ {Pick(s)}]
  <2> DEFINE rest == s \ {Pick(s)}
  <2>1. rest \in SUBSET T /\ rest # T /\ rest \in SUBSET s
    BY <1>4, <1>6
  <2>2. h[rest] = table(rest)[rest]
    BY <2>1
  <2>3. CASE s = T
    BY <2>2, <2>3
  <2>4. CASE s # T
    <3>1. h[s] = table(s)[s]
      BY <2>4
    <3>2. IsSum(table(s), f, s) /\ IsFiniteSet(s) /\ IsSum(table(rest), f, rest)
      BY <1>2, <2>1, <2>4
    <3>3. table(s)[s] = f[Pick(s)] + table(s)[rest]
      BY <1>6, <3>2 DEF IsSum
    <3> HIDE DEF rest, h
    <3>4. table(s)[rest] = table(rest)[rest]
      BY <2>1, <3>2, SumsAgree
    <3> QED
      BY <2>2, <3>1, <3>3, <3>4 DEF rest
  <2> QED
    BY <2>3, <2>4
<1>7. IsSum(h, f, T)
  <2> HIDE DEF h
  <2> QED BY <1>5, <1>6 DEF IsSum
<1> QED
  BY <1>7

Partial(f) ==
  CHOOSE g : g = [s \in SUBSET DOMAIN f |->
                    IF s = {} THEN 0 ELSE LET x == CHOOSE x \in s : TRUE IN f[x] + g[s \ {x}]]

LEMMA SumIsPartial == ASSUME NEW f PROVE Dashboard!Sum(f) = Partial(f)[DOMAIN f]
BY DEF Dashboard!Sum, Dashboard!FoldFunction, Dashboard!FoldFunctionOnSet,
       Dashboard!MapThenFoldSet, Partial

LEMMA SumsDefined ==
  ASSUME NEW f, IsFiniteSet(DOMAIN f)
  PROVE  /\ Partial(f)[{}] = 0
         /\ \A s \in SUBSET DOMAIN f : s # {} =>
              /\ Pick(s) \in s
              /\ Partial(f)[s] = f[Pick(s)] + Partial(f)[s \ {Pick(s)}]
<1> DEFINE S == DOMAIN f
           Step(g, s) == IF s = {} THEN 0 ELSE f[Pick(s)] + g[s \ {Pick(s)}]
           Equation(g) == g = [s \in SUBSET S |-> Step(g, s)]
<1>1. PICK h : IsSum(h, f, S)
  BY SumsExist
<1>2. Equation(h)
  <2> DEFINE body == [s \in SUBSET S |-> Step(h, s)]
  <2>1. \A s \in SUBSET S : h[s] = body[s]
    BY <1>1 DEF IsSum
  <2>2. h = [s \in SUBSET S |-> h[s]] /\ body = [s \in SUBSET S |-> body[s]]
    BY <1>1 DEF IsSum
  <2> HIDE DEF body
  <2>3. h = body
    BY <2>1, <2>2
  <2> QED BY <2>3 DEF body
<1>3. Equation(CHOOSE g : Equation(g))
  <2> HIDE DEF Equation
  <2> QED BY <1>2
<1>4. Partial(f) = CHOOSE g : Equation(g)
  BY DEF Partial, Pick
<1> DEFINE p == Partial(f)
<1>5. Equation(p)
  <2> HIDE DEF Equation
  <2> QED BY <1>3, <1>4
<1>6. \A s \in SUBSET S : p[s] = Step(p, s)
  <2> HIDE DEF p, Step
  <2> QED BY <1>5
<1>7. \A s \in SUBSET S : s # {} => Pick(s) \in s
  BY DEF Pick
<1> QED
  BY <1>6, <1>7

\* How the sums of functions that are natural, never smaller, added or scaled compare.
LEMMA PartialsAreNatural ==
  ASSUME NEW C, IsFiniteSet(C), NEW f \in [C -> Nat]
  PROVE  \A s \in SUBSET C : Partial(f)[s] \in Nat
<1> DEFINE bad == {s \in SUBSET C : Partial(f)[s] \notin Nat}
<1> SUFFICES ASSUME bad # {} PROVE FALSE
  OBVIOUS
<1>1. PICK s \in bad : \A r \in SUBSET s : r # s => r \notin bad
  <2>1. bad \in SUBSET (SUBSET C)
    OBVIOUS
  <2> HIDE DEF bad
  <2> QED BY <2>1, LeastSet
<1>2. s \in SUBSET C /\ s # {} /\ DOMAIN f = C
  BY SumsDefined
<1>3. Pick(s) \in s /\ Partial(f)[s] = f[Pick(s)] + Partial(f)[s \ {Pick(s)}]
  BY <1>2, SumsDefined
<1>4. s \ {Pick(s)} \in SUBSET s /\ s \ {Pick(s)} # s /\ s \ {Pick(s)} \in SUBSET C
  BY <1>2, <1>3
<1>5. Partial(f)[s \ {Pick(s)}] \in Nat /\ f[Pick(s)] \in Nat
  BY <1>1, <1>2, <1>3, <1>4
<1> QED
  BY <1>3, <1>5

LEMMA SumsAreNatural ==
  ASSUME NEW C, IsFiniteSet(C), NEW f \in [C -> Nat]
  PROVE  Dashboard!Sum(f) \in Nat
BY PartialsAreNatural, SumIsPartial

LEMMA SumsGrow ==
  ASSUME NEW C, IsFiniteSet(C), NEW f \in [C -> Nat], NEW g \in [C -> Nat],
         \A c \in C : f[c] <= g[c]
  PROVE  Dashboard!Sum(f) <= Dashboard!Sum(g)
<1> DEFINE bad == {s \in SUBSET C : ~(Partial(f)[s] <= Partial(g)[s])}
<1>1. bad = {}
  <2> SUFFICES ASSUME bad # {} PROVE FALSE
    OBVIOUS
  <2>1. PICK s \in bad : \A r \in SUBSET s : r # s => r \notin bad
    <3>1. bad \in SUBSET (SUBSET C)
      OBVIOUS
    <3> HIDE DEF bad
    <3> QED BY <3>1, LeastSet
  <2>2. s \in SUBSET C /\ s # {} /\ DOMAIN f = C /\ DOMAIN g = C
    BY SumsDefined
  <2>3. /\ Pick(s) \in s /\ Partial(f)[s] = f[Pick(s)] + Partial(f)[s \ {Pick(s)}]
        /\ Partial(g)[s] = g[Pick(s)] + Partial(g)[s \ {Pick(s)}]
    BY <2>2, SumsDefined
  <2>4. s \ {Pick(s)} \in SUBSET s /\ s \ {Pick(s)} # s /\ s \ {Pick(s)} \in SUBSET C
    BY <2>2, <2>3
  <2>5. Partial(f)[s \ {Pick(s)}] <= Partial(g)[s \ {Pick(s)}]
    BY <2>1, <2>4
  <2>6. /\ Partial(f)[s \ {Pick(s)}] \in Nat /\ Partial(g)[s \ {Pick(s)}] \in Nat
        /\ f[Pick(s)] \in Nat /\ g[Pick(s)] \in Nat /\ f[Pick(s)] <= g[Pick(s)]
    BY <2>2, <2>3, <2>4, PartialsAreNatural
  <2>7. Partial(f)[s] <= Partial(g)[s]
    BY <2>3, <2>5, <2>6
  <2> QED
    BY <2>1, <2>7
<1>2. Partial(f)[C] <= Partial(g)[C]
  BY <1>1
<1> QED
  BY <1>2, SumIsPartial

LEMMA SumsAdd ==
  ASSUME NEW C, IsFiniteSet(C), NEW f \in [C -> Nat], NEW g \in [C -> Nat], NEW h \in [C -> Nat],
         \A c \in C : h[c] = f[c] + g[c]
  PROVE  Dashboard!Sum(h) = Dashboard!Sum(f) + Dashboard!Sum(g)
<1> DEFINE bad == {s \in SUBSET C : Partial(h)[s] # Partial(f)[s] + Partial(g)[s]}
<1>1. bad = {}
  <2> SUFFICES ASSUME bad # {} PROVE FALSE
    OBVIOUS
  <2>1. PICK s \in bad : \A r \in SUBSET s : r # s => r \notin bad
    <3>1. bad \in SUBSET (SUBSET C)
      OBVIOUS
    <3> HIDE DEF bad
    <3> QED BY <3>1, LeastSet
  <2>2. DOMAIN f = C /\ DOMAIN g = C /\ DOMAIN h = C
    OBVIOUS
  <2>3. Partial(h)[{}] = Partial(f)[{}] + Partial(g)[{}]
    <3>1. Partial(f)[{}] = 0 /\ Partial(g)[{}] = 0 /\ Partial(h)[{}] = 0
      BY <2>2, SumsDefined
    <3> QED BY <3>1
  <2>4. s \in SUBSET C /\ s # {}
    BY <2>3
  <2>5. /\ Pick(s) \in s /\ Partial(f)[s] = f[Pick(s)] + Partial(f)[s \ {Pick(s)}]
        /\ Partial(g)[s] = g[Pick(s)] + Partial(g)[s \ {Pick(s)}]
        /\ Partial(h)[s] = h[Pick(s)] + Partial(h)[s \ {Pick(s)}]
    BY <2>2, <2>4, SumsDefined
  <2>6. s \ {Pick(s)} \in SUBSET s /\ s \ {Pick(s)} # s /\ s \ {Pick(s)} \in SUBSET C
    BY <2>4, <2>5
  <2>7. Partial(h)[s \ {Pick(s)}] = Partial(f)[s \ {Pick(s)}] + Partial(g)[s \ {Pick(s)}]
    BY <2>1, <2>6
  <2>8. /\ Partial(f)[s \ {Pick(s)}] \in Nat /\ Partial(g)[s \ {Pick(s)}] \in Nat
        /\ f[Pick(s)] \in Nat /\ g[Pick(s)] \in Nat /\ h[Pick(s)] = f[Pick(s)] + g[Pick(s)]
    BY <2>4, <2>5, <2>6, PartialsAreNatural
  <2>9. Partial(h)[s] = Partial(f)[s] + Partial(g)[s]
    BY <2>5, <2>7, <2>8
  <2> QED
    BY <2>1, <2>9
<1>2. Partial(h)[C] = Partial(f)[C] + Partial(g)[C]
  BY <1>1
<1> QED
  BY <1>2, SumIsPartial

LEMMA SumsScale ==
  ASSUME NEW C, IsFiniteSet(C), NEW f \in [C -> Nat], NEW h \in [C -> Nat], NEW v \in Nat,
         \A c \in C : h[c] = f[c] * v
  PROVE  Dashboard!Sum(h) = Dashboard!Sum(f) * v
<1> DEFINE bad == {s \in SUBSET C : Partial(h)[s] # Partial(f)[s] * v}
<1>1. bad = {}
  <2> SUFFICES ASSUME bad # {} PROVE FALSE
    OBVIOUS
  <2>1. PICK s \in bad : \A r \in SUBSET s : r # s => r \notin bad
    <3>1. bad \in SUBSET (SUBSET C)
      OBVIOUS
    <3> HIDE DEF bad
    <3> QED BY <3>1, LeastSet
  <2>2. DOMAIN f = C /\ DOMAIN h = C
    OBVIOUS
  <2>3. Partial(f)[{}] = 0 /\ Partial(h)[{}] = 0 /\ 0 * v = 0
    BY <2>2, SumsDefined
  <2>4. s \in SUBSET C /\ s # {}
    BY <2>3
  <2>5. /\ Pick(s) \in s /\ Partial(f)[s] = f[Pick(s)] + Partial(f)[s \ {Pick(s)}]
        /\ Partial(h)[s] = h[Pick(s)] + Partial(h)[s \ {Pick(s)}]
    BY <2>2, <2>4, SumsDefined
  <2>6. s \ {Pick(s)} \in SUBSET s /\ s \ {Pick(s)} # s /\ s \ {Pick(s)} \in SUBSET C
    BY <2>4, <2>5
  <2>7. Partial(h)[s \ {Pick(s)}] = Partial(f)[s \ {Pick(s)}] * v
    BY <2>1, <2>6
  <2>8. /\ Partial(f)[s \ {Pick(s)}] \in Nat
        /\ f[Pick(s)] \in Nat /\ h[Pick(s)] = f[Pick(s)] * v
    BY <2>4, <2>5, <2>6, PartialsAreNatural
  <2>9. \A a, b \in Nat : a * v + b * v = (a + b) * v
    OBVIOUS
  <2>10. Partial(h)[s] = Partial(f)[s] * v
    BY <2>5, <2>7, <2>8, <2>9
  <2> QED
    BY <2>1, <2>10
<1>2. Partial(h)[C] = Partial(f)[C] * v
  BY <1>1
<1> QED
  BY <1>2, SumIsPartial

\* The arithmetic of the bands.
LEMMA Scaled ==
  ASSUME NEW n \in Nat \ {0}, NEW x \in Int, NEW y \in Int, n * x < n * y
  PROVE  x < y
<1> SUFFICES ASSUME y <= x PROVE FALSE
  OBVIOUS
<1>1. PICK d \in Nat : x = y + d
  <2>1. x - y \in Nat /\ x = y + (x - y)
    OBVIOUS
  <2> QED BY <2>1
<1>2. n * x = n * y + n * d /\ n * d \in Nat /\ n * x \in Int /\ n * y \in Int
  BY <1>1
<1> QED
  BY <1>2

LEMMA OneMoreClean ==
  ASSUME NEW w \in Nat, NEW t \in Nat, NEW n \in Nat \ {0}, NEW b \in Nat, NEW a \in Int,
         4 * w * (n + b) < a * 2 * t * n
  PROVE  4 * w * (n + 1 + b) < a * 2 * t * (n + 1)
<1> DEFINE u == 4 * w
           s == a * 2 * t
<1>1. u \in Nat /\ s \in Int
  OBVIOUS
<1>2. u * (n + b) < s * n
  OBVIOUS
<1> HIDE DEF u, s
<1>3. u * (n + b) \in Nat /\ s * n \in Int
  BY <1>1
<1>4. (n + 1) * (u * (n + b)) < (n + 1) * (s * n)
  <2> DEFINE x == u * (n + b)
             y == s * n
  <2>1. x \in Int /\ y \in Int /\ x < y
    BY <1>2, <1>3
  <2> HIDE DEF x, y
  <2>2. (n + 1) * x < (n + 1) * y
    BY <2>1
  <2> QED
    BY <2>2 DEF x, y
<1>5. n * (u * (n + 1 + b)) + u * b = (n + 1) * (u * (n + b))
  BY <1>1
<1>6. n * (s * (n + 1)) = (n + 1) * (s * n)
  BY <1>1
<1>7. u * b \in Nat /\ n * (u * (n + 1 + b)) \in Nat /\ n * (s * (n + 1)) \in Int
  BY <1>1
<1>8. n * (u * (n + 1 + b)) < n * (s * (n + 1))
  BY <1>4, <1>5, <1>6, <1>7
<1>9. u * (n + 1 + b) < s * (n + 1)
  <2>1. u * (n + 1 + b) \in Int /\ s * (n + 1) \in Int
    BY <1>1
  <2> QED
    BY <1>8, <2>1, Scaled
<1> QED
  BY <1>9 DEF u, s

LEMMA OneMoreDefective ==
  ASSUME NEW w \in Nat, NEW t \in Nat \ {0}, NEW n \in Nat \ {0}, NEW b \in Nat, NEW a \in Int,
         NEW x \in Nat, NEW y \in Nat, NEW v \in Nat, w <= t * v, x * v <= y, b <= n,
         4 * (w + y) * (n + 1 + (b + 1)) < a * 2 * (t + x) * (n + 1)
  PROVE  4 * w * (n + b) < a * 2 * t * n
<1>1. w * (t + x) <= (w + y) * t
  <2>1. w * x <= t * v * x
    OBVIOUS
  <2>2. t * v * x = t * (x * v) /\ t * (x * v) <= t * y
    OBVIOUS
  <2>3. w * (t + x) = w * t + w * x /\ (w + y) * t = w * t + t * y
    OBVIOUS
  <2>4. w * t \in Nat /\ w * x \in Nat /\ t * y \in Nat /\ t * v * x \in Nat
    OBVIOUS
  <2> QED
    BY <2>1, <2>2, <2>3, <2>4
<1>2. (n + b) * (n + 1) <= n * (n + 1 + (b + 1))
  <2>1. n * (n + 1 + (b + 1)) = (n + b) * (n + 1) + (n - b)
    OBVIOUS
  <2> QED
    BY <2>1
<1> DEFINE t1 == t + x
           w1 == w + y
           n1 == n + 1
           p == n + b
           q == n + 1 + (b + 1)
<1>3. /\ t1 \in Nat \ {0} /\ w1 \in Nat /\ n1 \in Nat \ {0} /\ p \in Nat /\ q \in Nat
      /\ w * t1 <= w1 * t /\ p * n1 <= n * q
      /\ 4 * w1 * q < a * 2 * t1 * n1
  BY <1>1, <1>2
<1> HIDE DEF t1, w1, n1, p, q
<1>4. (w * t1) * (p * n1) <= (w1 * t) * (n * q)
  <2>1. \A i, j, k, l \in Nat : i <= j /\ k <= l => i * k <= j * l
    <3> SUFFICES ASSUME NEW i \in Nat, NEW j \in Nat, NEW k \in Nat, NEW l \in Nat, i <= j, k <= l
                 PROVE  i * k <= j * l
      OBVIOUS
    <3>1. i * k <= j * k /\ j * k <= j * l
      OBVIOUS
    <3>2. i * k \in Nat /\ j * k \in Nat /\ j * l \in Nat
      OBVIOUS
    <3> QED BY <3>1, <3>2
  <2>2. w * t1 \in Nat /\ w1 * t \in Nat /\ p * n1 \in Nat /\ n * q \in Nat
    BY <1>3
  <2> QED
    BY <1>3, <2>1, <2>2
<1>5. (t * n) * (4 * w1 * q) < (t * n) * (a * 2 * t1 * n1)
  <2> DEFINE i == 4 * w1 * q
             j == a * 2 * t1 * n1
             k == t * n
  <2>1. i \in Int /\ j \in Int /\ k \in Nat \ {0} /\ i < j
    BY <1>3
  <2> HIDE DEF i, j, k
  <2>2. k * i < k * j
    BY <2>1
  <2> QED
    BY <2>2 DEF i, j, k
<1>6. /\ (t1 * n1) * (4 * w * p) = 4 * ((w * t1) * (p * n1))
      /\ (t * n) * (4 * w1 * q) = 4 * ((w1 * t) * (n * q))
  BY <1>3
<1>7. (t * n) * (a * 2 * t1 * n1) = (t1 * n1) * (a * 2 * t * n)
  BY <1>3
<1>8. /\ (w * t1) * (p * n1) \in Nat /\ (w1 * t) * (n * q) \in Nat
      /\ (t1 * n1) * (a * 2 * t * n) \in Int
  BY <1>3
<1>9. (t1 * n1) * (4 * w * p) < (t1 * n1) * (a * 2 * t * n)
  BY <1>4, <1>5, <1>6, <1>7, <1>8
<1>10. t1 * n1 \in Nat \ {0} /\ 4 * w * p \in Int /\ a * 2 * t * n \in Int
  BY <1>3
<1>11. 4 * w * p < a * 2 * t * n
  BY <1>9, <1>10, Scaled
<1> QED
  BY <1>11 DEF p

\* What the assumption on Dashboard's constants says, in the operators of this module.
DashboardData == IsFiniteSet(Images) /\ IsFiniteSet(Classes) /\ Weight \in [Classes -> 1..4]

LEMMA DataOfDashboard == ASSUME ServicesAssumption PROVE DashboardData
<1>1. \A S : Dashboard!IsFiniteSet(S) <=> IsFiniteSet(S)
  BY DEF Dashboard!IsFiniteSet, IsFiniteSet
<1> QED
  BY <1>1 DEF ServicesAssumption, Dashboard!DashboardAssumption, DashboardData

\* The bands: a score lies under the k-th of three edges between the least and the greatest weight.
Weighted(counts) == Dashboard!Sum([c \in Classes |-> counts[c] * Weight[c]])
Under(w, t, n, b, k) == 4 * w * (n + b) < (4 * Dashboard!WeightMin
  + k * (Dashboard!WeightMax - Dashboard!WeightMin)) * 2 * t * n
Band(w, t, n, b) ==
  IF Under(w, t, n, b, 1) THEN 1 ELSE IF Under(w, t, n, b, 2) THEN 2
  ELSE IF Under(w, t, n, b, 3) THEN 3 ELSE 4

LEMMA SeverityIsBand ==
  ASSUME NEW counts, NEW n \in Nat \ {0}, NEW b \in Nat, b <= n
  PROVE  Dashboard!Severity(counts, b, n) =
           IF Dashboard!Sum(counts) = 0 THEN 0
           ELSE Band(Weighted(counts), Dashboard!Sum(counts), n, b)
<1>1. (IF n = 0 THEN 1 ELSE n) = n /\ (IF n = 0 THEN 0 ELSE IF b < n THEN b ELSE n) = b
  OBVIOUS
<1>2. Dashboard!Severity(counts, b, n) =
        IF Dashboard!Sum(counts) = 0 THEN 0
        ELSE Band(Weighted(counts), Dashboard!Sum(counts), IF n = 0 THEN 1 ELSE n,
                  IF n = 0 THEN 0 ELSE IF b < n THEN b ELSE n)
  BY DEF Dashboard!Severity, Band, Under, Weighted
<1> QED
  BY <1>1, <1>2

LEMMA BandsFollow ==
  ASSUME NEW w, NEW t, NEW n, NEW b, NEW v, NEW u, NEW m, NEW d,
         \A k \in 1..3 : Under(w, t, n, b, k) => Under(v, u, m, d, k)
  PROVE  Band(v, u, m, d) <= Band(w, t, n, b)
<1>1. /\ Under(w, t, n, b, 1) => Under(v, u, m, d, 1)
      /\ Under(w, t, n, b, 2) => Under(v, u, m, d, 2)
      /\ Under(w, t, n, b, 3) => Under(v, u, m, d, 3)
  OBVIOUS
<1> QED
  BY <1>1 DEF Band

LEMMA BandsAre == ASSUME NEW w, NEW t, NEW n, NEW b PROVE Band(w, t, n, b) \in 1..4
BY DEF Band

LEMMA WeightBounds ==
  ASSUME DashboardData, Classes # {}
  PROVE  Dashboard!WeightMin \in Nat /\ Dashboard!WeightMax \in Nat
<1>1. Dashboard!Range(Weight) \in SUBSET Nat /\ Dashboard!Range(Weight) # {}
        /\ \A w \in Dashboard!Range(Weight) : w <= 4
  BY DEF DashboardData, Dashboard!Range
<1>2. \E w \in Dashboard!Range(Weight) : \A v \in Dashboard!Range(Weight) : w <= v
  <2>1. PICK w \in Dashboard!Range(Weight) : \A v \in 0..(w - 1) : v \notin Dashboard!Range(Weight)
    BY <1>1, HasLeast
  <2> QED
    BY <1>1, <2>1
<1>3. \E w \in Dashboard!Range(Weight) : \A v \in Dashboard!Range(Weight) : v <= w
  BY <1>1, HasMaximum
<1>4. Dashboard!WeightMin \in Dashboard!Range(Weight)
  BY <1>2 DEF Dashboard!WeightMin
<1>5. Dashboard!WeightMax \in Dashboard!Range(Weight)
  <2>1. \E w \in Dashboard!Range(Weight) : \A v \in Dashboard!Range(Weight) : w >= v
    BY <1>1, <1>3
  <2> QED BY <2>1 DEF Dashboard!WeightMax
<1> QED
  BY <1>1, <1>4, <1>5

LEMMA NoClasses ==
  ASSUME DashboardData, NEW counts \in [Classes -> Nat], Classes = {}
  PROVE  Dashboard!Sum(counts) = 0
<1>1. DOMAIN counts = {} /\ IsFiniteSet(DOMAIN counts)
  BY FS_EmptySet
<1> QED
  BY <1>1, SumsDefined, SumIsPartial

LEMMA BandEdges ==
  ASSUME DashboardData, Classes # {}
  PROVE  \A k \in 1..3 :
           4 * Dashboard!WeightMin + k * (Dashboard!WeightMax - Dashboard!WeightMin) \in Int
BY WeightBounds

LEMMA WeightedIsNatural ==
  ASSUME DashboardData, NEW counts \in [Classes -> Nat]
  PROVE  Weighted(counts) \in Nat /\ Dashboard!Sum(counts) \in Nat
<1> DEFINE f == [c \in Classes |-> counts[c] * Weight[c]]
<1>1. f \in [Classes -> Nat] /\ IsFiniteSet(Classes)
  BY DEF DashboardData
<1> HIDE DEF f
<1>2. Dashboard!Sum(f) \in Nat /\ Dashboard!Sum(counts) \in Nat
  BY <1>1, SumsAreNatural
<1> QED
  BY <1>2 DEF Weighted, f

LEMMA CleanIsNoWorse ==
  ASSUME DashboardData, NEW counts \in [Classes -> Nat], NEW n \in Nat \ {0},
         NEW b \in Nat, b <= n
  PROVE  Dashboard!Severity(counts, b, n + 1) <= Dashboard!Severity(counts, b, n)
<1> DEFINE t == Dashboard!Sum(counts)
           w == Weighted(counts)
<1>1. t \in Nat /\ w \in Nat
  BY WeightedIsNatural
<1>2. /\ Dashboard!Severity(counts, b, n) = IF t = 0 THEN 0 ELSE Band(w, t, n, b)
      /\ Dashboard!Severity(counts, b, n + 1) = IF t = 0 THEN 0 ELSE Band(w, t, n + 1, b)
  <2>1. n + 1 \in Nat \ {0} /\ b <= n + 1
    OBVIOUS
  <2> QED
    BY <2>1, SeverityIsBand
<1>3. CASE t = 0
  BY <1>2, <1>3
<1>4. CASE t # 0
  <2>1. Classes # {}
    BY <1>4, NoClasses
  <2> HIDE DEF t, w
  <2>2. ASSUME NEW k \in 1..3, Under(w, t, n, b, k)
        PROVE  Under(w, t, n + 1, b, k)
    <3> DEFINE a == 4 * Dashboard!WeightMin + k * (Dashboard!WeightMax - Dashboard!WeightMin)
    <3>1. a \in Int
      BY <2>1, BandEdges
    <3>2. 4 * w * (n + b) < a * 2 * t * n
      BY <2>2 DEF Under
    <3> HIDE DEF a
    <3>3. 4 * w * (n + 1 + b) < a * 2 * t * (n + 1)
      BY <1>1, <3>1, <3>2, OneMoreClean
    <3> QED
      BY <3>3 DEF Under, a
  <2>3. Band(w, t, n + 1, b) <= Band(w, t, n, b)
    BY <2>2, BandsFollow
  <2> QED
    BY <1>2, <1>4, <2>3
<1> QED
  BY <1>3, <1>4

LEMMA DefectiveIsNoMilder ==
  ASSUME DashboardData, NEW counts \in [Classes -> Nat], NEW added \in [Classes -> Nat],
         NEW more \in [Classes -> Nat], \A c \in Classes : more[c] = counts[c] + added[c],
         NEW v \in Nat, \A c \in Classes : counts[c] # 0 => Weight[c] <= v,
         \A c \in Classes : added[c] # 0 => v <= Weight[c],
         NEW n \in Nat \ {0}, NEW b \in Nat, b <= n
  PROVE  Dashboard!Severity(counts, b, n) <= Dashboard!Severity(more, b + 1, n + 1)
<1> DEFINE t == Dashboard!Sum(counts)
           w == Weighted(counts)
           x == Dashboard!Sum(added)
           y == Weighted(added)
<1>1. t \in Nat /\ w \in Nat /\ x \in Nat /\ y \in Nat
  BY WeightedIsNatural
<1>2. IsFiniteSet(Classes) /\ \A c \in Classes : Weight[c] \in Nat
  BY DEF DashboardData
<1>3. Dashboard!Sum(more) = t + x
  BY <1>2, SumsAdd
<1> DEFINE wf(f) == [c \in Classes |-> f[c] * Weight[c]]
           vf(f) == [c \in Classes |-> f[c] * v]
<1>4. /\ wf(counts) \in [Classes -> Nat] /\ wf(added) \in [Classes -> Nat]
      /\ wf(more) \in [Classes -> Nat]
      /\ vf(counts) \in [Classes -> Nat] /\ vf(added) \in [Classes -> Nat]
  BY <1>2
<1>5. Weighted(more) = w + y
  <2>1. \A c \in Classes : wf(more)[c] = wf(counts)[c] + wf(added)[c]
    <3> SUFFICES ASSUME NEW c \in Classes PROVE wf(more)[c] = wf(counts)[c] + wf(added)[c]
      OBVIOUS
    <3>1. counts[c] \in Nat /\ added[c] \in Nat /\ Weight[c] \in Nat
            /\ more[c] = counts[c] + added[c]
      BY <1>2
    <3>2. (counts[c] + added[c]) * Weight[c] = counts[c] * Weight[c] + added[c] * Weight[c]
      BY <3>1
    <3> QED
      BY <3>1, <3>2
  <2> DEFINE f == wf(counts)
             g == wf(added)
             h == wf(more)
  <2>2. /\ f \in [Classes -> Nat] /\ g \in [Classes -> Nat] /\ h \in [Classes -> Nat]
        /\ \A c \in Classes : h[c] = f[c] + g[c]
    BY <1>4, <2>1
  <2> HIDE DEF f, g, h
  <2>3. Dashboard!Sum(h) = Dashboard!Sum(f) + Dashboard!Sum(g)
    BY <1>2, <2>2, SumsAdd
  <2> QED
    BY <2>3 DEF Weighted, f, g, h
<1>6. w <= t * v
  <2>1. \A c \in Classes : wf(counts)[c] <= vf(counts)[c]
    <3> SUFFICES ASSUME NEW c \in Classes PROVE counts[c] * Weight[c] <= counts[c] * v
      OBVIOUS
    <3>1. counts[c] \in Nat /\ Weight[c] \in Nat
      BY <1>2
    <3>2. CASE counts[c] = 0
      BY <3>1, <3>2
    <3>3. CASE counts[c] # 0
      <4>1. Weight[c] <= v
        BY <3>3
      <4> QED BY <3>1, <4>1
    <3> QED BY <3>2, <3>3
  <2>2. \A c \in Classes : vf(counts)[c] = counts[c] * v
    OBVIOUS
  <2> HIDE DEF wf, vf
  <2>3. Dashboard!Sum(wf(counts)) <= Dashboard!Sum(vf(counts))
    BY <1>2, <1>4, <2>1, SumsGrow
  <2>4. Dashboard!Sum(vf(counts)) = Dashboard!Sum(counts) * v
    <3> DEFINE h == vf(counts)
    <3>1. h \in [Classes -> Nat] /\ \A c \in Classes : h[c] = counts[c] * v
      BY <1>4, <2>2
    <3> HIDE DEF h
    <3>2. Dashboard!Sum(h) = Dashboard!Sum(counts) * v
      BY <1>2, <3>1, SumsScale
    <3> QED BY <3>2 DEF h
  <2> QED
    BY <2>3, <2>4 DEF Weighted, wf
<1>7. x * v <= y
  <2>1. \A c \in Classes : vf(added)[c] <= wf(added)[c]
    <3> SUFFICES ASSUME NEW c \in Classes PROVE added[c] * v <= added[c] * Weight[c]
      OBVIOUS
    <3>1. added[c] \in Nat /\ Weight[c] \in Nat
      BY <1>2
    <3>2. CASE added[c] = 0
      BY <3>1, <3>2
    <3>3. CASE added[c] # 0
      <4>1. v <= Weight[c]
        BY <3>3
      <4> QED BY <3>1, <4>1
    <3> QED BY <3>2, <3>3
  <2>2. \A c \in Classes : vf(added)[c] = added[c] * v
    OBVIOUS
  <2> HIDE DEF wf, vf
  <2>3. Dashboard!Sum(vf(added)) <= Dashboard!Sum(wf(added))
    BY <1>2, <1>4, <2>1, SumsGrow
  <2>4. Dashboard!Sum(vf(added)) = Dashboard!Sum(added) * v
    <3> DEFINE h == vf(added)
    <3>1. h \in [Classes -> Nat] /\ \A c \in Classes : h[c] = added[c] * v
      BY <1>4, <2>2
    <3> HIDE DEF h
    <3>2. Dashboard!Sum(h) = Dashboard!Sum(added) * v
      BY <1>2, <3>1, SumsScale
    <3> QED BY <3>2 DEF h
  <2> QED
    BY <2>3, <2>4 DEF Weighted, wf
<1> HIDE DEF wf, vf
<1>8. /\ Dashboard!Severity(counts, b, n) = IF t = 0 THEN 0 ELSE Band(w, t, n, b)
      /\ Dashboard!Severity(more, b + 1, n + 1) =
           IF t + x = 0 THEN 0 ELSE Band(w + y, t + x, n + 1, b + 1)
  <2>1. Dashboard!Severity(counts, b, n) = IF t = 0 THEN 0 ELSE Band(w, t, n, b)
    BY SeverityIsBand
  <2> DEFINE m == n + 1
             d == b + 1
  <2>2. m \in Nat \ {0} /\ d \in Nat /\ d <= m
    OBVIOUS
  <2> HIDE DEF m, d
  <2>3. Dashboard!Severity(more, d, m) =
          IF Dashboard!Sum(more) = 0 THEN 0 ELSE Band(Weighted(more), Dashboard!Sum(more), m, d)
    BY <2>2, SeverityIsBand
  <2> HIDE DEF t, w, x, y
  <2> QED
    BY <1>3, <1>5, <2>1, <2>3 DEF m, d
<1>9. CASE t = 0
  <2>1. Dashboard!Severity(more, b + 1, n + 1) \in 0..4
    <3> HIDE DEF t, w, x, y
    <3> QED BY <1>8, BandsAre
  <2> QED
    BY <1>8, <1>9, <2>1
<1>10. CASE t # 0
  <2>1. Classes # {}
    BY <1>10, NoClasses
  <2> HIDE DEF t, w, x, y
  <2>2. ASSUME NEW k \in 1..3, Under(w + y, t + x, n + 1, b + 1, k)
        PROVE  Under(w, t, n, b, k)
    <3> DEFINE a == 4 * Dashboard!WeightMin + k * (Dashboard!WeightMax - Dashboard!WeightMin)
    <3>1. a \in Int
      BY <2>1, BandEdges
    <3>2. 4 * (w + y) * (n + 1 + (b + 1)) < a * 2 * (t + x) * (n + 1)
      BY <2>2 DEF Under
    <3>3. t \in Nat \ {0}
      BY <1>1, <1>10
    <3> HIDE DEF a
    <3>4. 4 * w * (n + b) < a * 2 * t * n
      BY <1>1, <1>6, <1>7, <3>1, <3>2, <3>3, OneMoreDefective
    <3> QED
      BY <3>4 DEF Under, a
  <2>3. Band(w, t, n, b) <= Band(w + y, t + x, n + 1, b + 1)
    BY <2>2, BandsFollow
  <2>4. t + x # 0
    BY <1>1, <1>10
  <2> QED
    BY <1>8, <1>10, <2>3, <2>4
<1> QED
  BY <1>9, <1>10

\* The row of an image that is completed with these defects.
CompletesRow(i, defects) ==
  image' = [image EXCEPT ![i].status = "COMPLETED", ![i].found = defects]

\* A step completes one image at most, and leaves the other rows alone.
LEMMA CompletesOne ==
  ASSUME image \in [Images -> ImageRows], [Dashboard!Next]_(Dashboard!dashboardVars),
         NEW i \in Dashboard!Completed' \ Dashboard!Completed
  PROVE  /\ i \in Images /\ image' \in [Images -> ImageRows]
         /\ Dashboard!Completed' = Dashboard!Completed \cup {i}
         /\ \A j \in Images \ {i} : image'[j] = image[j]
<1>1. i \in Images /\ image'[i].status = "COMPLETED" /\ image[i].status # "COMPLETED"
  BY DEF Dashboard!Completed
<1>2. \E j \in Images : \E defects \in SUBSET Classes : CompletesRow(j, defects)
  <2>1. CASE UNCHANGED Dashboard!dashboardVars
    BY <1>1, <2>1 DEF Dashboard!dashboardVars
  <2>2. CASE \E j \in Images : Dashboard!InferImage(j)
    <3>1. PICK j \in Images : Dashboard!InferImage(j)
      BY <2>2
    <3>2. PICK defects \in SUBSET Classes :
            Dashboard!Settle(j, "COMPLETED", defects) \/ Dashboard!Settle(j, "ANALYZING", defects)
      BY <3>1 DEF Dashboard!InferImage
    <3>3. CASE Dashboard!Settle(j, "COMPLETED", defects)
      BY <3>3 DEF Dashboard!Settle, CompletesRow
    <3>4. CASE Dashboard!Settle(j, "ANALYZING", defects)
      <4>1. image' = [image EXCEPT ![j].status = "ANALYZING", ![j].found = defects]
        BY <3>4 DEF Dashboard!Settle
      <4>2. image'[i].status \in {image[i].status, "ANALYZING"}
        BY <1>1, <4>1 DEF ImageRows
      <4> QED
        BY <1>1, <4>2
    <3> QED
      BY <3>2, <3>3, <3>4
  <2>3. CASE \E j \in Images : Dashboard!CompleteAnalysis(j)
    <3>1. PICK j \in Images : Dashboard!Settle(j, "COMPLETED", image[j].found)
      BY <2>3 DEF Dashboard!CompleteAnalysis
    <3>2. image[j].found \in SUBSET Classes
      BY DEF ImageRows
    <3> QED
      BY <3>1, <3>2 DEF Dashboard!Settle, CompletesRow
  <2>4. CASE \E j \in Images : Dashboard!RequestAnalysis(j)
    <3>1. PICK j \in Images : Dashboard!Settle(j, "ANALYZING", image[j].found)
      BY <2>4 DEF Dashboard!RequestAnalysis
    <3>2. image' = [image EXCEPT ![j].status = "ANALYZING", ![j].found = image[j].found]
      BY <3>1 DEF Dashboard!Settle
    <3>3. image'[i].status \in {image[i].status, "ANALYZING"}
      BY <1>1, <3>2 DEF ImageRows
    <3> QED
      BY <1>1, <3>3
  <2>5. CASE \E j \in Images : \E c \in Classes : Dashboard!AnnotateImage(j, c)
    <3>1. PICK j \in Images, c \in Classes : image' = [image EXCEPT ![j].drawn = @ \cup {c}]
      BY <2>5 DEF Dashboard!AnnotateImage
    <3>2. image'[i].status = image[i].status
      BY <1>1, <3>1 DEF ImageRows
    <3> QED
      BY <1>1, <3>2
  <2>6. CASE \/ \E j \in Images : Dashboard!InvalidateStats(j)
             \/ \E r \in Queries :
                  \/ Dashboard!CheckCache(r) \/ Dashboard!ReadOverview(r)
                  \/ Dashboard!ReadDefectCounts(r) \/ Dashboard!ReadBoardsWithDefects(r)
                  \/ Dashboard!SetCached(r)
             \/ Dashboard!Tick
    <3>1. image' = image
      BY <2>6 DEF Dashboard!InvalidateStats, Dashboard!CheckCache, Dashboard!ReadOverview,
                  Dashboard!ReadDefectCounts, Dashboard!ReadBoardsWithDefects,
                  Dashboard!SetCached, Dashboard!Tick
    <3> QED
      BY <1>1, <3>1
  <2>7. ASSUME Dashboard!Next
        PROVE  \/ \E j \in Images : Dashboard!InferImage(j)
               \/ \E j \in Images : Dashboard!CompleteAnalysis(j)
               \/ \E j \in Images : Dashboard!RequestAnalysis(j)
               \/ \E j \in Images : \E c \in Classes : Dashboard!AnnotateImage(j, c)
               \/ \E j \in Images : Dashboard!InvalidateStats(j)
               \/ \E r \in Queries :
                    \/ Dashboard!CheckCache(r) \/ Dashboard!ReadOverview(r)
                    \/ Dashboard!ReadDefectCounts(r) \/ Dashboard!ReadBoardsWithDefects(r)
                    \/ Dashboard!SetCached(r)
               \/ Dashboard!Tick
    BY <2>7, Zenon DEF Dashboard!Next
  <2>8. CASE Dashboard!Next
    BY <2>2, <2>3, <2>4, <2>5, <2>6, <2>7, <2>8, Zenon
  <2> QED
    BY <2>1, <2>8
<1>3. PICK j \in Images, defects \in SUBSET Classes : CompletesRow(j, defects)
  BY <1>2
<1>4. i = j
  BY <1>1, <1>3 DEF ImageRows, CompletesRow
<1>5. \A k \in Images \ {i} : image'[k] = image[k]
  BY <1>3, <1>4 DEF ImageRows, CompletesRow
<1>6. image' \in [Images -> ImageRows]
  BY <1>3 DEF ImageRows, Dashboard!Statuses, CompletesRow
<1>7. Dashboard!Completed' = Dashboard!Completed \cup {i}
  BY <1>1, <1>5 DEF Dashboard!Completed
<1> QED
  BY <1>1, <1>5, <1>6, <1>7

\* The statements count with the Cardinality of the module's own instance.
LEMMA StatementsCount ==
  /\ Dashboard!CompletedCount = Cardinality(Dashboard!Completed)
  /\ Dashboard!CompletedCount' = Cardinality(Dashboard!Completed')
  /\ Dashboard!BoardsWithDefects = Cardinality(Dashboard!Defective)
  /\ Dashboard!BoardsWithDefects' = Cardinality(Dashboard!Defective')
  /\ \A c \in Classes :
       Dashboard!DefectCounts[c] =
         Cardinality({i \in Dashboard!Completed : c \in image[i].found})
         + Cardinality({i \in Dashboard!Completed : c \in image[i].drawn})
  /\ \A c \in Classes :
       (Dashboard!DefectCounts')[c] =
         Cardinality({i \in Dashboard!Completed' : c \in image'[i].found})
         + Cardinality({i \in Dashboard!Completed' : c \in image'[i].drawn})
<1>1. \A S : Dashboard!Cardinality(S) = Cardinality(S)
  BY Zenon DEF Dashboard!Cardinality, Cardinality
<1>2. /\ Dashboard!CompletedCount = Dashboard!Cardinality(Dashboard!Completed)
      /\ Dashboard!CompletedCount' = Dashboard!Cardinality(Dashboard!Completed')
  BY DEF Dashboard!CompletedCount
<1>3. /\ Dashboard!BoardsWithDefects = Dashboard!Cardinality(Dashboard!Defective)
      /\ Dashboard!BoardsWithDefects' = Dashboard!Cardinality(Dashboard!Defective')
  BY DEF Dashboard!BoardsWithDefects
<1>4. ASSUME NEW c \in Classes
      PROVE  Dashboard!DefectCounts[c] =
               Dashboard!Cardinality({i \in Dashboard!Completed : c \in image[i].found})
               + Dashboard!Cardinality({i \in Dashboard!Completed : c \in image[i].drawn})
  BY DEF Dashboard!DefectCounts
<1>5. ASSUME NEW c \in Classes
      PROVE  (Dashboard!DefectCounts')[c] =
               Dashboard!Cardinality({i \in Dashboard!Completed' : c \in image'[i].found})
               + Dashboard!Cardinality({i \in Dashboard!Completed' : c \in image'[i].drawn})
  BY DEF Dashboard!DefectCounts
<1> QED
  BY <1>1, <1>2, <1>3, <1>4, <1>5

LEMMA CountOneMore ==
  ASSUME NEW S, IsFiniteSet(S), NEW T, NEW i, i \notin S, NEW one,
         T = S \cup (IF one THEN {i} ELSE {})
  PROVE  Cardinality(S) \in Nat /\ Cardinality(T) = Cardinality(S) + IF one THEN 1 ELSE 0
<1>1. CASE one
  <2>1. T = S \cup {i}
    BY <1>1
  <2> QED
    BY <1>1, <2>1, FS_AddElement, FS_CardinalityType
<1>2. CASE ~one
  <2>1. T = S /\ Cardinality(S) \in Nat
    BY <1>2, FS_CardinalityType
  <2> QED
    BY <1>2, <2>1
<1> QED
  BY <1>1, <1>2

\* The step of SeverityFollowsFindings: what one board more does to the bands.
LEMMA StepSeverity ==
  ASSUME DashboardData, image \in [Images -> ImageRows], [Dashboard!Next]_(Dashboard!dashboardVars),
         NEW i \in Dashboard!Completed' \ Dashboard!Completed
  PROVE  IF Dashboard!Defects(i)' = {} THEN Dashboard!CurrentSeverity' <= Dashboard!CurrentSeverity
         ELSE (\A c \in Dashboard!Defects(i)' : \A j \in Dashboard!Completed :
                 \A d \in Dashboard!Defects(j) : Weight[c] >= Weight[d]) =>
              Dashboard!CurrentSeverity' >= Dashboard!CurrentSeverity
<1> DEFINE detected == image'[i].found
           drawn == image'[i].drawn
           added == [c \in Classes |-> (IF c \in detected THEN 1 ELSE 0)
                                       + (IF c \in drawn THEN 1 ELSE 0)]
           counts == Dashboard!DefectCounts
           more == Dashboard!DefectCounts'
           n == Dashboard!CompletedCount
           b == Dashboard!BoardsWithDefects
<1>1. /\ i \in Images /\ image' \in [Images -> ImageRows]
      /\ Dashboard!Completed' = Dashboard!Completed \cup {i}
      /\ i \notin Dashboard!Completed /\ Dashboard!Completed \subseteq Images
      /\ \A j \in Images \ {i} : image'[j] = image[j]
  BY CompletesOne DEF Dashboard!Completed
<1>2. detected \in SUBSET Classes /\ drawn \in SUBSET Classes
        /\ Dashboard!Defects(i)' = detected \cup drawn
  BY <1>1 DEF ImageRows, Dashboard!Defects
<1>3. IsFiniteSet(Dashboard!Completed) /\ \A S : S \subseteq Dashboard!Completed => IsFiniteSet(S)
  BY <1>1, FS_Subset DEF DashboardData
<1>4. Dashboard!CompletedCount' = n + 1 /\ n \in Nat
  BY <1>1, <1>3, FS_AddElement, FS_CardinalityType, StatementsCount
<1>5. Dashboard!BoardsWithDefects' = b + (IF detected \cup drawn # {} THEN 1 ELSE 0)
        /\ b \in Nat /\ b <= n
  <2> DEFINE old == Dashboard!Defective
             new == Dashboard!Defective'
  <2>1. new = old \cup (IF detected \cup drawn # {} THEN {i} ELSE {})
    BY <1>1, <1>2 DEF Dashboard!Defective, Dashboard!Defects
  <2>2. IsFiniteSet(old) /\ i \notin old /\ old \subseteq Dashboard!Completed
    BY <1>1, <1>3 DEF Dashboard!Defective
  <2>3. Cardinality(old) <= Cardinality(Dashboard!Completed)
    BY <1>3, <2>2, FS_Subset
  <2> DEFINE one == detected \cup drawn # {}
  <2> HIDE DEF old, new, one
  <2>4. new = old \cup (IF one THEN {i} ELSE {})
    BY <2>1 DEF one
  <2>5. Cardinality(old) \in Nat /\ Cardinality(new) = Cardinality(old) + IF one THEN 1 ELSE 0
    BY <2>2, <2>4, CountOneMore
  <2> QED
    BY <2>3, <2>5, StatementsCount DEF old, new, one
<1>6. ASSUME NEW c \in Classes
      PROVE  counts[c] \in Nat /\ more[c] = counts[c] + added[c] /\ added[c] \in Nat
  <2> DEFINE f == {j \in Dashboard!Completed : c \in image[j].found}
             g == {j \in Dashboard!Completed : c \in image[j].drawn}
             f1 == {j \in Dashboard!Completed' : c \in image'[j].found}
             g1 == {j \in Dashboard!Completed' : c \in image'[j].drawn}
             inf == c \in detected
             ing == c \in drawn
  <2>1. f1 = f \cup (IF inf THEN {i} ELSE {}) /\ g1 = g \cup (IF ing THEN {i} ELSE {})
    BY <1>1
  <2>2. IsFiniteSet(f) /\ IsFiniteSet(g) /\ i \notin f /\ i \notin g
    BY <1>1, <1>3
  <2>3. /\ counts[c] = Cardinality(f) + Cardinality(g)
        /\ more[c] = Cardinality(f1) + Cardinality(g1)
    BY StatementsCount
  <2>4. added[c] = (IF inf THEN 1 ELSE 0) + (IF ing THEN 1 ELSE 0)
    OBVIOUS
  <2> HIDE DEF f, g, f1, g1, inf, ing, counts, more, added
  <2>5. Cardinality(f) \in Nat /\ Cardinality(f1) = Cardinality(f) + IF inf THEN 1 ELSE 0
    BY <2>1, <2>2, CountOneMore
  <2>6. Cardinality(g) \in Nat /\ Cardinality(g1) = Cardinality(g) + IF ing THEN 1 ELSE 0
    BY <2>1, <2>2, CountOneMore
  <2> QED
    BY <2>3, <2>4, <2>5, <2>6
<1>7. /\ counts \in [Classes -> Nat] /\ added \in [Classes -> Nat] /\ more \in [Classes -> Nat]
      /\ \A c \in Classes : more[c] = counts[c] + added[c]
  <2>1. counts = [c \in Classes |-> counts[c]] /\ more = [c \in Classes |-> more[c]]
    BY DEF Dashboard!DefectCounts
  <2>2. added = [c \in Classes |-> added[c]]
    OBVIOUS
  <2> HIDE DEF counts, more, added
  <2> QED
    BY <1>6, <2>1, <2>2
<1>8. /\ Dashboard!CurrentSeverity = Dashboard!Severity(counts, b, n)
      /\ Dashboard!CurrentSeverity' =
           Dashboard!Severity(more, Dashboard!BoardsWithDefects', Dashboard!CompletedCount')
  BY DEF Dashboard!CurrentSeverity
<1>9. \A c \in Classes : counts[c] # 0 => \E j \in Dashboard!Completed : c \in Dashboard!Defects(j)
  <2> SUFFICES ASSUME NEW c \in Classes,
                      \A j \in Dashboard!Completed : c \notin Dashboard!Defects(j)
               PROVE  counts[c] = 0
    OBVIOUS
  <2> DEFINE f == {j \in Dashboard!Completed : c \in image[j].found}
             g == {j \in Dashboard!Completed : c \in image[j].drawn}
  <2>1. f = {} /\ g = {}
    BY DEF Dashboard!Defects
  <2>2. counts[c] = Cardinality(f) + Cardinality(g)
    BY StatementsCount
  <2>3. Cardinality({}) = 0
    BY FS_EmptySet
  <2> HIDE DEF counts, f, g
  <2> QED
    BY <2>1, <2>2, <2>3
<1> HIDE DEF counts, more, n, b
<1>10. CASE n = 0
  <2>1. Dashboard!Completed = {}
    BY <1>3, <1>10, FS_EmptySet, StatementsCount DEF n
  <2>2. \A c \in Classes : counts[c] = 0
    BY <1>9, <2>1
  <2>3. Dashboard!Sum(counts) = 0
    <3>1. \A c \in Classes : counts[c] = counts[c] * 0
      BY <1>7, <2>2
    <3>2. Dashboard!Sum(counts) = Dashboard!Sum(counts) * 0
      <4>1. IsFiniteSet(Classes)
        BY DEF DashboardData
      <4> QED BY <1>7, <3>1, <4>1, SumsScale
    <3>3. Dashboard!Sum(counts) \in Nat
      BY <1>7, WeightedIsNatural
    <3> QED BY <3>2, <3>3
  <2>4. Dashboard!CurrentSeverity = 0
    BY <1>8, <2>3 DEF Dashboard!Severity
  <2>5. Dashboard!CurrentSeverity' \in 0..4
    <3> DEFINE m == Dashboard!CompletedCount'
               d == Dashboard!BoardsWithDefects'
    <3>1. m \in Nat \ {0} /\ d \in Nat /\ d <= m
      BY <1>4, <1>5
    <3> HIDE DEF m, d
    <3>2. Dashboard!Severity(more, d, m) =
            IF Dashboard!Sum(more) = 0 THEN 0
            ELSE Band(Weighted(more), Dashboard!Sum(more), m, d)
      BY <3>1, SeverityIsBand
    <3> QED BY <1>8, <3>2, BandsAre DEF m, d
  <2>6. ASSUME Dashboard!Defects(i)' = {}
        PROVE  Dashboard!CurrentSeverity' <= Dashboard!CurrentSeverity
    <3>1. \A c \in Classes : added[c] = 0
      BY <1>2, <2>6
    <3>2. \A c \in Classes : more[c] = counts[c]
      <4> HIDE DEF added
      <4> QED BY <1>7, <3>1
    <3>3. more = counts
      BY <1>7, <3>2
    <3>4. Dashboard!CurrentSeverity' = 0
      BY <1>8, <2>3, <3>3 DEF Dashboard!Severity
    <3> QED
      BY <2>4, <3>4
  <2> QED
    BY <2>4, <2>5, <2>6
<1>11. CASE n # 0
  <2>1. n \in Nat \ {0}
    BY <1>4, <1>11
  <2>2. ASSUME Dashboard!Defects(i)' = {}
        PROVE  Dashboard!CurrentSeverity' <= Dashboard!CurrentSeverity
    <3>1. \A c \in Classes : added[c] = 0
      BY <1>2, <2>2
    <3>2. \A c \in Classes : more[c] = counts[c]
      <4> HIDE DEF added
      <4> QED BY <1>7, <3>1
    <3>3. more = counts
      BY <1>7, <3>2
    <3>4. Dashboard!BoardsWithDefects' = b /\ Dashboard!CompletedCount' = n + 1
      BY <1>2, <1>4, <1>5, <2>2
    <3> QED
      BY <1>5, <1>7, <1>8, <2>1, <3>3, <3>4, CleanIsNoWorse
  <2>3. ASSUME Dashboard!Defects(i)' # {},
               \A c \in Dashboard!Defects(i)' : \A j \in Dashboard!Completed :
                 \A d \in Dashboard!Defects(j) : Weight[c] >= Weight[d]
        PROVE  Dashboard!CurrentSeverity' >= Dashboard!CurrentSeverity
    <3> DEFINE weights == {Weight[c] : c \in detected \cup drawn}
    <3>1. \A c \in Classes : Weight[c] \in Nat
      BY DEF DashboardData
    <3>2. weights \in SUBSET Nat /\ weights # {}
      BY <1>2, <2>3, <3>1
    <3>3. PICK v \in weights : \A u \in 0..(v - 1) : u \notin weights
      <4> HIDE DEF weights
      <4> QED BY <3>2, HasLeast
    <3>4. v \in Nat /\ \A c \in detected \cup drawn : v <= Weight[c]
      <4>1. \A u \in weights : v <= u
        <5> HIDE DEF weights
        <5> QED BY <3>2, <3>3
      <4> QED BY <3>2, <4>1
    <3>5. \A c \in Classes : added[c] # 0 => v <= Weight[c]
      BY <3>4
    <3>6. \A c \in Classes : counts[c] # 0 => Weight[c] <= v
      <4> SUFFICES ASSUME NEW c \in Classes, counts[c] # 0 PROVE Weight[c] <= v
        OBVIOUS
      <4>1. PICK j \in Dashboard!Completed : c \in Dashboard!Defects(j)
        BY <1>9
      <4>2. PICK e \in detected \cup drawn : v = Weight[e]
        BY <3>3
      <4>3. e \in Dashboard!Defects(i)'
        BY <1>2, <4>2
      <4>4. Weight[e] >= Weight[c]
        BY <2>3, <4>1, <4>3
      <4>5. Weight[e] \in Nat /\ Weight[c] \in Nat
        BY <1>2, <3>1
      <4> QED
        BY <4>2, <4>4, <4>5
    <3>7. Dashboard!BoardsWithDefects' = b + 1 /\ Dashboard!CompletedCount' = n + 1
      BY <1>2, <1>4, <1>5, <2>3
    <3>8. Dashboard!Severity(counts, b, n) <= Dashboard!Severity(more, b + 1, n + 1)
      <4> HIDE DEF added, weights
      <4> QED
        BY <1>5, <1>7, <2>1, <3>4, <3>5, <3>6, DefectiveIsNoMilder
    <3>9. Dashboard!CurrentSeverity <= Dashboard!CurrentSeverity'
      BY <1>8, <3>7, <3>8
    <3>10. \A p, q : p <= q => q >= p
      OBVIOUS
    <3> QED
      BY <3>9, <3>10
  <2> QED
    BY <2>2, <2>3
<1> QED
  BY <1>4, <1>10, <1>11

-----------------------------------------------------------------------------
(***************************************************************************)
(* What the modules of proofs of the services say of Services.             *)
(***************************************************************************)

\* A scope never has two alerts that still need attention, for any batches, operators and crashes
\* of the monitor (alert_monitor, acknowledge_alert).
THEOREM AlertsAreNotDoubled == Spec => []OneAlertAtATime
<1>1. Alerts!Spec => [](Alerts!TypeOK /\ Alerts!OneAlertAtATime)
  BY ServicesAssumption, Alerts!AlertsInvariant
<1>2. OneAlertAtATime <=> Alerts!OneAlertAtATime
  BY DEF OneAlertAtATime
<1> QED
  BY <1>1, <1>2, AlertsRuns, PTL

\* The next alert of a scope waits for an acknowledgement and for a rate seen under the threshold
\* (_evaluate_scope).
THEOREM AlertsDoNotStorm == Spec => NoAlertStorm
<1>1. Alerts!Spec => Alerts!NoAlertStorm
  BY ServicesAssumption, Alerts!NoAlertStormHolds
<1> QED
  BY <1>1, AlertsRuns DEF NoAlertStorm

\* No two accounts, removed ones included, share an e-mail, whichever requests overlap (the unique
\* constraint of user.email at each commit).
THEOREM EmailsAreUnique == Spec => []EmailIdentifies
<1>1. Accounts!Spec => [](Accounts!TypeOK /\ Accounts!EmailIdentifies)
  BY ServicesAssumption, Accounts!EmailsIdentify
<1>2. EmailIdentifies <=> Accounts!EmailIdentifies
  BY DEF EmailIdentifies
<1> QED
  BY <1>1, <1>2, AccountsRuns, PTL

\* Once there is an account one remains active, unless removals have overlapped (deactivate_user).
THEOREM AccountsRemain == Spec => []AccountRemains
<1>1. Accounts!Spec => [](Accounts!AccountRemains)
  BY ServicesAssumption, Accounts!AnAccountRemains
<1>2. AccountRemains <=> Accounts!AccountRemains
  BY DEF AccountRemains
<1> QED
  BY <1>1, <1>2, AccountsRuns, PTL

\* No lock of an account is shorter than the one before it, until it signs in, unless sign-ins to
\* it have overlapped (_lockout_seconds, login).
THEOREM LockoutsProgress == Spec => LockoutProgresses
<1>1. Accounts!Spec => Accounts!LockoutProgresses
  BY ServicesAssumption, Accounts!LocksProgress
<1> QED
  BY <1>1, AccountsRuns DEF LockoutProgresses

\* A row shows a decision that no later reading followed (review_analysis, set_disposition,
\* set_detection_review).
THEOREM FeedbackIsShown == Spec => []ShowsALatestFeedback
<1>1. Feedback!Spec => [](Feedback!ShowsALatestFeedback)
  BY Feedback!RowsShowALatestFeedback
<1>2. ShowsALatestFeedback <=> Feedback!ShowsALatestFeedback
  BY DEF ShowsALatestFeedback
<1> QED
  BY <1>1, <1>2, FeedbackRuns, PTL

\* The audit entry of a detection's review or of a disposition names, as the previous value, a
\* latest decision at the moment its request read the row (set_detection_review, set_disposition).
THEOREM AuditIsTrue == Spec => []AuditTellsPrevious
<1>1. Feedback!Spec => [](Feedback!AuditTellsPrevious)
  BY Feedback!AuditAlwaysTellsPrevious
<1>2. AuditTellsPrevious <=> Feedback!AuditTellsPrevious
  BY DEF AuditTellsPrevious
<1> QED
  BY <1>1, <1>2, FeedbackRuns, PTL

\* A document that reads COMPLETED has its file, a task that rewrites it, or lost it to a purge
\* (generate_report, generate_dataset_export).
THEOREM DocumentsStayWhole == Spec => []CompletedIsWhole
<1>1. Housekeeping!Spec => [](Housekeeping!CompletedIsWhole)
  BY ServicesAssumption, Housekeeping!CompletedStaysWhole
<1>2. CompletedIsWhole <=> Housekeeping!CompletedIsWhole
  BY DEF CompletedIsWhole
<1> QED
  BY <1>1, <1>2, HousekeepingRuns, PTL

\* No derived file outlives the row that named it, however often a purge is rolled back
\* (execute_purge).
THEOREM PurgesLeaveNothing == Spec => []PurgeLeavesNoFile
<1>1. Housekeeping!Spec => [](Housekeeping!PurgeLeavesNoFile)
  BY ServicesAssumption, Housekeeping!PurgeNeverLeavesAFile
<1>2. PurgeLeavesNoFile <=> Housekeeping!PurgeLeavesNoFile
  BY DEF PurgeLeavesNoFile
<1> QED
  BY <1>1, <1>2, HousekeepingRuns, PTL

\* A clean board never makes the severity of a batch worse, and a board whose defects weigh at
\* least as much as any before never makes it milder (severity_from_defect_counts).
THEOREM SeveritiesFollow == Spec => SeverityFollowsFindings
<1>1. DashboardData
  BY ServicesAssumption, DataOfDashboard
<1>2. DashboardInv => image \in [Images -> ImageRows]
  BY DEF DashboardInv, DashboardTypes
<1>3. DashboardInv /\ [Dashboard!Next]_(Dashboard!dashboardVars) =>
        [\A i \in Dashboard!Completed' \ Dashboard!Completed :
           IF Dashboard!Defects(i)' = {}
           THEN Dashboard!CurrentSeverity' <= Dashboard!CurrentSeverity
           ELSE (\A c \in Dashboard!Defects(i)' : \A j \in Dashboard!Completed :
                   \A d \in Dashboard!Defects(j) : Weight[c] >= Weight[d]) =>
                Dashboard!CurrentSeverity' >= Dashboard!CurrentSeverity]_(Dashboard!dashboardVars)
  BY <1>1, <1>2, StepSeverity
<1>4. Dashboard!Spec /\ []DashboardInv => SeverityFollowsFindings
  BY <1>3, PTL DEF SeverityFollowsFindings, Dashboard!SeverityFollowsFindings, Dashboard!Spec
<1> QED
  BY <1>4, DashboardRuns, DashboardInvariance, PTL

\* The score is the average precision of the definition: the mean over the boxes of the best
\* precision at which each of them is recalled (_average_precision).
THEOREM ScoresAreAveragePrecision == Spec => []ScoreIsAveragePrecision
<1>1. GoldenSet!GoldenSetAssumption
  BY ServicesAssumption
<1>2. GoldenInv => ScoreIsAveragePrecision
  BY <1>1, ScoreIsMean DEF ScoreIsAveragePrecision, GoldenSet!ScoreIsAveragePrecision, Bests
<1> QED
  BY <1>1, <1>2, GoldenInvariance, PTL

\* A stricter IoU threshold never scores higher, though each threshold matches anew
\* (_class_ap_at_iou, compute_map).
THEOREM StricterScoresAreLower == Spec => []StricterNeverScoresHigher
<1>1. GoldenSet!GoldenSetAssumption
  BY ServicesAssumption
<1>2. GoldenInv => StricterNeverScoresHigher
  BY <1>1, StricterScores DEF StricterNeverScoresHigher, GoldenSet!StricterNeverScoresHigher
<1> QED
  BY <1>1, <1>2, GoldenInvariance, PTL

-----------------------------------------------------------------------------
\* In every reachable state the variables of every service have their types: rows, requests and
\* tasks under way are among those the code can have, whatever is side by side in it.
THEOREM TypeCorrect == Spec => []TypeOK
<1>1. Alerts!Spec => [](Alerts!TypeOK /\ Alerts!OneAlertAtATime)
  BY ServicesAssumption, Alerts!AlertsInvariant
<1>2. Accounts!Spec => [](Accounts!TypeOK /\ Accounts!EmailIdentifies)
  BY ServicesAssumption, Accounts!EmailsIdentify
<1>3. ChainInv => Chain!TypeOK
  BY DEF ChainInv
<1>4. ChatInv => Chat!TypeOK
  BY ChatIsTyped
<1>5. Feedback!Spec => []Feedback!TypeOK
  BY ServicesAssumption, Feedback!TypeCorrect
<1>6. Housekeeping!Spec => []Housekeeping!TypeOK
  BY ServicesAssumption, Housekeeping!TypeCorrect
<1>7. DashboardInv /\ CacheClock => Dashboard!TypeOK
  BY DashboardIsTyped
<1>8. EventInv => EventStream!TypeOK
  BY ServicesAssumption, EventIsTyped
<1>9. LauncherInv => Launcher!TypeOK
  BY DEF LauncherInv
<1>10. GoldenInv => GoldenSet!TypeOK
  BY GoldenIsTyped
<1>11. GoldenSet!GoldenSetAssumption
  BY ServicesAssumption
<1>12. TypeOK <=> /\ Alerts!TypeOK /\ Accounts!TypeOK /\ Chain!TypeOK /\ Chat!TypeOK
                  /\ Feedback!TypeOK /\ Housekeeping!TypeOK /\ Dashboard!TypeOK
                  /\ GoldenSet!TypeOK /\ EventStream!TypeOK /\ Launcher!TypeOK
  BY DEF TypeOK
<1> QED
  BY <1>1, <1>2, <1>3, <1>4, <1>5, <1>6, <1>7, <1>8, <1>9, <1>10, <1>11, <1>12, AlertsRuns,
     AccountsRuns,
     ChainInvariance, ChatInvariance, FeedbackRuns, HousekeepingRuns, DashboardInvariance,
     ClockInvariance, GoldenInvariance, EventInvariance, LauncherInvariance, PTL
=============================================================================
