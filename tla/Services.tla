------------------------------ MODULE Services -------------------------------
(***************************************************************************)
(* The services around the pipeline, side by side.  They share no state    *)
(* that one of them changes and another reads: every behaviour is one of   *)
(* one service, the `part`, while the others rest.                         *)
(*                                                                         *)
(* Code: backend/app/main.py, which mounts their routers, and              *)
(* tasks/celery_app.py, which schedules their tasks.                       *)
(*                                                                         *)
(* A service with a module of proofs is instantiated from that module, so  *)
(* that ServicesProofs can use its theorems.                               *)
(***************************************************************************)
EXTENDS Naturals, Sequences, FiniteSets

CONSTANTS
  Parts    \* the services to run

\* Alerts
CONSTANTS Batches, Window, Threshold, MaxImages, Acknowledgers, MaxMonitorCrashes
\* Accounts
CONSTANTS Users, Emails, Calls, MaxFailedAttempts, MaxLockout, MaxAttempts
\* AgentChain; Feedback has the same drawn detections, Dashboard the same classes
CONSTANTS Found, Drawn, Unknown, Classes, ClassOf, KnowledgeBase, Severities, MaxFindings,
  MaxReviewAttempts, ChainTasks
\* Chat
CONSTANTS Turns, MaxToolIterations, MaxCalls, ChatFaults
\* Feedback
CONSTANTS Analyses, Reviewed, Dispositions, Feedbacks, MaxEntries
\* Housekeeping
CONSTANTS Documents, UnderWatchRoot, Purge, Cleared, RetentionValues, MaxAge, MaxWorkerCrashes
\* Dashboard
CONSTANTS Images, Weight, MaxDrawn, Queries, Keys, Ttl
\* GoldenSet
CONSTANTS NumBoxes, MaxIoU, Thresholds, MaxPredictions, Scale
\* EventStream, over the Dashboard's images
CONSTANTS Requests, MaxDrops
\* Launcher
CONSTANTS HealthTimeout, PollInterval, ClientTimeout
\* ModelRegistry
CONSTANTS Versions, Seed, NoVersion, Activations, MaxCrashes, Environments

VARIABLES
  part,
  completed, defective, alerts, monitor, acking, crashed, seenUnder,
  user, call, lastLock, overlapped,
  board, chain, analyzing, analysis, covered, torn,
  present, messages, turn, faults,
  shown, audit, request, purged,
  document, file, age, retention, requesting, tasks, housekeeper, died, removed,
  image, finishing, asked, cache, ttl, query,
  found,
  stage, kept, stream, channel, view, fetch, serving, drops, excused,
  installed, startup, shownBy, elapsed, timer, unsure, running, healthyFor,
  version, overridden, registering, evaluations, reloads, worker, loaded, activation, crashes, env

-----------------------------------------------------------------------------
Alerts == INSTANCE AlertsProofs
Accounts == INSTANCE AccountsProofs
Chain == INSTANCE AgentChain
Chat == INSTANCE Chat
Feedback == INSTANCE FeedbackProofs WITH Detections <- Reviewed
Housekeeping == INSTANCE HousekeepingProofs WITH Blank <- Cleared, worker <- housekeeper
Dashboard == INSTANCE Dashboard WITH Requests <- Queries
GoldenSet == INSTANCE GoldenSet
EventStream == INSTANCE EventStream WITH cache <- kept, request <- serving
Launcher == INSTANCE Launcher WITH shown <- shownBy
Registry == INSTANCE ModelRegistry

-----------------------------------------------------------------------------
(* Which service moves, and what the others keep. *)

Names == {"alerts", "accounts", "agent_chain", "chat", "feedback", "housekeeping", "dashboard",
          "golden_set", "event_stream", "launcher", "registry"}

ASSUME ServicesAssumption ==
  /\ Parts \subseteq Names
  /\ Alerts!AlertsAssumption /\ Accounts!AccountsAssumption /\ Chain!AgentChainAssumption
  /\ Chat!ChatAssumption /\ Feedback!FeedbackAssumption
  /\ Housekeeping!HousekeepingAssumption /\ Dashboard!DashboardAssumption
  /\ GoldenSet!GoldenSetAssumption
  /\ EventStream!EventStreamAssumption /\ Launcher!LauncherAssumption

alertVars == <<completed, defective, alerts, monitor, acking, crashed, seenUnder>>
accountVars == <<user, call, lastLock, overlapped>>
chainVars == <<board, chain, analyzing, analysis, covered, torn>>
chatVars == <<present, messages, turn, faults>>
feedbackVars == <<shown, audit, request, purged>>
housekeepingVars == <<document, file, age, retention, requesting, tasks, housekeeper, died,
                      removed>>
dashboardVars == <<image, finishing, asked, cache, ttl, query>>
goldenVars == <<found>>
eventVars == <<stage, kept, stream, channel, view, fetch, serving, drops, excused>>
launcherVars == <<installed, startup, shownBy, elapsed, timer, unsure, running, healthyFor>>
registryVars == <<version, overridden, registering, evaluations, reloads, worker, loaded,
                  activation, crashes, env>>

OthersRest ==
  /\ part' = part
  /\ IF part = "alerts" THEN TRUE ELSE UNCHANGED alertVars
  /\ IF part = "accounts" THEN TRUE ELSE UNCHANGED accountVars
  /\ IF part = "agent_chain" THEN TRUE ELSE UNCHANGED chainVars
  /\ IF part = "chat" THEN TRUE ELSE UNCHANGED chatVars
  /\ IF part = "feedback" THEN TRUE ELSE UNCHANGED feedbackVars
  /\ IF part = "housekeeping" THEN TRUE ELSE UNCHANGED housekeepingVars
  /\ IF part = "dashboard" THEN TRUE ELSE UNCHANGED dashboardVars
  /\ IF part = "golden_set" THEN TRUE ELSE UNCHANGED goldenVars
  /\ IF part = "event_stream" THEN TRUE ELSE UNCHANGED eventVars
  /\ IF part = "launcher" THEN TRUE ELSE UNCHANGED launcherVars
  /\ IF part = "registry" THEN TRUE ELSE UNCHANGED registryVars

\* A service that rests has one initial state.
Init ==
  /\ part \in Parts
  /\ Alerts!Init /\ Accounts!Init /\ Chain!Init /\ Chat!Init /\ Feedback!Init
  /\ Housekeeping!Init /\ Dashboard!Init /\ GoldenSet!Init
  /\ EventStream!Init /\ Launcher!Init /\ Registry!Init
  /\ part # "chat" => faults = CHOOSE f \in ChatFaults : TRUE
  /\ part # "housekeeping" => retention = CHOOSE v \in RetentionValues : TRUE
  /\ part # "dashboard" => asked = CHOOSE k \in Keys : TRUE
  /\ part # "launcher" => ~installed

Next ==
  \/ part = "alerts" /\ Alerts!Next /\ OthersRest
  \/ part = "accounts" /\ Accounts!Next /\ OthersRest
  \/ part = "agent_chain" /\ Chain!Next /\ OthersRest
  \/ part = "chat" /\ Chat!Next /\ OthersRest
  \/ part = "feedback" /\ Feedback!Next /\ OthersRest
  \/ part = "housekeeping" /\ Housekeeping!Next /\ OthersRest
  \/ part = "dashboard" /\ Dashboard!Next /\ OthersRest
  \/ part = "golden_set" /\ GoldenSet!Next /\ OthersRest
  \/ part = "event_stream" /\ EventStream!Next /\ OthersRest
  \/ part = "launcher" /\ Launcher!Next /\ OthersRest
  \/ part = "registry" /\ Registry!Next /\ OthersRest

vars == <<part, alertVars, accountVars, chainVars, chatVars,
          feedbackVars, housekeepingVars, dashboardVars,
          goldenVars, eventVars, launcherVars, registryVars>>

\* The fairness of each service, for the behaviours that are its own.
Fairness ==
  /\ WF_alertVars(part = "alerts" /\ Alerts!Poll)
  /\ \A t \in Turns : WF_chatVars(part = "chat" /\ Chat!Work(t))
  /\ WF_housekeepingVars(part = "housekeeping" /\ Housekeeping!Progress)
  /\ WF_dashboardVars(part = "dashboard" /\ Dashboard!Tick)
  /\ WF_registryVars(part = "registry" /\ Registry!WorkerStep)
  /\ \A v \in Versions \ {Seed} :
       /\ WF_registryVars(part = "registry" /\ Registry!PublishEvaluation(v))
       /\ SF_registryVars(part = "registry" /\ (Registry!EvStart(v) \/ Registry!EvUnstarted(v)))

Spec == Init /\ [][Next]_vars
FairSpec == Spec /\ Fairness

-----------------------------------------------------------------------------
(* What each service promises, under the name it has there. *)

\* The variables of every service have their types (those of the registry: MCModelRegistry).
TypeOK ==
  /\ Alerts!TypeOK /\ Accounts!TypeOK /\ Chain!TypeOK /\ Chat!TypeOK /\ Feedback!TypeOK
  /\ Housekeeping!TypeOK /\ Dashboard!TypeOK /\ GoldenSet!TypeOK
  /\ EventStream!TypeOK /\ Launcher!TypeOK

\* Alerts (alert_monitor): a scope never has two alerts that still need attention.
OneAlertAtATime == Alerts!OneAlertAtATime
\* Alerts (_evaluate_scope): the next alert waits for an acknowledgement and for a lower rate.
NoAlertStorm == Alerts!NoAlertStorm
\* Alerts (evaluate_thresholds): a batch that stays over the threshold gets its alert.
ExcessIsAlerted == Alerts!ExcessIsAlerted
\* Accounts (deactivate_user): an account to sign in with remains, unless removals overlap.
AccountRemains == Accounts!AccountRemains
\* Accounts (user.email): no two accounts share an e-mail, whichever requests overlap.
EmailIdentifies == Accounts!EmailIdentifies
\* Accounts (_lockout_seconds): a lock is no shorter than the one before, unless sign-ins overlap.
LockoutProgresses == Accounts!LockoutProgresses
\* AgentChain (_validate_coverage): the stored analysis speaks of the detections it was made for,
\* also when tasks overlap.
AnalysisFitsBoard == Chain!AnalysisFitsBoard
\* Chat (_message_stream): questions and answers are in the history once, in their order.
ConversationIntact == Chat!ConversationIntact
\* Chat (run_turn): a question gets an answer or a note, also when the model is down.
EveryTurnAnswered == Chat!EveryTurnAnswered
\* Feedback (review_analysis, set_disposition): a row shows the latest of what was said of it.
ShowsALatestFeedback == Feedback!ShowsALatestFeedback
\* Feedback (set_detection_review, set_disposition): an entry names the value it replaced.
AuditTellsPrevious == Feedback!AuditTellsPrevious
\* Housekeeping (generate_report): what reads COMPLETED can be downloaded.
CompletedIsWhole == Housekeeping!CompletedIsWhole
\* Housekeeping (execute_purge): no derived file outlives the row that named it.
PurgeLeavesNoFile == Housekeeping!PurgeLeavesNoFile
\* Housekeeping (generate_report): an enqueued document does not stay PENDING.
GenerationEnds == Housekeeping!GenerationEnds
\* Dashboard (stats/service.py): two counts differ at most by what completed between them.
SkewIsBounded == Dashboard!SkewIsBounded
\* Dashboard (severity_from_defect_counts): a batch reads no milder for worse boards.
SeverityFollowsFindings == Dashboard!SeverityFollowsFindings
\* Dashboard (stats/cache.py): a cached answer does not stay out of date.
StaleAnswersEnd == Dashboard!StaleAnswersEnd
\* GoldenSet (_average_precision): the score is the average precision of the definition.
ScoreIsAveragePrecision == GoldenSet!ScoreIsAveragePrecision
\* GoldenSet (compute_map): a stricter IoU threshold never scores higher.
StricterNeverScoresHigher == GoldenSet!StricterNeverScoresHigher
\* EventStream (useEventStream, invalidate_all): the dashboard ends up with every image announced.
EveryCompletionIsShown == EventStream!EveryCompletionIsShown
\* Launcher (start_stack): a startup gives up in time, and not on a healthy stack.
GivesUpFairly == Launcher!GivesUpFairly
\* ModelRegistry (run_model_evaluation): every published evaluation ends.
EvaluationSettles == Registry!EvaluationSettles
=============================================================================
