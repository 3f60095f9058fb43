------------------------------- MODULE Alerts --------------------------------
(***************************************************************************)
(* Quality alerts: the monitor polls the defect rate of every batch and of *)
(* the whole window, raises an alert over the threshold, stays quiet while *)
(* it is open or not yet cleared; operators acknowledge alerts.            *)
(*                                                                         *)
(* Code: backend/app/alerts/service.py, alerts/router.py,                  *)
(* tasks/alert_monitor.py, models/quality_alert.py.                        *)
(*                                                                         *)
(* A poll is one READ COMMITTED transaction of several statements: what it *)
(* measured may be out of date when it looks at the alerts, and the window *)
(* rate divides two counts taken by two statements.  Polls run one at a    *)
(* time (worker-housekeeping has --pool=solo); a crash rolls one back and  *)
(* the beat schedule sends the next.                                       *)
(***************************************************************************)
EXTENDS Naturals, Sequences, FiniteSets, Functions

CONSTANTS
  Batches,        \* Batch rows
  Window,         \* the scope key "global" of the window-wide rate
  Threshold,      \* alert_defect_rate_threshold, in percent
  MaxImages,      \* bound on the completed images of one batch within the window
  Acknowledgers,  \* POST /alerts/{id}/ack calls; each is made once
  MaxMonitorCrashes  \* bound on the crashes of worker-housekeeping

\* What the proofs ask of the constants; "global" is no batch's id.
AlertsAssumption == Window \notin Batches /\ MaxImages \in Nat /\ MaxMonitorCrashes \in Nat

Scopes == Batches \cup {Window}

VARIABLES
  completed,  \* [Batches -> Nat]: images COMPLETED within the window
  defective,  \* [Batches -> Nat]: those with a reported detection
  alerts,     \* [Scopes -> Seq(row)]: quality_alert rows by scope, oldest first
  monitor,    \* what the poll is doing
  acking,     \* what each acknowledgement is doing
  crashed,    \* crashes of the monitor's worker so far
  seenUnder   \* history: scopes measured at or under the threshold since their last alert

alertVars == <<completed, defective, alerts, monitor, acking, crashed, seenUnder>>

AlertRows == [acknowledged_at : {"null", "set"}, cleared_at : {"null", "set"}]
NewAlert == [acknowledged_at |-> "null", cleared_at |-> "null"]

Over(defects, total) == 100 * defects > Threshold * total
Rate(defects, total) == IF total = 0 THEN "none" ELSE IF Over(defects, total) THEN "over" ELSE "under"
Total(count) == FoldFunction(+, 0, count)

\* The scope's rate as it is now.
CurrentRate(s) ==
  IF s = Window THEN Rate(Total(defective), Total(completed)) ELSE Rate(defective[s], completed[s])

\* An image completes, with a reported defect or without; one leaves: it was re-opened for the
\* agents, or the next poll's window starts after it.
CompleteImage(b) ==
  /\ completed[b] < MaxImages
  /\ completed' = [completed EXCEPT ![b] = @ + 1]
  /\ \E d \in {0, 1} : defective' = [defective EXCEPT ![b] = @ + d]
  /\ UNCHANGED <<alerts, monitor, acking, seenUnder, crashed>>

ImageLeavesWindow(b) ==
  /\ completed[b] > 0
  /\ completed' = [completed EXCEPT ![b] = @ - 1]
  /\ \E d \in {0, 1} :
       /\ defective[b] - d \in 0..(completed[b] - 1)
       /\ defective' = [defective EXCEPT ![b] = @ - d]
  /\ UNCHANGED <<alerts, monitor, acking, seenUnder, crashed>>

\* An operator draws a detection on a completed image that had none: it counts as reported.
AnnotateImage(b) ==
  /\ defective[b] < completed[b]
  /\ defective' = [defective EXCEPT ![b] = @ + 1]
  /\ UNCHANGED <<completed, alerts, monitor, acking, seenUnder, crashed>>

-----------------------------------------------------------------------------
(* The poll.  `raise` and `clear` are the rows its session has flushed and not committed. *)

Resting == [pc |-> "idle", rates |-> [b \in Batches |-> "none"],
            counted |-> [b \in Batches |-> 0], raise |-> {}, clear |-> {}]

\* A scope is open while its latest alert is not acknowledged, and quiet from then until the
\* monitor has seen it back under the threshold.
HasAlert(s) == alerts[s] # <<>>
Latest(s) == alerts[s][Len(alerts[s])]
Open(s) == HasAlert(s) /\ Latest(s).acknowledged_at = "null"
Quiet(s) == HasAlert(s) /\ Latest(s).acknowledged_at = "set" /\ Latest(s).cleared_at = "null"

\* A mutant of EvaluateScope: only an open alert keeps a scope quiet.
EvaluateScopeEagerly(m, s, rate) ==
  [m EXCEPT !.raise = IF rate = "over" /\ ~Open(s) THEN @ \cup {s} ELSE @,
            !.clear = IF rate = "under" /\ Quiet(s) THEN @ \cup {s} ELSE @]

\* A mutant of EvaluateScope: a scope that ever had an alert gets no other.
EvaluateScopeOnce(m, s, rate) ==
  [m EXCEPT !.raise = IF rate = "over" /\ ~HasAlert(s) THEN @ \cup {s} ELSE @,
            !.clear = IF rate = "under" /\ Quiet(s) THEN @ \cup {s} ELSE @]

EvaluateScope(m, s, rate) ==
  [m EXCEPT !.raise = IF rate = "over" /\ ~Open(s) /\ ~Quiet(s) THEN @ \cup {s} ELSE @,
            !.clear = IF rate = "under" /\ Quiet(s) THEN @ \cup {s} ELSE @]

Observe(s, rate) == seenUnder' = IF rate = "under" THEN seenUnder \cup {s} ELSE seenUnder

\* One statement measures all batches with a completed image in the window.
MeasureBatches ==
  /\ monitor.pc = "idle"
  /\ monitor' = [monitor EXCEPT !.pc = "batches",
                   !.rates = [b \in Batches |-> Rate(defective[b], completed[b])]]
  /\ UNCHANGED <<completed, defective, alerts, acking, seenUnder, crashed>>

EvaluateBatch(b) ==
  /\ monitor.pc = "batches" /\ monitor.rates[b] # "none"
  /\ monitor' = [EvaluateScope(monitor, b, monitor.rates[b]) EXCEPT !.rates[b] = "none"]
  /\ Observe(b, monitor.rates[b])
  /\ UNCHANGED <<completed, defective, alerts, acking, crashed>>

CountWindow ==
  /\ monitor.pc = "batches" /\ \A b \in Batches : monitor.rates[b] = "none"
  /\ monitor' = [monitor EXCEPT !.pc = IF Total(completed) = 0 THEN "commit" ELSE "window",
                                !.counted = completed]
  /\ UNCHANGED <<completed, defective, alerts, acking, seenUnder, crashed>>

\* The second count, over the total of the first.
EvaluateWindow ==
  /\ monitor.pc = "window"
  /\ LET rate == Rate(Total(defective), Total(monitor.counted)) IN
       /\ monitor' = [EvaluateScope(monitor, Window, rate) EXCEPT !.pc = "commit"]
       /\ Observe(Window, rate)
  /\ UNCHANGED <<completed, defective, alerts, acking, crashed>>

CommitPoll ==
  /\ monitor.pc = "commit"
  /\ alerts' = [s \in Scopes |->
       IF s \in monitor.raise THEN Append(alerts[s], NewAlert)
       ELSE IF s \in monitor.clear
       THEN [alerts[s] EXCEPT ![Len(alerts[s])].cleared_at = "set"]
       ELSE alerts[s]]
  /\ seenUnder' = seenUnder \ monitor.raise
  /\ monitor' = Resting
  /\ UNCHANGED <<completed, defective, acking, crashed>>

\* The worker is killed: the transaction rolls back.
MonitorCrash ==
  /\ crashed < MaxMonitorCrashes /\ monitor.pc # "idle"
  /\ crashed' = crashed + 1
  /\ monitor' = Resting
  /\ UNCHANGED <<completed, defective, alerts, acking, seenUnder>>

-----------------------------------------------------------------------------
(* Acknowledgement: the request reads the row, answers 409 if it is acknowledged already, and
   commits the columns it set. *)

ReadAlert(r) ==
  /\ acking[r] = <<>>
  /\ \E s \in Scopes : \E n \in DOMAIN alerts[s] :
       acking' = [acking EXCEPT ![r] =
         IF alerts[s][n].acknowledged_at = "set" THEN <<"conflict">> ELSE <<"read", s, n>>]
  /\ UNCHANGED <<completed, defective, alerts, monitor, seenUnder, crashed>>

\* A mutant of Acknowledge: it closes the alert as well.
AcknowledgeAndClear(r) ==
  /\ acking[r] # <<>> /\ acking[r][1] = "read"
  /\ alerts' = [alerts EXCEPT ![acking[r][2]][acking[r][3]] =
                  [acknowledged_at |-> "set", cleared_at |-> "set"]]
  /\ acking' = [acking EXCEPT ![r] = <<"done">>]
  /\ UNCHANGED <<completed, defective, monitor, seenUnder, crashed>>

Acknowledge(r) ==
  /\ acking[r] # <<>> /\ acking[r][1] = "read"
  /\ alerts' = [alerts EXCEPT ![acking[r][2]][acking[r][3]].acknowledged_at = "set"]
  /\ acking' = [acking EXCEPT ![r] = <<"done">>]
  /\ UNCHANGED <<completed, defective, monitor, seenUnder, crashed>>

-----------------------------------------------------------------------------
Init ==
  /\ completed = [b \in Batches |-> 0]
  /\ defective = [b \in Batches |-> 0]
  /\ alerts = [s \in Scopes |-> <<>>]
  /\ monitor = Resting
  /\ acking = [r \in Acknowledgers |-> <<>>]
  /\ crashed = 0
  /\ seenUnder = {}

Poll == \/ MeasureBatches \/ CountWindow \/ EvaluateWindow \/ CommitPoll
        \/ \E b \in Batches : EvaluateBatch(b)

Next == \/ Poll \/ MonitorCrash
        \/ \E b \in Batches : CompleteImage(b) \/ ImageLeavesWindow(b) \/ AnnotateImage(b)
        \/ \E r \in Acknowledgers : ReadAlert(r) \/ Acknowledge(r)

Spec == Init /\ [][Next]_alertVars

\* The beat schedule keeps sending polls and the worker is up to run them.
FairSpec == Spec /\ WF_alertVars(Poll)

-----------------------------------------------------------------------------
TypeOK ==
  /\ completed \in [Batches -> 0..MaxImages]
  /\ defective \in [Batches -> 0..MaxImages]
  /\ alerts \in [Scopes -> Seq(AlertRows)]
  /\ monitor \in [pc : {"idle", "batches", "window", "commit"},
                  rates : [Batches -> {"none", "over", "under"}],
                  counted : [Batches -> 0..MaxImages],
                  raise : SUBSET Scopes, clear : SUBSET Scopes]
  /\ acking \in [Acknowledgers ->
                  {<<>>, <<"conflict">>, <<"done">>} \cup ({"read"} \X Scopes \X Nat)]
  /\ crashed \in 0..MaxMonitorCrashes
  /\ seenUnder \in SUBSET Scopes

\* A scope never has two alerts to deal with: every alert but its latest is acknowledged and was
\* seen to clear, however polls, acknowledgements and crashes of the monitor interleave.
OneAlertAtATime ==
  \A s \in Scopes : \A n \in DOMAIN alerts[s] :
    n < Len(alerts[s]) => alerts[s][n] = [acknowledged_at |-> "set", cleared_at |-> "set"]

\* No alert storm: a scope gets another alert only when the latest is acknowledged and a poll
\* has measured the scope at or under the threshold since that alert.
NoAlertStorm ==
  [][\A s \in Scopes : Len(alerts'[s]) > Len(alerts[s]) /\ HasAlert(s) =>
       Latest(s).acknowledged_at = "set" /\ s \in seenUnder]_alertVars

\* A batch that stays over the threshold gets an alert, unless one it has already is open or
\* still to be seen clearing.  (The window's two counts may straddle changes poll after poll.)
ExcessIsAlerted ==
  \A b \in Batches : CurrentRate(b) = "over" ~> CurrentRate(b) # "over" \/ Open(b) \/ Quiet(b)
=============================================================================
