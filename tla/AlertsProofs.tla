---------------------------- MODULE AlertsProofs -----------------------------
(***************************************************************************)
(* TypeOK, OneAlertAtATime and NoAlertStorm hold of every instance of      *)
(* Alerts that satisfies AlertsAssumption.                                 *)
(*                                                                         *)
(* Neither promise is inductive: what a poll has decided to raise or clear *)
(* is decided from the rows as they were then, and acknowledgements commit *)
(* before it does.  PollInv says that what it decided still stands, and    *)
(* that it decides on a scope once; ClearedInv that a row reads cleared    *)
(* only after a measurement under the threshold.                           *)
(***************************************************************************)
EXTENDS Alerts, SequenceTheorems, TLAPS

Closed == [acknowledged_at |-> "set", cleared_at |-> "set"]

\* The poll has yet to decide on this scope.
Undecided(s) == s \notin monitor.raise /\ s \notin monitor.clear

RaiseStands(s) == s \in monitor.raise =>
  s \notin monitor.clear /\ (HasAlert(s) => Latest(s) = Closed)

ClearStands(s) == s \in monitor.clear =>
  HasAlert(s) /\ Latest(s).acknowledged_at = "set" /\ s \in seenUnder

DecidedOnce ==
  /\ monitor.pc = "idle" => monitor.raise = {} /\ monitor.clear = {}
  /\ \A b \in Batches : monitor.rates[b] # "none" => Undecided(b)
  /\ monitor.pc # "commit" => Undecided(Window)

PollInv == DecidedOnce /\ \A s \in Scopes : RaiseStands(s) /\ ClearStands(s)

ClearedInv == \A s \in Scopes :
  HasAlert(s) /\ Latest(s).cleared_at = "set" => Latest(s) = Closed /\ s \in seenUnder

IInv == TypeOK /\ PollInv /\ ClearedInv /\ OneAlertAtATime

-----------------------------------------------------------------------------
(* Types *)

MonitorStates ==
  [pc : {"idle", "batches", "window", "commit"}, rates : [Batches -> {"none", "over", "under"}],
   counted : [Batches -> 0..MaxImages], raise : SUBSET Scopes, clear : SUBSET Scopes]

LEMMA RestingType == ASSUME AlertsAssumption PROVE Resting \in MonitorStates
BY DEF AlertsAssumption, Resting, MonitorStates

\* A row of a sequence changed in place, if it is one.
LEMMA RowChanged ==
  ASSUME NEW rows \in Seq(AlertRows), NEW n \in Nat, NEW row \in AlertRows
  PROVE  LET changed == [rows EXCEPT ![n] = row] IN
           /\ changed \in Seq(AlertRows)
           /\ Len(changed) = Len(rows)
           /\ \A k \in 1..Len(rows) : changed[k] = IF k = n THEN row ELSE rows[k]
<1>1. CASE n \in 1..Len(rows)
  BY <1>1, ExceptSeq
<1>2. CASE n \notin 1..Len(rows)
  <2>1. rows \in [1..Len(rows) -> AlertRows]
    BY LenProperties
  <2>2. [rows EXCEPT ![n] = row] = rows
    BY <1>2, <2>1
  <2> QED
    BY <1>2, <2>2
<1> QED
  BY <1>1, <1>2

LEMMA InitTypeOK == ASSUME AlertsAssumption PROVE Init => TypeOK
BY RestingType DEF AlertsAssumption, Init, TypeOK, MonitorStates
\* What an acknowledgement does to the rows.
LEMMA AcknowledgeRows ==
  ASSUME TypeOK, NEW r \in Acknowledgers, Acknowledge(r)
  PROVE  /\ alerts' \in [Scopes -> Seq(AlertRows)]
         /\ \A s \in Scopes :
              /\ Len(alerts'[s]) = Len(alerts[s])
              /\ \A k \in 1..Len(alerts[s]) :
                   \/ alerts'[s][k] = alerts[s][k]
                   \/ alerts'[s][k] = [alerts[s][k] EXCEPT !.acknowledged_at = "set"]
<1>1. PICK s \in Scopes, n \in Nat : acking[r] = <<"read", s, n>>
  BY DEF TypeOK, Acknowledge
<1> DEFINE row == [alerts[s][n] EXCEPT !.acknowledged_at = "set"]
           rows == [alerts[s] EXCEPT ![n] = row]
<1>2. alerts' = [alerts EXCEPT ![s] = rows]
  BY <1>1 DEF Acknowledge
<1>3. alerts[s] \in Seq(AlertRows)
  BY DEF TypeOK
<1>4. /\ rows \in Seq(AlertRows)
      /\ Len(rows) = Len(alerts[s])
      /\ \A k \in 1..Len(alerts[s]) : rows[k] = IF k = n THEN row ELSE alerts[s][k]
  <2>1. CASE n \in 1..Len(alerts[s])
    <3>1. alerts[s][n] \in AlertRows
      BY <1>3, <2>1, LenProperties
    <3>2. row \in AlertRows
      BY <3>1 DEF AlertRows
    <3> QED
      BY <1>3, <3>2, RowChanged
  <2>2. CASE n \notin 1..Len(alerts[s])
    <3>1. alerts[s] \in [1..Len(alerts[s]) -> AlertRows]
      BY <1>3, LenProperties
    <3>2. rows = alerts[s]
      BY <2>2, <3>1
    <3> QED
      BY <1>3, <2>2, <3>2
  <2> QED
    BY <2>1, <2>2
<1>5. alerts \in [Scopes -> Seq(AlertRows)]
  BY DEF TypeOK
<1> HIDE DEF rows
<1>6. \A t \in Scopes : alerts'[t] = IF t = s THEN rows ELSE alerts[t]
  BY <1>2, <1>5
<1>7. alerts' \in [Scopes -> Seq(AlertRows)]
  BY <1>2, <1>4, <1>5
<1> QED
  BY <1>4, <1>6, <1>7

\* What the commit of a poll does to them.
LEMMA CommitRows ==
  ASSUME TypeOK, PollInv, CommitPoll
  PROVE  /\ alerts' \in [Scopes -> Seq(AlertRows)]
         /\ \A s \in Scopes :
              IF s \in monitor.raise
              THEN /\ Len(alerts'[s]) = Len(alerts[s]) + 1
                   /\ alerts'[s][Len(alerts[s]) + 1] = NewAlert
                   /\ \A k \in 1..Len(alerts[s]) : alerts'[s][k] = alerts[s][k]
              ELSE IF s \in monitor.clear
              THEN /\ Len(alerts'[s]) = Len(alerts[s])
                   /\ alerts'[s][Len(alerts[s])] = Closed
                   /\ \A k \in 1..Len(alerts[s]) :
                        k # Len(alerts[s]) => alerts'[s][k] = alerts[s][k]
              ELSE alerts'[s] = alerts[s]
<1> DEFINE cleared(s) == [alerts[s] EXCEPT ![Len(alerts[s])].cleared_at = "set"]
<1>1. \A s \in Scopes : alerts'[s] = IF s \in monitor.raise THEN Append(alerts[s], NewAlert)
                                   ELSE IF s \in monitor.clear THEN cleared(s) ELSE alerts[s]
  BY DEF CommitPoll
<1>2. \A s \in Scopes : alerts[s] \in Seq(AlertRows)
  BY DEF TypeOK
<1>3. NewAlert \in AlertRows
  BY DEF NewAlert, AlertRows
<1>4. ASSUME NEW s \in Scopes, s \in monitor.clear
      PROVE  /\ cleared(s) \in Seq(AlertRows)
             /\ Len(cleared(s)) = Len(alerts[s])
             /\ cleared(s)[Len(alerts[s])] = Closed
             /\ \A k \in 1..Len(alerts[s]) : k # Len(alerts[s]) => cleared(s)[k] = alerts[s][k]
  <2> DEFINE n == Len(alerts[s])
             row == [alerts[s][n] EXCEPT !.cleared_at = "set"]
  <2>1. n \in 1..n
    BY <1>2, <1>4 DEF PollInv, ClearStands, HasAlert
  <2>2. alerts[s][n] \in AlertRows /\ alerts[s][n].acknowledged_at = "set"
    BY <1>2, <1>4, <2>1, LenProperties DEF PollInv, ClearStands, Latest
  <2>3. row = Closed /\ row \in AlertRows
    BY <2>2 DEF AlertRows, Closed
  <2>4. cleared(s) = [alerts[s] EXCEPT ![n] = row]
    OBVIOUS
  <2> QED
    BY <1>2, <2>1, <2>3, <2>4, RowChanged
<1>5. ASSUME NEW s \in Scopes
      PROVE  alerts'[s] \in Seq(AlertRows)
  <2>1. Append(alerts[s], NewAlert) \in Seq(AlertRows)
    BY <1>2, <1>3, AppendProperties
  <2> HIDE DEF cleared
  <2> QED
    BY <1>1, <1>2, <1>4, <2>1
<1>6. alerts' \in [Scopes -> Seq(AlertRows)]
  BY <1>5 DEF CommitPoll
<1>7. ASSUME NEW s \in Scopes, s \in monitor.raise
      PROVE  /\ Len(alerts'[s]) = Len(alerts[s]) + 1
             /\ alerts'[s][Len(alerts[s]) + 1] = NewAlert
             /\ \A k \in 1..Len(alerts[s]) : alerts'[s][k] = alerts[s][k]
  <2>1. alerts'[s] = Append(alerts[s], NewAlert)
    BY <1>1, <1>7
  <2> QED
    BY <1>2, <1>3, <2>1, AppendProperties
<1> HIDE DEF cleared
<1> QED
  BY <1>1, <1>4, <1>6, <1>7

-----------------------------------------------------------------------------
(* The invariant. *)

LEMMA InitIInv == ASSUME AlertsAssumption PROVE Init => IInv
<1> SUFFICES ASSUME Init PROVE IInv
  OBVIOUS
<1>1. TypeOK
  BY InitTypeOK
<1>2. \A s \in Scopes : ~HasAlert(s) /\ DOMAIN alerts[s] = {}
  BY DEF Init, HasAlert
<1>3. PollInv
  BY DEF Init, Resting, PollInv, DecidedOnce, Undecided, RaiseStands, ClearStands
<1> QED
  BY <1>1, <1>2, <1>3 DEF IInv, ClearedInv, OneAlertAtATime

\* A step that leaves the monitor, the rows and the measurements alone.
LEMMA Elsewhere ==
  ASSUME IInv, TypeOK', UNCHANGED <<alerts, monitor, seenUnder>>
  PROVE  IInv'
BY DEF IInv, PollInv, DecidedOnce, Undecided, RaiseStands, ClearStands, ClearedInv,
       OneAlertAtATime, HasAlert, Latest

\* A step that decides on at most one scope, s, by the rate it has measured.
LEMMA Decision ==
  ASSUME IInv, TypeOK', NEW s \in Scopes, NEW rate, UNCHANGED alerts,
         Undecided(s), Observe(s, rate), DecidedOnce',
         monitor'.raise = EvaluateScope(monitor, s, rate).raise,
         monitor'.clear = EvaluateScope(monitor, s, rate).clear
  PROVE  IInv'
<1>1. \A t \in Scopes : HasAlert(t)' = HasAlert(t) /\ Latest(t)' = Latest(t)
  BY DEF HasAlert, Latest
<1>2. /\ monitor'.raise = IF rate = "over" /\ ~Open(s) /\ ~Quiet(s)
                          THEN monitor.raise \cup {s} ELSE monitor.raise
      /\ monitor'.clear = IF rate = "under" /\ Quiet(s)
                          THEN monitor.clear \cup {s} ELSE monitor.clear
  <2>1. monitor \in MonitorStates
    BY DEF IInv, TypeOK, MonitorStates
  <2> QED
    BY <2>1 DEF EvaluateScope, MonitorStates
<1>3. seenUnder \subseteq seenUnder' /\ (rate = "under" => s \in seenUnder')
  BY DEF Observe
<1>4. HasAlert(s) /\ ~Open(s) /\ ~Quiet(s) => Latest(s) = Closed
  <2>1. HasAlert(s) => Latest(s) \in AlertRows
    <3>1. alerts[s] \in Seq(AlertRows)
      BY DEF IInv, TypeOK
    <3> QED
      BY <3>1, LenProperties DEF HasAlert, Latest
  <2> QED
    BY <2>1 DEF Open, Quiet, AlertRows, Closed
<1>5. ASSUME NEW t \in Scopes
      PROVE  RaiseStands(t)' /\ ClearStands(t)'
  BY <1>1, <1>2, <1>3, <1>4, <1>5
     DEF IInv, PollInv, RaiseStands, ClearStands, Undecided, Quiet
<1>6. ClearedInv'
  BY <1>1, <1>3 DEF IInv, ClearedInv
<1>7. OneAlertAtATime'
  BY DEF IInv, OneAlertAtATime
<1> QED
  BY <1>5, <1>6, <1>7 DEF IInv, PollInv

-----------------------------------------------------------------------------
(* The steps of a poll. *)

LEMMA StepMeasureBatches == AlertsAssumption /\ IInv /\ MeasureBatches => IInv'
<1> SUFFICES ASSUME AlertsAssumption, IInv, MeasureBatches PROVE IInv'
  OBVIOUS
<1>1. monitor'.raise = monitor.raise /\ monitor'.clear = monitor.clear /\ monitor'.pc = "batches"
  BY DEF MeasureBatches, IInv, TypeOK
<1>2. monitor.raise = {} /\ monitor.clear = {}
  BY DEF MeasureBatches, IInv, PollInv, DecidedOnce
<1>3. TypeOK'
  BY DEF IInv, TypeOK, MeasureBatches, Rate
<1>4. PollInv'
  BY <1>1, <1>2 DEF PollInv, DecidedOnce, Undecided, RaiseStands, ClearStands
<1> QED
  BY <1>3, <1>4 DEF MeasureBatches, IInv, ClearedInv, OneAlertAtATime, HasAlert, Latest

LEMMA StepEvaluateBatch ==
  AlertsAssumption /\ IInv /\ (\E b \in Batches : EvaluateBatch(b)) => IInv'
<1> SUFFICES ASSUME AlertsAssumption, IInv, NEW b \in Batches, EvaluateBatch(b) PROVE IInv'
  OBVIOUS
<1> DEFINE m == EvaluateScope(monitor, b, monitor.rates[b])
<1>1. monitor \in MonitorStates /\ b \in Scopes
  BY DEF IInv, TypeOK, MonitorStates, Scopes
<1>2. /\ m \in MonitorStates /\ m.pc = monitor.pc /\ m.rates = monitor.rates
      /\ m.raise \subseteq monitor.raise \cup {b} /\ m.clear \subseteq monitor.clear \cup {b}
  BY <1>1 DEF EvaluateScope, MonitorStates
<1>3. monitor' = [m EXCEPT !.rates[b] = "none"]
  BY DEF EvaluateBatch
<1> HIDE DEF m
<1>4. /\ monitor' \in MonitorStates
      /\ monitor'.pc = "batches" /\ monitor'.raise = m.raise /\ monitor'.clear = m.clear
      /\ monitor'.rates = [monitor.rates EXCEPT ![b] = "none"]
  BY <1>2, <1>3 DEF MonitorStates, EvaluateBatch
<1>5. TypeOK'
  BY <1>1, <1>4 DEF IInv, TypeOK, MonitorStates, EvaluateBatch, Observe
<1>6. DecidedOnce'
  BY <1>1, <1>2, <1>4 DEF AlertsAssumption, IInv, PollInv, DecidedOnce, Undecided, EvaluateBatch,
                          MonitorStates
<1>7. Undecided(b)
  BY DEF IInv, PollInv, DecidedOnce, EvaluateBatch
<1> QED
  BY <1>1, <1>4, <1>5, <1>6, <1>7, Decision DEF EvaluateBatch, m

LEMMA StepCountWindow == AlertsAssumption /\ IInv /\ CountWindow => IInv'
<1> SUFFICES ASSUME AlertsAssumption, IInv, CountWindow PROVE IInv'
  OBVIOUS
<1>1. /\ monitor'.raise = monitor.raise /\ monitor'.clear = monitor.clear
      /\ monitor'.rates = monitor.rates /\ monitor'.pc \in {"commit", "window"}
  BY DEF CountWindow, IInv, TypeOK
<1>2. TypeOK'
  BY DEF IInv, TypeOK, CountWindow
<1>3. PollInv'
  BY <1>1 DEF CountWindow, IInv, PollInv, DecidedOnce, Undecided, RaiseStands, ClearStands,
              HasAlert, Latest
<1> QED
  BY <1>2, <1>3 DEF CountWindow, IInv, ClearedInv, OneAlertAtATime, HasAlert, Latest

LEMMA StepEvaluateWindow == AlertsAssumption /\ IInv /\ EvaluateWindow => IInv'
<1> SUFFICES ASSUME AlertsAssumption, IInv, EvaluateWindow PROVE IInv'
  OBVIOUS
<1> DEFINE rate == Rate(Total(defective), Total(monitor.counted))
           m == EvaluateScope(monitor, Window, rate)
<1>1. monitor \in MonitorStates /\ Window \in Scopes
  BY DEF IInv, TypeOK, MonitorStates, Scopes
<1>2. /\ m \in MonitorStates /\ m.pc = monitor.pc /\ m.rates = monitor.rates
      /\ m.raise \subseteq monitor.raise \cup {Window} /\ m.clear \subseteq monitor.clear \cup {Window}
  BY <1>1 DEF EvaluateScope, MonitorStates
<1>3. monitor' = [m EXCEPT !.pc = "commit"] /\ Observe(Window, rate)
  BY DEF EvaluateWindow
<1> HIDE DEF m, rate
<1>4. /\ monitor' \in MonitorStates
      /\ monitor'.pc = "commit" /\ monitor'.raise = m.raise /\ monitor'.clear = m.clear
      /\ monitor'.rates = monitor.rates
  BY <1>2, <1>3 DEF MonitorStates
<1>5. TypeOK'
  BY <1>1, <1>3, <1>4 DEF IInv, TypeOK, MonitorStates, EvaluateWindow, Observe
<1>6. DecidedOnce' /\ Undecided(Window)
  BY <1>2, <1>4 DEF AlertsAssumption, IInv, PollInv, DecidedOnce, Undecided, EvaluateWindow
<1> QED
  BY <1>1, <1>3, <1>4, <1>5, <1>6, Decision DEF EvaluateWindow, m

LEMMA StepCommitPoll == AlertsAssumption /\ IInv /\ CommitPoll => IInv'
<1> SUFFICES ASSUME AlertsAssumption, IInv, CommitPoll PROVE IInv'
  OBVIOUS
<1>1. TypeOK /\ PollInv
  BY DEF IInv
<1>2. /\ monitor' = Resting /\ monitor' \in MonitorStates
      /\ monitor'.raise = {} /\ monitor'.clear = {}
  BY RestingType DEF CommitPoll, Resting
<1>3. TypeOK'
  BY <1>1, <1>2, CommitRows DEF CommitPoll, TypeOK, MonitorStates
<1>4. PollInv'
  BY <1>2 DEF PollInv, DecidedOnce, Undecided, RaiseStands, ClearStands
<1>5. ASSUME NEW s \in Scopes
      PROVE  /\ alerts[s] \in Seq(AlertRows) /\ alerts'[s] \in Seq(AlertRows)
             /\ Len(alerts[s]) \in Nat /\ DOMAIN alerts[s] = 1..Len(alerts[s])
             /\ HasAlert(s) <=> Len(alerts[s]) > 0
             /\ DOMAIN alerts'[s] = 1..Len(alerts'[s])
  BY <1>1, <1>3, LenProperties DEF TypeOK, HasAlert
<1>6. ASSUME NEW s \in Scopes, HasAlert(s)', Latest(s)'.cleared_at = "set"
      PROVE  Latest(s)' = Closed /\ s \in seenUnder'
  <2>1. s \notin monitor.raise
    <3>1. s \in monitor.raise => Latest(s)' = NewAlert
      BY <1>1, CommitRows DEF Latest
    <3> QED
      BY <1>6, <3>1 DEF NewAlert
  <2>2. CASE s \in monitor.clear
    <3>1. Latest(s)' = Closed
      BY <1>1, <2>1, <2>2, CommitRows DEF Latest
    <3> QED
      BY <1>1, <2>1, <2>2, <3>1 DEF PollInv, ClearStands, CommitPoll
  <2>3. CASE s \notin monitor.clear
    <3>1. alerts'[s] = alerts[s]
      BY <1>1, <2>1, <2>3, CommitRows
    <3> QED
      BY <1>6, <2>1, <3>1 DEF IInv, ClearedInv, HasAlert, Latest, CommitPoll
  <2> QED
    BY <2>2, <2>3
<1>7. ASSUME NEW s \in Scopes, NEW n \in DOMAIN alerts'[s], n < Len(alerts'[s])
      PROVE  alerts'[s][n] = Closed
  <2>1. n \in 1..Len(alerts'[s])
    BY <1>5
  <2>2. n \in 1..Len(alerts[s]) /\ alerts'[s][n] = alerts[s][n]
    BY <1>1, <1>5, <1>7, <2>1, CommitRows
  <2>3. CASE n < Len(alerts[s])
    BY <1>5, <2>2, <2>3 DEF IInv, OneAlertAtATime, Closed
  <2>4. CASE n = Len(alerts[s])
    <3>1. s \in monitor.raise
      BY <1>1, <1>7, <2>4, CommitRows
    <3> QED
      BY <1>1, <1>5, <2>2, <2>4, <3>1 DEF PollInv, RaiseStands, Latest
  <2> QED
    BY <1>5, <2>2, <2>3, <2>4
<1> QED
  BY <1>3, <1>4, <1>6, <1>7 DEF IInv, ClearedInv, OneAlertAtATime, Closed

-----------------------------------------------------------------------------
(* The other steps. *)

LEMMA StepMonitorCrash == AlertsAssumption /\ IInv /\ MonitorCrash => IInv'
<1> SUFFICES ASSUME AlertsAssumption, IInv, MonitorCrash PROVE IInv'
  OBVIOUS
<1>1. monitor' \in MonitorStates /\ monitor'.raise = {} /\ monitor'.clear = {}
  BY RestingType DEF MonitorCrash, Resting
<1>2. TypeOK'
  BY <1>1 DEF AlertsAssumption, IInv, TypeOK, MonitorStates, MonitorCrash
<1>3. PollInv'
  BY <1>1 DEF PollInv, DecidedOnce, Undecided, RaiseStands, ClearStands
<1> QED
  BY <1>2, <1>3 DEF MonitorCrash, IInv, ClearedInv, OneAlertAtATime, HasAlert, Latest

LEMMA StepReadAlert == IInv /\ (\E r \in Acknowledgers : ReadAlert(r)) => IInv'
<1> SUFFICES ASSUME IInv, NEW r \in Acknowledgers, ReadAlert(r) PROVE IInv'
  OBVIOUS
<1>1. PICK s \in Scopes : \E n \in DOMAIN alerts[s] :
        acking' = [acking EXCEPT ![r] =
          IF alerts[s][n].acknowledged_at = "set" THEN <<"conflict">> ELSE <<"read", s, n>>]
  BY DEF ReadAlert
<1>2. DOMAIN alerts[s] \subseteq Nat
  <2>1. alerts[s] \in Seq(AlertRows)
    BY DEF IInv, TypeOK
  <2> QED
    BY <2>1, LenProperties
<1>3. TypeOK'
  BY <1>1, <1>2 DEF IInv, TypeOK, ReadAlert
<1> QED
  BY <1>3, Elsewhere DEF ReadAlert

LEMMA StepAcknowledge == IInv /\ (\E r \in Acknowledgers : Acknowledge(r)) => IInv'
<1> SUFFICES ASSUME IInv, NEW r \in Acknowledgers, Acknowledge(r) PROVE IInv'
  OBVIOUS
<1>1. TypeOK
  BY DEF IInv
<1>2. /\ alerts' \in [Scopes -> Seq(AlertRows)]
      /\ \A s \in Scopes :
           /\ Len(alerts'[s]) = Len(alerts[s])
           /\ \A k \in 1..Len(alerts[s]) :
                \/ alerts'[s][k] = alerts[s][k]
                \/ alerts'[s][k] = [alerts[s][k] EXCEPT !.acknowledged_at = "set"]
  BY <1>1, AcknowledgeRows
<1>3. TypeOK'
  BY <1>1, <1>2 DEF TypeOK, Acknowledge
<1>4. ASSUME NEW s \in Scopes
      PROVE  /\ HasAlert(s)' <=> HasAlert(s)
             /\ HasAlert(s) => /\ Latest(s) \in AlertRows
                               /\ Latest(s)' = Latest(s)
                                  \/ Latest(s)' = [Latest(s) EXCEPT !.acknowledged_at = "set"]
             /\ DOMAIN alerts[s] = 1..Len(alerts[s]) /\ DOMAIN alerts'[s] = 1..Len(alerts[s])
             /\ \A k \in 1..Len(alerts[s]) : alerts[s][k] \in AlertRows
  <2>1. alerts[s] \in Seq(AlertRows) /\ alerts'[s] \in Seq(AlertRows)
    BY <1>1, <1>2 DEF TypeOK
  <2>2. /\ Len(alerts[s]) \in Nat /\ alerts[s] \in [1..Len(alerts[s]) -> AlertRows]
        /\ DOMAIN alerts'[s] = 1..Len(alerts[s])
    BY <1>2, <2>1, LenProperties
  <2>3. /\ HasAlert(s) <=> Len(alerts[s]) > 0
        /\ HasAlert(s)' <=> Len(alerts[s]) > 0
    BY <1>2, <2>1, <2>2 DEF HasAlert
  <2>4. ASSUME HasAlert(s)
        PROVE  /\ Latest(s) \in AlertRows
               /\ \/ Latest(s)' = Latest(s)
                  \/ Latest(s)' = [Latest(s) EXCEPT !.acknowledged_at = "set"]
    <3>1. Len(alerts[s]) \in 1..Len(alerts[s])
      BY <2>2, <2>3, <2>4
    <3> QED
      BY <1>2, <2>2, <3>1 DEF Latest
  <2> QED
    BY <2>2, <2>3, <2>4
<1>5. ASSUME NEW s \in Scopes, HasAlert(s), Latest(s) = Closed
      PROVE  Latest(s)' = Closed
  BY <1>4, <1>5 DEF Closed
<1>6. PollInv'
  BY <1>4, <1>5 DEF Acknowledge, IInv, PollInv, DecidedOnce, Undecided, RaiseStands, ClearStands,
                    AlertRows
<1>7. ClearedInv'
  <2> SUFFICES ASSUME NEW s \in Scopes, HasAlert(s)', Latest(s)'.cleared_at = "set"
               PROVE  Latest(s)' = Closed /\ s \in seenUnder'
    BY DEF ClearedInv
  <2>1. Latest(s).cleared_at = "set"
    BY <1>4 DEF AlertRows
  <2> QED
    BY <1>4, <1>5, <2>1 DEF IInv, ClearedInv, Acknowledge
<1>8. OneAlertAtATime'
  <2> SUFFICES ASSUME NEW s \in Scopes, NEW n \in 1..Len(alerts[s]), n < Len(alerts[s])
               PROVE  alerts'[s][n] = Closed
    BY <1>2, <1>4 DEF OneAlertAtATime, Closed
  <2>1. alerts[s][n] = Closed
    BY <1>4 DEF IInv, OneAlertAtATime, Closed
  <2> QED
    BY <1>2, <2>1 DEF Closed
<1> QED
  BY <1>3, <1>6, <1>7, <1>8 DEF IInv

\* Nothing but the images' own steps changes the counts: a batch has no more defective images
\* than images, which is what keeps its count of them within the bound.
CountsInv == \A b \in Batches : defective[b] <= completed[b]

LEMMA StepImages ==
  AlertsAssumption /\ IInv /\ CountsInv
    /\ (\E b \in Batches : CompleteImage(b) \/ ImageLeavesWindow(b) \/ AnnotateImage(b))
  => IInv' /\ CountsInv'
<1> SUFFICES ASSUME AlertsAssumption, IInv, CountsInv, NEW b \in Batches,
                    CompleteImage(b) \/ ImageLeavesWindow(b) \/ AnnotateImage(b)
             PROVE  IInv' /\ CountsInv'
  OBVIOUS
<1>1. /\ completed \in [Batches -> 0..MaxImages] /\ defective \in [Batches -> 0..MaxImages]
      /\ MaxImages \in Nat
  BY DEF AlertsAssumption, IInv, TypeOK
<1>2. /\ completed' \in [Batches -> 0..MaxImages] /\ defective' \in [Batches -> 0..MaxImages]
      /\ CountsInv'
  <2>1. CASE CompleteImage(b)
    <3>1. PICK d \in {0, 1} : defective' = [defective EXCEPT ![b] = @ + d]
      BY <2>1 DEF CompleteImage
    <3> QED
      BY <1>1, <2>1, <3>1 DEF CompleteImage, CountsInv
  <2>2. CASE ImageLeavesWindow(b)
    <3>1. PICK d \in {0, 1} : /\ defective[b] - d \in 0..(completed[b] - 1)
                              /\ defective' = [defective EXCEPT ![b] = @ - d]
      BY <2>2 DEF ImageLeavesWindow
    <3> QED
      BY <1>1, <2>2, <3>1 DEF ImageLeavesWindow, CountsInv
  <2>3. CASE AnnotateImage(b)
    BY <1>1, <2>3 DEF AnnotateImage, CountsInv
  <2> QED
    BY <2>1, <2>2, <2>3
<1>3. UNCHANGED <<alerts, monitor, seenUnder, acking, crashed>>
  BY DEF CompleteImage, ImageLeavesWindow, AnnotateImage
<1>4. TypeOK'
  BY <1>2, <1>3 DEF IInv, TypeOK
<1> QED
  BY <1>2, <1>3, <1>4, Elsewhere

-----------------------------------------------------------------------------
(* The theorems. *)

LEMMA Inductive == AlertsAssumption /\ IInv /\ CountsInv /\ [Next]_alertVars => IInv' /\ CountsInv'
<1> SUFFICES ASSUME AlertsAssumption, IInv, CountsInv, [Next]_alertVars PROVE IInv' /\ CountsInv'
  OBVIOUS
<1>1. CASE MeasureBatches
  BY <1>1, StepMeasureBatches DEF MeasureBatches, CountsInv
<1>2. CASE \E b \in Batches : EvaluateBatch(b)
  BY <1>2, StepEvaluateBatch DEF EvaluateBatch, CountsInv
<1>3. CASE CountWindow
  BY <1>3, StepCountWindow DEF CountWindow, CountsInv
<1>4. CASE EvaluateWindow
  BY <1>4, StepEvaluateWindow DEF EvaluateWindow, CountsInv
<1>5. CASE CommitPoll
  BY <1>5, StepCommitPoll DEF CommitPoll, CountsInv
<1>6. CASE MonitorCrash
  BY <1>6, StepMonitorCrash DEF MonitorCrash, CountsInv
<1>7. CASE \E b \in Batches : CompleteImage(b) \/ ImageLeavesWindow(b) \/ AnnotateImage(b)
  BY <1>7, StepImages
<1>8. CASE \E r \in Acknowledgers : ReadAlert(r)
  BY <1>8, StepReadAlert DEF ReadAlert, CountsInv
<1>9. CASE \E r \in Acknowledgers : Acknowledge(r)
  BY <1>9, StepAcknowledge DEF Acknowledge, CountsInv
<1>10. CASE UNCHANGED alertVars
  <2>1. TypeOK'
    BY <1>10 DEF alertVars, IInv, TypeOK
  <2> QED
    BY <1>10, <2>1, Elsewhere DEF alertVars, CountsInv
<1> QED
  BY <1>1, <1>2, <1>3, <1>4, <1>5, <1>6, <1>7, <1>8, <1>9, <1>10 DEF Next, Poll

\* TypeOK and OneAlertAtATime: in every reachable state the variables have their types, and no
\* scope has two alerts to deal with (_evaluate_scope, acknowledge_alert).
THEOREM AlertsInvariant ==
  ASSUME AlertsAssumption
  PROVE  Spec => [](TypeOK /\ OneAlertAtATime)
<1>1. Init => IInv /\ CountsInv
  BY InitIInv DEF Init, CountsInv
<1>2. IInv /\ CountsInv /\ [Next]_alertVars => IInv' /\ CountsInv'
  BY Inductive
<1>3. IInv => TypeOK /\ OneAlertAtATime
  BY DEF IInv
<1> QED
  BY <1>1, <1>2, <1>3, PTL DEF Spec

\* Only the commit of a poll adds an alert, and what PollInv says of a scope to raise is what the
\* promise asks for.
LEMMA StepNoAlertStorm ==
  ASSUME IInv, [Next]_alertVars, NEW s \in Scopes, Len(alerts'[s]) > Len(alerts[s]), HasAlert(s)
  PROVE  Latest(s).acknowledged_at = "set" /\ s \in seenUnder
<1>1. TypeOK /\ PollInv /\ Len(alerts[s]) \in Nat
  <2>1. alerts[s] \in Seq(AlertRows)
    BY DEF IInv, TypeOK
  <2> QED
    BY <2>1, LenProperties DEF IInv
<1>2. ~UNCHANGED alerts
  BY <1>1
<1>3. ~\E r \in Acknowledgers : Acknowledge(r)
  BY <1>1, AcknowledgeRows
<1>4. CommitPoll
  BY <1>2, <1>3 DEF Next, Poll, alertVars, MeasureBatches, EvaluateBatch, CountWindow, EvaluateWindow,
                    MonitorCrash, CompleteImage, ImageLeavesWindow, AnnotateImage, ReadAlert
<1>5. s \in monitor.raise
  BY <1>1, <1>4, CommitRows
<1> QED
  BY <1>1, <1>5 DEF PollInv, RaiseStands, IInv, ClearedInv, Closed

\* NoAlertStorm: a scope gets another alert only after its latest was acknowledged and a poll has
\* measured it back at or under the threshold (_evaluate_scope).
THEOREM NoAlertStormHolds ==
  ASSUME AlertsAssumption
  PROVE  Spec => NoAlertStorm
<1>1. Init => IInv /\ CountsInv
  BY InitIInv DEF Init, CountsInv
<1>2. IInv /\ CountsInv /\ [Next]_alertVars => IInv' /\ CountsInv'
  BY Inductive
<1>3. IInv /\ [Next]_alertVars =>
        [\A s \in Scopes : Len(alerts'[s]) > Len(alerts[s]) /\ HasAlert(s) =>
           Latest(s).acknowledged_at = "set" /\ s \in seenUnder]_alertVars
  BY StepNoAlertStorm
<1> QED
  BY <1>1, <1>2, <1>3, PTL DEF Spec, NoAlertStorm
=============================================================================
