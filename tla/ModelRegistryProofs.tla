------------------------ MODULE ModelRegistryProofs -------------------------
(***************************************************************************)
(* TypeOK, WorkerNotStale and GateHolds hold of every instance of          *)
(* ModelRegistry.                                                          *)
(*                                                                         *)
(* TypeOK is inductive.  WorkerNotStale is not: a load that has read a     *)
(* version may finish after that version was replaced, so FollowInv makes  *)
(* the same promise for the version being loaded.  Nor is GateHolds: an    *)
(* evaluation that is still to come would reopen a row the gate has        *)
(* admitted.  GateInv says that a row is evaluated once when no worker     *)
(* dies, so a COMPLETED row stays as the gate saw it.                      *)
(***************************************************************************)
EXTENDS ModelRegistry, TLAPS

Stale(v) == v # NoVersion /\ ~Active(v)

FollowInv ==
  env \cap {"broker", "api_crash"} = {}
    => /\ Stale(loaded) => ReloadDue
       /\ worker.pc = "loading" /\ Stale(worker.version) => ReloadDue

Evaluating(v) == worker.pc = "evaluating" /\ worker.version = v

\* At most one evaluation of a version is to come or under way; none of one that has ended.
EvaluatedOnce(v) ==
  /\ evaluations[v] <= 1
  /\ v \in registering => evaluations[v] = 0
  /\ Evaluating(v) => evaluations[v] = 0 /\ v \notin registering
  /\ version[v].evaluation_status \in {"ABSENT", "COMPLETED"}
       => v \notin registering /\ evaluations[v] = 0 /\ ~Evaluating(v)

\* What a request admitted is still so when it commits.
StillAdmitted(a) ==
  activation[a].pc \in {"gated", "picked"} =>
    LET row == version[activation[a].version]
    IN  /\ row.evaluation_status = "COMPLETED"
        /\ row.metrics = "meets" \/ activation[a].override = "yes"

GateInv ==
  "inference_crash" \notin env
    => /\ \A v \in Versions : EvaluatedOnce(v)
       /\ \A a \in Activations : StillAdmitted(a)

-----------------------------------------------------------------------------
(* Types *)

LEMMA ConstantTypes ==
  /\ Rest \in WorkerStates
  /\ NoActivation \in ActivationStates
  /\ ActivationDone \in ActivationStates
  /\ ActivationDone.pc = "done"
BY DEF Rest, WorkerStates, NoActivation, ActivationDone, ActivationStates

\* What the SELECT of the active version returns: an active one, or none.
LEMMA ActiveVersionFound ==
  /\ ActiveVersion \in Versions \cup {NoVersion}
  /\ ActiveVersion # NoVersion => Active(ActiveVersion)
<1>1. CASE \E v \in Versions : Active(v)
  <2> DEFINE chosen == CHOOSE v \in Versions : Active(v)
  <2>1. chosen \in Versions /\ Active(chosen)
    BY <1>1
  <2>2. ActiveVersion = chosen
    BY <1>1 DEF ActiveVersion
  <2> QED
    BY <2>1, <2>2
<1>2. CASE ~\E v \in Versions : Active(v)
  BY <1>2 DEF ActiveVersion
<1> QED
  BY <1>1, <1>2

LEMMA SwappedType ==
  ASSUME TypeOK, NEW a \in Activations
  PROVE  /\ Swapped(a) \in [Versions -> VersionRows]
         /\ \A v \in Versions :
              /\ Swapped(a)[v].evaluation_status = version[v].evaluation_status
              /\ Swapped(a)[v].metrics = version[v].metrics
              /\ Swapped(a)[v].is_active = "yes"
                   => version[v].is_active = "yes" \/ v = activation[a].version
BY DEF TypeOK, VersionRows, Swapped

LEMMA InitTypeOK == Init => TypeOK
BY ConstantTypes, RegistryAssumption DEF Init, TypeOK, Active, VersionRows, Rest, NoActivation

LEMMA StepTypeOK == TypeOK /\ [Next]_vars => TypeOK'
<1> SUFFICES ASSUME TypeOK, [Next]_vars
             PROVE  TypeOK'
  OBVIOUS
<1> USE DEF TypeOK, queues
<1>1. ASSUME NEW v \in Versions, Register(v)
      PROVE  TypeOK'
  BY <1>1 DEF Register, Active, VersionRows
<1>2. ASSUME NEW v \in Versions, PublishEvaluation(v)
      PROVE  TypeOK'
  BY <1>2 DEF PublishEvaluation, Active
<1>3. ASSUME NEW v \in Versions, EvStart(v)
      PROVE  TypeOK'
  BY <1>3 DEF EvStart, Active, VersionRows, WorkerStates
<1>4. ASSUME NEW v \in Versions, EvUnstarted(v)
       PROVE  TypeOK'
  BY <1>4 DEF EvUnstarted, Active, WorkerStates
<1>5. CASE EvComplete
  <2>1. PICK m \in {"below", "meets"} :
          version' = [version EXCEPT ![worker.version].evaluation_status = "COMPLETED",
                                     ![worker.version].metrics = m]
    BY <1>5 DEF EvComplete
  <2>2. worker.version \in Versions
    BY <1>5 DEF EvComplete
  <2>3. /\ version' \in [Versions -> VersionRows]
        /\ \A v \in Versions : version'[v].is_active = version[v].is_active
    BY <2>1, <2>2 DEF VersionRows
  <2>4. worker' \in WorkerStates /\ worker'.version = worker.version /\ worker'.pc = "ack"
    BY <1>5 DEF EvComplete, Done, WorkerStates
  <2> QED
    BY <1>5, <2>2, <2>3, <2>4 DEF EvComplete, Active
<1>6. CASE EvFail
  BY <1>6 DEF EvFail, Done, Active, VersionRows, WorkerStates
<1>7. CASE EvError
  BY <1>7 DEF EvError, Done, Active, WorkerStates
<1>8. CASE ReloadStart
  BY <1>8, ActiveVersionFound DEF ReloadStart, Active, WorkerStates
<1>9. CASE LoadStart
  BY <1>9, ActiveVersionFound DEF LoadStart, Active, WorkerStates
<1>10. CASE LoadFinish
  BY <1>10 DEF LoadFinish, Done, Active, WorkerStates
<1>11. CASE LoadFail
  BY <1>11 DEF LoadFail, Done, Active, WorkerStates
<1>12. CASE Ack
  BY <1>12, ConstantTypes DEF Ack, Active, Rest
<1>13. CASE InferenceCrash
  BY <1>13, ConstantTypes, RegistryAssumption DEF InferenceCrash, Active, Rest
<1>14. ASSUME NEW a \in Activations, NEW v \in Versions, ActGate(a, v)
       PROVE  TypeOK'
  <2>1. PICK state \in ActivationStates :
          /\ activation' = [activation EXCEPT ![a] = state]
          /\ state.pc \in {"gated", "picked", "publishing"} => state.version \in Versions
    <3>1. PICK justified \in BOOLEAN : activation' = [activation EXCEPT ![a] =
            IF Admitted(version[v], justified)
            THEN [NoActivation EXCEPT
                    !.pc = "gated", !.version = v, !.active = version[v].is_active,
                    !.override = IF justified /\ version[v].metrics # "meets"
                                 THEN "yes" ELSE "no"]
            ELSE ActivationDone]
      BY <1>14 DEF ActGate
    <3>2. CASE Admitted(version[v], justified)
      <4> DEFINE state == [NoActivation EXCEPT
                    !.pc = "gated", !.version = v, !.active = version[v].is_active,
                    !.override = IF justified /\ version[v].metrics # "meets"
                                 THEN "yes" ELSE "no"]
      <4>1. version[v].is_active \in {"yes", "no"}
        BY DEF VersionRows
      <4>2. state \in ActivationStates /\ state.version = v
        BY <1>14, <4>1 DEF NoActivation, ActivationStates
      <4>3. activation' = [activation EXCEPT ![a] = state]
        BY <3>1, <3>2
      <4> HIDE DEF state
      <4> QED
        BY <1>14, <4>2, <4>3
    <3>3. CASE ~Admitted(version[v], justified)
      BY <3>1, <3>3, ConstantTypes
    <3> QED
      BY <3>2, <3>3
  <2> QED
    BY <1>14, <2>1 DEF ActGate, Active
<1>15. ASSUME NEW a \in Activations, ActPick(a)
       PROVE  TypeOK'
  <2> DEFINE previous == ActiveVersion
  <2>1. previous \in Versions \cup {NoVersion}
    BY ActiveVersionFound
  <2>2. activation' = [activation EXCEPT ![a].pc = "picked", ![a].previous = previous]
    BY <1>15 DEF ActPick
  <2> HIDE DEF previous
  <2>3. activation[a].version \in Versions
    BY <1>15 DEF ActPick
  <2>4. /\ activation' \in [Activations -> ActivationStates]
        /\ \A b \in Activations : activation'[b].version = activation[b].version
    <3> DEFINE state == [activation[a] EXCEPT !.pc = "picked", !.previous = previous]
    <3>1. state \in ActivationStates /\ state.version = activation[a].version
      BY <2>1 DEF ActivationStates
    <3>2. activation' = [activation EXCEPT ![a] = state]
      BY <2>2
    <3> HIDE DEF state
    <3> QED
      BY <3>1, <3>2
  <2>5. \A b \in Activations : b # a => activation'[b] = activation[b]
    BY <2>2
  <2> QED
    BY <1>15, <2>3, <2>4, <2>5 DEF ActPick, Active
<1>16. ASSUME NEW a \in Activations, ActCommit(a)
       PROVE  TypeOK'
  <2>1. CASE Conflict(Swapped(a))
    BY <1>16, <2>1, ConstantTypes DEF ActCommit, Active
  <2>2. CASE ~Conflict(Swapped(a))
    <3>1. version' \in [Versions -> VersionRows]
      BY <1>16, <2>2, SwappedType DEF ActCommit
    <3>2. \A v, w \in Versions : Active(v)' /\ Active(w)' => v = w
      BY <1>16, <2>2 DEF ActCommit, Conflict, Active
    <3>3. activation' = [activation EXCEPT ![a].pc = "publishing"]
      BY <1>16, <2>2 DEF ActCommit
    <3>4. /\ activation' \in [Activations -> ActivationStates]
          /\ \A b \in Activations :
               activation'[b].pc \in {"gated", "picked", "publishing"}
                 => activation'[b].version \in Versions
      BY <1>16, <3>3 DEF ActCommit, ActivationStates
    <3>5. overridden' \in SUBSET Versions
      BY <1>16, <2>2 DEF ActCommit
    <3> QED
      BY <1>16, <3>1, <3>2, <3>4, <3>5 DEF ActCommit
  <2> QED
    BY <2>1, <2>2
<1>17. ASSUME NEW a \in Activations, ActPublish(a)
       PROVE  TypeOK'
  BY <1>17, ConstantTypes DEF ActPublish, Active
<1>18. ASSUME NEW a \in Activations, ActCrash(a)
       PROVE  TypeOK'
  BY <1>18, ConstantTypes DEF ActCrash, Active
<1>19. CASE UNCHANGED vars
  BY <1>19 DEF vars, Active
<1> QED
  BY <1>1, <1>2, <1>3, <1>4, <1>5, <1>6, <1>7, <1>8, <1>9, <1>10, <1>11, <1>12, <1>13,
     <1>14, <1>15, <1>16, <1>17, <1>18, <1>19 DEF Next, WorkerStep, ActivationStep

\* Every reachable state is well-typed, and no two versions are active (RN-02:
\* ix_model_version_single_active), whichever activations run side by side.
THEOREM TypeCorrect == Spec => []TypeOK
BY InitTypeOK, StepTypeOK, PTL DEF Spec

-----------------------------------------------------------------------------
(* WorkerNotStale *)

\* What a step must respect for FollowInv to survive it: which versions are active does not
\* change, a due reload remains due, and the worker takes up no version.
LEMMA Following ==
  ASSUME TypeOK, FollowInv, env' = env,
         \A v \in Versions : version'[v].is_active = version[v].is_active,
         ReloadDue => ReloadDue',
         loaded' \in {loaded, NoVersion},
         worker'.pc = "loading" => worker' = worker
  PROVE  FollowInv'
<1>1. \A v \in Versions \cup {NoVersion} : Stale(v)' => Stale(v)
  BY DEF Stale, Active
<1>2. Stale(loaded)' => Stale(loaded)
  BY DEF Stale, Active, TypeOK
<1>3. worker'.pc = "loading" /\ Stale(worker.version)' => Stale(worker.version)
  BY <1>1 DEF Stale, Active, TypeOK, WorkerStates
<1> QED
  BY <1>2, <1>3 DEF FollowInv

LEMMA InitFollowInv == Init => FollowInv
BY DEF Init, FollowInv, Stale, Rest

LEMMA StepFollowInv == TypeOK /\ FollowInv /\ [Next]_vars => FollowInv'
<1> SUFFICES ASSUME TypeOK, FollowInv, [Next]_vars
             PROVE  FollowInv'
  OBVIOUS
<1> USE DEF queues
<1>1. ASSUME NEW v \in Versions, Register(v)
      PROVE  FollowInv'
  BY <1>1, Following DEF Register, ReloadDue, TypeOK, VersionRows
<1>2. ASSUME NEW v \in Versions, PublishEvaluation(v)
      PROVE  FollowInv'
  BY <1>2, Following DEF PublishEvaluation, ReloadDue
<1>3. ASSUME NEW v \in Versions, EvStart(v)
      PROVE  FollowInv'
  BY <1>3, Following DEF EvStart, ReloadDue, TypeOK, VersionRows
<1>4. ASSUME NEW v \in Versions, EvUnstarted(v)
       PROVE  FollowInv'
  BY <1>4, Following DEF EvUnstarted, ReloadDue
<1>5. CASE EvComplete
  <2>1. PICK m \in {"below", "meets"} :
          version' = [version EXCEPT ![worker.version].evaluation_status = "COMPLETED",
                                     ![worker.version].metrics = m]
    BY <1>5 DEF EvComplete
  <2>2. \A v \in Versions : version'[v].is_active = version[v].is_active
    BY <2>1 DEF TypeOK, VersionRows
  <2>3. worker'.pc = "ack"
    BY <1>5 DEF EvComplete, Done, TypeOK, WorkerStates
  <2> QED
    BY <1>5, <2>2, <2>3, Following DEF EvComplete, ReloadDue
<1>6. CASE EvFail
  BY <1>6, Following DEF EvFail, Done, ReloadDue, TypeOK, VersionRows, WorkerStates
<1>7. CASE EvError
  BY <1>7, Following DEF EvError, Done, ReloadDue, TypeOK, WorkerStates
<1>8. CASE ReloadStart
  BY <1>8, ActiveVersionFound DEF ReloadStart, FollowInv, Stale, Active
<1>9. CASE LoadStart
  BY <1>9, ActiveVersionFound DEF LoadStart, FollowInv, Stale, Active
<1>10. CASE LoadFinish
  BY <1>10 DEF LoadFinish, Done, FollowInv, Stale, Active, ReloadDue, TypeOK, WorkerStates
<1>11. CASE LoadFail
  BY <1>11, Following DEF LoadFail, Done, ReloadDue, TypeOK, WorkerStates
<1>12. CASE Ack
  BY <1>12, Following DEF Ack, Rest, ReloadDue
<1>13. CASE InferenceCrash
  BY <1>13, Following DEF InferenceCrash, Rest, ReloadDue, TypeOK
<1>14. ASSUME NEW a \in Activations, NEW v \in Versions, ActGate(a, v)
       PROVE  FollowInv'
  <2>1. \A b \in Activations : b # a => activation'[b] = activation[b]
    BY <1>14 DEF ActGate, TypeOK
  <2>2. ReloadDue => ReloadDue'
    BY <1>14, <2>1 DEF ActGate, ReloadDue
  <2> QED
    BY <1>14, <2>2, Following DEF ActGate
<1>15. ASSUME NEW a \in Activations, ActPick(a)
       PROVE  FollowInv'
  <2>1. \A b \in Activations : b # a => activation'[b] = activation[b]
    BY <1>15 DEF ActPick, TypeOK
  <2>2. ReloadDue => ReloadDue'
    BY <1>15, <2>1 DEF ActPick, ReloadDue
  <2> QED
    BY <1>15, <2>2, Following DEF ActPick
<1>16. ASSUME NEW a \in Activations, ActCommit(a)
       PROVE  FollowInv'
  <2>1. CASE Conflict(Swapped(a))
    <3>1. \A b \in Activations : b # a => activation'[b] = activation[b]
      BY <1>16, <2>1 DEF ActCommit, TypeOK
    <3>2. ReloadDue => ReloadDue'
      BY <1>16, <3>1 DEF ActCommit, ReloadDue
    <3> QED
      BY <1>16, <2>1, <3>2, Following DEF ActCommit
  <2>2. CASE ~Conflict(Swapped(a))
    <3>1. activation'[a].pc = "publishing"
      BY <1>16, <2>2 DEF ActCommit, TypeOK, ActivationStates
    <3> QED
      BY <3>1 DEF FollowInv, ReloadDue
  <2> QED
    BY <2>1, <2>2
<1>17. ASSUME NEW a \in Activations, ActPublish(a)
       PROVE  FollowInv'
  <2>1. CASE reloads' = reloads + 1
    BY <1>17, <2>1 DEF ActPublish, FollowInv, ReloadDue, TypeOK
  <2>2. CASE env \cap {"broker", "api_crash"} # {}
    BY <1>17, <2>2 DEF ActPublish, FollowInv
  <2> QED
    BY <1>17, <2>1, <2>2 DEF ActPublish
<1>18. ASSUME NEW a \in Activations, ActCrash(a)
       PROVE  FollowInv'
  <2>1. \A b \in Activations : b # a => activation'[b] = activation[b]
    BY <1>18 DEF ActCrash, TypeOK
  <2>2. ReloadDue => ReloadDue'
    BY <1>18, <2>1 DEF ActCrash, ReloadDue
  <2> QED
    BY <1>18, <2>2, Following DEF ActCrash
<1>19. CASE UNCHANGED vars
  BY <1>19, Following DEF vars, ReloadDue
<1> QED
  BY <1>1, <1>2, <1>3, <1>4, <1>5, <1>6, <1>7, <1>8, <1>9, <1>10, <1>11, <1>12, <1>13,
     <1>14, <1>15, <1>16, <1>17, <1>18, <1>19 DEF Next, WorkerStep, ActivationStep

\* For any number of versions, activations and crashes: while no publish is lost, a worker
\* that holds a replaced version has a reload coming (reload_active_model).
THEOREM WorkerNotStaleHolds == Spec => []WorkerNotStale
<1>1. FollowInv => WorkerNotStale
  BY DEF FollowInv, WorkerNotStale, Stale
<1> QED
  BY <1>1, TypeCorrect, InitFollowInv, StepFollowInv, PTL DEF Spec

-----------------------------------------------------------------------------
(* GateHolds *)

GateIInv == GateInv /\ GateHolds

\* The rows and the evaluations are left alone, and what requests have admitted as well.
LEMMA GateFrame ==
  ASSUME TypeOK, GateIInv, env' = env, overridden' = overridden, UNCHANGED <<version, registering>>,
         UNCHANGED evaluations,
         \A v \in Versions : Evaluating(v)' => Evaluating(v),
         \A a \in Activations : StillAdmitted(a) => StillAdmitted(a)'
  PROVE  GateIInv'
BY DEF GateIInv, GateInv, GateHolds, EvaluatedOnce, Active

\* The row of a version that is not COMPLETED changes, or an evaluation goes from one place
\* to the next: neither requests nor the active version are concerned.
LEMMA EvaluationFrame ==
  ASSUME TypeOK, GateIInv, env' = env, overridden' = overridden, activation' = activation,
         "inference_crash" \notin env,
         NEW v \in Versions, version[v].evaluation_status # "COMPLETED",
         \A w \in Versions : w # v => /\ version'[w] = version[w]
                                      /\ evaluations'[w] = evaluations[w]
                                      /\ w \in registering' <=> w \in registering
                                      /\ Evaluating(w)' => Evaluating(w),
         version'[v].is_active = version[v].is_active,
         EvaluatedOnce(v)'
  PROVE  GateIInv'
<1>1. \A w \in Versions : EvaluatedOnce(w)'
  BY DEF GateIInv, GateInv, EvaluatedOnce
<1>2. ~Active(v)
  BY DEF GateIInv, GateHolds
<1>3. GateHolds'
  BY <1>2 DEF GateIInv, GateHolds, Active
<1>4. \A a \in Activations : StillAdmitted(a)'
  <2> SUFFICES ASSUME NEW a \in Activations, activation[a].pc \in {"gated", "picked"}
               PROVE  StillAdmitted(a)'
    BY DEF StillAdmitted
  <2>1. StillAdmitted(a) /\ activation[a].version \in Versions
    BY DEF GateIInv, GateInv, TypeOK
  <2>2. activation[a].version # v
    BY <2>1 DEF StillAdmitted
  <2> QED
    BY <2>1, <2>2 DEF StillAdmitted
<1> QED
  BY <1>1, <1>3, <1>4 DEF GateIInv, GateInv

LEMMA InitGateIInv == Init => GateIInv
<1> SUFFICES ASSUME Init
             PROVE  GateIInv
  OBVIOUS
<1>1. \A v \in Versions : EvaluatedOnce(v)
  BY DEF Init, EvaluatedOnce, Evaluating, Rest
<1>2. \A a \in Activations : StillAdmitted(a)
  BY DEF Init, StillAdmitted, NoActivation
<1>3. GateHolds
  BY DEF Init, GateHolds, Active
<1> QED
  BY <1>1, <1>2, <1>3 DEF GateIInv, GateInv

LEMMA StepGateIInv == TypeOK /\ GateIInv /\ [Next]_vars => GateIInv'
<1> SUFFICES ASSUME TypeOK, GateIInv, [Next]_vars
             PROVE  GateIInv'
  OBVIOUS
<1>env. env' = env
  BY DEF Next, Register, PublishEvaluation, WorkerStep, EvStart, EvUnstarted, EvComplete, EvFail,
         EvError, ReloadStart, LoadStart, LoadFinish, LoadFail, Ack, InferenceCrash, ActivationStep,
         ActGate, ActPick, ActCommit, ActPublish, ActCrash, vars
<1>0. CASE "inference_crash" \in env
  BY <1>0, <1>env DEF GateIInv, GateInv, GateHolds
<1> SUFFICES ASSUME "inference_crash" \notin env
             PROVE  GateIInv'
  BY <1>0
<1>once. \A v \in Versions : EvaluatedOnce(v)
  BY DEF GateIInv, GateInv
<1> USE DEF queues
<1>1. ASSUME NEW v \in Versions, Register(v)
      PROVE  GateIInv'
  <2>1. /\ version'[v].evaluation_status = "PENDING"
        /\ version'[v].is_active = version[v].is_active
        /\ \A w \in Versions : w # v => version'[w] = version[w]
    BY <1>1 DEF Register, TypeOK, VersionRows
  <2>2. EvaluatedOnce(v)'
    BY <1>1, <1>once, <2>1 DEF Register, EvaluatedOnce, Evaluating
  <2> QED
    BY <1>1, <2>1, <2>2, EvaluationFrame DEF Register, Evaluating
<1>2. ASSUME NEW v \in Versions, PublishEvaluation(v)
      PROVE  GateIInv'
  <2>1. version[v].evaluation_status # "COMPLETED"
    BY <1>2, <1>once DEF PublishEvaluation, EvaluatedOnce
  <2>2. EvaluatedOnce(v)'
    BY <1>2, <1>once DEF PublishEvaluation, EvaluatedOnce, Evaluating, TypeOK
  <2>3. \A w \in Versions : w # v => evaluations'[w] = evaluations[w]
    BY <1>2 DEF PublishEvaluation, TypeOK
  <2> QED
    BY <1>2, <2>1, <2>2, <2>3, EvaluationFrame DEF PublishEvaluation, Evaluating
<1>3. ASSUME NEW v \in Versions, EvStart(v)
      PROVE  GateIInv'
  <2>1. version[v].evaluation_status # "COMPLETED"
    BY <1>3, <1>once DEF EvStart, EvaluatedOnce
  <2>2. /\ version'[v].evaluation_status = "RUNNING"
        /\ version'[v].is_active = version[v].is_active
        /\ evaluations'[v] = evaluations[v] - 1
        /\ \A w \in Versions : w # v => /\ version'[w] = version[w]
                                        /\ evaluations'[w] = evaluations[w]
    BY <1>3 DEF EvStart, TypeOK, VersionRows
  <2>3. EvaluatedOnce(v)'
    BY <1>3, <1>once, <2>2 DEF EvStart, EvaluatedOnce, Evaluating, TypeOK
  <2> QED
    BY <1>3, <2>1, <2>2, <2>3, EvaluationFrame DEF EvStart, Evaluating
<1>4. ASSUME NEW v \in Versions, EvUnstarted(v)
       PROVE  GateIInv'
  <2>1. version[v].evaluation_status # "COMPLETED"
    BY <1>4, <1>once DEF EvUnstarted, EvaluatedOnce
  <2>2. /\ evaluations'[v] = evaluations[v] - 1
        /\ \A w \in Versions : w # v => evaluations'[w] = evaluations[w]
    BY <1>4 DEF EvUnstarted, TypeOK
  <2>3. EvaluatedOnce(v)'
    BY <1>4, <1>once, <2>2 DEF EvUnstarted, EvaluatedOnce, Evaluating, TypeOK
  <2> QED
    BY <1>4, <2>1, <2>2, <2>3, EvaluationFrame DEF EvUnstarted, Evaluating
<1>5. ASSUME EvComplete \/ EvFail
      PROVE  GateIInv'
  <2>1. PICK v \in Versions : Evaluating(v)
    BY <1>5 DEF EvComplete, EvFail, TypeOK, Evaluating
  <2>2. version[v].evaluation_status # "COMPLETED"
    BY <2>1, <1>once DEF EvaluatedOnce
  <2>3. /\ version'[v].is_active = version[v].is_active
        /\ \A w \in Versions : w # v => version'[w] = version[w]
    <3>1. CASE EvComplete
      BY <2>1, <3>1 DEF EvComplete, Evaluating, TypeOK, VersionRows
    <3>2. CASE EvFail
      BY <2>1, <3>2 DEF EvFail, Evaluating, TypeOK, VersionRows
    <3> QED
      BY <1>5, <3>1, <3>2
  <2>4. worker'.pc = "ack" /\ worker'.version = worker.version
    BY <1>5 DEF EvComplete, EvFail, Done, TypeOK, WorkerStates
  <2>5. UNCHANGED <<overridden, registering, evaluations, activation>>
    BY <1>5 DEF EvComplete, EvFail
  <2>6. EvaluatedOnce(v)'
    BY <2>1, <2>4, <2>5, <1>once DEF EvaluatedOnce, Evaluating
  <2>7. \A w \in Versions : ~Evaluating(w)'
    BY <2>4 DEF Evaluating
  <2> QED
    BY <1>env, <2>1, <2>2, <2>3, <2>5, <2>6, <2>7, EvaluationFrame
<1>6. CASE EvError
  BY <1>6, GateFrame DEF EvError, Done, Evaluating, StillAdmitted, TypeOK, WorkerStates
<1>7. CASE ReloadStart
  BY <1>7, GateFrame DEF ReloadStart, Evaluating, StillAdmitted
<1>8. CASE LoadStart
  BY <1>8, GateFrame DEF LoadStart, Evaluating, StillAdmitted
<1>9. CASE LoadFinish \/ LoadFail
  BY <1>9, GateFrame DEF LoadFinish, LoadFail, Done, Evaluating, StillAdmitted, TypeOK, WorkerStates
<1>10. CASE Ack
  BY <1>10, GateFrame DEF Ack, Rest, Evaluating, StillAdmitted
<1>11. CASE InferenceCrash
  BY <1>11 DEF InferenceCrash
<1>12. ASSUME NEW a \in Activations, NEW v \in Versions, ActGate(a, v)
       PROVE  GateIInv'
  <2>1. \A b \in Activations : b # a => activation'[b] = activation[b]
    BY <1>12 DEF ActGate, TypeOK
  <2>2. StillAdmitted(a)'
    <3>1. PICK justified \in BOOLEAN : activation' = [activation EXCEPT ![a] =
            IF Admitted(version[v], justified)
            THEN [NoActivation EXCEPT
                    !.pc = "gated", !.version = v, !.active = version[v].is_active,
                    !.override = IF justified /\ version[v].metrics # "meets"
                                 THEN "yes" ELSE "no"]
            ELSE ActivationDone]
      BY <1>12 DEF ActGate
    <3>2. CASE Admitted(version[v], justified)
      <4>1. /\ activation'[a].version = v
            /\ activation'[a].override = IF justified /\ version[v].metrics # "meets"
                                         THEN "yes" ELSE "no"
        BY <3>1, <3>2 DEF TypeOK, NoActivation
      <4>2. version' = version
        BY <1>12 DEF ActGate
      <4> QED
        BY <3>2, <4>1, <4>2 DEF Admitted, StillAdmitted
    <3>3. CASE ~Admitted(version[v], justified)
      <4>1. activation'[a].pc = "done"
        BY <3>1, <3>3, ConstantTypes DEF TypeOK
      <4> QED
        BY <4>1 DEF StillAdmitted
    <3> QED
      BY <3>2, <3>3
  <2>3. \A b \in Activations : StillAdmitted(b) => StillAdmitted(b)'
    BY <1>12, <2>1, <2>2 DEF ActGate, StillAdmitted
  <2> QED
    BY <1>12, <2>3, GateFrame DEF ActGate, Evaluating
<1>13. ASSUME NEW a \in Activations, ActPick(a)
       PROVE  GateIInv'
  <2>1. /\ \A b \in Activations : b # a => activation'[b] = activation[b]
        /\ activation[a].pc = "gated"
        /\ activation'[a].version = activation[a].version
        /\ activation'[a].override = activation[a].override
    <3> DEFINE previous == ActiveVersion
    <3>1. activation' = [activation EXCEPT ![a].pc = "picked", ![a].previous = previous]
      BY <1>13 DEF ActPick
    <3> HIDE DEF previous
    <3> QED
      BY <1>13, <3>1 DEF ActPick, TypeOK, ActivationStates
  <2>2. \A b \in Activations : StillAdmitted(b) => StillAdmitted(b)'
    BY <1>13, <2>1 DEF ActPick, StillAdmitted
  <2> QED
    BY <1>13, <2>2, GateFrame DEF ActPick, Evaluating
<1>14. ASSUME NEW a \in Activations, ActCommit(a)
       PROVE  GateIInv'
  <2>1. CASE Conflict(Swapped(a))
    <3>1. /\ \A b \in Activations : b # a => activation'[b] = activation[b]
          /\ activation'[a].pc = "done"
      BY <1>14, <2>1, ConstantTypes DEF ActCommit, TypeOK
    <3>2. \A b \in Activations : StillAdmitted(b) => StillAdmitted(b)'
      BY <1>14, <2>1, <3>1 DEF ActCommit, StillAdmitted
    <3> QED
      BY <1>14, <2>1, <3>2, GateFrame DEF ActCommit, Evaluating
  <2>2. CASE ~Conflict(Swapped(a))
    <3> DEFINE new == activation[a].version
    <3>1. /\ \A b \in Activations : b # a => activation'[b] = activation[b]
          /\ activation'[a].pc = "publishing"
      BY <1>14, <2>2 DEF ActCommit, TypeOK, ActivationStates
    <3>2. \A v \in Versions :
            /\ version'[v].evaluation_status = version[v].evaluation_status
            /\ version'[v].metrics = version[v].metrics
            /\ version'[v].is_active = "yes" => version[v].is_active = "yes" \/ v = new
      BY <1>14, <2>2, SwappedType DEF ActCommit
    <3>3. /\ new \in Versions
          /\ version[new].evaluation_status = "COMPLETED"
          /\ version[new].metrics = "meets" \/ activation[a].override = "yes"
      BY <1>14 DEF ActCommit, GateIInv, GateInv, StillAdmitted, TypeOK
    <3>4. /\ overridden \subseteq overridden'
          /\ activation[a].override = "yes" => new \in overridden'
      BY <1>14, <2>2 DEF ActCommit
    <3>5. \A v \in Versions : EvaluatedOnce(v)'
      BY <1>14, <1>once, <3>2 DEF ActCommit, EvaluatedOnce, Evaluating
    <3> HIDE DEF new
    <3>6. \A b \in Activations : StillAdmitted(b)'
      <4> SUFFICES ASSUME NEW b \in Activations, activation'[b].pc \in {"gated", "picked"}
                   PROVE  StillAdmitted(b)'
        BY DEF StillAdmitted
      <4>1. b # a /\ activation'[b] = activation[b]
        BY <3>1
      <4>2. StillAdmitted(b) /\ activation[b].version \in Versions
        BY <4>1 DEF GateIInv, GateInv, TypeOK
      <4> QED
        BY <3>2, <4>1, <4>2 DEF StillAdmitted
    <3>7. GateHolds'
      BY <3>2, <3>3, <3>4 DEF GateIInv, GateHolds, Active
    <3> QED
      BY <3>5, <3>6, <3>7 DEF GateIInv, GateInv
  <2> QED
    BY <2>1, <2>2
<1>15. ASSUME NEW a \in Activations, ActPublish(a) \/ ActCrash(a)
       PROVE  GateIInv'
  <2>1. /\ \A b \in Activations : b # a => activation'[b] = activation[b]
        /\ activation'[a].pc = "done"
    BY <1>15, ConstantTypes DEF ActPublish, ActCrash, TypeOK
  <2>2. \A b \in Activations : StillAdmitted(b) => StillAdmitted(b)'
    BY <1>15, <2>1 DEF ActPublish, ActCrash, StillAdmitted
  <2> QED
    BY <1>15, <2>2, GateFrame DEF ActPublish, ActCrash, Evaluating
<1>16. CASE UNCHANGED vars
  BY <1>16, GateFrame DEF vars, Evaluating, StillAdmitted
<1> QED
  BY <1>1, <1>2, <1>3, <1>4, <1>5, <1>6, <1>7, <1>8, <1>9, <1>10, <1>11, <1>12, <1>13,
     <1>14, <1>15, <1>16 DEF Next, WorkerStep, ActivationStep

\* For any number of versions and activations: while the inference worker does not die, a
\* version in production has completed its evaluation and passed the floor or was overridden
\* on record (activate_model_version, RN-10).
THEOREM GateHoldsAlways == Spec => []GateHolds
<1>1. GateIInv => GateHolds
  BY DEF GateIInv
<1> QED
  BY <1>1, TypeCorrect, InitGateIInv, StepGateIInv, PTL DEF Spec
=============================================================================
