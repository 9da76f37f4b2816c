--------------------------- MODULE IdleStopProofs ---------------------------
(***************************************************************************)
(* Type correctness and the safety properties of IdleStop, for every set   *)
(* of timeouts, every write floor, check period and bound, and for         *)
(* informers that lag as they like, except where a theorem says otherwise. *)
(***************************************************************************)
EXTENDS IdleStop, TLAPS

-----------------------------------------------------------------------------
(* The inductive invariant, in parts *)

\* The stop's stamp reaches the informer's copy late and the pass later still.
StampsInOrder ==
  /\ view.stamp <= cObj.stamp /\ cObj.stamp <= obj.stamp /\ obj.stamp <= now

\* A user who is told of a mark has been told by a pass that read it.
ToldHasSeen == told => view.stamp = obj.stamp /\ cObj.stamp = obj.stamp

\* A copy that lags behind the last stop is one the pass cannot judge anew:
\* the environment is still marked, or the copy says it is off.
Behind(o) == o.stamp = obj.stamp \/ (obj.mark /\ ~told) \/ ~(o.running /\ AgentEnabled(o))

\* A pod has a start time, and one that is not there has nothing.
PodTimes(p) ==
  /\ p.life # "none" => p.start # 0 /\ p.start <= now /\ p.act <= now /\ (p.act # 0 => p.start <= p.act)
  /\ p.life = "none" => p = NoPod

\* The agent's memory is the annotation of the pod it runs in.
AgentRemembers ==
  agent.mode # "off" => pod.life \in {"running", "failed"} /\ agent.written = pod.act /\ agent.lastWrite <= pod.act

\* What was seen is on the pod, less the write floor.
FloorHolds ==
  /\ lastBusy <= now
  /\ pod.life # "none" => lastBusy < ActivityBaseline(pod) + MinWriteInterval

Superseded(o) == o.mark /\ ~(o.running /\ AgentEnabled(o))

\* The pass works on the copy the informer still holds, unless it is queued again.
ViewIsCopy ==
  IF Superseded(cObj) THEN ~obj.mark /\ view = [cObj EXCEPT !.mark = FALSE] ELSE view = cObj

\* What is derived from an object and a pod, and by when they must be judged again.
Derived(o, p) == sts = DesiredStatefulSet(o) /\ (cObj.phase = DerivedPhase(o, p) \/ obj.phase = DerivedPhase(o, p))

Awaited(o, p) == o.running /\ AgentEnabled(o) /\ ~o.mark /\ p.life = "running" /\ ~p.term

Due(t, o, p) == t # 0 /\ t <= now + IdleCheckPeriod /\ t <= IdleBaseline(o, p) + o.timeout

\* Nothing has happened since the pass began, so what it has done so far stands.
PassStands ==
  ~queued =>
    /\ pc # "idle" => ViewIsCopy
    /\ pc \in {"judge", "status"} => sts = DesiredStatefulSet(view)
    /\ pc = "status" => /\ st.phase = DerivedPhase(view, cPod)
                        /\ Awaited(view, cPod) => after # 0 /\ Due(now + after, view, cPod)
    /\ pc = "idle" => IF Superseded(cObj) THEN ~obj.mark
                      ELSE Derived(cObj, cPod) /\ (Awaited(cObj, cPod) => Due(timer, cObj, cPod))

PodInv == PodTimes(pod) /\ PodTimes(cPod) /\ AgentRemembers /\ FloorHolds

IInv == TypeOK /\ StampsInOrder /\ PodInv /\ PassStands

\* What more is true when users act only on what the status tells them.
PatientInv == ToldHasSeen /\ Behind(cObj) /\ Behind(view)

-----------------------------------------------------------------------------
(* Type correctness *)

LEMMA TimeFacts ==
  /\ MaxTime \in Nat \ {0} /\ IdleCheckPeriod \in Nat \ {0} /\ MinWriteInterval \in Nat \ {0}
  /\ StartDelay \in Nat /\ Timeouts \subseteq Nat /\ 0 \in Time /\ 1 \in Time
BY IdleAssumption DEF Time

LEMMA NothingTyped ==
  NoPod \in Pod /\ Off \in AgentState /\ NoStatus \in [phase : PhaseName, lastActivity : Time]
BY TimeFacts DEF NoPod, Pod, Off, AgentState, NoStatus, PhaseName, Time

LEMMA InitTyped == Init => TypeOK
<1> SUFFICES ASSUME Init PROVE TypeOK
  OBVIOUS
<1>1. obj \in Object
  <2>1. PICK running \in BOOLEAN, timeout \in Timeouts :
             obj = [running |-> running, timeout |-> timeout, mark |-> FALSE, stamp |-> 0,
                    phase |-> "", lastActivity |-> 0]
    BY DEF Init
  <2>2. QED
    BY <2>1, TimeFacts DEF Object, PhaseName
<1>2. 1 \in Time \ {0} /\ 0 \in 0 .. MaxTime + IdleCheckPeriod /\ 0 \in 0 .. IdleCheckPeriod
  BY TimeFacts
<1>3. QED
  BY <1>1, <1>2, TimeFacts, NothingTyped, IdleAssumption DEF Init, TypeOK

\* What decideIdle asks to be called again after is at most one check period.
LEMMA RequeueBound ==
  ASSUME NEW running \in BOOLEAN, NEW timeout \in Nat, NEW baseline \in Nat, now \in Nat
  PROVE  /\ RequeueAfter(running, timeout, baseline) \in 0 .. IdleCheckPeriod
         /\ (running /\ timeout > 0 /\ baseline # 0 /\ ~Stop(running, timeout, baseline)) =>
               /\ RequeueAfter(running, timeout, baseline) # 0
               /\ now + RequeueAfter(running, timeout, baseline) <= baseline + timeout
BY TimeFacts DEF RequeueAfter, Stop

LEMMA BaselineTyped ==
  ASSUME NEW o \in Object, NEW p \in Pod
  PROVE  /\ ActivityBaseline(p) \in Time /\ IdleBaseline(o, p) \in Time
         /\ IdleBaseline(o, p) >= o.stamp /\ IdleBaseline(o, p) >= ActivityBaseline(p)
BY TimeFacts DEF ActivityBaseline, IdleBaseline, Object, Pod, Time

LEMMA SeededTyped ==
  ASSUME NEW p \in Pod
  PROVE  Seeded(p) \in AgentState
BY TimeFacts, NothingTyped DEF Seeded, AgentState, Pod, Time

LEMMA DerivedTyped ==
  ASSUME NEW o \in Object, NEW p \in Pod
  PROVE  /\ DerivedPhase(o, p) \in PhaseName
         /\ \A was \in Time : SyncLastActivity(was, p) \in Time
         /\ DesiredStatefulSet(o) \in [replicas : {0, 1}, agent : BOOLEAN]
<1>1. DerivedPhase(o, p) \in PhaseName
  BY DEF DerivedPhase, PhaseName
<1>2. \A was \in Time : SyncLastActivity(was, p) \in Time
  BY DEF SyncLastActivity, Pod
<1>3. DesiredStatefulSet(o) \in [replicas : {0, 1}, agent : BOOLEAN]
  BY DEF DesiredStatefulSet, AgentEnabled
<1>4. QED
  BY <1>1, <1>2, <1>3

LEMMA StepTyped == TypeOK /\ [Next]_vars => TypeOK'
<1> SUFFICES ASSUME TypeOK, [Next]_vars PROVE TypeOK'
  OBVIOUS
<1> USE TimeFacts
<1>1. CASE StartPass
  <2>1. obj \in Object /\ cObj \in Object
    BY DEF TypeOK
  <2>2. /\ obj' = obj \/ obj' = [obj EXCEPT !.mark = FALSE]
        /\ view' = cObj \/ view' = [cObj EXCEPT !.mark = FALSE]
    BY <1>1, Zenon DEF StartPass
  <2>3. obj' \in Object /\ view' \in Object
    BY <2>1, <2>2 DEF Object
  <2>4. QED
    BY <1>1, <2>3 DEF StartPass, TypeOK, cluster
<1>2. CASE ApplyStatefulSet
  BY <1>2, DerivedTyped DEF ApplyStatefulSet, TypeOK
<1>3. CASE JudgeIdle
  <2> DEFINE phase == DerivedPhase(view, cPod)
             judged == cPod.life # "none" /\ ~cPod.term /\ ~view.mark
             baseline == IdleBaseline(view, cPod)
             stop == judged /\ Stop(phase = "Running", view.timeout, baseline)
  <2>1. baseline \in Nat /\ view.timeout \in Nat /\ now \in Nat
    <3>1. baseline \in Time
      BY BaselineTyped DEF TypeOK
    <3>2. view.timeout \in Timeouts /\ now \in Time
      BY DEF TypeOK, Object
    <3>3. baseline \in Nat /\ now \in Nat
      BY <3>1, <3>2 DEF Time
    <3>4. view.timeout \in Nat
      BY <3>2
    <3>5. QED
      BY <3>3, <3>4
  <2>2. after' \in 0 .. IdleCheckPeriod
    <3>1. RequeueAfter(phase = "Running", view.timeout, baseline) \in 0 .. IdleCheckPeriod
      BY <2>1, RequeueBound
    <3>2. after' \in {RequeueAfter(phase = "Running", view.timeout, baseline), 0}
      BY <1>3 DEF JudgeIdle
    <3>3. QED
      BY <3>1, <3>2
  <2>3. st' \in [phase : PhaseName, lastActivity : Time]
    BY <1>3, DerivedTyped DEF JudgeIdle, TypeOK, Object
  <2>4. obj' \in Object /\ told' \in BOOLEAN /\ restarted' \in BOOLEAN
    BY <1>3 DEF JudgeIdle, TypeOK, Object
  <2>5. queued' \in BOOLEAN
    BY <1>3 DEF JudgeIdle, TypeOK
  <2>6. QED
    BY <1>3, <2>2, <2>3, <2>4, <2>5 DEF JudgeIdle, TypeOK, cluster
<1>4. CASE ReportStatus
  <2>1. obj' \in Object
    BY <1>4 DEF ReportStatus, TypeOK, Object
  <2>2. told' \in BOOLEAN
    BY <1>4 DEF ReportStatus, TypeOK
  <2>3. timer' \in 0 .. MaxTime + IdleCheckPeriod
    BY <1>4 DEF ReportStatus, TypeOK, Time
  <2>4. QED
    BY <1>4, <2>1, <2>2, <2>3, NothingTyped DEF ReportStatus, EndPass, TypeOK, cluster
<1>5. CASE PassFails
  <2>1. obj' \in Object
    BY <1>5 DEF PassFails, TypeOK, Object, PhaseName
  <2>2. QED
    BY <1>5, <2>1, NothingTyped DEF PassFails, EndPass, TypeOK, cluster
<1>6. CASE ManagerRestart
  BY <1>6, NothingTyped DEF ManagerRestart, TypeOK, cluster
<1>7. CASE SyncEnvironment \/ SyncPod \/ TimerFires
  <2>1. timer' \in 0 .. MaxTime + IdleCheckPeriod
    BY <1>7 DEF SyncEnvironment, SyncPod, TimerFires, TypeOK
  <2>2. view' \in Object
    BY <1>7 DEF SyncEnvironment, SyncPod, TimerFires, TypeOK, worker
  <2>3. QED
    BY <1>7, <2>1, <2>2 DEF SyncEnvironment, SyncPod, TimerFires, TypeOK, cluster, worker
<1>8. CASE Tick
  <2>1. now' \in Time \ {0}
    BY <1>8 DEF Tick, TypeOK, Time
  <2>2. agent' \in AgentState
    BY <1>8 DEF Tick, TypeOK, AgentState
  <2>3. QED
    BY <1>8, <2>1, <2>2 DEF Tick, TypeOK, worker
<1>9. CASE PodCreated
  <2>1. pod' \in Pod
    BY <1>9 DEF PodCreated, TypeOK, Pod, NoPod
  <2>2. QED
    BY <1>9, <2>1 DEF PodCreated, TypeOK, worker
<1>10. CASE PodStarts
  <2>1. pod' \in Pod
    BY <1>10 DEF PodStarts, TypeOK, Pod
  <2>2. agent' \in AgentState
    BY <1>10, SeededTyped DEF PodStarts, TypeOK
  <2>3. QED
    BY <1>10, <2>1, <2>2 DEF PodStarts, TypeOK, worker
<1>11. CASE PodFails \/ PodTerminates \/ PodGone
  <2>1. pod' \in Pod /\ agent' \in AgentState
    <3>1. pod \in Pod /\ agent \in AgentState
      BY DEF TypeOK
    <3>2. CASE PodFails \/ PodTerminates
      BY <3>1, <3>2 DEF PodFails, PodTerminates, Pod
    <3>3. CASE PodGone
      BY <3>3, NothingTyped DEF PodGone
    <3>4. QED
      BY <1>11, <3>2, <3>3
  <2>2. faults' \in Nat
    BY <1>11 DEF PodFails, PodTerminates, PodGone, TypeOK
  <2>3. QED
    BY <1>11, <2>1, <2>2 DEF PodFails, PodTerminates, PodGone, TypeOK, worker
<1>12. CASE AgentSamples
  <2>1. pod' \in Pod /\ agent' \in AgentState
    <3>1. CASE agent.mode = "on" /\ active /\ MayWrite
      <4>1. /\ pod' = [pod EXCEPT !.act = now]
            /\ agent' = [mode |-> "on", written |-> now, lastWrite |-> now, sampled |-> TRUE]
        BY <1>12, <3>1, Zenon DEF AgentSamples
      <4>2. QED
        BY <4>1 DEF TypeOK, Pod, AgentState
    <3>2. CASE ~(agent.mode = "on" /\ active /\ MayWrite)
      <4>1. pod \in Pod /\ agent \in AgentState
        BY DEF TypeOK
      <4>2. pod' = pod /\ agent' = [agent EXCEPT !.mode = "on", !.sampled = TRUE]
        BY <1>12, <3>2, Zenon DEF AgentSamples
      <4>3. QED
        BY <4>1, <4>2 DEF AgentState
    <3>3. QED
      BY <3>1, <3>2
  <2>2. QED
    BY <1>12, <2>1 DEF AgentSamples, TypeOK, worker
<1>13. CASE AgentWriteFails
  <2>1. agent' \in AgentState
    BY <1>13 DEF AgentWriteFails, TypeOK, AgentState
  <2>2. faults' \in Nat
    BY <1>13 DEF AgentWriteFails, TypeOK
  <2>3. QED
    BY <1>13, <2>1, <2>2 DEF AgentWriteFails, TypeOK, worker
<1>14. CASE AgentRestarts
  BY <1>14, SeededTyped DEF AgentRestarts, TypeOK, worker
<1>15. CASE UserWorks
  BY <1>15 DEF UserWorks, TypeOK, worker
<1>16. CASE UserSwitches \/ UserClearsMark \/ UserSetsTimeout
  <2>1. obj' \in Object /\ restarted' \in BOOLEAN
    <3>1. obj \in Object /\ restarted \in BOOLEAN
      BY DEF TypeOK
    <3>2. CASE UserSwitches
      BY <3>1, <3>2 DEF UserSwitches, Object
    <3>3. CASE UserClearsMark
      BY <3>1, <3>3 DEF UserClearsMark, Object
    <3>4. CASE UserSetsTimeout
      BY <3>1, <3>4 DEF UserSetsTimeout, Object
    <3>5. QED
      BY <1>16, <3>2, <3>3, <3>4
  <2>2. QED
    BY <1>16, <2>1 DEF UserSwitches, UserClearsMark, UserSetsTimeout, UserOp, TypeOK, cluster, worker
<1>17. CASE UNCHANGED vars
  BY <1>17 DEF vars, TypeOK
<1>18. QED
  BY <1>1, <1>2, <1>3, <1>4, <1>5, <1>6, <1>7, <1>8, <1>9, <1>10, <1>11, <1>12, <1>13, <1>14,
     <1>15, <1>16, <1>17 DEF Next, Pass, Kubelet, Faults, Users

-----------------------------------------------------------------------------
(* Stamps, and the users who wait to be told *)

\* The steps of the pod, its agent and the user at work in it.
PodSteps ==
  PodCreated \/ PodStarts \/ PodTerminates \/ PodGone \/ PodFails \/ AgentSamples
    \/ AgentWriteFails \/ AgentRestarts \/ UserWorks

\* The steps that leave the environment's object, its copies and its judgement alone.
Aside == ApplyStatefulSet \/ SyncPod \/ TimerFires \/ PodSteps

\* Every step is one of these.
LEMMA Steps ==
  ASSUME [Next]_vars
  PROVE  \/ StartPass \/ JudgeIdle \/ ReportStatus \/ PassFails \/ ManagerRestart \/ SyncEnvironment \/ Tick
         \/ UserSwitches \/ UserClearsMark \/ UserSetsTimeout \/ Aside \/ UNCHANGED vars
BY DEF Next, Pass, Kubelet, Faults, Users, Aside, PodSteps

LEMMA AsideFrame == Aside => UNCHANGED <<now, obj, cObj, view, told, restarted>>
<1>1. ApplyStatefulSet \/ SyncPod \/ TimerFires => UNCHANGED <<now, obj, cObj, view, told, restarted>>
  BY DEF ApplyStatefulSet, SyncPod, TimerFires, worker
<1>2. PodSteps => UNCHANGED <<now, obj, cObj, view, told, restarted>>
  BY DEF PodSteps, PodCreated, PodStarts, PodTerminates, PodGone, PodFails, AgentSamples,
         AgentWriteFails, AgentRestarts, UserWorks, worker
<1>3. QED
  BY <1>1, <1>2 DEF Aside

\* Only a stop writes the stamp.
LEMMA StampWritten ==
  ASSUME TypeOK, [Next]_vars
  PROVE  /\ obj'.stamp = obj.stamp \/ (JudgeIdle /\ obj'.stamp = now)
         /\ cObj' = cObj \/ cObj' = obj
         /\ view'.stamp = view.stamp \/ view'.stamp = cObj.stamp \/ (view' = obj /\ cObj' = obj)
         /\ now' \in {now, now + 1}
<1>1. CASE StartPass
  BY <1>1 DEF StartPass, TypeOK, Object
<1>2. CASE JudgeIdle
  BY <1>2 DEF JudgeIdle, TypeOK, Object
<1>3. CASE ReportStatus
  BY <1>3 DEF ReportStatus, EndPass, TypeOK, Object
<1>4. CASE PassFails
  BY <1>4 DEF PassFails, EndPass, TypeOK, Object
<1>5. CASE ManagerRestart
  BY <1>5 DEF ManagerRestart
<1>6. CASE SyncEnvironment
  BY <1>6 DEF SyncEnvironment
<1>7. CASE Tick
  BY <1>7 DEF Tick, worker
<1>8. CASE UserSwitches \/ UserClearsMark \/ UserSetsTimeout
  BY <1>8 DEF UserSwitches, UserClearsMark, UserSetsTimeout, UserOp, TypeOK, Object, worker
<1>9. CASE Aside \/ UNCHANGED vars
  BY <1>9, AsideFrame DEF vars
<1>10. QED
  BY Steps, <1>1, <1>2, <1>3, <1>4, <1>5, <1>6, <1>7, <1>8, <1>9

LEMMA StampsStep == TypeOK /\ StampsInOrder /\ [Next]_vars => StampsInOrder'
<1> SUFFICES ASSUME TypeOK, StampsInOrder, [Next]_vars PROVE StampsInOrder'
  OBVIOUS
<1>1. now \in Nat /\ obj.stamp \in Nat /\ cObj.stamp \in Nat /\ view.stamp \in Nat
  BY TimeFacts DEF TypeOK, Object, Time
<1>2. JudgeIdle => UNCHANGED <<now, cObj, view>>
  BY DEF JudgeIdle
<1>3. QED
  BY <1>1, <1>2, StampWritten DEF StampsInOrder
LEMMA PatientStep ==
  ASSUME Patient, TypeOK, StampsInOrder, PatientInv, [Next]_vars
  PROVE  PatientInv'
<1> USE DEF PatientInv, ToldHasSeen, Behind
<1>1. CASE StartPass
  <2>1. CASE Superseded(cObj)
    <3>1. /\ obj' = [obj EXCEPT !.mark = FALSE] /\ view' = [cObj EXCEPT !.mark = FALSE]
          /\ UNCHANGED <<cObj, told>> /\ ~(cObj.running /\ AgentEnabled(cObj))
      BY <1>1, <2>1 DEF StartPass, Superseded
    <3>2. ~(view'.running /\ AgentEnabled(view')) /\ view'.stamp = cObj.stamp /\ obj'.stamp = obj.stamp
      BY <3>1 DEF TypeOK, Object, AgentEnabled
    <3>3. QED
      BY <3>1, <3>2 DEF AgentEnabled
  <2>2. CASE ~Superseded(cObj)
    <3>1. view' = cObj /\ UNCHANGED <<obj, cObj, told>>
      BY <1>1, <2>2 DEF StartPass, Superseded
    <3>2. QED
      BY <3>1 DEF AgentEnabled
  <2>3. QED
    BY <2>1, <2>2
<1>2. CASE JudgeIdle
  <2>1. \/ UNCHANGED <<obj, told>>
        \/ obj' = [obj EXCEPT !.mark = TRUE, !.stamp = now] /\ told' = FALSE
    BY <1>2 DEF JudgeIdle
  <2>2. UNCHANGED <<cObj, view>>
    BY <1>2 DEF JudgeIdle
  <2>3. UNCHANGED <<obj, told>> \/ (obj'.mark /\ ~told')
    BY <2>1 DEF TypeOK, Object
  <2>4. QED
    BY <2>2, <2>3 DEF AgentEnabled
<1>3. CASE ReportStatus
  <2>1. /\ obj'.stamp = obj.stamp /\ obj'.mark = obj.mark /\ cObj' = cObj /\ view' = cObj
        /\ told' => told \/ obj.stamp = view.stamp
    BY <1>3 DEF ReportStatus, EndPass, TypeOK, Object
  <2>2. told' => cObj.stamp = obj.stamp
    <3>1. obj.stamp \in Nat /\ cObj.stamp \in Nat /\ view.stamp \in Nat
      BY TimeFacts DEF TypeOK, Object, Time
    <3>2. QED
      BY <2>1, <3>1 DEF StampsInOrder
  <2>3. QED
    BY <2>1, <2>2 DEF AgentEnabled
<1>4. CASE PassFails
  <2>1. obj'.stamp = obj.stamp /\ obj'.mark = obj.mark /\ view' = cObj /\ UNCHANGED <<cObj, told>>
    BY <1>4 DEF PassFails, EndPass, TypeOK, Object
  <2>2. QED
    BY <2>1 DEF AgentEnabled
<1>5. CASE ManagerRestart
  BY <1>5 DEF ManagerRestart, AgentEnabled
<1>6. CASE SyncEnvironment
  BY <1>6 DEF SyncEnvironment, AgentEnabled
<1>7. CASE Tick
  BY <1>7 DEF Tick, worker, AgentEnabled
<1>8. CASE UserSwitches \/ UserClearsMark \/ UserSetsTimeout
  <2>1. obj'.stamp = obj.stamp /\ UNCHANGED <<cObj, view, told>>
    BY <1>8 DEF UserSwitches, UserClearsMark, UserSetsTimeout, UserOp, TypeOK, Object, worker
  <2>2. obj'.mark = obj.mark \/ told
    BY <1>8 DEF UserSwitches, UserClearsMark, UserSetsTimeout, TypeOK, Object
  <2>3. QED
    BY <2>1, <2>2 DEF AgentEnabled
<1>9. CASE Aside \/ UNCHANGED vars
  BY <1>9, AsideFrame DEF vars, AgentEnabled
<1>10. QED
  BY Steps, <1>1, <1>2, <1>3, <1>4, <1>5, <1>6, <1>7, <1>8, <1>9

\* The only step that marks is a pass that has found the copy it read idle.
LEMMA OnlyJudgeMarks ==
  ASSUME TypeOK, [Next]_vars, ~obj.mark, obj'.mark
  PROVE  /\ JudgeIdle /\ ~view.mark /\ cPod.life # "none" /\ ~cPod.term /\ DerivedPhase(view, cPod) = "Running"
         /\ AgentEnabled(view) /\ IdleBaseline(view, cPod) + view.timeout <= now
<1>1. JudgeIdle
  <2>1. ~(StartPass \/ ReportStatus \/ PassFails)
    BY DEF StartPass, ReportStatus, PassFails, EndPass, TypeOK, Object
  <2>2. ~(ManagerRestart \/ SyncEnvironment \/ Tick \/ Aside \/ UNCHANGED vars)
    BY AsideFrame DEF ManagerRestart, SyncEnvironment, Tick, vars
  <2>3. ~(UserSwitches \/ UserClearsMark \/ UserSetsTimeout)
    BY DEF UserSwitches, UserClearsMark, UserSetsTimeout, TypeOK, Object
  <2>4. QED
    BY <2>1, <2>2, <2>3, Steps
<1>2. QED
  BY <1>1 DEF JudgeIdle, Stop, AgentEnabled

LEMMA StartStandsStep ==
  ASSUME TypeOK, PatientInv, [Next]_vars, ~obj.mark, obj'.mark
  PROVE  obj.stamp + view.timeout <= now
<1>1. /\ AgentEnabled(view) /\ IdleBaseline(view, cPod) + view.timeout <= now
      /\ DerivedPhase(view, cPod) = "Running"
  BY OnlyJudgeMarks
<1>2. view.running
  BY <1>1, Zenon DEF DerivedPhase
<1>3. view.stamp = obj.stamp
  BY <1>1, <1>2 DEF PatientInv, Behind
<1>4. view \in Object /\ cPod \in Pod
  BY DEF TypeOK
<1>5. IdleBaseline(view, cPod) \in Time /\ IdleBaseline(view, cPod) >= view.stamp
  BY <1>4, BaselineTyped
<1>6. view.stamp \in Nat /\ view.timeout \in Nat /\ now \in Nat
  <2>1. view.timeout \in Timeouts /\ view.stamp \in Time /\ now \in Time
    BY DEF TypeOK, Object
  <2>2. view.timeout \in Nat
    BY <2>1, TimeFacts
  <2>3. QED
    BY <2>1, <2>2, TimeFacts DEF Time
<1>7. QED
  BY <1>1, <1>3, <1>5, <1>6, TimeFacts DEF Time
-----------------------------------------------------------------------------
(* The pod and its agent *)

\* The steps that touch the pod, its agent or what was seen.
LEMMA PodFrame ==
  ASSUME [Next]_vars
  PROVE  \/ PodSteps \/ (Tick /\ UNCHANGED <<pod, cPod, lastBusy>>)
         \/ UNCHANGED <<now, pod, agent, active, lastBusy>> /\ cPod' \in {cPod, pod}
<1>1. Aside => PodSteps \/ (UNCHANGED <<now, pod, agent, active, lastBusy>> /\ cPod' \in {cPod, pod})
  BY DEF Aside, ApplyStatefulSet, SyncPod, TimerFires, cluster
<1>2. StartPass \/ JudgeIdle \/ ReportStatus \/ PassFails \/ ManagerRestart
        => UNCHANGED <<now, pod, agent, active, lastBusy>> /\ cPod' \in {cPod, pod}
  BY DEF StartPass, JudgeIdle, ReportStatus, PassFails, ManagerRestart, cluster
<1>3. SyncEnvironment \/ UserSwitches \/ UserClearsMark \/ UserSetsTimeout \/ UNCHANGED vars
        => UNCHANGED <<now, pod, agent, active, lastBusy>> /\ cPod' = cPod
  BY DEF SyncEnvironment, UserSwitches, UserClearsMark, UserSetsTimeout, UserOp, vars, cluster
<1>4. Tick => UNCHANGED <<pod, cPod, lastBusy>>
  BY DEF Tick
<1>5. QED
  BY <1>1, <1>2, <1>3, <1>4, Steps

LEMMA PodStepFrame == PodSteps => UNCHANGED <<now, cPod>>
BY DEF PodSteps, PodCreated, PodStarts, PodTerminates, PodGone, PodFails, AgentSamples,
       AgentWriteFails, AgentRestarts, UserWorks

LEMMA PodStep ==
  ASSUME TypeOK, PodInv, [Next]_vars
  PROVE  PodInv'
<1>1. now \in Nat \ {0} /\ pod.start \in Nat /\ pod.act \in Nat /\ lastBusy \in Nat /\ agent.lastWrite \in Nat
  BY TimeFacts DEF TypeOK, Pod, Time, AgentState
<1>2. MinWriteInterval \in Nat \ {0}
  BY TimeFacts
<1>3. CASE Tick
  <2>1. now' = now + 1 /\ UNCHANGED <<pod, cPod, lastBusy>>
    BY <1>3 DEF Tick
  <2>2. PodTimes(pod)' /\ PodTimes(cPod)'
    BY <1>1, <2>1 DEF PodInv, PodTimes, TypeOK, Pod, Time
  <2>3. AgentRemembers'
    BY <1>3 DEF Tick, PodInv, AgentRemembers, TypeOK, AgentState
  <2>4. FloorHolds'
    BY <1>1, <1>2, <2>1 DEF PodInv, FloorHolds, ActivityBaseline
  <2>5. QED
    BY <2>2, <2>3, <2>4 DEF PodInv
<1>4. CASE UNCHANGED <<now, pod, agent, active, lastBusy>> /\ cPod' \in {cPod, pod}
  BY <1>4 DEF PodInv, PodTimes, AgentRemembers, FloorHolds, ActivityBaseline
<1>5. CASE PodSteps
  <2>1. now' = now /\ cPod' = cPod /\ PodTimes(cPod)'
    BY <1>5, PodStepFrame DEF PodInv, PodTimes
  <2>2. CASE PodCreated
    <3>1. pod' = [NoPod EXCEPT !.life = "starting", !.start = now, !.agent = sts.agent] /\ UNCHANGED <<agent, lastBusy>>
      BY <2>2 DEF PodCreated
    <3>2. pod'.life = "starting" /\ pod'.start = now /\ pod'.act = 0
      BY <3>1 DEF NoPod
    <3>3. agent.mode = "off"
      BY <2>2 DEF PodCreated, PodInv, AgentRemembers
    <3>4. QED
      BY <1>1, <1>2, <2>1, <3>1, <3>2, <3>3 DEF PodInv, PodTimes, AgentRemembers, FloorHolds, ActivityBaseline
  <2>3. CASE PodStarts
    <3>1. /\ pod'.life = "running" /\ pod'.start = pod.start /\ pod'.act = pod.act /\ lastBusy' = lastBusy
          /\ agent' = IF pod.life = "starting" THEN Seeded(pod) ELSE agent
          /\ pod.life \in {"starting", "failed"}
      BY <2>3 DEF PodStarts, TypeOK, Pod
    <3>2. AgentRemembers'
      BY <1>1, <3>1 DEF PodInv, AgentRemembers, Seeded, Off
    <3>3. QED
      BY <1>1, <2>1, <3>1, <3>2 DEF PodInv, PodTimes, FloorHolds, ActivityBaseline
  <2>4. CASE PodTerminates \/ PodFails
    <3>1. /\ pod'.start = pod.start /\ pod'.act = pod.act /\ UNCHANGED <<agent, lastBusy>>
          /\ pod.life # "none" /\ pod'.life \in {pod.life, "failed"}
      BY <2>4 DEF PodTerminates, PodFails, TypeOK, Pod
    <3>2. QED
      BY <2>1, <3>1 DEF PodInv, PodTimes, AgentRemembers, FloorHolds, ActivityBaseline
  <2>5. CASE PodGone
    <3>1. pod' = NoPod /\ agent' = Off /\ lastBusy' = lastBusy
      BY <2>5 DEF PodGone
    <3>2. NoPod.life = "none" /\ Off.mode = "off"
      BY DEF NoPod, Off
    <3>3. QED
      BY <2>1, <3>1, <3>2 DEF PodInv, PodTimes, AgentRemembers, FloorHolds
  <2>6. CASE AgentSamples
    <3>1. CASE agent.mode = "on" /\ active /\ MayWrite
      <4>1. /\ pod' = [pod EXCEPT !.act = now] /\ lastBusy' = now
            /\ agent' = [mode |-> "on", written |-> now, lastWrite |-> now, sampled |-> TRUE]
        BY <2>6, <3>1, Zenon DEF AgentSamples
      <4>2. pod'.life = pod.life /\ pod'.start = pod.start /\ pod'.act = now /\ pod.life \in {"running", "failed"}
        BY <3>1, <4>1 DEF TypeOK, Pod, PodInv, AgentRemembers
      <4>3. QED
        BY <1>1, <1>2, <2>1, <4>1, <4>2 DEF PodInv, PodTimes, AgentRemembers, FloorHolds, ActivityBaseline
    <3>2. CASE agent.mode = "on" /\ active /\ ~MayWrite
      <4>1. /\ pod' = pod /\ lastBusy' = now
            /\ agent' = [agent EXCEPT !.mode = "on", !.sampled = TRUE]
        BY <2>6, <3>2, Zenon DEF AgentSamples
      <4>2. agent'.mode = "on" /\ agent'.written = agent.written /\ agent'.lastWrite = agent.lastWrite
        BY <4>1 DEF TypeOK, AgentState
      <4>3. now < pod.act + MinWriteInterval /\ pod.act # 0
        BY <1>1, <1>2, <3>2 DEF MayWrite, PodInv, AgentRemembers
      <4>4. QED
        BY <1>1, <2>1, <3>2, <4>1, <4>2, <4>3 DEF PodInv, PodTimes, AgentRemembers, FloorHolds, ActivityBaseline
    <3>3. CASE ~(agent.mode = "on" /\ active)
      <4>1. /\ pod' = pod /\ lastBusy' = lastBusy /\ agent.mode # "off"
            /\ agent' = [agent EXCEPT !.mode = "on", !.sampled = TRUE]
        BY <2>6, <3>3, Zenon DEF AgentSamples
      <4>2. agent'.mode = "on" /\ agent'.written = agent.written /\ agent'.lastWrite = agent.lastWrite
        BY <4>1 DEF TypeOK, AgentState
      <4>3. QED
        BY <2>1, <4>1, <4>2 DEF PodInv, PodTimes, AgentRemembers, FloorHolds, ActivityBaseline
    <3>4. QED
      BY <3>1, <3>2, <3>3
  <2>7. CASE AgentWriteFails \/ AgentRestarts \/ UserWorks
    <3>1. UNCHANGED <<pod, lastBusy>>
      BY <2>7 DEF AgentWriteFails, AgentRestarts, UserWorks
    <3>2. AgentRemembers'
      BY <1>1, <2>7, <3>1 DEF AgentWriteFails, AgentRestarts, UserWorks, PodInv, AgentRemembers, Seeded, Off, TypeOK, AgentState
    <3>3. QED
      BY <2>1, <3>1, <3>2 DEF PodInv, PodTimes, FloorHolds, ActivityBaseline
  <2>8. QED
    BY <1>5, <2>2, <2>3, <2>4, <2>5, <2>6, <2>7 DEF PodSteps
<1>6. QED
  BY PodFrame, <1>3, <1>4, <1>5
-----------------------------------------------------------------------------
(* What the last pass left *)

\* A later clock leaves a timer due.
LEMMA DueLater ==
  ASSUME TypeOK, now' = now + 1, timer' = timer, cObj' = cObj, cPod' = cPod, Due(timer, cObj, cPod)
  PROVE  Due(timer, cObj, cPod)'
<1>1. now \in Nat /\ timer \in Nat /\ IdleCheckPeriod \in Nat
  BY TimeFacts DEF TypeOK, Time
<1>2. IdleBaseline(cObj, cPod)' = IdleBaseline(cObj, cPod) /\ cObj'.timeout = cObj.timeout
  BY DEF IdleBaseline, ActivityBaseline
<1>3. QED
  BY <1>1, <1>2 DEF Due

\* A pass that finds the environment running and does not stop it asks to be
\* called again in time.
LEMMA JudgeAsks ==
  ASSUME TypeOK, PodInv, JudgeIdle, ~queued', Awaited(view, cPod)
  PROVE  after' # 0 /\ Due(now + after', view, cPod)
<1> DEFINE baseline == IdleBaseline(view, cPod)
<1>1. view \in Object /\ cPod \in Pod /\ now \in Time /\ view.timeout \in Timeouts
  BY DEF TypeOK, Object
<1>2. view.timeout \in Nat /\ now \in Nat
  <2>1. view.timeout \in Nat
    BY <1>1, TimeFacts
  <2>2. QED
    BY <1>1, <2>1, TimeFacts DEF Time
<1>3. baseline \in Nat /\ baseline # 0
  <2>1. cPod.start # 0 /\ cPod.start \in Nat /\ cPod.act \in Nat /\ view.stamp \in Nat
    BY <1>1, TimeFacts DEF PodInv, PodTimes, Awaited, Pod, Object, Time
  <2>2. QED
    BY <2>1 DEF IdleBaseline, ActivityBaseline
<1>4. DerivedPhase(view, cPod) = "Running" /\ cPod.life # "none" /\ ~cPod.term /\ ~view.mark /\ view.timeout > 0
  <2>1. view.running /\ ~view.mark /\ cPod.life = "running" /\ ~cPod.term /\ view.timeout > 0
    BY DEF Awaited, AgentEnabled
  <2>2. DerivedPhase(view, cPod) = "Running"
    BY <2>1, Zenon DEF DerivedPhase
  <2>3. QED
    BY <2>1, <2>2
<1>5. /\ after' = RequeueAfter(DerivedPhase(view, cPod) = "Running", view.timeout, baseline)
      /\ ~Stop(DerivedPhase(view, cPod) = "Running", view.timeout, baseline)
  BY <1>4, Zenon DEF JudgeIdle
<1>6. /\ after' = RequeueAfter(TRUE, view.timeout, baseline)
      /\ ~Stop(TRUE, view.timeout, baseline)
  BY <1>4, <1>5 DEF RequeueAfter, Stop
<1>7. after' \in 0 .. IdleCheckPeriod /\ after' # 0 /\ now + after' <= baseline + view.timeout
  BY <1>2, <1>3, <1>4, <1>6, RequeueBound
<1>8. now + after' # 0 /\ now + after' <= now + IdleCheckPeriod
  <2>1. ASSUME NEW a \in 0 .. IdleCheckPeriod, NEW n \in Nat, a # 0 PROVE n + a # 0 /\ n + a <= n + IdleCheckPeriod
    BY <2>1, TimeFacts
  <2>2. QED
    BY <1>2, <1>7, <2>1
<1>9. QED
  BY <1>7, <1>8 DEF Due

LEMMA PassStep ==
  ASSUME TypeOK, PodInv, PassStands, [Next]_vars
  PROVE  PassStands'
<1> USE DEF PassStands
<1>1. CASE StartPass
  <2>1. pc' = "statefulset" /\ cObj' = cObj
    BY <1>1 DEF StartPass
  <2>2. CASE Superseded(cObj)
    <3>1. obj' = [obj EXCEPT !.mark = FALSE] /\ view' = [cObj EXCEPT !.mark = FALSE]
      BY <1>1, <2>2 DEF StartPass, Superseded
    <3>2. ~obj'.mark
      BY <3>1 DEF TypeOK, Object
    <3>3. QED
      BY <2>1, <2>2, <3>1, <3>2 DEF ViewIsCopy, Superseded, AgentEnabled
  <2>3. CASE ~Superseded(cObj)
    <3>1. view' = cObj
      BY <1>1, <2>3 DEF StartPass, Superseded
    <3>2. QED
      BY <2>1, <2>3, <3>1 DEF ViewIsCopy, Superseded, AgentEnabled
  <2>4. QED
    BY <2>2, <2>3
<1>2. CASE ApplyStatefulSet
  <2>1. /\ pc = "statefulset" /\ pc' = "judge" /\ UNCHANGED <<queued, view, cObj, obj>>
        /\ sts' = DesiredStatefulSet(view)
    BY <1>2 DEF ApplyStatefulSet
  <2>2. QED
    BY <2>1 DEF ViewIsCopy, Superseded, AgentEnabled, DesiredStatefulSet
<1>3. CASE JudgeIdle
  <2> SUFFICES ASSUME ~queued' PROVE PassStands'
    OBVIOUS
  <2>1. /\ pc = "judge" /\ pc' = "status" /\ UNCHANGED <<view, cObj, cPod, sts, now>>
        /\ st'.phase = DerivedPhase(view, cPod)
    BY <1>3 DEF JudgeIdle, cluster
  <2>2. ~queued /\ UNCHANGED obj
    BY <1>3, Zenon DEF JudgeIdle
  <2>3. Awaited(view, cPod) => after' # 0 /\ Due(now + after', view, cPod)
    BY <1>3, JudgeAsks
  <2>4. Awaited(view, cPod)' = Awaited(view, cPod) /\ DerivedPhase(view, cPod)' = DerivedPhase(view, cPod)
        /\ Due(now + after, view, cPod)' = Due(now + after', view, cPod)
        /\ DesiredStatefulSet(view)' = DesiredStatefulSet(view) /\ ViewIsCopy' = ViewIsCopy
    BY <2>1, <2>2 DEF Awaited, DerivedPhase, Due, IdleBaseline, ActivityBaseline, AgentEnabled, DesiredStatefulSet,
                      ViewIsCopy, Superseded
  <2>5. QED
    BY <2>1, <2>2, <2>3, <2>4
<1>4. CASE ReportStatus
  <2> SUFFICES ASSUME ~queued' PROVE PassStands'
    OBVIOUS
  <2>1. /\ pc = "status" /\ pc' = "idle" /\ UNCHANGED <<cObj, cPod, sts, now, queued>>
        /\ obj'.mark = obj.mark /\ (obj'.phase = st.phase \/ (st.phase = view.phase))
        /\ timer' = IF after # 0 /\ (timer = 0 \/ now + after < timer) THEN now + after ELSE timer
    BY <1>4 DEF ReportStatus, EndPass, cluster, TypeOK, Object
  <2>2. CASE Superseded(cObj)
    BY <2>1, <2>2 DEF ViewIsCopy, Superseded, AgentEnabled
  <2>3. CASE ~Superseded(cObj)
    <3>1. view = cObj
      BY <2>1, <2>3 DEF ViewIsCopy
    <3>2. Derived(cObj, cPod)'
      <4>1. sts = DesiredStatefulSet(cObj) /\ (cObj.phase = DerivedPhase(cObj, cPod) \/ obj'.phase = DerivedPhase(cObj, cPod))
        BY <2>1, <3>1
      <4>2. DesiredStatefulSet(cObj)' = DesiredStatefulSet(cObj) /\ DerivedPhase(cObj, cPod)' = DerivedPhase(cObj, cPod)
        BY <2>1 DEF DesiredStatefulSet, DerivedPhase, AgentEnabled
      <4>3. QED
        BY <2>1, <4>1, <4>2 DEF Derived
    <3>3. ASSUME Awaited(cObj, cPod) PROVE Due(timer', cObj, cPod)
      <4>1. after # 0 /\ Due(now + after, cObj, cPod)
        BY <2>1, <3>1, <3>3
      <4>2. timer \in Nat /\ now \in Nat /\ after \in Nat
        BY TimeFacts DEF TypeOK, Time
      <4>3. cObj \in Object /\ cPod \in Pod /\ cObj.timeout \in Timeouts
        BY DEF TypeOK, Object
      <4>4. IdleBaseline(cObj, cPod) \in Nat
        BY <4>3, BaselineTyped, TimeFacts DEF Time
      <4>5. cObj.timeout \in Nat
        BY <4>3, TimeFacts
      <4>6. QED
        BY <2>1, <4>1, <4>2, <4>4, <4>5, TimeFacts DEF Due
    <3>4. Awaited(cObj, cPod)' = Awaited(cObj, cPod) /\ Due(timer, cObj, cPod)' = Due(timer', cObj, cPod)
          /\ Superseded(cObj)' = Superseded(cObj)
      BY <2>1 DEF Awaited, Due, IdleBaseline, ActivityBaseline, AgentEnabled, Superseded
    <3>5. QED
      BY <2>1, <2>3, <3>2, <3>3, <3>4
  <2>4. QED
    BY <2>2, <2>3
<1>5. CASE PassFails \/ ManagerRestart \/ SyncEnvironment \/ SyncPod \/ TimerFires
  BY <1>5 DEF PassFails, ManagerRestart, SyncEnvironment, SyncPod, TimerFires
<1>6. CASE Tick
  <2>1. pc = "idle" /\ pc' = "idle" /\ UNCHANGED <<queued, cObj, cPod, obj, sts, timer>> /\ now' = now + 1
    BY <1>6 DEF Tick, worker
  <2>2. Due(timer, cObj, cPod) => Due(timer, cObj, cPod)'
    BY <2>1, DueLater
  <2>3. /\ Superseded(cObj)' = Superseded(cObj) /\ Derived(cObj, cPod)' = Derived(cObj, cPod)
        /\ Awaited(cObj, cPod)' = Awaited(cObj, cPod)
    BY <2>1 DEF Superseded, Derived, Awaited, AgentEnabled, DesiredStatefulSet, DerivedPhase
  <2>4. QED
    BY <2>1, <2>2, <2>3
<1>7. CASE UserSwitches \/ UserClearsMark \/ UserSetsTimeout
  <2>1. /\ obj'.phase = obj.phase /\ (obj'.mark => obj.mark)
        /\ UNCHANGED <<now, queued, cObj, cPod, sts, timer, pc, view, after, st>>
    BY <1>7 DEF UserSwitches, UserClearsMark, UserSetsTimeout, UserOp, TypeOK, Object, cluster, worker
  <2>2. /\ Superseded(cObj)' = Superseded(cObj) /\ Awaited(cObj, cPod)' = Awaited(cObj, cPod)
        /\ Awaited(view, cPod)' = Awaited(view, cPod) /\ Due(timer, cObj, cPod)' = Due(timer, cObj, cPod)
        /\ Due(now + after, view, cPod)' = Due(now + after, view, cPod)
        /\ DerivedPhase(view, cPod)' = DerivedPhase(view, cPod)
        /\ DesiredStatefulSet(view)' = DesiredStatefulSet(view)
    BY <2>1 DEF Superseded, Awaited, AgentEnabled, DesiredStatefulSet, DerivedPhase, Due, IdleBaseline, ActivityBaseline
  <2>3. Derived(cObj, cPod)' = Derived(cObj, cPod) /\ (ViewIsCopy => ViewIsCopy')
    BY <2>1, <2>2 DEF Derived, ViewIsCopy, DesiredStatefulSet, DerivedPhase, AgentEnabled
  <2>4. QED
    BY <2>1, <2>2, <2>3
<1>8. CASE PodSteps \/ UNCHANGED vars
  <2>1. UNCHANGED <<now, obj, queued, cObj, cPod, sts, timer, pc, view, after, st>>
    BY <1>8 DEF PodSteps, PodCreated, PodStarts, PodTerminates, PodGone, PodFails, AgentSamples,
                AgentWriteFails, AgentRestarts, UserWorks, worker, vars
  <2>2. QED
    BY <2>1 DEF ViewIsCopy, Superseded, Awaited, AgentEnabled, DesiredStatefulSet, DerivedPhase, Derived, Due,
                IdleBaseline, ActivityBaseline
<1>9. QED
  BY Steps, <1>1, <1>2, <1>3, <1>4, <1>5, <1>6, <1>7, <1>8 DEF Aside
-----------------------------------------------------------------------------
(* The theorems *)

LEMMA InitInv == Init => IInv /\ PatientInv
<1> SUFFICES ASSUME Init PROVE IInv /\ PatientInv
  OBVIOUS
<1>1. TypeOK
  BY InitTyped
<1>2. PICK running \in BOOLEAN, timeout \in Timeouts :
           obj = [running |-> running, timeout |-> timeout, mark |-> FALSE, stamp |-> 0,
                  phase |-> "", lastActivity |-> 0]
  BY DEF Init
<1>3. /\ cObj = obj /\ view = obj /\ obj.stamp = 0 /\ now = 1 /\ pod = NoPod /\ cPod = NoPod /\ agent = Off
      /\ lastBusy = 0 /\ queued = TRUE
  BY <1>2 DEF Init
<1>4. NoPod.life = "none" /\ Off.mode = "off"
  BY DEF NoPod, Off
<1>5. PodInv
  BY <1>3, <1>4 DEF PodInv, PodTimes, AgentRemembers, FloorHolds
<1>6. StampsInOrder /\ PassStands /\ PatientInv
  BY <1>3 DEF StampsInOrder, PassStands, PatientInv, ToldHasSeen, Behind
<1>7. QED
  BY <1>1, <1>5, <1>6 DEF IInv

\* The state of the controller, the pod and the agent is always well typed.
THEOREM TypeCorrect == Spec => []TypeOK
<1>1. Init => TypeOK
  BY InitTyped
<1>2. TypeOK /\ [Next]_vars => TypeOK'
  BY StepTyped
<1>3. QED
  BY <1>1, <1>2, PTL DEF Spec

\* The inductive invariant holds, whatever the informers, the users and the
\* failures do.
THEOREM Inductive == Spec => []IInv
<1>1. Init => IInv
  BY InitInv
<1>2. IInv /\ [Next]_vars => IInv'
  BY StepTyped, StampsStep, PodStep, PassStep DEF IInv
<1>3. QED
  BY <1>1, <1>2, PTL DEF Spec

\* At rest the StatefulSet and the phase follow the spec and the mark, and no
\* mark is left that the user has superseded.
THEOREM AtRestDerivedFollows == Spec => []DerivedFollows
<1>1. IInv => DerivedFollows
  <2> SUFFICES ASSUME IInv, Settled PROVE DerivedFollows
    BY DEF DerivedFollows
  <2>1. pc = "idle" /\ ~queued /\ cObj = obj /\ cPod = pod
    BY DEF Settled
  <2>2. ~Superseded(obj) /\ Derived(obj, pod)
    BY <2>1 DEF IInv, PassStands, Superseded
  <2>3. sts = DesiredStatefulSet(obj) /\ obj.phase = DerivedPhase(obj, pod)
    BY <2>1, <2>2 DEF Derived
  <2>4. obj.mark => obj.running /\ obj.timeout > 0
    BY <2>2 DEF Superseded, AgentEnabled
  <2>5. QED
    BY <2>3, <2>4 DEF DerivedFollows
<1>2. QED
  BY <1>1, Inductive, PTL

\* The requeue of an environment that runs with a timeout is never lost and
\* never late.
THEOREM DeadlineKept == Spec => []NeverSleepsPastDeadline
<1>1. IInv => NeverSleepsPastDeadline
  <2> SUFFICES ASSUME IInv, Settled, obj.running, obj.timeout > 0, ~obj.mark, pod.life = "running", ~pod.term
               PROVE  timer # 0 /\ timer <= now + IdleCheckPeriod /\ timer <= IdleBaseline(obj, pod) + obj.timeout
    BY DEF NeverSleepsPastDeadline
  <2>1. pc = "idle" /\ ~queued /\ cObj = obj /\ cPod = pod
    BY DEF Settled
  <2>2. Awaited(obj, pod) /\ ~Superseded(obj)
    BY DEF Awaited, AgentEnabled, Superseded
  <2>3. Due(timer, obj, pod)
    BY <2>1, <2>2 DEF IInv, PassStands
  <2>4. QED
    BY <2>3 DEF Due
<1>2. QED
  BY <1>1, Inductive, PTL

\* Users who act on what the status tells them: no environment is stopped again
\* within its timeout of the stop before, however stale the controller's copies.
THEOREM StartsStand ==
  ASSUME Patient
  PROVE  Spec => StartStands
<1>1. Init => IInv /\ PatientInv
  BY InitInv
<1>2. IInv /\ PatientInv /\ [Next]_vars => (IInv /\ PatientInv)'
  BY StepTyped, StampsStep, PodStep, PassStep, PatientStep DEF IInv
<1>3. IInv /\ PatientInv /\ [Next]_vars
        => [(~obj.mark /\ obj'.mark) => (obj.stamp = 0 \/ obj.stamp + view.timeout <= now)]_vars
  BY StartStandsStep DEF IInv
<1>4. QED
  BY <1>1, <1>2, <1>3, PTL DEF Spec, StartStands

\* A pass that reads the pod as it is stops nothing the agent has seen at work
\* within the timeout, less the write floor.
THEOREM StopsNotEarly ==
  ASSUME "pod" \in Prompt
  PROVE  Spec => IdleStopNotEarly
<1>1. ASSUME IInv, [Next]_vars, ~obj.mark, obj'.mark
      PROVE  now - lastBusy > view.timeout - MinWriteInterval
  <2>1. /\ JudgeIdle /\ cPod.life # "none" /\ IdleBaseline(view, cPod) + view.timeout <= now
    BY <1>1, OnlyJudgeMarks DEF IInv
  <2>2. cPod = pod
    BY <2>1 DEF JudgeIdle
  <2>3. view \in Object /\ pod \in Pod /\ view.timeout \in Timeouts /\ now \in Time /\ lastBusy \in Time
    BY <1>1 DEF IInv, TypeOK, Object
  <2>4. view.timeout \in Nat
    BY <2>3, TimeFacts
  <2>5. now \in Nat /\ lastBusy \in Nat
    BY <2>3, TimeFacts DEF Time
  <2>6. ActivityBaseline(pod) \in Nat /\ IdleBaseline(view, pod) \in Nat /\ IdleBaseline(view, pod) >= ActivityBaseline(pod)
    BY <2>3, BaselineTyped, TimeFacts DEF Time
  <2>7. lastBusy < ActivityBaseline(pod) + MinWriteInterval
    BY <1>1, <2>1, <2>2 DEF IInv, PodInv, FloorHolds
  <2>8. QED
    BY <2>1, <2>2, <2>4, <2>5, <2>6, <2>7, TimeFacts
<1>2. IInv /\ [Next]_vars
        => [(~obj.mark /\ obj'.mark) => (lastBusy = 0 \/ now - lastBusy > view.timeout - MinWriteInterval)]_vars
  BY <1>1
<1>3. QED
  BY <1>2, Inductive, PTL DEF Spec, IdleStopNotEarly
=============================================================================
