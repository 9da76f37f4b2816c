------------------------------ MODULE IdleStop ------------------------------
(***************************************************************************)
(* The running, stopping and idle auto-stop of one DevEnvironment: the     *)
(* controller's judgement (operator/internal/controller/idle.go and the    *)
(* Reconcile pass that calls it), the StatefulSet and the pod it scales,   *)
(* and the activity agent in that pod (operator/internal/activity).        *)
(*                                                                         *)
(* The mark (annotation auto-stopped) is the client's to clear and the     *)
(* controller's to set; both act on an API server the controller sees      *)
(* through lagging informers.  Time is a counter of sampling intervals; a  *)
(* pass takes less than one.                                               *)
(***************************************************************************)
EXTENDS Integers

CONSTANTS
  Timeouts,          \* the values spec.lifecycle.idleTimeout takes; 0 is off
  MinWriteInterval,  \* the agent's write floor, in sampling intervals
  IdleCheckPeriod,   \* idleCheckPeriod, in sampling intervals
  Prompt,            \* bound: the informers that deliver before a pass reads them
  Patient,           \* bound: users clear only marks the status has told them of
  StartDelay,        \* bound: intervals a pod takes from its start time to running
  MaxTime,           \* bound: the clock
  MaxWork,           \* bound: how often the user works
  MaxOps,            \* bound: what users change in the spec or the mark
  MaxFaults          \* bound: failed calls, failing pods, restarts of either process

ASSUME IdleAssumption ==
  /\ Timeouts \subseteq Nat /\ Timeouts # {}
  /\ MinWriteInterval \in Nat \ {0} /\ IdleCheckPeriod \in Nat \ {0}
  /\ Prompt \subseteq {"environment", "pod"} /\ Patient \in BOOLEAN
  /\ StartDelay \in Nat /\ MaxWork \in Nat
  /\ MaxTime \in Nat \ {0} /\ MaxOps \in Nat /\ MaxFaults \in Nat

\* 0 is no time: the clock starts at 1.
Time == 0 .. MaxTime

PhaseName == {"", "Pending", "Running", "Failed", "Stopped", "IdleTimeout"}

\* The DevEnvironment: spec.running, spec.lifecycle.idleTimeout, the two
\* annotations, status.phase (IdleTimeout is Stopped with that reason) and
\* status.lastActivityTime.
Object == [running : BOOLEAN, timeout : Timeouts, mark : BOOLEAN, stamp : Time,
           phase : PhaseName, lastActivity : Time]

\* The pod: term is its deletion timestamp, start its status.startTime (set when
\* the kubelet accepts it, before images are pulled), act the last-activity
\* annotation, agent whether its template carries the sidecar, and up, which
\* nothing reads, when its containers came up.
Pod == [life : {"none", "starting", "running", "failed"}, term : BOOLEAN,
        start : Time, act : Time, agent : BOOLEAN, up : Time]

NoPod == [life |-> "none", term |-> FALSE, start |-> 0, act |-> 0, agent |-> FALSE, up |-> 0]

VARIABLES
  now,
  obj, cObj,         \* the DevEnvironment and the informer's copy
  sts,               \* the StatefulSet: replicas and whether the template has the agent
  pod, cPod,         \* the pod and the informer's copy
  agent,             \* the sidecar's memory
  active,            \* whether the user worked since the last sample
  lastBusy,          \* history: the last sample that saw it and lost nothing
  queued, timer,     \* the work queue, and its earliest delayed add (0: none)
  pc, view, after,   \* the worker: step, the copy it read, the requeue it asks for
  st,                \* the status it derives
  told,              \* history: a status written since the mark reports it
  restarted,         \* history: the user's last word is a stop followed by a start
  work, ops, faults

cluster == <<sts, pod, agent, active, lastBusy>>
worker == <<pc, view, after, st>>
vars == <<now, obj, cObj, sts, pod, cPod, agent, active, lastBusy, queued, timer,
          pc, view, after, st, told, restarted, work, ops, faults>>

Off == [mode |-> "off", written |-> 0, lastWrite |-> 0, sampled |-> TRUE]

AgentState == [mode : {"off", "seed", "on"}, written : Time, lastWrite : Time, sampled : BOOLEAN]

NoStatus == [phase |-> "", lastActivity |-> 0]

-----------------------------------------------------------------------------
(* The judgement: pure functions of idle.go *)

AgentEnabled(o) == o.timeout > 0

\* activityBaseline: the agent's mark, or the pod's start.
ActivityBaseline(p) == IF p.act # 0 THEN p.act ELSE p.start

\* Mutant: no floor at the last stop.
IdleBaselineUnfloored(o, p) == ActivityBaseline(p)

\* idleBaseline: floored at the last stop the controller made.
IdleBaseline(o, p) ==
  IF o.stamp > ActivityBaseline(p) THEN o.stamp ELSE ActivityBaseline(p)

\* decideIdle.
Stop(running, timeout, baseline) ==
  running /\ timeout > 0 /\ baseline # 0 /\ baseline + timeout <= now

RequeueAfter(running, timeout, baseline) ==
  IF running /\ timeout > 0 /\ baseline # 0 /\ baseline + timeout > now
    THEN IF baseline + timeout - now < IdleCheckPeriod
           THEN baseline + timeout - now ELSE IdleCheckPeriod
    ELSE 0

\* Mutant: the mark does not reach the replicas.
DesiredIgnoringMark(o) ==
  [replicas |-> IF o.running THEN 1 ELSE 0, agent |-> AgentEnabled(o)]

\* desiredStatefulSet.
DesiredStatefulSet(o) ==
  [replicas |-> IF o.running /\ ~o.mark THEN 1 ELSE 0, agent |-> AgentEnabled(o)]

\* setPhaseAndReady.
DerivedPhase(o, p) ==
  CASE ~o.running -> "Stopped"
    [] o.running /\ o.mark -> "IdleTimeout"
    [] o.running /\ ~o.mark /\ p.life \in {"none", "starting"} -> "Pending"
    [] o.running /\ ~o.mark /\ p.life = "failed" -> "Failed"
    [] OTHER -> "Running"

\* syncLastActivity: only a mark the agent wrote, and only forwards.
SyncLastActivity(was, p) == IF p.act > was THEN p.act ELSE was

-----------------------------------------------------------------------------
(* The Reconcile pass *)

EndPass ==
  /\ pc' = "idle" /\ view' = cObj /\ after' = 0 /\ st' = NoStatus

\* Mutant: a superseded mark is left standing.
StartPassKeepingMark ==
  /\ pc = "idle" /\ queued
  /\ "environment" \in Prompt => cObj = obj
  /\ queued' = FALSE
  /\ view' = cObj
  /\ pc' = "statefulset"
  /\ UNCHANGED <<now, obj, cObj, cPod, cluster, timer, after, st, told, restarted, work, ops,
                 faults>>

\* Get, then clearSupersededAutoStop: a mark the user has superseded is dropped
\* from the server and from the copy before anything is derived from it.
StartPass ==
  LET superseded == cObj.mark /\ ~(cObj.running /\ AgentEnabled(cObj))
  IN  /\ pc = "idle" /\ queued
      /\ "environment" \in Prompt => cObj = obj
      /\ queued' = FALSE
      /\ IF superseded
           THEN obj' = [obj EXCEPT !.mark = FALSE] /\ view' = [cObj EXCEPT !.mark = FALSE]
           ELSE UNCHANGED obj /\ view' = cObj
      /\ pc' = "statefulset"
      /\ UNCHANGED <<now, cObj, cPod, cluster, timer, after, st, told, restarted, work, ops, faults>>

\* applyStatefulSet, which writes only what differs from the informer's copy.  A
\* copy that lags can skip a write or have it refused; the copy's own arrival
\* queues the environment again, so the write is modelled as if it read the server.
ApplyStatefulSet ==
  /\ pc = "statefulset"
  /\ sts' = DesiredStatefulSet(view)
  /\ pc' = "judge"
  /\ UNCHANGED <<now, obj, cObj, pod, cPod, agent, active, lastBusy, queued, timer, view,
                 after, st, told, restarted, work, ops, faults>>

\* environmentPod, setPhaseAndReady and reconcileIdleStop: the mark is a patch
\* of its own, and the phase this pass reports is still the one it observed.
JudgeIdle ==
  LET phase == DerivedPhase(view, cPod)
      judged == cPod.life # "none" /\ ~cPod.term /\ ~view.mark
      baseline == IdleBaseline(view, cPod)
      stop == judged /\ Stop(phase = "Running", view.timeout, baseline)
  IN  /\ pc = "judge"
      /\ "pod" \in Prompt => cPod = pod
      /\ st' = [phase |-> phase, lastActivity |-> SyncLastActivity(view.lastActivity, cPod)]
      /\ after' = IF judged THEN RequeueAfter(phase = "Running", view.timeout, baseline) ELSE 0
      /\ queued' = (queued \/ stop)
      /\ IF stop
           THEN obj' = [obj EXCEPT !.mark = TRUE, !.stamp = now]
                /\ told' = FALSE /\ restarted' = FALSE
           ELSE UNCHANGED <<obj, told, restarted>>
      /\ pc' = "status"
      /\ UNCHANGED <<now, cObj, cPod, cluster, timer, view, work, ops, faults>>

\* Mutant: RequeueAfter is not returned.
ReportStatusWithoutRequeue ==
  /\ pc = "status"
  /\ obj' = [obj EXCEPT !.phase = IF st.phase # view.phase THEN st.phase ELSE @,
                        !.lastActivity = IF st.lastActivity # view.lastActivity
                                           THEN st.lastActivity ELSE @]
  /\ told' = (told \/ (st.phase = "IdleTimeout" /\ obj.stamp = view.stamp))
  /\ EndPass
  /\ UNCHANGED <<now, cObj, cPod, cluster, queued, timer, restarted, work, ops, faults>>

\* updateStatusIfChanged sends what differs from the copy that was read; a
\* requeue the pass asked for joins the delaying queue, which keeps the
\* earliest.
ReportStatus ==
  /\ pc = "status"
  /\ obj' = [obj EXCEPT !.phase = IF st.phase # view.phase THEN st.phase ELSE @,
                        !.lastActivity = IF st.lastActivity # view.lastActivity
                                           THEN st.lastActivity ELSE @]
  /\ told' = (told \/ (st.phase = "IdleTimeout" /\ obj.stamp = view.stamp))
  /\ timer' = IF after # 0 /\ (timer = 0 \/ now + after < timer) THEN now + after ELSE timer
  /\ EndPass
  /\ UNCHANGED <<now, cObj, cPod, cluster, queued, restarted, work, ops, faults>>

\* Any call of the pass fails: recordStepFailure returns the error, after
\* writing phase Failed unless the error is one the server wants retried.
PassFails ==
  /\ pc \in {"statefulset", "judge", "status"}
  /\ faults > 0 /\ faults' = faults - 1
  /\ \/ UNCHANGED obj
     \/ pc # "status" /\ obj' = [obj EXCEPT !.phase = IF view.phase # "Failed" THEN "Failed" ELSE @]
  /\ queued' = TRUE
  /\ EndPass
  /\ UNCHANGED <<now, cObj, cPod, cluster, timer, told, restarted, work, ops>>

ManagerRestart ==
  /\ faults > 0 /\ faults' = faults - 1
  /\ cObj' = obj /\ cPod' = pod
  /\ queued' = TRUE /\ timer' = 0
  /\ pc' = "idle" /\ view' = obj /\ after' = 0 /\ st' = NoStatus
  /\ UNCHANGED <<now, obj, cluster, told, restarted, work, ops>>

-----------------------------------------------------------------------------
(* Watches, timers and the clock *)

SyncEnvironment ==
  /\ cObj # obj
  /\ cObj' = obj
  /\ view' = IF pc = "idle" THEN obj ELSE view
  /\ queued' = TRUE
  /\ UNCHANGED <<now, obj, cPod, cluster, timer, pc, after, st, told, restarted, work, ops, faults>>

SyncPod ==
  /\ cPod # pod
  /\ cPod' = pod
  /\ queued' = TRUE
  /\ UNCHANGED <<now, obj, cObj, cluster, timer, worker, told, restarted, work, ops, faults>>

TimerFires ==
  /\ timer # 0 /\ timer <= now
  /\ timer' = 0
  /\ queued' = TRUE
  /\ UNCHANGED <<now, obj, cObj, cPod, cluster, worker, told, restarted, work, ops, faults>>

\* A sampling interval passes: a running agent has taken its sample.
Tick ==
  /\ now < MaxTime
  /\ pc = "idle"
  /\ agent.sampled
  /\ pod.life = "starting" => now < pod.start + StartDelay
  /\ now' = now + 1
  /\ agent' = [agent EXCEPT !.sampled = (@ /\ agent.mode = "off")]
  /\ UNCHANGED <<obj, cObj, sts, pod, cPod, active, lastBusy, queued, timer, worker, told,
                 restarted, work, ops, faults>>

-----------------------------------------------------------------------------
(* The StatefulSet controller and the kubelet *)

PodCreated ==
  /\ sts.replicas = 1 /\ pod.life = "none"
  /\ pod' = [NoPod EXCEPT !.life = "starting", !.start = now, !.agent = sts.agent]
  /\ UNCHANGED <<now, obj, cObj, sts, cPod, agent, active, lastBusy, queued, timer, worker,
                 told, restarted, work, ops, faults>>

\* Recorder.Run reads the annotation as it stands before its first sample.
Seeded(p) ==
  IF p.agent THEN [mode |-> "seed", written |-> p.act, lastWrite |-> 0, sampled |-> FALSE]
             ELSE Off

PodStarts ==
  /\ pod.life \in {"starting", "failed"} /\ ~pod.term
  /\ pod' = [pod EXCEPT !.life = "running", !.up = IF @ = 0 THEN now ELSE @]
  /\ agent' = IF pod.life = "starting" THEN Seeded(pod) ELSE agent
  /\ UNCHANGED <<now, obj, cObj, sts, cPod, active, lastBusy, queued, timer, worker,
                 told, restarted, work, ops, faults>>

PodFails ==
  /\ pod.life = "running"
  /\ faults > 0 /\ faults' = faults - 1
  /\ pod' = [pod EXCEPT !.life = "failed"]
  /\ UNCHANGED <<now, obj, cObj, sts, cPod, agent, active, lastBusy, queued, timer, worker,
                 told, restarted, work, ops>>

\* Scaled to zero, or rolled because the template changed.
PodTerminates ==
  /\ pod.life # "none" /\ ~pod.term
  /\ sts.replicas = 0 \/ sts.agent # pod.agent
  /\ pod' = [pod EXCEPT !.term = TRUE]
  /\ UNCHANGED <<now, obj, cObj, sts, cPod, agent, active, lastBusy, queued, timer, worker,
                 told, restarted, work, ops, faults>>

PodGone ==
  /\ pod.term
  /\ pod' = NoPod
  /\ agent' = Off /\ active' = FALSE
  /\ UNCHANGED <<now, obj, cObj, sts, cPod, lastBusy, queued, timer, worker, told,
                 restarted, work, ops, faults>>

-----------------------------------------------------------------------------
(* The activity agent *)

\* Mutant: the floor is off by one interval.
MayWriteLate ==
  /\ now > agent.written
  /\ agent.lastWrite = 0 \/ now - agent.lastWrite > MinWriteInterval

\* mayWrite.
MayWrite ==
  /\ now > agent.written
  /\ agent.lastWrite = 0 \/ now - agent.lastWrite >= MinWriteInterval

\* Recorder.tick: the first sample only seeds the detector; an active one that
\* may be written moves the annotation forward.
AgentSamples ==
  LET write == agent.mode = "on" /\ active /\ MayWrite
  IN  /\ agent.mode # "off" /\ ~agent.sampled
      /\ active' = FALSE
      /\ lastBusy' = IF agent.mode = "on" /\ active THEN now ELSE lastBusy
      /\ IF write
           THEN /\ pod' = [pod EXCEPT !.act = now]
                /\ agent' = [mode |-> "on", written |-> now, lastWrite |-> now, sampled |-> TRUE]
           ELSE /\ agent' = [agent EXCEPT !.mode = "on", !.sampled = TRUE]
                /\ UNCHANGED pod
      /\ UNCHANGED <<now, obj, cObj, sts, cPod, queued, timer, worker, told,
                     restarted, work, ops, faults>>

\* The sample or its write fails and is waited out: what it saw is lost.
AgentWriteFails ==
  /\ agent.mode = "on" /\ ~agent.sampled
  /\ faults > 0 /\ faults' = faults - 1
  /\ active' = FALSE
  /\ agent' = [agent EXCEPT !.sampled = TRUE]
  /\ UNCHANGED <<now, obj, cObj, sts, pod, cPod, lastBusy, queued, timer, worker, told,
                 restarted, work, ops>>

AgentRestarts ==
  /\ agent.mode = "on"
  /\ faults > 0 /\ faults' = faults - 1
  /\ agent' = Seeded(pod)
  /\ UNCHANGED <<now, obj, cObj, sts, pod, cPod, active, lastBusy, queued, timer, worker,
                 told, restarted, work, ops>>

-----------------------------------------------------------------------------
(* Users *)

UserWorks ==
  /\ pod.life = "running" /\ ~pod.term
  /\ ~active /\ active' = TRUE
  /\ work > 0 /\ work' = work - 1
  /\ UNCHANGED <<now, obj, cObj, sts, pod, cPod, agent, lastBusy, queued, timer, worker, told,
                 restarted, ops, faults>>

UserOp ==
  /\ ops > 0 /\ ops' = ops - 1
  /\ UNCHANGED <<now, cObj, cPod, cluster, queued, timer, worker, told, work, faults>>

\* spec.running is switched.
UserSwitches ==
  /\ obj' = [obj EXCEPT !.running = ~@]
  /\ restarted' = ~obj.running
  /\ UserOp

\* The start of an auto-stopped environment: the mark is cleared.
UserClearsMark ==
  /\ obj.mark
  /\ Patient => told
  /\ obj' = [obj EXCEPT !.mark = FALSE]
  /\ UNCHANGED restarted
  /\ UserOp

UserSetsTimeout ==
  /\ \E t \in Timeouts \ {obj.timeout} : obj' = [obj EXCEPT !.timeout = t]
  /\ UNCHANGED restarted
  /\ UserOp

-----------------------------------------------------------------------------
(* The specification *)

Init ==
  /\ now = 1
  /\ \E running \in BOOLEAN, timeout \in Timeouts :
       obj = [running |-> running, timeout |-> timeout, mark |-> FALSE, stamp |-> 0,
              phase |-> "", lastActivity |-> 0]
  /\ cObj = obj /\ view = obj
  /\ sts = [replicas |-> 0, agent |-> FALSE]
  /\ pod = NoPod /\ cPod = NoPod /\ agent = Off
  /\ active = FALSE /\ lastBusy = 0
  /\ queued = TRUE /\ timer = 0
  /\ pc = "idle" /\ after = 0 /\ st = NoStatus
  /\ told = FALSE /\ restarted = FALSE
  /\ work = MaxWork /\ ops = MaxOps /\ faults = MaxFaults

Pass == StartPass \/ ApplyStatefulSet \/ JudgeIdle \/ ReportStatus

Kubelet == PodCreated \/ PodStarts \/ PodTerminates \/ PodGone

Faults == PassFails \/ ManagerRestart \/ PodFails \/ AgentWriteFails \/ AgentRestarts

Users == UserWorks \/ UserSwitches \/ UserClearsMark \/ UserSetsTimeout

Next ==
  \/ Pass \/ SyncEnvironment \/ SyncPod \/ TimerFires \/ Tick
  \/ Kubelet \/ AgentSamples \/ Faults \/ Users

Spec == Init /\ [][Next]_vars

\* The worker runs, watches are delivered, and the cluster's own controllers
\* act; nothing is owed by users, faults or a clock that has reached its bound.
Fairness ==
  /\ WF_vars(Pass) /\ WF_vars(SyncEnvironment) /\ WF_vars(SyncPod)
  /\ WF_vars(PodCreated \/ PodTerminates) /\ WF_vars(PodStarts) /\ WF_vars(PodGone)

FairSpec == Spec /\ Fairness

-----------------------------------------------------------------------------
(* Properties *)

\* The state is well typed.
TypeOK ==
  /\ now \in Time \ {0}
  /\ obj \in Object /\ cObj \in Object /\ view \in Object
  /\ sts \in [replicas : {0, 1}, agent : BOOLEAN]
  /\ pod \in Pod /\ cPod \in Pod
  /\ agent \in AgentState
  /\ active \in BOOLEAN /\ lastBusy \in Time
  /\ queued \in BOOLEAN /\ timer \in 0 .. MaxTime + IdleCheckPeriod
  /\ pc \in {"idle", "statefulset", "judge", "status"}
  /\ after \in 0 .. IdleCheckPeriod
  /\ st \in [phase : PhaseName, lastActivity : Time]
  /\ told \in BOOLEAN /\ restarted \in BOOLEAN
  /\ work \in Nat /\ ops \in Nat /\ faults \in Nat

\* A start stands: markAutoStopped never marks an environment again before a
\* whole timeout has passed since the stop before it ("a start must not be
\* judged idle against the pod of the session before it"), however long the old
\* pod and its stale activity mark stay visible.
StartStands ==
  [][(~obj.mark /\ obj'.mark) => (obj.stamp = 0 \/ obj.stamp + view.timeout <= now)]_vars

\* An environment is only marked when every sample of the agent that did not fail
\* saw nothing done in it for the timeout, less the write floor by which the
\* annotation may trail what was seen (mayWrite), across restarts of either
\* process, failing pods and failed passes.
IdleStopNotEarly ==
  [][(~obj.mark /\ obj'.mark) => (lastBusy = 0 \/ now - lastBusy > view.timeout - MinWriteInterval)]_vars

\* No work is queued and no watch event is in flight.
Settled == pc = "idle" /\ ~queued /\ cObj = obj /\ cPod = pod

\* The one requeue the controller has is never forgotten: at rest, a running
\* environment with a timeout has a timer due no later than its idle deadline,
\* and no later than one check period.
NeverSleepsPastDeadline ==
  (Settled /\ obj.running /\ obj.timeout > 0 /\ ~obj.mark /\ pod.life = "running" /\ ~pod.term)
    => /\ timer # 0
       /\ timer <= now + IdleCheckPeriod
       /\ timer <= IdleBaseline(obj, pod) + obj.timeout

\* At rest the derived facts agree with what they are derived from: the
\* StatefulSet and the phase follow spec.running and the mark, and no mark
\* outlives the stop or the timeout it describes (clearSupersededAutoStop).
DerivedFollows ==
  Settled =>
    /\ sts = DesiredStatefulSet(obj)
    /\ obj.phase = DerivedPhase(obj, pod)
    /\ obj.mark => obj.running /\ obj.timeout > 0

\* Clearing the mark is a start, and a start brings the workload up: an
\* environment that stays running and unmarked gets its pod.
StartTakesEffect ==
  (obj.running /\ ~obj.mark) ~> (pod.life = "running" \/ ~(obj.running /\ ~obj.mark))

\* A stop, whoever makes it, releases the compute.
StopTakesEffect ==
  (~obj.running \/ obj.mark) ~> (pod.life = "none" \/ ~(~obj.running \/ obj.mark))

\* What spec.running and the mark ask for happens: the replicas of
\* desiredStatefulSet, the one place that reads both, bring the workload up after
\* a start and take it down after a stop, through stale reads and old pods.
PowerTakesEffect == StartTakesEffect /\ StopTakesEffect

-----------------------------------------------------------------------------
(* What the documentation says and the code does not do: no run checks these,  *)
(* and the README tells which steps break them.                                *)

\* The idle clock starts when the environment can be used: a pod that has just
\* come up has its whole timeout before it (activityBaseline: the fallback to
\* the pod's start "cannot stop a live environment early").
NotStoppedOnArrival ==
  [][(~obj.mark /\ obj'.mark) => (pod.up = 0 \/ pod.up + view.timeout <= now)]_vars

\* Stopping and starting an auto-stopped environment starts it ("the stop
\* clears the mark, which makes the start a real change").
RestartTakesEffect ==
  restarted ~> (pod.life = "running" \/ ~restarted)
=============================================================================
