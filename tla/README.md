# TLA+ models of CubeStack

CubeStack is a Kubernetes platform for AI work. A Go operator (`operator/`)
turns two kinds of custom resource into running workloads: `DevEnvironment`
(a notebook or SSH workstation with a workspace volume, reachable through a
shared Gateway) and `InferenceService` (a served model made of roles). A
Next.js console (`web/`) is the users' client. This directory models the parts
whose correctness depends on the order of events: what the controllers decide
from stale copies, what they write in several steps, and what others do in
between.

Everything here is written from the source; a comment in the code or a document
is quoted only where a property states what it promises.

## 1. Inventory

| Component | State | Operations | Interacts with | Hard behaviour | Correct when |
|---|---|---|---|---|---|
| DevEnvironment controller, port pool (`devenvironment_controller.go`) | one ListenerSet and some routes per environment, `status.endpoints` | allocate, migrate, prune, apply, publish, withdraw, delete | API server, informers, Gateway controller, garbage collector | read of the pool and write of the port are separate calls; decisions from cached copies; swallowed errors | no port is held twice, a published address connects, nobody waits while a port is free |
| DevEnvironment controller, lifecycle (`idle.go`, `Reconcile`) | mark and stamp annotations, replicas, phase, `lastActivityTime`, one timer | judge, mark, clear, scale, report | activity agent through the pod's annotation, StatefulSet controller, users | the mark is written by two parties; the old pod outlives the stop; one timer and no event | a start stands, a stop happens on time, the derived state agrees with its sources |
| Activity agent (`internal/activity`) | last written mark, previous sample | sample, write | kubelet, pod annotation | write floor, restarts, failed writes | the mark trails the truth by less than the floor |
| Workspace retention (`deleteStatefulSet`, `detachWorkspaceClaims`) | claim owner references, retention policy | converge, detach, delete | StatefulSet controller, garbage collector | several calls, each may fail, during a deletion | a workspace asked to be retained survives |
| Secrets and agent RBAC (`reconcileSSHSecrets`, `reconcileJupyterTokenSecret`, `reconcileActivityAgentRBAC`) | generated keys and tokens | create, adopt, split the legacy Secret, roll | StatefulSet hash | two passes around a lagging cache | a key is generated once |
| Spec findings and pod spec (`specFindings`, `desiredPodSpec`) | none | pure functions | the spec gate | interacting defaults | no two ports of a Service collide |
| InferenceService controller (`inferenceservice_controller.go`, `apply.go`, `aggregate.go`, `resolve.go`, `topo.go`, ...) | Deployments, LeaderWorkerSets, Services, ConfigMap, model claim, conditions, adopted revision | resolve, render, provision, apply in dependency order, clean up, aggregate | ModelVersion, runtime profile, workload controllers, volume binder, Endpoints | updates role by role from lagging copies, gates that only an event reopens, references that change under way | it comes to rest, every role then runs what the spec renders, and the conditions say so |
| InferenceService routes (`route.go`) | shared routes by model name | join, leave, converge | Gateway | several services on one route | a route names exactly the ready services |
| ModelVersion, InferenceRuntimeProfile (`modelversion_controller.go`, `inferenceruntimeprofile_controller.go`, `usedby.go`) | `usedBy`, `InUse` | rebuild the reverse index | InferenceService watch | re-pointed services | `usedBy` settles to the referrers |
| Renderer (`internal/renderer`) | none | merge overrides | controller | precedence | the documented precedence |
| Console, conversation surfaces (`ChatPane.tsx`, `FloatingChat.tsx`, `agentHandoff.ts`, `AppShell.tsx`) | thread, session status, generations, a stream, a follow loop, busy flags | select, send, stop, follow, restore, clear, expand, close | one session of the agent runtime that other windows use too | every handler awaits; answers overtake each other; the stream dies or stalls without a word | no read takes the bubble a stream writes to, the composer comes back, a followed turn is shown to its end |
| Console, the turn and its cards (`agentThread.ts`, `AgentThread.tsx`, `HitlDock.tsx`) | blocks of a turn, cards with their state | fold an event, fold the history, place, settle, decide | event stream, history document, gateway's pending set | results out of order or unnamed; cards lost, doubled, decided elsewhere | a reload shows the turn that streamed; a held card has a control, a gone one has none |
| Console, create wizards and their routes (`dev-environments/page.tsx`, `inference-services/page.tsx`, `api/devenvironments/route.ts`, `api/inferenceservices/route.ts`) | a draft, a step; the object | edit, step, submit; parse, refuse, build | cluster | fields rewrite each other; texts that mean different things to the two sides | what was confirmed is what is written, and only the cluster refuses |
| Console, resource pages and their routes (the same files) | list, selection, credentials of a row, scale card, dialogs, requests | poll, select, act, ask, scale, delete, create | API server, operator, other users | polls, refreshes and actions in flight at once | the list converges and never goes back; a credential is the open row's |
| Console, assistant catalogue (`agent/llms`, `agent/config`, `agentcrd.ts`, `llm.ts`, `ConfigPane.tsx`) | template's providers, Secrets, instances, the page's form and picker | add, edit, remove, save, load, fetch | API server, AI gateways | several calls per request, positions read earlier, undo that may fail | a selection resolves, an entry's key exists, an edit touches its own entry |
| Console, tasks (`TasksPane.tsx`, `taskcrd.ts`, `cron.ts`, `api/cubepilot/tasks`) | tasks, reports, a poll, the create dialog | create, run, pause, delete, preview | Task, TaskRun and TaskTemplate objects, scheduler | answers without a generation, lost answers that are asked again, templates edited under a form | a repeated toggle does not undo the first; what is created is what was confirmed |
| Console, gateway client and proxies (`gateway.ts`, `pilotapi.ts`, `pilotpath.ts`) | discovery caches | forward | agent gateway | stale discovery | |
| Console, policies (`allowlist.ts`, `instructions.ts`) | rules | match | | text matching | |
| Console, sessions (`web/lib/auth`) | signed cookie | issue, verify, expire | browser | expiry at the boundary | an expired session is refused |
| Manager, API types, charts, images | | wiring | | | |

`PROJECT.json` lists the same components with their files, what is modelled of
each, and every hazard at its line.

## 2. Modules

| Module | Models | Checked by |
|---|---|---|
| `PortLedger` | what the port pool promises: who holds which port | refined by `PortPool` |
| `PortPool` | port pool, routes, endpoints, spec gate and deletion of many environments | `port_pair`, `port_stale`, `port_upgrade`, proofs |
| `PortPoolProofs` | theorems about `PortPool` | TLAPS |
| `IdleStop` | lifecycle, idle stop and activity agent of one environment | `idle_stop`, `idle_life`, proofs |
| `IdleStopProofs` | theorems about `IdleStop` | TLAPS |
| `TopoOrder`, `Rollout` | the order of roles; the reconciliation of one unpublished InferenceService | `rollout`, proofs |
| `RolloutProofs` | theorems about `TopoOrder` and `Rollout` | TLAPS |
| `ChatSurface` | what the two surfaces of the conversation share | `chat`, `chat_live`, proofs |
| `ChatPane`, `FloatingChat` | the chat tab, the floating panel, over `ChatSurface` | the same |
| `ChatShell` | mounts one of the two, hands over, composes them with the session | the same |
| `ChatShellProofs` | theorems about `ChatShell` | TLAPS |
| `AgentFold` | one turn, folded from events and from history | `thread`, proofs |
| `HitlCards` | approvals and questions of parked turns | `thread`, proofs |
| `ThreadProofs` | theorems about both, as `Thread` runs them | TLAPS |
| `Thread` | both of them in one run | `thread` |
| `FormParts`, `DevEnvForm`, `ServiceForm` | the two create wizards and the routes that answer them | `forms`, proofs |
| `AgentCatalog`, `ConfigPane` | provider and configuration routes; the page over them | `forms`, proofs |
| `CatalogOverlap` | two requests of the provider editor at once, over `AgentCatalog` | `catalog_overlap` |
| `Forms` | the three forms in one run | `forms` |
| `WizardProofs`, `CatalogProofs` | theorems about the two wizards and about the catalogue, as `Forms` runs them | TLAPS |
| `PageParts`, `DevEnvPage`, `ServicePage` | the two consoles over their routes and the cluster | `pages`, proofs |
| `Tasks` | the assistant's tasks tab over its routes | `pages`, proofs |
| `Pages` | the three of them in one run | `pages` |
| `PagesProofs` | theorems about the three, as `Pages` runs them | TLAPS |
| `MCPortPool`, `MCIdleStop`, `MCRollout` | values of the constants | |

`Thread`, `Forms` and `Pages` compose parts that share no state. A behaviour of
such a run is about one part while the others rest, which keeps the state space
a sum and not a product.

### PortPool

The variables fall into three groups. `env`, `ls`, `rt` are the objects on the
API server (DevEnvironment, ListenerSet, TCPRoute/UDPRoute), `gw` the Gateway.
`cEnv`, `cLs`, `cRt` are the informers' copies, `queue` the work queue. The rest
is the one worker: `pc` the step of the pass, `cur` its environment, `view` the
copy `Get` returned, `used`, `held`, `i`, `ports` the locals of `publishRoutes`,
`addr` whether the Gateway had an address when `reconcileGatewayRoutes` read it,
`lsok` the verdict on the ListenerSet it holds, `st` the status it derives.

Every API call that another party can see, or that can be overtaken, is a step:

| Step | Code |
|---|---|
| `ReconcileGone`, `AddFinalizer`, `StartPass` | `Reconcile` up to the spec gate |
| `CoreResources`, `CoreFails` | Secrets, RBAC, Service, NetworkPolicy, StatefulSet, read of the Gateway; `recordStepFailure` |
| `MigrateListenerNames` | `migrateListenerNames`, when the Gateway is missing |
| `ReadPool` | `usedPorts` and `heldPorts`, both through `APIReader` |
| `KeepPort`, `LowestPort`, `PoolExhausted` | `allocatePort`, one name at a time |
| `PruneL4Routes`, `ApplyListenerSet`, `ApplyRoutes` | the same functions; a write against a stale copy is refused by the server |
| `PublishCallFails` | any call of `publishRoutes` failing, with some of the leftover routes deleted if it was the prune; the error ends on `RouteReady` and is not returned |
| `ReportStatus`, `ReportStatusFails` | `setPhaseAndReady`, `withdrawStoppedEndpoints`, `updateStatusIfChanged` as a merge patch of what changed against `view` |
| `BlockSpec`, `RejectSpec` | the spec gate |
| `ReportTerminating`, `StripRoutes`, `DropFinalizer` | `cleanup` |
| `SyncEnv`, `SyncListenerSet`, `SyncRoutes` | an informer delivers and wakes the worker as `SetupWithManager` wires it: a DevEnvironment event wakes every environment |
| `ManagerRestart` | a crash at any step |
| `GatewayReports`, `GatewayMoves`, `GarbageCollect`, `UserCreates`, `UserEdits`, `UserDeletes` | the rest of the cluster (external) |

A port is *held* by an environment if a listener of its ListenerSet declares it
or, in what an earlier build left behind, a route attaches to the Gateway with
it (`Claimed`). `Legacy` environments start in such a state (`Upgraded`).

Abstracted: an informer jumps to the newest version, so a copy is stale exactly
when it differs from the server; the HTTPRoute, missing Gateway API kinds and
the re-creation of an environment under its old name are left out; `noaddr`
stands for a Gateway without address and for an unresolved node port; the
protocol of a name is fixed.

### IdleStop

`obj` is the DevEnvironment (`running`, `timeout`, the mark, the stamp of the
last stop, phase, `lastActivity`) with the informer's copy `cObj`; `sts` and
`pod`/`cPod` the workload; `agent` the memory of the recorder; `queued` and
`timer` the work queue and its delayed add; `pc`, `view`, `after`, `st` the
worker. `lastBusy`, `told` and `restarted` are history variables that only
properties and user guards read.

`StartPass` is `Get` and `clearSupersededAutoStop`; `ApplyStatefulSet`,
`JudgeIdle` (`environmentPod`, `setPhaseAndReady`, `reconcileIdleStop` with
`markAutoStopped`, `syncLastActivity`) and `ReportStatus` follow as steps of
their own, and `PassFails` ends any of them with an error. The pure functions of
`idle.go` are operators of the same shape (`IdleBaseline`, `Stop`,
`RequeueAfter`, `SyncLastActivity`). `AgentSamples`, `AgentWriteFails` and
`AgentRestarts` are `Recorder.tick` and `Run`.

Time is counted in sampling intervals of the agent; a pass takes less than one,
so the clock moves only between passes. `applyStatefulSet` compares with a cached
copy and may skip a write or meet a conflict (3236); a skip is made up for by the
event that brings the copy up to date, so `ApplyStatefulSet` writes the desired
StatefulSet at once, and a conflict is one of the failures of `PassFails`. The spec gate is in PortPool only.

### Rollout

`isvc` (spec and conditions), `profiles`, `wl` (workloads by role and kind),
`svc`, `asset` and `claim` are the objects on the API server, each with the
informer's copy (`cIsvc`, ...); `eps` the Endpoints; `pending` the work queue;
`pass` the locals of `Reconcile` and `applyWorkloads`: the object read, the
profile resolved, the status being derived, the roles still to apply (`todo`),
those waiting or unready, and what applying did so far.

| Step | Code |
|---|---|
| `StartPass` | `Get`, `resolve`, `setProfileEcho`, the render outcome, `setProfileDriftedCondition`; the two early ways out (unresolved, not rendered) |
| `ProvisionAssets`, `AssetsFail` | `provisionAssets`, `cleanupOrphanAssets` |
| `ProvisionModelPVC`, `ClaimFails` | `provisionModelPVC`; a cycle in `dependsOn` ends the pass here |
| `ApplyService`, `ServiceFails` | `applyService`, `applyResource`, `serviceNeedsUpdate`, per role |
| `HoldCreation`, `WriteWorkload`, `PassOverWorkload`, `WorkloadFails` | the switch of `applyWorkloads` (`Decision`), per role |
| `ObserveRole` | `roleReady` at the end of the loop body, after the write |
| `CleanUp`, `CleanUpFails` | `cleanupOrphanWorkloads`, then the conditions of a finished apply (`ReportedStatus`) |
| `WriteStatus`, `WriteStatusFails` | `updateStatusIfChanged`; an error of the pass goes back to the queue |
| `SyncService`, `SyncProfile`, `SyncWorkload`, `SyncOwned` | the watches of `SetupWithManager` and their mapping functions |
| `ManagerRestart` | a crash at any step |
| `PodStarts`, `PodStops`, `PodFails`, `ClaimBinds`, `EndpointsFollow`, `UserEdits`, `AdminReplacesProfile` | the rest of the cluster (external) |

A workload counts its ready pods in `old` (of an earlier template) and `new`;
the code sees only their sum, `status.readyReplicas`. A template is what the hash
annotation covers: the role's template, the asset content, and the model for a
role that mounts it. `Class` stands for the storage identity of a model's claim,
class and selector. The status keeps reasons only where something reads them.

Abstracted: a copy is stale exactly when it differs from the server; headless
Services, the ServiceMonitor, S3 credentials, deletion of the service and the
catalog are left out; a write is refused when the copy it starts from differs in
content from the object, so one that changed and changed back is taken for
unchanged; of `status.roles` only readiness is kept; the source of an
asset is part of the profile's content.

### The conversation: ChatSurface, ChatPane, FloatingChat, ChatShell

`srv` is the session on the agent runtime: its turn, whether it runs, the length
of the history document, whether the instance is up. `me` is the mounted surface:
React state and refs (`shown`, `msgs`, `bubble`, `greet`, `following`, `ownTurn`,
`sending`, `stoppingElsewhere`, `notice`, `seeded`), the stream `strm`, and `ops`,
the handlers that wait at an `await`. Every other window is "elsewhere".

A handler runs to its next `await` in one step. What waits is a record with the
place, whether the generations it captured (`genRef`, `followGenRef`, the history
sequence) still hold, and, once the server has answered, the answer; the answer
lands in a later step, so a slow answer can land after a quick one and after any
click. A transcript is a number, 2n for n whole turns.

Abstracted: `exists`, phase and `modelConfigured` of the instance are one flag; the
stream's last event comes after the runtime has ended the turn, though the gateway
can deliver it while `/turn` still reports it active; leaving the tab unmounts the
pane, which the page keeps mounted and hidden, so one surface acts at a time.

| Step | Code |
|---|---|
| `PaneSelectAgent`, `PaneSelectModel`, `PaneClearChat`, `ClearAgentSession`, `PaneLeave` | selecting and clearing in the chat tab, with `cancelInflight` |
| `OpenPanel`, `ClosePanel`, `ExpandToPane` | the floating panel, and the hand-over of its thread |
| `PaneMetaLands`, `PaneRestores`, `FloatMetaLands`, `RefreshSession` | the reads of a restore, each an `await` of its own |
| `SendMessage`, `StartTurn`, `PostAccepted`, `PostRefused` | `sendMessage`, with the stop of a foreign turn first where the user agrees |
| `StreamCarries`, `MessageDone`, `StreamCloses`, `StreamLost`, `LinkStalls`, `Silence` | the event stream, healthy and not, and the watchdog |
| `TickLands` (`FollowTick`, `OwnTurnTick`), `RefreshHistoryIfChanged` | the follow loop |
| `StopElsewhere`, `StopOwn`, `CheckLands`, `RetryTurnCheck`, `DismissTurnCheck` | stops and the question about a foreign turn |
| `TurnEnds`, `WriteHistory`, `ElsewhereStarts`, `InstanceReady`, `Answer` | the runtime and the other windows (external) |

### The turn: AgentFold, HitlCards

In `AgentFold` a turn is a sequence of text and tool blocks. Each event (`Delta`,
`Rewrite`, `Narration`, `Call`, `Result`, `Hold`, `Release`, `Done`) is folded by
`ApplyAgentEvent` onto the bubble and written to the history document, which
`HistoryToMsgs` folds again. A text is the sequence of its chunks, an output the
sequence of its results; `calls` and `results` are what really happened. A text is
rewritten only before a tool call (`ReplaceText` appends after one), a card is
raised for the newest call, one at a time, and a restored card's fallback place
(`fallbackSlot`) is left out.

In `HitlCards` `held` is the gateway's record of each card, `link` the stream
that carries card events, `thread` the copies on screen, `reads` the reads of the
pending set under way (with what was open when they left), `clicks` the user's
answers under way. `Raise`, `ElsewhereDecides`, `TurnOver` are the gateway's;
`Deliver`, `LoseStream`, `Tick`, `RestorePendingHitl`, `Click`, `ClickLands` the
surface's. A bubble has the set of the states its copies of a card are in: how
many copies are in one state, and in which order, is left out.

### The forms: FormParts, DevEnvForm, ServiceForm, AgentCatalog, ConfigPane

A wizard is a draft and a step. The edits are the setters of the page, with the
fields each rewrites; a step is left when its gate holds (refusals of values no
wizard can send, a list of the wrong type or with a comma, are left out); `Create` and
`CreateService` build the body, and the route's checks in their order either name
the first refusal or write the object. Texts are the few spellings the two sides
tell apart (empty, "0", "080", a path that is not absolute). `SummaryRows` is what
the confirm step shows and `Says` what the object means once the CRD's defaults
are filled in.

`AgentCatalog` runs one request of the provider editor and one save of a
configuration side by side with other users' writes. Each call to the API server
is a step (`LlmLooks`, `LlmGuards`, `LlmPatches`, `LlmCredential`, `LlmUndo`;
`SaveLooks`, `SaveResolves`, `SavePatches`, `SaveInstance`) and may be refused or
lose its answer. `CatalogOverlap` lets two requests of the editor take turns call by
call, each with what it has read. `ConfigPane` adds the page: loads that overlap, the model picker,
the provider form and the list of ids it fetches.

### The consoles: DevEnvPage, ServicePage

`envs` (`svcs`) is the cluster with a version that counts its changes; `page`
(`svcPage`) the React state with its requests. A request is a record from the
click to the moment its answer is acted on; the route's calls are steps of it
(`PatchReads`, `PatchWrites`; `PostChecks`, `PostCreates`, `PostWritesKeys`,
`PostUnwinds`; `PatchResolves`, `PatchOverrides`). The operator, idle stop and
other users act in between. `Doings` restricts one behaviour to a few kinds of
deed, so that several rare ones can meet within the bounds.

### Tasks

`crs`, `runs`, `marked` and `tpls` are the Task, TaskRun and TaskTemplate objects
and the run annotations the scheduler has not taken yet; `tab` is the React state
of `TasksPane` with its requests; `presses` remembers which states a task was asked
to have. A toggle, a run, a delete and a create are requests whose routes look first
and write then (`TaskResolved`, `TaskCreated`), each call a step that can fail or
whose answer can be lost; the two reads of the reports route are one step. The tab
always names the state it wants, so the route's flip of a request without a body is
left out, and an enum without default is shown as nothing where the browser shows
its first option (the route refuses it). No answer carries a generation, so it is applied when it
arrives. `TaskDoings` has six scenes.

## 3. Properties and runs

* `port_pair`: two environments, a range of two ports one of which the Gateway
  itself binds, three user operations, informers that deliver before the next
  pass. `PortsDisjoint`; `ImplementsLedger`, the refinement of `PortLedger`;
  `EveryoneServed` (no wake-up is lost: the environment that found the pool empty
  is served when the port is freed); `ComesToRest` under fairness, with every
  deletion completed.
* `port_stale`: one environment with two exposures, every informer lagging by
  any amount, one failed call or crash. `PublishedIsTrue`: at rest every published
  address connects (`EndpointsTruthful`) and no route is left of what is not
  published (`NoLeftoverRoutes`).
* `port_upgrade`: an environment published by an earlier build, one tcp and one
  udp name, a Gateway that goes away and comes back, a stop or an edit that adds
  ssh in front of what it exposes. `AddressKept`; `StablePorts`: a port that an
  endpoint has changes hands only in the write that adds a name served before it.
* `idle_stop`: both informers lag, one user operation, one failure of any kind.
  `NeverSleepsPastDeadline`, `DerivedFollows`, `StartStands`.
* `idle_life`: a user who works, stops and starts. `IdleStopNotEarly`, and under
  fairness `PowerTakesEffect`.
* `rollout`: the service is seen late by any amount, the spec or the profile changes
  once at any step, one fault (a failed call, a failed pod or a restart), three
  profile contents (a pair of roles; retemplated in another workload kind, failing to
  render for one scale; a role less), two models of different storage, two scales.
  `RestIsTruthful`: when nothing is queued and the copies are current,
  `WorkloadsApplied`, `Ready`, the adopted revision and the drift condition are true of
  the workloads, what waits does so for a dependency that is not ready, and no object
  of a former topology is left. `ClaimIsTheModels`, and under fairness `ComesToRest`
  and `Converges`. Workloads seen late and cycles in `dependsOn` are not in this
  instance; the theorems `RestTellsTheTruth`, `ClaimsSuit` and `TopoErrorIsOne` cover
  them.
* `chat`: both surfaces and the hand-over, two turns, one fault, two handlers
  waiting at once. `ControlsNeverStuck`, `ReadsKeepTheBubble`,
  `SeedOutlivesRestore`, `OpenPanelIsWatched`.
* `chat_live`: the panel from before its instance is up, one fault, under
  fairness. `FollowedToTheEnd`, `ComposerReleased`.
* `thread`: up to seven events of one turn with two calls; one approval and one
  question over two turns with a lost stream, a second window and one read under
  way. `TurnIsTheRuntimes` (outputs stay with their call, the status line with the
  calls that are out, a settled card beside the call it was raised for),
  `RestoredAsStreamed` (the fold of the history equals the fold of the stream),
  `RecordsAreTrue`, `HeldCardKept`, and under fairness `CardsFollowTheGateway`.
* `forms`: five edits within one or two sections of the environment wizard, three
  of the deployment wizard over three clusters (uneven, pooled, empty), and seven
  scenes of the configuration page with two requests and one mishap.
  `CreatedAsConfirmed`, `DeployedAsConfirmed`, `SelectedCanAnswer` (a selection
  resolves, and an entry with a key has it: `SelectionResolves`, `KeyedHaveKeys`),
  `PickerIsTrue`.
* `catalog_overlap`: two requests of the provider editor, call by call in any order,
  over three providers one of which somebody selects. `InUseStays` is violated: see
  the finding below.
* `pages`: two names, three changes of the cluster, two requests beside the lists,
  one mishap; six scenes of the tasks tab with two runs of a task and three edits of
  the dialog. The bounds are what five minutes allow: all of its properties but
  `ListsConverge` are also proved for every value of them. `CredentialIsTheRows`,
  `KeysAreOnTheirWay`, `ListNeverGoesBack`, `CreatedIsOpened` (no list older than the
  create takes up the wish to open it), `ScalingIsSound`, `RetriesAgree`,
  `TaskAsConfirmed`, and under fairness `ListsConverge`.

Several properties are conjunctions whose parts have names and comments of their
own (`TurnIsTheRuntimes`, `CreatedAsConfirmed`, `DeployedAsConfirmed`,
`PickerIsTrue`, `ScalingIsSound`, ...): they answer one question together. The
type invariants of `PortPool`, `IdleStop`, `Rollout` and `ChatShell` are not
listed in a run; `PortPool`'s, `IdleStop`'s and `ChatShell`'s are proved.

Where a bound keeps a passing run away from a known weakness it is a named
constant, and lifting it shows the weakness:

* `Patient = FALSE` lets a user clear a mark the status has not reported yet. A
  pass on a copy older than the mark then marks again at once and `StartStands`
  fails: the stamp that floors the clock is not in that copy.
* `MaxFaults = 1` in `port_upgrade` breaks
  `AddressKept`: a stop whose publish fails withdraws the endpoint list before
  the listeners are named.
* `MaxFaults = 2` in `port_pair` breaks `EveryoneServed`: a publish error is not
  returned, and a second failure with the same message changes no condition, so
  nothing wakes the environment again.
* A tcp exposure replaced, in one edit, by a udp one that takes over its port leaves
  its TCPRoute behind and breaks `NoLeftoverRoutes`: `pruneL4Routes` matches by port
  alone (line 4301).
* `MaxFaults = 2` with `MaxEvents = 4` in `chat` breaks `ReadsKeepTheBubble`: a send
  that could not learn whether a turn runs stops first, the follow loop starts its
  terminal read meanwhile, the stop fails and the send goes on without a new
  generation, so that read takes away the bubble the new stream writes to.
* `RestartTakesEffect` fails: the stop-then-start of an auto-stopped environment
  that `docs/design/devenv/lifecycle.md:88` offers does nothing if both patches
  reach the controller before a pass.
* `NotStoppedOnArrival` fails with a `StartDelay` longer than the timeout: the
  kubelet stamps `startTime` before images are pulled, and the idle clock starts
  there.
* `DependencyRolledFirst` fails: a role rolls out while the role it depends on
  still runs its former pods, because ready replicas count those too.
* `Prompt` without `"endpoints"` breaks `EndpointReported`: Endpoints are read and
  not watched, so `EndpointNotReady` can stand although the endpoint answers.
* `FailedMeansDied` fails even without faults: `Progressing` falls to Converged in
  the pass that starts a rollout, and the phase reads Failed while pods are
  replaced.
* `MaxRequests = 3` with the scenes in which requests overlap breaks
  `SelectionResolves`: a removal that has passed its guard is overtaken by a save that
  selects the provider and another that moves the template's default away from it. It
  is proved for requests that take turns.
* `MinWriteInterval` above the timeout makes `IdleStopNotEarly` say nothing: an
  environment in use is stopped. The API accepts such a timeout.

Bounds. Two environments and one port are the smallest contention; two names in
an environment the smallest case of siblings; a pool of two lets a port move.
Three operations are a create, a competing create and a release. One failure
can hit any step. In `IdleStop` the clock runs past two timeouts, so a stop, a
start and a second stop fit. In `Rollout` two roles are the smallest dependency,
one edit reaches every pair of contents, and a second replica makes a scale and a
render that fails for one scale only; a role has up to two workloads, one per
kind.

In the console's runs two turns are a turn and its successor, one fault can hit any
request or link, and two handlers under way are enough for one answer to overtake
another; a third multiplies the states without a new pair. Two calls give results
in both orders, and seven events are both calls, both results, text between them
and the end. Two rows are the smallest selection that can change while a request
is out, and three changes of the cluster give an older, a newer and a current list
that can be under way together. A wizard's sections are edited a few at a
time (`Focus`): sections that share no field and no check are not combined.

Deadlock is not checked: users have a bounded number of operations, after which
a settled system rightly stops.

Fairness. PortPool: `WF(Worker)`, the reconcile goroutine runs;
`WF(Informers)`, watches are delivered; `WF(Cluster)`, the Gateway controller
and the garbage collector act. IdleStop: the same for the pass and the two
informers, and for the StatefulSet controller and the kubelet. Rollout: the same
for the pass, the informers taken together, and the controllers of pods, claims
and Endpoints. Users, faults and
the clock are owed nothing. The conversation: armed timers fire, requests are
answered (by a failure, at worst), what is answered lands, a healthy link delivers,
the watchdog of a silent one fires and a turn ends; nobody has to click. Cards: the
same for the stream, the tick, the reads and the answers to clicks. The consoles:
the interval fires while the tab is visible, and lists are answered and applied; on
the tasks tab reports are read and shown while a run is followed, and runs end.
Browsers run timers and settle promises; a request that never settles is the one
thing these assumptions exclude, and the code has no answer to it but the watchdog
of the stream, which is modelled.

### Finding

* `catalog_overlap`, `InUseStays`. `DELETE` of a provider reads the template, asks
  which instances select the entry, and then removes `/spec/providers/${index}`
  (`llms/[name]/route.ts:190`) without testing that the entry still stands there. Two
  removals of "x" both find it at position 0 and nobody selecting it; the first takes
  it out, and the second takes out the provider that has moved to position 0, which
  somebody's assistant selects. The comment at 181 says what the guard is for: "Refuse
  while someone's agent still selects one of this provider's refs: deleting it would
  break their turns".

A port that a sibling takes is no finding. `publishRoutes` allocates in the order of
the names, ssh first, and does not set aside what later names hold (line 4227), so ssh
added in front takes the lowest port and the endpoint that had it moves. The comment at
4588 promises "reusing the port that endpoint already holds when it is still free", and
it no longer is. `StablePorts` states how far this goes: only then, and only once.

### Known weaknesses of the console

Found while modelling; a property that would exclude one says so by name, and the
others are outside what is stated.

* Conversation. `stopElsewhere` and a send that stops first end the chat tab's
  follow loop without restarting it (`ChatPane.tsx` 445, 1753; the panel restarts
  its own), so turns of other windows are not shown until the next selection. A
  tick that finds no run registered yet retires the turn just posted (1251). The
  greeting is written after two more awaits without a look at the generation (733,
  813), and can replace a thread. A clear that lands after a switch to a model
  restores the agent's thread into the model's view (1756). A send during a restore
  leaves the conversation unwatched (452). A panel closed before its refresh ends
  keeps a loop running. A turn that lies wholly between two ticks is not shown.
* Cards. A refresh whose document holds the prompt and no agent turn yet drops the
  open cards, since `carryOpenCards` has no bubble to carry them to
  (`agentThread.ts:459`, `ChatPane.tsx:1075`); the pending pass of the same tick brings
  them back (`HeldCardKept` excepts this step, `CardsFollowTheGateway` covers it). Of
  two writes held at once the first card is placed at the second call (217).
  `question_pending` adds a card without looking for it; a failed click
  reopens a card that was settled meanwhile; the cards of a followed turn that ends
  just as the user sends stay live controls.
* Environments page. Every tag is in the image catalogue twice, so a platform image
  under ssh is reported as a mismatch. A delete dialog can outlive its environment;
  a wizard closed while it creates lets the old answer close a new one. Rows that
  show a credential keep it over a re-creation between two polls. A list that always
  takes longer than the poll is never shown. The wizard lets through an account
  "root" with another uid, unbalanced quotes, and ports "80" and "080"; a typed uid
  of 0 makes the whole identity root's. The route reads the mark before it patches.
* Services page. A failed poll closes the open row, and what was typed in its scale
  card is gone (334). The list has no generation, and a created service is never
  selected: the ref is cleared before React runs the updater (191). Apply sends
  every knob and so undoes a concurrent change; the patch assumes `spec.overrides`
  exists. A pin chosen before the model or the fabric stays. A pool's average share
  may fit no single node. A knob without default is shown and not sent.
* Configuration page. `loadAll` has no generation and overwrites unsaved edits; a
  failed first load never starts the status poll; a policy that could not be saved
  stays selected; an edit from a stale page can delete a key.
* Catalogue routes. Patches address providers by the index read earlier without
  testing the version: of two overlapping removals the second hits the wrong entry
  (run `catalog_overlap`), and an `add /spec/providers` on an empty list wipes a concurrent first one. An
  answer that is lost although the call took effect is undone as if it had not. The
  shared template is patched before the ownership check that may refuse the save.
  The guard on removal ignores the template's default model.
* Tasks. Reports of the task selected before can land under the one selected now,
  and stay there if its runs are over; a failed poll empties the reports and ends the
  following; a run is started by an annotation the scheduler takes later, so the list
  read right after it may not show it, and then nobody polls. Only the newest report
  is followed. Create pressed twice creates two tasks, and two toggles under way can
  be answered in either order. The preview leaves parameters that are not set open,
  where the route renders them empty.

Every property has a mutant: a changed form of one definition, next to it in the
module and marked as such, under which TLC finds the property violated.

## 4. Proofs

A theorem here is about every value of the constants: any number of environments,
names, cards, templates, turns and requests, every bound, every lag. The runs show
the same properties on the instances of section 3, and the inductive invariants were
checked there before they were proved. The console's theorems are about the
specification of the composed runs (`Pages`, `Thread`, `Forms`), in which a step of
another part stutters.

### PortPoolProofs

* `TypeCorrect`: `Spec => []TypeOK`. `TypeOK` is not inductive, because a
  listener is well typed only if `allocatePort` was reached for its name.
  `GrantsComplete` says where the loop of `publishRoutes` stands at each step;
  `TypeInv` is the conjunction.
* `PortsNeverShared`: `Spec => []PortsDisjoint`. The strengthening
  `GrantsExclusive` says that while `allocatePort` runs, `used` covers what the
  others hold, and that ports granted but not yet declared are held by no one
  else. It is preserved because only the running pass adds a port to anyone:
  `NothingClaimed` holds of every other step, and `ReservationsStand` concludes
  for all of them at once. `ApplyListenerSet` is the one step that claims, and
  claims only what was granted. The single worker and the uncached reads of
  `usedPorts` are what the argument uses; the caches play no part in it, so it
  holds for informers that lag arbitrarily.
* `PoolImplementsLedger`: `Spec => ImplementsLedger`, the refinement of
  `PortLedger` under the mapping `holds[e] = Claimed(e)`. Every step of the
  controller, the informers, the Gateway, users, faults and crashes is one entry of
  the ledger or leaves it alone. `OneStepClaims` shows that only `ApplyListenerSet`
  (and the failed publish that got as far) adds a port to anyone; `OneAtATime` that
  no step changes two environments; `GainedIsFree` that what is gained was free at
  that step, which is `Exclusive`, the part of the invariant that says the ports
  granted so far are in `Pool` and outside `UsedPorts(cur)` as it is *now* and not
  as it was when `usedPorts` looked. `LedgerStep` puts them together.

The assumptions are `PoolAssumption` (a non-empty range starting at 1 or above,
checked by `SetupWithManager`), `NameAssumption` and `BoundAssumption`.

### IdleStopProofs

* `TypeCorrect`, and `Inductive`, which is `[]IInv`.
* `AtRestDerivedFollows` and `DeadlineKept`, the invariants `DerivedFollows` and
  `NeverSleepsPastDeadline`. Both speak of a controller at rest, so they need to know
  what a pass has established so far: `PassStands` says, for each step of the pass,
  that unless the environment is queued again the view is still the copy, the
  StatefulSet applied is the one desired, the phase to be written is the one derived,
  and the requeue the pass will return is due in time. An event of any informer
  queues, and so frees the pass of the promise; that is the argument that no wake-up
  is lost.
* `StartsStand`, the action property `StartStands`, `ASSUME Patient`: users start an
  environment again only once its status reports the stop. `PatientInv` says that a
  copy older than the last stop is one the pass cannot judge anew. Without `Patient`
  the property is false (section 3).
* `StopsNotEarly`, the action property `IdleStopNotEarly`, `ASSUME "pod" \in Prompt`:
  the pass reads the pod as it is. A stale pod is judged by the activity it had, and
  stopped early. `FloorHolds` ties what the agent saw to what it has written: the
  recorder's memory is the annotation (`AgentRemembers`), and it trails by less than
  the floor.

`IdleAssumption` asks for a write floor and a check period above zero; both are
positive constants of the code.

### RolloutProofs

`ClaimsSuit`, `[]ClaimIsTheModels`. `ClaimInv` adds that the informer's copy of the
claim has the class of the claim there is (a class never changes, and the claim is
never deleted while the service stands), and that a pass beyond `provisionModelPVC`
stands on a claim that suits the model it has read.

What `topoOrder` returns, for every list of roles with names of their own, whatever they
depend on and whichever is the endpoint:

* `TopoOrderSorts`: unless there is an error, every role is in the order once, after the
  roles it depends on. The loop invariant `Sorting` says that the queue and the order
  hold each role at most once between them, that what a role has unmet is what it depends
  on and is not ordered yet, that a queued role has nothing unmet, and that an ordered
  one comes after what it depends on.
* `EndpointGoesLast`: an endpoint role nothing depends on is the last. The loop sends it
  to the front of the queue each time it meets it with others behind; once there, it is
  met again only when it is alone.
* `TopoErrorIsOne`: an error means an undeclared name, or roles each of which depends on
  one of them. It also shows that the turns the model gives the loop (`Len(roles) + 1`)
  empty the queue, so nothing is cut off.

The loops are recursive functions and not `RECURSIVE` operators; `Counting` is the
induction along them.

`RestTellsTheTruth`, `[]RestIsTruthful`. The property speaks of states at rest only; the
invariant `RestInv` carries it there through every pass:

* `Honest`: as long as nothing has reached the queue since the pass began, it works on the
  copies the informers still hold. `Underway` and `Account` then say what it has done with
  the roles behind it: those whose copies call for a write have been written, and the
  informers have yet to show it (`Differ`); the waiting and the unready are those of the
  copies.
* `Resting`: once the pass is over, its status is either on its way back through the
  informer or is the one it has read, and then it is the verdict on the copies
  (`Verdict`, `Settled`).
* `ClusterShape` and `WorkShape` are the shapes these rest on. A pass meets every role
  once because the list it starts from is `Sorted` (`TopoOrderSorts`).

At rest the copies are the objects, so nothing that was written can still be unseen and
nothing was left to write. That a waiting role waits for one that is not ready needs the
order: the first waiting role of the order depends on roles that come before it and do
not wait (`FirstWaiter`). `RestInv` was checked on the
instance of `rollout`, and with workloads seen late and a cycle.

`RolloutAssumption` says that the value that stands for an absent object is none of the
objects, and that a profile has a role and roles have names of their own: the CRD asks
for an item (`inferenceruntimeprofile_types.go`, `MinItems=1`) and the admission policy
for unique names (`config/vap/inferenceruntimeprofile_policy.yaml`).

### PagesProofs

* `ListOnlyAdvances` (`ListNeverGoesBack`) and `TheCreatedOpens` (`CreatedIsOpened`)
  from `PageInv`: at most one list request is current (`OneLoad`, the generation of
  `load()`), a current answer is not older than what is on screen, and one that nothing
  has overtaken shows the cluster. `created` remembers the version at which the news of
  the create came back; the load that follows it is asked after that, and a list asked
  before is no longer current, so what takes up the wish is no older.
* `CredentialsAreTheRows` (`CredentialIsTheRows`) from `CardInv`: what a card waits for
  was asked for its own environment, because a card is keyed by it and takes its
  requests along when it goes. The place of a token or key is the connection card of a
  running environment, that of the variables the open row in every phase (`Place`).
* `KeysArrive` (`KeysAreOnTheirWay`) from `KeysInv`: a create that has still to write
  the Secret, or to take the object back, remembers the uid it made, and no other
  environment has that, so whatever is re-created under the name meanwhile is
  accounted for by its own create. (The unwinding is by name and can take away
  what others re-created; the property does not exclude that.)
* `ScaleCardIsSound` (`ScalingIsSound`) from `SvcInv`: one scale at a time, the card
  holds what was typed for the open row.
* `TogglesAgree` (`RetriesAgree`) and `TasksAsConfirmed` (`TaskAsConfirmed`) from
  `TasksInv`: a toggle under way asks for a state somebody asked for; the form has
  values for parameters of its template only, since the templates are read once,
  before one is chosen; what a create will write is what was confirmed.

`PageAssumption` says that the value for an absent object is no name and no object;
`TemplatesAssumption` that a template has a name and one form per revision.

### ThreadProofs

The fold: `TurnOnScreenIsTheRuntimes` (`[]TurnIsTheRuntimes`) from `FoldInductive`,
for any calls, narrations and number of events. `FoldInv` adds what the fold relies on
and does not check itself: a call is made once (`MadeOnce`), what was not called has no
result, a block is done exactly when its call has results (`DoneHasResults`), so the
first unfinished block is the oldest call that is out and an unnamed result finds it;
a raised card points behind a block that is its call's (`CardPoints`), and no later
event moves a block. `Owns` characterises the block `AttachToolResult` picks; `MinIs`
and `MaxIs` are what the searches in a sequence return. `FoldAssumption`: the id that
is not there is nobody's id.

`TurnIsRestored` (`[]RestoredAsStreamed`), for turns of any length: a reload at any
moment folds the history document into what the stream had folded. The two folds do
not build the same blocks (the history joins adjacent texts, and writes a growing text
once), so the invariant `Restored` compares the history with the turn joined:
`HistoryToMsgs(doc) = Joined(bubble.blocks)`, and `ShapeJoined` shows that joining does
not change the shape. That equation alone is not inductive, because an increment
rewrites an item of the document that results may already follow. `RestoredAs` therefore
says it for every text put in the place of the one the turn ends in (`SameTelling`:
a result finds its call whatever was said last), that document and turn end in the
same text under the same id (`SameEnd`), and that each text on screen has its item
(`Narrated`: a narration that is not being written has no block to replace). It
quantifies over all texts, so TLC checks the property and not this invariant.
`FoldIs` and `ChainIsFold` turn `FoldLeft` into a chain over the prefixes of a sequence,
and `Counting` is the induction along it.

The cards: `CardsRecordTruth` (`[]RecordsAreTrue`) and `HeldCardsAreKept` (`HeldCardKept`) from
`CardsInv`. A card may be settled by five parties, and each acts on what it learnt
earlier; the invariant says that what each has learnt is still safe to act on:

* an event under way names a record that is settled for good, as the event says
  (`EventsTrue`), and the end of a turn comes after everything that turn raised was
  closed (`EndsItsTurn`), so settling what is open in the bubble takes nothing that
  is held;
* a card that was open when a read left, and is held when its answer is shown, is in
  the answer (`ReadsTrue`): this is why the snapshot is taken before the question;
* what the user's answer came to is what the gateway has (`ClicksTrue`);
* the surface that holds the stream of its own send has no read under way
  (`OwnStream`), so a sweep cannot race the events of that turn.

`HeldMoves` is the one fact about the gateway: a record is pending once and its
outcome never changes. `CarryOpenCardsIs` shows that a transcript adopted under way
loses no open card, for any number of turns above zero. One without any turn loses
them all, and `HeldCardKept` says so: nothing is then on screen, and a pass over the
pending set is under way. `CardsAssumption`: finitely many cards,
an id is an approval's or a question's, and the bounds allow one turn and one read.

### ChatShellProofs

`TypeCorrect`, `ControlsAreReleased` (`[]ControlsNeverStuck`), `HandoverIsKept`
(`SeedOutlivesRestore`) and `PanelIsWatched` (`OpenPanelIsWatched`), for every number
of turns, faults and handlers that wait at once, from one inductive invariant `Inv`.
None of the four is inductive: each speaks of a flag on the surface, and the flag is
set and cleared by handlers that resume after an `await`. `Inv` says what every
waiting handler is entitled to do:

* `Places`: each kind of handler waits only where its code has an `await`, so an
  answer that lands finds one of a few continuations;
* `Held` and `Stopping`: `sending` has a send, a model chat or a stream of the current
  generation behind it, `stoppingElsewhere` has exactly one stop, and the two exclude
  each other. That exclusion is what makes the generation bump of a stop harmless: it
  disowns no send;
* `Chain`: the panel has at most one tick of the current follow generation. A
  step that replaces the loop disowns the old one first (`StopFollowing`);
* `Seeds` and `Behind`: a seeded thread has no follow loop yet, every read and every
  thread is at most the document of the turns there were, and an open stream carries
  a turn that is not in the seeded thread;
* `Room`: finitely many handlers wait, at most `MaxOps`, so a new one finds a free
  number.

`Keeps` and `LoopStep`, `SeedStep` carry the two action properties through the
operators a step is composed of; `NextInv` has one lemma per action. The assumptions
are `BoundsAssumption` (natural bounds, room for one handler) and `VisitAssumption`
(the turns before the visit are within `MaxTurns`, since they count).

### CatalogProofs

The routes write in several calls and undo what a refused one left behind, so nothing
the page shows is inductive. `Inv` has two halves. `Shapes` and `PaneOk` hold in every
scene: provider names are unique in the template (`WellFormed`), every request is at a
step its kind has, and the ids in the form's picker were asked for with what is in the
form. `PickersAreTrue` (`[]PickerIsTrue`) follows from them, by what the filters of
the page keep, position by position.

`CatalogInv` holds while the requests of a behaviour take turns (`Alone`: the scene
has not `"together"`): what is selected is listed (`Resolves`), a key is there unless
the request under way is about to write it (`KeysThere`), the position a request has
read is still that of its provider (`Found`), a half-done request can be undone to a
catalogue that resolves (`Half`), and a save has put the model in the template before
the instance selects it (`SaveSound`). `SelectionsAnswer` (`SelectedCanAnswer`) is
stated under `Alone`, since with overlapping requests it is false (section 3). `CatalogAssumption` and
`RequestAssumption` say that the names in use are distinct from each other and from
the value for "not set".

### WizardProofs

* `EnvironmentsAsConfirmed` (`[]CreatedAsConfirmed`), for any number of edits and any
  number of rows of volumes, variables and ports. `Good(draft)` is the invariant: the
  draft is typed and its fields agree (the memory is one offered with the cores, a card
  model one its vendor advertises, keys only with ssh), and each section's edit
  preserves it. What the gate
  of each step checked before Create is then compared with the route's refusals part by
  part: `FirstOf` facts reduce "the first fault" to "no check finds a fault", for rows
  to a fact about one row. `Says(CR(Body(d))) = SummaryRows(d)` is shown field by field.
* `ServicesAsConfirmed` (`[]DeployedAsConfirmed`), for any number of edits and every
  set of clusters of any size. `GoodDeploy` says that the values of a draft are knobs its
  profile declares (`Declares`) and that a knob with a list has one of it (`Listed`);
  `SentIs` is what the body then carries. The last part bounds a sum by another over a
  pool of any size: the sums are folds, and `SumsExist`, `SumCompare` and `ShareFits`
  are proved by induction on the size of the pool.

The library's induction theorems take an operator, which the installed provers cannot
instantiate. `Counting` (also in `ThreadProofs` and `RolloutProofs`) replaces them: a set of numbers that
has 0 and the successor of each of its members has every number. It follows from `WFMin`
and is cited with the set of numbers for which the claim holds. `AbsentAssumption` says
that the value for an absent field is none of the values; `ClustersAssumption` that a
cluster is a finite set of nodes with non-negative counts.

### Only model-checked

* Liveness (`ComesToRest`, `Converges`, `PowerTakesEffect`, `FollowedToTheEnd`,
  `ComposerReleased`, `CardsFollowTheGateway`, `ListsConverge`): fairness is out of the
  prover's reach.
* Rollout's type invariant as it stands: it bounds the pods of a workload by
  `MaxReplicas`, the largest of the replica counts of the instance. What the proofs need
  of it are the shapes of `RestInv`.
* `EveryoneServed`, `PublishedIsTrue` and `AddressKept`: they hold within the named
  bounds of their runs and fail beyond them (section 3), so there is no theorem for all
  constants to prove. `StablePorts` is checked without faults and not proved.
* `ReadsKeepTheBubble`: it holds with the one fault of its run and fails with two
  (section 3).

## 5. Plan

1. Theorems: what holds of `EveryoneServed` and `AddressKept` without the faults that
   break them.
2. `Workspace`: retention and deletion of the workspace claim; then the Secrets
   of a DevEnvironment.
3. `Catalog`: the shared routes of `route.go`, name claims, the rule cap and the
   finalizer, for several published services; `UsedBy` for the reverse indexes.
4. `Detector`: the judgement of one sample (thresholds, new and gone
   connections, reused process ids), refined by the boolean IdleStop uses.

## 6. Not modelled

* Operator: workspace retention, the shared routes, the reverse indexes, the
  detector, the renderer and the pod template (see the plan; the last two are pure
  functions over text and structure). Manager wiring is an assumption: one worker
  and leader election.
* Console: the description of a cron text and its next run, the gateway client's discovery caches, allowlist and confirmation
  policy (matching of command text), sessions (library cryptography over a
  stateless cookie), dictionaries, dashboards, cards that only present, the prompt
  editor and status card of the configuration page.
* Formatting, logging, events and metrics; parsing of `/proc`; key generation;
  charts, images and build scripts.
* Out of the prover's reach and therefore only model-checked: every property under
  fairness and `ENABLED`.
