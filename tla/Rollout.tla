------------------------------ MODULE Rollout ------------------------------
(***************************************************************************)
(* The reconciliation of one InferenceService that publishes no catalog    *)
(* entry: resolve the profile and the model, render, provision the assets  *)
(* and the model claim, apply the Services and workloads of every role in  *)
(* dependency order, clean up, and report (inferenceservice_controller.go, *)
(* resolve.go, assets.go, pvc.go, apply.go, endpoints.go, aggregate.go in  *)
(* operator/internal/controller).                                          *)
(*                                                                         *)
(* The pass reads lagging informers and writes an API server that refuses  *)
(* a write based on an old copy.  Next to it run the controllers that      *)
(* replace pods, bind claims and fill Endpoints, and the people who edit   *)
(* the service and its profile.  The cluster serves no ServiceMonitor, and *)
(* the models are not stored in S3.                                        *)
(***************************************************************************)
EXTENDS TopoOrder, FiniteSets

CONSTANTS
  Roles,      \* the role names profiles use
  Profiles,   \* the names of the InferenceRuntimeProfiles
  Contents,   \* what a profile may say (see Content)
  Models,     \* the ModelVersions
  Class,      \* the storage class of a model's claim, None for host paths
  Replicas,   \* the values of the override that sets replicas
  None,
  InitContents, \* what profiles may say when the service is created
  Prompt,     \* bound: the informers that deliver between passes, before the next
  MaxEdits,   \* bound: changes to the spec or to a profile
  MaxFaults   \* bound: failed calls, failing pods, restarts of the manager

Kinds == {"Deployment", "LeaderWorkerSet"}
Keys == Roles \X Kinds
Classes == {Class[m] : m \in Models} \ {None}
RoleSet(c) == {c.roles[i] : i \in DOMAIN c.roles}

\* What a pod template is rendered from: the role's template, the asset contents
\* and, for a role that mounts it, the model.  Two templates are equal exactly
\* when their template-hash annotations are.
Template(c, r, spec) ==
  [text |-> c.tmpl[r], asset |-> c.asset, model |-> IF r \in c.mounts THEN spec.model ELSE None]

Templates == {Template(c, r, [model |-> m]) : c \in Contents, r \in Roles, m \in Models}

\* Roles have names of their own, and there is one (the CRD and its admission policy).
ASSUME RolloutAssumption ==
  /\ None \notin Roles /\ None \notin Profiles /\ None \notin Contents /\ None \notin Models
  /\ None \notin [class : Classes, bound : BOOLEAN]
  /\ None \notin [tmpl : Templates, replicas : Nat, size : Nat, old : Nat, new : Nat]
  /\ Replicas \subseteq Nat \ {0} /\ Replicas # {}
  /\ InitContents \subseteq [Profiles -> Contents \cup {None}]
  /\ Prompt \subseteq {"service", "profile", "workload", "owned", "endpoints"}
  /\ MaxEdits \in Nat /\ MaxFaults \in Nat
  /\ \A c \in Contents :
       /\ c.roles \in Seq(Roles) \ {<<>>} /\ \A i, j \in DOMAIN c.roles : c.roles[i] = c.roles[j] => i = j
       /\ c.deps \in [Roles -> SUBSET Roles]
       /\ c.endpoint \in Roles /\ c.kind \in [Roles -> Kinds]
       /\ c.size \in [Roles -> Nat]
       /\ c.mounts \subseteq Roles /\ c.services \subseteq Roles /\ c.scaled \subseteq Roles

\* Pods of the template mount the model's claim.
NeedsClaim(t) == t.model # None /\ Class[t.model] # None

MaxReplicas == CHOOSE n \in Replicas \cup {1} : \A k \in Replicas \cup {1} : k <= n
Sizes == UNION {{c.size[r] : r \in Roles} : c \in Contents}

\* A Deployment or LeaderWorkerSet: its spec, and its ready pods by whether they
\* run the current template.  status.readyReplicas is old + new.
Workload == [tmpl : Templates, replicas : 1 .. MaxReplicas, size : Sizes,
             old : 0 .. 2 * MaxReplicas, new : 0 .. MaxReplicas]

Spec0 == [profile : Profiles, model : Models, replicas : Replicas]

\* status.conditions by type, the profile echo and the adopted revision (the
\* content a revision hashes).  "Unset" is a condition that is absent; a False
\* condition is its reason.
Status ==
  [resolved : {"Unset", "True", "Unresolved"},
   rendered : {"Unset", "True", "RenderFailed"},
   provisioned : {"Unset", "True", "AssetConfigMapFailed", "PVCCreateFailed", "StorageIdentityChanged"},
   applied : {"Unset", "True", "WaitingForDependencies", "ServiceApplyFailed", "WorkloadApplyFailed"},
   endpoint : {"Unset", "True", "EndpointNotReady"},
   ready : {"Unset", "True", "RolesNotReady"},
   progressing : {"Unset", "Converged", "Reconciling", "Scaling", "Rollout"},
   drifted : BOOLEAN, profile : Profiles \cup {None}, revision : Contents \cup {None}]

NewStatus ==
  [resolved |-> "Unset", rendered |-> "Unset", provisioned |-> "Unset", applied |-> "Unset",
   endpoint |-> "Unset", ready |-> "Unset", progressing |-> "Unset",
   drifted |-> FALSE, profile |-> None, revision |-> None]

Object == [spec : Spec0, status : Status]
Claim == [class : Classes, bound : BOOLEAN]

VARIABLES
  isvc, cIsvc,          \* the InferenceService and the informer's copy
  profiles, cProfiles,  \* the profiles' contents
  wl, cWl,              \* the workloads, by role and kind
  svc, cSvc,            \* the role Services: the kind their selector is for
  asset, cAsset,        \* the asset ConfigMap's content
  claim, cClaim,        \* the model claim
  eps,                  \* the roles whose Endpoints hold a ready address
  pass,                 \* the pass the worker is in
  pending,              \* the service is in the work queue
  edits, faults

api == <<isvc, profiles, wl, svc, asset, claim>>
caches == <<cIsvc, cProfiles, cWl, cSvc, cAsset, cClaim>>
vars == <<api, caches, eps, pass, pending, edits, faults>>

Idle == [pc |-> "idle"]

\* A pass past StartPass: what it read of the service, the profile it resolved,
\* the status it is writing, the roles still to apply, those it found waiting
\* and unready, what applying did (setProgressing), and whether it ends in an error.
Passes ==
  {Idle} \cup
  [pc : {"assets", "claim", "service", "workload", "ready", "cleanup", "write"},
   read : Object, content : Contents \cup {None}, status : Status,
   todo : UNION {[1 .. n -> Roles] : n \in 0 .. Cardinality(Roles)},
   waiting : SUBSET Roles, unready : SUBSET Roles,
   did : {"", "Reconciling", "Scaling", "Rollout"}, err : BOOLEAN]

----------------------------------------------------------------------------
(* What the pass derives from what it read.                                 *)

RoleReplicas(c, r, spec) == IF r \in c.scaled THEN spec.replicas ELSE 1

Key(c, r) == <<r, c.kind[r]>>

\* resolve: the profile exists and supports the model.
Resolves(c, spec) == c # None /\ spec.model \in c.models

\* topoOrder, of every content a profile may have.
Orders == [c \in Contents |-> topoOrder(c.roles, c.deps, c.endpoint)]
Misordered == {c \in Contents : TopoError(c.roles, c.deps, c.endpoint)}

Order(c) == Orders[c]
OrderError(c) == c \in Misordered

SameTemplate(w, c, r, spec) == w.tmpl = Template(c, r, spec)

SameScale(w, c, r, spec) == w.replicas = RoleReplicas(c, r, spec) /\ w.size = c.size[r]

\* Mutant: one ready replica more than desired.
RoleReadyStrictly(c, r, spec) ==
  LET w == cWl[Key(c, r)]
  IN /\ w # None
     /\ w.old + w.new > RoleReplicas(c, r, spec)
     /\ NeedsClaim(Template(c, r, spec)) => cClaim # None /\ cClaim.bound

\* roleReady, on the informers' copies.
RoleReady(c, r, spec) ==
  LET w == cWl[Key(c, r)]
  IN /\ w # None
     /\ w.old + w.new >= RoleReplicas(c, r, spec)
     /\ NeedsClaim(Template(c, r, spec)) => cClaim # None /\ cClaim.bound

DependenciesReady(c, r, spec) == \A d \in c.deps[r] : RoleReady(c, d, spec)

DependenciesConverged(c, r, spec) ==
  \A d \in c.deps[r] :
    /\ cWl[Key(c, d)] # None
    /\ SameTemplate(cWl[Key(c, d)], c, d, spec)
    /\ RoleReady(c, d, spec)

\* The roles whose Service selects a ready pod; the selector for a
\* LeaderWorkerSet matches group leaders only, the other any pod of the role.
Reachable ==
  {r \in Roles : svc[r] # None
     /\ \E k \in Kinds : /\ wl[<<r, k>>] # None /\ wl[<<r, k>>].old + wl[<<r, k>>].new > 0
                         /\ svc[r] = "Deployment" \/ k = "LeaderWorkerSet"}

\* setProfileEcho: the adopted revision survives the deletion of the profile and
\* its recreation, not a switch to another one.
ProfileEcho(st, ref, c) ==
  IF c # None
  THEN [st EXCEPT !.profile = ref, !.revision = IF st.profile = ref THEN st.revision ELSE None]
  ELSE IF st.profile = ref THEN st ELSE [st EXCEPT !.profile = None, !.revision = None]

\* setProfileDriftedCondition.
Drifted(st, c) == st.revision \notin {None, c}

\* setProgressing: the most significant of what was done so far and what is done now.
Progress(did, now) ==
  IF "Rollout" \in {did, now} THEN "Rollout"
  ELSE IF "Scaling" \in {did, now} THEN "Scaling" ELSE "Reconciling"

\* setProgressingCondition: with nothing applied the condition stays, unless
\* there is none.
Progressing(before, unready, did) ==
  CASE unready = {} -> "Converged"
    [] unready # {} /\ did # "" -> did
    [] OTHER -> IF before = "Unset" THEN "Reconciling" ELSE before

\* checkEndpoint: the endpoint role is declared, its Service is seen and its
\* Endpoints hold an address.  Endpoints are read here and watched nowhere.
EndpointUp(c) == c.endpoint \in RoleSet(c) /\ cSvc[c.endpoint] # None /\ c.endpoint \in eps

\* derivePhase.
Phase(st) ==
  CASE \/ st.resolved \notin {"Unset", "True"} \/ st.rendered \notin {"Unset", "True"}
       \/ st.provisioned \notin {"Unset", "True"}
       \/ st.applied \notin {"Unset", "True", "WaitingForDependencies"} -> "Failed"
    [] OTHER -> CASE st.ready = "Unset" -> "Pending"
                  [] st.ready = "True" -> "Ready"
                  [] OTHER -> IF st.progressing \in {"Unset", "Converged"}
                              THEN "Failed" ELSE "Progressing"

----------------------------------------------------------------------------
(* The pass.                                                                *)

\* The pass goes on to the next role, or to the cleanup after the last.
NextRole(p) ==
  [p EXCEPT !.todo = Tail(p.todo), !.pc = IF Len(p.todo) > 1 THEN "service" ELSE "cleanup"]

\* An error of the provisioning or the apply: its condition is written, then the
\* error goes back to the queue.
Failing(st) == pass' = [pass EXCEPT !.pc = "write", !.err = TRUE, !.status = st]

\* A call fails: refused because the pass's copy is not the server's object, or
\* for a reason of its own.
CallFails(refused) ==
  \/ refused /\ UNCHANGED faults
  \/ faults < MaxFaults /\ faults' = faults + 1

Fresh(informer) ==
  CASE informer = "service" -> cIsvc = isvc
    [] informer = "profile" -> cProfiles = profiles
    [] informer = "workload" -> cWl = wl
    [] informer = "owned" -> <<cSvc, cAsset, cClaim>> = <<svc, asset, claim>>
    [] informer = "endpoints" -> eps = Reachable

Delivers(informer) == informer \in Prompt => pass = Idle

\* Reconcile up to the render.  Without the references, or without a render,
\* nothing is applied: what was is left alone and the status says so.
StartPass ==
  /\ pass = Idle /\ pending
  /\ \A informer \in Prompt : Fresh(informer)
  /\ LET s == cIsvc.spec
         c == cProfiles[s.profile]
         echo == ProfileEcho(cIsvc.status, s.profile, c)
         halted == [echo EXCEPT !.provisioned = "Unset", !.applied = "Unset",
                                !.endpoint = "Unset", !.progressing = "Converged"]
         resolved == [echo EXCEPT !.resolved = "True", !.rendered = "True",
                                  !.drifted = Drifted(echo, c)]
         P(pc, st) == [pc |-> pc, read |-> cIsvc, content |-> c, status |-> st, todo |-> <<>>,
                       waiting |-> {}, unready |-> {}, did |-> "", err |-> FALSE]
     IN pass' = CASE ~Resolves(c, s) ->
                       P("write", [halted EXCEPT !.resolved = "Unresolved", !.rendered = "Unset"])
                  [] Resolves(c, s) /\ s.replicas \notin c.renders ->
                       P("write", [halted EXCEPT !.resolved = "True", !.rendered = "RenderFailed",
                                                 !.drifted = Drifted(echo, c)])
                  [] OTHER -> P("assets", resolved)
  /\ pending' = FALSE
  /\ UNCHANGED <<api, caches, eps, edits, faults>>

\* provisionAssets: the ConfigMap carries the rendered assets; one the profile has
\* no more is an orphan, deleted whatever the server holds.
AssetsRefused(want) == want \notin {cAsset, None} /\ asset # cAsset

ProvisionAssets ==
  /\ pass.pc = "assets"
  /\ ~AssetsRefused(pass.content.asset)
  /\ asset' = IF cAsset # pass.content.asset THEN pass.content.asset ELSE asset
  /\ pass' = [pass EXCEPT !.pc = "claim"]
  /\ UNCHANGED <<isvc, profiles, wl, svc, claim, caches, eps, pending, edits, faults>>

AssetsFail ==
  /\ pass.pc = "assets"
  /\ CallFails(AssetsRefused(pass.content.asset))
  /\ Failing([pass.status EXCEPT !.provisioned = "AssetConfigMapFailed"])
  /\ UNCHANGED <<api, caches, eps, pending, edits>>

\* Mutant: an existing claim is reused for any model.
ProvisionAnyClaim ==
  /\ pass.pc = "claim"
  /\ LET class == Class[pass.read.spec.model]
         st == [pass.status EXCEPT !.provisioned = "True"]
     IN /\ class # None /\ cClaim = None => claim = None
        /\ claim' = IF class # None /\ cClaim = None
                    THEN [class |-> class, bound |-> FALSE] ELSE claim
        /\ ~OrderError(pass.content)
        /\ pass' = [pass EXCEPT !.pc = "service", !.status = st, !.todo = Order(pass.content)]
  /\ UNCHANGED <<isvc, profiles, wl, svc, asset, caches, eps, pending, edits, faults>>

\* provisionModelPVC: the claim is created once and reused only for models of the
\* same storage class.  topoOrder follows: its error is the apply's.
ProvisionModelPVC ==
  /\ pass.pc = "claim"
  /\ LET class == Class[pass.read.spec.model]
         st == [pass.status EXCEPT !.provisioned = "True"]
     IN /\ class # None => IF cClaim = None THEN claim = None ELSE cClaim.class = class
        /\ claim' = IF class # None /\ cClaim = None
                    THEN [class |-> class, bound |-> FALSE] ELSE claim
        /\ IF OrderError(pass.content)
           THEN Failing([st EXCEPT !.applied = "WorkloadApplyFailed"])
           ELSE pass' = [pass EXCEPT !.pc = "service", !.status = st, !.todo = Order(pass.content)]
  /\ UNCHANGED <<isvc, profiles, wl, svc, asset, caches, eps, pending, edits, faults>>

ClaimFails ==
  /\ pass.pc = "claim"
  /\ LET class == Class[pass.read.spec.model]
     IN /\ class # None
        /\ \/ /\ cClaim # None /\ cClaim.class # class /\ UNCHANGED faults
              /\ Failing([pass.status EXCEPT !.provisioned = "StorageIdentityChanged"])
           \/ /\ CallFails(cClaim = None /\ claim # None)
              /\ Failing([pass.status EXCEPT !.provisioned = "PVCCreateFailed"])
  /\ UNCHANGED <<api, caches, eps, pending, edits>>

\* applyService: the selector follows the kind of the role's workload.
ApplyService ==
  /\ pass.pc = "service"
  /\ LET r == Head(pass.todo)
         needed == r \in pass.content.services /\ cSvc[r] # pass.content.kind[r]
     IN /\ needed => svc[r] = cSvc[r]
        /\ svc' = IF needed THEN [svc EXCEPT ![r] = pass.content.kind[r]] ELSE svc
  /\ pass' = [pass EXCEPT !.pc = "workload"]
  /\ UNCHANGED <<isvc, profiles, wl, asset, claim, caches, eps, pending, edits, faults>>

ServiceFails ==
  /\ pass.pc = "service"
  /\ LET r == Head(pass.todo)
     IN CallFails(r \in pass.content.services /\ cSvc[r] # pass.content.kind[r] /\ svc[r] # cSvc[r])
  /\ Failing([pass.status EXCEPT !.applied = "ServiceApplyFailed"])
  /\ UNCHANGED <<api, caches, eps, pending, edits>>

\* What the pass does with the workload of a role (the switch of applyWorkloads).
Decision(c, r, spec) ==
  LET w == cWl[Key(c, r)]
  IN CASE w = None -> IF DependenciesReady(c, r, spec) THEN "create" ELSE "hold"
       [] w # None /\ ~SameTemplate(w, c, r, spec) ->
            IF DependenciesConverged(c, r, spec) THEN "roll" ELSE "wait"
       [] OTHER -> IF SameScale(w, c, r, spec) THEN "keep" ELSE "scale"

\* A workload takes a new spec: the pods it has stay, as old ones if the template
\* changed, until the workload's controller replaces them.
Applied(w, c, r, spec) ==
  LET same == w # None /\ SameTemplate(w, c, r, spec)
      pods == IF w = None THEN 0 ELSE w.old + w.new
  IN [tmpl |-> Template(c, r, spec), replicas |-> RoleReplicas(c, r, spec), size |-> c.size[r],
      old |-> IF same THEN w.old ELSE pods, new |-> IF same THEN w.new ELSE 0]

\* A role whose workload does not exist waits for its dependencies.
HoldCreation ==
  /\ pass.pc = "workload"
  /\ LET r == Head(pass.todo)
     IN /\ Decision(pass.content, r, pass.read.spec) = "hold"
        /\ pass' = NextRole([pass EXCEPT !.waiting = @ \cup {r}, !.unready = @ \cup {r},
                                         !.did = Progress(pass.did, "Reconciling")])
  /\ UNCHANGED <<api, caches, eps, pending, edits, faults>>

\* applyWorkload, updateWorkload, scaleWorkload.  A copy that differs from the object
\* is refused by its resourceVersion (a copy that is equal again after two changes
\* would be refused too, and the pass retried).
WriteWorkload ==
  /\ pass.pc = "workload"
  /\ LET r == Head(pass.todo)
         k == Key(pass.content, r)
         do == Decision(pass.content, r, pass.read.spec)
         reason == CASE do = "create" -> "Reconciling"
                     [] do = "roll" -> "Rollout"
                     [] OTHER -> "Scaling"
     IN /\ do \in {"create", "roll", "scale"} /\ wl[k] = cWl[k]
        /\ wl' = [wl EXCEPT ![k] = Applied(wl[k], pass.content, r, pass.read.spec)]
        /\ pass' = [pass EXCEPT !.pc = "ready", !.did = Progress(pass.did, reason)]
  /\ UNCHANGED <<isvc, profiles, svc, asset, claim, caches, eps, pending, edits, faults>>

WorkloadFails ==
  /\ pass.pc = "workload"
  /\ LET r == Head(pass.todo)
         k == Key(pass.content, r)
     IN CallFails(Decision(pass.content, r, pass.read.spec) \in {"create", "roll", "scale"}
                  /\ wl[k] # cWl[k])
  /\ Failing([pass.status EXCEPT !.applied = "WorkloadApplyFailed"])
  /\ UNCHANGED <<api, caches, eps, pending, edits>>

\* Nothing to write: the workload is as desired, or its new template waits for
\* the dependencies to take theirs.
PassOverWorkload ==
  /\ pass.pc = "workload"
  /\ LET r == Head(pass.todo)
         do == Decision(pass.content, r, pass.read.spec)
     IN /\ do \in {"keep", "wait"}
        /\ pass' = [pass EXCEPT !.pc = "ready",
                                !.waiting = IF do = "wait" THEN @ \cup {r} ELSE @]
  /\ UNCHANGED <<api, caches, eps, pending, edits, faults>>

\* roleReady again, after the write: the role's entry in status.roles.
ObserveRole ==
  /\ pass.pc = "ready"
  /\ LET r == Head(pass.todo)
     IN pass' = NextRole([pass EXCEPT !.unready =
                            IF RoleReady(pass.content, r, pass.read.spec) THEN @ ELSE @ \cup {r}])
  /\ UNCHANGED <<api, caches, eps, pending, edits, faults>>

\* Mutant: the comparison of kinds inverted.
OrphanKeysOfTheKind(c) == {k \in Keys : cWl[k] # None /\ (k[1] \in RoleSet(c) => k = Key(c, k[1]))}

\* cleanupOrphanWorkloads: the workloads and Services the informers list of roles
\* the profile has no more, and the workloads of a role's other kind.
OrphanKeys(c) == {k \in Keys : cWl[k] # None /\ ~(k[1] \in RoleSet(c) /\ k = Key(c, k[1]))}

OrphanServices(c) == {r \in Roles \ RoleSet(c) : cSvc[r] # None}

Delete(ks, rs) ==
  /\ wl' = [k \in Keys |-> IF k \in ks THEN None ELSE wl[k]]
  /\ svc' = [r \in Roles |-> IF r \in rs THEN None ELSE svc[r]]

\* The status of a pass that applied what it could: the revision is adopted when
\* no role waits; the endpoint, Ready and Progressing follow.
ReportedStatus(p) ==
  LET done == p.waiting = {}
  IN [p.status EXCEPT
        !.applied = IF done THEN "True" ELSE "WaitingForDependencies",
        !.revision = IF done THEN p.content ELSE p.status.revision,
        !.endpoint = IF EndpointUp(p.content) THEN "True" ELSE "EndpointNotReady",
        !.ready = IF p.unready = {} THEN "True" ELSE "RolesNotReady",
        !.progressing = Progressing(p.status.progressing, p.unready, p.did)]

CleanUp ==
  /\ pass.pc = "cleanup"
  /\ Delete(OrphanKeys(pass.content), OrphanServices(pass.content))
  /\ pass' = [pass EXCEPT !.pc = "write", !.status = ReportedStatus(pass)]
  /\ UNCHANGED <<isvc, profiles, asset, claim, caches, eps, pending, edits, faults>>

\* A deletion fails after some of them; workloads go before Services.
CleanUpFails ==
  /\ pass.pc = "cleanup"
  /\ OrphanKeys(pass.content) \cup OrphanServices(pass.content) # {}
  /\ CallFails(FALSE)
  /\ \E ks \in SUBSET OrphanKeys(pass.content), rs \in SUBSET OrphanServices(pass.content) :
       (rs # {} => ks = OrphanKeys(pass.content)) /\ Delete(ks, rs)
  /\ Failing([pass.status EXCEPT !.applied = "WorkloadApplyFailed"])
  /\ UNCHANGED <<isvc, profiles, asset, claim, caches, eps, pending, edits>>

\* updateStatusIfChanged, and the end of the pass.
WriteStatus ==
  /\ pass.pc = "write"
  /\ pass.status # pass.read.status => isvc = pass.read
  /\ isvc' = IF pass.status # pass.read.status THEN [isvc EXCEPT !.status = pass.status] ELSE isvc
  /\ pass' = Idle
  /\ pending' = (pending \/ pass.err)
  /\ UNCHANGED <<profiles, wl, svc, asset, claim, caches, eps, edits, faults>>

WriteStatusFails ==
  /\ pass.pc = "write" /\ pass.status # pass.read.status
  /\ CallFails(isvc # pass.read)
  /\ pass' = Idle /\ pending' = TRUE
  /\ UNCHANGED <<api, caches, eps, edits>>

----------------------------------------------------------------------------
(* The informers, the manager and the cluster (external).                   *)

\* A watch event brings the copy up to date and queues the service
\* (SetupWithManager: For, Owns, and the mapped watches).
SyncService ==
  /\ Delivers("service") /\ cIsvc # isvc /\ cIsvc' = isvc /\ pending' = TRUE
  /\ UNCHANGED <<api, cProfiles, cWl, cSvc, cAsset, cClaim, eps, pass, edits, faults>>

\* enqueueReferencingServices: only the services that name the profile.
SyncProfile ==
  /\ Delivers("profile")
  /\ \E p \in Profiles :
       /\ cProfiles[p] # profiles[p]
       /\ cProfiles' = [cProfiles EXCEPT ![p] = profiles[p]]
       /\ pending' = (pending \/ cIsvc.spec.profile = p)
  /\ UNCHANGED <<api, cIsvc, cWl, cSvc, cAsset, cClaim, eps, pass, edits, faults>>

\* Mutant: LeaderWorkerSets are not watched.
SyncWorkloadOwnedOnly ==
  /\ Delivers("workload")
  /\ \E k \in Keys :
       /\ cWl[k] # wl[k] /\ cWl' = [cWl EXCEPT ![k] = wl[k]]
       /\ pending' = (pending \/ k[2] = "Deployment")
  /\ UNCHANGED <<api, cIsvc, cProfiles, cSvc, cAsset, cClaim, eps, pass, edits, faults>>

SyncWorkload ==
  /\ Delivers("workload")
  /\ \E k \in Keys : cWl[k] # wl[k] /\ cWl' = [cWl EXCEPT ![k] = wl[k]]
  /\ pending' = TRUE
  /\ UNCHANGED <<api, cIsvc, cProfiles, cSvc, cAsset, cClaim, eps, pass, edits, faults>>

SyncOwned ==
  /\ Delivers("owned")
  /\ \/ /\ \E r \in Roles : cSvc[r] # svc[r] /\ cSvc' = [cSvc EXCEPT ![r] = svc[r]]
        /\ UNCHANGED <<cAsset, cClaim>>
     \/ cAsset # asset /\ cAsset' = asset /\ UNCHANGED <<cSvc, cClaim>>
     \/ cClaim # claim /\ cClaim' = claim /\ UNCHANGED <<cSvc, cAsset>>
  /\ pending' = TRUE
  /\ UNCHANGED <<api, cIsvc, cProfiles, cWl, eps, pass, edits, faults>>

\* The manager stops and starts: it lists everything and queues every service.
ManagerRestart ==
  /\ faults < MaxFaults /\ faults' = faults + 1
  /\ cIsvc' = isvc /\ cProfiles' = profiles /\ cWl' = wl /\ cSvc' = svc
  /\ cAsset' = asset /\ cClaim' = claim
  /\ pass' = Idle /\ pending' = TRUE
  /\ UNCHANGED <<api, eps, edits>>

\* A pod of the current template comes up; one that mounts the model needs the
\* claim bound.
PodStarts ==
  /\ \E k \in Keys :
       /\ wl[k] # None /\ wl[k].old + wl[k].new < wl[k].replicas
       /\ NeedsClaim(wl[k].tmpl) => claim # None /\ claim.bound
       /\ wl' = [wl EXCEPT ![k].new = @ + 1]
  /\ UNCHANGED <<isvc, profiles, svc, asset, claim, caches, eps, pass, pending, edits, faults>>

\* RollingUpdate with maxSurge 0 and maxUnavailable 1: an old pod stops while all
\* are ready; a surplus pod stops when the workload was scaled down.
PodStops ==
  /\ \E k \in Keys :
       /\ wl[k] # None
       /\ \/ /\ wl[k].old > 0 /\ wl[k].old + wl[k].new >= wl[k].replicas
             /\ wl' = [wl EXCEPT ![k].old = @ - 1]
          \/ /\ wl[k].old = 0 /\ wl[k].new > wl[k].replicas
             /\ wl' = [wl EXCEPT ![k].new = @ - 1]
  /\ UNCHANGED <<isvc, profiles, svc, asset, claim, caches, eps, pass, pending, edits, faults>>

PodFails ==
  /\ faults < MaxFaults /\ faults' = faults + 1
  /\ \E k \in Keys : wl[k] # None /\ wl[k].new > 0 /\ wl' = [wl EXCEPT ![k].new = @ - 1]
  /\ UNCHANGED <<isvc, profiles, svc, asset, claim, caches, eps, pass, pending, edits>>

ClaimBinds ==
  /\ claim # None /\ ~claim.bound /\ claim' = [claim EXCEPT !.bound = TRUE]
  /\ UNCHANGED <<isvc, profiles, wl, svc, asset, caches, eps, pass, pending, edits, faults>>

EndpointsFollow ==
  /\ Delivers("endpoints") /\ eps # Reachable /\ eps' = Reachable
  /\ UNCHANGED <<api, caches, pass, pending, edits, faults>>

----------------------------------------------------------------------------
(* People.                                                                  *)

UserEdits ==
  /\ edits < MaxEdits /\ edits' = edits + 1
  /\ \E s \in Spec0 : s # isvc.spec /\ isvc' = [isvc EXCEPT !.spec = s]
  /\ UNCHANGED <<profiles, wl, svc, asset, claim, caches, eps, pass, pending, faults>>

\* A profile's spec is immutable: it is deleted, or deleted and created anew.
AdminReplacesProfile ==
  /\ edits < MaxEdits /\ edits' = edits + 1
  /\ \E p \in Profiles, c \in Contents \cup {None} :
       c # profiles[p] /\ profiles' = [profiles EXCEPT ![p] = c]
  /\ UNCHANGED <<isvc, wl, svc, asset, claim, caches, eps, pass, pending, faults>>

----------------------------------------------------------------------------
Init ==
  /\ \E s \in Spec0 : isvc = [spec |-> s, status |-> NewStatus]
  /\ profiles \in InitContents
  /\ wl = [k \in Keys |-> None] /\ svc = [r \in Roles |-> None]
  /\ asset = None /\ claim = None /\ eps = {}
  /\ cIsvc = isvc /\ cProfiles = profiles /\ cWl = wl /\ cSvc = svc
  /\ cAsset = asset /\ cClaim = claim
  /\ pass = Idle /\ pending = TRUE /\ edits = 0 /\ faults = 0

Worker ==
  \/ StartPass \/ ProvisionAssets \/ AssetsFail \/ ProvisionModelPVC \/ ClaimFails
  \/ ApplyService \/ ServiceFails \/ HoldCreation \/ WriteWorkload \/ WorkloadFails
  \/ PassOverWorkload \/ ObserveRole \/ CleanUp \/ CleanUpFails
  \/ WriteStatus \/ WriteStatusFails

Informers == SyncService \/ SyncProfile \/ SyncWorkload \/ SyncOwned

Cluster == PodStarts \/ PodStops \/ ClaimBinds \/ EndpointsFollow

Next ==
  \/ Worker \/ Informers \/ Cluster
  \/ ManagerRestart \/ PodFails \/ UserEdits \/ AdminReplacesProfile

Spec == Init /\ [][Next]_vars

\* The queue hands out a queued service, informers deliver, and the cluster's
\* controllers act: pods that may start do.
Fairness == WF_vars(Worker) /\ WF_vars(Informers) /\ WF_vars(Cluster)

FairSpec == Spec /\ Fairness

----------------------------------------------------------------------------
(* Properties.                                                              *)

\* Every variable has its type.
TypeOK ==
  /\ isvc \in Object /\ cIsvc \in Object
  /\ profiles \in [Profiles -> Contents \cup {None}]
  /\ cProfiles \in [Profiles -> Contents \cup {None}]
  /\ wl \in [Keys -> Workload \cup {None}] /\ cWl \in [Keys -> Workload \cup {None}]
  /\ svc \in [Roles -> Kinds \cup {None}] /\ cSvc \in [Roles -> Kinds \cup {None}]
  /\ {asset, cAsset} \subseteq {c.asset : c \in Contents} \cup {None}
  /\ {claim, cClaim} \subseteq Claim \cup {None}
  /\ eps \subseteq Roles /\ pass \in Passes /\ pending \in BOOLEAN
  /\ edits \in 0 .. MaxEdits /\ faults \in 0 .. MaxFaults

Content == profiles[isvc.spec.profile]

\* The pass runs to its end: what it applies renders, in an order, over a claim
\* it can use.
Applies ==
  /\ Resolves(Content, isvc.spec) /\ isvc.spec.replicas \in Content.renders
  /\ ~OrderError(Content)
  /\ Class[isvc.spec.model] # None /\ claim # None => claim.class = Class[isvc.spec.model]

\* Passes that end in an error are retried for as long as the cause lasts.
Erring ==
  Resolves(Content, isvc.spec) /\ isvc.spec.replicas \in Content.renders /\ ~Applies

\* Nothing is queued or under way and the informers are up to date.
AtRest ==
  /\ pass = Idle /\ ~pending
  /\ caches = api

\* A role's workload is what the spec renders.
Matches(r) ==
  LET w == wl[Key(Content, r)]
  IN w # None /\ SameTemplate(w, Content, r, isvc.spec) /\ SameScale(w, Content, r, isvc.spec)

\* Whenever the controller has nothing left to do, the status is true of the
\* cluster: WorkloadsApplied says whether every role runs what the spec renders,
\* a role that waits does so for a dependency that is not ready, Ready is the
\* roles' readiness, the revision adopted is the profile's, nothing of a former
\* topology is left, and each Service selects the kind that serves its role.  An
\* event lost on the way to the queue (SetupWithManager), or a condition a pass
\* leaves from an earlier one (Reconcile), would break it.
RestIsTruthful ==
  AtRest =>
    LET st == isvc.status
        c == Content
    IN CASE ~Resolves(c, isvc.spec) ->
              st.resolved = "Unresolved" /\ st.applied = "Unset" /\ st.progressing = "Converged"
         [] Resolves(c, isvc.spec) /\ isvc.spec.replicas \notin c.renders ->
              st.rendered = "RenderFailed" /\ st.applied = "Unset"
         [] OTHER ->
              /\ Applies
              /\ (st.applied = "True") <=> (\A r \in RoleSet(c) : Matches(r))
              /\ st.applied = "True" => st.revision = c /\ ~st.drifted
              /\ st.applied # "True" => \E r \in RoleSet(c) :
                   ~Matches(r) /\ \E d \in c.deps[r] : ~RoleReady(c, d, isvc.spec)
              /\ (st.ready = "True") <=> (\A r \in RoleSet(c) : RoleReady(c, r, isvc.spec))
              /\ \A k \in Keys : wl[k] # None => k[1] \in RoleSet(c) /\ k = Key(c, k[1])
              /\ \A r \in RoleSet(c) \cap c.services : svc[r] = c.kind[r]

\* Pods never mount a claim of another storage class than their model's: a switch
\* of modelRef that needs one fails instead of reusing the bound claim
\* (provisionModelPVC), and no workload gets the new template before it.
ClaimIsTheModels ==
  \A k \in Keys : wl[k] # None /\ NeedsClaim(wl[k].tmpl) =>
    claim # None /\ claim.class = Class[wl[k].tmpl.model]

\* Once people stop editing, the controller comes to rest: no pass writes
\* something that queues the next one for ever (the no-write-on-equal checks of
\* updateStatusIfChanged, applyResource and provisionAssets).
ComesToRest == <>[](Erring \/ AtRest)

\* A service that can be applied is applied and ready in the end: the gates on
\* creation and on rollout open, whatever was edited or failed before, and every
\* role runs the template and the replicas its spec asks for.
Converges ==
  <>[](Applies => /\ isvc.status.applied = "True" /\ Phase(isvc.status) = "Ready"
                  /\ \A r \in RoleSet(Content) : Matches(r) /\ wl[Key(Content, r)].old = 0)

-----------------------------------------------------------------------------
(* What comments and the design say and the code does not do: no run checks    *)
(* these, and the README tells which steps break them.                         *)

\* The comment on the gate: a dependant never rolls out against a dependency that
\* is mid-rollout, that is, one that still has pods of the former template.
DependencyRolledFirst ==
  [][\A k \in Keys :
       /\ wl[k] # None /\ wl'[k] # None /\ wl'[k].tmpl # wl[k].tmpl
       => \A d \in pass.content.deps[k[1]] : wl[Key(pass.content, d)].old = 0]_vars

\* The comment on derivePhase: a service that is fully applied reads Failed when a
\* pod has died since, not while its rollout replaces pods.
FailedMeansDied ==
  Phase(isvc.status) = "Failed" /\ isvc.status.applied = "True" => faults > 0 \/ Erring

\* The design's EndpointReady: at rest it says whether the endpoint role's Service
\* has a ready backend.
EndpointReported ==
  AtRest /\ eps = Reachable /\ Applies =>
    ((isvc.status.endpoint = "True") <=> Content.endpoint \in Reachable)
=============================================================================
