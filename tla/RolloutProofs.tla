---------------------------- MODULE RolloutProofs ----------------------------
(***************************************************************************)
(* The model claim of Rollout, the order topoOrder returns, and the status *)
(* the controller comes to rest with, for every set of roles, profiles,    *)
(* contents and models, every storage class and every bound, and for       *)
(* informers that lag as they like.                                        *)
(***************************************************************************)
EXTENDS Rollout, FiniteSetTheorems, WellFoundedInduction, TLAPS

-----------------------------------------------------------------------------
(* The inductive invariant, in parts *)

\* Workloads are by role and kind, and each has a template.
WorkloadShape ==
  /\ DOMAIN wl = Keys
  /\ \A k \in Keys : wl[k] # None => "tmpl" \in DOMAIN wl[k]

\* A claim has a storage class, and the informer's copy is of the claim there is.
ClaimSeen ==
  /\ claim # None => claim \in Claim
  /\ cClaim # None => claim # None /\ cClaim.class = claim.class

\* The claim suits a model, where that needs one.
Suits(model) == Class[model] # None => claim # None /\ claim.class = Class[model]

PassFields == {"pc", "read", "content", "status", "todo", "waiting", "unready", "did", "err"}

\* A pass has the fields of one; past the provisioning the claim suits its model.
PassShape ==
  pass = Idle \/ PassFields \subseteq DOMAIN pass

PassProvisioned ==
  pass.pc \in {"service", "workload", "ready"} => Suits(pass.read.spec.model)

\* The service, the informer's copy of it and the one the pass has read name a model.
Named(o) == {"spec", "status"} \subseteq DOMAIN o /\ o.spec \in Spec0

ServiceShape == Named(isvc) /\ Named(cIsvc) /\ (pass # Idle => Named(pass.read))

ClaimInv == ServiceShape /\ WorkloadShape /\ ClaimSeen /\ PassShape /\ PassProvisioned /\ ClaimIsTheModels
-----------------------------------------------------------------------------
(* The pass *)

LEMMA ClaimIsSomething == None \notin Claim
BY RolloutAssumption DEF Claim

LEMMA InitClaim == Init => ClaimInv
<1> SUFFICES ASSUME Init PROVE ClaimInv
  OBVIOUS
<1>0. \E x \in Spec0 : isvc = [spec |-> x, status |-> NewStatus] /\ cIsvc = isvc
  BY DEF Init
<1>1. wl = [k \in Keys |-> None] /\ claim = None /\ cClaim = None /\ pass = Idle /\ Idle.pc = "idle"
  BY DEF Init, Idle
<1>2. QED
  BY <1>0, <1>1 DEF ClaimInv, ServiceShape, Named, WorkloadShape, ClaimSeen, PassShape, PassProvisioned, ClaimIsTheModels

\* A step that leaves the workloads and the claim alone, of a pass that has no
\* more to apply, or has been provisioned already.
LEMMA PassOnly ==
  ASSUME ClaimInv, ServiceShape', UNCHANGED <<wl, claim>>, cClaim' \in {cClaim, claim}, PassShape',
         \/ pass'.pc \notin {"service", "workload", "ready"}
         \/ pass.pc \in {"service", "workload", "ready"} /\ pass'.read = pass.read
         \/ pass' = pass
  PROVE  ClaimInv'
BY DEF ClaimInv, WorkloadShape, ClaimSeen, PassProvisioned, Suits, ClaimIsTheModels, NeedsClaim

\* A step that changes the workloads and none of their templates, or removes some.
LEMMA WorkloadsOnly ==
  ASSUME ClaimInv, ServiceShape', UNCHANGED <<claim, cClaim>>, DOMAIN wl' = Keys,
         \A k \in Keys : wl'[k] = None \/ (wl[k] # None /\ "tmpl" \in DOMAIN wl'[k] /\ wl'[k].tmpl = wl[k].tmpl),
         PassShape', pass' = pass \/ pass'.pc = "write"
  PROVE  ClaimInv'
BY DEF ClaimInv, WorkloadShape, ClaimSeen, PassProvisioned, Suits, ClaimIsTheModels, NeedsClaim

\* The steps that leave the service, its copy and the pass alone.
Others ==
  \/ SyncProfile \/ SyncWorkload \/ SyncOwned \/ PodStarts \/ PodStops \/ PodFails \/ ClaimBinds
  \/ EndpointsFollow \/ AdminReplacesProfile \/ UNCHANGED vars

LEMMA OthersFrame == Others => UNCHANGED <<isvc, cIsvc, pass>>
BY DEF Others, SyncProfile, SyncWorkload, SyncOwned, PodStarts, PodStops, PodFails, ClaimBinds,
       EndpointsFollow, AdminReplacesProfile, vars, api, caches

LEMMA Steps ==
  ASSUME [Next]_vars
  PROVE  \/ StartPass
         \/ ProvisionAssets \/ AssetsFail \/ ProvisionModelPVC \/ ClaimFails \/ ApplyService \/ ServiceFails
         \/ HoldCreation \/ ObserveRole
         \/ WriteWorkload \/ WorkloadFails \/ PassOverWorkload \/ CleanUp \/ CleanUpFails
         \/ WriteStatus \/ WriteStatusFails \/ ManagerRestart \/ SyncService \/ UserEdits \/ Others
BY DEF Next, Worker, Informers, Cluster, Others

\* Every step keeps the shape of the service and of the pass.
LEMMA ShapeStep ==
  ASSUME ServiceShape, PassShape, [Next]_vars
  PROVE  ServiceShape' /\ PassShape'
<1> USE DEF PassFields
<1>1. Idle.pc = "idle"
  BY DEF Idle
<1>2. CASE StartPass
  <2>1. PassFields \subseteq DOMAIN pass' /\ pass'.read = cIsvc
    BY <1>2, Zenon DEF StartPass
  <2>2. UNCHANGED <<isvc, cIsvc>>
    BY <1>2 DEF StartPass, api, caches
  <2>3. QED
    BY <2>1, <2>2 DEF ServiceShape, Named, PassShape
<1>3. CASE ProvisionAssets \/ AssetsFail \/ ProvisionModelPVC \/ ClaimFails \/ ApplyService \/ ServiceFails
  <2>1. UNCHANGED <<isvc, cIsvc>>
    BY <1>3 DEF ProvisionAssets, AssetsFail, ProvisionModelPVC, ClaimFails, ApplyService, ServiceFails, api, caches
  <2>2. pass.pc \in {"assets", "claim", "service"}
    BY <1>3 DEF ProvisionAssets, AssetsFail, ProvisionModelPVC, ClaimFails, ApplyService, ServiceFails
  <2>3. \/ \E x : pass' = [pass EXCEPT !.pc = x]
        \/ \E st : pass' = [pass EXCEPT !.pc = "write", !.err = TRUE, !.status = st]
        \/ \E st, todo : pass' = [pass EXCEPT !.pc = "service", !.status = st, !.todo = todo]
    BY <1>3 DEF ProvisionAssets, AssetsFail, ProvisionModelPVC, ClaimFails, ApplyService, ServiceFails, Failing
  <2>4. PassFields \subseteq DOMAIN pass' /\ pass'.read = pass.read
    BY <1>1, <2>2, <2>3 DEF PassShape
  <2>5. QED
    BY <1>1, <2>1, <2>2, <2>4 DEF ServiceShape, Named, PassShape
<1>4. CASE HoldCreation \/ ObserveRole
  <2>1. UNCHANGED <<isvc, cIsvc>> /\ pass.pc \in {"workload", "ready"}
    BY <1>4 DEF HoldCreation, ObserveRole, api, caches
  <2>2. \/ \E x, y, z : pass' = NextRole([pass EXCEPT !.waiting = x, !.unready = y, !.did = z])
        \/ \E x : pass' = NextRole([pass EXCEPT !.unready = x])
    BY <1>4 DEF HoldCreation, ObserveRole
  <2>3. PassFields \subseteq DOMAIN pass' /\ pass'.read = pass.read
    BY <1>1, <2>1, <2>2 DEF PassShape, NextRole
  <2>4. QED
    BY <1>1, <2>1, <2>3 DEF ServiceShape, Named, PassShape
<1>5. CASE WriteWorkload \/ WorkloadFails \/ PassOverWorkload \/ CleanUp \/ CleanUpFails
  <2>1. UNCHANGED <<isvc, cIsvc>> /\ pass.pc \in {"workload", "cleanup"}
    BY <1>5 DEF WriteWorkload, WorkloadFails, PassOverWorkload, CleanUp, CleanUpFails, api, caches
  <2>2. \/ \E x, y : pass' = [pass EXCEPT !.pc = x, !.did = y]
        \/ \E x, y : pass' = [pass EXCEPT !.pc = x, !.waiting = y]
        \/ \E x, y : pass' = [pass EXCEPT !.pc = x, !.status = y]
        \/ \E st : pass' = [pass EXCEPT !.pc = "write", !.err = TRUE, !.status = st]
    BY <1>5 DEF WriteWorkload, WorkloadFails, PassOverWorkload, CleanUp, CleanUpFails, Failing
  <2>3. PassFields \subseteq DOMAIN pass' /\ pass'.read = pass.read
    BY <1>1, <2>1, <2>2 DEF PassShape
  <2>4. QED
    BY <1>1, <2>1, <2>3 DEF ServiceShape, Named, PassShape
<1>6. CASE WriteStatus \/ WriteStatusFails
  <2>1. pass' = Idle /\ cIsvc' = cIsvc
    BY <1>6 DEF WriteStatus, WriteStatusFails, caches
  <2>2. isvc' = isvc \/ isvc' = [isvc EXCEPT !.status = pass.status]
    BY <1>6 DEF WriteStatus, WriteStatusFails, api
  <2>3. QED
    BY <2>1, <2>2 DEF ServiceShape, Named, PassShape
<1>7. CASE ManagerRestart \/ SyncService
  <2>1. isvc' = isvc /\ cIsvc' = isvc /\ pass' \in {pass, Idle}
    BY <1>7 DEF ManagerRestart, SyncService, api
  <2>2. QED
    BY <2>1 DEF ServiceShape, Named, PassShape
<1>8. CASE UserEdits
  <2>1. UNCHANGED <<pass, cIsvc>> /\ \E x \in Spec0 : isvc' = [isvc EXCEPT !.spec = x]
    BY <1>8 DEF UserEdits, caches
  <2>2. QED
    BY <2>1 DEF ServiceShape, Named, PassShape
<1>9. CASE Others
  BY <1>9, OthersFrame DEF ServiceShape, Named, PassShape
<1>10. QED
  BY <1>2, <1>3, <1>4, <1>5, <1>6, <1>7, <1>8, <1>9, Steps

\* The steps of the worker up to the workloads.
LEMMA ProvisionStep ==
  ASSUME ClaimInv, ServiceShape',
         StartPass \/ ProvisionAssets \/ AssetsFail \/ ProvisionModelPVC \/ ClaimFails \/ ApplyService \/ ServiceFails
  PROVE  ClaimInv'
<1> USE DEF PassFields
<1>1. PassShape
  BY DEF ClaimInv
<1>2. Idle.pc = "idle"
  BY DEF Idle
<1>3. CASE StartPass
  <2>1. UNCHANGED <<wl, claim, cClaim>>
    BY <1>3 DEF StartPass, api, caches
  <2>2. PassFields \subseteq DOMAIN pass' /\ pass'.pc \in {"write", "assets"}
    BY <1>3, Zenon DEF StartPass
  <2>3. QED
    BY <2>1, <2>2, PassOnly DEF PassShape
<1>4. CASE ProvisionAssets
  <2>1. UNCHANGED <<wl, claim, cClaim>> /\ pass.pc = "assets" /\ pass' = [pass EXCEPT !.pc = "claim"]
    BY <1>4 DEF ProvisionAssets, caches
  <2>2. PassShape' /\ pass'.pc = "claim"
    BY <1>1, <1>2, <2>1 DEF PassShape
  <2>3. QED
    BY <2>1, <2>2, PassOnly
<1>5. CASE AssetsFail \/ ClaimFails \/ ServiceFails
  <2>1. UNCHANGED <<wl, claim, cClaim>> /\ pass.pc \in {"assets", "claim", "service"}
    BY <1>5 DEF AssetsFail, ClaimFails, ServiceFails, api, caches
  <2>2. \E st : pass' = [pass EXCEPT !.pc = "write", !.err = TRUE, !.status = st]
    BY <1>5 DEF AssetsFail, ClaimFails, ServiceFails, Failing
  <2>3. PassShape' /\ pass'.pc = "write"
    BY <1>1, <1>2, <2>1, <2>2 DEF PassShape
  <2>4. QED
    BY <2>1, <2>3, PassOnly
<1>6. CASE ApplyService
  <2>1. UNCHANGED <<wl, claim, cClaim>> /\ pass.pc = "service" /\ pass' = [pass EXCEPT !.pc = "workload"]
    BY <1>6 DEF ApplyService, caches
  <2>2. PassShape' /\ pass'.read = pass.read
    BY <1>1, <1>2, <2>1 DEF PassShape
  <2>3. QED
    BY <2>1, <2>2, PassOnly
<1>7. CASE ProvisionModelPVC
  <2> DEFINE class == Class[pass.read.spec.model]
  <2>1. /\ UNCHANGED <<wl, cClaim>> /\ pass.pc = "claim"
        /\ class # None => IF cClaim = None THEN claim = None ELSE cClaim.class = class
        /\ claim' = IF class # None /\ cClaim = None THEN [class |-> class, bound |-> FALSE] ELSE claim
    BY <1>7 DEF ProvisionModelPVC, caches
  <2>2. \/ \E st : pass' = [pass EXCEPT !.pc = "write", !.err = TRUE, !.status = st]
        \/ \E st, todo : pass' = [pass EXCEPT !.pc = "service", !.status = st, !.todo = todo]
    BY <1>7 DEF ProvisionModelPVC, Failing
  <2>3. PassShape' /\ pass'.read = pass.read
    BY <1>1, <1>2, <2>1, <2>2 DEF PassShape
  <2>4. claim # None => claim' = claim
    BY <2>1
  <2>5. ASSUME class # None PROVE claim' # None /\ claim'.class = class /\ claim' \in Claim
    <3>1. CASE cClaim = None
      <4>1. claim' = [class |-> class, bound |-> FALSE]
        BY <2>1, <2>5, <3>1
      <4>2. claim' \in Claim
        <5>1. pass.read.spec.model \in Models
          BY <1>2, <2>1 DEF ClaimInv, ServiceShape, Named, Spec0
        <5>2. class \in Classes
          BY <2>5, <5>1 DEF Classes
        <5>3. QED
          BY <4>1, <5>2 DEF Claim
      <4>3. QED
        BY <4>1, <4>2, ClaimIsSomething
    <3>2. CASE cClaim # None
      BY <2>1, <2>4, <2>5, <3>2 DEF ClaimInv, ClaimSeen
    <3>3. QED
      BY <3>1, <3>2
  <2>6. claim' # claim => class # None
    BY <2>1
  <2>7. ClaimSeen'
    BY <2>1, <2>4, <2>5, <2>6 DEF ClaimInv, ClaimSeen
  <2>8. PassProvisioned'
    BY <2>3, <2>5 DEF PassProvisioned, Suits
  <2>9. ClaimIsTheModels' /\ WorkloadShape'
    BY <2>1, <2>4 DEF ClaimInv, ClaimIsTheModels, NeedsClaim, WorkloadShape
  <2>10. QED
    BY <2>3, <2>7, <2>8, <2>9 DEF ClaimInv
<1>8. QED
  BY <1>3, <1>4, <1>5, <1>6, <1>7
\* What a role's workload is given mounts the claim the pass has provisioned.
LEMMA ApplyStep ==
  ASSUME ClaimInv, ServiceShape', PassShape', WriteWorkload
  PROVE  ClaimInv'
<1> USE DEF PassFields
<1>1. PICK k, r :
        /\ pass.pc = "workload" /\ UNCHANGED <<claim, cClaim>>
        /\ wl' = [wl EXCEPT ![k] = Applied(wl[k], pass.content, r, pass.read.spec)]
        /\ \E did : pass' = [pass EXCEPT !.pc = "ready", !.did = did]
  BY DEF WriteWorkload, caches
<1> DEFINE w == Applied(wl[k], pass.content, r, pass.read.spec)
<1>2. w.tmpl = Template(pass.content, r, pass.read.spec) /\ "tmpl" \in DOMAIN w
  BY DEF Applied
<1>3. NeedsClaim(w.tmpl) => w.tmpl.model = pass.read.spec.model /\ Class[pass.read.spec.model] # None
  BY <1>2 DEF NeedsClaim, Template
<1>4. Suits(pass.read.spec.model)
  BY <1>1 DEF ClaimInv, PassProvisioned
<1>5. NeedsClaim(w.tmpl) => claim # None /\ claim.class = Class[w.tmpl.model]
  BY <1>3, <1>4 DEF Suits
<1>6. pass # Idle /\ pass'.read = pass.read
  <2>1. Idle.pc = "idle"
    BY DEF Idle
  <2>2. QED
    BY <1>1, <2>1 DEF ClaimInv, PassShape
<1>7. DOMAIN wl' = Keys /\ \A j \in Keys : wl'[j] = wl[j] \/ wl'[j] = w
  <2> HIDE DEF w
  <2>1. QED
    BY <1>1 DEF ClaimInv, WorkloadShape, w
<1>8. WorkloadShape' /\ ClaimIsTheModels'
  <2> HIDE DEF w
  <2>1. QED
    BY <1>1, <1>2, <1>5, <1>7 DEF ClaimInv, WorkloadShape, ClaimIsTheModels, NeedsClaim
<1>9. ClaimSeen' /\ PassProvisioned'
  BY <1>1, <1>4, <1>6 DEF ClaimInv, ClaimSeen, PassProvisioned, Suits
<1>10. QED
  BY <1>8, <1>9 DEF ClaimInv

\* The pods' controllers change what a workload has running and nothing else.
LEMMA PodsStep ==
  ASSUME ClaimInv, ServiceShape', PassShape', PodStarts \/ PodStops \/ PodFails
  PROVE  ClaimInv'
<1>1. PICK k \in Keys :
        /\ wl[k] # None
        /\ (\E n : wl' = [wl EXCEPT ![k].new = n]) \/ (\E n : wl' = [wl EXCEPT ![k].old = n])
  BY DEF PodStarts, PodStops, PodFails
<1>2. UNCHANGED <<claim, cClaim, pass>>
  BY DEF PodStarts, PodStops, PodFails, caches
<1>3. DOMAIN wl' = Keys
      /\ \A j \in Keys : wl'[j] = None \/ (wl[j] # None /\ "tmpl" \in DOMAIN wl'[j] /\ wl'[j].tmpl = wl[j].tmpl)
  BY <1>1 DEF ClaimInv, WorkloadShape
<1>4. QED
  BY <1>2, <1>3, WorkloadsOnly

LEMMA ClaimStep == ClaimInv /\ [Next]_vars => ClaimInv'
<1> SUFFICES ASSUME ClaimInv, [Next]_vars PROVE ClaimInv'
  OBVIOUS
<1> USE DEF PassFields
<1>1. ServiceShape' /\ PassShape' /\ PassShape /\ Idle.pc = "idle"
  BY ShapeStep DEF ClaimInv, Idle
<1>2. CASE StartPass \/ ProvisionAssets \/ AssetsFail \/ ProvisionModelPVC \/ ClaimFails \/ ApplyService \/ ServiceFails
  BY <1>1, <1>2, ProvisionStep
<1>3. CASE HoldCreation \/ ObserveRole
  <2>1. UNCHANGED <<wl, claim, cClaim>> /\ pass.pc \in {"workload", "ready"}
    BY <1>3 DEF HoldCreation, ObserveRole, api, caches
  <2>2. \/ \E x, y, z : pass' = NextRole([pass EXCEPT !.waiting = x, !.unready = y, !.did = z])
        \/ \E x : pass' = NextRole([pass EXCEPT !.unready = x])
    BY <1>3 DEF HoldCreation, ObserveRole
  <2>3. pass'.read = pass.read
    BY <1>1, <2>1, <2>2 DEF PassShape, NextRole
  <2>4. QED
    BY <1>1, <2>1, <2>3, PassOnly
<1>4. CASE WriteWorkload
  BY <1>1, <1>4, ApplyStep
<1>5. CASE WorkloadFails \/ PassOverWorkload
  <2>1. UNCHANGED <<wl, claim, cClaim>> /\ pass.pc = "workload"
    BY <1>5 DEF WorkloadFails, PassOverWorkload, api, caches
  <2>2. \/ \E x, y : pass' = [pass EXCEPT !.pc = x, !.waiting = y]
        \/ \E st : pass' = [pass EXCEPT !.pc = "write", !.err = TRUE, !.status = st]
    BY <1>5 DEF WorkloadFails, PassOverWorkload, Failing
  <2>3. pass'.read = pass.read
    BY <1>1, <2>1, <2>2 DEF PassShape
  <2>4. QED
    BY <1>1, <2>1, <2>3, PassOnly
<1>6. CASE CleanUp \/ CleanUpFails
  <2>1. UNCHANGED <<claim, cClaim>> /\ pass.pc = "cleanup"
        /\ \E ks : wl' = [k \in Keys |-> IF k \in ks THEN None ELSE wl[k]]
    BY <1>6 DEF CleanUp, CleanUpFails, Delete, caches
  <2>2. \/ \E x : pass' = [pass EXCEPT !.pc = "write", !.status = x]
        \/ \E x : pass' = [pass EXCEPT !.pc = "write", !.err = TRUE, !.status = x]
    BY <1>6 DEF CleanUp, CleanUpFails, Failing
  <2>3. pass'.pc = "write"
    BY <1>1, <2>1, <2>2 DEF PassShape
  <2>4. DOMAIN wl' = Keys
        /\ \A j \in Keys : wl'[j] = None \/ (wl[j] # None /\ "tmpl" \in DOMAIN wl'[j] /\ wl'[j].tmpl = wl[j].tmpl)
    BY <2>1 DEF ClaimInv, WorkloadShape
  <2>5. QED
    BY <1>1, <2>1, <2>3, <2>4, WorkloadsOnly
<1>7. CASE WriteStatus \/ WriteStatusFails \/ ManagerRestart \/ SyncService \/ UserEdits
  <2>1. UNCHANGED <<wl, claim>> /\ cClaim' \in {cClaim, claim} /\ pass' \in {pass, Idle}
    BY <1>7 DEF WriteStatus, WriteStatusFails, ManagerRestart, SyncService, UserEdits, api, caches
  <2>2. QED
    BY <1>1, <2>1, PassOnly
<1>8. CASE PodStarts \/ PodStops \/ PodFails
  BY <1>1, <1>8, PodsStep
<1>9. CASE ClaimBinds
  <2>1. claim # None /\ claim' = [claim EXCEPT !.bound = TRUE] /\ UNCHANGED <<wl, cClaim, pass>>
    BY <1>9 DEF ClaimBinds, caches
  <2>2. claim' \in Claim /\ claim'.class = claim.class
    BY <2>1 DEF ClaimInv, ClaimSeen, Claim
  <2>3. claim' # None
    BY <2>2, ClaimIsSomething
  <2>4. QED
    BY <1>1, <2>1, <2>2, <2>3 DEF ClaimInv, WorkloadShape, ClaimSeen, PassProvisioned, Suits, ClaimIsTheModels, NeedsClaim
<1>10. CASE SyncProfile \/ SyncWorkload \/ SyncOwned \/ EndpointsFollow \/ AdminReplacesProfile \/ UNCHANGED vars
  <2>1. UNCHANGED <<wl, claim, pass>> /\ cClaim' \in {cClaim, claim}
    BY <1>10 DEF SyncProfile, SyncWorkload, SyncOwned, EndpointsFollow, AdminReplacesProfile, vars, api, caches
  <2>2. QED
    BY <1>1, <2>1, PassOnly
<1>11. QED
  BY <1>2, <1>3, <1>4, <1>5, <1>6, <1>7, <1>8, <1>9, <1>10, Steps DEF Others

\* No pod mounts a claim of another storage class than its model's, whatever is
\* edited, fails or restarts, and however old the copies are the pass reads.
THEOREM ClaimsSuit == Spec => []ClaimIsTheModels
<1>1. Init => ClaimInv
  BY InitClaim
<1>2. ClaimInv /\ [Next]_vars => ClaimInv'
  BY ClaimStep
<1>3. ClaimInv => ClaimIsTheModels
  BY DEF ClaimInv
<1>4. QED
  BY <1>1, <1>2, <1>3, PTL DEF Spec

-----------------------------------------------------------------------------
(* What topoOrder returns *)

\* A set of numbers with zero and the successor of each of its own is all of them.
LEMMA Counting ==
  ASSUME NEW T, 0 \in T, \A n \in Nat : n \in T => n + 1 \in T
  PROVE  \A n \in Nat : n \in T
<1> DEFINE I == {n \in Nat : n \notin T}
<1> DEFINE R == OpToRel(<, Nat)
<1> SUFFICES ASSUME I # {} PROVE FALSE
  OBVIOUS
<1>1. PICK x \in I : \A y \in I : ~(<<y, x>> \in R)
  <2> IsWellFoundedOn(R, Nat)
    BY NatLessThanWellFounded DEF R
  <2> I \subseteq Nat
    OBVIOUS
  <2> HIDE DEF R, I
  <2> QED BY WFMin
<1>2. x \in Nat /\ x # 0 /\ x \notin T
  OBVIOUS
<1>3. x - 1 \in Nat /\ x - 1 < x
  BY <1>2
<1>4. x - 1 \notin I
  BY <1>1, <1>2, <1>3 DEF OpToRel
<1>5. x - 1 + 1 \in T
  BY <1>3, <1>4
<1> QED BY <1>2, <1>5

\* A nonempty set of numbers has a least one.
LEMMA Least ==
  ASSUME NEW I, I \subseteq Nat, I # {}
  PROVE  \E x \in I : \A y \in I : x <= y
<1> DEFINE R == OpToRel(<, Nat)
<1>1. PICK x \in I : \A y \in I : ~(<<y, x>> \in R)
  <2> IsWellFoundedOn(R, Nat)
    BY NatLessThanWellFounded DEF R
  <2> HIDE DEF R
  <2> QED BY WFMin
<1>2. \A y \in I : x <= y
  <2> TAKE y \in I
  <2>1. x \in Nat /\ y \in Nat
    OBVIOUS
  <2>2. y < x => <<y, x>> \in R
    BY <2>1 DEF OpToRel
  <2>3. ~(<<y, x>> \in R)
    BY <1>1
  <2> HIDE DEF R
  <2> QED BY <2>1, <2>2, <2>3
<1> QED BY <1>2

Elems(s) == {s[i] : i \in DOMAIN s}
Once(s) == \A i, j \in DOMAIN s : s[i] = s[j] => i = j

LEMMA ElemsAppend ==
  ASSUME NEW R, NEW s \in Seq(R), NEW x \in R
  PROVE  /\ Append(s, x) \in Seq(R) /\ Elems(Append(s, x)) = Elems(s) \cup {x}
         /\ Once(s) /\ x \notin Elems(s) => Once(Append(s, x))
         /\ s # <<>> => Append(s, x) # <<>> /\ Append(s, x)[1] = s[1]
<1>1. PICK n \in Nat : n = Len(s) /\ DOMAIN s = 1 .. n
  OBVIOUS
<1>2. PICK e : e = Append(s, x)
  OBVIOUS
<1>3. e \in Seq(R) /\ DOMAIN e = 1 .. n + 1 /\ e[n + 1] = x /\ \A i \in 1 .. n : e[i] = s[i]
  BY <1>1, <1>2
<1>4. \A i \in 1 .. n + 1 : i \in 1 .. n \/ i = n + 1
  OBVIOUS
<1>5. \A i \in 1 .. n : i \in 1 .. n + 1
  OBVIOUS
<1>6. n + 1 \in 1 .. n + 1
  OBVIOUS
<1>7. Elems(e) = Elems(s) \cup {x}
  BY <1>1, <1>3, <1>4, <1>5, <1>6 DEF Elems
<1>8. Once(s) /\ x \notin Elems(s) => Once(e)
  BY <1>1, <1>3, <1>4 DEF Once, Elems
<1>9. s # <<>> => e # <<>> /\ e[1] = s[1]
  BY <1>1, <1>2, <1>3
<1> QED BY <1>2, <1>3, <1>7, <1>8, <1>9

\* The function the loop that fills the queue is written with.
Fills(q, roles, ready, m, f) ==
  f = [n \in 0 .. m |-> IF n = 0 THEN q
                        ELSE IF roles[n] \in ready THEN Append(f[n - 1], roles[n]) ELSE f[n - 1]]

LEMMA FillsExists ==
  ASSUME NEW q, NEW roles, NEW ready
  PROVE  \A m \in Nat : \E f : Fills(q, roles, ready, m, f)
<1> DEFINE T == {m \in Nat : \E f : Fills(q, roles, ready, m, f)}
<1>1. 0 \in T
  <2> DEFINE f == [n \in 0 .. 0 |-> q]
  <2>1. Fills(q, roles, ready, 0, f)
    BY DEF Fills
  <2> QED BY <2>1
<1>2. ASSUME NEW m \in Nat, m \in T PROVE m + 1 \in T
  <2>1. PICK f : Fills(q, roles, ready, m, f)
    BY <1>2
  <2> DEFINE Step(n, y) == IF n = 0 THEN q ELSE IF roles[n] \in ready THEN Append(y, roles[n]) ELSE y
             g == [n \in 0 .. m + 1 |-> IF n = m + 1 THEN Step(m + 1, f[m]) ELSE f[n]]
  <2>2. \A n \in 0 .. m : f[n] = Step(n, f[n - 1])
    BY <2>1 DEF Fills
  <2>3. \A n \in 0 .. m + 1 : n # 0 => n - 1 \in 0 .. m /\ g[n - 1] = f[n - 1]
    OBVIOUS
  <2>4. \A n \in 0 .. m + 1 : n # m + 1 => n \in 0 .. m
    OBVIOUS
  <2>5. \A n \in 0 .. m + 1 : g[n] = Step(n, g[n - 1])
    <3> TAKE n \in 0 .. m + 1
    <3>1. CASE n = m + 1
      <4>1. n # 0 /\ n - 1 = m
        BY <3>1
      <4>2. g[n] = Step(n, f[m]) /\ g[n - 1] = f[m]
        BY <2>3, <3>1, <4>1
      <4> QED BY <4>2
    <3>2. CASE n # m + 1
      <4>1. g[n] = Step(n, f[n - 1])
        BY <2>2, <2>4, <3>2
      <4> HIDE DEF g
      <4> QED BY <2>3, <4>1
    <3> QED BY <3>1, <3>2
  <2>6. g = [n \in 0 .. m + 1 |-> g[n]]
    OBVIOUS
  <2> HIDE DEF g
  <2>7. g = [n \in 0 .. m + 1 |-> Step(n, g[n - 1])]
    BY <2>5, <2>6
  <2>8. Fills(q, roles, ready, m + 1, g)
    BY <2>7, Zenon DEF Fills
  <2> QED BY <2>8
<1>3. \A m \in Nat : m \in T
  <2> HIDE DEF T
  <2> QED BY <1>1, <1>2, Counting
<1> QED BY <1>3

\* Every role of the list that is ready is queued once, and none other.
IsQueued(q, roles, ready, R, e) ==
  /\ e \in Seq(R) /\ Once(e) /\ Elems(e) = Elems(q) \cup (ready \cap Elems(roles))
  /\ q # <<>> => e # <<>> /\ e[1] = q[1]

LEMMA EnqueueIs ==
  ASSUME NEW R, NEW roles \in Seq(R), Once(roles), NEW q \in Seq(R), Once(q),
         NEW ready, ready \cap Elems(q) = {}
  PROVE  IsQueued(q, roles, ready, R, Enqueue(q, roles, ready))
<1>1. PICK m \in Nat : m = Len(roles) /\ DOMAIN roles = 1 .. m
  OBVIOUS
<1>2. Enqueue(q, roles, ready) = (CHOOSE f : Fills(q, roles, ready, Len(roles), f))[Len(roles)]
  BY Zenon DEF Enqueue, Fills
<1>3. PICK f : Fills(q, roles, ready, m, f) /\ Enqueue(q, roles, ready) = f[m]
  <2>1. \E f : Fills(q, roles, ready, m, f)
    BY FillsExists
  <2> QED BY <1>1, <1>2, <2>1
<1>4. f[0] = q /\ \A n \in 1 .. m : f[n] = IF roles[n] \in ready THEN Append(f[n - 1], roles[n]) ELSE f[n - 1]
  <2>1. f = [n \in 0 .. m |-> IF n = 0 THEN q
                        ELSE IF roles[n] \in ready THEN Append(f[n - 1], roles[n]) ELSE f[n - 1]]
    BY <1>3 DEF Fills
  <2>2. PICK g : g = [n \in 0 .. m |-> IF n = 0 THEN q
                        ELSE IF roles[n] \in ready THEN Append(f[n - 1], roles[n]) ELSE f[n - 1]]
    OBVIOUS
  <2>3. g[0] = q /\ \A n \in 1 .. m : g[n] = IF roles[n] \in ready THEN Append(f[n - 1], roles[n]) ELSE f[n - 1]
    BY <2>2
  <2> QED BY <2>1, <2>2, <2>3
<1> DEFINE Seen(n) == {roles[i] : i \in 1 .. n}
           P(n) == /\ f[n] \in Seq(R) /\ Once(f[n]) /\ Elems(f[n]) = Elems(q) \cup (ready \cap Seen(n))
                   /\ q # <<>> => f[n] # <<>> /\ f[n][1] = q[1]
           T == {n \in Nat : n <= m => P(n)}
<1>5. 0 \in T
  <2>1. Seen(0) = {}
    OBVIOUS
  <2> QED BY <1>4, <2>1
<1>6. ASSUME NEW n \in Nat, n \in T PROVE n + 1 \in T
  <2> SUFFICES ASSUME n + 1 <= m PROVE P(n + 1)
    OBVIOUS
  <2>1. P(n) /\ n + 1 \in 1 .. m /\ n + 1 - 1 = n
    BY <1>6
  <2>2. f[n + 1] = IF roles[n + 1] \in ready THEN Append(f[n], roles[n + 1]) ELSE f[n]
    BY <1>4, <2>1
  <2>3. Seen(n + 1) = Seen(n) \cup {roles[n + 1]}
    <3>1. \A i \in 1 .. n + 1 : i \in 1 .. n \/ i = n + 1
      OBVIOUS
    <3> QED BY <3>1
  <2>4. roles[n + 1] \in R /\ roles[n + 1] \notin Seen(n)
    <3>1. n + 1 \in DOMAIN roles /\ \A i \in 1 .. n : i \in DOMAIN roles /\ i # n + 1
      BY <1>1, <2>1
    <3>2. \A i \in 1 .. n : roles[i] # roles[n + 1]
      BY <3>1 DEF Once
    <3>3. roles[n + 1] \in R
      BY <3>1
    <3> QED BY <3>2, <3>3
  <2> HIDE DEF Seen
  <2>5. CASE roles[n + 1] \in ready
    <3>1. roles[n + 1] \notin Elems(f[n])
      BY <2>1, <2>4, <2>5
    <3>2. PICK s \in Seq(R) : s = f[n] /\ Once(s) /\ Elems(s) = Elems(q) \cup (ready \cap Seen(n))
      BY <2>1
    <3>3. PICK x \in R : x = roles[n + 1]
      BY <2>4
    <3>4. /\ Append(s, x) \in Seq(R) /\ Elems(Append(s, x)) = Elems(s) \cup {x}
          /\ Once(s) /\ x \notin Elems(s) => Once(Append(s, x))
          /\ s # <<>> => Append(s, x) # <<>> /\ Append(s, x)[1] = s[1]
      BY ElemsAppend
    <3>5. f[n + 1] = Append(s, x)
      BY <2>2, <2>5, <3>2, <3>3
    <3>6. q # <<>> => s # <<>> /\ s[1] = q[1]
      BY <2>1, <3>2
    <3>7. PICK e : e = Append(s, x)
      OBVIOUS
    <3>8. f[n + 1] = e /\ (q # <<>> => e # <<>> /\ e[1] = q[1])
      BY <3>4, <3>5, <3>6, <3>7
    <3>9. e \in Seq(R) /\ Elems(e) = Elems(s) \cup {x} /\ Once(e)
      BY <3>1, <3>2, <3>3, <3>4, <3>7
    <3>10. Elems(e) = Elems(q) \cup (ready \cap Seen(n + 1))
      BY <2>3, <2>5, <3>2, <3>3, <3>9
    <3> HIDE DEF P
    <3> QED BY <3>8, <3>9, <3>10 DEF P
  <2>6. CASE roles[n + 1] \notin ready
    BY <2>1, <2>2, <2>3, <2>6
  <2> QED BY <2>5, <2>6
<1>7. m \in T
  <2>1. \A n \in Nat : n \in T
    <3> HIDE DEF T
    <3> QED BY <1>5, <1>6, Counting
  <2> QED BY <2>1
<1>8. Seen(m) = Elems(roles)
  BY <1>1 DEF Elems
<1> HIDE DEF Seen
<1> QED BY <1>3, <1>7, <1>8 DEF IsQueued

\* The queue without its last, and with its last in front.
Taken(R, q, x, rest, w) ==
  /\ x \in R /\ rest \in Seq(R) /\ Once(rest) /\ x \notin Elems(rest) /\ Elems(q) = Elems(rest) \cup {x}
  /\ w \in Seq(R) /\ Once(w) /\ Elems(w) = Elems(q)

LEMMA LastTaken ==
  ASSUME NEW R, NEW q \in Seq(R), q # <<>>, Once(q), NEW x, x = q[Len(q)],
         NEW rest, rest = SubSeq(q, 1, Len(q) - 1), NEW w, w = <<x>> \o rest
  PROVE  Taken(R, q, x, rest, w)
<1>1. PICK n \in Nat : n + 1 = Len(q) /\ DOMAIN q = 1 .. n + 1
  <2>1. Len(q) \in Nat /\ Len(q) # 0 /\ DOMAIN q = 1 .. Len(q)
    OBVIOUS
  <2>2. Len(q) - 1 \in Nat /\ Len(q) - 1 + 1 = Len(q)
    BY <2>1
  <2> QED BY <2>1, <2>2
<1>2. x = q[n + 1] /\ x \in R /\ rest = SubSeq(q, 1, n)
  BY <1>1
<1>3. rest \in Seq(R) /\ Len(rest) = n /\ DOMAIN rest = 1 .. n /\ \A i \in 1 .. n : rest[i] = q[i]
  BY <1>1, <1>2
<1>4. \A i \in 1 .. n + 1 : i \in 1 .. n \/ i = n + 1
  OBVIOUS
<1>5. n + 1 \in 1 .. n + 1 /\ \A i \in 1 .. n : i \in 1 .. n + 1 /\ i # n + 1
  OBVIOUS
<1>6. Once(rest) /\ x \notin Elems(rest) /\ Elems(q) = Elems(rest) \cup {x}
  <2>1. Once(rest)
    BY <1>1, <1>3, <1>5 DEF Once
  <2>2. x \notin Elems(rest)
    BY <1>1, <1>2, <1>3, <1>5 DEF Once, Elems
  <2>3. Elems(q) = Elems(rest) \cup {x}
    BY <1>1, <1>2, <1>3, <1>4, <1>5 DEF Elems
  <2> QED BY <2>1, <2>2, <2>3
<1>7. w \in Seq(R) /\ Len(w) = n + 1 /\ DOMAIN w = 1 .. n + 1 /\ w[1] = x /\ \A i \in 1 .. n + 1 : i # 1 => w[i] = rest[i - 1]
  <2>1. <<x>> \in Seq(R) /\ Len(<<x>>) = 1 /\ <<x>>[1] = x
    BY <1>2
  <2> QED BY <1>3, <2>1
<1>8. \A i \in 1 .. n + 1 : i # 1 => i - 1 \in 1 .. n
  OBVIOUS
<1>9. \A i \in 1 .. n : i + 1 \in 1 .. n + 1 /\ i + 1 # 1 /\ i + 1 - 1 = i
  OBVIOUS
<1>10. Elems(w) = Elems(rest) \cup {x}
  <2>1. \A i \in 1 .. n + 1 : w[i] \in Elems(rest) \cup {x}
    BY <1>3, <1>7, <1>8 DEF Elems
  <2>2. x \in Elems(w)
    <3>1. 1 \in DOMAIN w
      BY <1>7
    <3> QED BY <1>7, <3>1 DEF Elems
  <2>3. \A i \in 1 .. n : rest[i] \in Elems(w)
    <3> TAKE i \in 1 .. n
    <3>1. PICK k \in 1 .. n + 1 : k = i + 1 /\ k # 1 /\ k - 1 = i
      BY <1>9
    <3>2. w[k] = rest[k - 1]
      BY <1>7, <3>1
    <3> QED BY <1>7, <3>1, <3>2 DEF Elems
  <2>4. Elems(w) \subseteq Elems(rest) \cup {x}
    BY <1>7, <2>1 DEF Elems
  <2>5. Elems(rest) \subseteq Elems(w)
    <3>1. DOMAIN rest = 1 .. n
      BY <1>3
    <3>2. \A i \in DOMAIN rest : rest[i] \in Elems(w)
      BY <2>3, <3>1
    <3> SUFFICES ASSUME NEW y \in Elems(rest) PROVE y \in Elems(w)
      OBVIOUS
    <3>3. PICK i \in DOMAIN rest : y = rest[i]
      BY DEF Elems
    <3> QED BY <3>2, <3>3
  <2> QED BY <2>2, <2>4, <2>5
<1>11. Once(w)
  <2> SUFFICES ASSUME NEW i \in 1 .. n + 1, NEW j \in 1 .. n + 1, w[i] = w[j] PROVE i = j
    BY <1>7 DEF Once
  <2>1. CASE i = 1 /\ j = 1
    BY <2>1
  <2>2. CASE i = 1 /\ j # 1
    <3>1. w[j] = rest[j - 1] /\ j - 1 \in 1 .. n /\ w[i] = x
      BY <1>7, <1>8, <2>2
    <3>2. rest[j - 1] \in Elems(rest)
      BY <1>3, <3>1 DEF Elems
    <3> QED BY <1>6, <3>1, <3>2
  <2>3. CASE i # 1 /\ j = 1
    <3>1. w[i] = rest[i - 1] /\ i - 1 \in 1 .. n /\ w[j] = x
      BY <1>7, <1>8, <2>3
    <3>2. rest[i - 1] \in Elems(rest)
      BY <1>3, <3>1 DEF Elems
    <3> QED BY <1>6, <3>1, <3>2
  <2>4. CASE i # 1 /\ j # 1
    <3>1. i - 1 \in 1 .. n /\ j - 1 \in 1 .. n /\ rest[i - 1] = rest[j - 1]
      BY <1>7, <1>8, <2>4
    <3>2. i - 1 = j - 1
      BY <1>3, <1>6, <3>1 DEF Once
    <3> QED BY <3>2
  <2> QED BY <2>1, <2>2, <2>3, <2>4
<1> QED BY <1>2, <1>3, <1>6, <1>7, <1>10, <1>11 DEF Taken

\* What holds of the loop of topoOrder.
Precede(deps, o) == \A i \in DOMAIN o : deps[o[i]] \subseteq {o[j] : j \in 1 .. i - 1}

Sorting(roles, deps, s) ==
  /\ s = [queue |-> s.queue, order |-> s.order, unmet |-> s.unmet]
  /\ s.order \in Seq(Elems(roles)) /\ s.queue \in Seq(Elems(roles)) /\ Once(s.order) /\ Once(s.queue)
  /\ Elems(s.order) \cap Elems(s.queue) = {}
  /\ DOMAIN s.unmet = Elems(roles) /\ \A r \in Elems(roles) : s.unmet[r] = deps[r] \ Elems(s.order)
  /\ Precede(deps, s.order)
  /\ \A r \in Elems(s.queue) : deps[r] \subseteq Elems(s.order)

LEMMA OrderedMet ==
  ASSUME NEW deps, NEW o, NEW R, o \in Seq(R), Precede(deps, o)
  PROVE  \A r \in Elems(o) : deps[r] \subseteq Elems(o)
<1> SUFFICES ASSUME NEW i \in DOMAIN o PROVE deps[o[i]] \subseteq Elems(o)
  BY DEF Elems
<1>1. DOMAIN o = 1 .. Len(o) /\ Len(o) \in Nat
  OBVIOUS
<1>2. \A j \in 1 .. i - 1 : j \in DOMAIN o
  BY <1>1
<1>3. deps[o[i]] \subseteq {o[j] : j \in 1 .. i - 1}
  BY DEF Precede
<1> QED BY <1>2, <1>3 DEF Elems

LEMMA SortingStart ==
  ASSUME NEW R, NEW roles \in Seq(R), Once(roles), NEW deps
  PROVE  Sorting(roles, deps, TopoStart(roles, deps))
<1>1. PICK E : E = Elems(roles)
  OBVIOUS
<1>2. roles \in Seq(E) /\ <<>> \in Seq(E) /\ Elems(<<>>) = {} /\ Once(<<>>)
  <2>1. Len(roles) \in Nat /\ DOMAIN roles = 1 .. Len(roles) /\ roles = [i \in 1 .. Len(roles) |-> roles[i]]
    OBVIOUS
  <2>2. \A i \in 1 .. Len(roles) : roles[i] \in E
    BY <1>1, <2>1 DEF Elems
  <2>3. roles \in Seq(E)
    BY <2>1, <2>2
  <2> QED BY <2>3 DEF Elems, Once
<1>3. PICK ready : ready = {r \in E : deps[r] = {}}
  OBVIOUS
<1>4. PICK q : q = Enqueue(<<>>, roles, ready)
  OBVIOUS
<1>5. IsQueued(<<>>, roles, ready, E, q)
  <2>1. ready \cap Elems(<<>>) = {}
    BY <1>2
  <2> QED BY <1>2, <1>4, <2>1, EnqueueIs
<1>6. PICK s : s = TopoStart(roles, deps)
  OBVIOUS
<1>7. s = [queue |-> q, order |-> <<>>, unmet |-> [r \in E |-> deps[r]]]
  BY <1>1, <1>3, <1>4, <1>6 DEF TopoStart, Elems
<1>8. s.queue = q /\ s.order = <<>> /\ s.unmet = [r \in E |-> deps[r]]
  BY <1>7
<1>9. Precede(deps, <<>>)
  BY DEF Precede
<1>10. \A r \in Elems(q) : deps[r] \subseteq {}
  BY <1>2, <1>3, <1>5 DEF IsQueued
<1>11. s = [queue |-> s.queue, order |-> s.order, unmet |-> s.unmet]
  BY <1>7, <1>8
<1>12. q \in Seq(E) /\ Once(q)
  BY <1>5 DEF IsQueued
<1> QED BY <1>1, <1>2, <1>6, <1>8, <1>9, <1>10, <1>11, <1>12 DEF Sorting

LEMMA SortingStep ==
  ASSUME NEW R, NEW roles \in Seq(R), Once(roles), NEW deps, NEW endpoint, NEW s, Sorting(roles, deps, s), s.queue # <<>>
  PROVE  Sorting(roles, deps, TopoStep(roles, deps, endpoint, s))
<1>1. PICK E : E = Elems(roles)
  OBVIOUS
<1>2. roles \in Seq(E)
  <2>1. Len(roles) \in Nat /\ DOMAIN roles = 1 .. Len(roles) /\ roles = [i \in 1 .. Len(roles) |-> roles[i]]
    OBVIOUS
  <2>2. \A i \in 1 .. Len(roles) : roles[i] \in E
    BY <1>1, <2>1 DEF Elems
  <2> QED BY <2>1, <2>2
<1>3. PICK q : q = s.queue
  OBVIOUS
<1>4. PICK o : o = s.order
  OBVIOUS
<1>5. PICK u : u = s.unmet
  OBVIOUS
<1>6. /\ s = [queue |-> q, order |-> o, unmet |-> u]
      /\ o \in Seq(E) /\ q \in Seq(E) /\ Once(o) /\ Once(q) /\ q # <<>>
      /\ Elems(o) \cap Elems(q) = {}
      /\ DOMAIN u = E /\ \A r \in E : u[r] = deps[r] \ Elems(o)
      /\ Precede(deps, o)
      /\ \A r \in Elems(q) : deps[r] \subseteq Elems(o)
  BY <1>1, <1>3, <1>4, <1>5 DEF Sorting
<1>7. PICK name : name = q[Len(q)]
  OBVIOUS
<1>8. PICK rest : rest = SubSeq(q, 1, Len(q) - 1)
  OBVIOUS
<1>9. PICK w : w = <<name>> \o rest
  OBVIOUS
<1>10. Taken(E, q, name, rest, w)
  BY <1>6, <1>7, <1>8, <1>9, LastTaken
<1>11. /\ name \in E /\ rest \in Seq(E) /\ Once(rest) /\ name \notin Elems(rest) /\ Elems(q) = Elems(rest) \cup {name}
      /\ w \in Seq(E) /\ Once(w) /\ Elems(w) = Elems(q)
  BY <1>10 DEF Taken
<1>12. PICK ready : ready = {r \in DOMAIN u : u[r] = {name}}
  OBVIOUS
<1>13. PICK t : t = TopoStep(roles, deps, endpoint, s)
  OBVIOUS
<1>14. \/ t = [s EXCEPT !.queue = <<name>> \o rest]
       \/ t = [queue |-> Enqueue(rest, roles, ready), order |-> Append(o, name), unmet |-> [r \in DOMAIN u |-> u[r] \ {name}]]
  BY <1>3, <1>4, <1>5, <1>7, <1>8, <1>12, <1>13 DEF TopoStep
<1>15. CASE t = [s EXCEPT !.queue = <<name>> \o rest]
  <2>1. t = [queue |-> w, order |-> o, unmet |-> u]
    BY <1>6, <1>15, <1>9
  <2>2. t.queue = w /\ t.order = o /\ t.unmet = u
    BY <2>1
  <2> QED BY <1>1, <1>6, <1>11, <1>13, <2>1, <2>2 DEF Sorting
<1>16. CASE t = [queue |-> Enqueue(rest, roles, ready), order |-> Append(o, name), unmet |-> [r \in DOMAIN u |-> u[r] \ {name}]]
  <2>1. PICK e : e = Enqueue(rest, roles, ready)
    OBVIOUS
  <2>2. PICK p : p = Append(o, name)
    OBVIOUS
  <2>3. PICK v : v = [r \in DOMAIN u |-> u[r] \ {name}]
    OBVIOUS
  <2>4. t = [queue |-> e, order |-> p, unmet |-> v] /\ t.queue = e /\ t.order = p /\ t.unmet = v
    BY <1>16, <2>1, <2>2, <2>3
  <2>5. \A r \in Elems(o) : deps[r] \subseteq Elems(o)
    BY <1>6, OrderedMet
  <2>6. \A r \in ready : r \in E /\ deps[r] \ Elems(o) = {name}
    BY <1>6, <1>12
  <2>7. name \in Elems(q) /\ name \notin Elems(o) /\ deps[name] \subseteq Elems(o)
    BY <1>6, <1>11
  <2>8. ready \cap Elems(q) = {} /\ ready \cap Elems(o) = {}
    <3>1. \A r \in ready : name \in deps[r] /\ name \notin Elems(o)
      BY <2>6, <2>7
    <3>2. \A r \in Elems(q) : name \notin deps[r]
      BY <1>6, <2>7
    <3>3. \A r \in Elems(o) : name \notin deps[r]
      BY <2>5, <2>7
    <3> QED BY <3>1, <3>2, <3>3
  <2>9. IsQueued(rest, roles, ready, E, e)
    <3>1. ready \cap Elems(rest) = {}
      BY <1>11, <2>8
    <3> QED BY <1>2, <1>11, <2>1, <3>1, EnqueueIs
  <2>10. e \in Seq(E) /\ Once(e) /\ Elems(e) = Elems(rest) \cup ready
    BY <1>1, <2>6, <2>9 DEF IsQueued
  <2>11. p \in Seq(E) /\ Elems(p) = Elems(o) \cup {name} /\ Once(p)
    BY <1>6, <1>11, <2>2, <2>7, ElemsAppend
  <2>12. Elems(p) \cap Elems(e) = {}
    BY <1>6, <1>11, <2>7, <2>8, <2>10, <2>11
  <2>13. DOMAIN v = E /\ \A r \in E : v[r] = deps[r] \ Elems(p)
    <3>1. DOMAIN v = E /\ \A r \in E : v[r] = u[r] \ {name}
      BY <1>6, <2>3
    <3> QED BY <1>6, <2>11, <3>1
  <2>14. \A r \in Elems(e) : deps[r] \subseteq Elems(p)
    BY <1>6, <1>11, <2>6, <2>10, <2>11
  <2>15. Precede(deps, p)
    <3>1. PICK n \in Nat : n = Len(o) /\ DOMAIN o = 1 .. n
      BY <1>6
    <3>2. DOMAIN p = 1 .. n + 1 /\ p[n + 1] = name /\ \A i \in 1 .. n : p[i] = o[i]
      BY <1>6, <1>11, <2>2, <3>1
    <3> SUFFICES ASSUME NEW i \in 1 .. n + 1 PROVE deps[p[i]] \subseteq {p[j] : j \in 1 .. i - 1}
      BY <3>2 DEF Precede
    <3>3. CASE i = n + 1
      <4>1. i - 1 = n
        BY <3>3
      <4>2. {p[j] : j \in 1 .. n} = Elems(o)
        BY <3>1, <3>2 DEF Elems
      <4> QED BY <2>7, <3>2, <3>3, <4>1, <4>2
    <3>4. CASE i # n + 1
      <4>1. i \in 1 .. n /\ \A j \in 1 .. i - 1 : j \in 1 .. n
        BY <3>4
      <4>2. deps[o[i]] \subseteq {o[j] : j \in 1 .. i - 1}
        BY <1>6, <3>1, <4>1 DEF Precede
      <4>3. {o[j] : j \in 1 .. i - 1} = {p[j] : j \in 1 .. i - 1}
        BY <3>2, <4>1
      <4> QED BY <3>2, <4>1, <4>2, <4>3
    <3> QED BY <3>3, <3>4
  <2> QED BY <1>1, <1>13, <2>4, <2>10, <2>11, <2>12, <2>13, <2>14, <2>15 DEF Sorting
<1> QED BY <1>14, <1>15, <1>16

\* How far the loop is: it has ordered a role in every turn but the one in which
\* it sent the endpoint to the front, where the endpoint stays until it is alone.
\* A role neither ordered nor queued waits for one that is not ordered.
Advancing(roles, endpoint, n, s) ==
  /\ \/ s.queue = <<>>
     \/ Len(s.order) = n
     \/ Len(s.order) + 1 = n /\ (endpoint \in Elems(s.order) \/ s.queue[1] = endpoint)
  /\ \A r \in Elems(roles) : r \in Elems(s.order) \/ r \in Elems(s.queue) \/ s.unmet[r] # {}

LEMMA AdvancingStart ==
  ASSUME NEW R, NEW roles \in Seq(R), Once(roles), NEW deps, NEW endpoint
  PROVE  Advancing(roles, endpoint, 0, TopoStart(roles, deps))
<1>1. PICK E : E = Elems(roles)
  OBVIOUS
<1>2. <<>> \in Seq(R) /\ Elems(<<>>) = {} /\ Once(<<>>)
  BY DEF Elems, Once
<1>3. PICK ready : ready = {r \in E : deps[r] = {}}
  OBVIOUS
<1>4. PICK q : q = Enqueue(<<>>, roles, ready)
  OBVIOUS
<1>5. IsQueued(<<>>, roles, ready, R, q)
  <2>1. ready \cap Elems(<<>>) = {}
    BY <1>2
  <2> QED BY <1>2, <1>4, <2>1, EnqueueIs
<1>6. PICK s : s = TopoStart(roles, deps)
  OBVIOUS
<1>7. s = [queue |-> q, order |-> <<>>, unmet |-> [r \in E |-> deps[r]]]
  BY <1>1, <1>3, <1>4, <1>6 DEF TopoStart, Elems
<1>8. s.queue = q /\ s.order = <<>> /\ \A r \in E : s.unmet[r] = deps[r]
  BY <1>7
<1>9. \A r \in E : r \in Elems(q) \/ deps[r] # {}
  BY <1>1, <1>3, <1>5 DEF IsQueued
<1>10. Len(s.order) = 0
  BY <1>8
<1> QED BY <1>1, <1>6, <1>8, <1>9, <1>10 DEF Advancing

LEMMA AdvancingStep ==
  ASSUME NEW R, NEW roles \in Seq(R), Once(roles), NEW deps, NEW endpoint, NEW n \in Nat,
         NEW s, Sorting(roles, deps, s), s.queue # <<>>, Advancing(roles, endpoint, n, s)
  PROVE  Advancing(roles, endpoint, n + 1, TopoStep(roles, deps, endpoint, s))
<1>1. PICK E : E = Elems(roles)
  OBVIOUS
<1>2. PICK q : q = s.queue
  OBVIOUS
<1>3. PICK o : o = s.order
  OBVIOUS
<1>4. PICK u : u = s.unmet
  OBVIOUS
<1>5. /\ s = [queue |-> q, order |-> o, unmet |-> u]
      /\ o \in Seq(E) /\ q \in Seq(E) /\ Once(o) /\ Once(q) /\ q # <<>>
      /\ Elems(o) \cap Elems(q) = {}
      /\ DOMAIN u = E /\ \A r \in E : u[r] = deps[r] \ Elems(o)
      /\ \A r \in Elems(q) : deps[r] \subseteq Elems(o)
      /\ Precede(deps, o)
  BY <1>1, <1>2, <1>3, <1>4 DEF Sorting
<1>6. /\ Len(o) = n \/ (Len(o) + 1 = n /\ (endpoint \in Elems(o) \/ q[1] = endpoint))
      /\ \A r \in E : r \in Elems(o) \/ r \in Elems(q) \/ u[r] # {}
  BY <1>1, <1>2, <1>3, <1>4 DEF Advancing
<1>7. PICK name : name = q[Len(q)]
  OBVIOUS
<1>8. PICK rest : rest = SubSeq(q, 1, Len(q) - 1)
  OBVIOUS
<1>9. PICK w : w = <<name>> \o rest
  OBVIOUS
<1>10. Taken(E, q, name, rest, w)
  BY <1>5, <1>7, <1>8, <1>9, LastTaken
<1>11. /\ name \in E /\ rest \in Seq(E) /\ Once(rest) /\ name \notin Elems(rest) /\ Elems(q) = Elems(rest) \cup {name}
       /\ w \in Seq(E) /\ Elems(w) = Elems(q)
  BY <1>10 DEF Taken
<1>12. Len(q) \in Nat /\ Len(q) # 0 /\ DOMAIN q = 1 .. Len(q)
  BY <1>5
<1>13. Len(rest) = Len(q) - 1 /\ Len(rest) \in Nat
  BY <1>5, <1>8, <1>11, <1>12
<1>14. rest = <<>> => q[1] = name
  <2> SUFFICES ASSUME rest = <<>> PROVE q[1] = name
    OBVIOUS
  <2>1. PICK a \in Nat : a = Len(q)
    BY <1>12
  <2>2. Len(rest) = 0
    OBVIOUS
  <2>3. 0 = a - 1
    BY <1>13, <2>1, <2>2, Zenon
  <2>4. a = 1
    BY <2>3
  <2> QED BY <1>7, <2>1, <2>4
<1>15. rest # <<>> => rest[1] = q[1] /\ q[1] # name
  <2> SUFFICES ASSUME rest # <<>> PROVE rest[1] = q[1] /\ q[1] # name
    OBVIOUS
  <2>1. Len(rest) = Len(q) - 1 /\ Len(rest) # 0 /\ Len(rest) \in Nat
    BY <1>11, <1>13
  <2>2. 1 \in 1 .. Len(q) - 1 /\ 1 \in DOMAIN rest
    BY <1>11, <1>12, <2>1
  <2>3. rest[1] = q[1]
    BY <1>5, <1>8, <1>12, <2>2
  <2>4. rest[1] \in Elems(rest)
    BY <2>2 DEF Elems
  <2> QED BY <1>11, <2>3, <2>4
<1>16. PICK ready : ready = {r \in DOMAIN u : u[r] = {name}}
  OBVIOUS
<1>17. PICK t : t = TopoStep(roles, deps, endpoint, s)
  OBVIOUS
<1>18. \/ name = endpoint /\ rest # <<>> /\ t = [s EXCEPT !.queue = w]
       \/ t = [queue |-> Enqueue(rest, roles, ready), order |-> Append(o, name), unmet |-> [r \in DOMAIN u |-> u[r] \ {name}]]
  BY <1>2, <1>3, <1>4, <1>7, <1>8, <1>9, <1>16, <1>17 DEF TopoStep
<1>19. Len(o) \in Nat
  BY <1>5
<1>20. CASE name = endpoint /\ rest # <<>> /\ t = [s EXCEPT !.queue = w]
  <2>1. t.queue = w /\ t.order = o /\ t.unmet = u
    BY <1>5, <1>20
  <2>2. Len(o) = n
    <3>1. name \in Elems(q) /\ name \notin Elems(o)
      BY <1>5, <1>11
    <3> QED BY <1>6, <1>15, <1>20, <3>1
  <2>3. w[1] = endpoint
    BY <1>9, <1>11, <1>20
  <2>4. Len(o) + 1 = n + 1
    BY <2>2
  <2> QED BY <1>1, <1>6, <1>11, <1>17, <2>1, <2>3, <2>4 DEF Advancing
<1>21. CASE t = [queue |-> Enqueue(rest, roles, ready), order |-> Append(o, name), unmet |-> [r \in DOMAIN u |-> u[r] \ {name}]]
  <2>1. PICK e : e = Enqueue(rest, roles, ready)
    OBVIOUS
  <2>2. PICK p : p = Append(o, name)
    OBVIOUS
  <2>3. PICK v : v = [r \in DOMAIN u |-> u[r] \ {name}]
    OBVIOUS
  <2>4. t.queue = e /\ t.order = p /\ t.unmet = v
    BY <1>21, <2>1, <2>2, <2>3
  <2>5. Elems(p) = Elems(o) \cup {name} /\ Len(p) = Len(o) + 1
    BY <1>5, <1>11, <2>2, ElemsAppend
  <2>6. IsQueued(rest, roles, ready, R, e)
    <3>1. \A r \in ready : r \in E /\ deps[r] \ Elems(o) = {name}
      BY <1>5, <1>16
    <3>2. \A r \in Elems(q) : name \notin deps[r]
      BY <1>5, <1>11
    <3>3. ready \cap Elems(rest) = {}
      BY <1>11, <3>1, <3>2
    <3>4. rest \in Seq(R)
      <4>1. E \subseteq R
        BY <1>1 DEF Elems
      <4> QED BY <1>11, <4>1
    <3> QED BY <1>11, <2>1, <3>3, <3>4, EnqueueIs
  <2>7. Elems(e) = Elems(rest) \cup ready /\ (rest # <<>> => e[1] = rest[1])
    <3>1. ready \subseteq Elems(roles)
      BY <1>1, <1>5, <1>16
    <3> QED BY <2>6, <3>1 DEF IsQueued
  <2>8. \A r \in E : r \in Elems(p) \/ r \in Elems(e) \/ v[r] # {}
    <3> TAKE r \in E
    <3>1. v[r] = u[r] \ {name}
      BY <1>5, <2>3
    <3>2. CASE u[r] = {name}
      BY <1>5, <1>16, <2>7, <3>2
    <3>3. CASE u[r] # {name} /\ u[r] # {}
      BY <3>1, <3>3
    <3>4. CASE u[r] = {}
      BY <1>6, <1>11, <2>5, <2>7, <3>4
    <3> QED BY <3>2, <3>3, <3>4
  <2>9. Len(p) = n + 1 \/ (Len(p) + 1 = n + 1 /\ (endpoint \in Elems(p) \/ e[1] = endpoint))
    <3>1. CASE Len(o) = n
      BY <2>5, <3>1
    <3>2. CASE Len(o) + 1 = n /\ endpoint \in Elems(o)
      BY <1>19, <2>5, <3>2
    <3>3. CASE Len(o) + 1 = n /\ q[1] = endpoint
      <4>1. rest = <<>> => endpoint \in Elems(p)
        BY <1>14, <2>5, <3>3
      <4>2. rest # <<>> => e[1] = endpoint
        BY <1>15, <2>7, <3>3
      <4> QED BY <1>19, <2>5, <3>3, <4>1, <4>2
    <3> QED BY <1>6, <3>1, <3>2, <3>3
  <2> QED BY <1>1, <1>17, <2>4, <2>8, <2>9 DEF Advancing
<1> QED BY <1>18, <1>20, <1>21

\* The endpoint role, when nothing depends on it, is ordered when nothing else is
\* left to order.
EndpointLast(roles, deps, endpoint, s) ==
  ~DependedOn(roles, deps, endpoint) /\ endpoint \in Elems(s.order) =>
    s.queue = <<>> /\ s.order[Len(s.order)] = endpoint

LEMMA EndpointLastStart ==
  ASSUME NEW roles, NEW deps, NEW endpoint
  PROVE  EndpointLast(roles, deps, endpoint, TopoStart(roles, deps))
<1>1. TopoStart(roles, deps).order = <<>>
  BY DEF TopoStart
<1>2. Elems(<<>>) = {}
  BY DEF Elems
<1> QED BY <1>1, <1>2 DEF EndpointLast

LEMMA EndpointLastStep ==
  ASSUME NEW R, NEW roles \in Seq(R), Once(roles), NEW deps, NEW endpoint,
         NEW s, Sorting(roles, deps, s), s.queue # <<>>, EndpointLast(roles, deps, endpoint, s)
  PROVE  EndpointLast(roles, deps, endpoint, TopoStep(roles, deps, endpoint, s))
<1> SUFFICES ASSUME NEW t, t = TopoStep(roles, deps, endpoint, s), ~DependedOn(roles, deps, endpoint), endpoint \in Elems(t.order)
             PROVE  t.queue = <<>> /\ t.order[Len(t.order)] = endpoint
  BY DEF EndpointLast
<1>1. PICK E : E = Elems(roles)
  OBVIOUS
<1>2. PICK q : q = s.queue
  OBVIOUS
<1>3. PICK o : o = s.order
  OBVIOUS
<1>4. PICK u : u = s.unmet
  OBVIOUS
<1>5. /\ s = [queue |-> q, order |-> o, unmet |-> u]
      /\ o \in Seq(E) /\ q \in Seq(E) /\ Once(q) /\ q # <<>>
      /\ DOMAIN u = E /\ \A r \in E : u[r] \subseteq deps[r]
  BY <1>1, <1>2, <1>3, <1>4 DEF Sorting
<1>6. endpoint \notin Elems(o)
  BY <1>2, <1>3, <1>5 DEF EndpointLast
<1>7. PICK name : name = q[Len(q)]
  OBVIOUS
<1>8. PICK rest : rest = SubSeq(q, 1, Len(q) - 1)
  OBVIOUS
<1>9. PICK w : w = <<name>> \o rest
  OBVIOUS
<1>10. Taken(E, q, name, rest, w)
  BY <1>5, <1>7, <1>8, <1>9, LastTaken
<1>11. PICK ready : ready = {r \in DOMAIN u : u[r] = {name}}
  OBVIOUS
<1>12. \/ t = [s EXCEPT !.queue = w]
       \/ /\ ~(name = endpoint /\ ~DependedOn(roles, deps, name) /\ rest # <<>>)
          /\ t = [queue |-> Enqueue(rest, roles, ready), order |-> Append(o, name), unmet |-> [r \in DOMAIN u |-> u[r] \ {name}]]
  BY <1>2, <1>3, <1>4, <1>7, <1>8, <1>9, <1>11 DEF TopoStep
<1>13. CASE t = [s EXCEPT !.queue = w]
  <2>1. t.order = o
    BY <1>5, <1>13
  <2> QED BY <1>6, <2>1
<1>14. CASE /\ ~(name = endpoint /\ ~DependedOn(roles, deps, name) /\ rest # <<>>)
            /\ t = [queue |-> Enqueue(rest, roles, ready), order |-> Append(o, name), unmet |-> [r \in DOMAIN u |-> u[r] \ {name}]]
  <2>1. t.queue = Enqueue(rest, roles, ready) /\ t.order = Append(o, name)
    BY <1>14
  <2>2. name \in E
    BY <1>10 DEF Taken
  <2>3. PICK p : p = Append(o, name)
    OBVIOUS
  <2>4. Elems(p) = Elems(o) \cup {name} /\ p[Len(p)] = name
    BY <1>5, <2>2, <2>3, ElemsAppend
  <2>5. name = endpoint /\ rest = <<>>
    BY <1>6, <1>14, <2>1, <2>3, <2>4
  <2>6. ready = {}
    <3>1. \A r \in E : endpoint \notin deps[r]
      BY <1>1 DEF DependedOn, Elems
    <3> QED BY <1>5, <1>11, <2>5, <3>1
  <2>7. PICK e : e = Enqueue(rest, roles, ready)
    OBVIOUS
  <2>8. IsQueued(rest, roles, ready, R, e)
    <3>1. rest \in Seq(R) /\ Once(rest) /\ ready \cap Elems(rest) = {}
      BY <2>5, <2>6 DEF Once
    <3> QED BY <2>7, <3>1, EnqueueIs
  <2>9. e \in Seq(R) /\ Elems(e) = {}
    <3>1. Elems(rest) = {}
      BY <2>5 DEF Elems
    <3> QED BY <2>6, <2>8, <3>1 DEF IsQueued
  <2>10. e = <<>>
    <3>1. Len(e) \in Nat /\ DOMAIN e = 1 .. Len(e)
      BY <2>9
    <3>2. 1 \notin DOMAIN e
      BY <2>9 DEF Elems
    <3>3. Len(e) = 0
      BY <3>1, <3>2
    <3> QED BY <2>9, <3>3
  <2> QED BY <2>1, <2>3, <2>4, <2>5, <2>7, <2>10
<1> QED BY <1>12, <1>13, <1>14

\* The function the loop of topoOrder is written with.
Turn(roles, deps, endpoint, n, y) ==
  IF n = 0 THEN TopoStart(roles, deps)
  ELSE IF y.queue = <<>> THEN y ELSE TopoStep(roles, deps, endpoint, y)

Turns(roles, deps, endpoint, m, f) ==
  f = [n \in 0 .. m |-> Turn(roles, deps, endpoint, n, f[n - 1])]

LEMMA TurnsExist ==
  ASSUME NEW roles, NEW deps, NEW endpoint
  PROVE  \A m \in Nat : \E f : Turns(roles, deps, endpoint, m, f)
<1> DEFINE T == {m \in Nat : \E f : Turns(roles, deps, endpoint, m, f)}
           Step(n, y) == Turn(roles, deps, endpoint, n, y)
<1>0. \A y, z : Step(0, y) = Step(0, z)
  BY DEF Turn
<1> HIDE DEF Step
<1>1. 0 \in T
  <2> DEFINE f == [n \in 0 .. 0 |-> Step(0, 0)]
  <2>1. \A n \in 0 .. 0 : Step(n, f[n - 1]) = Step(0, 0)
    BY <1>0
  <2>2. f = [n \in 0 .. 0 |-> Step(n, f[n - 1])]
    BY <2>1
  <2> HIDE DEF f
  <2>3. Turns(roles, deps, endpoint, 0, f)
    BY <2>2, Zenon DEF Turns, Step
  <2> QED BY <2>3
<1>2. ASSUME NEW m \in Nat, m \in T PROVE m + 1 \in T
  <2>1. PICK f : Turns(roles, deps, endpoint, m, f)
    BY <1>2
  <2> DEFINE g == [n \in 0 .. m + 1 |-> IF n = m + 1 THEN Step(m + 1, f[m]) ELSE f[n]]
  <2>2. \A n \in 0 .. m : f[n] = Step(n, f[n - 1])
    <3>1. f = [n \in 0 .. m |-> Step(n, f[n - 1])]
      BY <2>1, Zenon DEF Turns, Step
    <3>2. PICK h : h = [n \in 0 .. m |-> Step(n, f[n - 1])]
      OBVIOUS
    <3>3. \A n \in 0 .. m : h[n] = Step(n, f[n - 1])
      BY <3>2
    <3> QED BY <3>1, <3>2, <3>3
  <2>3. \A n \in 0 .. m + 1 : n # 0 => n - 1 \in 0 .. m /\ g[n - 1] = f[n - 1]
    OBVIOUS
  <2>4. \A n \in 0 .. m + 1 : n # m + 1 => n \in 0 .. m
    OBVIOUS
  <2>5. \A n \in 0 .. m + 1 : g[n] = Step(n, g[n - 1])
    <3> TAKE n \in 0 .. m + 1
    <3>1. CASE n = m + 1
      <4>1. n # 0 /\ n - 1 = m
        BY <3>1
      <4>2. g[n] = Step(n, f[m]) /\ g[n - 1] = f[m]
        BY <2>3, <3>1, <4>1
      <4> QED BY <4>2
    <3>2. CASE n # m + 1
      <4>1. g[n] = Step(n, f[n - 1])
        BY <2>2, <2>4, <3>2
      <4> HIDE DEF g
      <4>2. CASE n = 0
        BY <1>0, <4>1, <4>2
      <4>3. CASE n # 0
        BY <2>3, <4>1, <4>3
      <4> QED BY <4>2, <4>3
    <3> QED BY <3>1, <3>2
  <2>6. g = [n \in 0 .. m + 1 |-> g[n]]
    OBVIOUS
  <2> HIDE DEF g
  <2>7. g = [n \in 0 .. m + 1 |-> Step(n, g[n - 1])]
    BY <2>5, <2>6
  <2>8. Turns(roles, deps, endpoint, m + 1, g)
    BY <2>7, Zenon DEF Turns, Step
  <2> QED BY <2>8
<1>3. \A m \in Nat : m \in T
  <2> HIDE DEF T
  <2> QED BY <1>1, <1>2, Counting
<1> QED BY <1>3

\* What the loop ends with, whatever the roles depend on.
LEMMA TopoRunIs ==
  ASSUME NEW R, NEW roles \in Seq(R), Once(roles), NEW deps, NEW endpoint
  PROVE  /\ Sorting(roles, deps, TopoRun(roles, deps, endpoint))
         /\ Advancing(roles, endpoint, Len(roles) + 1, TopoRun(roles, deps, endpoint))
         /\ EndpointLast(roles, deps, endpoint, TopoRun(roles, deps, endpoint))
<1>1. PICK m \in Nat : m = Len(roles) + 1
  OBVIOUS
<1>2. TopoRun(roles, deps, endpoint) = (CHOOSE f : Turns(roles, deps, endpoint, Len(roles) + 1, f))[Len(roles) + 1]
  BY Zenon DEF TopoRun, Turns, Turn
<1>3. PICK f : Turns(roles, deps, endpoint, m, f) /\ TopoRun(roles, deps, endpoint) = f[m]
  <2>1. \E f : Turns(roles, deps, endpoint, m, f)
    BY TurnsExist
  <2> QED BY <1>1, <1>2, <2>1
<1>4. \A n \in 0 .. m : f[n] = Turn(roles, deps, endpoint, n, f[n - 1])
  <2>1. f = [n \in 0 .. m |-> Turn(roles, deps, endpoint, n, f[n - 1])]
    BY <1>3 DEF Turns
  <2>2. PICK h : h = [n \in 0 .. m |-> Turn(roles, deps, endpoint, n, f[n - 1])]
    OBVIOUS
  <2>3. \A n \in 0 .. m : h[n] = Turn(roles, deps, endpoint, n, f[n - 1])
    BY <2>2
  <2> QED BY <2>1, <2>2, <2>3
<1> DEFINE Holds(n, y) ==
             Sorting(roles, deps, y) /\ Advancing(roles, endpoint, n, y) /\ EndpointLast(roles, deps, endpoint, y)
           T == {n \in Nat : n <= m => Holds(n, f[n])}
<1>5. 0 \in T
  <2>1. f[0] = TopoStart(roles, deps)
    BY <1>4 DEF Turn
  <2>2. Holds(0, TopoStart(roles, deps))
    BY SortingStart, AdvancingStart, EndpointLastStart
  <2> QED BY <2>1, <2>2
<1>6. ASSUME NEW n \in Nat, n \in T PROVE n + 1 \in T
  <2> SUFFICES ASSUME n + 1 <= m PROVE Holds(n + 1, f[n + 1])
    OBVIOUS
  <2>1. Holds(n, f[n]) /\ n + 1 \in 0 .. m /\ n + 1 # 0 /\ n + 1 - 1 = n
    BY <1>6
  <2>2. PICK y : y = f[n]
    OBVIOUS
  <2>3. f[n + 1] = IF y.queue = <<>> THEN y ELSE TopoStep(roles, deps, endpoint, y)
    BY <1>4, <2>1, <2>2 DEF Turn
  <2>4. CASE y.queue = <<>>
    <3>1. Advancing(roles, endpoint, n + 1, y)
      BY <2>1, <2>2, <2>4 DEF Advancing
    <3> QED BY <2>1, <2>2, <2>3, <2>4, <3>1
  <2>5. CASE y.queue # <<>>
    <3>1. Sorting(roles, deps, TopoStep(roles, deps, endpoint, y))
      BY <2>1, <2>2, <2>5, SortingStep
    <3>2. Advancing(roles, endpoint, n + 1, TopoStep(roles, deps, endpoint, y))
      BY <2>1, <2>2, <2>5, AdvancingStep
    <3>3. EndpointLast(roles, deps, endpoint, TopoStep(roles, deps, endpoint, y))
      BY <2>1, <2>2, <2>5, EndpointLastStep
    <3> QED BY <2>3, <2>5, <3>1, <3>2, <3>3
  <2> QED BY <2>4, <2>5
<1>7. m \in T
  <2>1. \A n \in Nat : n \in T
    <3> HIDE DEF T
    <3> QED BY <1>5, <1>6, Counting
  <2> QED BY <2>1
<1> QED BY <1>1, <1>3, <1>7

\* A list without repetitions has as many members as it is long.
LEMMA OnceCounted ==
  ASSUME NEW R, NEW s \in Seq(R), Once(s)
  PROVE  IsFiniteSet(Elems(s)) /\ Cardinality(Elems(s)) = Len(s)
<1>1. PICK n \in Nat : n = Len(s) /\ DOMAIN s = 1 .. n
  OBVIOUS
<1>2. PICK E : E = Elems(s)
  OBVIOUS
<1>3. s \in [1 .. n -> E] /\ \A a, b \in 1 .. n : s[a] = s[b] => a = b
  BY <1>1, <1>2 DEF Elems, Once
<1>4. \A t \in E : \E i \in 1 .. n : s[i] = t
  BY <1>1, <1>2 DEF Elems
<1>5. s \in Bijection(1 .. n, E)
  BY <1>3, <1>4 DEF Bijection, Injection, Surjection, IsInjective
<1>6. ExistsBijection(1 .. n, E)
  BY <1>5 DEF ExistsBijection
<1> QED BY <1>1, <1>2, <1>6, FS_NatBijection, FS_CountingElements

\* A list of the roles, each once and after what it depends on, which is among them.
Sorted(roles, deps, o) ==
  /\ o \in Seq(Elems(roles)) /\ Once(o) /\ Elems(o) = Elems(roles)
  /\ Precede(deps, o) /\ \A r \in Elems(roles) : deps[r] \subseteq Elems(roles)

\* topoOrder, for roles with names of their own, whatever they depend on and
\* whichever is the endpoint: unless it returns an error, every role is in the
\* order once, after the roles it depends on.  Sending the endpoint back to the
\* front of the queue loses none and applies none too early.
THEOREM TopoOrderSorts ==
  ASSUME NEW R, NEW roles \in Seq(R), Once(roles), NEW deps, NEW endpoint, ~TopoError(roles, deps, endpoint)
  PROVE  Sorted(roles, deps, topoOrder(roles, deps, endpoint))
<1>1. PICK s : s = TopoRun(roles, deps, endpoint)
  OBVIOUS
<1>2. Sorting(roles, deps, s)
  BY <1>1, TopoRunIs
<1>3. PICK o : o = s.order
  OBVIOUS
<1>4. PICK E : E = Elems(roles)
  OBVIOUS
<1>5. o \in Seq(E) /\ Once(o) /\ Precede(deps, o)
  BY <1>2, <1>3, <1>4 DEF Sorting
<1>6. topoOrder(roles, deps, endpoint) = o /\ Len(o) = Len(roles) /\ ~UnknownDependency(roles, deps)
  BY <1>1, <1>3 DEF topoOrder, TopoError
<1>7. Elems(o) = E
  <2>1. IsFiniteSet(E) /\ Cardinality(E) = Len(roles)
    BY <1>4, OnceCounted
  <2>2. Cardinality(Elems(o)) = Len(o)
    BY <1>5, OnceCounted
  <2>3. Elems(o) \in SUBSET E
    BY <1>5 DEF Elems
  <2> QED BY <1>6, <2>1, <2>2, <2>3, FS_Subset
<1>8. \A r \in E : deps[r] \subseteq E
  <2>1. \A i \in DOMAIN roles : deps[roles[i]] \subseteq {roles[j] : j \in DOMAIN roles}
    BY <1>6 DEF UnknownDependency
  <2> QED BY <1>4, <2>1 DEF Elems
<1> QED BY <1>4, <1>5, <1>6, <1>7, <1>8 DEF Sorted

\* The endpoint role comes last when nothing depends on it, so that the role in
\* front of the others changes after them.
THEOREM EndpointGoesLast ==
  ASSUME NEW R, NEW roles \in Seq(R), Once(roles), NEW deps, NEW endpoint, ~TopoError(roles, deps, endpoint),
         endpoint \in Elems(roles), ~DependedOn(roles, deps, endpoint),
         NEW o, o = topoOrder(roles, deps, endpoint)
  PROVE  o[Len(o)] = endpoint
<1>1. Sorted(roles, deps, o)
  BY TopoOrderSorts
<1>2. endpoint \in Elems(o)
  BY <1>1 DEF Sorted
<1>3. EndpointLast(roles, deps, endpoint, TopoRun(roles, deps, endpoint))
  BY TopoRunIs
<1> QED BY <1>2, <1>3 DEF EndpointLast, topoOrder

\* The error topoOrder returns is one: a role depends on a name the profile does
\* not declare, or some roles each depend on another of them, so none of them can
\* come first.  The turns the model gives the loop are enough to empty the queue.
THEOREM TopoErrorIsOne ==
  ASSUME NEW R, NEW roles \in Seq(R), Once(roles), NEW deps, NEW endpoint, TopoError(roles, deps, endpoint)
  PROVE  \/ UnknownDependency(roles, deps)
         \/ \E S \in SUBSET Elems(roles) : S # {} /\ \A r \in S : deps[r] \cap S # {}
<1> SUFFICES ASSUME ~UnknownDependency(roles, deps)
             PROVE  \E S \in SUBSET Elems(roles) : S # {} /\ \A r \in S : deps[r] \cap S # {}
  OBVIOUS
<1>1. PICK s : s = TopoRun(roles, deps, endpoint)
  OBVIOUS
<1>2. Sorting(roles, deps, s) /\ Advancing(roles, endpoint, Len(roles) + 1, s)
  BY <1>1, TopoRunIs
<1>3. PICK o : o = s.order
  OBVIOUS
<1>4. PICK E : E = Elems(roles)
  OBVIOUS
<1>5. PICK q : q = s.queue
  OBVIOUS
<1>6. /\ o \in Seq(E) /\ q \in Seq(E) /\ Once(o) /\ Elems(o) \cap Elems(q) = {}
      /\ \A r \in E : s.unmet[r] = deps[r] \ Elems(o)
  BY <1>2, <1>3, <1>4, <1>5 DEF Sorting
<1>7. Len(o) # Len(roles)
  BY <1>1, <1>3 DEF TopoError
<1>8. Elems(o) # E /\ Len(o) <= Len(roles) /\ Len(o) \in Nat /\ Len(roles) \in Nat /\ Elems(o) \subseteq E
  <2>1. IsFiniteSet(E) /\ Cardinality(E) = Len(roles)
    BY <1>4, OnceCounted
  <2>2. Cardinality(Elems(o)) = Len(o)
    BY <1>6, OnceCounted
  <2>3. Elems(o) \in SUBSET E
    BY <1>6 DEF Elems
  <2>4. Cardinality(Elems(o)) <= Cardinality(E)
    BY <2>1, <2>3, FS_Subset
  <2> QED BY <1>6, <1>7, <2>1, <2>2, <2>3, <2>4
<1>9. q = <<>>
  BY <1>2, <1>3, <1>5, <1>7, <1>8 DEF Advancing
<1>10. Elems(q) = {}
  BY <1>9 DEF Elems
<1>11. \A r \in E : r \in Elems(o) \/ deps[r] \ Elems(o) # {}
  BY <1>2, <1>3, <1>4, <1>5, <1>6, <1>10 DEF Advancing
<1>12. \A r \in E : deps[r] \subseteq E
  <2>1. \A i \in DOMAIN roles : deps[roles[i]] \subseteq {roles[j] : j \in DOMAIN roles}
    BY DEF UnknownDependency
  <2> QED BY <1>4, <2>1 DEF Elems
<1> DEFINE S == E \ Elems(o)
<1>13. S # {} /\ \A r \in S : deps[r] \cap S # {}
  BY <1>8, <1>11, <1>12
<1>14. S \in SUBSET Elems(roles)
  BY <1>4
<1> QED BY <1>13, <1>14

\* The same of the order of a profile, which has a role.
Ordered(c) == Sorted(c.roles, c.deps, Order(c)) /\ Elems(c.roles) = RoleSet(c) /\ Order(c) # <<>>

LEMMA OrderIs ==
  ASSUME NEW c \in Contents, ~OrderError(c)
  PROVE  Ordered(c)
<1>1. PICK roles \in Seq(Roles) : roles = c.roles /\ roles # <<>> /\ Once(roles)
  BY RolloutAssumption DEF Once
<1>2. Order(c) = topoOrder(c.roles, c.deps, c.endpoint) /\ ~TopoError(c.roles, c.deps, c.endpoint)
  BY DEF Order, Orders, OrderError, Misordered
<1>3. Sorted(c.roles, c.deps, Order(c))
  BY <1>1, <1>2, TopoOrderSorts
<1>4. Elems(roles) # {} /\ Elems(<<>>) = {}
  <2>1. DOMAIN roles = 1 .. Len(roles) /\ Len(roles) \in Nat /\ Len(roles) # 0
    BY <1>1
  <2>2. 1 \in DOMAIN roles
    BY <2>1
  <2> QED BY <2>2 DEF Elems
<1>5. Elems(c.roles) = RoleSet(c)
  BY DEF Elems, RoleSet
<1> QED BY <1>1, <1>3, <1>4, <1>5 DEF Ordered, Sorted

-----------------------------------------------------------------------------
(* What a pass that nothing has overtaken knows *)

\* A workload of any size.
AnyWorkload == [tmpl : Templates, replicas : Nat, size : Nat, old : Nat, new : Nat]

StatusFields ==
  {"resolved", "rendered", "provisioned", "applied", "endpoint", "ready", "progressing", "drifted", "profile", "revision"}

\* The service, its profiles, its workloads and Services, and a pass at work.
ClusterShape ==
  /\ StatusFields \subseteq DOMAIN isvc.status /\ StatusFields \subseteq DOMAIN cIsvc.status
  /\ profiles \in [Profiles -> Contents \cup {None}] /\ cProfiles \in [Profiles -> Contents \cup {None}]
  /\ wl \in [Keys -> AnyWorkload \cup {None}] /\ cWl \in [Keys -> AnyWorkload \cup {None}]
  /\ DOMAIN svc = Roles /\ DOMAIN cSvc = Roles
  /\ pending \in BOOLEAN

WorkShape ==
  pass # Idle =>
    /\ pass.pc \in {"assets", "claim", "service", "workload", "ready", "cleanup", "write"}
    /\ StatusFields \subseteq DOMAIN pass.status /\ StatusFields \subseteq DOMAIN pass.read.status
    /\ pass.err \in BOOLEAN
    /\ pass.pc # "write" => pass.content \in Contents
    /\ pass.pc \in {"service", "workload", "ready"} =>
         pass.todo \in Seq(RoleSet(pass.content)) /\ pass.todo # <<>> /\ Once(pass.todo)

\* The roles a pass over these copies leaves waiting, those whose workload it
\* writes, those it finds unready and those whose Service it writes.
Waiters(c, s) == {r \in RoleSet(c) : Decision(c, r, s) \in {"hold", "wait"}}
Written(c, s) == {r \in RoleSet(c) : Decision(c, r, s) \in {"create", "roll", "scale"}}
Unready(c, s) == {r \in RoleSet(c) : ~RoleReady(c, r, s)}
Misserved(c) == {r \in RoleSet(c) \cap c.services : cSvc[r] # c.kind[r]}

\* The specs of two workloads differ, or only one of the two exists.
Differ(v, w) ==
  \/ v = None /\ w # None
  \/ v # None /\ w = None
  \/ v # None /\ w # None /\ <<v.tmpl, v.replicas, v.size>> # <<w.tmpl, w.replicas, w.size>>

\* What was written the informers have yet to show.
ServicesWritten(c, roles) == \A r \in Misserved(c) \cap roles : svc[r] # cSvc[r]
WorkloadsWritten(c, s, roles) == \A r \in Written(c, s) \cap roles : Differ(wl[Key(c, r)], cWl[Key(c, r)])

\* The pass has come through topoOrder and the claim.
Provisioned(c, s) ==
  /\ ~OrderError(c)
  /\ Class[s.model] # None => IF cClaim = None THEN claim # None ELSE cClaim.class = Class[s.model]

Renders(c, s) == Resolves(c, s) /\ s.replicas \in c.renders

DriftSeen(c, s) == Drifted(ProfileEcho(cIsvc.status, s.profile, c), c)

\* Everything has been applied that could be, and the status says so.
Settled(c, s, st) ==
  /\ Provisioned(c, s) /\ ServicesWritten(c, RoleSet(c)) /\ WorkloadsWritten(c, s, RoleSet(c))
  /\ \A k \in Keys : cWl[k] # None => (k[1] \in RoleSet(c) /\ k = Key(c, k[1])) \/ wl[k] = None
  /\ (st.applied = "True") <=> (Waiters(c, s) = {})
  /\ st.applied = "True" => st.revision = c
  /\ (st.ready = "True") <=> (Unready(c, s) = {})
  /\ st.drifted = DriftSeen(c, s)

\* What the status says of the copies the pass has read.
Verdict(c, s, st) ==
  /\ ~Resolves(c, s) => st.resolved = "Unresolved" /\ st.applied = "Unset" /\ st.progressing = "Converged"
  /\ Resolves(c, s) /\ s.replicas \notin c.renders => st.rendered = "RenderFailed" /\ st.applied = "Unset"
  /\ Renders(c, s) => Settled(c, s, st)

\* The roles served, those applied and those looked at: the ones the pass has
\* behind it, and the one it is at as far as it has come with it.
Account(c, s, served, applied, seen) ==
  /\ ServicesWritten(c, served) /\ WorkloadsWritten(c, s, applied)
  /\ pass.waiting = Waiters(c, s) \cap applied
  /\ pass.unready = Unready(c, s) \cap seen

Applying(c, s) ==
  LET done == RoleSet(c) \ Elems(pass.todo)
      upTo == done \cup {Head(pass.todo)}
  IN /\ pass.pc = "service" => Account(c, s, done, done, done)
     /\ pass.pc = "workload" => Account(c, s, upTo, done, done)
     /\ pass.pc = "ready" => Account(c, s, upTo, upTo, done)
     /\ pass.pc = "cleanup" => Account(c, s, RoleSet(c), RoleSet(c), RoleSet(c))

Underway(c, s, st) ==
  /\ pass.pc = "write" => Verdict(c, s, st)
  /\ pass.pc # "write" => Renders(c, s) /\ st.drifted = DriftSeen(c, s)
  /\ pass.pc \in {"assets", "claim"} => pass.waiting = {} /\ pass.unready = {}
  /\ pass.pc \in {"service", "workload", "ready", "cleanup"} => Provisioned(c, s) /\ Applying(c, s)

\* The profile, as the informer has it.
Read == cProfiles[cIsvc.spec.profile]

\* Nothing has reached the queue since the pass began: it works on the copies the
\* informers still hold.
Honest ==
  \A c, s, st :
    /\ ~pending /\ pass # Idle /\ ~pass.err
    /\ c = Read /\ s = cIsvc.spec /\ st = pass.status
    => pass.read = cIsvc /\ pass.content = c /\ Underway(c, s, st)

\* Nothing has reached the queue since the last pass ended: its status is either
\* on its way or the one it read.
Resting ==
  \A c, s, st :
    /\ ~pending /\ pass = Idle
    /\ c = Read /\ s = cIsvc.spec /\ st = cIsvc.status
    => isvc.status # st \/ Verdict(c, s, st)

RestInv == ClaimInv /\ ClusterShape /\ WorkShape /\ Honest /\ Resting

LEMMA AnyWorkloadIsSomething == None \notin AnyWorkload
BY RolloutAssumption DEF AnyWorkload

\* A role's workload is one, whatever it was before.
LEMMA AppliedIs ==
  ASSUME NEW w \in AnyWorkload \cup {None}, NEW c \in Contents, NEW r \in Roles, NEW s \in Spec0
  PROVE  Applied(w, c, r, s) \in AnyWorkload
<1>1. Template(c, r, s) \in Templates
  <2>1. s.model \in Models
    BY DEF Spec0
  <2>2. PICK m \in Models : m = s.model
    BY <2>1
  <2>3. Template(c, r, s) = Template(c, r, [model |-> m])
    BY <2>2 DEF Template
  <2> QED BY <2>3 DEF Templates
<1>2. RoleReplicas(c, r, s) \in Nat
  <2>1. s.replicas \in Nat
    BY RolloutAssumption DEF Spec0
  <2> QED BY <2>1 DEF RoleReplicas
<1>3. c.size[r] \in Nat
  BY RolloutAssumption
<1>4. w # None => w.old \in Nat /\ w.new \in Nat /\ w.old + w.new \in Nat
  BY DEF AnyWorkload
<1>5. PICK t \in Templates : t = Template(c, r, s)
  BY <1>1
<1>6. PICK n \in Nat : n = RoleReplicas(c, r, s)
  BY <1>2
<1>7. PICK z \in Nat : z = c.size[r]
  BY <1>3
<1>8. \E a, b \in Nat : Applied(w, c, r, s) = [tmpl |-> t, replicas |-> n, size |-> z, old |-> a, new |-> b]
  <2>1. CASE w = None
    BY <1>5, <1>6, <1>7, <2>1 DEF Applied
  <2>2. CASE w # None /\ SameTemplate(w, c, r, s)
    BY <1>4, <1>5, <1>6, <1>7, <2>2 DEF Applied
  <2>3. CASE w # None /\ ~SameTemplate(w, c, r, s)
    BY <1>4, <1>5, <1>6, <1>7, <2>3 DEF Applied
  <2> QED BY <2>1, <2>2, <2>3
<1> QED BY <1>8 DEF AnyWorkload

\* The copies decide what a pass does; they and the Service it reads.
LEMMA CopiesDecide ==
  ASSUME NEW c, NEW s, UNCHANGED <<cWl, cClaim>>
  PROVE  Waiters(c, s)' = Waiters(c, s) /\ Written(c, s)' = Written(c, s) /\ Unready(c, s)' = Unready(c, s)
<1>1. \A r : RoleReady(c, r, s)' <=> RoleReady(c, r, s)
  BY DEF RoleReady
<1>2. \A r : DependenciesReady(c, r, s)' <=> DependenciesReady(c, r, s)
  BY <1>1 DEF DependenciesReady
<1>3. \A r : DependenciesConverged(c, r, s)' <=> DependenciesConverged(c, r, s)
  BY <1>1 DEF DependenciesConverged
<1>4. \A r : Decision(c, r, s)' = Decision(c, r, s)
  BY <1>2, <1>3 DEF Decision
<1> QED BY <1>1, <1>4 DEF Waiters, Written, Unready

LEMMA ServicesDecide ==
  ASSUME NEW c, UNCHANGED cSvc
  PROVE  Misserved(c)' = Misserved(c)
BY DEF Misserved

\* Who writes what.
LEMMA Writers ==
  ASSUME [Next]_vars
  PROVE  /\ isvc' = isvc \/ WriteStatus \/ UserEdits
         /\ cIsvc' \in {cIsvc, isvc}
         /\ profiles' = profiles \/ AdminReplacesProfile
         /\ cProfiles' \in {cProfiles, profiles} \/ SyncProfile
         /\ wl' = wl \/ WriteWorkload \/ PodStarts \/ PodStops \/ PodFails \/ CleanUp \/ CleanUpFails
         /\ cWl' \in {cWl, wl} \/ SyncWorkload
         /\ svc' = svc \/ ApplyService \/ CleanUp \/ CleanUpFails
         /\ cSvc' \in {cSvc, svc} \/ SyncOwned
<1> USE DEF api, caches, vars
<1>1. CASE StartPass \/ ProvisionAssets \/ AssetsFail \/ ProvisionModelPVC \/ ClaimFails
  BY <1>1 DEF StartPass, ProvisionAssets, AssetsFail, ProvisionModelPVC, ClaimFails
<1>2. CASE ApplyService \/ ServiceFails \/ HoldCreation \/ ObserveRole \/ WriteWorkload \/ WorkloadFails
  BY <1>2 DEF ApplyService, ServiceFails, HoldCreation, ObserveRole, WriteWorkload, WorkloadFails
<1>3. CASE PassOverWorkload \/ CleanUp \/ CleanUpFails \/ WriteStatus \/ WriteStatusFails
  BY <1>3 DEF PassOverWorkload, CleanUp, CleanUpFails, WriteStatus, WriteStatusFails
<1>4. CASE ManagerRestart \/ SyncService \/ UserEdits
  BY <1>4 DEF ManagerRestart, SyncService, UserEdits
<1>5. CASE Others
  BY <1>5 DEF Others, SyncProfile, SyncWorkload, SyncOwned, PodStarts, PodStops, PodFails, ClaimBinds,
       EndpointsFollow, AdminReplacesProfile
<1> QED BY <1>1, <1>2, <1>3, <1>4, <1>5, Steps

\* The workloads' controllers change what a workload runs and leave its spec.
Same(v, w) ==
  \/ v = None /\ w = None
  \/ v # None /\ w # None /\ v.tmpl = w.tmpl /\ v.replicas = w.replicas /\ v.size = w.size

LEMMA PodsShape ==
  ASSUME wl \in [Keys -> AnyWorkload \cup {None}], PodStarts \/ PodStops \/ PodFails
  PROVE  wl' \in [Keys -> AnyWorkload \cup {None}] /\ \A k \in Keys : Same(wl[k], wl'[k])
<1>1. PICK k \in Keys :
        /\ wl[k] # None
        /\ \/ wl' = [wl EXCEPT ![k].new = @ + 1]
           \/ wl[k].old > 0 /\ wl' = [wl EXCEPT ![k].old = @ - 1]
           \/ wl[k].new > wl[k].replicas /\ wl' = [wl EXCEPT ![k].new = @ - 1]
           \/ wl[k].new > 0 /\ wl' = [wl EXCEPT ![k].new = @ - 1]
  BY DEF PodStarts, PodStops, PodFails
<1>2. PICK v \in AnyWorkload : v = wl[k]
  BY <1>1
<1>3. PICK w : /\ wl' = [wl EXCEPT ![k] = w]
               /\ \/ w = [v EXCEPT !.new = v.new + 1]
                  \/ v.old > 0 /\ w = [v EXCEPT !.old = v.old - 1]
                  \/ v.new > v.replicas /\ w = [v EXCEPT !.new = v.new - 1]
                  \/ v.new > 0 /\ w = [v EXCEPT !.new = v.new - 1]
  BY <1>1, <1>2
<1>4. w \in AnyWorkload /\ w.tmpl = v.tmpl /\ w.replicas = v.replicas /\ w.size = v.size
  <2>1. v.old \in Nat /\ v.new \in Nat /\ v.replicas \in Nat
    BY DEF AnyWorkload
  <2>2. \E n \in Nat : w = [v EXCEPT !.new = n] \/ w = [v EXCEPT !.old = n]
    BY <1>3, <2>1
  <2> QED BY <2>2 DEF AnyWorkload
<1>5. wl' \in [Keys -> AnyWorkload \cup {None}]
  BY <1>3, <1>4
<1>6. \A j \in Keys : Same(wl[j], wl'[j])
  <2> TAKE j \in Keys
  <2>1. CASE j = k
    <3>1. wl'[j] = w /\ wl[j] = v
      BY <1>2, <1>3, <2>1
    <3> QED BY <1>4, <3>1, AnyWorkloadIsSomething DEF Same
  <2>2. CASE j # k
    <3>1. wl'[j] = wl[j]
      BY <1>3, <2>2
    <3>2. \A x : Same(x, x)
      BY DEF Same
    <3>3. Same(wl[j], wl[j])
      BY <3>2
    <3> QED BY <3>1, <3>3
  <2> QED BY <2>1, <2>2
<1> QED BY <1>5, <1>6

LEMMA ClusterStep ==
  ASSUME ClaimInv, ClusterShape, WorkShape, [Next]_vars
  PROVE  ClusterShape'
<1> USE DEF PassFields
<1>1. ServiceShape /\ PassShape /\ Idle.pc = "idle"
  BY DEF ClaimInv, Idle
<1>2. StatusFields \subseteq DOMAIN isvc'.status /\ StatusFields \subseteq DOMAIN cIsvc'.status
  <2>1. cIsvc' \in {cIsvc, isvc}
    BY Writers
  <2>2. CASE isvc' = isvc
    BY <2>1, <2>2 DEF ClusterShape
  <2>3. CASE WriteStatus
    <3>1. pass.pc = "write" /\ (isvc' = isvc \/ isvc' = [isvc EXCEPT !.status = pass.status])
      BY <2>3 DEF WriteStatus
    <3>2. StatusFields \subseteq DOMAIN pass.status
      BY <1>1, <3>1 DEF WorkShape
    <3>3. "status" \in DOMAIN isvc
      BY <1>1 DEF ServiceShape, Named
    <3> QED BY <2>1, <3>1, <3>2, <3>3 DEF ClusterShape
  <2>4. CASE UserEdits
    <3>1. \E x : isvc' = [isvc EXCEPT !.spec = x]
      BY <2>4 DEF UserEdits
    <3>2. "status" \in DOMAIN isvc
      BY <1>1 DEF ServiceShape, Named
    <3> QED BY <2>1, <3>1, <3>2 DEF ClusterShape
  <2> QED BY <2>2, <2>3, <2>4, Writers
<1>3. profiles' \in [Profiles -> Contents \cup {None}] /\ cProfiles' \in [Profiles -> Contents \cup {None}]
  <2>1. profiles' \in [Profiles -> Contents \cup {None}]
    <3>1. CASE AdminReplacesProfile
      BY <3>1 DEF AdminReplacesProfile, ClusterShape
    <3> QED BY <3>1, Writers DEF ClusterShape
  <2>2. cProfiles' \in [Profiles -> Contents \cup {None}]
    <3>1. CASE SyncProfile
      <4>1. PICK p \in Profiles : cProfiles' = [cProfiles EXCEPT ![p] = profiles[p]]
        BY <3>1 DEF SyncProfile
      <4> QED BY <4>1 DEF ClusterShape
    <3> QED BY <3>1, Writers DEF ClusterShape
  <2> QED BY <2>1, <2>2
<1>4. wl' \in [Keys -> AnyWorkload \cup {None}]
  <2>1. CASE WriteWorkload
    <3>1. PICK r : r = Head(pass.todo)
      OBVIOUS
    <3>2. PICK k : k = Key(pass.content, r)
      OBVIOUS
    <3>3. pass.pc = "workload" /\ wl' = [wl EXCEPT ![k] = Applied(wl[k], pass.content, r, pass.read.spec)]
      BY <2>1, <3>1, <3>2 DEF WriteWorkload
    <3>4. pass # Idle /\ pass.content \in Contents /\ pass.read.spec \in Spec0
      BY <1>1, <3>3 DEF WorkShape, ServiceShape, Named
    <3>5. r \in Roles
      <4>1. pass.todo \in Seq(RoleSet(pass.content)) /\ pass.todo # <<>>
        BY <3>3, <3>4 DEF WorkShape
      <4>2. r \in RoleSet(pass.content)
        BY <3>1, <4>1
      <4>3. pass.content.roles \in Seq(Roles)
        BY <3>4, RolloutAssumption
      <4> QED BY <4>2, <4>3 DEF RoleSet
    <3>6. k \in Keys
      BY <3>2, <3>4, <3>5, RolloutAssumption DEF Key, Keys
    <3>7. wl[k] \in AnyWorkload \cup {None}
      BY <3>6 DEF ClusterShape
    <3>8. Applied(wl[k], pass.content, r, pass.read.spec) \in AnyWorkload
      BY <3>4, <3>5, <3>7, AppliedIs
    <3> QED BY <3>3, <3>6, <3>8 DEF ClusterShape
  <2>2. CASE PodStarts \/ PodStops \/ PodFails
    BY <2>2, PodsShape DEF ClusterShape
  <2>3. CASE CleanUp \/ CleanUpFails
    <3>1. \E ks : wl' = [k \in Keys |-> IF k \in ks THEN None ELSE wl[k]]
      BY <2>3 DEF CleanUp, CleanUpFails, Delete
    <3> QED BY <3>1 DEF ClusterShape
  <2> QED BY <2>1, <2>2, <2>3, Writers DEF ClusterShape
<1>5. cWl' \in [Keys -> AnyWorkload \cup {None}]
  <2>1. CASE SyncWorkload
    <3>1. PICK k \in Keys : cWl' = [cWl EXCEPT ![k] = wl[k]]
      BY <2>1 DEF SyncWorkload
    <3> QED BY <3>1 DEF ClusterShape
  <2> QED BY <2>1, Writers DEF ClusterShape
<1>6. DOMAIN svc' = Roles /\ DOMAIN cSvc' = Roles
  <2>1. DOMAIN svc' = Roles
    <3>1. CASE ApplyService
      <4>1. svc' = svc \/ \E r, x : svc' = [svc EXCEPT ![r] = x]
        BY <3>1 DEF ApplyService
      <4> QED BY <4>1 DEF ClusterShape
    <3>2. CASE CleanUp \/ CleanUpFails
      BY <3>2 DEF CleanUp, CleanUpFails, Delete
    <3> QED BY <3>1, <3>2, Writers DEF ClusterShape
  <2>2. DOMAIN cSvc' = Roles
    <3>1. CASE SyncOwned
      <4>1. cSvc' = cSvc \/ \E r, x : cSvc' = [cSvc EXCEPT ![r] = x]
        BY <3>1 DEF SyncOwned
      <4> QED BY <4>1 DEF ClusterShape
    <3> QED BY <3>1, Writers DEF ClusterShape
  <2> QED BY <2>1, <2>2
<1>7. pending' \in BOOLEAN
  <2> USE DEF ClusterShape
  <2>1. CASE WriteStatus
    BY <2>1 DEF WriteStatus
  <2>2. CASE SyncProfile
    <3>1. \E p \in Profiles : pending' = (pending \/ cIsvc.spec.profile = p)
      BY <2>2 DEF SyncProfile
    <3> QED BY <3>1
  <2>3. CASE pending' = pending \/ pending' = TRUE \/ pending' = FALSE
    BY <2>3
  <2>4. WriteStatus \/ SyncProfile \/ pending' = pending \/ pending' = TRUE \/ pending' = FALSE
    BY Steps DEF StartPass, ProvisionAssets, AssetsFail, ProvisionModelPVC, ClaimFails, ApplyService, ServiceFails,
       HoldCreation, ObserveRole, WriteWorkload, WorkloadFails, PassOverWorkload, CleanUp, CleanUpFails,
       WriteStatusFails, ManagerRestart, SyncService, UserEdits, Others, SyncWorkload, SyncOwned, PodStarts, PodStops,
       PodFails, ClaimBinds, EndpointsFollow, AdminReplacesProfile, vars
  <2> QED BY <2>1, <2>2, <2>3, <2>4
<1> QED BY <1>2, <1>3, <1>4, <1>5, <1>6, <1>7 DEF ClusterShape

\* A list and what follows its first.
After(R, q, x, rest) ==
  /\ x \in R /\ rest \in Seq(R) /\ Once(rest) /\ x \notin Elems(rest) /\ Elems(q) = Elems(rest) \cup {x}
  /\ (Len(q) > 1) <=> (rest # <<>>)

LEMMA FirstTaken ==
  ASSUME NEW R, NEW q \in Seq(R), q # <<>>, Once(q), NEW x, x = Head(q), NEW rest, rest = Tail(q)
  PROVE  After(R, q, x, rest)
<1>1. PICK n \in Nat : n + 1 = Len(q) /\ DOMAIN q = 1 .. n + 1
  <2>1. Len(q) \in Nat /\ Len(q) # 0 /\ DOMAIN q = 1 .. Len(q)
    OBVIOUS
  <2>2. Len(q) - 1 \in Nat /\ Len(q) - 1 + 1 = Len(q)
    BY <2>1
  <2> QED BY <2>1, <2>2
<1>2. x = q[1] /\ x \in R
  BY <1>1
<1>3. rest \in Seq(R) /\ Len(rest) = n /\ DOMAIN rest = 1 .. n /\ \A i \in 1 .. n : rest[i] = q[i + 1]
  BY <1>1
<1>4. \A i \in 1 .. n + 1 : i # 1 => i - 1 \in 1 .. n /\ i - 1 + 1 = i
  OBVIOUS
<1>5. \A i \in 1 .. n : i + 1 \in 1 .. n + 1 /\ i + 1 # 1
  OBVIOUS
<1>6. 1 \in 1 .. n + 1
  OBVIOUS
<1>7. Once(rest)
  <2> SUFFICES ASSUME NEW i \in 1 .. n, NEW j \in 1 .. n, rest[i] = rest[j] PROVE i = j
    BY <1>3 DEF Once
  <2>1. q[i + 1] = q[j + 1] /\ i + 1 \in 1 .. n + 1 /\ j + 1 \in 1 .. n + 1
    BY <1>3, <1>5
  <2>2. i + 1 = j + 1
    BY <1>1, <2>1 DEF Once
  <2> QED BY <2>2
<1>8. x \notin Elems(rest)
  <2> SUFFICES ASSUME NEW i \in 1 .. n, rest[i] = x PROVE FALSE
    BY <1>3 DEF Elems
  <2>1. q[i + 1] = q[1] /\ i + 1 \in 1 .. n + 1 /\ i + 1 # 1
    BY <1>2, <1>3, <1>5
  <2> QED BY <1>1, <1>6, <2>1 DEF Once
<1>9. Elems(q) = Elems(rest) \cup {x}
  <2>1. \A i \in 1 .. n + 1 : q[i] \in Elems(rest) \cup {x}
    <3> TAKE i \in 1 .. n + 1
    <3>1. CASE i = 1
      BY <1>2, <3>1
    <3>2. CASE i # 1
      <4>1. PICK k \in 1 .. n : k = i - 1 /\ k + 1 = i
        BY <1>4, <3>2
      <4>2. rest[k] = q[i]
        BY <1>3, <4>1
      <4> QED BY <1>3, <4>2 DEF Elems
    <3> QED BY <3>1, <3>2
  <2>2. \A i \in 1 .. n : rest[i] \in Elems(q)
    <3> TAKE i \in 1 .. n
    <3>1. PICK k \in 1 .. n + 1 : k = i + 1
      BY <1>5
    <3>2. rest[i] = q[k]
      BY <1>3, <3>1
    <3> QED BY <1>1, <3>2 DEF Elems
  <2>3. x \in Elems(q)
    BY <1>1, <1>2, <1>6 DEF Elems
  <2>4. Elems(q) \subseteq Elems(rest) \cup {x}
    BY <1>1, <2>1 DEF Elems
  <2>5. Elems(rest) \subseteq Elems(q)
    BY <1>3, <2>2 DEF Elems
  <2> QED BY <2>3, <2>4, <2>5
<1>10. (Len(q) > 1) <=> (rest # <<>>)
  BY <1>1, <1>3
<1> QED BY <1>2, <1>3, <1>7, <1>8, <1>9, <1>10 DEF After

\* The pass goes on to the next role.
LEMMA NextRoleIs ==
  ASSUME NEW p, PassFields \subseteq DOMAIN p, NEW R, p.todo \in Seq(R), p.todo # <<>>, Once(p.todo), NEW e, e = NextRole(p)
  PROVE  /\ DOMAIN e = DOMAIN p
         /\ e.read = p.read /\ e.content = p.content /\ e.status = p.status /\ e.err = p.err
         /\ e.waiting = p.waiting /\ e.unready = p.unready /\ e.did = p.did
         /\ e.todo = Tail(p.todo)
         /\ After(R, p.todo, Head(p.todo), e.todo)
         /\ e.pc = IF e.todo = <<>> THEN "cleanup" ELSE "service"
<1> USE DEF PassFields
<1>1. PICK x : x = IF Len(p.todo) > 1 THEN "service" ELSE "cleanup"
  OBVIOUS
<1>2. e = [p EXCEPT !.todo = Tail(p.todo), !.pc = x]
  BY <1>1 DEF NextRole
<1>3. After(R, p.todo, Head(p.todo), Tail(p.todo))
  BY FirstTaken
<1>4. e.todo = Tail(p.todo) /\ e.pc = x
  BY <1>2
<1>5. e.pc = IF e.todo = <<>> THEN "cleanup" ELSE "service"
  BY <1>1, <1>3, <1>4 DEF After
<1> QED BY <1>2, <1>3, <1>4, <1>5

\* What a pass begins with.
Begun(x, st) ==
  [pc |-> x, read |-> cIsvc, content |-> Read, status |-> st, todo |-> <<>>,
   waiting |-> {}, unready |-> {}, did |-> "", err |-> FALSE]

Begins(x, st) ==
  /\ StatusFields \subseteq DOMAIN st
  /\ \/ x = "write" /\ ~Renders(Read, cIsvc.spec) /\ Verdict(Read, cIsvc.spec, st)
     \/ x = "assets" /\ Renders(Read, cIsvc.spec) /\ st.drifted = DriftSeen(Read, cIsvc.spec)

LEMMA StartIs ==
  ASSUME StartPass, ClusterShape
  PROVE  \E x, st : pass' = Begun(x, st) /\ Begins(x, st)
<1> USE DEF StatusFields
<1>1. PICK c : c = Read
  OBVIOUS
<1>2. PICK s : s = cIsvc.spec
  OBVIOUS
<1>3. PICK echo : echo = ProfileEcho(cIsvc.status, s.profile, c)
  OBVIOUS
<1>4. PICK d : d = Drifted(echo, c) /\ d = DriftSeen(c, s)
  BY <1>3 DEF DriftSeen
<1>5. StatusFields \subseteq DOMAIN echo
  BY <1>3 DEF ProfileEcho, ClusterShape
<1>6. PICK halted : halted = [echo EXCEPT !.provisioned = "Unset", !.applied = "Unset",
                                !.endpoint = "Unset", !.progressing = "Converged"]
  OBVIOUS
<1>7. pass' = CASE ~Resolves(c, s) ->
                        Begun("write", [halted EXCEPT !.resolved = "Unresolved", !.rendered = "Unset"])
                   [] Resolves(c, s) /\ s.replicas \notin c.renders ->
                        Begun("write", [halted EXCEPT !.resolved = "True", !.rendered = "RenderFailed",
                                                  !.drifted = d])
                   [] OTHER -> Begun("assets", [echo EXCEPT !.resolved = "True", !.rendered = "True", !.drifted = d])
  BY <1>1, <1>2, <1>3, <1>4, <1>6, Zenon DEF StartPass, Begun, Read
<1>8. StatusFields \subseteq DOMAIN halted /\ halted.applied = "Unset" /\ halted.progressing = "Converged"
  BY <1>5, <1>6
<1>9. CASE ~Resolves(c, s)
  <2>1. PICK st : st = [halted EXCEPT !.resolved = "Unresolved", !.rendered = "Unset"]
    OBVIOUS
  <2>2. StatusFields \subseteq DOMAIN st /\ st.resolved = "Unresolved" /\ st.applied = "Unset" /\ st.progressing = "Converged"
    BY <1>8, <2>1
  <2>3. pass' = Begun("write", st)
    BY <1>7, <1>9, <2>1
  <2>4. Begins("write", st)
    BY <1>1, <1>2, <1>9, <2>2 DEF Begins, Verdict, Renders
  <2> QED BY <2>3, <2>4
<1>10. CASE Resolves(c, s) /\ s.replicas \notin c.renders
  <2>1. PICK st : st = [halted EXCEPT !.resolved = "True", !.rendered = "RenderFailed", !.drifted = d]
    OBVIOUS
  <2>2. StatusFields \subseteq DOMAIN st /\ st.rendered = "RenderFailed" /\ st.applied = "Unset"
    BY <1>8, <2>1
  <2>3. pass' = Begun("write", st)
    BY <1>7, <1>10, <2>1
  <2>4. Begins("write", st)
    BY <1>1, <1>2, <1>10, <2>2 DEF Begins, Verdict, Renders
  <2> QED BY <2>3, <2>4
<1>11. CASE Renders(c, s)
  <2>1. PICK st : st = [echo EXCEPT !.resolved = "True", !.rendered = "True", !.drifted = d]
    OBVIOUS
  <2>2. StatusFields \subseteq DOMAIN st /\ st.drifted = d
    BY <1>5, <2>1
  <2>3. pass' = Begun("assets", st)
    BY <1>7, <1>11, <2>1 DEF Renders
  <2>4. Begins("assets", st)
    BY <1>1, <1>2, <1>4, <1>11, <2>2 DEF Begins
  <2> QED BY <2>3, <2>4
<1> QED BY <1>9, <1>10, <1>11 DEF Renders

Fails ==
  \/ AssetsFail \/ ClaimFails \/ ServiceFails \/ WorkloadFails \/ CleanUpFails
  \/ ProvisionModelPVC /\ OrderError(pass.content)

\* A pass that fails writes what it has found out and ends in an error.
LEMMA FailsIs ==
  ASSUME Fails, PassShape, WorkShape
  PROVE  /\ pass # Idle /\ pass'.pc = "write" /\ pass'.err = TRUE /\ pass'.read = pass.read
         /\ PassFields \subseteq DOMAIN pass' /\ StatusFields \subseteq DOMAIN pass'.status
<1> USE DEF PassFields, StatusFields
<1>1. pass.pc \in {"assets", "claim", "service", "workload", "cleanup"}
  BY DEF Fails, AssetsFail, ClaimFails, ServiceFails, WorkloadFails, CleanUpFails, ProvisionModelPVC
<1>2. pass # Idle
  BY <1>1 DEF Idle
<1>3. PICK st : pass' = [pass EXCEPT !.pc = "write", !.err = TRUE, !.status = st] /\ StatusFields \subseteq DOMAIN st
  <2>1. StatusFields \subseteq DOMAIN pass.status
    BY <1>2 DEF WorkShape
  <2>2. \A x : StatusFields \subseteq DOMAIN [pass.status EXCEPT !.provisioned = x]
    BY <2>1
  <2>3. \A x : StatusFields \subseteq DOMAIN [pass.status EXCEPT !.applied = x]
    BY <2>1
  <2>4. CASE AssetsFail
    BY <2>2, <2>4 DEF AssetsFail, Failing
  <2>5. CASE ClaimFails
    <3>1. \/ pass' = [pass EXCEPT !.pc = "write", !.err = TRUE, !.status = [pass.status EXCEPT !.provisioned = "StorageIdentityChanged"]]
          \/ pass' = [pass EXCEPT !.pc = "write", !.err = TRUE, !.status = [pass.status EXCEPT !.provisioned = "PVCCreateFailed"]]
      BY <2>5 DEF ClaimFails, Failing
    <3>2. PICK x : pass' = [pass EXCEPT !.pc = "write", !.err = TRUE, !.status = [pass.status EXCEPT !.provisioned = x]]
      BY <3>1
    <3> QED BY <2>2, <3>2
  <2>6. CASE ServiceFails \/ WorkloadFails
    <3>1. \/ pass' = [pass EXCEPT !.pc = "write", !.err = TRUE, !.status = [pass.status EXCEPT !.applied = "ServiceApplyFailed"]]
          \/ pass' = [pass EXCEPT !.pc = "write", !.err = TRUE, !.status = [pass.status EXCEPT !.applied = "WorkloadApplyFailed"]]
      BY <2>6 DEF ServiceFails, WorkloadFails, Failing
    <3>2. PICK x : pass' = [pass EXCEPT !.pc = "write", !.err = TRUE, !.status = [pass.status EXCEPT !.applied = x]]
      BY <3>1
    <3> QED BY <2>3, <3>2
  <2>7. CASE CleanUpFails
    BY <2>3, <2>7 DEF CleanUpFails, Failing
  <2>8. CASE ProvisionModelPVC /\ OrderError(pass.content)
    <3>1. PICK e : e = [pass.status EXCEPT !.provisioned = "True"]
      OBVIOUS
    <3>2. PICK st : st = [e EXCEPT !.applied = "WorkloadApplyFailed"]
      OBVIOUS
    <3>3. StatusFields \subseteq DOMAIN st
      BY <2>2, <3>1, <3>2
    <3>4. pass' = [pass EXCEPT !.pc = "write", !.err = TRUE, !.status = st]
      BY <2>8, <3>1, <3>2 DEF ProvisionModelPVC, Failing
    <3> QED BY <3>3, <3>4
  <2> QED BY <2>4, <2>5, <2>6, <2>7, <2>8 DEF Fails
<1> QED BY <1>2, <1>3 DEF PassShape

\* The roles of a profile and the keys of their workloads.
LEMMA KeysOf ==
  ASSUME NEW c \in Contents
  PROVE  /\ RoleSet(c) \subseteq Roles
         /\ \A r \in RoleSet(c) : Key(c, r) \in Keys /\ Key(c, r)[1] = r
<1>1. c.roles \in Seq(Roles) /\ c.kind \in [Roles -> Kinds]
  BY RolloutAssumption
<1>2. RoleSet(c) \subseteq Roles
  BY <1>1 DEF RoleSet
<1> QED BY <1>1, <1>2 DEF Key, Keys

\* Steps that leave the copies, the Services and the specs of the workloads alone.
Quiet ==
  /\ UNCHANGED <<cIsvc, cWl, cSvc, cClaim, svc>>
  /\ \A k \in Keys : Same(wl[k], wl'[k])
  /\ claim # None => claim' # None

LEMMA QuietWrites ==
  ASSUME Quiet, NEW c \in Contents, NEW s
  PROVE  /\ Waiters(c, s)' = Waiters(c, s) /\ Written(c, s)' = Written(c, s) /\ Unready(c, s)' = Unready(c, s)
         /\ Misserved(c)' = Misserved(c) /\ DriftSeen(c, s)' = DriftSeen(c, s)
         /\ Provisioned(c, s) => Provisioned(c, s)'
         /\ \A r \in RoleSet(c) : Differ(wl[Key(c, r)], cWl[Key(c, r)]) => Differ(wl'[Key(c, r)], cWl'[Key(c, r)])
<1>1. UNCHANGED <<cIsvc, cWl, cSvc, cClaim, svc>>
  BY DEF Quiet
<1>2. Waiters(c, s)' = Waiters(c, s) /\ Written(c, s)' = Written(c, s) /\ Unready(c, s)' = Unready(c, s)
  BY <1>1, CopiesDecide
<1>3. Misserved(c)' = Misserved(c)
  BY <1>1, ServicesDecide
<1>4. DriftSeen(c, s)' = DriftSeen(c, s)
  BY <1>1 DEF DriftSeen
<1>5. Provisioned(c, s) => Provisioned(c, s)'
  BY <1>1 DEF Provisioned, Quiet
<1>6. ASSUME NEW r \in RoleSet(c), Differ(wl[Key(c, r)], cWl[Key(c, r)]) PROVE Differ(wl'[Key(c, r)], cWl'[Key(c, r)])
  <2>1. PICK k \in Keys : k = Key(c, r)
    BY KeysOf
  <2>2. Same(wl[k], wl'[k]) /\ cWl'[k] = cWl[k]
    BY <1>1 DEF Quiet
  <2>3. Differ(wl[k], cWl[k])
    BY <1>6, <2>1
  <2>4. Differ(wl'[k], cWl[k])
    BY <2>2, <2>3 DEF Same, Differ
  <2> QED BY <2>1, <2>2, <2>4
<1> QED BY <1>2, <1>3, <1>4, <1>5, <1>6

LEMMA QuietVerdict ==
  ASSUME Quiet, NEW c \in Contents \cup {None}, NEW s, NEW st, Verdict(c, s, st)
  PROVE  Verdict(c, s, st)'
<1>1. CASE ~Renders(c, s)
  BY <1>1 DEF Verdict
<1>2. CASE Renders(c, s)
  <2>1. c \in Contents
    BY <1>2 DEF Renders, Resolves
  <2>2. Settled(c, s, st)
    BY <1>2 DEF Verdict
  <2>3. UNCHANGED <<cWl, cSvc, svc>>
    BY DEF Quiet
  <2>4. /\ Provisioned(c, s)'
        /\ (st.applied = "True") <=> (Waiters(c, s)' = {})
        /\ st.applied = "True" => st.revision = c
        /\ (st.ready = "True") <=> (Unready(c, s)' = {})
        /\ st.drifted = DriftSeen(c, s)'
    BY <2>1, <2>2, QuietWrites DEF Settled
  <2>5. \A r \in Misserved(c)' \cap RoleSet(c) : svc'[r] # cSvc'[r]
    BY <2>1, <2>2, <2>3, QuietWrites DEF Settled, ServicesWritten
  <2>6. \A r \in Written(c, s)' \cap RoleSet(c) : Differ(wl'[Key(c, r)], cWl'[Key(c, r)])
    BY <2>1, <2>2, QuietWrites DEF Settled, WorkloadsWritten
  <2>7. \A k \in Keys : cWl'[k] # None => (k[1] \in RoleSet(c) /\ k = Key(c, k[1])) \/ wl'[k] = None
    BY <2>2, <2>3 DEF Settled, Quiet, Same
  <2>8. ServicesWritten(c, RoleSet(c))' /\ WorkloadsWritten(c, s, RoleSet(c))'
    BY <2>5, <2>6 DEF ServicesWritten, WorkloadsWritten
  <2>9. Settled(c, s, st)'
    BY <2>4, <2>7, <2>8 DEF Settled
  <2> QED BY <1>2, <2>9 DEF Verdict, Renders
<1> QED BY <1>1, <1>2

LEMMA QuietUnderway ==
  ASSUME Quiet, pass' = pass, NEW c \in Contents \cup {None}, NEW s, NEW st, Underway(c, s, st)
  PROVE  Underway(c, s, st)'
<1>1. CASE pass.pc = "write"
  <2>1. Verdict(c, s, st)'
    BY <1>1, QuietVerdict DEF Underway
  <2> QED BY <1>1, <2>1 DEF Underway
<1>2. CASE pass.pc # "write"
  <2>1. Renders(c, s) /\ st.drifted = DriftSeen(c, s)
    BY <1>2 DEF Underway
  <2>2. c \in Contents
    BY <2>1 DEF Renders, Resolves
  <2>3. DriftSeen(c, s)' = DriftSeen(c, s)
    BY <2>2, QuietWrites
  <2>4. ASSUME pass.pc \in {"service", "workload", "ready", "cleanup"} PROVE Provisioned(c, s)' /\ Applying(c, s)'
    <3>1. Provisioned(c, s) /\ Applying(c, s)
      BY <2>4 DEF Underway
    <3>2. Provisioned(c, s)'
      BY <2>2, <3>1, QuietWrites
    <3>3. \A served, applied, seen : Account(c, s, served, applied, seen) => Account(c, s, served, applied, seen)'
      <4> SUFFICES ASSUME NEW served, NEW applied, NEW seen, Account(c, s, served, applied, seen)
                   PROVE  Account(c, s, served, applied, seen)'
        OBVIOUS
      <4>1. pass'.waiting = Waiters(c, s)' \cap applied /\ pass'.unready = Unready(c, s)' \cap seen
        BY <2>2, QuietWrites DEF Account
      <4>2. \A r \in Misserved(c)' \cap served : svc'[r] # cSvc'[r]
        BY <2>2, QuietWrites DEF Account, ServicesWritten, Quiet
      <4>3. \A r \in Written(c, s)' \cap applied : Differ(wl'[Key(c, r)], cWl'[Key(c, r)])
        <5>1. Written(c, s) \subseteq RoleSet(c)
          BY DEF Written
        <5> QED BY <2>2, <5>1, QuietWrites DEF Account, WorkloadsWritten
      <4> QED BY <4>1, <4>2, <4>3 DEF Account, ServicesWritten, WorkloadsWritten
    <3>4. PICK done : done = RoleSet(c) \ Elems(pass.todo)
      OBVIOUS
    <3>5. PICK upTo : upTo = done \cup {Head(pass.todo)}
      OBVIOUS
    <3>6. PICK all : all = RoleSet(c)
      OBVIOUS
    <3>7. /\ pass.pc = "service" => Account(c, s, done, done, done)
          /\ pass.pc = "workload" => Account(c, s, upTo, done, done)
          /\ pass.pc = "ready" => Account(c, s, upTo, upTo, done)
          /\ pass.pc = "cleanup" => Account(c, s, all, all, all)
      BY <3>1, <3>4, <3>5, <3>6 DEF Applying
    <3>8. /\ pass'.pc = "service" => Account(c, s, done, done, done)'
          /\ pass'.pc = "workload" => Account(c, s, upTo, done, done)'
          /\ pass'.pc = "ready" => Account(c, s, upTo, upTo, done)'
          /\ pass'.pc = "cleanup" => Account(c, s, all, all, all)'
      BY <3>3, <3>7
    <3>9. done = RoleSet(c) \ Elems(pass'.todo) /\ upTo = done \cup {Head(pass'.todo)}
      BY <3>4, <3>5
    <3> QED BY <3>2, <3>6, <3>8, <3>9 DEF Applying, Account, ServicesWritten, WorkloadsWritten
  <2> QED BY <1>2, <2>1, <2>3, <2>4 DEF Underway
<1> QED BY <1>1, <1>2

Truthful == WorkShape /\ Honest /\ Resting

\* A pass that goes on, over the copies it has read.
LEMMA GoesOn ==
  ASSUME WorkShape', pass' # Idle,
         ASSUME NEW c, NEW s, NEW st, ~pending', ~pass'.err, c = Read', s = cIsvc'.spec, st = pass'.status
         PROVE  pass'.read = cIsvc' /\ pass'.content = c /\ Underway(c, s, st)'
  PROVE  Truthful'
BY DEF Truthful, Honest, Resting

LEMMA ReadIs ==
  ASSUME ClaimInv, ClusterShape
  PROVE  Read \in Contents \cup {None}
<1>1. cIsvc.spec.profile \in Profiles
  BY DEF ClaimInv, ServiceShape, Named, Spec0
<1> QED BY <1>1 DEF Read, ClusterShape

LEMMA StartRest ==
  ASSUME RestInv, StartPass
  PROVE  Truthful'
<1> USE DEF StatusFields
<1>1. PICK x, e : pass' = Begun(x, e) /\ Begins(x, e)
  BY StartIs DEF RestInv
<1>2. /\ pass'.pc = x /\ pass'.read = cIsvc /\ pass'.content = Read /\ pass'.status = e /\ pass'.err = FALSE
      /\ pass'.waiting = {} /\ pass'.unready = {}
  BY <1>1 DEF Begun
<1>3. UNCHANGED <<cIsvc, cProfiles>> /\ Read' = Read
  BY DEF StartPass, caches, Read
<1>4. x \in {"write", "assets"} /\ (x = "assets" => Read \in Contents)
  <2>1. x = "assets" => Read # None
    BY <1>1 DEF Begins, Renders, Resolves
  <2> QED BY <1>1, <2>1, ReadIs DEF Begins, RestInv
<1>5. pass' # Idle
  BY <1>2, <1>4 DEF Idle
<1>6. WorkShape'
  <2>1. StatusFields \subseteq DOMAIN e /\ StatusFields \subseteq DOMAIN cIsvc.status
    BY <1>1 DEF Begins, RestInv, ClusterShape
  <2> QED BY <1>2, <1>3, <1>4, <2>1 DEF WorkShape
<1>7. ASSUME NEW c, NEW s, NEW st, ~pending', ~pass'.err, c = Read', s = cIsvc'.spec, st = pass'.status
      PROVE  pass'.read = cIsvc' /\ pass'.content = c /\ Underway(c, s, st)'
  <2>1. c = Read /\ s = cIsvc.spec /\ st = e
    BY <1>2, <1>3, <1>7
  <2>2. CASE x = "write"
    <3>1. ~Renders(c, s) /\ Verdict(c, s, st)
      BY <1>1, <2>1, <2>2 DEF Begins
    <3>2. Verdict(c, s, st)'
      BY <3>1 DEF Verdict
    <3> QED BY <1>2, <1>3, <2>1, <2>2, <3>2 DEF Underway
  <2>3. CASE x = "assets"
    <3>1. Renders(c, s) /\ st.drifted = DriftSeen(c, s)
      BY <1>1, <2>1, <2>3 DEF Begins
    <3>2. DriftSeen(c, s)' = DriftSeen(c, s)
      BY <1>3 DEF DriftSeen
    <3> QED BY <1>2, <1>3, <2>1, <2>3, <3>1, <3>2 DEF Underway
  <2> QED BY <1>4, <2>2, <2>3
<1> QED BY <1>5, <1>6, <1>7, GoesOn

LEMMA FailsRest ==
  ASSUME RestInv, Fails
  PROVE  Truthful'
<1>1. /\ pass # Idle /\ pass'.pc = "write" /\ pass'.err = TRUE /\ pass'.read = pass.read
      /\ StatusFields \subseteq DOMAIN pass'.status
  BY FailsIs DEF RestInv, ClaimInv
<1>2. pass' # Idle
  BY <1>1 DEF Idle
<1>3. WorkShape'
  BY <1>1 DEF WorkShape, RestInv
<1> QED BY <1>1, <1>2, <1>3 DEF Truthful, Honest, Resting

LEMMA AssetsRest ==
  ASSUME RestInv, ProvisionAssets
  PROVE  Truthful'
<1> USE DEF PassFields
<1>1. /\ pass.pc = "assets" /\ pass' = [pass EXCEPT !.pc = "claim"]
      /\ UNCHANGED <<wl, svc, claim, cIsvc, cProfiles, cWl, cSvc, cClaim, pending>>
  BY DEF ProvisionAssets, caches
<1>2. pass # Idle
  BY <1>1 DEF Idle
<1>3. /\ pass'.pc = "claim" /\ pass'.read = pass.read /\ pass'.content = pass.content /\ pass'.status = pass.status
      /\ pass'.err = pass.err /\ pass'.waiting = pass.waiting /\ pass'.unready = pass.unready
  BY <1>1, <1>2 DEF RestInv, ClaimInv, PassShape
<1>4. pass' # Idle
  BY <1>3 DEF Idle
<1>5. WorkShape'
  BY <1>1, <1>2, <1>3 DEF WorkShape, RestInv
<1>6. ASSUME NEW c, NEW s, NEW st, ~pending', ~pass'.err, c = Read', s = cIsvc'.spec, st = pass'.status
      PROVE  pass'.read = cIsvc' /\ pass'.content = c /\ Underway(c, s, st)'
  <2>1. c = Read /\ s = cIsvc.spec /\ st = pass.status /\ ~pending /\ ~pass.err
    BY <1>1, <1>3, <1>6 DEF Read
  <2>2. pass.read = cIsvc /\ pass.content = c /\ Underway(c, s, st)
    BY <1>2, <2>1 DEF RestInv, Honest
  <2>3. Renders(c, s) /\ st.drifted = DriftSeen(c, s) /\ pass.waiting = {} /\ pass.unready = {}
    BY <1>1, <2>2 DEF Underway
  <2>4. DriftSeen(c, s)' = DriftSeen(c, s)
    BY <1>1 DEF DriftSeen
  <2> QED BY <1>1, <1>3, <2>2, <2>3, <2>4 DEF Underway
<1> QED BY <1>4, <1>5, <1>6, GoesOn

LEMMA ClaimRest ==
  ASSUME RestInv, ProvisionModelPVC, ~OrderError(pass.content)
  PROVE  Truthful'
<1> USE DEF PassFields, StatusFields
<1>1. /\ pass.pc = "claim"
      /\ pass' = [pass EXCEPT !.pc = "service", !.status = [pass.status EXCEPT !.provisioned = "True"], !.todo = Order(pass.content)]
      /\ UNCHANGED <<wl, svc, cIsvc, cProfiles, cWl, cSvc, cClaim, pending>>
  BY DEF ProvisionModelPVC, caches
<1>2. pass # Idle
  BY <1>1 DEF Idle
<1>3. /\ pass'.pc = "service" /\ pass'.read = pass.read /\ pass'.content = pass.content
      /\ pass'.err = pass.err /\ pass'.waiting = pass.waiting /\ pass'.unready = pass.unready
      /\ pass'.todo = Order(pass.content)
  BY <1>1, <1>2 DEF RestInv, ClaimInv, PassShape
<1>4. StatusFields \subseteq DOMAIN pass'.status /\ pass'.status.drifted = pass.status.drifted
  <2>1. StatusFields \subseteq DOMAIN pass.status
    BY <1>2 DEF RestInv, WorkShape
  <2>2. pass'.status = [pass.status EXCEPT !.provisioned = "True"]
    BY <1>1, <1>2 DEF RestInv, ClaimInv, PassShape
  <2> QED BY <2>1, <2>2
<1>5. pass' # Idle
  BY <1>3 DEF Idle
<1>6. pass.content \in Contents
  BY <1>1, <1>2 DEF RestInv, WorkShape
<1>7. Ordered(pass.content)
  BY <1>6, OrderIs
<1>8. WorkShape'
  <2>1. /\ pass'.todo \in Seq(RoleSet(pass'.content)) /\ pass'.todo # <<>> /\ Once(pass'.todo)
    BY <1>3, <1>7 DEF Ordered, Sorted
  <2> QED BY <1>2, <1>3, <1>4, <1>6, <2>1 DEF WorkShape, RestInv
<1>9. ASSUME NEW c, NEW s, NEW st, ~pending', ~pass'.err, c = Read', s = cIsvc'.spec, st = pass'.status
      PROVE  pass'.read = cIsvc' /\ pass'.content = c /\ Underway(c, s, st)'
  <2>1. PICK e : e = pass.status
    OBVIOUS
  <2>2. c = Read /\ s = cIsvc.spec /\ ~pending /\ ~pass.err
    BY <1>1, <1>3, <1>9 DEF Read
  <2>3. pass.read = cIsvc /\ pass.content = c /\ Underway(c, s, e)
    BY <1>2, <2>1, <2>2 DEF RestInv, Honest
  <2>4. Renders(c, s) /\ e.drifted = DriftSeen(c, s) /\ pass.waiting = {} /\ pass.unready = {}
    BY <1>1, <2>3 DEF Underway
  <2>5. DriftSeen(c, s)' = DriftSeen(c, s)
    BY <1>1 DEF DriftSeen
  <2>6. Provisioned(c, s)'
    <3>1. PICK class : class = Class[s.model]
      OBVIOUS
    <3>2. class # None => IF cClaim = None THEN claim' = [class |-> class, bound |-> FALSE] ELSE cClaim.class = class
      BY <2>2, <2>3, <3>1 DEF ProvisionModelPVC
    <3>3. class # None => [class |-> class, bound |-> FALSE] # None
      <4>1. s.model \in Models
        BY <2>2 DEF RestInv, ClaimInv, ServiceShape, Named, Spec0
      <4>2. class # None => class \in Classes
        BY <3>1, <4>1 DEF Classes
      <4>3. class # None => [class |-> class, bound |-> FALSE] \in Claim
        BY <4>2 DEF Claim
      <4> QED BY <4>3, ClaimIsSomething
    <3>4. ~OrderError(c)
      BY <2>3
    <3> QED BY <1>1, <3>1, <3>2, <3>3, <3>4 DEF Provisioned
  <2>7. RoleSet(c) \ Elems(pass'.todo) = {}
    BY <1>3, <1>7, <2>3 DEF Ordered, Sorted
  <2>8. Account(c, s, {}, {}, {})'
    BY <1>3, <2>4 DEF Account, ServicesWritten, WorkloadsWritten
  <2>9. Applying(c, s)'
    BY <1>3, <2>7, <2>8 DEF Applying, Account, ServicesWritten, WorkloadsWritten
  <2> QED BY <1>1, <1>3, <1>4, <1>9, <2>1, <2>3, <2>4, <2>5, <2>6, <2>9 DEF Underway
<1> QED BY <1>5, <1>8, <1>9, GoesOn

\* The role a pass is at.
LEMMA RoleAt ==
  ASSUME RestInv, pass.pc \in {"service", "workload", "ready"}
  PROVE  /\ pass # Idle /\ PassFields \subseteq DOMAIN pass /\ pass.content \in Contents
         /\ pass.todo \in Seq(RoleSet(pass.content)) /\ pass.todo # <<>> /\ Once(pass.todo)
         /\ Head(pass.todo) \in RoleSet(pass.content) /\ Head(pass.todo) \in Roles
<1>1. pass # Idle
  BY DEF Idle
<1>2. /\ PassFields \subseteq DOMAIN pass /\ pass.content \in Contents
      /\ pass.todo \in Seq(RoleSet(pass.content)) /\ pass.todo # <<>> /\ Once(pass.todo)
  BY <1>1 DEF RestInv, ClaimInv, PassShape, WorkShape
<1>3. Head(pass.todo) \in RoleSet(pass.content)
  BY <1>2
<1> QED BY <1>1, <1>2, <1>3, KeysOf

LEMMA ServiceRest ==
  ASSUME RestInv, ApplyService
  PROVE  Truthful'
<1> USE DEF PassFields
<1>1. /\ pass.pc = "service" /\ pass' = [pass EXCEPT !.pc = "workload"]
      /\ UNCHANGED <<wl, claim, cIsvc, cProfiles, cWl, cSvc, cClaim, pending>>
  BY DEF ApplyService, caches
<1>2. PICK h : h = Head(pass.todo)
  OBVIOUS
<1>3. pass # Idle /\ h \in RoleSet(pass.content) /\ h \in Roles
  BY <1>1, <1>2, RoleAt
<1>4. /\ pass'.pc = "workload" /\ pass'.read = pass.read /\ pass'.content = pass.content /\ pass'.status = pass.status
      /\ pass'.err = pass.err /\ pass'.waiting = pass.waiting /\ pass'.unready = pass.unready /\ pass'.todo = pass.todo
  BY <1>1, <1>3 DEF RestInv, ClaimInv, PassShape
<1>5. pass' # Idle
  BY <1>4 DEF Idle
<1>6. WorkShape'
  BY <1>1, <1>3, <1>4 DEF WorkShape, RestInv
<1>7. ASSUME NEW c, NEW s, NEW st, ~pending', ~pass'.err, c = Read', s = cIsvc'.spec, st = pass'.status
      PROVE  pass'.read = cIsvc' /\ pass'.content = c /\ Underway(c, s, st)'
  <2>1. c = Read /\ s = cIsvc.spec /\ st = pass.status /\ ~pending /\ ~pass.err
    BY <1>1, <1>4, <1>7 DEF Read
  <2>2. pass.read = cIsvc /\ pass.content = c /\ Underway(c, s, st)
    BY <1>3, <2>1 DEF RestInv, Honest
  <2>3. Renders(c, s) /\ st.drifted = DriftSeen(c, s) /\ Provisioned(c, s) /\ Applying(c, s)
    BY <1>1, <2>2 DEF Underway
  <2>4. DriftSeen(c, s)' = DriftSeen(c, s) /\ Provisioned(c, s)'
    BY <1>1, <2>3 DEF DriftSeen, Provisioned
  <2>5. PICK done : done = RoleSet(c) \ Elems(pass.todo)
    OBVIOUS
  <2>6. Account(c, s, done, done, done)
    BY <1>1, <2>3, <2>5 DEF Applying
  <2>7. /\ Waiters(c, s)' = Waiters(c, s) /\ Written(c, s)' = Written(c, s) /\ Unready(c, s)' = Unready(c, s)
        /\ Misserved(c)' = Misserved(c)
    BY <1>1, CopiesDecide, ServicesDecide
  <2>8. /\ pass'.waiting = Waiters(c, s)' \cap done /\ pass'.unready = Unready(c, s)' \cap done
        /\ \A r \in Written(c, s)' \cap done : Differ(wl'[Key(c, r)], cWl'[Key(c, r)])
    BY <1>1, <1>4, <2>6, <2>7 DEF Account, WorkloadsWritten
  <2>9. \A r \in Misserved(c)' \cap (done \cup {h}) : svc'[r] # cSvc'[r]
    <3>1. \A r \in Misserved(c) \cap done : svc[r] # cSvc[r]
      BY <2>6 DEF Account, ServicesWritten
    <3>2. PICK needed \in BOOLEAN : needed = (h \in c.services /\ cSvc[h] # c.kind[h])
      OBVIOUS
    <3>3. svc' = IF needed THEN [svc EXCEPT ![h] = c.kind[h]] ELSE svc
      BY <1>2, <2>2, <3>2 DEF ApplyService
    <3>4. \A r \in Misserved(c) : r \in Roles /\ r \in c.services /\ cSvc[r] # c.kind[r]
      BY <1>1, <2>2, RoleAt, KeysOf DEF Misserved
    <3>5. DOMAIN svc = Roles
      BY DEF RestInv, ClusterShape
    <3> SUFFICES ASSUME NEW r \in Misserved(c) \cap (done \cup {h}) PROVE svc'[r] # cSvc[r]
      BY <1>1, <2>7
    <3>6. CASE r = h
      <4>1. needed
        BY <3>2, <3>4, <3>6
      <4>2. svc'[r] = c.kind[r]
        BY <1>3, <3>3, <3>5, <3>6, <4>1
      <4> QED BY <3>4, <4>2
    <3>7. CASE r # h
      <4>1. svc'[r] = svc[r]
        BY <3>3, <3>4, <3>5, <3>7
      <4> QED BY <3>1, <3>7, <4>1
    <3> QED BY <3>6, <3>7
  <2>10. RoleSet(c) \ Elems(pass'.todo) = done /\ Head(pass'.todo) = h
    BY <1>2, <1>4, <2>5
  <2>11. Applying(c, s)'
    BY <1>4, <2>8, <2>9, <2>10 DEF Applying, Account, ServicesWritten, WorkloadsWritten
  <2> QED BY <1>1, <1>4, <2>1, <2>2, <2>3, <2>4, <2>11 DEF Underway
<1> QED BY <1>5, <1>6, <1>7, GoesOn

\* The pass is at the role h, with the roles in done behind it.
At(h, c, s, done) ==
  /\ ~pending /\ ~pass.err /\ pass.content = c /\ pass.read.spec = s
  /\ done = RoleSet(c) \ Elems(pass.todo) /\ h \in RoleSet(c)
  /\ pass.pc = "workload" => Account(c, s, done \cup {h}, done, done)
  /\ pass.pc = "ready" => Account(c, s, done \cup {h}, done \cup {h}, done)

\* It leaves h as the locals p say, and written where it had to be.
Left(p, h, c, s, done) ==
  /\ h \in Written(c, s) => Differ(wl[Key(c, h)], cWl[Key(c, h)])
  /\ p.waiting = Waiters(c, s) \cap (done \cup {h})
  /\ p.unready = Unready(c, s) \cap (done \cup {h})

Behind(p, h) == \A c, s, done : At(h, c, s, done) => Left(p, h, c, s, done)

LEMMA NextRoleRest ==
  ASSUME RestInv, pass.pc \in {"workload", "ready"},
         NEW p, PassFields \subseteq DOMAIN p,
         p.read = pass.read, p.content = pass.content, p.status = pass.status, p.err = pass.err, p.todo = pass.todo,
         pass' = NextRole(p), UNCHANGED <<wl, svc, claim, cIsvc, cProfiles, cWl, cSvc, cClaim, pending>>,
         NEW h, h = Head(pass.todo),
         Behind(p, h)
  PROVE  Truthful'
<1> USE DEF PassFields
<1>1. /\ pass # Idle /\ pass.content \in Contents
      /\ pass.todo \in Seq(RoleSet(pass.content)) /\ pass.todo # <<>> /\ Once(pass.todo)
      /\ h \in RoleSet(pass.content)
  BY RoleAt
<1>2. PICK R : R = RoleSet(pass.content)
  OBVIOUS
<1>3. PICK e : e = pass'
  OBVIOUS
<1>4. /\ e.read = p.read /\ e.content = p.content /\ e.status = p.status /\ e.err = p.err
      /\ e.waiting = p.waiting /\ e.unready = p.unready
      /\ After(R, p.todo, Head(p.todo), e.todo)
      /\ e.pc = IF e.todo = <<>> THEN "cleanup" ELSE "service"
  BY <1>1, <1>2, <1>3, NextRoleIs
<1>5. /\ pass'.read = pass.read /\ pass'.content = pass.content /\ pass'.status = pass.status /\ pass'.err = pass.err
      /\ pass'.waiting = p.waiting /\ pass'.unready = p.unready
      /\ After(R, pass.todo, h, pass'.todo)
      /\ pass'.pc = IF pass'.todo = <<>> THEN "cleanup" ELSE "service"
  BY <1>3, <1>4
<1>6. pass' # Idle
  BY <1>5 DEF Idle
<1>7. WorkShape'
  BY <1>1, <1>2, <1>5 DEF WorkShape, RestInv, After
<1>8. ASSUME NEW c, NEW s, NEW st, ~pending', ~pass'.err, c = Read', s = cIsvc'.spec, st = pass'.status
      PROVE  pass'.read = cIsvc' /\ pass'.content = c /\ Underway(c, s, st)'
  <2>1. c = Read /\ s = cIsvc.spec /\ st = pass.status /\ ~pending /\ ~pass.err
    BY <1>5, <1>8 DEF Read
  <2>2. pass.read = cIsvc /\ pass.content = c /\ Underway(c, s, st)
    BY <1>1, <2>1 DEF RestInv, Honest
  <2>3. Renders(c, s) /\ st.drifted = DriftSeen(c, s) /\ Provisioned(c, s) /\ Applying(c, s)
    BY <2>2 DEF Underway
  <2>4. DriftSeen(c, s)' = DriftSeen(c, s) /\ Provisioned(c, s)'
    BY <2>3 DEF DriftSeen, Provisioned
  <2>5. PICK done : done = RoleSet(c) \ Elems(pass.todo)
    OBVIOUS
  <2>6. PICK upTo : upTo = done \cup {h}
    OBVIOUS
  <2>7. /\ pass.pc = "workload" => Account(c, s, upTo, done, done)
        /\ pass.pc = "ready" => Account(c, s, upTo, upTo, done)
    BY <2>3, <2>5, <2>6 DEF Applying
  <2>8. /\ h \in Written(c, s) => Differ(wl[Key(c, h)], cWl[Key(c, h)])
        /\ p.waiting = Waiters(c, s) \cap upTo
        /\ p.unready = Unready(c, s) \cap upTo
    BY <1>1, <2>1, <2>2, <2>5, <2>6, <2>7 DEF Behind, At, Left
  <2>9. /\ \A r \in Misserved(c) \cap upTo : svc[r] # cSvc[r]
        /\ \A r \in Written(c, s) \cap done : Differ(wl[Key(c, r)], cWl[Key(c, r)])
    BY <2>6, <2>7 DEF Account, ServicesWritten, WorkloadsWritten
  <2>10. \A r \in Written(c, s) \cap upTo : Differ(wl[Key(c, r)], cWl[Key(c, r)])
    BY <2>6, <2>8, <2>9
  <2>11. /\ Waiters(c, s)' = Waiters(c, s) /\ Written(c, s)' = Written(c, s) /\ Unready(c, s)' = Unready(c, s)
         /\ Misserved(c)' = Misserved(c)
    BY CopiesDecide, ServicesDecide
  <2>12. Account(c, s, upTo, upTo, upTo)'
    BY <1>5, <2>8, <2>9, <2>10, <2>11 DEF Account, ServicesWritten, WorkloadsWritten
  <2>13. RoleSet(c) \ Elems(pass'.todo) = upTo
    BY <1>1, <1>2, <1>5, <2>2, <2>5, <2>6 DEF After
  <2>14. pass'.todo = <<>> => RoleSet(c) = upTo
    <3>1. Elems(<<>>) = {}
      BY DEF Elems
    <3> QED BY <2>13, <3>1
  <2>15. Applying(c, s)'
    <3>1. CASE pass'.todo = <<>>
      <4>1. pass'.pc = "cleanup" /\ upTo = RoleSet(c)
        BY <1>5, <2>14, <3>1
      <4> QED BY <2>12, <4>1 DEF Applying, Account, ServicesWritten, WorkloadsWritten
    <3>2. CASE pass'.todo # <<>>
      <4>1. pass'.pc = "service"
        BY <1>5, <3>2
      <4> QED BY <2>12, <2>13, <4>1 DEF Applying, Account, ServicesWritten, WorkloadsWritten
    <3> QED BY <3>1, <3>2
  <2> QED BY <1>5, <2>1, <2>2, <2>3, <2>4, <2>15 DEF Underway
<1> QED BY <1>6, <1>7, <1>8, GoesOn

\* What the pass does with a role, and what it finds.
LEMMA DecisionIs ==
  ASSUME NEW c, NEW s, NEW r
  PROVE  /\ Decision(c, r, s) \in {"create", "hold", "roll", "wait", "keep", "scale"}
         /\ Decision(c, r, s) = "hold" => ~RoleReady(c, r, s)
         /\ Decision(c, r, s) = "create" => cWl[Key(c, r)] = None
         /\ Decision(c, r, s) = "roll" => cWl[Key(c, r)] # None /\ ~SameTemplate(cWl[Key(c, r)], c, r, s)
         /\ Decision(c, r, s) = "scale" => cWl[Key(c, r)] # None /\ ~SameScale(cWl[Key(c, r)], c, r, s)
BY DEF Decision, RoleReady

LEMMA HoldRest ==
  ASSUME RestInv, HoldCreation
  PROVE  Truthful'
<1> USE DEF PassFields
<1>1. PICK h : h = Head(pass.todo)
  OBVIOUS
<1>2. PICK p : p = [pass EXCEPT !.waiting = @ \cup {h}, !.unready = @ \cup {h}, !.did = Progress(pass.did, "Reconciling")]
  OBVIOUS
<1>3. /\ pass.pc = "workload" /\ Decision(pass.content, h, pass.read.spec) = "hold" /\ pass' = NextRole(p)
      /\ UNCHANGED <<wl, svc, claim, cIsvc, cProfiles, cWl, cSvc, cClaim, pending>>
  BY <1>1, <1>2 DEF HoldCreation, api, caches
<1>4. PassFields \subseteq DOMAIN pass
  BY <1>3, RoleAt
<1>5. /\ PassFields \subseteq DOMAIN p /\ p.read = pass.read /\ p.content = pass.content /\ p.status = pass.status
      /\ p.err = pass.err /\ p.todo = pass.todo
      /\ p.waiting = pass.waiting \cup {h} /\ p.unready = pass.unready \cup {h}
  BY <1>2, <1>4
<1>6. ASSUME NEW c, NEW s, NEW done, At(h, c, s, done) PROVE Left(p, h, c, s, done)
  <2>0. /\ ~pending /\ ~pass.err /\ pass.content = c /\ pass.read.spec = s
        /\ done = RoleSet(c) \ Elems(pass.todo) /\ h \in RoleSet(c)
        /\ pass.pc = "workload" => Account(c, s, done \cup {h}, done, done)
        /\ pass.pc = "ready" => Account(c, s, done \cup {h}, done \cup {h}, done)
    BY <1>6 DEF At
  <2>1. Decision(c, h, s) = "hold" /\ ~RoleReady(c, h, s)
    BY <1>3, <2>0, DecisionIs
  <2>2. h \in Waiters(c, s) /\ h \notin Written(c, s) /\ h \in Unready(c, s)
    BY <2>0, <2>1 DEF Waiters, Written, Unready
  <2>3. pass.waiting = Waiters(c, s) \cap done /\ pass.unready = Unready(c, s) \cap done
    BY <1>3, <2>0 DEF Account
  <2> QED BY <1>5, <2>2, <2>3 DEF Left
<1>7. Behind(p, h)
  BY <1>6 DEF Behind
<1> QED BY <1>1, <1>3, <1>5, <1>7, NextRoleRest

LEMMA ObserveRest ==
  ASSUME RestInv, ObserveRole
  PROVE  Truthful'
<1> USE DEF PassFields
<1>1. PICK h : h = Head(pass.todo)
  OBVIOUS
<1>2. PICK u : u = IF RoleReady(pass.content, h, pass.read.spec) THEN pass.unready ELSE pass.unready \cup {h}
  OBVIOUS
<1>3. PICK p : p = [pass EXCEPT !.unready = u]
  OBVIOUS
<1>4. /\ pass.pc = "ready" /\ pass' = NextRole(p)
      /\ UNCHANGED <<wl, svc, claim, cIsvc, cProfiles, cWl, cSvc, cClaim, pending>>
  <2>1. PassFields \subseteq DOMAIN pass
    BY RoleAt DEF ObserveRole
  <2> QED BY <1>1, <1>2, <1>3, <2>1 DEF ObserveRole, api, caches
<1>5. PassFields \subseteq DOMAIN pass
  BY <1>4, RoleAt
<1>6. /\ PassFields \subseteq DOMAIN p /\ p.read = pass.read /\ p.content = pass.content /\ p.status = pass.status
      /\ p.err = pass.err /\ p.todo = pass.todo
      /\ p.waiting = pass.waiting /\ p.unready = u
  BY <1>3, <1>5
<1>7. ASSUME NEW c, NEW s, NEW done, At(h, c, s, done) PROVE Left(p, h, c, s, done)
  <2>0. /\ ~pending /\ ~pass.err /\ pass.content = c /\ pass.read.spec = s
        /\ done = RoleSet(c) \ Elems(pass.todo) /\ h \in RoleSet(c)
        /\ pass.pc = "workload" => Account(c, s, done \cup {h}, done, done)
        /\ pass.pc = "ready" => Account(c, s, done \cup {h}, done \cup {h}, done)
    BY <1>7 DEF At
  <2>1. Account(c, s, done \cup {h}, done \cup {h}, done)
    BY <1>4, <2>0
  <2>2. /\ h \in Written(c, s) => Differ(wl[Key(c, h)], cWl[Key(c, h)])
        /\ p.waiting = Waiters(c, s) \cap (done \cup {h}) /\ pass.unready = Unready(c, s) \cap done
    BY <1>6, <2>1 DEF Account, WorkloadsWritten
  <2>3. h \in Unready(c, s) <=> ~RoleReady(c, h, s)
    BY <2>0 DEF Unready
  <2>4. u = IF RoleReady(c, h, s) THEN pass.unready ELSE pass.unready \cup {h}
    BY <1>2, <2>0
  <2>5. CASE RoleReady(c, h, s)
    BY <1>6, <2>2, <2>3, <2>4, <2>5 DEF Left
  <2>6. CASE ~RoleReady(c, h, s)
    BY <1>6, <2>2, <2>3, <2>4, <2>6 DEF Left
  <2> QED BY <2>5, <2>6
<1>8. Behind(p, h)
  BY <1>7 DEF Behind
<1> QED BY <1>1, <1>4, <1>6, <1>8, NextRoleRest

\* The role's workload is written, or needs nothing.
LEMMA WorkloadRest ==
  ASSUME RestInv, WriteWorkload \/ PassOverWorkload
  PROVE  Truthful'
<1> USE DEF PassFields
<1>1. PICK h : h = Head(pass.todo)
  OBVIOUS
<1>2. PICK do : do = Decision(pass.content, h, pass.read.spec)
  OBVIOUS
<1>3. pass.pc = "workload" /\ UNCHANGED <<svc, claim, cIsvc, cProfiles, cWl, cSvc, cClaim, pending>>
  BY DEF WriteWorkload, PassOverWorkload, api, caches
<1>4. /\ pass # Idle /\ PassFields \subseteq DOMAIN pass /\ pass.content \in Contents
      /\ h \in RoleSet(pass.content)
  BY <1>1, <1>3, RoleAt
<1>5. PICK k \in Keys : k = Key(pass.content, h)
  BY <1>4, KeysOf
<1>6. \/ /\ do \in {"create", "roll", "scale"} /\ wl[k] = cWl[k]
         /\ wl' = [wl EXCEPT ![k] = Applied(wl[k], pass.content, h, pass.read.spec)]
         /\ \E did : pass' = [pass EXCEPT !.pc = "ready", !.did = did]
      \/ /\ do = "keep" /\ wl' = wl /\ pass' = [pass EXCEPT !.pc = "ready", !.waiting = pass.waiting]
      \/ /\ do = "wait" /\ wl' = wl /\ pass' = [pass EXCEPT !.pc = "ready", !.waiting = pass.waiting \cup {h}]
  <2>1. CASE WriteWorkload
    BY <1>1, <1>2, <1>5, <2>1, Zenon DEF WriteWorkload
  <2>2. CASE PassOverWorkload
    BY <1>1, <1>2, <1>4, <2>2 DEF PassOverWorkload, api
  <2> QED BY <2>1, <2>2
<1>7. /\ pass'.pc = "ready" /\ pass'.read = pass.read /\ pass'.content = pass.content /\ pass'.status = pass.status
      /\ pass'.err = pass.err /\ pass'.unready = pass.unready /\ pass'.todo = pass.todo
      /\ pass'.waiting = IF do = "wait" THEN pass.waiting \cup {h} ELSE pass.waiting
  BY <1>4, <1>6
<1>8. pass' # Idle
  BY <1>7 DEF Idle
<1>9. WorkShape'
  BY <1>3, <1>4, <1>7 DEF WorkShape, RestInv
<1>10. ASSUME NEW c, NEW s, NEW st, ~pending', ~pass'.err, c = Read', s = cIsvc'.spec, st = pass'.status
      PROVE  pass'.read = cIsvc' /\ pass'.content = c /\ Underway(c, s, st)'
  <2>1. c = Read /\ s = cIsvc.spec /\ st = pass.status /\ ~pending /\ ~pass.err
    BY <1>3, <1>7, <1>10 DEF Read
  <2>2. pass.read = cIsvc /\ pass.content = c /\ Underway(c, s, st)
    BY <1>4, <2>1 DEF RestInv, Honest
  <2>3. Renders(c, s) /\ st.drifted = DriftSeen(c, s) /\ Provisioned(c, s) /\ Applying(c, s)
    BY <1>3, <2>2 DEF Underway
  <2>4. DriftSeen(c, s)' = DriftSeen(c, s) /\ Provisioned(c, s)'
    BY <1>3, <2>3 DEF DriftSeen, Provisioned
  <2>5. PICK done : done = RoleSet(c) \ Elems(pass.todo)
    OBVIOUS
  <2>6. PICK upTo : upTo = done \cup {h}
    OBVIOUS
  <2>7. Account(c, s, upTo, done, done)
    BY <1>1, <1>3, <2>3, <2>5, <2>6 DEF Applying
  <2>8. /\ Waiters(c, s)' = Waiters(c, s) /\ Written(c, s)' = Written(c, s) /\ Unready(c, s)' = Unready(c, s)
        /\ Misserved(c)' = Misserved(c)
    BY <1>3, CopiesDecide, ServicesDecide
  <2>9. do = Decision(c, h, s) /\ k = Key(c, h) /\ h \in RoleSet(c) /\ c \in Contents
    BY <1>2, <1>4, <1>5, <2>1, <2>2
  <2>10. pass'.waiting = Waiters(c, s)' \cap upTo
    <3>1. pass.waiting = Waiters(c, s) \cap done
      BY <2>7 DEF Account
    <3>2. h \in Waiters(c, s) <=> do \in {"hold", "wait"}
      BY <2>9 DEF Waiters
    <3>3. do # "hold"
      BY <1>6
    <3>4. CASE do = "wait"
      BY <1>7, <2>6, <2>8, <3>1, <3>2, <3>4
    <3>5. CASE do # "wait"
      BY <1>7, <2>6, <2>8, <3>1, <3>2, <3>3, <3>5
    <3> QED BY <3>4, <3>5
  <2>11. \A r \in Written(c, s)' \cap upTo : Differ(wl'[Key(c, r)], cWl'[Key(c, r)])
    <3>1. \A r \in Written(c, s) \cap done : Differ(wl[Key(c, r)], cWl[Key(c, r)])
      BY <2>7 DEF Account, WorkloadsWritten
    <3>2. h \in Written(c, s) <=> do \in {"create", "roll", "scale"}
      BY <2>9 DEF Written
    <3>3. CASE do \notin {"create", "roll", "scale"}
      <4>1. wl' = wl
        BY <1>6, <3>3
      <4> QED BY <1>3, <2>6, <2>8, <3>1, <3>2, <3>3, <4>1
    <3>4. CASE do \in {"create", "roll", "scale"}
      <4>1. PICK w : w = Applied(wl[k], c, h, s)
        OBVIOUS
      <4>2. wl' = [wl EXCEPT ![k] = w] /\ wl[k] = cWl[k]
        BY <1>6, <2>1, <2>2, <3>4, <4>1
      <4>3. wl \in [Keys -> AnyWorkload \cup {None}]
        BY DEF RestInv, ClusterShape
      <4>4. wl'[k] = w /\ \A j \in Keys : j # k => wl'[j] = wl[j]
        BY <4>2, <4>3
      <4>5. w.tmpl = Template(c, h, s) /\ w.replicas = RoleReplicas(c, h, s) /\ w.size = c.size[h]
        BY <4>1 DEF Applied
      <4>6. w # None
        <5>1. h \in Roles /\ s \in Spec0
          BY <2>1, <2>9, KeysOf DEF RestInv, ClaimInv, ServiceShape, Named
        <5>2. wl[k] \in AnyWorkload \cup {None}
          BY <4>3
        <5> QED BY <2>9, <4>1, <5>1, <5>2, AppliedIs, AnyWorkloadIsSomething
      <4>7. Differ(w, cWl[k])
        <5>1. CASE do = "create"
          BY <2>9, <4>6, <5>1, DecisionIs DEF Differ
        <5>2. CASE do = "roll"
          <6>1. cWl[k] # None /\ cWl[k].tmpl # Template(c, h, s)
            BY <2>9, <5>2, DecisionIs DEF SameTemplate
          <6> QED BY <4>5, <4>6, <6>1 DEF Differ
        <5>3. CASE do = "scale"
          <6>1. cWl[k] # None /\ (cWl[k].replicas # RoleReplicas(c, h, s) \/ cWl[k].size # c.size[h])
            BY <2>9, <5>3, DecisionIs DEF SameScale
          <6> QED BY <4>5, <4>6, <6>1 DEF Differ
        <5> QED BY <3>4, <5>1, <5>2, <5>3
      <4> SUFFICES ASSUME NEW r \in Written(c, s) \cap upTo PROVE Differ(wl'[Key(c, r)], cWl[Key(c, r)])
        BY <1>3, <2>8
      <4>8. CASE r = h
        BY <2>9, <4>4, <4>7, <4>8
      <4>9. CASE r # h
        <5>1. r \in RoleSet(c) /\ r \in done
          BY <2>6, <4>9 DEF Written
        <5>2. PICK j \in Keys : j = Key(c, r)
          BY <2>9, <5>1, KeysOf
        <5>3. j # k
          BY <2>9, <4>9, <5>1, <5>2, KeysOf
        <5>4. Differ(wl[j], cWl[j])
          BY <3>1, <5>1, <5>2
        <5> QED BY <4>4, <5>2, <5>3, <5>4
      <4> QED BY <4>8, <4>9
    <3> QED BY <3>3, <3>4
  <2>12. Account(c, s, upTo, upTo, done)'
    <3>1. \A r \in Misserved(c)' \cap upTo : svc'[r] # cSvc'[r]
      BY <1>3, <2>7, <2>8 DEF Account, ServicesWritten
    <3>2. pass'.unready = Unready(c, s)' \cap done
      BY <1>7, <2>7, <2>8 DEF Account
    <3> QED BY <2>10, <2>11, <3>1, <3>2 DEF Account, ServicesWritten, WorkloadsWritten
  <2>13. RoleSet(c) \ Elems(pass'.todo) = done /\ done \cup {Head(pass'.todo)} = upTo
    BY <1>1, <1>7, <2>5, <2>6
  <2>14. Applying(c, s)'
    BY <1>7, <2>12, <2>13 DEF Applying, Account, ServicesWritten, WorkloadsWritten
  <2> QED BY <1>3, <1>7, <2>1, <2>2, <2>3, <2>4, <2>14 DEF Underway
<1> QED BY <1>8, <1>9, <1>10, GoesOn

\* The cleanup deletes no workload and no Service of a role, and reports.
LEMMA CleanUpRest ==
  ASSUME RestInv, CleanUp
  PROVE  Truthful'
<1> USE DEF PassFields, StatusFields
<1>1. /\ pass.pc = "cleanup" /\ UNCHANGED <<claim, cIsvc, cProfiles, cWl, cSvc, cClaim, pending>>
      /\ pass' = [pass EXCEPT !.pc = "write", !.status = ReportedStatus(pass)]
      /\ wl' = [k \in Keys |-> IF k \in OrphanKeys(pass.content) THEN None ELSE wl[k]]
      /\ svc' = [r \in Roles |-> IF r \in OrphanServices(pass.content) THEN None ELSE svc[r]]
  BY DEF CleanUp, Delete, caches
<1>2. pass # Idle
  BY <1>1 DEF Idle
<1>3. PassFields \subseteq DOMAIN pass /\ StatusFields \subseteq DOMAIN pass.status /\ pass.content \in Contents
  BY <1>1, <1>2 DEF RestInv, ClaimInv, PassShape, WorkShape
<1>4. PICK e : e = ReportedStatus(pass)
  OBVIOUS
<1>5. /\ pass'.pc = "write" /\ pass'.read = pass.read /\ pass'.content = pass.content /\ pass'.status = e
      /\ pass'.err = pass.err
  BY <1>1, <1>3, <1>4
<1>6. /\ StatusFields \subseteq DOMAIN e
      /\ (e.applied = "True") <=> (pass.waiting = {})
      /\ e.applied = "True" => e.revision = pass.content
      /\ (e.ready = "True") <=> (pass.unready = {})
      /\ e.drifted = pass.status.drifted
  BY <1>3, <1>4 DEF ReportedStatus
<1>7. pass' # Idle
  BY <1>5 DEF Idle
<1>8. WorkShape'
  BY <1>2, <1>5, <1>6 DEF WorkShape, RestInv
<1>9. ASSUME NEW c, NEW s, NEW st, ~pending', ~pass'.err, c = Read', s = cIsvc'.spec, st = pass'.status
      PROVE  pass'.read = cIsvc' /\ pass'.content = c /\ Underway(c, s, st)'
  <2>1. PICK b : b = pass.status
    OBVIOUS
  <2>2. c = Read /\ s = cIsvc.spec /\ st = e /\ ~pending /\ ~pass.err
    BY <1>1, <1>5, <1>9 DEF Read
  <2>3. pass.read = cIsvc /\ pass.content = c /\ Underway(c, s, b) /\ c \in Contents
    BY <1>2, <1>3, <2>1, <2>2 DEF RestInv, Honest
  <2>4. Renders(c, s) /\ b.drifted = DriftSeen(c, s) /\ Provisioned(c, s) /\ Applying(c, s)
    BY <1>1, <2>3 DEF Underway
  <2>5. PICK all : all = RoleSet(c)
    OBVIOUS
  <2>6. Account(c, s, all, all, all)
    BY <1>1, <2>4, <2>5 DEF Applying
  <2>7. DriftSeen(c, s)' = DriftSeen(c, s) /\ Provisioned(c, s)'
    BY <1>1, <2>4 DEF DriftSeen, Provisioned
  <2>8. /\ Waiters(c, s)' = Waiters(c, s) /\ Written(c, s)' = Written(c, s) /\ Unready(c, s)' = Unready(c, s)
        /\ Misserved(c)' = Misserved(c)
    BY <1>1, CopiesDecide, ServicesDecide
  <2>9. Waiters(c, s) \subseteq all /\ Written(c, s) \subseteq all /\ Unready(c, s) \subseteq all /\ Misserved(c) \subseteq all
    BY <2>5 DEF Waiters, Written, Unready, Misserved
  <2>10. pass.waiting = Waiters(c, s) /\ pass.unready = Unready(c, s)
    BY <2>6, <2>9 DEF Account
  <2>11. ServicesWritten(c, RoleSet(c))'
    <3>1. \A r \in Misserved(c) : svc[r] # cSvc[r]
      BY <2>6, <2>9 DEF Account, ServicesWritten
    <3>2. \A r \in Misserved(c) : r \in Roles /\ r \notin OrphanServices(c)
      BY <2>3, <2>5, <2>9, KeysOf DEF OrphanServices
    <3>3. \A r \in Misserved(c) : svc'[r] = svc[r]
      BY <1>1, <2>3, <3>2
    <3> QED BY <1>1, <2>8, <3>1, <3>3 DEF ServicesWritten
  <2>12. WorkloadsWritten(c, s, RoleSet(c))'
    <3>1. \A r \in Written(c, s) : Differ(wl[Key(c, r)], cWl[Key(c, r)])
      BY <2>6, <2>9 DEF Account, WorkloadsWritten
    <3>2. \A r \in Written(c, s) : wl'[Key(c, r)] = wl[Key(c, r)]
      <4> TAKE r \in Written(c, s)
      <4>1. PICK k \in Keys : k = Key(c, r) /\ k[1] = r /\ r \in RoleSet(c)
        BY <2>3, <2>5, <2>9, KeysOf
      <4>2. k \notin OrphanKeys(c)
        BY <4>1 DEF OrphanKeys
      <4> QED BY <1>1, <2>3, <4>1, <4>2
    <3>3. \A r \in Written(c, s) : Differ(wl'[Key(c, r)], cWl'[Key(c, r)])
      BY <1>1, <3>1, <3>2
    <3> QED BY <2>8, <3>3 DEF WorkloadsWritten
  <2>13. \A k \in Keys : cWl'[k] # None => (k[1] \in RoleSet(c) /\ k = Key(c, k[1])) \/ wl'[k] = None
    BY <1>1, <2>3 DEF OrphanKeys
  <2>14. /\ (st.applied = "True") <=> (Waiters(c, s)' = {})
         /\ st.applied = "True" => st.revision = c
         /\ (st.ready = "True") <=> (Unready(c, s)' = {})
         /\ st.drifted = DriftSeen(c, s)'
    BY <1>6, <2>1, <2>2, <2>3, <2>4, <2>7, <2>8, <2>10
  <2>15. Settled(c, s, st)'
    BY <2>7, <2>11, <2>12, <2>13, <2>14 DEF Settled
  <2>16. Verdict(c, s, st)'
    BY <2>4, <2>15 DEF Verdict, Renders
  <2> QED BY <1>1, <1>5, <2>3, <2>16 DEF Underway
<1> QED BY <1>7, <1>8, <1>9, GoesOn

\* The end of a pass: its status is the one it has read, or is on its way to the
\* informer.
LEMMA WriteRest ==
  ASSUME RestInv, WriteStatus
  PROVE  Truthful'
<1>1. /\ pass.pc = "write" /\ pass' = Idle /\ UNCHANGED <<wl, svc, claim, cIsvc, cProfiles, cWl, cSvc, cClaim>>
      /\ pass.status # pass.read.status => isvc = pass.read
      /\ isvc' = IF pass.status # pass.read.status THEN [isvc EXCEPT !.status = pass.status] ELSE isvc
  BY DEF WriteStatus, caches
<1>2. pass # Idle
  BY <1>1 DEF Idle
<1>3. ~pending' => ~pending /\ ~pass.err
  BY DEF WriteStatus
<1>4. WorkShape' /\ Honest'
  BY <1>1 DEF WorkShape, Honest
<1>5. ASSUME NEW c, NEW s, NEW st, ~pending', c = Read', s = cIsvc'.spec, st = cIsvc'.status
      PROVE  isvc'.status # st \/ Verdict(c, s, st)'
  <2>1. PICK e : e = pass.status
    OBVIOUS
  <2>2. c = Read /\ s = cIsvc.spec /\ st = cIsvc.status /\ ~pending /\ ~pass.err
    BY <1>1, <1>3, <1>5 DEF Read
  <2>3. pass.read = cIsvc /\ Underway(c, s, e)
    BY <1>2, <2>1, <2>2 DEF RestInv, Honest
  <2>4. Verdict(c, s, e)
    BY <1>1, <2>3 DEF Underway
  <2>5. CASE e # st
    <3>1. isvc' = [isvc EXCEPT !.status = e] /\ "status" \in DOMAIN isvc
      BY <1>1, <2>1, <2>2, <2>3, <2>5 DEF RestInv, ClaimInv, ServiceShape, Named
    <3>2. isvc'.status = e
      BY <3>1
    <3> QED BY <2>5, <3>2
  <2>6. CASE e = st
    <3>1. \A x : Same(x, x)
      BY DEF Same
    <3>2. Quiet
      BY <1>1, <3>1 DEF Quiet
    <3>3. c \in Contents \cup {None}
      BY <2>2, ReadIs DEF RestInv
    <3> QED BY <2>4, <2>6, <3>2, <3>3, QuietVerdict
  <2> QED BY <2>5, <2>6
<1> QED BY <1>4, <1>5 DEF Truthful, Resting

\* The service is in the queue again.
LEMMA QueuedRest ==
  ASSUME RestInv, pending' = TRUE, pass' \in {pass, Idle}
  PROVE  Truthful'
<1>1. WorkShape'
  BY DEF RestInv, WorkShape
<1> QED BY <1>1 DEF Truthful, Honest, Resting

LEMMA QuietRest ==
  ASSUME RestInv, Quiet, UNCHANGED <<pass, pending>>, Read' = Read, isvc'.status = isvc.status
  PROVE  Truthful'
<1>1. WorkShape'
  BY DEF RestInv, WorkShape
<1>2. Read \in Contents \cup {None} /\ cIsvc' = cIsvc
  BY ReadIs DEF RestInv, Quiet
<1>3. Honest'
  <2> SUFFICES ASSUME NEW c, NEW s, NEW st, ~pending', pass' # Idle, ~pass'.err, c = Read', s = cIsvc'.spec, st = pass'.status
               PROVE  pass'.read = cIsvc' /\ pass'.content = c /\ Underway(c, s, st)'
    BY DEF Honest
  <2>1. pass.read = cIsvc /\ pass.content = c /\ Underway(c, s, st)
    BY <1>2 DEF RestInv, Honest
  <2>2. c \in Contents \cup {None}
    BY <1>2
  <2>3. Underway(c, s, st)'
    BY <2>1, <2>2, QuietUnderway
  <2> QED BY <1>2, <2>1, <2>3
<1>4. Resting'
  <2> SUFFICES ASSUME NEW c, NEW s, NEW st, ~pending', pass' = Idle, c = Read', s = cIsvc'.spec, st = cIsvc'.status
               PROVE  isvc'.status # st \/ Verdict(c, s, st)'
    BY DEF Resting
  <2>1. isvc.status # st \/ Verdict(c, s, st)
    BY <1>2 DEF RestInv, Resting
  <2>2. c \in Contents \cup {None}
    BY <1>2
  <2> QED BY <2>1, <2>2, QuietVerdict
<1> QED BY <1>1, <1>3, <1>4 DEF Truthful

LEMMA OthersRest ==
  ASSUME RestInv, SyncProfile \/ PodStarts \/ PodStops \/ PodFails \/ ClaimBinds \/ EndpointsFollow \/ UserEdits
                  \/ AdminReplacesProfile \/ UNCHANGED vars
  PROVE  Truthful'
<1>1. \A x : Same(x, x)
  BY DEF Same
<1>2. UNCHANGED <<cIsvc, cWl, cSvc, cClaim, svc, pass>>
  BY DEF SyncProfile, PodStarts, PodStops, PodFails, ClaimBinds, EndpointsFollow, UserEdits, AdminReplacesProfile, vars, api, caches
<1>3. CASE SyncProfile
  <2>1. PICK p \in Profiles : cProfiles' = [cProfiles EXCEPT ![p] = profiles[p]] /\ pending' = (pending \/ cIsvc.spec.profile = p)
    BY <1>3 DEF SyncProfile
  <2>2. UNCHANGED <<wl, claim, isvc>>
    BY <1>3 DEF SyncProfile, api
  <2>3. CASE pending' = TRUE
    BY <1>2, <2>3, QueuedRest
  <2>4. CASE pending' # TRUE
    <3>1. cIsvc.spec.profile # p /\ cIsvc.spec.profile \in Profiles /\ pending' = pending
      BY <2>1, <2>4 DEF RestInv, ClusterShape, ClaimInv, ServiceShape, Named, Spec0
    <3>2. Read' = Read
      BY <1>2, <2>1, <3>1 DEF Read, RestInv, ClusterShape
    <3>3. Quiet
      BY <1>1, <1>2, <2>2 DEF Quiet
    <3> QED BY <1>2, <2>2, <3>1, <3>2, <3>3, QuietRest
  <2> QED BY <2>3, <2>4
<1>4. CASE PodStarts \/ PodStops \/ PodFails
  <2>1. UNCHANGED <<isvc, claim, cProfiles, pending>>
    BY <1>4 DEF PodStarts, PodStops, PodFails, caches
  <2>2. \A k \in Keys : Same(wl[k], wl'[k])
    BY <1>4, PodsShape DEF RestInv, ClusterShape
  <2>3. Quiet /\ Read' = Read
    BY <1>2, <2>1, <2>2 DEF Quiet, Read
  <2> QED BY <1>2, <2>1, <2>3, QuietRest
<1>5. CASE ClaimBinds
  <2>1. UNCHANGED <<isvc, wl, cProfiles, pending>> /\ claim # None /\ claim' = [claim EXCEPT !.bound = TRUE]
    BY <1>5 DEF ClaimBinds, caches
  <2>2. claim' \in Claim
    BY <2>1 DEF RestInv, ClaimInv, ClaimSeen, Claim
  <2>3. Quiet /\ Read' = Read
    BY <1>1, <1>2, <2>1, <2>2, ClaimIsSomething DEF Quiet, Read
  <2> QED BY <1>2, <2>1, <2>3, QuietRest
<1>6. CASE EndpointsFollow \/ UserEdits \/ AdminReplacesProfile \/ UNCHANGED vars
  <2>1. UNCHANGED <<wl, claim, cProfiles, pending>>
    BY <1>6 DEF EndpointsFollow, UserEdits, AdminReplacesProfile, vars, api, caches
  <2>2. isvc'.status = isvc.status
    <3>1. isvc' = isvc \/ \E x : isvc' = [isvc EXCEPT !.spec = x]
      BY <1>6 DEF EndpointsFollow, UserEdits, AdminReplacesProfile, vars, api
    <3> QED BY <3>1 DEF RestInv, ClaimInv, ServiceShape, Named
  <2>3. Quiet /\ Read' = Read
    BY <1>1, <1>2, <2>1 DEF Quiet, Read
  <2> QED BY <1>2, <2>1, <2>2, <2>3, QuietRest
<1> QED BY <1>3, <1>4, <1>5, <1>6

LEMMA InitRest == Init => RestInv
<1> SUFFICES ASSUME Init PROVE RestInv
  OBVIOUS
<1> USE DEF StatusFields
<1>1. ClaimInv
  BY InitClaim
<1>2. \E x \in Spec0 : isvc = [spec |-> x, status |-> NewStatus]
  BY DEF Init
<1>3. cIsvc = isvc /\ pass = Idle /\ pending = TRUE
  BY DEF Init
<1>4. ClusterShape
  <2>1. StatusFields \subseteq DOMAIN isvc.status
    BY <1>2 DEF NewStatus
  <2>2. profiles \in [Profiles -> Contents \cup {None}] /\ cProfiles = profiles
    BY RolloutAssumption DEF Init
  <2>3. wl \in [Keys -> AnyWorkload \cup {None}] /\ cWl = wl /\ DOMAIN svc = Roles /\ cSvc = svc
    BY DEF Init
  <2> QED BY <1>3, <2>1, <2>2, <2>3 DEF ClusterShape
<1> QED BY <1>1, <1>3, <1>4 DEF RestInv, WorkShape, Honest, Resting

LEMMA RestStep == RestInv /\ [Next]_vars => RestInv'
<1> SUFFICES ASSUME RestInv, [Next]_vars PROVE RestInv'
  OBVIOUS
<1>1. ClaimInv'
  BY ClaimStep DEF RestInv
<1>2. ClusterShape'
  BY ClusterStep DEF RestInv
<1>3. Truthful'
  <2>1. CASE StartPass
    BY <2>1, StartRest
  <2>2. CASE ProvisionAssets
    BY <2>2, AssetsRest
  <2>3. CASE Fails
    BY <2>3, FailsRest
  <2>4. CASE ProvisionModelPVC /\ ~OrderError(pass.content)
    BY <2>4, ClaimRest
  <2>5. CASE ApplyService
    BY <2>5, ServiceRest
  <2>6. CASE HoldCreation
    BY <2>6, HoldRest
  <2>7. CASE WriteWorkload \/ PassOverWorkload
    BY <2>7, WorkloadRest
  <2>8. CASE ObserveRole
    BY <2>8, ObserveRest
  <2>9. CASE CleanUp
    BY <2>9, CleanUpRest
  <2>10. CASE WriteStatus
    BY <2>10, WriteRest
  <2>11. CASE WriteStatusFails \/ ManagerRestart \/ SyncService \/ SyncWorkload \/ SyncOwned
    <3>1. pending' = TRUE /\ pass' \in {pass, Idle}
      BY <2>11 DEF WriteStatusFails, ManagerRestart, SyncService, SyncWorkload, SyncOwned
    <3> QED BY <3>1, QueuedRest
  <2>12. CASE \/ SyncProfile \/ PodStarts \/ PodStops \/ PodFails \/ ClaimBinds \/ EndpointsFollow \/ UserEdits
              \/ AdminReplacesProfile \/ UNCHANGED vars
    BY <2>12, OthersRest
  <2> QED BY <2>1, <2>2, <2>3, <2>4, <2>5, <2>6, <2>7, <2>8, <2>9, <2>10, <2>11, <2>12, Steps DEF Others, Fails
<1> QED BY <1>1, <1>2, <1>3 DEF RestInv, Truthful

\* A role that waits does so for a dependency that is not ready: the first of them
\* in the order, for what it depends on comes earlier and waits for nothing.
LEMMA FirstWaiter ==
  ASSUME NEW c \in Contents, NEW s, ~OrderError(c), Waiters(c, s) # {}, Written(c, s) = {}
  PROVE  \E r \in Waiters(c, s) : \E d \in c.deps[r] : ~RoleReady(c, d, s)
<1>1. PICK o : o = Order(c)
  OBVIOUS
<1>2. o \in Seq(RoleSet(c)) /\ Elems(o) = RoleSet(c) /\ Precede(c.deps, o)
  BY <1>1, OrderIs DEF Ordered, Sorted
<1>3. PICK I : I = {i \in DOMAIN o : o[i] \in Waiters(c, s)}
  OBVIOUS
<1>4. DOMAIN o = 1 .. Len(o) /\ Len(o) \in Nat
  BY <1>2
<1>5. I # {}
  <2>1. Waiters(c, s) \subseteq Elems(o)
    BY <1>2 DEF Waiters
  <2> QED BY <1>3, <2>1 DEF Elems
<1>6. I \subseteq Nat
  BY <1>3, <1>4
<1>7. PICK i \in I : \A j \in I : i <= j
  BY <1>5, <1>6, Least
<1>8. PICK r : r = o[i]
  OBVIOUS
<1>9. r \in Waiters(c, s) /\ i \in DOMAIN o /\ i \in Nat
  BY <1>3, <1>4, <1>8
<1>10. \A d \in c.deps[r] : d \in RoleSet(c) /\ d \notin Waiters(c, s)
  <2>1. c.deps[r] \subseteq {o[j] : j \in 1 .. i - 1}
    BY <1>2, <1>8, <1>9 DEF Precede
  <2>2. \A j \in 1 .. i - 1 : j \in DOMAIN o /\ ~(i <= j)
    BY <1>4, <1>9
  <2>3. \A j \in 1 .. i - 1 : o[j] \in RoleSet(c) /\ o[j] \notin Waiters(c, s)
    BY <1>2, <1>3, <1>7, <2>2 DEF Elems
  <2> QED BY <2>1, <2>3
<1>11. Decision(c, r, s) \in {"hold", "wait"}
  BY <1>9 DEF Waiters
<1>12. ~DependenciesReady(c, r, s) \/ ~DependenciesConverged(c, r, s)
  BY <1>11 DEF Decision
<1>13. \A d \in RoleSet(c) : d \notin Waiters(c, s) => cWl[Key(c, d)] # None /\ SameTemplate(cWl[Key(c, d)], c, d, s)
  <2> TAKE d \in RoleSet(c)
  <2> HAVE d \notin Waiters(c, s)
  <2>1. Decision(c, d, s) \notin {"hold", "wait"} /\ Decision(c, d, s) \notin {"create", "roll", "scale"}
    BY DEF Waiters, Written
  <2> QED BY <2>1 DEF Decision
<1>14. \E d \in c.deps[r] : ~RoleReady(c, d, s)
  BY <1>10, <1>12, <1>13 DEF DependenciesReady, DependenciesConverged
<1> QED BY <1>9, <1>14

LEMMA RestSays == RestInv => RestIsTruthful
<1> SUFFICES ASSUME RestInv, AtRest PROVE RestIsTruthful
  BY DEF RestIsTruthful
<1>1. pass = Idle /\ ~pending /\ cIsvc = isvc /\ cProfiles = profiles /\ cWl = wl /\ cSvc = svc /\ cClaim = claim
  BY DEF AtRest, api, caches
<1>2. PICK c : c = Content
  OBVIOUS
<1>3. PICK s : s = isvc.spec
  OBVIOUS
<1>4. PICK st : st = isvc.status
  OBVIOUS
<1>5. c = Read /\ c \in Contents \cup {None}
  <2>1. c = Read
    BY <1>1, <1>2 DEF Content, Read
  <2> QED BY <2>1, ReadIs DEF RestInv
<1>6. Verdict(c, s, st)
  BY <1>1, <1>3, <1>4, <1>5 DEF RestInv, Resting
<1>7. CASE ~Resolves(c, s)
  <2>1. st.resolved = "Unresolved" /\ st.applied = "Unset" /\ st.progressing = "Converged"
    BY <1>6, <1>7 DEF Verdict
  <2> QED BY <1>2, <1>3, <1>4, <1>7, <2>1 DEF RestIsTruthful
<1>8. CASE Resolves(c, s) /\ s.replicas \notin c.renders
  <2>1. st.rendered = "RenderFailed" /\ st.applied = "Unset"
    BY <1>6, <1>8 DEF Verdict
  <2> QED BY <1>2, <1>3, <1>4, <1>8, <2>1 DEF RestIsTruthful
<1>9. CASE Renders(c, s)
  <2>1. Settled(c, s, st)
    BY <1>6, <1>9 DEF Verdict
  <2>2. c \in Contents
    BY <1>5, <1>9 DEF Renders, Resolves
  <2>3. Provisioned(c, s)
    BY <2>1 DEF Settled
  <2>4. Applies
    BY <1>1, <1>2, <1>3, <1>9, <2>3 DEF Applies, Provisioned, Renders
  <2>5. Written(c, s) = {}
    <3>1. \A r \in Written(c, s) : r \in RoleSet(c)
      BY DEF Written
    <3>2. \A r \in Written(c, s) : Differ(wl[Key(c, r)], wl[Key(c, r)])
      BY <1>1, <2>1, <3>1 DEF Settled, WorkloadsWritten
    <3>3. \A x : ~Differ(x, x)
      BY DEF Differ
    <3> QED BY <3>2, <3>3
  <2>6. \A r \in RoleSet(c) : Matches(r) <=> r \notin Waiters(c, s)
    <3> TAKE r \in RoleSet(c)
    <3>1. PICK w : w = wl[Key(c, r)]
      OBVIOUS
    <3>2. Matches(r) <=> w # None /\ SameTemplate(w, c, r, s) /\ SameScale(w, c, r, s)
      BY <1>2, <1>3, <3>1 DEF Matches
    <3>3. r \in Waiters(c, s) <=> Decision(c, r, s) \in {"hold", "wait"}
      BY DEF Waiters
    <3>4. Decision(c, r, s) \notin {"create", "roll", "scale"}
      BY <2>5 DEF Written
    <3>5. /\ w = None => Decision(c, r, s) \in {"create", "hold"}
          /\ w # None /\ ~SameTemplate(w, c, r, s) => Decision(c, r, s) \in {"roll", "wait"}
          /\ w # None /\ SameTemplate(w, c, r, s) => Decision(c, r, s) = IF SameScale(w, c, r, s) THEN "keep" ELSE "scale"
      BY <1>1, <3>1 DEF Decision
    <3> QED BY <3>2, <3>3, <3>4, <3>5
  <2>7. (st.applied = "True") <=> (\A r \in RoleSet(c) : Matches(r))
    <3>1. (st.applied = "True") <=> (Waiters(c, s) = {})
      BY <2>1 DEF Settled
    <3>2. Waiters(c, s) \subseteq RoleSet(c)
      BY DEF Waiters
    <3> QED BY <2>6, <3>1, <3>2
  <2>8. st.applied = "True" => st.revision = c /\ ~st.drifted
    <3> SUFFICES ASSUME st.applied = "True" PROVE st.revision = c /\ ~st.drifted
      OBVIOUS
    <3>1. st.revision = c /\ st.drifted = Drifted(ProfileEcho(st, s.profile, c), c)
      BY <1>1, <1>4, <2>1 DEF Settled, DriftSeen
    <3>2. c # None
      BY <2>2, RolloutAssumption
    <3>3. PICK e : e = ProfileEcho(st, s.profile, c)
      OBVIOUS
    <3>4. StatusFields \subseteq DOMAIN st
      BY <1>4 DEF RestInv, ClusterShape
    <3>5. e.revision \in {None, c}
      BY <3>1, <3>2, <3>3, <3>4 DEF ProfileEcho, StatusFields
    <3> QED BY <3>1, <3>3, <3>5 DEF Drifted
  <2>9. st.applied # "True" => \E r \in RoleSet(c) : ~Matches(r) /\ \E d \in c.deps[r] : ~RoleReady(c, d, s)
    <3> SUFFICES ASSUME st.applied # "True" PROVE \E r \in RoleSet(c) : ~Matches(r) /\ \E d \in c.deps[r] : ~RoleReady(c, d, s)
      OBVIOUS
    <3>1. Waiters(c, s) # {}
      BY <2>1 DEF Settled
    <3>2. ~OrderError(c)
      BY <2>3 DEF Provisioned
    <3>3. PICK r \in Waiters(c, s) : \E d \in c.deps[r] : ~RoleReady(c, d, s)
      BY <2>2, <2>5, <3>1, <3>2, FirstWaiter
    <3>4. r \in RoleSet(c)
      BY DEF Waiters
    <3> QED BY <2>6, <3>3, <3>4
  <2>10. (st.ready = "True") <=> (\A r \in RoleSet(c) : RoleReady(c, r, s))
    BY <2>1 DEF Settled, Unready
  <2>11. \A k \in Keys : wl[k] # None => k[1] \in RoleSet(c) /\ k = Key(c, k[1])
    BY <1>1, <2>1 DEF Settled
  <2>12. \A r \in RoleSet(c) \cap c.services : svc[r] = c.kind[r]
    BY <1>1, <2>1 DEF Settled, ServicesWritten, Misserved
  <2>13. Resolves(c, s) /\ s.replicas \in c.renders
    BY <1>9 DEF Renders
  <2> QED BY <1>2, <1>3, <1>4, <2>4, <2>7, <2>8, <2>9, <2>10, <2>11, <2>12, <2>13 DEF RestIsTruthful
<1> QED BY <1>7, <1>8, <1>9 DEF Renders

\* Whenever the controller has nothing left to do, the status is true of the
\* cluster, for every set of profiles, whatever was edited, failed or restarted and
\* however the informers lagged behind the pass.
THEOREM RestTellsTheTruth == Spec => []RestIsTruthful
<1>1. Init => RestInv
  BY InitRest
<1>2. RestInv /\ [Next]_vars => RestInv'
  BY RestStep
<1>3. RestInv => RestIsTruthful
  BY RestSays
<1>4. QED
  BY <1>1, <1>2, <1>3, PTL DEF Spec
=============================================================================
