----------------------------- MODULE ServiceForm -----------------------------
(***************************************************************************)
(* Deploying an inference service: the wizard of                           *)
(* app/inference-services/page.tsx (DeployWizard, OverrideInput) and the   *)
(* create route (app/api/inferenceservices/route.ts).                      *)
(*                                                                         *)
(* A profile declares knobs, named <<role, knob>> (`<role>_<knob>`, or the *)
(* bare knob when the role is Blank), and the wizard sends the values the  *)
(* user changed.  A value is the sequence of its comma-separated entries,  *)
(* an entry a key and a number: a node pin, a count of RDMA devices, an    *)
(* integer, a plain text.  The empty box is the empty sequence.  Every     *)
(* profile is of one vendor, so what the vendor decides is left out.       *)
(***************************************************************************)
EXTENDS FormParts, FiniteSetsExt

CONSTANTS Clusters,      \* the sets of nodes the cluster may have
          MaxDeployEdits \* bound: edits of the draft

VARIABLES nodes,         \* the nodes of the cluster
          deploy,        \* the wizard's draft
          deployStep,
          deployEdits,   \* edits so far
          deployReply,   \* the route's answer: "none", "created", or the code of a refusal
          service        \* the InferenceService it wrote

deployVars == <<nodes, deploy, deployStep, deployEdits, deployReply, service>>

Pair(k, n) == <<[key |-> k, num |-> n]>>
Text(s) == Pair(s, 0)
Whole(n) == Pair("int", n)
Pin(n) == [key |-> "hostname", num |-> n.id]

NodeOk(n) == /\ n.id \in Nat /\ n.gpu \in Nat /\ n.infiniband \in Nat /\ n.roce \in Nat
             /\ n.model \in STRING /\ n.schedulable \in BOOLEAN
ASSUME ClustersAssumption == \A c \in Clusters : IsFiniteSet(c) /\ \A n \in c : NodeOk(n)

(* The options route: the nodes a pod could be scheduled on. *)
AllNodes == {n \in nodes : n.schedulable}

-----------------------------------------------------------------------------
(* Profiles and models: a cluster's objects, as the options route lists them *)

Knob(role, knob, type, default) ==
    [name |-> <<role, knob>>, role |-> role, knob |-> knob, type |-> type,
     min |-> 1, max |-> 2, enum |-> <<>>, default |-> default]
ModelKnob(role) ==
    [Knob(role, "metax_model", "string", Text("C500")) EXCEPT !.enum = <<Text("C500"), Text("C550")>>]

Profiles ==
    << [name |-> "standard", mode |-> "standard", vendor |-> "metax", models |-> {"C500", "C550"},
        architectures |-> {"moe"}, quantizations |-> {},
        roles |-> << [name |-> "worker", own |-> Absent, gpuPerPod |-> 4] >>,
        overrides |-> << ModelKnob(Blank), Knob(Blank, "replicas", "integer", Whole(1)),
                         Knob(Blank, "nodeSelector", "stringList", <<>>),
                         Knob(Blank, "extendedResources", "string", <<>>),
                         Knob(Blank, "prefixCache", "boolean", Absent) >>],
       [name |-> "pd", mode |-> "pd-separation", vendor |-> "metax", models |-> {"C500", "C550"},
        architectures |-> {"moe"}, quantizations |-> {"int8"},
        roles |-> << [name |-> "prefill", own |-> Absent, gpuPerPod |-> 2],
                     [name |-> "decode", own |-> {"C550"}, gpuPerPod |-> 2] >>,
        overrides |-> << ModelKnob("prefill"), ModelKnob("decode"),
                         Knob("prefill", "nodeSelector", "string", <<>>),
                         Knob(Blank, "extendedResources", "stringList", <<>>),
                         Knob(Blank, "maxBatch", "integer", Absent) >>] >>

ModelVersions == { [name |-> "m1", architecture |-> "moe", quantization |-> "bf16"],
                   [name |-> "m2", architecture |-> "moe", quantization |-> "int8"],
                   [name |-> "m3", architecture |-> "dense", quantization |-> "int8"] }

ProfileNamed(n) == CHOOSE p \in ToSet(Profiles) : p.name = n
Knobs(d) == ToSet(d.profile.overrides)
Roles(d) == ToSet(d.profile.roles)

Suits(p, m) ==
    /\ p.architectures # {} => m.architecture \in p.architectures
    /\ p.quantizations # {} => m.quantization \in p.quantizations
CompatibleModels(d) == {m.name : m \in {v \in ModelVersions : Suits(d.profile, v)}}

-----------------------------------------------------------------------------
(* What a knob holds *)

OrElse(x, y) == IF x # Absent THEN x ELSE y
FirstIn(S, seq) == LET in == SelectSeq(seq, LAMBDA x : x \in S) IN IF in = <<>> THEN Absent ELSE Head(in)

(* A role's own accelerator replaces the profile's. *)
RoleModels(d, role) == OrElse(role.own, d.profile.models)

Held(d, o) == o.name \in DOMAIN d.overrides

(* The user's value, the profile's, or one the input can show. *)
DeclaredOverrideValue(d, o) ==
    IF Held(d, o) THEN d.overrides[o.name]
    ELSE IF o.default # Absent THEN o.default
    ELSE CASE o.type = "stringList" -> <<>>
           [] o.type # "stringList" /\ o.enum # <<>> -> o.enum[1]
           [] o.type = "boolean" -> Text("true")
           [] o.type = "integer" -> Whole(o.min)
           [] OTHER -> <<>>

(* The first knob whose text is one of the models. *)
KeyOf(v) == IF v = <<>> THEN Blank ELSE Head(v).key
FirstModel(d, knobs, models) ==
    FirstIn(models, [i \in DOMAIN knobs |->
                        IF knobs[i].type = "string" THEN KeyOf(DeclaredOverrideValue(d, knobs[i])) ELSE Blank])

SelectedGpuModel(d) == FirstModel(d, d.profile.overrides, d.profile.models)

(* A role's own knob, else the profile's choice where the role allows it. *)
SelectedRoleGpuModel(d, role) ==
    LET own == SelectSeq(d.profile.overrides, LAMBDA o : o.role = role.name /\ o.knob = "metax_model")
    IN  FirstIn(RoleModels(d, role), <<FirstModel(d, own, RoleModels(d, role)), SelectedGpuModel(d)>>)

RoleNodeMatches(model, n) == model \in {Absent, n.model}

(* A selector without a role applies to every role. *)
NodeMatchesSelectedModel(d, o, n) ==
    \A role \in Roles(d) :
        o.role \in {Blank, role.name} => RoleNodeMatches(SelectedRoleGpuModel(d, role), n)

IsExtendedResources(o) == o.type \in {"string", "stringList"} /\ o.knob = "extendedResources"
IsNodeSelector(o) == o.type \in {"string", "stringList"} /\ o.knob = "nodeSelector"
Fabrics == {"infiniband", "roce"}

(* The fabric a value names: Blank for none, Absent for what no picker can show. *)
RdmaFabricOf(v) ==
    IF v = <<>> THEN Blank ELSE If(Len(v) = 1 /\ Head(v).key \in Fabrics, Head(v).key)

(* The nodes a value pins, Absent when an entry names something else. *)
PinnedNodes(o, v) ==
    If((o.type = "string" => Len(v) <= 1) /\ \A i \in DOMAIN v : v[i].key = "hostname",
       {v[i].num : i \in DOMAIN v})

(* A pod's share of the devices of the nodes it may land on. *)
Share(rdma, gpuPerPod, gpu) == (rdma * gpuPerPod) \div gpu

FedRoles(d, o) ==
    {role \in Roles(d) : IF o.role # Blank THEN role.name = o.role ELSE role.gpuPerPod > 0}
PerPod(d, o) == {role.gpuPerPod : role \in FedRoles(d, o)}
Eligible(d, o) ==
    LET wanted == {SelectedRoleGpuModel(d, role) : role \in FedRoles(d, o)}
    IN  {n \in AllNodes : \A model \in wanted : RoleNodeMatches(model, n)}
Offering(d, o, fabric) == {n \in Eligible(d, o) : n[fabric] > 0}

PoolShare(pool, fabric, gpuPerPod) ==
    LET gpu == SumFunction([n \in pool |-> n.gpu])
    IN  IF gpu = 0 THEN 0 ELSE Share(SumFunction([n \in pool |-> n[fabric]]), gpuPerPod, gpu)

(* The fabrics a knob can ask for, each with the count of a pod; one count
   serves every role it feeds, so they must agree on the cards of a pod. *)
RdmaFabrics(d, o) ==
    IF ~IsExtendedResources(o) \/ Cardinality(PerPod(d, o)) # 1 THEN {}
    ELSE {[id |-> f, value |-> PoolShare(Offering(d, o, f), f, per)] : f \in Fabrics, per \in PerPod(d, o)}
         \ {[id |-> f, value |-> 0] : f \in Fabrics}
FabricOverrideValue(f) == Pair(f.id, f.value)

(* InfiniBand, else the only fabric. *)
PreferredFabric(fabrics) ==
    IF fabrics = {} THEN Absent
    ELSE FabricOverrideValue(CHOOSE f \in fabrics : f.id = "infiniband" \/ \A g \in fabrics : g.id = "roce")

(* The profile's own default, and what the user chose, win. *)
AutoOverrideValue(d, o) ==
    If(~Held(d, o) /\ o.default \in {Absent, <<>>}, PreferredFabric(RdmaFabrics(d, o)))

OverrideValue(d, o) == OrElse(AutoOverrideValue(d, o), DeclaredOverrideValue(d, o))

(* The fabric of the selector's own role, else the service's. *)
SelectedNodeFabric(d, o) ==
    LET ext == SelectSeq(d.profile.overrides, LAMBDA e : IsExtendedResources(e) /\ e.role = o.role)
               \o SelectSeq(d.profile.overrides, LAMBDA e : IsExtendedResources(e) /\ e.role = Blank)
    IN  IF ~IsNodeSelector(o) \/ ext = <<>> THEN Blank ELSE OrElse(RdmaFabricOf(OverrideValue(d, Head(ext))), Blank)

(* The nodes a selector's input lists. *)
Advertising(fabric) == {n \in AllNodes : fabric # Blank => n[fabric] > 0}
PickableNodes(d, o) ==
    {n \in Advertising(SelectedNodeFabric(d, o)) : NodeMatchesSelectedModel(d, o, n)}

(* The picks of a selector: one node or any, or one more or one less. *)
PinChoices(o, v, pins, pickable) ==
    LET listed == {<<Pin(n)>> : n \in pickable}
    IN  IF o.type = "string" THEN {<<>>} \cup listed
        ELSE {RemoveAt(v, i) : i \in DOMAIN v} \cup {v \o p : p \in {q \in listed : Head(q).num \notin pins}}

(* The values an input can be set to: a fabric where the picker can show the
   present one, pins, an enum, or what is typed. *)
InputChoices(d, o, v, fabrics) ==
    IF o.type = "boolean" THEN {Text("true"), Text("false")}
    ELSE IF fabrics # {} /\ RdmaFabricOf(v) \in {Blank} \cup {f.id : f \in fabrics}
         THEN {FabricOverrideValue(f) : f \in fabrics}
    ELSE IF IsNodeSelector(o) /\ AllNodes # {} /\ PinnedNodes(o, v) # Absent
         THEN PinChoices(o, v, PinnedNodes(o, v), PickableNodes(d, o))
    ELSE IF o.enum # <<>> THEN ToSet(o.enum)
    ELSE IF o.type = "integer" THEN {Whole(n) : n \in 0 .. 3} \cup {Text("fraction")}
    ELSE {<<>>, Text("other"), Pair("roce", 1)}

OverrideInput(d, o) == InputChoices(d, o, OverrideValue(d, o), RdmaFabrics(d, o)) \ {OverrideValue(d, o)}

-----------------------------------------------------------------------------
(* The draft *)

CATALOG_PATHS == {"chat", "messages"}
AIGATEWAY_ROUTERS == {"private", "public"}
NoOverrides == [k \in {} |-> <<>>]

(* The draft once the options have been read. *)
DeployOpened ==
    [name |-> Blank, namespace |-> DefaultNamespaceOf, newNamespace |-> FALSE, newNamespaceName |-> Blank,
     profile |-> Head(Profiles), modelRef |-> Blank, overrides |-> NoOverrides,
     aigatewayRouter |-> "private", modelName |-> Blank, paths |-> CATALOG_PATHS]

(* The catalog name follows the service's until the user types one. *)
SetName(d, n) ==
    [d EXCEPT !.name = n, !.modelName = IF @ \in {Blank, d.name} THEN n ELSE @]

(* Mutant: the values chosen for one profile stay with the next. *)
ChangeProfile_KeepsValues(d, p) == [d EXCEPT !.profile = p, !.modelRef = Blank]

ChangeProfile(d, p) == [d EXCEPT !.profile = p, !.modelRef = Blank, !.overrides = NoOverrides]

EditDeployBasics(d) ==
    {SetName(d, n) : n \in {Blank, "Bad_1", "svc", "taken"}}
    \cup ChangeNamespace(d) \cup TypeNamespace(d)
    \cup {ChangeProfile(d, p) : p \in ToSet(Profiles)}

SetOverride(d, o, v) == [d EXCEPT !.overrides = [k \in DOMAIN @ \cup {o.name} |-> IF k = o.name THEN v ELSE @[k]]]

EditModel(d) == {[d EXCEPT !.modelRef = m] : m \in CompatibleModels(d)}
EditOverrides(d) ==
    UNION {{SetOverride(d, o, v) : v \in OverrideInput(d, o)} : o \in Knobs(d)}

(* Deselecting the last path is ignored. *)
EditRoute(d) ==
    {[d EXCEPT !.modelName = m] : m \in {Blank, "svc", "bad name"}}
    \cup {[d EXCEPT !.aigatewayRouter = r] : r \in AIGATEWAY_ROUTERS}
    \cup {[d EXCEPT !.paths = ps] : ps \in (SUBSET CATALOG_PATHS) \ {{}}}

ServicesListed == {<<"default", "taken">>}

DeployStep1Valid(d) ==
    /\ d.name \in DnsLabels /\ <<EffectiveNamespace(d), d.name>> \notin ServicesListed
    /\ EffectiveNamespace(d) # Blank /\ (d.newNamespace => d.newNamespaceName \in DnsLabels)

DeployStep2Valid(d) == d.modelRef # Blank

-----------------------------------------------------------------------------
(* The request, and the route that answers it *)

(* The profile's defaults stay implicit, the fabric the wizard chose does not. *)
SentOverrides(d) ==
    LET auto == [o \in Knobs(d) |-> AutoOverrideValue(d, o)]
        names == {o.name : o \in {k \in Knobs(d) : auto[k] # Absent}}
    IN  [n \in DOMAIN d.overrides \cup names |->
            IF n \in names THEN auto[CHOOSE o \in Knobs(d) : o.name = n] ELSE d.overrides[n]]

DeployBody(d) ==
    [namespace |-> EffectiveNamespace(d), name |-> d.name, profileRef |-> d.profile.name, modelRef |-> d.modelRef,
     overrides |-> SentOverrides(d),
     route |-> [aigatewayRouter |-> d.aigatewayRouter, modelName |-> d.modelName, paths |-> d.paths]]

(* What is wrong with one value, the first of the checks that fails.  Left out: a
   list that is none, and an item with a comma, which the wizard cannot send. *)
OverrideFault(o, v) ==
    IF o.type = "stringList"
    THEN FirstOf(<< Code(o.enum # <<>> /\ \E i \in DOMAIN v : <<v[i]>> \notin ToSet(o.enum), "overrideNotAllowed") >>)
    ELSE FirstOf(<< Code(o.type = "integer" /\ Head(v).key # "int", "overrideNotInteger"),
                    Code(o.enum # <<>> /\ v \notin ToSet(o.enum), "overrideNotAllowed"),
                    Code(o.type = "integer" /\ Head(v).num < o.min, "overrideBelowMin"),
                    Code(o.type = "integer" /\ Head(v).num > o.max, "overrideAboveMax") >>)

(* Which of several is named depends on the order the user set them in. *)
OverrideErrors(overrides, p) ==
    LET Declared(k) == {o \in ToSet(p.overrides) : o.name = k}
    IN  {IF Declared(k) = {} THEN "overrideUnknown"
         ELSE OverrideFault(CHOOSE o \in Declared(k) : TRUE, overrides[k]) : k \in DOMAIN overrides} \ {"none"}

RefuseRefs(b, namespaces, existing) ==
    FirstOf(<< Code(b.name \notin DnsLabels, "nameInvalid"),
               Code(Blank \in {b.namespace, b.profileRef, b.modelRef}, "refsRequired"),
               Code(b.namespace \notin namespaces, "namespaceMissing"),
               Code(\A p \in ToSet(Profiles) : p.name # b.profileRef, "profileMissing"),
               Code(\A m \in ModelVersions : m.name # b.modelRef, "modelMissing"),
               Code(\A m \in ModelVersions : m.name = b.modelRef => ~Suits(ProfileNamed(b.profileRef), m), "modelProfileIncompatible"),
               Code(<<b.namespace, b.name>> \in existing, "nameTaken") >>)

RefuseRoute(r) ==
    FirstOf(<< Code(r.aigatewayRouter \notin AIGATEWAY_ROUTERS, "aigatewayRouterInvalid"),
               Code(r.modelName \in {Blank, "bad name"}, "routeModelNameInvalid"),
               Code(~(r.paths \subseteq CATALOG_PATHS), "routePathsInvalid"),
               Code(r.paths = {}, "routePathsRequired") >>)

OrRoute(errors, route) == IF errors # {} THEN errors ELSE {RefuseRoute(route)}

(* The parts are checked in this order. *)
DeployRefusals(b, namespaces, existing) ==
    LET refs == RefuseRefs(b, namespaces, existing)
    IN  IF refs # "none" THEN {refs}
        ELSE OrRoute(OverrideErrors(b.overrides, ProfileNamed(b.profileRef)), b.route)

-----------------------------------------------------------------------------
(* The wizard *)

DeployInit ==
    /\ nodes \in Clusters
    /\ deploy = DeployOpened /\ deployStep = 1 /\ deployEdits = 0
    /\ deployReply = "none" /\ service = Absent

Editing == deployReply # "created"

(* The first name, and the choice of a model, are not counted. *)
DeployCounts(d, e) ==
    IF (d.name = Blank /\ e.name = "svc") \/ e.modelRef # d.modelRef THEN 0 ELSE 1

EditDeploy ==
    /\ Editing /\ deployStep < 3
    /\ \E e \in (IF deployStep = 1 THEN EditDeployBasics(deploy)
                 ELSE EditModel(deploy) \cup EditOverrides(deploy) \cup EditRoute(deploy)) \ {deploy} :
          /\ deploy' = e
          /\ deployEdits' = deployEdits + DeployCounts(deploy, e)
    /\ deployEdits' <= MaxDeployEdits
    /\ UNCHANGED <<nodes, deployStep, deployReply, service>>

NextDeployStep ==
    /\ Editing /\ deployStep < 3
    /\ IF deployStep = 1 THEN DeployStep1Valid(deploy) ELSE DeployStep2Valid(deploy)
    /\ deployStep' = deployStep + 1
    /\ UNCHANGED <<nodes, deploy, deployEdits, deployReply, service>>

PrevDeployStep ==
    /\ Editing /\ deployStep > 1
    /\ deployStep' = deployStep - 1
    /\ UNCHANGED <<nodes, deploy, deployEdits, deployReply, service>>

(* The namespace first, when the user names one, then the service. *)
CreateService ==
    /\ Editing /\ deployStep = 3 /\ DeployStep1Valid(deploy)
    /\ \E existing \in SUBSET {<<"default", "svc">>} :
          LET b == DeployBody(deploy)
              first == IF deploy.newNamespace THEN RefuseNamespace(b.namespace) ELSE "none"
          IN  \E code \in IF first # "none" THEN {first}
                          ELSE DeployRefusals(b, NamespacesFor(deploy), existing \cup ServicesListed) :
                 /\ deployReply' = IF code = "none" THEN "created" ELSE code
                 /\ service' = IF code = "none" THEN b ELSE service
    /\ UNCHANGED <<nodes, deploy, deployStep, deployEdits>>

DeployNext == EditDeploy \/ NextDeployStep \/ PrevDeployStep \/ CreateService

-----------------------------------------------------------------------------
(* Whatever order profiles, models and knobs are chosen in, the draft holds
   values only for knobs the chosen profile declares, and a model it can serve. *)
DeployCoherent ==
    /\ DOMAIN deploy.overrides \subseteq {o.name : o \in Knobs(deploy)}
    /\ deploy.modelRef \in {Blank} \cup CompatibleModels(deploy)

(* Everything about the references is settled in the wizard; what the cluster
   decides, the ranges of the knobs and the catalog name are the route's. *)
DeployRefusedOnlyByTheServer ==
    deployReply \in {"none", "created", "namespaceManaged", "nameTaken", "overrideNotInteger",
                     "overrideBelowMin", "overrideAboveMax", "routeModelNameInvalid"}

(* The value the operator will use for a knob. *)
InForce(o) == IF o.name \in DOMAIN service.overrides THEN service.overrides[o.name] ELSE o.default

(* The summary's line for a knob is the value the operator will use: the one in
   the object, else the profile's default.  A knob with neither is shown with a
   value the object does not have, and is left to the operator to refuse. *)
DeployConfirmed ==
    deployReply = "created" =>
        /\ service.modelRef = deploy.modelRef /\ service.profileRef = deploy.profile.name
        /\ \A o \in Knobs(deploy) : InForce(o) # Absent => InForce(o) = OverrideValue(deploy, o)

(* As many pods as the cards of the eligible nodes can hold never ask, together,
   for more RDMA devices than those nodes have. *)
PoolSharesFit ==
    \A o \in Knobs(deploy) : \A f \in RdmaFabrics(deploy, o), per \in PerPod(deploy, o) :
        LET pool == Offering(deploy, o, f.id)
        IN  SumFunction([n \in pool |-> n.gpu \div per]) * f.value <= SumFunction([n \in pool |-> n[f.id]])

(* Whatever is chosen and re-chosen in whatever order, the deployment wizard
   lets through a draft the route takes for what the summary said of it, and the
   RDMA counts it injects are counts the pool can give. *)
DeployedAsConfirmed ==
    DeployCoherent /\ DeployRefusedOnlyByTheServer /\ DeployConfirmed /\ PoolSharesFit
=============================================================================
