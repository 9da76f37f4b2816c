----------------------------- MODULE DevEnvForm -----------------------------
(***************************************************************************)
(* Creating a development environment: the wizard's draft and its gates    *)
(* (CreateWizard of app/dev-environments/page.tsx), the request body it    *)
(* builds, and what the create route (app/api/devenvironments/route.ts)    *)
(* refuses or writes.                                                      *)
(*                                                                         *)
(* A text is one of the few spellings the two sides can tell apart, as it  *)
(* is after trim(); Absent is a field the body or the object leaves out.   *)
(***************************************************************************)
EXTENDS FormParts

CONSTANTS Focus,        \* bound: the sections of the wizard a behaviour edits
          MaxEdits,     \* bound: edits
          MaxRows       \* bound: rows of a repeatable section

VARIABLES draft, step,
          focus,        \* the sections edited in this behaviour
          edits,        \* edits so far
          reply,        \* the route's answer: "none", "created", or the code of a refusal
          written       \* the DevEnvironment it wrote

formVars == <<draft, step, focus, edits, reply, written>>

(* lib/devenvironments/images.ts: the catalog lists every tag once per interface. *)
DEV_IMAGES ==
    << [tag |-> "cpu", interface |-> "jupyter", vendor |-> "cpu", user |-> "ubuntu"],
       [tag |-> "cpu", interface |-> "ssh", vendor |-> "cpu", user |-> "ubuntu"],
       [tag |-> "cuda", interface |-> "jupyter", vendor |-> "nvidia", user |-> "ubuntu"],
       [tag |-> "cuda", interface |-> "ssh", vendor |-> "nvidia", user |-> "ubuntu"],
       [tag |-> "maca", interface |-> "jupyter", vendor |-> "metax", user |-> "ubuntu"],
       [tag |-> "maca", interface |-> "ssh", vendor |-> "metax", user |-> "ubuntu"] >>

FirstImage(at) == IF at = {} THEN Absent ELSE DEV_IMAGES[Min(at)]
DevImageFor(tag) == FirstImage({i \in DOMAIN DEV_IMAGES : DEV_IMAGES[i].tag = tag})

(* The cluster's nodes, and what the options route offers of them: a node the
   scheduler could use, and a model of a card that node has to spare. *)
Nodes == { [name |-> "n1", ready |-> TRUE, cards |-> "nvidia", free |-> 1, model |-> "A100"],
           [name |-> "n2", ready |-> TRUE, cards |-> "metax", free |-> 1, model |-> "C500"],
           [name |-> "n3", ready |-> FALSE, cards |-> "nvidia", free |-> 1, model |-> "H100"],
           [name |-> "n4", ready |-> TRUE, cards |-> "metax", free |-> 0, model |-> "C280"] }
Schedulable(n) == n.ready
Hostable(n, vendor) == Schedulable(n) /\ n.cards = vendor /\ n.free > 0
AdvertisedModels(vendor) == {n.model : n \in {m \in Nodes : Hostable(m, vendor)}}
OfferedNodes == {n.name : n \in {m \in Nodes : Schedulable(m)}}

(* The texts of the model that have the shape of a node's name. *)
NodeNames == {n.name : n \in Nodes}

IDLE_TIMEOUT_MAX == 2147483647
PortNumbers == 1 .. 65535
IdleOptions == {0, 1800}

(* What can be typed. *)
Names == {Blank, "Bad_1", "env", "taken", "a-name-of-60-characters"}
GpuCounts == {0, 1, 16, 17}
Storages == {19, 20, 800, 801}
Minutes == {Blank, "0", "30", "35791394", "35791395"}       \* the last is past an int32 of seconds
Users == {Blank, "Bad!", "root", "ubuntu"}
IdTexts == {Blank, "-1", "0", "00", "1000", "2147483647", "2147483648"}
ClaimNames == {Blank, "c"}
Paths == {Blank, "rel", "/", "/data", "/ws"}
EnvNames == {Blank, "1X", "X", "HOME"}
Values == {Blank, "v", "/home/me"}
PortNames == {Blank, "p", "q"}
PortTexts == {Blank, "0", "80", "080", "65536"}
Commands == {Blank, "run it", "run 'it"}                    \* the last leaves a quote open
KeyTexts == {Blank, "a key", "no key", "too many keys"}

NumberOf ==
    [t \in Minutes \cup IdTexts \cup PortTexts |->
        CASE t \in {"0", "00"} -> 0 [] t = "30" -> 30 [] t = "35791394" -> 35791394
          [] t = "35791395" -> 35791395 [] t = "1000" -> 1000 [] t = "2147483647" -> 2147483647
          [] t \in {"80", "080"} -> 80 [] t = "65536" -> 65536 [] OTHER -> -1]

Absolute(p) == p \in {"/data", "/ws", "/home/me"}

(* What is left out is told apart from every value a field can have. *)
GpuSpecs == [vendor : {"nvidia", "metax"}, count : GpuCounts, model : {n.model : n \in Nodes} \cup {Absent}]
SshSpecs == [enabled : {TRUE}, authorizedKeys : KeyTexts \cup {Absent}]
ASSUME AbsentAssumption ==
    /\ Absent \notin Users \cup Paths \cup Commands \cup KeyTexts \cup {"user", "retain"}
    /\ Absent \notin GpuSpecs \cup SshSpecs

-----------------------------------------------------------------------------
(* The draft *)

IdentityOf(image) ==
    [runtimeUser |-> IF image = Absent THEN "user" ELSE image.user,
     runAsUser |-> "1000", runAsGroup |-> "1000"]

WithIdentity(d, image) ==
    LET id == IdentityOf(image)
    IN  [d EXCEPT !.runtimeUser = id.runtimeUser, !.runAsUser = id.runAsUser, !.runAsGroup = id.runAsGroup]

(* The draft once the options have been read. *)
Opened ==
    WithIdentity(
        [name |-> Blank, namespace |-> DefaultNamespaceOf, newNamespace |-> FALSE, newNamespaceName |-> Blank,
         type |-> "jupyter", image |-> DEV_IMAGES[1].tag, accelerator |-> "none", gpuCount |-> 1,
         gpuModel |-> Blank, cpu |-> 2, memory |-> 4, storageGi |-> 20, pvcRetention |-> "delete",
         idle |-> 0, idleCustom |-> FALSE, idleMinutes |-> Blank, runAsRoot |-> FALSE, sudo |-> FALSE,
         runtimeUser |-> Blank, runAsUser |-> Blank, runAsGroup |-> Blank, mountPath |-> Blank, pvcs |-> <<>>,
         envs |-> <<>>, args |-> Blank, command |-> Blank, ports |-> <<>>, rdmaEnabled |-> FALSE,
         rdmaType |-> "roce", egressUnrestricted |-> FALSE, nodeName |-> Blank, sshEnabled |-> FALSE,
         sshKeys |-> Blank],
        DEV_IMAGES[1])

(* The freeSolo field echoes its value: only another tag re-derives the identity. *)
SetImageTag(d, tag) ==
    IF tag = d.image THEN d ELSE WithIdentity([d EXCEPT !.image = tag], DevImageFor(tag))

(* The images that serve the type. *)
ServingImages(tp) == {i \in DOMAIN DEV_IMAGES : DEV_IMAGES[i].interface = tp}
ImageOptions(d) == {DEV_IMAGES[i].tag : i \in ServingImages(d.type)}

(* Switching keeps the vendor when the catalog has the pair. *)
SwitchType(d, tp) ==
    LET current == DevImageFor(d.image)
        same == FirstImage({i \in ServingImages(tp) : DEV_IMAGES[i].vendor = current.vendor})
        pair == IF same # Absent THEN same ELSE FirstImage(ServingImages(tp))
    IN  IF current = Absent \/ current.interface = tp \/ pair = Absent THEN [d EXCEPT !.type = tp]
        ELSE WithIdentity([d EXCEPT !.type = tp, !.image = pair.tag], pair)

EditBasics(d) ==
    {[d EXCEPT !.name = n] : n \in Names}
    \cup ChangeNamespace(d) \cup TypeNamespace(d)
    \cup {SwitchType(d, tp) : tp \in {"jupyter", "ssh"}}
    \cup {SetImageTag(d, tag) : tag \in ImageOptions(d) \cup {Blank, "own"}}

CPU_OPTIONS == {1, 2, 4}
MEM_TIER == {1, 2, 4}
PVC_RETENTIONS == {"delete", "retain"}
PORT_TYPES == {"http", "tcp", "udp"}
MemoryOptions(cpu) == {cpu * tier : tier \in MEM_TIER}

(* The ratio the user picked carries over to the new core count. *)
SetCpu(d, cpu) ==
    LET tier == IF \E t \in MEM_TIER : d.cpu * t = d.memory
                THEN CHOOSE t \in MEM_TIER : d.cpu * t = d.memory ELSE 2
    IN  [d EXCEPT !.cpu = cpu, !.memory = cpu * tier]

(* The pin is cleared with the vendor it is a card of. *)
SetAccelerator(d, a) ==
    IF a = d.accelerator THEN d ELSE [d EXCEPT !.accelerator = a, !.gpuModel = Blank]

GpuRequested(d) == d.accelerator # "none"

(* A minutes box that is empty starts with what was chosen before. *)
SetIdleCustom(d) ==
    [d EXCEPT !.idleCustom = TRUE, !.idleMinutes = IF @ = Blank /\ d.idle = 1800 THEN "30" ELSE @]

EditResources(d) ==
    {SetAccelerator(d, a) : a \in {"none", "nvidia", "metax"}}
    \cup (IF ~GpuRequested(d) THEN {}
          ELSE {[d EXCEPT !.gpuCount = n] : n \in GpuCounts}
               \cup {[d EXCEPT !.gpuModel = m] : m \in {Blank} \cup AdvertisedModels(d.accelerator)})
    \cup {SetCpu(d, c) : c \in CPU_OPTIONS}
    \cup {[d EXCEPT !.memory = m] : m \in MemoryOptions(d.cpu)}
    \cup {[d EXCEPT !.storageGi = n] : n \in Storages}
    \cup {[d EXCEPT !.idleCustom = FALSE, !.idle = n] : n \in IdleOptions}
    \cup {SetIdleCustom(d)}
    \cup (IF d.idleCustom THEN {[d EXCEPT !.idleMinutes = m] : m \in Minutes} ELSE {})

(* addRow, patchRow (one field at a time) and removeRow on a list of rows. *)
Rows(rs, row, Patches(_)) ==
    (IF Len(rs) < MaxRows THEN {Append(rs, row)} ELSE {})
    \cup {RemoveAt(rs, i) : i \in DOMAIN rs}
    \cup UNION {{[rs EXCEPT ![i] = r] : r \in Patches(rs[i])} : i \in DOMAIN rs}

PatchPvc(r) == {[r EXCEPT !.pvcName = n] : n \in ClaimNames} \cup {[r EXCEPT !.mountPath = p] : p \in Paths}
PatchEnv(r) == {[r EXCEPT !.name = n] : n \in EnvNames} \cup {[r EXCEPT !.value = v] : v \in Values}
PatchPort(r) ==
    {[r EXCEPT !.name = n] : n \in PortNames} \cup {[r EXCEPT !.port = n] : n \in PortTexts}
    \cup {[r EXCEPT !.type = t] : t \in PORT_TYPES}

EditWorkspace(d) ==
    {[d EXCEPT !.mountPath = p] : p \in Paths}
    \cup {[d EXCEPT !.pvcRetention = r] : r \in PVC_RETENTIONS}
    \cup {[d EXCEPT !.pvcs = rs] : rs \in Rows(d.pvcs, [pvcName |-> Blank, mountPath |-> Blank], PatchPvc)}

(* Root keeps what was typed, and disables its fields. *)
EditSecurity(d) ==
    {[d EXCEPT !.runAsRoot = ~@]}
    \cup (IF d.runAsRoot THEN {}
          ELSE {[d EXCEPT !.runtimeUser = u] : u \in Users}
               \cup {[d EXCEPT !.runAsUser = n] : n \in IdTexts}
               \cup {[d EXCEPT !.runAsGroup = n] : n \in IdTexts}
               \cup {[d EXCEPT !.sudo = ~@]})

EditRuntime(d) ==
    {[d EXCEPT !.envs = rs] : rs \in Rows(d.envs, [name |-> Blank, value |-> Blank], PatchEnv)}
    \cup {[d EXCEPT !.args = a] : a \in Commands}
    \cup {[d EXCEPT !.command = a] : a \in Commands}

EditPorts(d) ==
    {[d EXCEPT !.ports = rs] : rs \in Rows(d.ports, [name |-> Blank, port |-> Blank, type |-> "http"], PatchPort)}

EditNetwork(d) ==
    {[d EXCEPT !.rdmaEnabled = ~@]}
    \cup (IF d.rdmaEnabled THEN {[d EXCEPT !.rdmaType = t] : t \in {"roce", "infiniband"}} ELSE {})
    \cup {[d EXCEPT !.egressUnrestricted = ~@]}

EditPlacement(d) == {[d EXCEPT !.nodeName = n] : n \in {Blank} \cup OfferedNodes}

(* Turning SSH off clears what was typed. *)
ToggleSsh(d) == [d EXCEPT !.sshEnabled = ~@, !.sshKeys = IF d.sshEnabled THEN Blank ELSE @]
EditSsh(d) ==
    {ToggleSsh(d)} \cup (IF d.sshEnabled THEN {[d EXCEPT !.sshKeys = k] : k \in KeyTexts} ELSE {})

-----------------------------------------------------------------------------
(* The gates of the steps *)

Distinct(rs, Key(_)) == \A i, j \in DOMAIN rs : Key(rs[i]) = Key(rs[j]) => i = j

EnvironmentsListed == {<<"default", "taken">>}
NameTaken(d) == <<EffectiveNamespace(d), d.name>> \in EnvironmentsListed

Step1Valid(d) ==
    /\ d.name \in DnsLabels /\ ~NameTaken(d) /\ EffectiveNamespace(d) # Blank
    /\ d.newNamespace => d.newNamespaceName \in DnsLabels
    /\ d.image # Blank

GpuValid(d) == GpuRequested(d) => d.gpuCount \in 1 .. 16
IdleValid(d) == d.idleCustom => NumberOf[d.idleMinutes] \in 0 .. IDLE_TIMEOUT_MAX \div 60
IdleTimeoutSeconds(d) == IF d.idleCustom THEN NumberOf[d.idleMinutes] * 60 ELSE d.idle
Step2Valid(d) == GpuValid(d) /\ d.storageGi \in 20 .. 800 /\ IdleValid(d)

EffectiveUser(d) == IF d.runAsRoot THEN "root" ELSE d.runtimeUser
EffectiveUid(d) == IF d.runAsRoot THEN "0" ELSE d.runAsUser
EffectiveGid(d) == IF d.runAsRoot THEN "0" ELSE d.runAsGroup
RuntimeUsers == {"root", "ubuntu", "user"}
IdValid(t) == NumberOf[t] >= 0

(* An untouched row is not configuration; the others keep their positions, which
   is their order in the list that is sent. *)
FilledPvcs(d) == Restrict(d.pvcs, {i \in DOMAIN d.pvcs : d.pvcs[i].pvcName # Blank \/ d.pvcs[i].mountPath # Blank})
FilledEnvs(d) == Restrict(d.envs, {i \in DOMAIN d.envs : d.envs[i].name # Blank \/ d.envs[i].value # Blank})
FilledPorts(d) == Restrict(d.ports, {i \in DOMAIN d.ports : d.ports[i].name # Blank \/ d.ports[i].port # Blank})

PvcRowsValid(d) ==
    LET rs == FilledPvcs(d)
    IN  /\ \A i \in DOMAIN rs : rs[i].pvcName # Blank /\ Absolute(rs[i].mountPath)
                                /\ rs[i].mountPath # d.mountPath
        /\ Distinct(rs, LAMBDA r : r.mountPath)

EnvRowsValid(d) ==
    LET rs == FilledEnvs(d)
    IN  /\ \A i \in DOMAIN rs : rs[i].name \in {"X", "HOME"} /\ (rs[i].name = "HOME" => Absolute(rs[i].value))
        /\ Distinct(rs, LAMBDA r : r.name)

(* One L4 pool: the numbers of tcp and udp rows are compared as they are spelt. *)
PortRowsValid(d) ==
    LET rs == FilledPorts(d)
    IN  /\ \A i \in DOMAIN rs : rs[i].name # Blank /\ NumberOf[rs[i].port] \in PortNumbers
        /\ Distinct(rs, LAMBDA r : r.name)
        /\ Distinct(Restrict(rs, {i \in DOMAIN rs : rs[i].type # "http"}), LAMBDA r : r.port)

Step3Valid(d) ==
    /\ EffectiveUser(d) \in RuntimeUsers /\ IdValid(EffectiveUid(d)) /\ IdValid(EffectiveGid(d))
    /\ d.mountPath = Blank \/ Absolute(d.mountPath)
    /\ PvcRowsValid(d) /\ EnvRowsValid(d) /\ PortRowsValid(d)
    /\ d.nodeName = Blank \/ d.nodeName \in NodeNames

-----------------------------------------------------------------------------
(* The request, and what the user confirms *)

Body(d) ==
    [namespace |-> EffectiveNamespace(d), name |-> d.name, type |-> d.type, image |-> d.image,
     accelerator |-> d.accelerator, gpuCount |-> If(GpuRequested(d), d.gpuCount),
     gpuModel |-> If(GpuRequested(d), OrAbsent(d.gpuModel)), cpu |-> d.cpu, memory |-> d.memory,
     storageGi |-> d.storageGi, pvcRetention |-> If(d.pvcRetention = "retain", "retain"),
     idleTimeout |-> IdleTimeoutSeconds(d),
     runtimeUser |-> If(~d.runAsRoot, EffectiveUser(d)),
     runAsUser |-> NumberOf[EffectiveUid(d)], runAsGroup |-> NumberOf[EffectiveGid(d)],
     sudo |-> ~d.runAsRoot /\ d.sudo,
     mountPath |-> OrAbsent(d.mountPath), volumes |-> FilledPvcs(d), env |-> FilledEnvs(d),
     command |-> OrAbsent(d.command), args |-> OrAbsent(d.args),
     ports |-> [i \in DOMAIN FilledPorts(d) |->
                   LET r == FilledPorts(d)[i]
                   IN  [name |-> r.name, containerPort |-> NumberOf[r.port], type |-> r.type]],
     rdmaType |-> If(d.rdmaEnabled, d.rdmaType), egressUnrestricted |-> d.egressUnrestricted,
     nodeName |-> OrAbsent(d.nodeName), sshEnabled |-> d.sshEnabled,
     sshKeys |-> If(d.sshEnabled, OrAbsent(d.sshKeys))]

(* summaryRows: the ids as numbers, and an environment that runs as root. *)
SummaryRows(d) ==
    [name |-> d.name, namespace |-> EffectiveNamespace(d), type |-> d.type, image |-> d.image,
     gpu |-> If(GpuRequested(d), <<d.gpuCount, d.accelerator, OrAbsent(d.gpuModel)>>),
     cpu |-> d.cpu, memory |-> d.memory, storage |-> d.storageGi, pvcRetention |-> d.pvcRetention,
     idle |-> IdleTimeoutSeconds(d),
     identity |-> IF d.runAsRoot THEN <<"root">>
                  ELSE <<EffectiveUser(d), NumberOf[EffectiveUid(d)], NumberOf[EffectiveGid(d)], d.sudo>>,
     mountPath |-> OrAbsent(d.mountPath), pvcs |-> FilledPvcs(d), envs |-> FilledEnvs(d),
     command |-> OrAbsent(d.command), args |-> OrAbsent(d.args),
     ports |-> [i \in DOMAIN FilledPorts(d) |->
                   LET r == FilledPorts(d)[i] IN <<r.name, NumberOf[r.port], r.type>>],
     rdma |-> If(d.rdmaEnabled, d.rdmaType), egress |-> d.egressUnrestricted,
     placement |-> OrAbsent(d.nodeName),
     ssh |-> If(d.sshEnabled, IF d.sshKeys = Blank THEN "platform" ELSE "provided")]

-----------------------------------------------------------------------------
(* The create route: the code of the first refusal of each part, or "none" *)

RefuseBasics(b) ==
    FirstOf(<< Code(b.name \notin DnsLabels, "nameInvalid"),
               Code(b.namespace = Blank \/ b.image = Blank, "namespaceImageRequired"),
               Code(b.type \notin {"jupyter", "ssh", "vscode"}, "typeInvalid"),
               Code(b.accelerator \notin {"none", "nvidia", "metax"}, "acceleratorInvalid"),
               Code(b.accelerator # "none" /\ b.gpuCount \notin 1 .. 16, "gpuCountInvalid"),
               Code(b.storageGi < 20 \/ b.storageGi > 800, "storageInvalid"),
               Code(b.idleTimeout \notin 0 .. IDLE_TIMEOUT_MAX, "idleTimeoutInvalid") >>)

RefuseIdentity(b) ==
    FirstOf(<< Code(b.runtimeUser # Absent /\ b.runtimeUser \notin RuntimeUsers, "runtimeUserInvalid"),
               Code(b.runtimeUser = "root" /\ b.runAsUser # 0, "rootAccountMismatch"),
               Code(b.runAsUser < 0 \/ b.runAsGroup < 0, "runAsIdInvalid") >>)

(* A loop over rows refuses the first row that is wrong. *)
Before(rs, i) == {j \in DOMAIN rs : j < i}

RefuseVolume(b, i) ==
    LET vs == b.volumes
    IN  FirstOf(<< Code(vs[i].pvcName = Blank \/ vs[i].mountPath = Blank, "volumeIncomplete"),
                   Code(~Absolute(vs[i].mountPath), "volumePathInvalid"),
                   Code(vs[i].mountPath \in {b.mountPath} \cup {vs[j].mountPath : j \in Before(vs, i)}, "volumePathDuplicate") >>)

RefuseWorkspace(b) ==
    FirstOf(<< Code(b.mountPath # Absent /\ ~Absolute(b.mountPath), "mountPathInvalid"),
               Code(b.pvcRetention \notin PVC_RETENTIONS \cup {Absent}, "pvcRetentionInvalid"),
               FirstOf([i \in DOMAIN b.volumes |-> RefuseVolume(b, i)]) >>)

RefuseVariable(b, i) ==
    LET es == b.env
    IN  FirstOf(<< Code(es[i].name = Blank, "envNameRequired"),
                   Code(es[i].name \notin {"X", "HOME"}, "envNameInvalid"),
                   Code(es[i].name \in {es[j].name : j \in Before(es, i)}, "envNameDuplicate"),
                   Code(es[i].name = "HOME" /\ ~Absolute(es[i].value), "envHomeNotAbsolute") >>)
RefuseEnv(b) == FirstOf([i \in DOMAIN b.env |-> RefuseVariable(b, i)])

(* A line is split into words, and one that leaves a quote open into none. *)
SplitArgs(line) == CASE line = Absent -> <<>> [] line = "run it" -> <<"run", "it">> [] OTHER -> Absent

RefuseCommand(b) ==
    FirstOf(<< Code(SplitArgs(b.command) = Absent, "commandUnbalanced"),
               Code(SplitArgs(b.args) = Absent, "argsUnbalanced") >>)

(* Numbers, where the wizard compares spellings. *)
RefusePort(b, i) ==
    LET ps == b.ports
        l4 == {j \in Before(ps, i) : ps[j].type # "http"}
    IN  FirstOf(<< Code(ps[i].name = Blank, "portNameRequired"),
                   Code(ps[i].name \in {ps[j].name : j \in Before(ps, i)}, "portNameDuplicate"),
                   Code(ps[i].type \notin PORT_TYPES, "portTypeInvalid"),
                   Code(ps[i].containerPort \notin PortNumbers, "portNumberInvalid"),
                   Code(ps[i].type # "http" /\ ps[i].containerPort \in {ps[j].containerPort : j \in l4}, "portInUse") >>)
RefusePorts(b) == FirstOf([i \in DOMAIN b.ports |-> RefusePort(b, i)])

RefusePlacement(b) ==
    FirstOf(<< Code(b.rdmaType \notin {Absent, "roce", "infiniband"}, "rdmaTypeInvalid"),
               Code(b.nodeName # Absent /\ b.nodeName \notin NodeNames, "nodeNameInvalid") >>)

RefuseKeys(b) ==
    FirstOf(<< Code(b.sshKeys = "too many keys", "sshKeysTooMany"),
               Code(b.sshKeys = "no key", "sshKeyInvalid"),
               Code(b.sshKeys # Absent /\ b.name = "a-name-of-60-characters", "nameTooLong") >>)

RefuseObject(b, namespaces, existing) ==
    FirstOf(<< Code(b.namespace \notin namespaces, "namespaceMissing"),
               Code(<<b.namespace, b.name>> \in existing, "nameTaken") >>)

(* The parts are checked in order; a request with several faults names the first. *)
Refusal(b, namespaces, existing) ==
    FirstOf(<<RefuseBasics(b), RefuseIdentity(b), RefuseWorkspace(b), RefuseEnv(b), RefuseCommand(b), RefusePorts(b),
              RefusePlacement(b), RefuseKeys(b), RefuseObject(b, namespaces, existing)>>)

(* Mutant: `body.runAsUser || 1000`. *)
Runtime_ZeroIsUnset(b) ==
    [user |-> b.runtimeUser, runAsUser |-> IF b.runAsUser = 0 THEN 1000 ELSE b.runAsUser,
     runAsGroup |-> b.runAsGroup, sudo |-> b.sudo]

(* runAsUser 0 is the whole of a request for root. *)
Runtime(b) ==
    LET root == b.runAsUser = 0
    IN  [user |-> IF root THEN Absent
                  ELSE IF b.runtimeUser # Absent THEN b.runtimeUser
                  ELSE IF DevImageFor(b.image) = Absent THEN Absent ELSE DevImageFor(b.image).user,
         runAsUser |-> b.runAsUser, runAsGroup |-> IF root THEN 0 ELSE b.runAsGroup,
         sudo |-> ~root /\ b.sudo]

(* A claim mounted twice is two volumes of different names. *)
VolumeName(vs, i) ==
    <<vs[i].pvcName, 1 + Cardinality({j \in Before(vs, i) : vs[j].pvcName = vs[i].pvcName})>>

CR(b) ==
    [name |-> b.name, namespace |-> b.namespace, type |-> b.type, image |-> b.image, running |-> TRUE,
     gpu |-> If(b.accelerator # "none", [vendor |-> b.accelerator, count |-> b.gpuCount, model |-> b.gpuModel]),
     cpu |-> b.cpu, memory |-> b.memory, runtime |-> Runtime(b),
     env |-> b.env, command |-> SplitArgs(b.command), args |-> SplitArgs(b.args),
     storage |-> [size |-> b.storageGi, mountPath |-> b.mountPath, pvcRetention |-> b.pvcRetention],
     volumes |-> [i \in DOMAIN b.volumes |->
                     [name |-> VolumeName(b.volumes, i), pvcName |-> b.volumes[i].pvcName,
                      mountPath |-> b.volumes[i].mountPath]],
     ports |-> b.ports, idleTimeout |-> b.idleTimeout,
     rdmaType |-> b.rdmaType, egressUnrestricted |-> b.egressUnrestricted,
     nodeSelector |-> b.nodeName,
     ssh |-> If(b.sshEnabled, [enabled |-> TRUE, authorizedKeys |-> b.sshKeys])]

-----------------------------------------------------------------------------
(* The wizard *)

FormInit ==
    /\ draft = Opened /\ step = 1 /\ focus \in Focus /\ edits = 0
    /\ reply = "none" /\ written = Absent

Sections == [s \in 1 .. 4 |->
    CASE s = 1 -> {"basics"} [] s = 2 -> {"resources"} [] s = 4 -> {}
      [] s = 3 -> {"workspace", "security", "runtime", "ports", "network", "placement", "ssh"}]

EditsOf(d, section) ==
    CASE section = "basics" -> EditBasics(d) [] section = "resources" -> EditResources(d)
      [] section = "workspace" -> EditWorkspace(d) [] section = "security" -> EditSecurity(d)
      [] section = "runtime" -> EditRuntime(d) [] section = "ports" -> EditPorts(d)
      [] section = "network" -> EditNetwork(d) [] section = "placement" -> EditPlacement(d)
      [] section = "ssh" -> EditSsh(d)

(* The first name, and an empty row, are not counted. *)
Counts(d, e) ==
    IF (d.name = Blank /\ e.name = "env")
        \/ Len(e.pvcs \o e.envs \o e.ports) > Len(d.pvcs \o d.envs \o d.ports)
    THEN 0 ELSE 1

Edit ==
    /\ reply # "created"
    /\ \E section \in Sections[step] \cap (focus \cup {"basics"}) : \E e \in EditsOf(draft, section) \ {draft} :
          /\ draft' = e
          /\ edits' = edits + Counts(draft, e) /\ edits' <= MaxEdits
          /\ section \in focus \/ e = [draft EXCEPT !.name = "env"]
    /\ UNCHANGED <<step, focus, reply, written>>

NextStep ==
    /\ step < 4 /\ reply # "created"
    /\ CASE step = 1 -> Step1Valid(draft) [] step = 2 -> Step2Valid(draft) [] step = 3 -> Step3Valid(draft)
    /\ step' = step + 1
    /\ UNCHANGED <<draft, focus, edits, reply, written>>

PrevStep ==
    /\ step > 1 /\ reply # "created"
    /\ step' = step - 1
    /\ UNCHANGED <<draft, focus, edits, reply, written>>

MayCreate(d) == Step1Valid(d) /\ Step2Valid(d) /\ Step3Valid(d)

(* create: the namespace first, when the user names one, then the environment;
   somebody else may have taken the name since the list was read. *)
Create ==
    /\ step = 4 /\ reply # "created" /\ MayCreate(draft)
    /\ \E existing \in SUBSET {<<"default", "env">>} :
          LET b == Body(draft)
              first == IF draft.newNamespace THEN RefuseNamespace(b.namespace) ELSE "none"
              refused == IF first # "none" THEN first
                         ELSE Refusal(b, NamespacesFor(draft), existing \cup EnvironmentsListed)
          IN  /\ reply' = IF refused = "none" THEN "created" ELSE refused
              /\ written' = IF refused = "none" THEN CR(b) ELSE written
    /\ UNCHANGED <<draft, step, focus, edits>>

FormNext == Edit \/ NextStep \/ PrevStep \/ Create

-----------------------------------------------------------------------------
(* The edits of several steps never leave two fields of the draft at odds: the
   memory is a size of that core count, the model a card of that vendor, and
   keys belong to an SSH that is on. *)
DraftCoherent ==
    /\ draft.memory \in MemoryOptions(draft.cpu)
    /\ draft.gpuModel # Blank => draft.gpuModel \in AdvertisedModels(draft.accelerator)
    /\ draft.sshKeys # Blank => draft.sshEnabled

(* The refusals that the cluster, the image or the shell line decides, and two that
   the wizard could have told and does not: an account "root" with another uid, and
   one port spelled in two ways. *)
ServersOwn ==
    {"namespaceManaged", "nameTaken", "rootAccountMismatch", "commandUnbalanced",
     "argsUnbalanced", "portInUse", "sshKeysTooMany", "sshKeyInvalid", "nameTooLong"}

(* ServersOwn is the route's to refuse; everything else the wizard has told the
   user before they could submit. *)
RefusedOnlyByTheServer == reply \in {"none", "created"} \cup ServersOwn

(* What an object says, with what is left out read as the CRD's default. *)
Says(o) ==
    [name |-> o.name, namespace |-> o.namespace, type |-> o.type, image |-> o.image,
     gpu |-> IF o.gpu = Absent THEN Absent ELSE <<o.gpu.count, o.gpu.vendor, o.gpu.model>>,
     cpu |-> o.cpu, memory |-> o.memory, storage |-> o.storage.size,
     pvcRetention |-> IF o.storage.pvcRetention = Absent THEN "delete" ELSE o.storage.pvcRetention,
     idle |-> o.idleTimeout,
     identity |-> IF o.runtime.runAsUser = 0 THEN <<"root">>
                  ELSE <<o.runtime.user, o.runtime.runAsUser, o.runtime.runAsGroup, o.runtime.sudo>>,
     mountPath |-> o.storage.mountPath,
     pvcs |-> [i \in DOMAIN o.volumes |->
                  [pvcName |-> o.volumes[i].pvcName, mountPath |-> o.volumes[i].mountPath]],
     envs |-> o.env,
     command |-> IF o.command = <<>> THEN Absent ELSE "run it",
     args |-> IF o.args = <<>> THEN Absent ELSE "run it",
     ports |-> [i \in DOMAIN o.ports |-> <<o.ports[i].name, o.ports[i].containerPort, o.ports[i].type>>],
     rdma |-> o.rdmaType, egress |-> o.egressUnrestricted, placement |-> o.nodeSelector,
     ssh |-> IF o.ssh = Absent THEN Absent ELSE IF o.ssh.authorizedKeys = Absent THEN "platform" ELSE "provided"]

(* The environment that is written is the one the confirm step described, field
   by field; an id of 0 typed by hand, and not by the switch, is the exception:
   it is shown as typed, and makes the whole identity root's. *)
ConfirmedIsCreated ==
    reply = "created" /\ (draft.runAsRoot \/ NumberOf[draft.runAsUser] # 0)
        => Says(written) = SummaryRows(draft)

(* Whatever order the fields are edited in and however often the user steps
   back, the draft the wizard lets through is one the route takes for what the
   summary said of it (the setters, the gates of the steps, the POST handler). *)
CreatedAsConfirmed == DraftCoherent /\ RefusedOnlyByTheServer /\ ConfirmedIsCreated
=============================================================================
