---------------------------- MODULE WizardProofs ----------------------------
(***************************************************************************)
(* The two create wizards and the routes that answer them, for any number  *)
(* of edits, any number of rows and every cluster: of the specification    *)
(* Forms runs, in which each wizard is one of three forms.                 *)
(***************************************************************************)
EXTENDS Forms, FiniteSetTheorems, WellFoundedInduction, TLAPS

-----------------------------------------------------------------------------
(* The first fault of several checks *)

LEMMA LeastIs ==
  ASSUME NEW I, I \subseteq Nat, I # {}
  PROVE  Min(I) \in I /\ \A j \in I : Min(I) <= j
<1> DEFINE R == OpToRel(<, Nat)
<1>1. \E x \in I : \A y \in I : ~(<<y, x>> \in R)
  <2> IsWellFoundedOn(R, Nat)
    BY NatLessThanWellFounded DEF R
  <2> HIDE DEF R
  <2> QED BY WFMin
<1>2. \E x \in I : \A y \in I : x <= y
  <2>1. PICK x \in I : \A y \in I : ~(<<y, x>> \in R)
    BY <1>1
  <2>2. ASSUME NEW y \in I PROVE x <= y
    <3>1. x \in Nat /\ y \in Nat
      OBVIOUS
    <3>2. y < x => <<y, x>> \in R
      BY <3>1 DEF OpToRel
    <3> HIDE DEF R
    <3> QED BY <2>1, <3>1, <3>2
  <2> QED BY <2>2
<1> QED BY <1>2 DEF Min

\* The answer to several checks is one of their answers; it is "none" only if all are.
Answers(codes, code) ==
  \/ code = "none" /\ \A i \in DOMAIN codes : codes[i] = "none"
  \/ code # "none" /\ \E i \in DOMAIN codes : code = codes[i]

LEMMA FirstOfIs ==
  ASSUME NEW codes, DOMAIN codes \subseteq Nat
  PROVE  Answers(codes, FirstOf(codes))
<1> DEFINE I == {i \in DOMAIN codes : codes[i] # "none"}
<1>1. FirstOf(codes) = IF I = {} THEN "none" ELSE codes[Min(I)]
  BY DEF FirstOf
<1>2. CASE I = {}
  <2>1. FirstOf(codes) = "none" /\ \A i \in DOMAIN codes : codes[i] = "none"
    BY <1>1, <1>2
  <2> QED BY <2>1 DEF Answers
<1>3. CASE I # {}
  <2>1. Min(I) \in I
    <3>1. I \subseteq Nat
      OBVIOUS
    <3> HIDE DEF I
    <3> QED BY <1>3, <3>1, LeastIs
  <2>2. Min(I) \in DOMAIN codes /\ codes[Min(I)] # "none"
    BY <2>1
  <2>3. FirstOf(codes) = codes[Min(I)]
    BY <1>1, <1>3
  <2> HIDE DEF I
  <2> QED BY <2>2, <2>3 DEF Answers
<1> QED BY <1>2, <1>3

LEMMA FirstOfIn ==
  ASSUME NEW codes, DOMAIN codes \subseteq Nat, NEW A, \A i \in DOMAIN codes : codes[i] \in A \cup {"none"}
  PROVE  FirstOf(codes) \in A \cup {"none"}
BY FirstOfIs DEF Answers

LEMMA FirstOfNone ==
  ASSUME NEW codes, DOMAIN codes \subseteq Nat, FirstOf(codes) = "none"
  PROVE  \A i \in DOMAIN codes : codes[i] = "none"
BY FirstOfIs DEF Answers

LEMMA FirstOfNones ==
  /\ FirstOf(<<"none", "none">>) = "none"
  /\ FirstOf(<<"none", "none", "none">>) = "none"
  /\ FirstOf(<<"none", "none", "none", "none">>) = "none"
  /\ FirstOf(<<"none", "none", "none", "none", "none", "none", "none">>) = "none"
BY FirstOfIs DEF Answers

-----------------------------------------------------------------------------
(* The draft of an environment *)

PvcRow == [pvcName : ClaimNames, mountPath : Paths]
EnvRow == [name : EnvNames, value : Values]
PortRow == [name : PortNames, port : PortTexts, type : PORT_TYPES]
Cards == {n.model : n \in Nodes}
NewNames == {Blank, "Bad_1", "new", "team", "kube-system"}
Tags == {Blank, "own", "cpu", "cuda", "maca"}

Types == {"jupyter", "ssh"}
Vendors == {"none", "nvidia", "metax"}
Models == {Blank} \cup Cards
Sizes == Nat
Accounts == Users \cup {"user"}
Pvcs == Seq(PvcRow)
Envs == Seq(EnvRow)
Ports == Seq(PortRow)
RdmaTypes == {"roce", "infiniband"}
Pins == {Blank} \cup OfferedNodes
Offered == {"default"}
Flag == BOOLEAN

Draft ==
  [name : Names, namespace : Offered, newNamespace : Flag, newNamespaceName : NewNames,
   type : Types, image : Tags, accelerator : Vendors, gpuCount : GpuCounts, gpuModel : Models, cpu : CPU_OPTIONS,
   memory : Sizes, storageGi : Storages, pvcRetention : PVC_RETENTIONS, idle : IdleOptions, idleCustom : Flag,
   idleMinutes : Minutes, runAsRoot : Flag, sudo : Flag, runtimeUser : Accounts, runAsUser : IdTexts,
   runAsGroup : IdTexts, mountPath : Paths, pvcs : Pvcs, envs : Envs, args : Commands, command : Commands,
   ports : Ports, rdmaEnabled : Flag, rdmaType : RdmaTypes, egressUnrestricted : Flag, nodeName : Pins,
   sshEnabled : Flag, sshKeys : KeyTexts]

\* DraftCoherent of one draft.
Coherent(d) ==
  /\ d.memory \in MemoryOptions(d.cpu)
  /\ d.gpuModel # Blank => d.gpuModel \in AdvertisedModels(d.accelerator)
  /\ d.sshKeys # Blank => d.sshEnabled

Good(d) == d \in Draft /\ Coherent(d)

LEMMA BlankIsNoText ==
  /\ Blank \notin DnsLabels \cup {"Bad_1", "own", "cpu", "cuda", "maca", "root", "ubuntu", "user", "c", "p", "q"}
  /\ Blank \notin {"X", "HOME", "/data", "/ws", "/home/me", "run it", "run 'it", "a key", "no key", "too many keys"}
  /\ Blank \notin {"0", "00", "1000", "2147483647", "30", "35791394", "80", "080"}
<1> USE DEF Blank
<1>1. Blank \notin DnsLabels \cup {"Bad_1", "own", "cpu", "cuda", "maca", "root", "ubuntu", "user", "c", "p", "q"}
  BY Zenon DEF DnsLabels
<1>2. Blank \notin {"X", "HOME", "/data", "/ws", "/home/me", "run it", "run 'it", "a key", "no key", "too many keys"}
  BY Zenon
<1>3. Blank \notin {"0", "00", "1000", "2147483647", "30", "35791394", "80", "080"}
  BY Zenon
<1> QED BY <1>1, <1>2, <1>3, Zenon

LEMMA DefaultNamespace == DefaultNamespaceOf = "default" /\ OfferedNamespaces = {"default"}
BY DEF DefaultNamespaceOf, OfferedNamespaces, Namespaces

Images == {DEV_IMAGES[i] : i \in DOMAIN DEV_IMAGES}

LEMMA ImagesAre ==
  /\ DOMAIN DEV_IMAGES = 1 .. 6
  /\ \A i \in DOMAIN DEV_IMAGES : DEV_IMAGES[i].tag \in Tags /\ DEV_IMAGES[i].user = "ubuntu"
BY DEF DEV_IMAGES, Tags

LEMMA FirstImageIs ==
  ASSUME NEW at, at \subseteq DOMAIN DEV_IMAGES
  PROVE  FirstImage(at) \in Images \cup {Absent}
<1>1. CASE at = {}
  BY <1>1 DEF FirstImage
<1>2. CASE at # {}
  <2>1. at \subseteq Nat
    BY ImagesAre
  <2>2. Min(at) \in at
    BY <1>2, <2>1, LeastIs
  <2> QED BY <1>2, <2>2 DEF FirstImage, Images
<1> QED BY <1>1, <1>2

\* Only the three fields of the identity are rewritten.
LEMMA WithIdentityGood ==
  ASSUME NEW d, Good(d), NEW image \in Images \cup {Absent}, NEW e, e = WithIdentity(d, image)
  PROVE  Good(e)
<1>1. PICK u \in {"user", "ubuntu"} : IdentityOf(image).runtimeUser = u
  BY ImagesAre DEF IdentityOf, Images
<1>2. IdentityOf(image).runAsUser = "1000" /\ IdentityOf(image).runAsGroup = "1000"
  BY DEF IdentityOf
<1>3. e = [d EXCEPT !.runtimeUser = u, !.runAsUser = "1000", !.runAsGroup = "1000"]
  BY <1>1, <1>2 DEF WithIdentity
<1>4. u \in Accounts /\ "1000" \in IdTexts
  BY DEF Accounts, Users, IdTexts
<1>5. d \in Draft /\ Coherent(d)
  BY DEF Good
<1>6. e \in Draft
  <2>1. PICK e1 \in Draft : e1 = [d EXCEPT !.runtimeUser = u]
    BY <1>4, <1>5 DEF Draft
  <2>2. PICK e2 \in Draft : e2 = [e1 EXCEPT !.runAsUser = "1000"]
    BY <1>4 DEF Draft
  <2>3. PICK e3 \in Draft : e3 = [e2 EXCEPT !.runAsGroup = "1000"]
    BY <1>4 DEF Draft
  <2> QED BY <1>3, <2>1, <2>2, <2>3
<1>7. /\ e.memory = d.memory /\ e.cpu = d.cpu /\ e.gpuModel = d.gpuModel /\ e.accelerator = d.accelerator
      /\ e.sshKeys = d.sshKeys /\ e.sshEnabled = d.sshEnabled
  BY <1>3, <1>5 DEF Draft
<1> QED BY <1>5, <1>6, <1>7 DEF Good, Coherent

LEMMA OpenedGood == Good(Opened)
<1>1. PICK im \in Images : im = DEV_IMAGES[1] /\ im.tag = "cpu"
  BY ImagesAre DEF Images, DEV_IMAGES
<1> DEFINE o ==
        [name |-> Blank, namespace |-> DefaultNamespaceOf, newNamespace |-> FALSE, newNamespaceName |-> Blank,
         type |-> "jupyter", image |-> DEV_IMAGES[1].tag, accelerator |-> "none", gpuCount |-> 1,
         gpuModel |-> Blank, cpu |-> 2, memory |-> 4, storageGi |-> 20, pvcRetention |-> "delete",
         idle |-> 0, idleCustom |-> FALSE, idleMinutes |-> Blank, runAsRoot |-> FALSE, sudo |-> FALSE,
         runtimeUser |-> Blank, runAsUser |-> Blank, runAsGroup |-> Blank, mountPath |-> Blank, pvcs |-> <<>>,
         envs |-> <<>>, args |-> Blank, command |-> Blank, ports |-> <<>>, rdmaEnabled |-> FALSE,
         rdmaType |-> "roce", egressUnrestricted |-> FALSE, nodeName |-> Blank, sshEnabled |-> FALSE,
         sshKeys |-> Blank]
<1>2. Opened = WithIdentity(o, DEV_IMAGES[1])
  BY DEF Opened
<1>3. PICK no \in BOOLEAN : no = FALSE
  OBVIOUS
<1>4. o \in Draft
  <2>1. /\ Blank \in Names /\ DefaultNamespaceOf \in Offered /\ no \in Flag /\ Blank \in NewNames
        /\ "jupyter" \in Types /\ im.tag \in Tags /\ "none" \in Vendors /\ 1 \in GpuCounts /\ Blank \in Models
        /\ 2 \in CPU_OPTIONS /\ 4 \in Sizes /\ 20 \in Storages /\ "delete" \in PVC_RETENTIONS /\ 0 \in IdleOptions
    BY <1>1, <1>3, DefaultNamespace
       DEF Names, Offered, Flag, NewNames, Types, Tags, Vendors, GpuCounts, Models, CPU_OPTIONS, Sizes, Storages, PVC_RETENTIONS, IdleOptions
  <2>2. /\ Blank \in Minutes /\ Blank \in Accounts /\ Blank \in IdTexts /\ Blank \in Paths
        /\ Blank \in Commands /\ "roce" \in RdmaTypes /\ Blank \in Pins /\ Blank \in KeyTexts
    BY DEF Minutes, Accounts, Users, IdTexts, Paths, Commands, RdmaTypes, Pins, KeyTexts
  <2>3. <<>> \in Pvcs /\ <<>> \in Envs /\ <<>> \in Ports
    BY DEF Pvcs, Envs, Ports
  <2> QED BY <1>1, <1>3, <2>1, <2>2, <2>3 DEF Draft
<1>5. o.memory = 4 /\ o.cpu = 2 /\ o.gpuModel = Blank /\ o.sshKeys = Blank
  OBVIOUS
<1> HIDE DEF o
<1>6. Good(o)
  BY <1>4, <1>5 DEF Good, Coherent, MemoryOptions, MEM_TIER
<1> QED BY <1>1, <1>2, <1>6, WithIdentityGood

LEMMA BasicsRefusals ==
  ASSUME NEW d \in Draft, Step1Valid(d), Step2Valid(d)
  PROVE  RefuseBasics(Body(d)) = "none"
<1> DEFINE b == Body(d)
<1>1. /\ b.name = d.name /\ b.namespace = EffectiveNamespace(d) /\ b.image = d.image /\ b.type = d.type
      /\ b.accelerator = d.accelerator /\ b.storageGi = d.storageGi /\ b.idleTimeout = IdleTimeoutSeconds(d)
      /\ b.gpuCount = If(GpuRequested(d), d.gpuCount)
  BY DEF Body
<1> HIDE DEF b
<1>2. b.name \in DnsLabels /\ b.namespace # Blank /\ b.image # Blank
  BY <1>1 DEF Step1Valid
<1>3. b.type \in {"jupyter", "ssh"} /\ b.accelerator \in {"none", "nvidia", "metax"}
  BY <1>1 DEF Draft, Types, Vendors
<1>4. b.accelerator # "none" => b.gpuCount \in 1 .. 16
  BY <1>1 DEF Step2Valid, GpuValid, GpuRequested, If
<1>5. b.storageGi \in 20 .. 800
  BY <1>1 DEF Step2Valid
<1>6. b.idleTimeout \in 0 .. IDLE_TIMEOUT_MAX
  <2>1. IDLE_TIMEOUT_MAX \in Nat /\ 1800 <= IDLE_TIMEOUT_MAX
    BY SMT DEF IDLE_TIMEOUT_MAX
  <2>2. (IDLE_TIMEOUT_MAX \div 60) * 60 <= IDLE_TIMEOUT_MAX
    BY <2>1
  <2>3. d.idleCustom => NumberOf[d.idleMinutes] \in 0 .. IDLE_TIMEOUT_MAX \div 60
    BY DEF Step2Valid, IdleValid
  <2>4. ~d.idleCustom => d.idle \in {0, 1800}
    BY DEF Draft, IdleOptions
  <2> QED BY <1>1, <2>1, <2>2, <2>3, <2>4 DEF IdleTimeoutSeconds
<1>7. RefuseBasics(b) = FirstOf(<<"none", "none", "none", "none", "none", "none", "none">>)
  BY <1>2, <1>3, <1>4, <1>5, <1>6, SMTT(30) DEF RefuseBasics, Code
<1> QED BY <1>7, FirstOfNones DEF b
-----------------------------------------------------------------------------
(* Edits *)

\* What DraftCoherent speaks of is left alone.
SameCore(d, e) ==
  /\ e.memory = d.memory /\ e.cpu = d.cpu /\ e.gpuModel = d.gpuModel /\ e.accelerator = d.accelerator
  /\ e.sshKeys = d.sshKeys /\ e.sshEnabled = d.sshEnabled

LEMMA SameCoreGood ==
  ASSUME NEW d, Good(d), NEW e \in Draft, SameCore(d, e)
  PROVE  Good(e)
BY DEF Good, Coherent, SameCore

\* A field on its own can be set to any value of its input.
LEMMA FieldGood ==
  ASSUME NEW d, Good(d)
  PROVE
    /\ \A v \in Names : Good([d EXCEPT !.name = v])
    /\ \A v \in Offered : Good([d EXCEPT !.namespace = v])
    /\ \A v \in Flag : Good([d EXCEPT !.newNamespace = v])
    /\ \A v \in NewNames : Good([d EXCEPT !.newNamespaceName = v])
    /\ \A v \in Types : Good([d EXCEPT !.type = v])
    /\ \A v \in Tags : Good([d EXCEPT !.image = v])
    /\ \A v \in GpuCounts : Good([d EXCEPT !.gpuCount = v])
    /\ \A v \in Storages : Good([d EXCEPT !.storageGi = v])
    /\ \A v \in PVC_RETENTIONS : Good([d EXCEPT !.pvcRetention = v])
    /\ \A v \in IdleOptions : Good([d EXCEPT !.idle = v])
    /\ \A v \in Flag : Good([d EXCEPT !.idleCustom = v])
    /\ \A v \in Minutes : Good([d EXCEPT !.idleMinutes = v])
    /\ \A v \in Flag : Good([d EXCEPT !.runAsRoot = v])
    /\ \A v \in Flag : Good([d EXCEPT !.sudo = v])
    /\ \A v \in Accounts : Good([d EXCEPT !.runtimeUser = v])
    /\ \A v \in IdTexts : Good([d EXCEPT !.runAsUser = v])
    /\ \A v \in IdTexts : Good([d EXCEPT !.runAsGroup = v])
    /\ \A v \in Paths : Good([d EXCEPT !.mountPath = v])
    /\ \A v \in Pvcs : Good([d EXCEPT !.pvcs = v])
    /\ \A v \in Envs : Good([d EXCEPT !.envs = v])
    /\ \A v \in Commands : Good([d EXCEPT !.args = v])
    /\ \A v \in Commands : Good([d EXCEPT !.command = v])
    /\ \A v \in Ports : Good([d EXCEPT !.ports = v])
    /\ \A v \in Flag : Good([d EXCEPT !.rdmaEnabled = v])
    /\ \A v \in RdmaTypes : Good([d EXCEPT !.rdmaType = v])
    /\ \A v \in Flag : Good([d EXCEPT !.egressUnrestricted = v])
    /\ \A v \in Pins : Good([d EXCEPT !.nodeName = v])
<1>0. d \in Draft
  BY DEF Good
<1>1. ASSUME NEW v \in Names PROVE Good([d EXCEPT !.name = v])
  <2>1. [d EXCEPT !.name = v] \in Draft /\ SameCore(d, [d EXCEPT !.name = v])
    BY <1>0 DEF Draft, SameCore
  <2> QED BY <2>1, SameCoreGood
<1>2. ASSUME NEW v \in Offered PROVE Good([d EXCEPT !.namespace = v])
  <2>1. [d EXCEPT !.namespace = v] \in Draft /\ SameCore(d, [d EXCEPT !.namespace = v])
    BY <1>0 DEF Draft, SameCore
  <2> QED BY <2>1, SameCoreGood
<1>3. ASSUME NEW v \in Flag PROVE Good([d EXCEPT !.newNamespace = v])
  <2>1. [d EXCEPT !.newNamespace = v] \in Draft /\ SameCore(d, [d EXCEPT !.newNamespace = v])
    BY <1>0 DEF Draft, SameCore
  <2> QED BY <2>1, SameCoreGood
<1>4. ASSUME NEW v \in NewNames PROVE Good([d EXCEPT !.newNamespaceName = v])
  <2>1. [d EXCEPT !.newNamespaceName = v] \in Draft /\ SameCore(d, [d EXCEPT !.newNamespaceName = v])
    BY <1>0 DEF Draft, SameCore
  <2> QED BY <2>1, SameCoreGood
<1>5. ASSUME NEW v \in Types PROVE Good([d EXCEPT !.type = v])
  <2>1. [d EXCEPT !.type = v] \in Draft /\ SameCore(d, [d EXCEPT !.type = v])
    BY <1>0 DEF Draft, SameCore
  <2> QED BY <2>1, SameCoreGood
<1>6. ASSUME NEW v \in Tags PROVE Good([d EXCEPT !.image = v])
  <2>1. [d EXCEPT !.image = v] \in Draft /\ SameCore(d, [d EXCEPT !.image = v])
    BY <1>0 DEF Draft, SameCore
  <2> QED BY <2>1, SameCoreGood
<1>7. ASSUME NEW v \in GpuCounts PROVE Good([d EXCEPT !.gpuCount = v])
  <2>1. [d EXCEPT !.gpuCount = v] \in Draft /\ SameCore(d, [d EXCEPT !.gpuCount = v])
    BY <1>0 DEF Draft, SameCore
  <2> QED BY <2>1, SameCoreGood
<1>8. ASSUME NEW v \in Storages PROVE Good([d EXCEPT !.storageGi = v])
  <2>1. [d EXCEPT !.storageGi = v] \in Draft /\ SameCore(d, [d EXCEPT !.storageGi = v])
    BY <1>0 DEF Draft, SameCore
  <2> QED BY <2>1, SameCoreGood
<1>9. ASSUME NEW v \in PVC_RETENTIONS PROVE Good([d EXCEPT !.pvcRetention = v])
  <2>1. [d EXCEPT !.pvcRetention = v] \in Draft /\ SameCore(d, [d EXCEPT !.pvcRetention = v])
    BY <1>0 DEF Draft, SameCore
  <2> QED BY <2>1, SameCoreGood
<1>10. ASSUME NEW v \in IdleOptions PROVE Good([d EXCEPT !.idle = v])
  <2>1. [d EXCEPT !.idle = v] \in Draft /\ SameCore(d, [d EXCEPT !.idle = v])
    BY <1>0 DEF Draft, SameCore
  <2> QED BY <2>1, SameCoreGood
<1>11. ASSUME NEW v \in Flag PROVE Good([d EXCEPT !.idleCustom = v])
  <2>1. [d EXCEPT !.idleCustom = v] \in Draft /\ SameCore(d, [d EXCEPT !.idleCustom = v])
    BY <1>0 DEF Draft, SameCore
  <2> QED BY <2>1, SameCoreGood
<1>12. ASSUME NEW v \in Minutes PROVE Good([d EXCEPT !.idleMinutes = v])
  <2>1. [d EXCEPT !.idleMinutes = v] \in Draft /\ SameCore(d, [d EXCEPT !.idleMinutes = v])
    BY <1>0 DEF Draft, SameCore
  <2> QED BY <2>1, SameCoreGood
<1>13. ASSUME NEW v \in Flag PROVE Good([d EXCEPT !.runAsRoot = v])
  <2>1. [d EXCEPT !.runAsRoot = v] \in Draft /\ SameCore(d, [d EXCEPT !.runAsRoot = v])
    BY <1>0 DEF Draft, SameCore
  <2> QED BY <2>1, SameCoreGood
<1>14. ASSUME NEW v \in Flag PROVE Good([d EXCEPT !.sudo = v])
  <2>1. [d EXCEPT !.sudo = v] \in Draft /\ SameCore(d, [d EXCEPT !.sudo = v])
    BY <1>0 DEF Draft, SameCore
  <2> QED BY <2>1, SameCoreGood
<1>15. ASSUME NEW v \in Accounts PROVE Good([d EXCEPT !.runtimeUser = v])
  <2>1. [d EXCEPT !.runtimeUser = v] \in Draft /\ SameCore(d, [d EXCEPT !.runtimeUser = v])
    BY <1>0 DEF Draft, SameCore
  <2> QED BY <2>1, SameCoreGood
<1>16. ASSUME NEW v \in IdTexts PROVE Good([d EXCEPT !.runAsUser = v])
  <2>1. [d EXCEPT !.runAsUser = v] \in Draft /\ SameCore(d, [d EXCEPT !.runAsUser = v])
    BY <1>0 DEF Draft, SameCore
  <2> QED BY <2>1, SameCoreGood
<1>17. ASSUME NEW v \in IdTexts PROVE Good([d EXCEPT !.runAsGroup = v])
  <2>1. [d EXCEPT !.runAsGroup = v] \in Draft /\ SameCore(d, [d EXCEPT !.runAsGroup = v])
    BY <1>0 DEF Draft, SameCore
  <2> QED BY <2>1, SameCoreGood
<1>18. ASSUME NEW v \in Paths PROVE Good([d EXCEPT !.mountPath = v])
  <2>1. [d EXCEPT !.mountPath = v] \in Draft /\ SameCore(d, [d EXCEPT !.mountPath = v])
    BY <1>0 DEF Draft, SameCore
  <2> QED BY <2>1, SameCoreGood
<1>19. ASSUME NEW v \in Pvcs PROVE Good([d EXCEPT !.pvcs = v])
  <2>1. [d EXCEPT !.pvcs = v] \in Draft /\ SameCore(d, [d EXCEPT !.pvcs = v])
    BY <1>0 DEF Draft, SameCore
  <2> QED BY <2>1, SameCoreGood
<1>20. ASSUME NEW v \in Envs PROVE Good([d EXCEPT !.envs = v])
  <2>1. [d EXCEPT !.envs = v] \in Draft /\ SameCore(d, [d EXCEPT !.envs = v])
    BY <1>0 DEF Draft, SameCore
  <2> QED BY <2>1, SameCoreGood
<1>21. ASSUME NEW v \in Commands PROVE Good([d EXCEPT !.args = v])
  <2>1. [d EXCEPT !.args = v] \in Draft /\ SameCore(d, [d EXCEPT !.args = v])
    BY <1>0 DEF Draft, SameCore
  <2> QED BY <2>1, SameCoreGood
<1>22. ASSUME NEW v \in Commands PROVE Good([d EXCEPT !.command = v])
  <2>1. [d EXCEPT !.command = v] \in Draft /\ SameCore(d, [d EXCEPT !.command = v])
    BY <1>0 DEF Draft, SameCore
  <2> QED BY <2>1, SameCoreGood
<1>23. ASSUME NEW v \in Ports PROVE Good([d EXCEPT !.ports = v])
  <2>1. [d EXCEPT !.ports = v] \in Draft /\ SameCore(d, [d EXCEPT !.ports = v])
    BY <1>0 DEF Draft, SameCore
  <2> QED BY <2>1, SameCoreGood
<1>24. ASSUME NEW v \in Flag PROVE Good([d EXCEPT !.rdmaEnabled = v])
  <2>1. [d EXCEPT !.rdmaEnabled = v] \in Draft /\ SameCore(d, [d EXCEPT !.rdmaEnabled = v])
    BY <1>0 DEF Draft, SameCore
  <2> QED BY <2>1, SameCoreGood
<1>25. ASSUME NEW v \in RdmaTypes PROVE Good([d EXCEPT !.rdmaType = v])
  <2>1. [d EXCEPT !.rdmaType = v] \in Draft /\ SameCore(d, [d EXCEPT !.rdmaType = v])
    BY <1>0 DEF Draft, SameCore
  <2> QED BY <2>1, SameCoreGood
<1>26. ASSUME NEW v \in Flag PROVE Good([d EXCEPT !.egressUnrestricted = v])
  <2>1. [d EXCEPT !.egressUnrestricted = v] \in Draft /\ SameCore(d, [d EXCEPT !.egressUnrestricted = v])
    BY <1>0 DEF Draft, SameCore
  <2> QED BY <2>1, SameCoreGood
<1>27. ASSUME NEW v \in Pins PROVE Good([d EXCEPT !.nodeName = v])
  <2>1. [d EXCEPT !.nodeName = v] \in Draft /\ SameCore(d, [d EXCEPT !.nodeName = v])
    BY <1>0 DEF Draft, SameCore
  <2> QED BY <2>1, SameCoreGood
<1> QED BY <1>1, <1>2, <1>3, <1>4, <1>5, <1>6, <1>7, <1>8, <1>9, <1>10, <1>11, <1>12, <1>13, <1>14, <1>15, <1>16, <1>17, <1>18, <1>19, <1>20, <1>21, <1>22, <1>23, <1>24, <1>25, <1>26, <1>27

LEMMA NamespaceGood ==
  ASSUME NEW d, Good(d), NEW e \in ChangeNamespace(d) \cup TypeNamespace(d)
  PROVE  Good(e)
<1>1. PICK yes \in Flag, no \in Flag : yes = TRUE /\ no = FALSE
  BY DEF Flag
<1>2. CASE e = [d EXCEPT !.newNamespace = TRUE]
  <2>1. e = [d EXCEPT !.newNamespace = yes]
    BY <1>1, <1>2
  <2> QED BY <2>1, FieldGood
<1>3. ASSUME NEW n \in OfferedNamespaces, e = [d EXCEPT !.newNamespace = FALSE, !.namespace = n] PROVE Good(e)
  <2>1. PICK m : m = [d EXCEPT !.newNamespace = no]
    OBVIOUS
  <2>2. Good(m)
    BY <2>1, FieldGood
  <2>3. n \in Offered
    BY DefaultNamespace DEF Offered
  <2>4. e = [m EXCEPT !.namespace = n]
    BY <1>1, <1>3, <2>1
  <2> QED BY <2>2, <2>3, <2>4, FieldGood
<1>4. ASSUME e \in TypeNamespace(d) PROVE Good(e)
  <2>1. PICK n \in NewNames : e = [d EXCEPT !.newNamespaceName = n]
    BY <1>4 DEF TypeNamespace, NewNames
  <2> QED BY <2>1, FieldGood
<1> QED BY <1>2, <1>3, <1>4 DEF ChangeNamespace

LEMMA DevImageForIs ==
  ASSUME NEW tag
  PROVE  DevImageFor(tag) \in Images \cup {Absent}
BY FirstImageIs DEF DevImageFor

LEMMA SwitchTypeGood ==
  ASSUME NEW d, Good(d), NEW tp \in Types
  PROVE  Good(SwitchType(d, tp))
<1> DEFINE current == DevImageFor(d.image)
           same == FirstImage({i \in ServingImages(tp) : DEV_IMAGES[i].vendor = current.vendor})
           pair == IF same # Absent THEN same ELSE FirstImage(ServingImages(tp))
<1>1. same \in Images \cup {Absent} /\ FirstImage(ServingImages(tp)) \in Images \cup {Absent}
  BY FirstImageIs DEF ServingImages
<1>2. PICK p \in Images \cup {Absent} : p = pair
  BY <1>1
<1>3. Good([d EXCEPT !.type = tp])
  BY FieldGood
<1>4. p # Absent => Good(WithIdentity([d EXCEPT !.type = tp, !.image = p.tag], p))
  <2> SUFFICES ASSUME p # Absent PROVE Good(WithIdentity([d EXCEPT !.type = tp, !.image = p.tag], p))
    OBVIOUS
  <2>1. p.tag \in Tags
    BY ImagesAre DEF Images
  <2>2. PICK m : m = [d EXCEPT !.type = tp]
    OBVIOUS
  <2>3. Good([m EXCEPT !.image = p.tag])
    BY <1>3, <2>1, <2>2, FieldGood
  <2>4. [m EXCEPT !.image = p.tag] = [d EXCEPT !.type = tp, !.image = p.tag]
    BY <2>2
  <2> QED BY <2>3, <2>4, WithIdentityGood
<1>5. \/ SwitchType(d, tp) = [d EXCEPT !.type = tp]
      \/ p # Absent /\ SwitchType(d, tp) = WithIdentity([d EXCEPT !.type = tp, !.image = p.tag], p)
  BY <1>2 DEF SwitchType
<1> QED BY <1>3, <1>4, <1>5

LEMMA BasicsGood ==
  ASSUME NEW d, Good(d), NEW e \in EditBasics(d)
  PROVE  Good(e)
<1>1. CASE e \in {[d EXCEPT !.name = n] : n \in Names}
  BY <1>1, FieldGood
<1>2. CASE e \in ChangeNamespace(d) \cup TypeNamespace(d)
  BY <1>2, NamespaceGood
<1>3. CASE e \in {SwitchType(d, tp) : tp \in {"jupyter", "ssh"}}
  BY <1>3, SwitchTypeGood DEF Types
<1>4. ASSUME NEW tag \in ImageOptions(d) \cup {Blank, "own"}, e = SetImageTag(d, tag) PROVE Good(e)
  <2>1. tag \in Tags
    BY ImagesAre DEF ImageOptions, ServingImages, Tags
  <2>2. PICK m : m = [d EXCEPT !.image = tag]
    OBVIOUS
  <2>3. Good(m)
    BY <2>1, <2>2, FieldGood
  <2>4. Good(WithIdentity(m, DevImageFor(tag)))
    BY <2>3, DevImageForIs, WithIdentityGood
  <2>5. e = d \/ e = WithIdentity(m, DevImageFor(tag))
    BY <1>4, <2>2 DEF SetImageTag
  <2> QED BY <2>4, <2>5
<1> QED BY <1>1, <1>2, <1>3, <1>4 DEF EditBasics

LEMMA SecurityGood ==
  ASSUME NEW d, Good(d), NEW e \in EditSecurity(d)
  PROVE  Good(e)
<1>1. PICK root \in Flag, s \in Flag : root = ~d.runAsRoot /\ s = ~d.sudo
  BY DEF Flag
<1>2. CASE e = [d EXCEPT !.runAsRoot = ~@]
  <2>1. e = [d EXCEPT !.runAsRoot = root]
    BY <1>1, <1>2
  <2> QED BY <2>1, FieldGood
<1>3. CASE e = [d EXCEPT !.sudo = ~@]
  <2>1. e = [d EXCEPT !.sudo = s]
    BY <1>1, <1>3
  <2> QED BY <2>1, FieldGood
<1>4. CASE e \in {[d EXCEPT !.runtimeUser = u] : u \in Users}
  BY <1>4, FieldGood DEF Accounts
<1>5. CASE e \in {[d EXCEPT !.runAsUser = n] : n \in IdTexts} \cup {[d EXCEPT !.runAsGroup = n] : n \in IdTexts}
  BY <1>5, FieldGood
<1> QED BY <1>2, <1>3, <1>4, <1>5 DEF EditSecurity

LEMMA NetworkGood ==
  ASSUME NEW d, Good(d), NEW e \in EditNetwork(d)
  PROVE  Good(e)
<1>1. PICK r \in Flag, o \in Flag : r = ~d.rdmaEnabled /\ o = ~d.egressUnrestricted
  BY DEF Flag
<1>2. CASE e = [d EXCEPT !.rdmaEnabled = ~@]
  <2>1. e = [d EXCEPT !.rdmaEnabled = r]
    BY <1>1, <1>2
  <2> QED BY <2>1, FieldGood
<1>3. CASE e = [d EXCEPT !.egressUnrestricted = ~@]
  <2>1. e = [d EXCEPT !.egressUnrestricted = o]
    BY <1>1, <1>3
  <2> QED BY <2>1, FieldGood
<1>4. CASE e \in {[d EXCEPT !.rdmaType = t] : t \in {"roce", "infiniband"}}
  BY <1>4, FieldGood DEF RdmaTypes
<1> QED BY <1>2, <1>3, <1>4 DEF EditNetwork

LEMMA PlacementGood ==
  ASSUME NEW d, Good(d), NEW e \in EditPlacement(d)
  PROVE  Good(e)
BY FieldGood DEF EditPlacement, Pins

LEMMA SshGood ==
  ASSUME NEW d, Good(d), NEW e \in EditSsh(d)
  PROVE  Good(e)
<1>1. d \in Draft /\ Coherent(d)
  BY DEF Good
<1>2. CASE e = ToggleSsh(d)
  <2>1. PICK on \in Flag : on = ~d.sshEnabled
    BY DEF Flag
  <2>2. PICK k \in KeyTexts : k = (IF d.sshEnabled THEN Blank ELSE d.sshKeys)
    BY <1>1 DEF Draft, KeyTexts
  <2>3. e = [d EXCEPT !.sshEnabled = on, !.sshKeys = k]
    BY <1>1, <1>2, <2>1, <2>2 DEF ToggleSsh, Draft
  <2>4. e \in Draft /\ e.sshEnabled = on /\ e.sshKeys = k
    BY <1>1, <2>3, ZenonT(30) DEF Draft
  <2>5. e.memory = d.memory /\ e.cpu = d.cpu /\ e.gpuModel = d.gpuModel /\ e.accelerator = d.accelerator
    BY <1>1, <2>3 DEF Draft
  <2> QED BY <1>1, <2>1, <2>2, <2>4, <2>5 DEF Good, Coherent
<1>3. ASSUME d.sshEnabled, NEW k \in KeyTexts, e = [d EXCEPT !.sshKeys = k] PROVE Good(e)
  <2>1. e \in Draft /\ e.sshEnabled = d.sshEnabled
    BY <1>1, <1>3, ZenonT(30) DEF Draft
  <2>2. e.memory = d.memory /\ e.cpu = d.cpu /\ e.gpuModel = d.gpuModel /\ e.accelerator = d.accelerator
    BY <1>1, <1>3 DEF Draft
  <2> QED BY <1>1, <1>3, <2>1, <2>2 DEF Good, Coherent
<1> QED BY <1>2, <1>3 DEF EditSsh

LEMMA SetCpuGood ==
  ASSUME NEW d, Good(d), NEW cpu \in CPU_OPTIONS
  PROVE  Good(SetCpu(d, cpu))
<1>1. d \in Draft /\ Coherent(d)
  BY DEF Good
<1>2. PICK tier \in MEM_TIER : SetCpu(d, cpu) = [d EXCEPT !.cpu = cpu, !.memory = cpu * tier]
  <2> DEFINE P(t) == d.cpu * t = d.memory
             tr == IF \E t \in MEM_TIER : P(t) THEN CHOOSE t \in MEM_TIER : P(t) ELSE 2
  <2>1. SetCpu(d, cpu) = [d EXCEPT !.cpu = cpu, !.memory = cpu * tr]
    BY Zenon DEF SetCpu
  <2>2. 2 \in MEM_TIER
    BY DEF MEM_TIER
  <2>3. tr \in MEM_TIER
    <3> HIDE DEF P
    <3> QED BY <2>2, Zenon
  <2> QED BY <2>1, <2>3
<1>3. PICK m \in Sizes : m = cpu * tier
  BY DEF Sizes, CPU_OPTIONS, MEM_TIER
<1>4. PICK e : e = [d EXCEPT !.cpu = cpu, !.memory = m]
  OBVIOUS
<1>5. e \in Draft /\ e.cpu = cpu /\ e.memory = m
  BY <1>1, <1>4, ZenonT(30) DEF Draft
<1>6. e.gpuModel = d.gpuModel /\ e.accelerator = d.accelerator /\ e.sshKeys = d.sshKeys /\ e.sshEnabled = d.sshEnabled
  BY <1>1, <1>4 DEF Draft
<1>7. e.memory \in MemoryOptions(e.cpu)
  BY <1>3, <1>5 DEF MemoryOptions
<1>8. Good(e)
  BY <1>1, <1>5, <1>6, <1>7 DEF Good, Coherent
<1> QED BY <1>2, <1>3, <1>4, <1>8

LEMMA ResourcesGood ==
  ASSUME NEW d, Good(d), NEW e \in EditResources(d)
  PROVE  Good(e)
<1>1. d \in Draft /\ Coherent(d)
  BY DEF Good
<1>2. ASSUME NEW a \in Vendors, e = SetAccelerator(d, a) PROVE Good(e)
  <2>1. CASE e = d
    BY <2>1
  <2>2. CASE e = [d EXCEPT !.accelerator = a, !.gpuModel = Blank]
    <3>1. Blank \in Models
      BY DEF Models
    <3>2. e \in Draft /\ e.gpuModel = Blank
      BY <1>1, <2>2, <3>1, ZenonT(30) DEF Draft
    <3>3. e.memory = d.memory /\ e.cpu = d.cpu /\ e.sshKeys = d.sshKeys /\ e.sshEnabled = d.sshEnabled
      BY <1>1, <2>2 DEF Draft
    <3> QED BY <1>1, <3>2, <3>3 DEF Good, Coherent
  <2> QED BY <1>2, <2>1, <2>2 DEF SetAccelerator
<1>3. ASSUME NEW m \in {Blank} \cup AdvertisedModels(d.accelerator), e = [d EXCEPT !.gpuModel = m] PROVE Good(e)
  <2>1. m \in Models
    BY DEF Models, Cards, AdvertisedModels
  <2>2. e \in Draft /\ e.gpuModel = m /\ e.accelerator = d.accelerator
    BY <1>1, <1>3, <2>1 DEF Draft
  <2>3. e.memory = d.memory /\ e.cpu = d.cpu /\ e.sshKeys = d.sshKeys /\ e.sshEnabled = d.sshEnabled
    BY <1>1, <1>3 DEF Draft
  <2> QED BY <1>1, <2>2, <2>3 DEF Good, Coherent
<1>4. ASSUME NEW m \in MemoryOptions(d.cpu), e = [d EXCEPT !.memory = m] PROVE Good(e)
  <2>1. m \in Sizes
    <3>1. d.cpu \in CPU_OPTIONS
      BY <1>1 DEF Draft
    <3> QED BY <3>1 DEF MemoryOptions, MEM_TIER, Sizes, CPU_OPTIONS
  <2>2. e \in Draft /\ e.memory = m /\ e.cpu = d.cpu
    BY <1>1, <1>4, <2>1 DEF Draft
  <2>3. e.gpuModel = d.gpuModel /\ e.accelerator = d.accelerator /\ e.sshKeys = d.sshKeys /\ e.sshEnabled = d.sshEnabled
    BY <1>1, <1>4 DEF Draft
  <2> QED BY <1>1, <1>4, <2>2, <2>3 DEF Good, Coherent
<1>5. PICK yes \in Flag, no \in Flag : yes = TRUE /\ no = FALSE
  BY DEF Flag
<1>6. ASSUME NEW n \in IdleOptions, e = [d EXCEPT !.idleCustom = FALSE, !.idle = n] PROVE Good(e)
  <2>1. PICK m : m = [d EXCEPT !.idleCustom = no]
    OBVIOUS
  <2>2. Good(m)
    BY <2>1, FieldGood
  <2>3. Good([m EXCEPT !.idle = n])
    BY <2>2, FieldGood
  <2> QED BY <1>5, <1>6, <2>1, <2>3
<1>7. CASE e = SetIdleCustom(d)
  <2>1. PICK m : m = [d EXCEPT !.idleCustom = yes]
    OBVIOUS
  <2>2. Good(m)
    BY <2>1, FieldGood
  <2>3. d.idleMinutes \in Minutes /\ "30" \in Minutes
    BY <1>1 DEF Draft, Minutes
  <2>4. PICK v \in Minutes : v = IF d.idleMinutes = Blank /\ d.idle = 1800 THEN "30" ELSE d.idleMinutes
    BY <2>3
  <2>5. Good([m EXCEPT !.idleMinutes = v])
    BY <2>2, FieldGood
  <2>6. e = [m EXCEPT !.idleMinutes = v]
    BY <1>1, <1>5, <1>7, <2>1, <2>4 DEF SetIdleCustom, Draft
  <2> QED BY <2>5, <2>6
<1>8. CASE \/ e \in {[d EXCEPT !.gpuCount = n] : n \in GpuCounts}
           \/ e \in {[d EXCEPT !.storageGi = n] : n \in Storages}
           \/ e \in {[d EXCEPT !.idleMinutes = m] : m \in Minutes}
  BY <1>8, FieldGood
<1>9. CASE e \in {SetCpu(d, c) : c \in CPU_OPTIONS}
  BY <1>9, SetCpuGood
<1>10. CASE e \in {SetAccelerator(d, a) : a \in {"none", "nvidia", "metax"}}
  BY <1>10, <1>2 DEF Vendors
<1>11. CASE e \in {[d EXCEPT !.gpuModel = m] : m \in {Blank} \cup AdvertisedModels(d.accelerator)}
  BY <1>11, <1>3
<1>12. CASE e \in {[d EXCEPT !.memory = m] : m \in MemoryOptions(d.cpu)}
  BY <1>12, <1>4
<1>13. CASE e \in {[d EXCEPT !.idleCustom = FALSE, !.idle = n] : n \in IdleOptions}
  BY <1>13, <1>6
<1>14. CASE e \in (IF ~GpuRequested(d) THEN {}
                  ELSE {[d EXCEPT !.gpuCount = n] : n \in GpuCounts}
                       \cup {[d EXCEPT !.gpuModel = m] : m \in {Blank} \cup AdvertisedModels(d.accelerator)})
  BY <1>8, <1>11, <1>14, Zenon
<1>15. CASE e \in (IF d.idleCustom THEN {[d EXCEPT !.idleMinutes = m] : m \in Minutes} ELSE {})
  BY <1>8, <1>15, Zenon
<1> QED BY <1>7, <1>8, <1>9, <1>10, <1>12, <1>13, <1>14, <1>15, Zenon DEF EditResources

\* A table of rows stays one, whatever is added, removed or patched.
LEMMA RowsTyped ==
  ASSUME NEW R, NEW rs \in Seq(R), NEW qs,
         \/ \E row \in R : qs = Append(rs, row)
         \/ \E i \in DOMAIN rs : qs = RemoveAt(rs, i)
         \/ \E i \in DOMAIN rs, r \in R : qs = [rs EXCEPT ![i] = r]
  PROVE  qs \in Seq(R)
<1>1. ASSUME NEW i \in DOMAIN rs, qs = RemoveAt(rs, i) PROVE qs \in Seq(R)
  <2>1. SubSeq(rs, 1, i - 1) \in Seq(R) /\ SubSeq(rs, i + 1, Len(rs)) \in Seq(R)
    OBVIOUS
  <2> QED BY <1>1, <2>1 DEF RemoveAt
<1>2. ASSUME NEW i \in DOMAIN rs, NEW r \in R, qs = [rs EXCEPT ![i] = r] PROVE qs \in Seq(R)
  BY <1>2
<1> QED BY <1>1, <1>2

LEMMA WorkspaceGood ==
  ASSUME NEW d, Good(d), NEW e \in EditWorkspace(d)
  PROVE  Good(e)
<1>1. d.pvcs \in Seq(PvcRow)
  BY DEF Good, Draft, Pvcs
<1>2. [pvcName |-> Blank, mountPath |-> Blank] \in PvcRow
  BY DEF PvcRow, ClaimNames, Paths
<1>3. ASSUME NEW r \in PvcRow, NEW q \in PatchPvc(r) PROVE q \in PvcRow
  BY <1>3 DEF PvcRow, PatchPvc
<1>4. ASSUME NEW rs, rs \in Rows(d.pvcs, [pvcName |-> Blank, mountPath |-> Blank], PatchPvc)
      PROVE  rs \in Pvcs
  <2>1. CASE rs = Append(d.pvcs, [pvcName |-> Blank, mountPath |-> Blank])
    BY <1>1, <1>2, <2>1, RowsTyped DEF Pvcs
  <2>2. CASE rs \in {RemoveAt(d.pvcs, i) : i \in DOMAIN d.pvcs}
    BY <1>1, <2>2, RowsTyped DEF Pvcs
  <2>3. ASSUME rs \in UNION {{[d.pvcs EXCEPT ![i] = r] : r \in PatchPvc(d.pvcs[i])} : i \in DOMAIN d.pvcs}
        PROVE  rs \in Pvcs
    <3>1. PICK i \in DOMAIN d.pvcs : rs \in {[d.pvcs EXCEPT ![i] = r] : r \in PatchPvc(d.pvcs[i])}
      BY <2>3
    <3>2. PICK q \in PatchPvc(d.pvcs[i]) : rs = [d.pvcs EXCEPT ![i] = q]
      BY <3>1
    <3>3. d.pvcs[i] \in PvcRow
      BY <1>1
    <3>4. q \in PvcRow
      BY <1>3, <3>3
    <3> QED BY <1>1, <3>2, <3>4, RowsTyped DEF Pvcs
  <2> QED BY <1>4, <2>1, <2>2, <2>3, Zenon DEF Rows
<1>5. CASE e \in {[d EXCEPT !.mountPath = p] : p \in Paths}
  BY <1>5, FieldGood
<1>6. CASE e \in {[d EXCEPT !.pvcRetention = r] : r \in PVC_RETENTIONS}
  BY <1>6, FieldGood
<1>7. ASSUME NEW rs \in Pvcs, e = [d EXCEPT !.pvcs = rs] PROVE Good(e)
  BY <1>7, FieldGood
<1> QED BY <1>4, <1>5, <1>6, <1>7, Zenon DEF EditWorkspace

LEMMA RuntimeGood ==
  ASSUME NEW d, Good(d), NEW e \in EditRuntime(d)
  PROVE  Good(e)
<1>1. d.envs \in Seq(EnvRow)
  BY DEF Good, Draft, Envs
<1>2. [name |-> Blank, value |-> Blank] \in EnvRow
  BY DEF EnvRow, EnvNames, Values
<1>3. ASSUME NEW r \in EnvRow, NEW q \in PatchEnv(r) PROVE q \in EnvRow
  BY <1>3 DEF EnvRow, PatchEnv
<1>4. ASSUME NEW rs, rs \in Rows(d.envs, [name |-> Blank, value |-> Blank], PatchEnv)
      PROVE  rs \in Envs
  <2>1. CASE rs = Append(d.envs, [name |-> Blank, value |-> Blank])
    BY <1>1, <1>2, <2>1, RowsTyped DEF Envs
  <2>2. CASE rs \in {RemoveAt(d.envs, i) : i \in DOMAIN d.envs}
    BY <1>1, <2>2, RowsTyped DEF Envs
  <2>3. ASSUME rs \in UNION {{[d.envs EXCEPT ![i] = r] : r \in PatchEnv(d.envs[i])} : i \in DOMAIN d.envs}
        PROVE  rs \in Envs
    <3>1. PICK i \in DOMAIN d.envs : rs \in {[d.envs EXCEPT ![i] = r] : r \in PatchEnv(d.envs[i])}
      BY <2>3
    <3>2. PICK q \in PatchEnv(d.envs[i]) : rs = [d.envs EXCEPT ![i] = q]
      BY <3>1
    <3>3. d.envs[i] \in EnvRow
      BY <1>1
    <3>4. q \in EnvRow
      BY <1>3, <3>3
    <3> QED BY <1>1, <3>2, <3>4, RowsTyped DEF Envs
  <2> QED BY <1>4, <2>1, <2>2, <2>3, Zenon DEF Rows
<1>5. CASE \/ e \in {[d EXCEPT !.args = a] : a \in Commands}
           \/ e \in {[d EXCEPT !.command = a] : a \in Commands}
  BY <1>5, FieldGood
<1>6. ASSUME NEW rs \in Envs, e = [d EXCEPT !.envs = rs] PROVE Good(e)
  BY <1>6, FieldGood
<1> QED BY <1>4, <1>5, <1>6, Zenon DEF EditRuntime

LEMMA PortsGood ==
  ASSUME NEW d, Good(d), NEW e \in EditPorts(d)
  PROVE  Good(e)
<1>1. d.ports \in Seq(PortRow)
  BY DEF Good, Draft, Ports
<1>2. [name |-> Blank, port |-> Blank, type |-> "http"] \in PortRow
  BY DEF PortRow, PortNames, PORT_TYPES, PortTexts
<1>3. ASSUME NEW r \in PortRow, NEW q \in PatchPort(r) PROVE q \in PortRow
  BY <1>3 DEF PortRow, PatchPort
<1>4. ASSUME NEW rs, rs \in Rows(d.ports, [name |-> Blank, port |-> Blank, type |-> "http"], PatchPort)
      PROVE  rs \in Ports
  <2>1. CASE rs = Append(d.ports, [name |-> Blank, port |-> Blank, type |-> "http"])
    BY <1>1, <1>2, <2>1, RowsTyped DEF Ports
  <2>2. CASE rs \in {RemoveAt(d.ports, i) : i \in DOMAIN d.ports}
    BY <1>1, <2>2, RowsTyped DEF Ports
  <2>3. ASSUME rs \in UNION {{[d.ports EXCEPT ![i] = r] : r \in PatchPort(d.ports[i])} : i \in DOMAIN d.ports}
        PROVE  rs \in Ports
    <3>1. PICK i \in DOMAIN d.ports : rs \in {[d.ports EXCEPT ![i] = r] : r \in PatchPort(d.ports[i])}
      BY <2>3
    <3>2. PICK q \in PatchPort(d.ports[i]) : rs = [d.ports EXCEPT ![i] = q]
      BY <3>1
    <3>3. d.ports[i] \in PortRow
      BY <1>1
    <3>4. q \in PortRow
      BY <1>3, <3>3
    <3> QED BY <1>1, <3>2, <3>4, RowsTyped DEF Ports
  <2> QED BY <1>4, <2>1, <2>2, <2>3, Zenon DEF Rows
<1>5. ASSUME NEW rs \in Ports, e = [d EXCEPT !.ports = rs] PROVE Good(e)
  BY <1>5, FieldGood
<1> QED BY <1>4, <1>5, Zenon DEF EditPorts

\* Whatever section is edited, the draft stays coherent.
LEMMA EditGood ==
  ASSUME NEW d, Good(d), NEW s \in 1 .. 4, NEW section \in Sections[s], NEW e \in EditsOf(d, section)
  PROVE  Good(e)
<1>1. section \in {"basics", "resources", "workspace", "security", "runtime", "ports", "network", "placement", "ssh"}
  BY DEF Sections
<1>2. CASE section = "basics"
  BY <1>2, BasicsGood DEF EditsOf
<1>3. CASE section = "resources"
  BY <1>3, ResourcesGood DEF EditsOf
<1>4. CASE section = "workspace"
  BY <1>4, WorkspaceGood DEF EditsOf
<1>5. CASE section = "security"
  BY <1>5, SecurityGood DEF EditsOf
<1>6. CASE section = "runtime"
  BY <1>6, RuntimeGood DEF EditsOf
<1>7. CASE section = "ports"
  BY <1>7, PortsGood DEF EditsOf
<1>8. CASE section = "network"
  BY <1>8, NetworkGood DEF EditsOf
<1>9. CASE section = "placement"
  BY <1>9, PlacementGood DEF EditsOf
<1>10. CASE section = "ssh"
  BY <1>10, SshGood DEF EditsOf
<1> QED BY <1>1, <1>2, <1>3, <1>4, <1>5, <1>6, <1>7, <1>8, <1>9, <1>10

-----------------------------------------------------------------------------
(* What the route refuses of a draft the wizard lets through *)

LEMMA NumberIs ==
  /\ NumberOf["0"] = 0 /\ NumberOf["1000"] = 1000
  /\ \A t \in IdTexts \cup PortTexts \cup Minutes : NumberOf[t] \in Int
<1>1. "0" \in Minutes \cup IdTexts \cup PortTexts /\ "1000" \in Minutes \cup IdTexts \cup PortTexts
  BY DEF IdTexts
<1>2. NumberOf["0"] = 0 /\ NumberOf["1000"] = 1000
  BY <1>1, SMT DEF NumberOf
<1>3. ASSUME NEW t \in IdTexts \cup PortTexts \cup Minutes PROVE NumberOf[t] \in Int
  BY SMT DEF NumberOf
<1> QED BY <1>2, <1>3

LEMMA IdentityRefusals ==
  ASSUME NEW d \in Draft, Step3Valid(d), NEW b, b = Body(d)
  PROVE  RefuseIdentity(b) \in {"rootAccountMismatch", "none"}
<1>1. /\ b.runtimeUser = If(~d.runAsRoot, EffectiveUser(d))
      /\ b.runAsUser = NumberOf[EffectiveUid(d)] /\ b.runAsGroup = NumberOf[EffectiveGid(d)]
  BY DEF Body
<1>2. b.runtimeUser # Absent => b.runtimeUser \in RuntimeUsers
  BY <1>1 DEF Step3Valid, If
<1>3. NumberOf[EffectiveUid(d)] \in Int /\ NumberOf[EffectiveGid(d)] \in Int
  <2>1. EffectiveUid(d) \in IdTexts /\ EffectiveGid(d) \in IdTexts
    BY DEF Draft, EffectiveUid, EffectiveGid, IdTexts
  <2> QED BY <2>1, NumberIs
<1>4. ~(b.runAsUser < 0 \/ b.runAsGroup < 0)
  BY <1>1, <1>3 DEF Step3Valid, IdValid
<1>5. PICK c \in {"rootAccountMismatch", "none"} : RefuseIdentity(b) = FirstOf(<<"none", c, "none">>)
  BY <1>2, <1>4 DEF RefuseIdentity, Code
<1>6. DOMAIN <<"none", c, "none">> \subseteq Nat
      /\ \A i \in DOMAIN <<"none", c, "none">> : <<"none", c, "none">>[i] \in {"rootAccountMismatch"} \cup {"none"}
  OBVIOUS
<1>7. FirstOf(<<"none", c, "none">>) \in {"rootAccountMismatch"} \cup {"none"}
  BY <1>6, FirstOfIn
<1> QED BY <1>5, <1>7

LEMMA RowsNone ==
  ASSUME NEW D, D \subseteq Nat, NEW f, f = [i \in D |-> "none"]
  PROVE  FirstOf(f) = "none"
<1>1. DOMAIN f \subseteq Nat /\ \A i \in DOMAIN f : f[i] = "none"
  OBVIOUS
<1> QED BY <1>1, FirstOfIs DEF Answers

LEMMA WorkspaceRefusals ==
  ASSUME NEW d \in Draft, Step3Valid(d), NEW b, b = Body(d)
  PROVE  RefuseWorkspace(b) = "none"
<1>1. /\ b.mountPath = OrAbsent(d.mountPath) /\ b.volumes = FilledPvcs(d)
      /\ b.pvcRetention = If(d.pvcRetention = "retain", "retain")
  BY DEF Body
<1> DEFINE vs == b.volumes
<1>2. d.pvcs \in Seq(PvcRow) /\ d.mountPath \in Paths
  BY DEF Draft, Pvcs
<1>3. DOMAIN vs \subseteq DOMAIN d.pvcs /\ \A i \in DOMAIN vs : vs[i] = d.pvcs[i]
  BY <1>1 DEF FilledPvcs, Restrict
<1>4. DOMAIN vs \subseteq Nat /\ \A i \in DOMAIN vs : vs[i] \in PvcRow
  BY <1>2, <1>3
<1>5. /\ \A i \in DOMAIN vs : vs[i].pvcName # Blank /\ Absolute(vs[i].mountPath) /\ vs[i].mountPath # d.mountPath
      /\ \A i, j \in DOMAIN vs : vs[i].mountPath = vs[j].mountPath => i = j
  BY <1>1 DEF Step3Valid, PvcRowsValid, Distinct
<1> HIDE DEF vs
<1>6. ASSUME NEW i \in DOMAIN vs PROVE RefuseVolume(b, i) = "none"
  <2>1. vs[i].mountPath \in {"/data", "/ws", "/home/me"}
    BY <1>5 DEF Absolute
  <2>2. vs[i].pvcName # Blank /\ vs[i].mountPath # Blank
    BY <1>5, <2>1, BlankIsNoText
  <2>3. vs[i].mountPath # b.mountPath
    <3>1. vs[i].mountPath \in Paths
      BY <1>4 DEF PvcRow
    <3>2. vs[i].mountPath # Absent
      BY <3>1, AbsentAssumption
    <3> QED BY <1>1, <1>5, <3>2 DEF OrAbsent
  <2>4. \A j \in Before(vs, i) : vs[j].mountPath # vs[i].mountPath
    <3>1. ASSUME NEW j \in Before(vs, i) PROVE vs[j].mountPath # vs[i].mountPath
      <4>1. j \in DOMAIN vs /\ j < i /\ i \in Nat /\ j \in Nat
        BY <1>4 DEF Before
      <4> QED BY <1>5, <4>1
    <3> QED BY <3>1
  <2>5. RefuseVolume(b, i) = FirstOf(<<"none", "none", "none">>)
    BY <1>5, <2>2, <2>3, <2>4 DEF RefuseVolume, Code, vs
  <2> QED BY <2>5, FirstOfNones
<1>7. FirstOf([i \in DOMAIN b.volumes |-> RefuseVolume(b, i)]) = "none"
  <2>1. [i \in DOMAIN vs |-> RefuseVolume(b, i)] = [i \in DOMAIN vs |-> "none"]
    BY <1>6
  <2> QED BY <1>4, <2>1, RowsNone DEF vs
<1>8. ~(b.mountPath # Absent /\ ~Absolute(b.mountPath))
  BY <1>1 DEF Step3Valid, OrAbsent
<1>9. b.pvcRetention \in PVC_RETENTIONS \cup {Absent}
  BY <1>1 DEF If, PVC_RETENTIONS
<1>10. RefuseWorkspace(b) = FirstOf(<<"none", "none", "none">>)
  BY <1>7, <1>8, <1>9 DEF RefuseWorkspace, Code
<1> QED BY <1>10, FirstOfNones

LEMMA EnvRefusals ==
  ASSUME NEW d \in Draft, Step3Valid(d), NEW b, b = Body(d)
  PROVE  RefuseEnv(b) = "none"
<1>1. b.env = FilledEnvs(d)
  BY DEF Body
<1> DEFINE es == b.env
<1>2. DOMAIN es \subseteq DOMAIN d.envs
  BY <1>1 DEF FilledEnvs, Restrict
<1>3. DOMAIN es \subseteq Nat
  <2>1. d.envs \in Seq(EnvRow)
    BY DEF Draft, Envs
  <2> QED BY <1>2, <2>1
<1>4. /\ \A i \in DOMAIN es : es[i].name \in {"X", "HOME"} /\ (es[i].name = "HOME" => Absolute(es[i].value))
      /\ \A i, j \in DOMAIN es : es[i].name = es[j].name => i = j
  BY <1>1 DEF Step3Valid, EnvRowsValid, Distinct
<1> HIDE DEF es
<1>5. ASSUME NEW i \in DOMAIN es PROVE RefuseVariable(b, i) = "none"
  <2>1. es[i].name # Blank
    BY <1>4, BlankIsNoText
  <2>2. \A j \in Before(es, i) : es[j].name # es[i].name
    <3>1. ASSUME NEW j \in Before(es, i) PROVE es[j].name # es[i].name
      <4>1. j \in DOMAIN es /\ j < i /\ i \in Nat /\ j \in Nat
        BY <1>3 DEF Before
      <4> QED BY <1>4, <4>1
    <3> QED BY <3>1
  <2>3. RefuseVariable(b, i) = FirstOf(<<"none", "none", "none", "none">>)
    BY <1>4, <2>1, <2>2 DEF RefuseVariable, Code, es
  <2> QED BY <2>3, FirstOfNones
<1>6. [i \in DOMAIN es |-> RefuseVariable(b, i)] = [i \in DOMAIN es |-> "none"]
  BY <1>5
<1> QED BY <1>3, <1>6, RowsNone DEF RefuseEnv, es

LEMMA CommandRefusals ==
  ASSUME NEW b
  PROVE  /\ RefuseCommand(b) \in {"commandUnbalanced", "argsUnbalanced", "none"}
         /\ RefuseCommand(b) = "none" => SplitArgs(b.command) # Absent /\ SplitArgs(b.args) # Absent
<1>1. PICK p \in {"commandUnbalanced", "none"}, q \in {"argsUnbalanced", "none"} :
        /\ RefuseCommand(b) = FirstOf(<<p, q>>)
        /\ p = "none" <=> SplitArgs(b.command) # Absent
        /\ q = "none" <=> SplitArgs(b.args) # Absent
  BY DEF RefuseCommand, Code
<1>2. PICK t : t = <<p, q>>
  OBVIOUS
<1>3. /\ DOMAIN t \subseteq Nat /\ 1 \in DOMAIN t /\ 2 \in DOMAIN t /\ t[1] = p /\ t[2] = q
      /\ \A i \in DOMAIN t : t[i] \in {"commandUnbalanced", "argsUnbalanced"} \cup {"none"}
  BY <1>2
<1>4. FirstOf(t) \in {"commandUnbalanced", "argsUnbalanced"} \cup {"none"}
  BY <1>3, FirstOfIn
<1>5. FirstOf(t) = "none" => p = "none" /\ q = "none"
  BY <1>3, FirstOfNone
<1> QED BY <1>1, <1>2, <1>4, <1>5

LEMMA PortsRefusals ==
  ASSUME NEW d \in Draft, Step3Valid(d), NEW b, b = Body(d)
  PROVE  RefusePorts(b) \in {"portInUse", "none"}
<1> DEFINE rs == FilledPorts(d)
           ps == b.ports
<1>1. /\ DOMAIN ps = DOMAIN rs
      /\ \A i \in DOMAIN rs : ps[i] = [name |-> rs[i].name, containerPort |-> NumberOf[rs[i].port], type |-> rs[i].type]
  BY DEF Body
<1>2. d.ports \in Seq(PortRow)
  BY DEF Draft, Ports
<1>3. DOMAIN rs \subseteq DOMAIN d.ports /\ \A i \in DOMAIN rs : rs[i] = d.ports[i]
  BY DEF FilledPorts, Restrict
<1>4. DOMAIN rs \subseteq Nat /\ \A i \in DOMAIN rs : rs[i].type \in PORT_TYPES
  <2> HIDE DEF rs
  <2>1. DOMAIN rs \subseteq Nat /\ \A i \in DOMAIN rs : rs[i] \in PortRow
    BY <1>2, <1>3
  <2> QED BY <2>1 DEF PortRow
<1>5. /\ \A i \in DOMAIN rs : rs[i].name # Blank /\ NumberOf[rs[i].port] \in PortNumbers
      /\ \A i, j \in DOMAIN rs : rs[i].name = rs[j].name => i = j
  BY DEF Step3Valid, PortRowsValid, Distinct
<1> HIDE DEF rs, ps
<1>6. ASSUME NEW i \in DOMAIN ps PROVE RefusePort(b, i) \in {"portInUse"} \cup {"none"}
  <2>1. /\ ps[i].name # Blank /\ ps[i].type \in PORT_TYPES /\ ps[i].containerPort \in PortNumbers
    BY <1>1, <1>4, <1>5
  <2>2. \A j \in Before(ps, i) : ps[j].name # ps[i].name
    <3>1. ASSUME NEW j \in Before(ps, i) PROVE ps[j].name # ps[i].name
      <4>1. j \in DOMAIN rs /\ i \in DOMAIN rs /\ j < i /\ i \in Nat /\ j \in Nat
        BY <1>1, <1>4 DEF Before
      <4> QED BY <1>1, <1>5, <4>1
    <3> QED BY <3>1
  <2>3. PICK c \in {"portInUse", "none"} : RefusePort(b, i) = FirstOf(<<"none", "none", "none", "none", c>>)
    BY <2>1, <2>2 DEF RefusePort, Code, ps
  <2>4. PICK t : t = <<"none", "none", "none", "none", c>>
    OBVIOUS
  <2>5. DOMAIN t \subseteq Nat /\ \A k \in DOMAIN t : t[k] \in {"portInUse"} \cup {"none"}
    BY <2>4
  <2>6. FirstOf(t) \in {"portInUse"} \cup {"none"}
    BY <2>5, FirstOfIn
  <2> QED BY <2>3, <2>4, <2>6
<1>7. PICK f : f = [i \in DOMAIN ps |-> RefusePort(b, i)]
  OBVIOUS
<1>8. DOMAIN f \subseteq Nat /\ \A i \in DOMAIN f : f[i] \in {"portInUse"} \cup {"none"}
  BY <1>1, <1>4, <1>6, <1>7
<1>9. FirstOf(f) \in {"portInUse"} \cup {"none"}
  BY <1>8, FirstOfIn
<1> QED BY <1>7, <1>9 DEF RefusePorts, ps

LEMMA PlacementRefusals ==
  ASSUME NEW d \in Draft, Step3Valid(d), NEW b, b = Body(d)
  PROVE  RefusePlacement(b) = "none"
<1>1. b.rdmaType = If(d.rdmaEnabled, d.rdmaType) /\ b.nodeName = OrAbsent(d.nodeName)
  BY DEF Body
<1>2. b.rdmaType \in {Absent, "roce", "infiniband"}
  BY <1>1 DEF Draft, RdmaTypes, If
<1>3. ~(b.nodeName # Absent /\ b.nodeName \notin NodeNames)
  BY <1>1 DEF Step3Valid, OrAbsent
<1>4. RefusePlacement(b) = FirstOf(<<"none", "none">>)
  BY <1>2, <1>3 DEF RefusePlacement, Code
<1> QED BY <1>4, FirstOfNones

LEMMA KeysRefusals ==
  ASSUME NEW b
  PROVE  RefuseKeys(b) \in {"sshKeysTooMany", "sshKeyInvalid", "nameTooLong", "none"}
<1>1. PICK p \in {"sshKeysTooMany", "none"}, q \in {"sshKeyInvalid", "none"}, r \in {"nameTooLong", "none"} :
        RefuseKeys(b) = FirstOf(<<p, q, r>>)
  BY DEF RefuseKeys, Code
<1>2. PICK t : t = <<p, q, r>>
  OBVIOUS
<1>3. DOMAIN t \subseteq Nat /\ \A i \in DOMAIN t : t[i] \in {"sshKeysTooMany", "sshKeyInvalid", "nameTooLong"} \cup {"none"}
  BY <1>2
<1>4. FirstOf(t) \in {"sshKeysTooMany", "sshKeyInvalid", "nameTooLong"} \cup {"none"}
  BY <1>3, FirstOfIn
<1> QED BY <1>1, <1>2, <1>4

LEMMA ObjectRefusals ==
  ASSUME NEW d \in Draft, NEW b, b = Body(d), NEW existing
  PROVE  RefuseObject(b, NamespacesFor(d), existing) \in {"nameTaken", "none"}
<1>1. b.namespace \in NamespacesFor(d)
  <2>1. b.namespace = EffectiveNamespace(d)
    BY DEF Body
  <2>2. d.namespace = "default"
    BY DEF Draft, Offered
  <2> QED BY <2>1, <2>2 DEF EffectiveNamespace, NamespacesFor, Namespaces
<1>2. PICK c \in {"nameTaken", "none"} : RefuseObject(b, NamespacesFor(d), existing) = FirstOf(<<"none", c>>)
  BY <1>1 DEF RefuseObject, Code
<1>3. PICK t : t = <<"none", c>>
  OBVIOUS
<1>4. DOMAIN t \subseteq Nat /\ \A i \in DOMAIN t : t[i] \in {"nameTaken"} \cup {"none"}
  BY <1>3
<1>5. FirstOf(t) \in {"nameTaken"} \cup {"none"}
  BY <1>4, FirstOfIn
<1> QED BY <1>2, <1>3, <1>5

LEMMA NamespaceRefusals ==
  ASSUME NEW n \in DnsLabels
  PROVE  RefuseNamespace(n) \in {"namespaceManaged", "none"}
<1>1. PICK c \in {"namespaceManaged", "none"} : RefuseNamespace(n) = FirstOf(<<"none", c>>)
  BY DEF RefuseNamespace, Code
<1>2. PICK t : t = <<"none", c>>
  OBVIOUS
<1>3. DOMAIN t \subseteq Nat /\ \A i \in DOMAIN t : t[i] \in {"namespaceManaged"} \cup {"none"}
  BY <1>2
<1>4. FirstOf(t) \in {"namespaceManaged"} \cup {"none"}
  BY <1>3, FirstOfIn
<1> QED BY <1>1, <1>2, <1>4

LEMMA Refusals ==
  ASSUME NEW d \in Draft, MayCreate(d), NEW b, b = Body(d), NEW existing,
         NEW r, r = Refusal(b, NamespacesFor(d), existing)
  PROVE  /\ r \in ServersOwn \cup {"none"}
         /\ r = "none" => SplitArgs(b.command) # Absent /\ SplitArgs(b.args) # Absent
<1>1. Step1Valid(d) /\ Step2Valid(d) /\ Step3Valid(d)
  BY DEF MayCreate
<1>2. PICK t : t = <<RefuseBasics(b), RefuseIdentity(b), RefuseWorkspace(b), RefuseEnv(b), RefuseCommand(b), RefusePorts(b),
                     RefusePlacement(b), RefuseKeys(b), RefuseObject(b, NamespacesFor(d), existing)>>
  OBVIOUS
<1>3. DOMAIN t = 1 .. 9 /\ t[5] = RefuseCommand(b)
  BY <1>2
<1>4. t[1] = "none" /\ t[3] = "none" /\ t[4] = "none" /\ t[7] = "none"
  BY <1>1, <1>2, BasicsRefusals, WorkspaceRefusals, EnvRefusals, PlacementRefusals
<1>5. /\ t[2] \in {"rootAccountMismatch", "none"} /\ t[5] \in {"commandUnbalanced", "argsUnbalanced", "none"}
      /\ t[6] \in {"portInUse", "none"} /\ t[8] \in {"sshKeysTooMany", "sshKeyInvalid", "nameTooLong", "none"}
      /\ t[9] \in {"nameTaken", "none"}
  BY <1>1, <1>2, IdentityRefusals, CommandRefusals, PortsRefusals, KeysRefusals, ObjectRefusals
<1>6. DOMAIN t \subseteq Nat /\ \A i \in DOMAIN t : t[i] \in ServersOwn \cup {"none"}
  BY <1>3, <1>4, <1>5 DEF ServersOwn
<1>7. r = FirstOf(t)
  BY <1>2 DEF Refusal
<1>8. r \in ServersOwn \cup {"none"}
  BY <1>6, <1>7, FirstOfIn
<1>9. r = "none" => t[5] = "none"
  <2>1. 5 \in DOMAIN t
    BY <1>3
  <2> QED BY <1>6, <1>7, <2>1, FirstOfNone
<1> QED BY <1>3, <1>8, <1>9, CommandRefusals

-----------------------------------------------------------------------------
(* What the object says *)

LEMMA SaysWhatWasConfirmed ==
  ASSUME NEW d \in Draft, MayCreate(d), NEW b, b = Body(d),
         SplitArgs(b.command) # Absent, SplitArgs(b.args) # Absent,
         d.runAsRoot \/ NumberOf[d.runAsUser] # 0
  PROVE  Says(CR(b)) = SummaryRows(d)
<1>1. PICK o : o = CR(b)
  OBVIOUS
<1>2. /\ b.name = d.name /\ b.namespace = EffectiveNamespace(d) /\ b.type = d.type /\ b.image = d.image
      /\ b.cpu = d.cpu /\ b.memory = d.memory /\ b.storageGi = d.storageGi /\ b.idleTimeout = IdleTimeoutSeconds(d)
      /\ b.env = FilledEnvs(d) /\ b.egressUnrestricted = d.egressUnrestricted /\ b.rdmaType = If(d.rdmaEnabled, d.rdmaType)
      /\ b.nodeName = OrAbsent(d.nodeName) /\ b.mountPath = OrAbsent(d.mountPath)
  BY DEF Body
<1>3. /\ o.name = b.name /\ o.namespace = b.namespace /\ o.type = b.type /\ o.image = b.image
      /\ o.cpu = b.cpu /\ o.memory = b.memory /\ o.storage.size = b.storageGi /\ o.storage.mountPath = b.mountPath
      /\ o.idleTimeout = b.idleTimeout /\ o.env = b.env /\ o.egressUnrestricted = b.egressUnrestricted
      /\ o.rdmaType = b.rdmaType /\ o.nodeSelector = b.nodeName
  BY <1>1 DEF CR
<1>4. (IF o.gpu = Absent THEN Absent ELSE <<o.gpu.count, o.gpu.vendor, o.gpu.model>>)
        = If(GpuRequested(d), <<d.gpuCount, d.accelerator, OrAbsent(d.gpuModel)>>)
  <2>1. /\ o.gpu = If(b.accelerator # "none", [vendor |-> b.accelerator, count |-> b.gpuCount, model |-> b.gpuModel])
        /\ b.accelerator = d.accelerator /\ b.gpuCount = If(GpuRequested(d), d.gpuCount)
        /\ b.gpuModel = If(GpuRequested(d), OrAbsent(d.gpuModel))
    BY <1>1 DEF CR, Body
  <2>2. CASE ~GpuRequested(d)
    BY <2>1, <2>2 DEF GpuRequested, If
  <2>3. CASE GpuRequested(d)
    <3>1. o.gpu = [vendor |-> d.accelerator, count |-> d.gpuCount, model |-> OrAbsent(d.gpuModel)]
      BY <2>1, <2>3 DEF GpuRequested, If
    <3>2. d.accelerator \in {"nvidia", "metax"} /\ d.gpuCount \in GpuCounts
      BY <2>3 DEF Draft, Vendors, GpuRequested
    <3>3. OrAbsent(d.gpuModel) \in {n.model : n \in Nodes} \cup {Absent}
      BY DEF Draft, Models, Cards, OrAbsent
    <3>4. o.gpu \in GpuSpecs
      BY <3>1, <3>2, <3>3 DEF GpuSpecs
    <3>5. o.gpu # Absent
      BY <3>4, AbsentAssumption
    <3> QED BY <2>3, <3>1, <3>5 DEF If
  <2> QED BY <2>2, <2>3
<1>5. (IF o.storage.pvcRetention = Absent THEN "delete" ELSE o.storage.pvcRetention) = d.pvcRetention
  <2>1. o.storage.pvcRetention = If(d.pvcRetention = "retain", "retain")
    BY <1>1 DEF CR, Body
  <2>2. d.pvcRetention \in {"delete", "retain"} /\ Absent # "retain"
    BY AbsentAssumption DEF Draft, PVC_RETENTIONS
  <2> QED BY <2>1, <2>2 DEF If
<1>6. (IF o.runtime.runAsUser = 0 THEN <<"root">>
       ELSE <<o.runtime.user, o.runtime.runAsUser, o.runtime.runAsGroup, o.runtime.sudo>>)
        = IF d.runAsRoot THEN <<"root">>
          ELSE <<EffectiveUser(d), NumberOf[EffectiveUid(d)], NumberOf[EffectiveGid(d)], d.sudo>>
  <2>1. PICK s \in BOOLEAN : s = (~d.runAsRoot /\ d.sudo)
    OBVIOUS
  <2>2. /\ o.runtime = Runtime(b) /\ b.runtimeUser = If(~d.runAsRoot, EffectiveUser(d))
        /\ b.runAsUser = NumberOf[EffectiveUid(d)] /\ b.runAsGroup = NumberOf[EffectiveGid(d)] /\ b.sudo = s
    BY <1>1, <2>1 DEF CR, Body
  <2>3. Runtime(b).runAsUser = b.runAsUser
    BY DEF Runtime
  <2>4. CASE d.runAsRoot
    <3>1. b.runAsUser = 0
      BY <2>2, <2>4, NumberIs DEF EffectiveUid
    <3> QED BY <2>2, <2>3, <2>4, <3>1
  <2>5. CASE ~d.runAsRoot
    <3>1. b.runAsUser # 0
      BY <2>2, <2>5 DEF EffectiveUid
    <3>2. d.runtimeUser \in Accounts /\ EffectiveUser(d) = d.runtimeUser /\ d.sudo \in BOOLEAN
      BY <2>5 DEF Draft, EffectiveUser, Flag
    <3>3. b.runtimeUser = EffectiveUser(d) /\ b.runtimeUser # Absent
      BY <2>2, <2>5, <3>2, AbsentAssumption DEF If, Accounts
    <3>4. Runtime(b).user = b.runtimeUser /\ Runtime(b).runAsGroup = b.runAsGroup
      BY <3>1, <3>3 DEF Runtime
    <3>5. Runtime(b).sudo = d.sudo
      <4>1. Runtime(b).sudo = (b.runAsUser # 0 /\ b.sudo)
        BY DEF Runtime
      <4>2. s = d.sudo
        BY <2>1, <2>5, <3>2
      <4> QED BY <2>1, <2>2, <3>1, <4>1, <4>2
    <3> QED BY <2>2, <2>3, <2>5, <3>1, <3>3, <3>4, <3>5
  <2> QED BY <2>4, <2>5
<1>7. [i \in DOMAIN o.volumes |-> [pvcName |-> o.volumes[i].pvcName, mountPath |-> o.volumes[i].mountPath]] = FilledPvcs(d)
  <2>1. PICK vs : vs = FilledPvcs(d)
    OBVIOUS
  <2>2. d.pvcs \in Seq(PvcRow)
    BY DEF Draft, Pvcs
  <2>3. /\ vs = [i \in DOMAIN vs |-> vs[i]] /\ \A i \in DOMAIN vs : vs[i] \in PvcRow
    <3>1. /\ vs = [i \in DOMAIN vs |-> vs[i]]
          /\ DOMAIN vs \subseteq DOMAIN d.pvcs /\ \A i \in DOMAIN vs : vs[i] = d.pvcs[i]
      BY <2>1 DEF FilledPvcs, Restrict
    <3> QED BY <2>2, <3>1
  <2>4. /\ DOMAIN o.volumes = DOMAIN vs
        /\ \A i \in DOMAIN vs : o.volumes[i].pvcName = vs[i].pvcName /\ o.volumes[i].mountPath = vs[i].mountPath
    <3>1. b.volumes = vs
      BY <2>1 DEF Body
    <3> QED BY <1>1, <3>1 DEF CR
  <2>5. \A i \in DOMAIN vs : [pvcName |-> vs[i].pvcName, mountPath |-> vs[i].mountPath] = vs[i]
    BY <2>3 DEF PvcRow
  <2> QED BY <2>1, <2>3, <2>4, <2>5
<1>8. /\ (IF o.command = <<>> THEN Absent ELSE "run it") = OrAbsent(d.command)
      /\ (IF o.args = <<>> THEN Absent ELSE "run it") = OrAbsent(d.args)
  <2>1. ASSUME NEW line \in Commands, SplitArgs(OrAbsent(line)) # Absent
        PROVE  (IF SplitArgs(OrAbsent(line)) = <<>> THEN Absent ELSE "run it") = OrAbsent(line)
    <3>1. Absent # "run it"
      BY AbsentAssumption DEF Commands
    <3>2. <<"run", "it">> # <<>>
      OBVIOUS
    <3>3. CASE OrAbsent(line) = Absent
      BY <3>3 DEF SplitArgs
    <3>4. CASE OrAbsent(line) # Absent
      <4>1. OrAbsent(line) = "run it"
        BY <2>1, <3>4 DEF SplitArgs
      <4>2. SplitArgs("run it") = <<"run", "it">>
        BY <3>1 DEF SplitArgs
      <4> QED BY <3>2, <4>1, <4>2
    <3> QED BY <3>3, <3>4
  <2>2. /\ o.command = SplitArgs(b.command) /\ o.args = SplitArgs(b.args)
        /\ b.command = OrAbsent(d.command) /\ b.args = OrAbsent(d.args)
    BY <1>1 DEF CR, Body
  <2>3. d.command \in Commands /\ d.args \in Commands
    BY DEF Draft
  <2> QED BY <2>1, <2>2, <2>3
<1>9. [i \in DOMAIN o.ports |-> <<o.ports[i].name, o.ports[i].containerPort, o.ports[i].type>>]
        = [i \in DOMAIN FilledPorts(d) |-> LET r == FilledPorts(d)[i] IN <<r.name, NumberOf[r.port], r.type>>]
  <2>1. o.ports = b.ports
    BY <1>1 DEF CR
  <2>2. PICK rs : rs = FilledPorts(d)
    OBVIOUS
  <2>3. /\ DOMAIN b.ports = DOMAIN rs
        /\ \A i \in DOMAIN rs : b.ports[i] = [name |-> rs[i].name, containerPort |-> NumberOf[rs[i].port], type |-> rs[i].type]
    BY <2>2 DEF Body
  <2>4. \A i \in DOMAIN rs : <<o.ports[i].name, o.ports[i].containerPort, o.ports[i].type>>
                               = <<rs[i].name, NumberOf[rs[i].port], rs[i].type>>
    <3> SUFFICES ASSUME NEW i \in DOMAIN rs
                 PROVE  <<o.ports[i].name, o.ports[i].containerPort, o.ports[i].type>>
                          = <<rs[i].name, NumberOf[rs[i].port], rs[i].type>>
      OBVIOUS
    <3>1. PICK p : p = o.ports[i]
      OBVIOUS
    <3>2. p = [name |-> rs[i].name, containerPort |-> NumberOf[rs[i].port], type |-> rs[i].type]
      BY <2>1, <2>3, <3>1
    <3>3. p.name = rs[i].name /\ p.containerPort = NumberOf[rs[i].port] /\ p.type = rs[i].type
      BY <3>2
    <3> QED BY <3>1, <3>3
  <2> QED BY <2>1, <2>2, <2>3, <2>4
<1>10. (IF o.ssh = Absent THEN Absent ELSE IF o.ssh.authorizedKeys = Absent THEN "platform" ELSE "provided")
        = If(d.sshEnabled, IF d.sshKeys = Blank THEN "platform" ELSE "provided")
  <2>1. PICK on \in BOOLEAN : on = d.sshEnabled
    BY DEF Draft, Flag
  <2>2. d.sshKeys \in KeyTexts /\ d.sshKeys # Absent
    BY AbsentAssumption DEF Draft
  <2>3. /\ b.sshEnabled = on /\ b.sshKeys = If(on, OrAbsent(d.sshKeys))
        /\ o.ssh = If(b.sshEnabled, [enabled |-> TRUE, authorizedKeys |-> b.sshKeys])
    BY <1>1, <2>1 DEF Body, CR
  <2>4. CASE ~on
    BY <2>1, <2>3, <2>4 DEF If
  <2>5. CASE on
    <3>1. PICK yes \in {TRUE} : yes = TRUE
      OBVIOUS
    <3>2. o.ssh = [enabled |-> yes, authorizedKeys |-> OrAbsent(d.sshKeys)]
      BY <2>3, <2>5, <3>1 DEF If
    <3>3. o.ssh \in SshSpecs
      BY <2>2, <3>2 DEF SshSpecs, OrAbsent
    <3>4. o.ssh # Absent
      BY <3>3, AbsentAssumption
    <3>5. o.ssh.authorizedKeys = OrAbsent(d.sshKeys)
      BY <3>2
    <3> QED BY <2>1, <2>2, <2>5, <3>4, <3>5 DEF If, OrAbsent
  <2> QED BY <2>4, <2>5
<1>11. PICK gpu, kept, identity, pvcs, cmd, args, ports, ssh :
         /\ gpu = If(GpuRequested(d), <<d.gpuCount, d.accelerator, OrAbsent(d.gpuModel)>>)
         /\ kept = d.pvcRetention
         /\ identity = IF d.runAsRoot THEN <<"root">>
                       ELSE <<EffectiveUser(d), NumberOf[EffectiveUid(d)], NumberOf[EffectiveGid(d)], d.sudo>>
         /\ pvcs = FilledPvcs(d) /\ cmd = OrAbsent(d.command) /\ args = OrAbsent(d.args)
         /\ ports = [i \in DOMAIN FilledPorts(d) |-> LET r == FilledPorts(d)[i] IN <<r.name, NumberOf[r.port], r.type>>]
         /\ ssh = If(d.sshEnabled, IF d.sshKeys = Blank THEN "platform" ELSE "provided")
  OBVIOUS
<1> DEFINE Confirmed ==
      [name |-> d.name, namespace |-> EffectiveNamespace(d), type |-> d.type, image |-> d.image, gpu |-> gpu,
       cpu |-> d.cpu, memory |-> d.memory, storage |-> d.storageGi, pvcRetention |-> kept,
       idle |-> IdleTimeoutSeconds(d), identity |-> identity, mountPath |-> OrAbsent(d.mountPath), pvcs |-> pvcs,
       envs |-> FilledEnvs(d), command |-> cmd, args |-> args, ports |-> ports,
       rdma |-> If(d.rdmaEnabled, d.rdmaType), egress |-> d.egressUnrestricted, placement |-> OrAbsent(d.nodeName),
       ssh |-> ssh]
<1>12. SummaryRows(d) = Confirmed
  BY <1>11, Zenon DEF SummaryRows
<1>13. /\ gpu = (IF o.gpu = Absent THEN Absent ELSE <<o.gpu.count, o.gpu.vendor, o.gpu.model>>)
       /\ kept = (IF o.storage.pvcRetention = Absent THEN "delete" ELSE o.storage.pvcRetention)
       /\ identity = (IF o.runtime.runAsUser = 0 THEN <<"root">>
                      ELSE <<o.runtime.user, o.runtime.runAsUser, o.runtime.runAsGroup, o.runtime.sudo>>)
       /\ pvcs = [i \in DOMAIN o.volumes |-> [pvcName |-> o.volumes[i].pvcName, mountPath |-> o.volumes[i].mountPath]]
       /\ cmd = (IF o.command = <<>> THEN Absent ELSE "run it")
       /\ args = (IF o.args = <<>> THEN Absent ELSE "run it")
       /\ ports = [i \in DOMAIN o.ports |-> <<o.ports[i].name, o.ports[i].containerPort, o.ports[i].type>>]
       /\ ssh = (IF o.ssh = Absent THEN Absent ELSE IF o.ssh.authorizedKeys = Absent THEN "platform" ELSE "provided")
  BY <1>4, <1>5, <1>6, <1>7, <1>8, <1>9, <1>10, <1>11, Zenon
<1>14. Says(o) = Confirmed
  <2>1. Says(o) =
          [name |-> o.name, namespace |-> o.namespace, type |-> o.type, image |-> o.image, gpu |-> gpu,
           cpu |-> o.cpu, memory |-> o.memory, storage |-> o.storage.size, pvcRetention |-> kept,
           idle |-> o.idleTimeout, identity |-> identity, mountPath |-> o.storage.mountPath, pvcs |-> pvcs,
           envs |-> o.env, command |-> cmd, args |-> args, ports |-> ports, rdma |-> o.rdmaType,
           egress |-> o.egressUnrestricted, placement |-> o.nodeSelector, ssh |-> ssh]
    BY <1>13, Zenon DEF Says
  <2> QED BY <1>2, <1>3, <2>1
<1> QED BY <1>1, <1>12, <1>14, Zenon

-----------------------------------------------------------------------------
(* The environment wizard *)

EnvInv ==
  /\ Good(draft) /\ step \in 1 .. 4
  /\ RefusedOnlyByTheServer
  /\ ConfirmedIsCreated

LEMMA EnvInitial == FormInit => EnvInv
<1> SUFFICES ASSUME FormInit PROVE EnvInv
  OBVIOUS
<1>1. draft = Opened /\ step = 1 /\ reply = "none"
  BY DEF FormInit
<1>2. reply \in {"none", "created"} \cup ServersOwn /\ reply # "created"
  BY <1>1
<1> QED BY <1>1, <1>2, OpenedGood DEF EnvInv, RefusedOnlyByTheServer, ConfirmedIsCreated

LEMMA CreateStep ==
  ASSUME EnvInv, Create
  PROVE  EnvInv'
<1>1. draft \in Draft /\ MayCreate(draft)
  BY DEF EnvInv, Good, Create
<1>2. PICK existing \in SUBSET {<<"default", "env">>} :
        LET b == Body(draft)
            first == IF draft.newNamespace THEN RefuseNamespace(b.namespace) ELSE "none"
            refused == IF first # "none" THEN first
                       ELSE Refusal(b, NamespacesFor(draft), existing \cup EnvironmentsListed)
        IN  /\ reply' = IF refused = "none" THEN "created" ELSE refused
            /\ written' = IF refused = "none" THEN CR(b) ELSE written
  BY DEF Create
<1>3. PICK b, first, all, refused :
        /\ b = Body(draft)
        /\ first = IF draft.newNamespace THEN RefuseNamespace(b.namespace) ELSE "none"
        /\ all = Refusal(b, NamespacesFor(draft), existing \cup EnvironmentsListed)
        /\ refused = IF first # "none" THEN first ELSE all
  OBVIOUS
<1>4. /\ reply' = IF refused = "none" THEN "created" ELSE refused
      /\ written' = IF refused = "none" THEN CR(b) ELSE written
  BY <1>2, <1>3, Zenon
<1>5. draft' = draft /\ step' = step
  BY DEF Create
<1>6. first \in {"namespaceManaged", "none"}
  <2>1. draft.newNamespace => b.namespace \in DnsLabels
    <3>1. b.namespace = EffectiveNamespace(draft)
      BY <1>3 DEF Body
    <3> QED BY <1>1, <3>1 DEF MayCreate, Step1Valid, EffectiveNamespace
  <2> QED BY <1>3, <2>1, NamespaceRefusals
<1>7. /\ all \in ServersOwn \cup {"none"}
      /\ all = "none" => SplitArgs(b.command) # Absent /\ SplitArgs(b.args) # Absent
  BY <1>1, <1>3, Refusals
<1>8. refused \in ServersOwn \cup {"none"} /\ (refused = "none" => all = "none")
  BY <1>3, <1>6, <1>7 DEF ServersOwn
<1>9. RefusedOnlyByTheServer'
  BY <1>4, <1>8 DEF RefusedOnlyByTheServer
<1>10. ConfirmedIsCreated'
  <2> SUFFICES ASSUME reply' = "created", draft.runAsRoot \/ NumberOf[draft.runAsUser] # 0
               PROVE  Says(written') = SummaryRows(draft)
    BY <1>5 DEF ConfirmedIsCreated
  <2>1. refused = "none"
    BY <1>4, <1>8 DEF ServersOwn
  <2>2. written' = CR(b)
    BY <1>4, <2>1
  <2> QED BY <1>1, <1>3, <1>7, <1>8, <2>1, <2>2, SaysWhatWasConfirmed
<1>11. Good(draft') /\ step' \in 1 .. 4
  BY <1>5 DEF EnvInv
<1> QED BY <1>9, <1>10, <1>11 DEF EnvInv

LEMMA EnvStep ==
  ASSUME EnvInv, FormNext
  PROVE  EnvInv'
<1>1. CASE Edit
  <2>1. PICK section \in Sections[step] : \E e \in EditsOf(draft, section) : draft' = e
    BY <1>1 DEF Edit
  <2>2. PICK e \in EditsOf(draft, section) : draft' = e
    BY <2>1
  <2>3. Good(draft')
    BY <2>1, <2>2, EditGood DEF EnvInv
  <2>4. step' = step /\ reply' = reply /\ reply # "created"
    BY <1>1 DEF Edit
  <2> QED BY <2>3, <2>4 DEF EnvInv, RefusedOnlyByTheServer, ConfirmedIsCreated
<1>2. CASE NextStep \/ PrevStep
  <2>1. draft' = draft /\ reply' = reply /\ written' = written
    BY <1>2 DEF NextStep, PrevStep
  <2>2. step' \in 1 .. 4
    <3>1. \/ step < 4 /\ step' = step + 1
          \/ step > 1 /\ step' = step - 1
      BY <1>2, Zenon DEF NextStep, PrevStep
    <3> QED BY <3>1 DEF EnvInv
  <2> QED BY <2>1, <2>2 DEF EnvInv, RefusedOnlyByTheServer, ConfirmedIsCreated
<1>3. CASE Create
  BY <1>3, CreateStep
<1> QED BY <1>1, <1>2, <1>3 DEF FormNext

LEMMA EnvRests ==
  ASSUME EnvInv, UNCHANGED formVars
  PROVE  EnvInv'
BY DEF formVars, EnvInv, RefusedOnlyByTheServer, ConfirmedIsCreated

(* However many edits are made, in whatever order and in however many rows, and
   however often the user steps back: the draft of an environment never holds two
   fields at odds, the route refuses only what is the cluster's, the image's or the
   shell line's to refuse, and what it writes is what the confirm step described
   (the setters and gates of CreateWizard, the POST handler). *)
THEOREM EnvironmentsAsConfirmed == FormsSpec => []CreatedAsConfirmed
<1>1. FormsInit => EnvInv
  BY EnvInitial DEF FormsInit
<1>2. EnvInv /\ [FormsNext]_<<formVars, deployVars, catalogVars, paneVars>> => EnvInv'
  <2> SUFFICES ASSUME EnvInv, [FormsNext]_<<formVars, deployVars, catalogVars, paneVars>> PROVE EnvInv'
    OBVIOUS
  <2>1. FormNext \/ UNCHANGED formVars
    BY DEF FormsNext
  <2> QED BY <2>1, EnvStep, EnvRests
<1>3. EnvInv => CreatedAsConfirmed
  BY DEF EnvInv, CreatedAsConfirmed, Good, Coherent, DraftCoherent
<1> QED BY <1>1, <1>2, <1>3, PTL DEF FormsSpec

-----------------------------------------------------------------------------
(* The profiles a cluster lists *)

AllProfiles == ToSet(Profiles)

\* What the wizard relies on of a knob.
KnobOk(o) ==
  o.enum # <<>> => o.type = "string" /\ ~IsExtendedResources(o) /\ ~IsNodeSelector(o)

LEMMA TwoProfiles ==
  ASSUME NEW p \in AllProfiles
  PROVE  p = Profiles[1] \/ p = Profiles[2]
BY DEF AllProfiles, ToSet, Profiles

LEMMA ProfileNames ==
  /\ Profiles[1].name = "standard" /\ Profiles[2].name = "pd"
  /\ Profiles[1] \in AllProfiles /\ Profiles[2] \in AllProfiles
<1>1. DOMAIN Profiles = 1 .. 2
  BY DEF Profiles
<1>2. Profiles[1].name = "standard" /\ Profiles[2].name = "pd"
  BY DEF Profiles
<1> QED BY <1>1, <1>2 DEF AllProfiles, ToSet

LEMMA NamedIs ==
  ASSUME NEW p \in AllProfiles
  PROVE  ProfileNamed(p.name) = p
<1>1. \A q \in AllProfiles : q.name = p.name => q = p
  BY TwoProfiles, ProfileNames
<1> QED BY <1>1 DEF ProfileNamed, AllProfiles

LEMMA RolesOk ==
  ASSUME NEW p \in AllProfiles, NEW role \in ToSet(p.roles)
  PROVE  role.gpuPerPod \in 1 .. 4
<1>1. CASE p = Profiles[1]
  <2>1. p.roles = << [name |-> "worker", own |-> Absent, gpuPerPod |-> 4] >>
    BY <1>1 DEF Profiles
  <2> QED BY <2>1 DEF ToSet
<1>2. CASE p = Profiles[2]
  <2>1. p.roles = << [name |-> "prefill", own |-> Absent, gpuPerPod |-> 2],
                     [name |-> "decode", own |-> {"C550"}, gpuPerPod |-> 2] >>
    BY <1>2 DEF Profiles
  <2> QED BY <2>1 DEF ToSet
<1> QED BY <1>1, <1>2, TwoProfiles

LEMMA KnobIs ==
  ASSUME NEW role, NEW knob, NEW type, NEW default, NEW o, o = Knob(role, knob, type, default)
  PROVE  o.name = <<role, knob>> /\ o.role = role /\ o.knob = knob /\ o.type = type /\ o.enum = <<>> /\ o.default = default
BY DEF Knob

LEMMA ModelKnobIs ==
  ASSUME NEW role, NEW o, o = ModelKnob(role)
  PROVE  o.name = <<role, "metax_model">> /\ o.role = role /\ o.knob = "metax_model" /\ o.type = "string"
BY DEF Knob, ModelKnob

\* The knobs of a profile differ in their names, and only a model has an enum.
LEMMA StandardKnobs ==
  ASSUME NEW S, S = ToSet(Profiles[1].overrides)
  PROVE  /\ \A o \in S : KnobOk(o)
         /\ \A o, q \in S : o.name = q.name => o = q
<1>1. PICK a, b, c, d, e :
         /\ a = ModelKnob(Blank) /\ b = Knob(Blank, "replicas", "integer", Whole(1))
         /\ c = Knob(Blank, "nodeSelector", "stringList", <<>>)
         /\ d = Knob(Blank, "extendedResources", "string", <<>>)
         /\ e = Knob(Blank, "prefixCache", "boolean", Absent)
  OBVIOUS
<1>2. Profiles[1].overrides = <<a, b, c, d, e>>
  BY <1>1 DEF Profiles
<1>3. S = {a, b, c, d, e}
  BY <1>2 DEF ToSet
<1>4. a.name = <<Blank, "metax_model">> /\ a.type = "string" /\ a.knob = "metax_model"
  BY <1>1, ModelKnobIs
<1>5. b.name = <<Blank, "replicas">> /\ b.enum = <<>>
  BY <1>1, KnobIs
<1>6. c.name = <<Blank, "nodeSelector">> /\ c.enum = <<>>
  BY <1>1, KnobIs
<1>7. d.name = <<Blank, "extendedResources">> /\ d.enum = <<>>
  BY <1>1, KnobIs
<1>8. e.name = <<Blank, "prefixCache">> /\ e.enum = <<>>
  BY <1>1, KnobIs
<1>9. KnobOk(a) /\ KnobOk(b) /\ KnobOk(c) /\ KnobOk(d) /\ KnobOk(e)
  BY <1>4, <1>5, <1>6, <1>7, <1>8 DEF KnobOk, IsExtendedResources, IsNodeSelector
<1>10. a.name[2] = "metax_model" /\ b.name[2] = "replicas" /\ c.name[2] = "nodeSelector"
       /\ d.name[2] = "extendedResources" /\ e.name[2] = "prefixCache"
  BY <1>4, <1>5, <1>6, <1>7, <1>8
<1> QED BY <1>3, <1>9, <1>10

LEMMA PdKnobs ==
  ASSUME NEW S, S = ToSet(Profiles[2].overrides)
  PROVE  /\ \A o \in S : KnobOk(o)
         /\ \A o, q \in S : o.name = q.name => o = q
<1>1. PICK a, b, c, d, e :
         /\ a = ModelKnob("prefill") /\ b = ModelKnob("decode")
         /\ c = Knob("prefill", "nodeSelector", "string", <<>>)
         /\ d = Knob(Blank, "extendedResources", "stringList", <<>>)
         /\ e = Knob(Blank, "maxBatch", "integer", Absent)
  OBVIOUS
<1>2. Profiles[2].overrides = <<a, b, c, d, e>>
  BY <1>1 DEF Profiles
<1>3. S = {a, b, c, d, e}
  BY <1>2 DEF ToSet
<1>4. a.name = <<"prefill", "metax_model">> /\ a.type = "string" /\ a.knob = "metax_model"
  BY <1>1, ModelKnobIs
<1>5. b.name = <<"decode", "metax_model">> /\ b.type = "string" /\ b.knob = "metax_model"
  BY <1>1, ModelKnobIs
<1>6. c.name = <<"prefill", "nodeSelector">> /\ c.enum = <<>>
  BY <1>1, KnobIs
<1>7. d.name = <<Blank, "extendedResources">> /\ d.enum = <<>>
  BY <1>1, KnobIs
<1>8. e.name = <<Blank, "maxBatch">> /\ e.enum = <<>>
  BY <1>1, KnobIs
<1>9. KnobOk(a) /\ KnobOk(b) /\ KnobOk(c) /\ KnobOk(d) /\ KnobOk(e)
  BY <1>4, <1>5, <1>6, <1>7, <1>8 DEF KnobOk, IsExtendedResources, IsNodeSelector
<1>10. a.name[2] = "metax_model" /\ b.name[2] = "metax_model" /\ c.name[2] = "nodeSelector"
       /\ d.name[2] = "extendedResources" /\ e.name[2] = "maxBatch" /\ a.name[1] = "prefill" /\ b.name[1] = "decode"
  BY <1>4, <1>5, <1>6, <1>7, <1>8
<1> QED BY <1>3, <1>9, <1>10

LEMMA KnobsOk ==
  ASSUME NEW p \in AllProfiles
  PROVE  /\ \A o \in ToSet(p.overrides) : KnobOk(o)
         /\ \A o, q \in ToSet(p.overrides) : o.name = q.name => o = q
BY TwoProfiles, StandardKnobs, PdKnobs

-----------------------------------------------------------------------------
(* The draft of a service *)

DeployFields == {"name", "namespace", "newNamespace", "newNamespaceName", "profile", "modelRef", "overrides",
                 "aigatewayRouter", "modelName", "paths"}

\* A knob with an enum holds one of its values.
Listed(o, v) == o.enum # <<>> => v \in ToSet(o.enum)

\* The values are of knobs the profile declares.
Declares(p, values) ==
  \A k \in DOMAIN values : \E o \in ToSet(p.overrides) : k = o.name /\ Listed(o, values[k])

GoodDeploy(d) ==
  /\ DOMAIN d = DeployFields
  /\ d.newNamespace \in BOOLEAN /\ d.namespace = "default"
  /\ d.profile \in AllProfiles
  /\ d.modelRef \in {Blank} \cup CompatibleModels(d)
  /\ Declares(d.profile, d.overrides)
  /\ d.aigatewayRouter \in AIGATEWAY_ROUTERS
  /\ d.paths \subseteq CATALOG_PATHS /\ d.paths # {}

\* The fields an edit leaves alone keep what GoodDeploy says of them.
LEMMA SameDeployGood ==
  ASSUME NEW d, GoodDeploy(d), NEW e, DOMAIN e = DeployFields,
         e.newNamespace \in BOOLEAN, e.namespace = d.namespace, e.profile = d.profile, e.modelRef = d.modelRef,
         e.overrides = d.overrides, e.aigatewayRouter \in AIGATEWAY_ROUTERS,
         e.paths \subseteq CATALOG_PATHS, e.paths # {}
  PROVE  GoodDeploy(e)
<1>1. CompatibleModels(e) = CompatibleModels(d)
  BY DEF CompatibleModels
<1> QED BY <1>1 DEF GoodDeploy

LEMMA DeployOpenedGood == GoodDeploy(DeployOpened)
<1> DEFINE d == DeployOpened
<1>1. /\ DOMAIN d = DeployFields
      /\ d.newNamespace = FALSE /\ d.namespace = DefaultNamespaceOf /\ d.profile = Head(Profiles) /\ d.modelRef = Blank
      /\ d.overrides = NoOverrides /\ d.aigatewayRouter = "private" /\ d.paths = CATALOG_PATHS
  BY DEF DeployOpened, DeployFields
<1> HIDE DEF d
<1>2. d.profile \in AllProfiles
  <2>1. Head(Profiles) = Profiles[1]
    BY DEF Profiles
  <2> QED BY <1>1, <2>1, ProfileNames
<1>3. Declares(d.profile, d.overrides)
  BY <1>1 DEF Declares, NoOverrides
<1>4. "private" \in AIGATEWAY_ROUTERS /\ CATALOG_PATHS # {}
  BY DEF AIGATEWAY_ROUTERS, CATALOG_PATHS
<1>5. GoodDeploy(d)
  BY <1>1, <1>2, <1>3, <1>4, DefaultNamespace DEF GoodDeploy
<1> QED BY <1>5 DEF d

LEMMA DeployBasicsGood ==
  ASSUME NEW d, GoodDeploy(d), NEW e \in EditDeployBasics(d)
  PROVE  GoodDeploy(e)
<1>1. CASE \E n : e = SetName(d, n)
  <2>1. PICK n, m : e = [d EXCEPT !.name = n, !.modelName = m]
    BY <1>1 DEF SetName
  <2>2. DOMAIN d = DeployFields
    BY DEF GoodDeploy
  <2> QED BY <2>1, <2>2, SameDeployGood DEF GoodDeploy, DeployFields
<1>2. CASE e \in ChangeNamespace(d) \cup TypeNamespace(d)
  <2>1. \/ e = [d EXCEPT !.newNamespace = TRUE]
        \/ e = [d EXCEPT !.newNamespace = FALSE, !.namespace = "default"]
        \/ \E n : e = [d EXCEPT !.newNamespaceName = n]
    BY <1>2, DefaultNamespace DEF ChangeNamespace, TypeNamespace
  <2>2. DOMAIN d = DeployFields /\ d.namespace = "default"
    BY DEF GoodDeploy
  <2>3. /\ DOMAIN e = DeployFields /\ e.newNamespace \in {d.newNamespace, TRUE, FALSE} /\ e.namespace = d.namespace
        /\ e.profile = d.profile /\ e.modelRef = d.modelRef /\ e.overrides = d.overrides
        /\ e.aigatewayRouter = d.aigatewayRouter /\ e.paths = d.paths
    BY <2>1, <2>2 DEF DeployFields
  <2> QED BY <2>3, SameDeployGood DEF GoodDeploy
<1>3. CASE \E p \in ToSet(Profiles) : e = ChangeProfile(d, p)
  <2>1. PICK p \in AllProfiles : e = [d EXCEPT !.profile = p, !.modelRef = Blank, !.overrides = NoOverrides]
    BY <1>3 DEF ChangeProfile, AllProfiles
  <2>2. DOMAIN d = DeployFields
    BY DEF GoodDeploy
  <2>3. /\ DOMAIN e = DeployFields /\ e.newNamespace = d.newNamespace /\ e.namespace = d.namespace
        /\ e.profile = p /\ e.modelRef = Blank /\ e.overrides = NoOverrides
        /\ e.aigatewayRouter = d.aigatewayRouter /\ e.paths = d.paths
    BY <2>1, <2>2 DEF DeployFields
  <2>4. Declares(e.profile, e.overrides)
    BY <2>3 DEF Declares, NoOverrides
  <2> QED BY <2>3, <2>4 DEF GoodDeploy
<1> QED BY <1>1, <1>2, <1>3 DEF EditDeployBasics

LEMMA EditModelGood ==
  ASSUME NEW d, GoodDeploy(d), NEW e \in EditModel(d)
  PROVE  GoodDeploy(e)
<1>1. PICK m \in CompatibleModels(d) : e = [d EXCEPT !.modelRef = m]
  BY DEF EditModel
<1>2. DOMAIN d = DeployFields
  BY DEF GoodDeploy
<1>3. /\ DOMAIN e = DeployFields /\ e.newNamespace = d.newNamespace /\ e.namespace = d.namespace
      /\ e.profile = d.profile /\ e.modelRef = m /\ e.overrides = d.overrides
      /\ e.aigatewayRouter = d.aigatewayRouter /\ e.paths = d.paths
  BY <1>1, <1>2 DEF DeployFields
<1>4. CompatibleModels(e) = CompatibleModels(d)
  BY <1>3 DEF CompatibleModels
<1> QED BY <1>3, <1>4 DEF GoodDeploy

LEMMA EditRouteGood ==
  ASSUME NEW d, GoodDeploy(d), NEW e \in EditRoute(d)
  PROVE  GoodDeploy(e)
<1> DEFINE Some == (SUBSET CATALOG_PATHS) \ {{}}
<1>0. ASSUME NEW ps \in Some PROVE ps \subseteq CATALOG_PATHS /\ ps # {}
  <2>1. ps \in SUBSET CATALOG_PATHS /\ ps \notin {{}}
    BY Zenon
  <2>2. ps # {}
    BY <2>1, Zenon
  <2> QED BY <2>1, <2>2
<1>1. \/ \E m : e = [d EXCEPT !.modelName = m]
      \/ \E r \in AIGATEWAY_ROUTERS : e = [d EXCEPT !.aigatewayRouter = r]
      \/ \E ps \in Some : e = [d EXCEPT !.paths = ps]
  BY DEF EditRoute
<1> HIDE DEF Some
<1>2. DOMAIN d = DeployFields
  BY DEF GoodDeploy
<1>3. /\ DOMAIN e = DeployFields /\ e.newNamespace = d.newNamespace /\ e.namespace = d.namespace
      /\ e.profile = d.profile /\ e.modelRef = d.modelRef /\ e.overrides = d.overrides
      /\ e.aigatewayRouter \in AIGATEWAY_ROUTERS \cup {d.aigatewayRouter}
      /\ e.paths \in Some \cup {d.paths}
  BY <1>1, <1>2 DEF DeployFields
<1>4. /\ d.newNamespace \in BOOLEAN /\ d.aigatewayRouter \in AIGATEWAY_ROUTERS
      /\ d.paths \subseteq CATALOG_PATHS /\ d.paths # {}
  BY DEF GoodDeploy
<1>5. /\ e.newNamespace \in BOOLEAN /\ e.aigatewayRouter \in AIGATEWAY_ROUTERS
      /\ e.paths \subseteq CATALOG_PATHS /\ e.paths # {}
  BY <1>0, <1>3, <1>4
<1> QED BY <1>3, <1>5, SameDeployGood

\* A fabric is offered for no knob but one of extended resources.
LEMMA NoFabrics ==
  ASSUME NEW d, NEW o, ~IsExtendedResources(o)
  PROVE  RdmaFabrics(d, o) = {} /\ AutoOverrideValue(d, o) = Absent
<1>1. RdmaFabrics(d, o) = {}
  BY DEF RdmaFabrics
<1>2. PreferredFabric({}) = Absent
  BY DEF PreferredFabric
<1> QED BY <1>1, <1>2 DEF AutoOverrideValue, If

LEMMA EditOverridesGood ==
  ASSUME NEW d, GoodDeploy(d), NEW e \in EditOverrides(d)
  PROVE  GoodDeploy(e)
<1>1. PICK o \in Knobs(d) : \E v \in OverrideInput(d, o) : e = SetOverride(d, o, v)
  BY DEF EditOverrides
<1>2. PICK v \in OverrideInput(d, o) : e = SetOverride(d, o, v)
  BY <1>1
<1>3. Listed(o, v)
  <2> SUFFICES ASSUME o.enum # <<>> PROVE v \in ToSet(o.enum)
    BY DEF Listed
  <2>1. o.type = "string" /\ ~IsExtendedResources(o) /\ ~IsNodeSelector(o)
    BY KnobsOk DEF KnobOk, Knobs, GoodDeploy
  <2>2. RdmaFabrics(d, o) = {}
    BY <2>1, NoFabrics
  <2> QED BY <1>2, <2>1, <2>2 DEF OverrideInput, InputChoices
<1>4. PICK was, new : was = d.overrides /\ new = [k \in DOMAIN was \cup {o.name} |-> IF k = o.name THEN v ELSE was[k]]
  OBVIOUS
<1>5. e = [d EXCEPT !.overrides = new]
  BY <1>2, <1>4 DEF SetOverride
<1>6. DOMAIN d = DeployFields
  BY DEF GoodDeploy
<1>7. /\ DOMAIN e = DeployFields /\ e.newNamespace = d.newNamespace /\ e.namespace = d.namespace
      /\ e.profile = d.profile /\ e.modelRef = d.modelRef /\ e.overrides = new
      /\ e.aigatewayRouter = d.aigatewayRouter /\ e.paths = d.paths
  BY <1>5, <1>6 DEF DeployFields
<1>8. CompatibleModels(e) = CompatibleModels(d)
  BY <1>7 DEF CompatibleModels
<1>9. Declares(d.profile, new)
  <2> SUFFICES ASSUME NEW k \in DOMAIN new
               PROVE  \E q \in ToSet(d.profile.overrides) : k = q.name /\ Listed(q, new[k])
    BY DEF Declares
  <2>1. CASE k = o.name
    BY <1>3, <1>4, <2>1 DEF Knobs
  <2>2. CASE k # o.name
    <3>1. k \in DOMAIN was /\ new[k] = was[k]
      BY <1>4, <2>2
    <3> QED BY <1>4, <3>1 DEF GoodDeploy, Declares
  <2> QED BY <2>1, <2>2
<1> QED BY <1>7, <1>8, <1>9 DEF GoodDeploy

-----------------------------------------------------------------------------
(* The request and the route that answers it *)

DeployServersOwn == {"namespaceManaged", "nameTaken", "overrideNotInteger", "overrideBelowMin", "overrideAboveMax",
                     "routeModelNameInvalid"}

\* What is sent for a knob: the fabric the wizard chose, else what the user set.
LEMMA SentIs ==
  ASSUME NEW d, GoodDeploy(d), NEW s, s = SentOverrides(d), NEW o \in Knobs(d)
  PROVE  /\ o.name \in DOMAIN s <=> Held(d, o) \/ AutoOverrideValue(d, o) # Absent
         /\ AutoOverrideValue(d, o) # Absent => s[o.name] = AutoOverrideValue(d, o)
         /\ AutoOverrideValue(d, o) = Absent /\ Held(d, o) => s[o.name] = d.overrides[o.name]
<1>1. PICK auto : auto = [q \in Knobs(d) |-> AutoOverrideValue(d, q)]
  OBVIOUS
<1>2. PICK names : names = {q.name : q \in {k \in Knobs(d) : auto[k] # Absent}}
  OBVIOUS
<1>3. s = [n \in DOMAIN d.overrides \cup names |->
             IF n \in names THEN auto[CHOOSE q \in Knobs(d) : q.name = n] ELSE d.overrides[n]]
  BY <1>1, <1>2, Zenon DEF SentOverrides
<1>4. \A q \in Knobs(d) : q.name = o.name => q = o
  BY KnobsOk DEF Knobs, GoodDeploy
<1>5. (CHOOSE q \in Knobs(d) : q.name = o.name) = o
  BY <1>4
<1>6. o.name \in names <=> AutoOverrideValue(d, o) # Absent
  BY <1>1, <1>2, <1>4
<1>7. Held(d, o) <=> o.name \in DOMAIN d.overrides
  BY DEF Held
<1> QED BY <1>1, <1>3, <1>5, <1>6, <1>7

LEMMA SentDeclared ==
  ASSUME NEW d, GoodDeploy(d), NEW s, s = SentOverrides(d)
  PROVE  \A k \in DOMAIN s : \E o \in Knobs(d) : k = o.name /\ Listed(o, s[k])
<1> SUFFICES ASSUME NEW k \in DOMAIN s PROVE \E o \in Knobs(d) : k = o.name /\ Listed(o, s[k])
  OBVIOUS
<1>1. \E o \in Knobs(d) : k = o.name
  <2>1. PICK auto : auto = [q \in Knobs(d) |-> AutoOverrideValue(d, q)]
    OBVIOUS
  <2>2. PICK names : names = {q.name : q \in {r \in Knobs(d) : auto[r] # Absent}}
    OBVIOUS
  <2>3. s = [n \in DOMAIN d.overrides \cup names |->
               IF n \in names THEN auto[CHOOSE q \in Knobs(d) : q.name = n] ELSE d.overrides[n]]
    BY <2>1, <2>2, Zenon DEF SentOverrides
  <2>4. k \in DOMAIN d.overrides \cup names
    BY <2>3
  <2>5. k \in names => \E o \in Knobs(d) : k = o.name
    BY <2>2
  <2> QED BY <2>4, <2>5 DEF GoodDeploy, Declares, Knobs
<1>2. PICK o \in Knobs(d) : k = o.name
  BY <1>1
<1>3. ASSUME o.enum # <<>> PROVE s[k] \in ToSet(o.enum)
  <2>1. ~IsExtendedResources(o)
    BY <1>3, KnobsOk DEF KnobOk, Knobs, GoodDeploy
  <2>2. AutoOverrideValue(d, o) = Absent
    BY <2>1, NoFabrics
  <2>3. Held(d, o) /\ s[k] = d.overrides[k]
    BY <1>2, <2>2, SentIs
  <2>4. PICK q \in Knobs(d) : k = q.name /\ Listed(q, d.overrides[k])
    BY <2>3, <1>2 DEF GoodDeploy, Declares, Knobs, Held
  <2>5. q = o
    BY <1>2, <2>4, KnobsOk DEF Knobs, GoodDeploy
  <2> QED BY <1>3, <2>3, <2>4, <2>5 DEF Listed
<1> QED BY <1>2, <1>3 DEF Listed

RangeCodes == {"overrideNotInteger", "overrideBelowMin", "overrideAboveMax"}

LEMMA FaultIs ==
  ASSUME NEW o, KnobOk(o), NEW v, Listed(o, v)
  PROVE  OverrideFault(o, v) \in RangeCodes \cup {"none"}
<1>1. CASE o.type = "stringList"
  <2>1. o.enum = <<>>
    BY <1>1 DEF KnobOk
  <2>2. OverrideFault(o, v) = FirstOf(<<"none">>)
    BY <1>1, <2>1 DEF OverrideFault, Code
  <2>3. FirstOf(<<"none">>) = "none"
    BY FirstOfIs DEF Answers
  <2> QED BY <2>2, <2>3
<1>2. CASE o.type # "stringList"
  <2>1. PICK a, b, c : /\ a = Code(o.type = "integer" /\ Head(v).key # "int", "overrideNotInteger")
                       /\ b = Code(o.type = "integer" /\ Head(v).num < o.min, "overrideBelowMin")
                       /\ c = Code(o.type = "integer" /\ Head(v).num > o.max, "overrideAboveMax")
    OBVIOUS
  <2>2. Code(o.enum # <<>> /\ v \notin ToSet(o.enum), "overrideNotAllowed") = "none"
    BY DEF Code, Listed
  <2>3. PICK t : t = <<a, "none", b, c>>
    OBVIOUS
  <2>4. OverrideFault(o, v) = FirstOf(t)
    BY <1>2, <2>1, <2>2, <2>3 DEF OverrideFault
  <2>5. {a, b, c} \subseteq RangeCodes \cup {"none"}
    BY <2>1 DEF Code, RangeCodes
  <2>6. DOMAIN t \subseteq Nat /\ \A i \in DOMAIN t : t[i] \in RangeCodes \cup {"none"}
    BY <2>3, <2>5
  <2> QED BY <2>4, <2>6, FirstOfIn
<1> QED BY <1>1, <1>2

LEMMA OverrideErrorsAre ==
  ASSUME NEW d, GoodDeploy(d), NEW s, s = SentOverrides(d)
  PROVE  OverrideErrors(s, d.profile) \subseteq RangeCodes
<1> SUFFICES ASSUME NEW c \in OverrideErrors(s, d.profile) PROVE c \in RangeCodes
  OBVIOUS
<1>1. PICK k \in DOMAIN s : /\ c = IF {o \in Knobs(d) : o.name = k} = {} THEN "overrideUnknown"
                                   ELSE OverrideFault(CHOOSE o \in {q \in Knobs(d) : q.name = k} : TRUE, s[k])
                            /\ c # "none"
  BY Zenon DEF OverrideErrors, Knobs
<1>2. PICK o \in Knobs(d) : k = o.name /\ Listed(o, s[k])
  BY SentDeclared
<1>3. (CHOOSE q \in {r \in Knobs(d) : r.name = k} : TRUE) = o
  <2>1. {r \in Knobs(d) : r.name = k} = {o}
    BY <1>2, KnobsOk DEF Knobs, GoodDeploy
  <2> QED BY <2>1
<1>4. c = OverrideFault(o, s[k])
  BY <1>1, <1>2, <1>3
<1>5. KnobOk(o)
  BY KnobsOk DEF Knobs, GoodDeploy
<1> QED BY <1>1, <1>2, <1>4, <1>5, FaultIs

LEMMA RouteRefusals ==
  ASSUME NEW r, r.aigatewayRouter \in AIGATEWAY_ROUTERS, r.paths \subseteq CATALOG_PATHS, r.paths # {}
  PROVE  RefuseRoute(r) \in {"routeModelNameInvalid", "none"}
<1>1. PICK c : c = Code(r.modelName \in {Blank, "bad name"}, "routeModelNameInvalid")
  OBVIOUS
<1>2. PICK t : t = <<"none", c, "none", "none">>
  OBVIOUS
<1>3. RefuseRoute(r) = FirstOf(t)
  BY <1>1, <1>2 DEF RefuseRoute, Code
<1>4. c \in {"routeModelNameInvalid", "none"}
  BY <1>1 DEF Code
<1>5. DOMAIN t \subseteq Nat /\ \A i \in DOMAIN t : t[i] \in {"routeModelNameInvalid"} \cup {"none"}
  BY <1>2, <1>4
<1>6. FirstOf(t) \in {"routeModelNameInvalid"} \cup {"none"}
  BY <1>5, FirstOfIn
<1> QED BY <1>3, <1>6

LEMMA RefsRefusals ==
  ASSUME NEW d, GoodDeploy(d), DeployStep1Valid(d), DeployStep2Valid(d), NEW b, b = DeployBody(d), NEW existing
  PROVE  RefuseRefs(b, NamespacesFor(d), existing) \in {"nameTaken", "none"}
<1>1. b.name = d.name /\ b.namespace = EffectiveNamespace(d) /\ b.profileRef = d.profile.name /\ b.modelRef = d.modelRef
  BY DEF DeployBody
<1>2. b.name \in DnsLabels /\ b.namespace # Blank /\ b.modelRef # Blank
  BY <1>1 DEF DeployStep1Valid, DeployStep2Valid
<1>3. b.profileRef # Blank
  <2>1. Blank \notin {"standard", "pd"}
    BY Zenon DEF Blank
  <2> QED BY <1>1, <2>1, TwoProfiles, ProfileNames DEF GoodDeploy
<1>4. b.namespace \in NamespacesFor(d)
  BY <1>1 DEF GoodDeploy, EffectiveNamespace, NamespacesFor, Namespaces
<1>5. \E p \in ToSet(Profiles) : p.name = b.profileRef
  BY <1>1 DEF GoodDeploy, AllProfiles
<1>6. PICK m \in ModelVersions : m.name = b.modelRef /\ Suits(d.profile, m)
  BY <1>1, <1>2 DEF GoodDeploy, CompatibleModels
<1>7. ProfileNamed(b.profileRef) = d.profile
  BY <1>1, NamedIs DEF GoodDeploy
<1>8. PICK c : c = Code(<<b.namespace, b.name>> \in existing, "nameTaken")
  OBVIOUS
<1>9. PICK t : t = <<"none", "none", "none", "none", "none", "none", c>>
  OBVIOUS
<1>10. RefuseRefs(b, NamespacesFor(d), existing) = FirstOf(t)
  <2>1. /\ Code(b.name \notin DnsLabels, "nameInvalid") = "none"
        /\ Code(Blank \in {b.namespace, b.profileRef, b.modelRef}, "refsRequired") = "none"
        /\ Code(b.namespace \notin NamespacesFor(d), "namespaceMissing") = "none"
    BY <1>2, <1>3, <1>4 DEF Code
  <2>2. Code(\A p \in ToSet(Profiles) : p.name # b.profileRef, "profileMissing") = "none"
    BY <1>5 DEF Code
  <2>3. Code(\A q \in ModelVersions : q.name # b.modelRef, "modelMissing") = "none"
    BY <1>6 DEF Code
  <2>4. Code(\A q \in ModelVersions : q.name = b.modelRef => ~Suits(ProfileNamed(b.profileRef), q), "modelProfileIncompatible") = "none"
    BY <1>6, <1>7 DEF Code
  <2> QED BY <1>8, <1>9, <2>1, <2>2, <2>3, <2>4 DEF RefuseRefs
<1>11. c \in {"nameTaken", "none"}
  BY <1>8 DEF Code
<1>12. DOMAIN t \subseteq Nat /\ \A i \in DOMAIN t : t[i] \in {"nameTaken"} \cup {"none"}
  BY <1>9, <1>11
<1>13. FirstOf(t) \in {"nameTaken"} \cup {"none"}
  BY <1>12, FirstOfIn
<1> QED BY <1>10, <1>13

-----------------------------------------------------------------------------
(* Sums over the nodes of a pool, by induction on how many there are *)

\* A set of numbers with zero and the successor of each of its own is all of them.
LEMMA Counting ==
  ASSUME NEW T, 0 \in T, \A n \in Nat : n \in T => n + 1 \in T
  PROVE  \A n \in Nat : n \in T
<1> DEFINE I == {n \in Nat : n \notin T}
<1> DEFINE R == OpToRel(<, Nat)
<1> SUFFICES ASSUME I # {} PROVE FALSE
  OBVIOUS
<1>1. PICK x \in I : \A y \in I : ~(<<y, x>> \in R)
  <2> IsWellFoundedOn(R, Nat)
    BY NatLessThanWellFounded DEF R
  <2> I \subseteq Nat
    OBVIOUS
  <2> HIDE DEF R, I
  <2> QED BY WFMin
<1>2. x \in Nat /\ x # 0 /\ x \notin T
  OBVIOUS
<1>3. x - 1 \in Nat /\ x - 1 < x
  BY <1>2
<1>4. x - 1 \notin I
  BY <1>1, <1>2, <1>3 DEF OpToRel
<1>5. x - 1 + 1 \in T
  BY <1>3, <1>4
<1> QED BY <1>2, <1>5

OneOf(s) == CHOOSE x \in s : TRUE
Sums(w, S, f) == f = [s \in SUBSET S |-> IF s = {} THEN 0 ELSE w[OneOf(s)] + f[s \ {OneOf(s)}]]

LEMMA SumIs ==
  ASSUME NEW w, NEW S, NEW f, Sums(w, S, f)
  PROVE  \E g : Sums(w, S, g) /\ SumFunctionOnSet(w, S) = g[S]
<1>1. SumFunctionOnSet(w, S) = (CHOOSE g : Sums(w, S, g))[S]
  BY Zenon DEF SumFunctionOnSet, FoldFunctionOnSet, MapThenFoldSet, Sums, OneOf
<1> QED BY <1>1

LEMMA Taken ==
  ASSUME NEW S, IsFiniteSet(S), NEW s \in SUBSET S, s # {}
  PROVE  /\ OneOf(s) \in s /\ OneOf(s) \in S /\ s \ {OneOf(s)} \in SUBSET S
         /\ IsFiniteSet(s) /\ Cardinality(s) \in Nat /\ Cardinality(s) # 0
         /\ Cardinality(s \ {OneOf(s)}) = Cardinality(s) - 1
<1>1. OneOf(s) \in s
  BY DEF OneOf
<1>2. IsFiniteSet(s)
  BY FS_Subset
<1>3. Cardinality(s \ {OneOf(s)}) = Cardinality(s) - 1
  BY <1>1, <1>2, FS_RemoveElement
<1>4. Cardinality(s) \in Nat /\ Cardinality(s) # 0
  BY <1>2, FS_CardinalityType, FS_EmptySet
<1> QED BY <1>1, <1>2, <1>3, <1>4

LEMMA NoneLeft ==
  ASSUME NEW S, IsFiniteSet(S), NEW s \in SUBSET S, Cardinality(s) <= 0
  PROVE  s = {}
<1> SUFFICES ASSUME s # {} PROVE FALSE
  OBVIOUS
<1>1. Cardinality(s) \in Nat /\ Cardinality(s) # 0
  BY Taken
<1> QED BY <1>1

LEMMA SumsExist ==
  ASSUME NEW S, IsFiniteSet(S), NEW w \in [S -> Nat]
  PROVE  \E f : Sums(w, S, f)
<1> DEFINE Value(f, s) == IF s = {} THEN 0 ELSE w[OneOf(s)] + f[s \ {OneOf(s)}]
<1> DEFINE Upto(n) == {s \in SUBSET S : Cardinality(s) <= n}
<1> DEFINE T == {n \in Nat : \E f \in [SUBSET S -> Nat] : \A s \in Upto(n) : f[s] = Value(f, s)}
<1>1. 0 \in T
  <2> DEFINE f == [s \in SUBSET S |-> 0]
  <2>1. \A s \in Upto(0) : s = {}
    BY NoneLeft
  <2>2. \A s \in Upto(0) : f[s] = Value(f, s)
    BY <2>1
  <2>3. f \in [SUBSET S -> Nat]
    OBVIOUS
  <2> HIDE DEF f
  <2> QED BY <2>2, <2>3
<1>2. ASSUME NEW n \in Nat, n \in T PROVE n + 1 \in T
  <2>1. PICK f \in [SUBSET S -> Nat] : \A s \in Upto(n) : f[s] = Value(f, s)
    BY <1>2
  <2> DEFINE g == [s \in SUBSET S |-> Value(f, s)]
  <2>2. g \in [SUBSET S -> Nat]
    <3> SUFFICES ASSUME NEW s \in SUBSET S PROVE Value(f, s) \in Nat
      OBVIOUS
    <3>1. CASE s = {}
      BY <3>1
    <3>2. CASE s # {}
      <4>1. OneOf(s) \in S /\ s \ {OneOf(s)} \in SUBSET S
        BY <3>2, Taken
      <4>2. w[OneOf(s)] \in Nat /\ f[s \ {OneOf(s)}] \in Nat
        BY <4>1
      <4> QED BY <3>2, <4>2
    <3> QED BY <3>1, <3>2
  <2>3. ASSUME NEW s \in Upto(n + 1) PROVE g[s] = Value(g, s)
    <3>1. CASE s = {}
      BY <3>1
    <3>2. CASE s # {}
      <4> DEFINE r == s \ {OneOf(s)}
      <4>1. r \in SUBSET S /\ Cardinality(s) \in Nat /\ Cardinality(r) = Cardinality(s) - 1
        BY <3>2, Taken
      <4>2. r \in Upto(n)
        BY <4>1
      <4>3. f[r] = g[r]
        BY <2>1, <4>1, <4>2
      <4> QED BY <3>2, <4>3
    <3> QED BY <3>1, <3>2
  <2>4. \E h \in [SUBSET S -> Nat] : \A s \in Upto(n + 1) : h[s] = Value(h, s)
    <3> HIDE DEF g, Value, Upto
    <3> QED BY <2>2, <2>3
  <2>5. n + 1 \in Nat
    OBVIOUS
  <2> HIDE DEF Upto, Value
  <2> QED BY <2>4, <2>5
<1>3. Cardinality(S) \in Nat
  BY FS_CardinalityType
<1>4. Cardinality(S) \in T
  <2> HIDE DEF T
  <2> QED BY <1>1, <1>2, <1>3, Counting
<1>5. PICK f \in [SUBSET S -> Nat] : \A s \in Upto(Cardinality(S)) : f[s] = Value(f, s)
  BY <1>4
<1>6. \A s \in SUBSET S : f[s] = Value(f, s)
  <2> SUFFICES ASSUME NEW s \in SUBSET S PROVE s \in Upto(Cardinality(S))
    BY <1>5
  <2> QED BY FS_Subset
<1>7. f = [s \in SUBSET S |-> Value(f, s)]
  BY <1>6
<1> QED BY <1>7 DEF Sums

\* What a sum bounds element by element it bounds as a whole.
LEMMA SumsCompare ==
  ASSUME NEW S, IsFiniteSet(S), NEW v \in [S -> Nat], NEW w \in [S -> Nat], NEW p \in Nat,
         \A x \in S : v[x] * p <= w[x],
         NEW f, Sums(v, S, f), NEW g, Sums(w, S, g)
  PROVE  f[S] \in Nat /\ g[S] \in Nat /\ f[S] * p <= g[S]
<1> DEFINE Holds(s) == f[s] \in Nat /\ g[s] \in Nat /\ f[s] * p <= g[s]
<1> DEFINE T == {n \in Nat : \A s \in SUBSET S : Cardinality(s) <= n => Holds(s)}
<1>0. \A s \in SUBSET S : /\ f[s] = IF s = {} THEN 0 ELSE v[OneOf(s)] + f[s \ {OneOf(s)}]
                          /\ g[s] = IF s = {} THEN 0 ELSE w[OneOf(s)] + g[s \ {OneOf(s)}]
  BY DEF Sums
<1>1. 0 \in T
  <2> SUFFICES ASSUME NEW s \in SUBSET S, Cardinality(s) <= 0 PROVE Holds(s)
    OBVIOUS
  <2>1. s = {}
    BY NoneLeft
  <2>2. f[s] = 0 /\ g[s] = 0
    BY <1>0, <2>1
  <2> QED BY <2>2
<1>2. ASSUME NEW n \in Nat, n \in T PROVE n + 1 \in T
  <2> SUFFICES ASSUME NEW s \in SUBSET S, Cardinality(s) <= n + 1 PROVE Holds(s)
    OBVIOUS
  <2>1. CASE s = {}
    <3>1. f[s] = 0 /\ g[s] = 0
      BY <1>0, <2>1
    <3> QED BY <3>1
  <2>2. CASE s # {}
    <3> DEFINE r == s \ {OneOf(s)}
    <3>1. r \in SUBSET S /\ Cardinality(s) \in Nat /\ Cardinality(r) = Cardinality(s) - 1 /\ OneOf(s) \in S
      BY <2>2, Taken
    <3>2. Holds(r)
      BY <1>2, <3>1
    <3>3. f[s] = v[OneOf(s)] + f[r] /\ g[s] = w[OneOf(s)] + g[r]
      BY <1>0, <2>2
    <3>4. PICK a \in Nat, b \in Nat, c \in Nat, d \in Nat :
             /\ a = v[OneOf(s)] /\ b = w[OneOf(s)] /\ c = f[r] /\ d = g[r]
             /\ a * p <= b /\ c * p <= d
      BY <3>1, <3>2
    <3>5. (a + c) * p = a * p + c * p /\ a * p \in Nat /\ c * p \in Nat
      OBVIOUS
    <3> QED BY <3>3, <3>4, <3>5
  <2> QED BY <2>1, <2>2
<1>3. Cardinality(S) \in Nat
  BY FS_CardinalityType
<1>4. Cardinality(S) \in T
  <2> HIDE DEF T
  <2> QED BY <1>1, <1>2, <1>3, Counting
<1> QED BY <1>3, <1>4

LEMMA SumCompare ==
  ASSUME NEW S, IsFiniteSet(S), NEW v \in [S -> Nat], NEW w \in [S -> Nat], NEW p \in Nat,
         \A x \in S : v[x] * p <= w[x]
  PROVE  /\ SumFunctionOnSet(v, S) \in Nat /\ SumFunctionOnSet(w, S) \in Nat
         /\ SumFunctionOnSet(v, S) * p <= SumFunctionOnSet(w, S)
<1>1. PICK f : Sums(v, S, f) /\ SumFunctionOnSet(v, S) = f[S]
  BY SumsExist, SumIs
<1>2. PICK g : Sums(w, S, g) /\ SumFunctionOnSet(w, S) = g[S]
  BY SumsExist, SumIs
<1> QED BY <1>1, <1>2, SumsCompare

\* A share rounded down, times no more pods than the cards hold, is no more than there is.
LEMMA ShareFits ==
  ASSUME NEW k \in Nat, NEW g \in Nat, NEW r \in Nat, NEW p \in Nat, p > 0, g > 0, k * p <= g
  PROVE  ((r * p) \div g) \in Nat /\ k * ((r * p) \div g) <= r
<1>1. PICK v \in Nat : v = (r * p) \div g /\ v * g <= r * p
  <2>1. r * p \in Nat
    OBVIOUS
  <2> QED BY <2>1
<1>2. (k * p) * v <= g * v
  OBVIOUS
<1>3. (k * v) * p <= r * p
  BY <1>1, <1>2
<1>4. k * v <= r
  BY <1>3
<1> QED BY <1>1, <1>4

LEMMA PartsFit ==
  ASSUME NEW g \in Nat, NEW p \in Nat, p > 0
  PROVE  g \div p \in Nat /\ (g \div p) * p <= g
OBVIOUS

\* The counts the wizard injects are counts the pool can give.
LEMMA SharesFit ==
  ASSUME NEW d, GoodDeploy(d), IsFiniteSet(nodes), \A n \in nodes : NodeOk(n),
         NEW o \in Knobs(d), NEW f \in RdmaFabrics(d, o), NEW per \in PerPod(d, o),
         NEW pool, pool = Offering(d, o, f.id)
  PROVE  SumFunction([n \in pool |-> n.gpu \div per]) * f.value <= SumFunction([n \in pool |-> n[f.id]])
<1>1. Cardinality(PerPod(d, o)) = 1
  BY DEF RdmaFabrics
<1>2. PICK id \in Fabrics, q \in PerPod(d, o) : f = [id |-> id, value |-> PoolShare(Offering(d, o, id), id, q)]
  BY DEF RdmaFabrics
<1>3. q = per
  <2>1. PerPod(d, o) \subseteq 1 .. 4
    BY RolesOk DEF PerPod, FedRoles, Roles, GoodDeploy
  <2>2. IsFiniteSet(PerPod(d, o))
    BY <2>1, FS_Interval, FS_Subset
  <2> QED BY <1>1, <2>2, FS_Singleton
<1>4. f.id = id /\ f.value = PoolShare(pool, id, per)
  BY <1>2, <1>3
<1>5. per \in Nat /\ per > 0
  BY RolesOk DEF PerPod, FedRoles, Roles, GoodDeploy
<1>6. pool \subseteq nodes
  BY DEF Offering, Eligible, AllNodes
<1>7. IsFiniteSet(pool)
  BY <1>6, FS_Subset
<1>8. \A n \in pool : n.gpu \in Nat /\ n[id] \in Nat
  <2> SUFFICES ASSUME NEW n \in pool PROVE n.gpu \in Nat /\ n[id] \in Nat
    OBVIOUS
  <2>1. n.gpu \in Nat /\ n.infiniband \in Nat /\ n.roce \in Nat
    BY <1>6 DEF NodeOk
  <2> QED BY <2>1 DEF Fabrics
<1>9. PICK cards, parts, devices : /\ cards = [n \in pool |-> n.gpu] /\ parts = [n \in pool |-> n.gpu \div per]
                                   /\ devices = [n \in pool |-> n[id]]
  OBVIOUS
<1>10. cards \in [pool -> Nat] /\ devices \in [pool -> Nat]
  BY <1>8, <1>9
<1>11. parts \in [pool -> Nat] /\ \A n \in pool : parts[n] * per <= cards[n]
  BY <1>5, <1>8, <1>9, PartsFit
<1>12. PICK k, g, r : k = SumFunction(parts) /\ g = SumFunction(cards) /\ r = SumFunction(devices)
  OBVIOUS
<1>13. k \in Nat /\ g \in Nat /\ k * per <= g
  <2>1. k = SumFunctionOnSet(parts, pool) /\ g = SumFunctionOnSet(cards, pool)
    BY <1>10, <1>11, <1>12 DEF SumFunction
  <2> QED BY <1>5, <1>7, <1>10, <1>11, <2>1, SumCompare
<1>14. r \in Nat
  <2>1. r = SumFunctionOnSet(devices, pool)
    BY <1>10, <1>12 DEF SumFunction
  <2>2. 0 \in Nat /\ \A n \in pool : devices[n] * 0 <= devices[n]
    BY <1>10
  <2> QED BY <1>7, <1>10, <2>1, <2>2, SumCompare
<1>15. f.value = IF g = 0 THEN 0 ELSE (r * per) \div g
  BY <1>4, <1>9, <1>12, Zenon DEF PoolShare, Share
<1>16. k * f.value <= r
  BY <1>5, <1>13, <1>14, <1>15, ShareFits
<1> QED BY <1>4, <1>9, <1>12, <1>16

-----------------------------------------------------------------------------
(* The deployment wizard *)

DeployInv ==
  /\ IsFiniteSet(nodes) /\ \A n \in nodes : NodeOk(n)
  /\ GoodDeploy(deploy) /\ deployStep \in 1 .. 3 /\ (deployStep = 3 => DeployStep2Valid(deploy))
  /\ DeployRefusedOnlyByTheServer
  /\ DeployConfirmed

LEMMA DeployInitial == DeployInit => DeployInv
<1> SUFFICES ASSUME DeployInit PROVE DeployInv
  OBVIOUS
<1>1. deploy = DeployOpened /\ deployStep = 1 /\ deployReply = "none" /\ nodes \in Clusters
  BY DEF DeployInit
<1>2. IsFiniteSet(nodes) /\ \A n \in nodes : NodeOk(n)
  BY <1>1, ClustersAssumption
<1> QED BY <1>1, <1>2, DeployOpenedGood DEF DeployInv, DeployRefusedOnlyByTheServer, DeployConfirmed

LEMMA ConfirmedService ==
  ASSUME NEW d, GoodDeploy(d), NEW s, s = DeployBody(d), NEW o \in Knobs(d), NEW v,
         v = IF o.name \in DOMAIN s.overrides THEN s.overrides[o.name] ELSE o.default, v # Absent
  PROVE  v = OverrideValue(d, o)
<1>1. s.overrides = SentOverrides(d)
  BY DEF DeployBody
<1>2. CASE AutoOverrideValue(d, o) # Absent
  BY <1>1, <1>2, SentIs DEF OverrideValue, OrElse
<1>3. CASE AutoOverrideValue(d, o) = Absent
  <2>1. OverrideValue(d, o) = DeclaredOverrideValue(d, o)
    BY <1>3 DEF OverrideValue, OrElse
  <2>2. CASE Held(d, o)
    <3>1. v = d.overrides[o.name]
      BY <1>1, <1>3, <2>2, SentIs
    <3>2. DeclaredOverrideValue(d, o) = d.overrides[o.name]
      BY <2>2 DEF DeclaredOverrideValue
    <3> QED BY <2>1, <3>1, <3>2
  <2>3. CASE ~Held(d, o)
    <3>1. v = o.default
      BY <1>1, <1>3, <2>3, SentIs
    <3>2. DeclaredOverrideValue(d, o) = o.default
      BY <2>3, <3>1 DEF DeclaredOverrideValue
    <3> QED BY <2>1, <3>1, <3>2
  <2> QED BY <2>2, <2>3
<1> QED BY <1>2, <1>3

LEMMA SameValues ==
  ASSUME nodes' = nodes, deploy' = deploy, NEW o
  PROVE  OverrideValue(deploy, o)' = OverrideValue(deploy, o)
<1>1. AllNodes' = AllNodes
  BY DEF AllNodes
<1>2. Eligible(deploy, o)' = Eligible(deploy, o)
  BY <1>1 DEF Eligible
<1>3. \A f : Offering(deploy, o, f)' = Offering(deploy, o, f)
  BY <1>2 DEF Offering
<1>4. RdmaFabrics(deploy, o)' = RdmaFabrics(deploy, o)
  BY <1>3 DEF RdmaFabrics
<1>5. AutoOverrideValue(deploy, o)' = AutoOverrideValue(deploy, o)
  BY <1>4 DEF AutoOverrideValue
<1> QED BY <1>5 DEF OverrideValue

LEMMA CreateServiceStep ==
  ASSUME DeployInv, CreateService
  PROVE  DeployInv'
<1>1. GoodDeploy(deploy) /\ DeployStep1Valid(deploy) /\ DeployStep2Valid(deploy)
  BY DEF DeployInv, CreateService
<1>2. nodes' = nodes /\ deploy' = deploy /\ deployStep' = deployStep
  BY DEF CreateService
<1>3. PICK existing \in SUBSET {<<"default", "svc">>} :
        LET b == DeployBody(deploy)
            first == IF deploy.newNamespace THEN RefuseNamespace(b.namespace) ELSE "none"
        IN  \E code \in IF first # "none" THEN {first}
                        ELSE DeployRefusals(b, NamespacesFor(deploy), existing \cup ServicesListed) :
               /\ deployReply' = IF code = "none" THEN "created" ELSE code
               /\ service' = IF code = "none" THEN b ELSE service
  BY DEF CreateService
<1>4. PICK b, first, all : /\ b = DeployBody(deploy)
                           /\ first = IF deploy.newNamespace THEN RefuseNamespace(b.namespace) ELSE "none"
                           /\ all = DeployRefusals(b, NamespacesFor(deploy), existing \cup ServicesListed)
  OBVIOUS
<1>5. PICK code \in IF first # "none" THEN {first} ELSE all :
        /\ deployReply' = IF code = "none" THEN "created" ELSE code
        /\ service' = IF code = "none" THEN b ELSE service
  BY <1>3, <1>4, Zenon
<1>6. first \in {"namespaceManaged", "none"}
  <2>1. deploy.newNamespace => b.namespace \in DnsLabels
    <3>1. b.namespace = EffectiveNamespace(deploy)
      BY <1>4 DEF DeployBody
    <3> QED BY <1>1, <3>1 DEF DeployStep1Valid, EffectiveNamespace
  <2> QED BY <1>4, <2>1, NamespaceRefusals
<1>7. all \subseteq DeployServersOwn \cup {"none"}
  <2>1. PICK refs : refs = RefuseRefs(b, NamespacesFor(deploy), existing \cup ServicesListed)
    OBVIOUS
  <2>2. refs \in {"nameTaken", "none"}
    BY <1>1, <1>4, <2>1, RefsRefusals
  <2>3. PICK errors : errors = OverrideErrors(b.overrides, ProfileNamed(b.profileRef))
    OBVIOUS
  <2>4. errors \subseteq RangeCodes
    <3>1. b.overrides = SentOverrides(deploy) /\ ProfileNamed(b.profileRef) = deploy.profile
      <4>1. b.overrides = SentOverrides(deploy) /\ b.profileRef = deploy.profile.name
        BY <1>4 DEF DeployBody
      <4> QED BY <1>1, <4>1, NamedIs DEF GoodDeploy
    <3> QED BY <1>1, <2>3, <3>1, OverrideErrorsAre
  <2>5. RefuseRoute(b.route) \in {"routeModelNameInvalid", "none"}
    <3>1. b.route.aigatewayRouter = deploy.aigatewayRouter /\ b.route.paths = deploy.paths
      BY <1>4 DEF DeployBody
    <3> QED BY <1>1, <3>1, RouteRefusals DEF GoodDeploy
  <2>6. all = IF refs # "none" THEN {refs} ELSE OrRoute(errors, b.route)
    BY <1>4, <2>1, <2>3, Zenon DEF DeployRefusals
  <2> QED BY <2>2, <2>4, <2>5, <2>6 DEF OrRoute, RangeCodes, DeployServersOwn
<1>8. code \in DeployServersOwn \cup {"none"}
  BY <1>5, <1>6, <1>7 DEF DeployServersOwn
<1>9. DeployRefusedOnlyByTheServer'
  BY <1>5, <1>8 DEF DeployRefusedOnlyByTheServer, DeployServersOwn
<1>10. DeployConfirmed'
  <2> SUFFICES ASSUME deployReply' = "created"
               PROVE  /\ service'.modelRef = deploy.modelRef /\ service'.profileRef = deploy.profile.name
                      /\ \A o \in Knobs(deploy) : InForce(o)' # Absent => InForce(o)' = OverrideValue(deploy, o)'
    BY <1>2 DEF DeployConfirmed, Knobs
  <2>1. service' = b
    BY <1>5, <1>8 DEF DeployServersOwn
  <2>2. b.modelRef = deploy.modelRef /\ b.profileRef = deploy.profile.name
    BY <1>4 DEF DeployBody
  <2>3. ASSUME NEW o \in Knobs(deploy), InForce(o)' # Absent PROVE InForce(o)' = OverrideValue(deploy, o)'
    <3>1. InForce(o)' = IF o.name \in DOMAIN b.overrides THEN b.overrides[o.name] ELSE o.default
      BY <2>1 DEF InForce
    <3>2. OverrideValue(deploy, o)' = OverrideValue(deploy, o)
      BY <1>2, SameValues
    <3> QED BY <1>1, <1>4, <2>3, <3>1, <3>2, ConfirmedService
  <2> QED BY <2>1, <2>2, <2>3
<1> QED BY <1>2, <1>9, <1>10 DEF DeployInv

LEMMA DeployStep ==
  ASSUME DeployInv, DeployNext
  PROVE  DeployInv'
<1>1. CASE EditDeploy
  <2>1. PICK e : /\ deploy' = e
                 /\ \/ deployStep = 1 /\ e \in EditDeployBasics(deploy)
                    \/ deployStep # 1 /\ e \in EditModel(deploy) \cup EditOverrides(deploy) \cup EditRoute(deploy)
    BY <1>1 DEF EditDeploy
  <2>2. GoodDeploy(deploy')
    BY <2>1, DeployBasicsGood, EditModelGood, EditOverridesGood, EditRouteGood DEF DeployInv
  <2>3. nodes' = nodes /\ deployStep' = deployStep /\ deployStep # 3 /\ deployReply' = deployReply /\ deployReply # "created"
    BY <1>1 DEF EditDeploy, Editing, DeployInv
  <2> QED BY <2>2, <2>3 DEF DeployInv, DeployRefusedOnlyByTheServer, DeployConfirmed
<1>2. CASE NextDeployStep \/ PrevDeployStep
  <2>1. nodes' = nodes /\ deploy' = deploy /\ deployReply' = deployReply /\ deployReply # "created"
    BY <1>2 DEF NextDeployStep, PrevDeployStep, Editing
  <2>2. deployStep' \in 1 .. 3 /\ (deployStep' = 3 => DeployStep2Valid(deploy))
    <3>1. \/ deployStep < 3 /\ deployStep' = deployStep + 1 /\ (deployStep # 1 => DeployStep2Valid(deploy))
          \/ deployStep > 1 /\ deployStep' = deployStep - 1
      BY <1>2, Zenon DEF NextDeployStep, PrevDeployStep
    <3> QED BY <3>1 DEF DeployInv
  <2> QED BY <2>1, <2>2 DEF DeployInv, DeployRefusedOnlyByTheServer, DeployConfirmed
<1>3. CASE CreateService
  BY <1>3, CreateServiceStep
<1> QED BY <1>1, <1>2, <1>3 DEF DeployNext

LEMMA DeployRestsInv ==
  ASSUME DeployInv, UNCHANGED deployVars
  PROVE  DeployInv'
<1>1. /\ nodes' = nodes /\ deploy' = deploy /\ deployStep' = deployStep /\ deployReply' = deployReply /\ service' = service
  BY DEF deployVars
<1>2. \A o : InForce(o)' = InForce(o)
  BY <1>1 DEF InForce
<1>3. DeployConfirmed'
  BY <1>1, <1>2, SameValues DEF DeployInv, DeployConfirmed
<1> QED BY <1>1, <1>3 DEF DeployInv, DeployRefusedOnlyByTheServer

LEMMA DeployInvShows ==
  ASSUME DeployInv
  PROVE  DeployedAsConfirmed
<1>1. DeployCoherent
  BY DEF DeployInv, GoodDeploy, Declares, DeployCoherent, Knobs
<1>2. PoolSharesFit
  BY SharesFit DEF DeployInv, PoolSharesFit
<1> QED BY <1>1, <1>2 DEF DeployInv, DeployedAsConfirmed

(* For every cluster, however many nodes it has and whatever they carry, and any
   number of edits in whatever order: the draft of a service names a model its
   profile can serve and only knobs it declares, the route refuses only what is
   the cluster's or the typed text's to refuse, the values written are those the
   confirm step showed, and the RDMA counts of as many pods as fit add up to no
   more than the pool has (DeployWizard and its override inputs, the POST handler). *)
THEOREM ServicesAsConfirmed == FormsSpec => []DeployedAsConfirmed
<1>1. FormsInit => DeployInv
  BY DeployInitial DEF FormsInit
<1>2. DeployInv /\ [FormsNext]_<<formVars, deployVars, catalogVars, paneVars>> => DeployInv'
  <2> SUFFICES ASSUME DeployInv, [FormsNext]_<<formVars, deployVars, catalogVars, paneVars>> PROVE DeployInv'
    OBVIOUS
  <2>1. DeployNext \/ UNCHANGED deployVars
    BY DEF FormsNext
  <2> QED BY <2>1, DeployStep, DeployRestsInv
<1>3. DeployInv => DeployedAsConfirmed
  BY DeployInvShows
<1> QED BY <1>1, <1>2, <1>3, PTL DEF FormsSpec

=============================================================================
