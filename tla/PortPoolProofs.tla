--------------------------- MODULE PortPoolProofs ---------------------------
(***************************************************************************)
(* Type correctness of PortPool, and the disjointness of the ports its     *)
(* environments hold, for every set of environments, every pool and every  *)
(* bound.                                                                  *)
(***************************************************************************)
EXTENDS PortPool, TLAPS

-----------------------------------------------------------------------------
(* The values the worker computes have their types *)

LEMMA AbsentType == Absent \in Object /\ NoPorts \in Ports /\ NoStatus \in Status
BY NameAssumption
DEF Absent, Object, NoPorts, Ports, NoPort, NoStatus, Status, PhaseName, RouteReady

LEMMA PoolType == Pool \subseteq Port /\ Port \subseteq Nat \ {NoPort}
BY PoolAssumption DEF Pool, Port, NoPort

\* A merge patch of a well-typed status leaves a well-typed object.
LEMMA PatchType ==
  ASSUME TypeOK, cur \in Env, NEW s \in Status, NEW obs \in Nat
  PROVE  Patch(s, obs) \in Object
<1>1. env[cur] \in Object /\ view \in Object
  BY DEF TypeOK
<1>2. QED
  BY <1>1 DEF Patch, Object, Status

LEMMA WriteStatusType ==
  ASSUME TypeOK, cur \in Env, NEW s \in Status, NEW obs \in Nat, WriteStatus(s, obs)
  PROVE  env' \in [Env -> Object] /\ queue' \subseteq Env
<1>1. CASE env[cur].life = "gone"
  BY <1>1 DEF TypeOK, WriteStatus, Requeue
<1>2. CASE env[cur].life # "gone"
  <2>1. Patch(s, obs) \in Object
    BY PatchType
  <2>2. QED
    BY <1>2, <2>1 DEF TypeOK, WriteStatus
<1>3. QED
  BY <1>1, <1>2

LEMMA StType ==
  ASSUME TypeOK
  PROVE  /\ st \in Status /\ view.gen \in Nat /\ view.obs \in Nat
         /\ view.names \in Seq(Name) /\ view.eps \in Ports
         /\ \A p \in PhaseName : [st EXCEPT !.phase = p] \in Status
         /\ \A r \in RouteReady : [st EXCEPT !.route = r] \in Status
         /\ \A r \in RouteReady, q \in Ports : [st EXCEPT !.route = r, !.eps = q] \in Status
         /\ \A p \in PhaseName, q \in Ports : [st EXCEPT !.phase = p, !.eps = q] \in Status
BY NameAssumption DEF TypeOK, Status, Object

\* What heldPorts recovers is a port or nothing.
LEMMA HeldType ==
  ASSUME TypeOK, NEW e \in Env, NEW eps \in Ports
  PROVE  HeldPorts(e, eps) \in Ports
<1>1. ASSUME NEW n \in Name,
             NEW declared, declared = {l.port : l \in {x \in ls[e].set : x.ep = n}}
      PROVE  (CASE eps[n] # NoPort -> eps[n]
                [] eps[n] = NoPort /\ declared # {} -> CHOOSE p \in declared : TRUE
                [] OTHER -> NoPort) \in Port \cup {NoPort}
  <2>1. ls[e].set \subseteq Listener
    BY DEF TypeOK, ListenerSet
  <2>2. declared \subseteq Port
    BY <1>1, <2>1 DEF Listener
  <2>3. declared # {} => (CHOOSE p \in declared : TRUE) \in declared
    OBVIOUS
  <2>4. eps[n] \in Port \cup {NoPort}
    BY DEF Ports
  <2>5. QED
    BY <2>2, <2>3, <2>4
<1>2. QED
  BY <1>1 DEF HeldPorts, Ports

\* A migrated listener is a listener on the same port.
LEMMA NamedType ==
  ASSUME TypeOK, NEW l \in Listener
  PROVE  Named(l) \in Listener /\ Named(l).port = l.port
<1> DEFINE holder == {n \in Name : view.eps[n] = l.port}
<1>1. holder # {} => (CHOOSE n \in holder : TRUE) \in Name
  OBVIOUS
<1>2. QED
  BY <1>1 DEF Named, Listener

-----------------------------------------------------------------------------
(* Type correctness *)

\* TypeOK alone is not inductive: what applyListenerSet and applyTCPRoute write
\* is well typed only because every exposed name has been granted a port by then,
\* which rests on where the loop of publishRoutes stands at each step.
Granted(n) == ports[n] \in Port

GrantsComplete ==
  /\ pc \in {"idle", "core", "pool"} => i = 1
  /\ pc = "pool" => view.names # <<>>
  /\ pc = "alloc" => \A j \in 1 .. i - 1 : Granted(view.names[j])
  /\ pc \in {"prune", "listeners", "routes"} => \A n \in Exposed(view.names) : Granted(n)

TypeInv == TypeOK /\ GrantsComplete

LEMMA IdleType ==
  ASSUME TypeOK, Idle
  PROVE  /\ pc' = "idle" /\ cur' = "none" /\ view' \in Object /\ st' \in Status
         /\ used' \subseteq Nat /\ held' \in Ports /\ ports' \in Ports /\ i' = 1
         /\ lsok' \in BOOLEAN /\ addr' \in BOOLEAN /\ GrantsComplete'
BY AbsentType DEF Idle, GrantsComplete

\* The names of a pass are a sequence; the names before i and after are exposed.
LEMMA ExposedNames ==
  ASSUME TypeOK
  PROVE  /\ view.names \in Seq(Name)
         /\ Exposed(view.names) = {view.names[j] : j \in 1 .. Len(view.names)}
         /\ Exposed(view.names) \subseteq Name
         /\ view.names # <<>> => Len(view.names) >= 1
BY NameAssumption DEF TypeOK, Object, Exposed

LEMMA DesiredType ==
  ASSUME TypeInv, pc \in {"prune", "listeners", "routes"}
  PROVE  DesiredListeners \subseteq Listener /\ DesiredRoutes \subseteq Route
<1>1. ASSUME NEW n \in Exposed(view.names)
      PROVE  n \in Name /\ ports[n] \in Port /\ Proto(n) \in {"tcp", "udp"}
  BY ExposedNames DEF TypeInv, GrantsComplete, Granted, Proto
<1>2. DesiredListeners \subseteq Listener
  <2>1. ASSUME NEW l \in DesiredListeners PROVE l \in Listener
    <3>1. PICK n \in Exposed(view.names) : l = [ep |-> n, port |-> ports[n]]
      BY DEF DesiredListeners
    <3>2. QED
      BY <1>1, <3>1 DEF Listener
  <2>2. QED
    BY <2>1
<1>3. DesiredRoutes \subseteq Route
  <2>1. ASSUME NEW r \in DesiredRoutes PROVE r \in Route
    <3>1. PICK n \in Exposed(view.names) :
            r = [proto |-> Proto(n), port |-> ports[n], ep |-> n, ok |-> FALSE]
      BY DEF DesiredRoutes
    <3>2. QED
      BY <1>1, <3>1 DEF Route
  <2>2. QED
    BY <2>1
<1>4. QED
  BY <1>2, <1>3

LEMMA RoutesType ==
  ASSUME TypeInv, pc = "routes", NEW fail, WriteRoutes(fail)
  PROVE  rt' \in [Env -> SUBSET Route]
<1>1. DesiredRoutes \subseteq Route
  BY DesiredType
<1>2. QED
  BY <1>1 DEF TypeInv, TypeOK, WriteRoutes

LEMMA DeleteRoutesType ==
  ASSUME TypeOK, DeleteRoutes
  PROVE  rt' \in [Env -> SUBSET Route] /\ ls' \in [Env -> ListenerSet]
BY DEF TypeOK, DeleteRoutes, NoListenerSet, ListenerSet

LEMMA GrantType ==
  ASSUME TypeInv, pc = "alloc", NEW p \in Pool, Grant(p)
  PROVE  TypeInv'
<1>1. p \in Port /\ view.names[i] \in Name
  BY PoolType, ExposedNames DEF TypeInv, TypeOK
<1>2. ports' \in Ports /\ used' \subseteq Nat
  BY <1>1, PoolType DEF TypeInv, TypeOK, Grant, Ports
<1>3. \A j \in 1 .. i : Granted(view.names[j])'
  <2> TAKE j \in 1 .. i
  <2>1. view.names[j] \in Name
    BY ExposedNames DEF TypeInv, TypeOK
  <2>2. j = i \/ j \in 1 .. i - 1
    BY DEF TypeInv, TypeOK
  <2>3. QED
    BY <1>1, <2>1, <2>2 DEF TypeInv, TypeOK, GrantsComplete, Granted, Grant, Goto, Ports
<1>4. TypeOK'
  BY <1>2, ExposedNames DEF TypeInv, TypeOK, Grant, Goto, server, cache, bounds
<1>5. GrantsComplete'
  BY <1>3, ExposedNames DEF TypeInv, TypeOK, GrantsComplete, Granted, Exposed, Grant, Goto
<1>6. QED
  BY <1>4, <1>5 DEF TypeInv

LEMMA StartTypes ==
  ASSUME TypeInv, NEW e \in Env, ReconcileGone(e) \/ AddFinalizer(e) \/ StartPass(e)
  PROVE  TypeInv'
<1>1. CASE ReconcileGone(e)
  BY <1>1 DEF TypeInv, TypeOK, GrantsComplete, Granted, Exposed, ReconcileGone, Take,
              server, cache, alloc, bounds
<1>2. CASE AddFinalizer(e)
  <2>1. env' \in [Env -> Object]
    <3> DEFINE o == [env[e] EXCEPT !.life = IF @ = "new" THEN "live" ELSE @]
    <3>1. o \in Object
      BY DEF TypeInv, TypeOK, Object
    <3>2. env' = [env EXCEPT ![e] = o]
      BY <1>2 DEF TypeInv, TypeOK, AddFinalizer
    <3>3. QED
      BY <3>1, <3>2 DEF TypeInv, TypeOK
  <2>2. QED
    BY <1>2, <2>1 DEF TypeInv, TypeOK, GrantsComplete, Granted, Exposed, AddFinalizer, Take,
                cache, alloc, bounds
<1>3. CASE StartPass(e)
  <2>1. st' \in Status /\ view' \in Object
    BY <1>3 DEF TypeInv, TypeOK, StartPass, Status, Object
  <2>2. pc' \in {"terminate", "block", "core"} /\ cur' \in Env /\ i' = 1
    BY <1>3 DEF TypeInv, TypeOK, GrantsComplete, StartPass, Take, alloc
  <2>3. QED
    BY <1>3, <2>1, <2>2 DEF TypeInv, TypeOK, GrantsComplete, StartPass,
                server, cache, alloc, bounds
<1>4. QED
  BY <1>1, <1>2, <1>3

LEMMA PublishTypes ==
  ASSUME TypeInv,
         \/ CoreResources \/ MigrateListenerNames \/ ReadPool \/ KeepPort \/ LowestPort
         \/ PoolExhausted \/ PruneL4Routes \/ ApplyListenerSet \/ ApplyRoutes
  PROVE  TypeInv'
<1> USE DEF TypeInv
<1>1. CASE CoreResources
  <2>1. pc' \in {"migrate", "prune", "pool"} /\ i' = 1
    BY <1>1 DEF GrantsComplete, CoreResources, Goto, alloc
  <2>2. TypeOK'
    BY <1>1, <2>1 DEF TypeOK, CoreResources, Goto, server, cache, alloc, bounds
  <2>3. GrantsComplete'
    BY <1>1, <2>1 DEF GrantsComplete, Exposed, CoreResources, Goto
  <2>4. QED
    BY <2>2, <2>3
<1>2. CASE MigrateListenerNames
  <2> DEFINE migrated == {Named(l) : l \in cLs[cur].set}
  <2>1. cur \in Env /\ migrated \subseteq Listener
    BY <1>2, NamedType DEF TypeOK, MigrateListenerNames, ListenerSet
  <2>2. CASE migrated # cLs[cur].set /\ cLs[cur] # ls[cur]
    <3>1. Requeue /\ Idle /\ ls' = ls
      BY <1>2, <2>2 DEF MigrateListenerNames
    <3>2. QED
      BY <1>2, <2>1, <3>1, IdleType DEF TypeOK, MigrateListenerNames, Requeue, cache, bounds
  <2>3. CASE ~(migrated # cLs[cur].set /\ cLs[cur] # ls[cur])
    <3>1. /\ ls' = IF migrated = cLs[cur].set THEN ls
                   ELSE [ls EXCEPT ![cur] = [set |-> migrated, ok |-> FALSE]]
          /\ Goto("status")
          /\ st' = [st EXCEPT !.route = "GatewayNotFound", !.eps = NoPorts]
          /\ UNCHANGED <<queue, alloc, env, rt, gw, cache, bounds>>
      BY <1>2, <2>3 DEF MigrateListenerNames, Derived
    <3>2. ls' \in [Env -> ListenerSet]
      BY <2>1, <3>1 DEF TypeOK, ListenerSet
    <3>3. st' \in Status
      BY <3>1, AbsentType, StType DEF RouteReady
    <3>4. QED
      BY <2>1, <3>1, <3>2, <3>3 DEF TypeOK, GrantsComplete, Goto, cache, alloc, bounds
  <2>4. QED
    BY <2>2, <2>3
<1>3. CASE ReadPool
  <2>1. cur \in Env /\ i = 1 /\ Len(view.names) >= 1
    BY <1>3, ExposedNames DEF TypeOK, GrantsComplete, ReadPool
  <2>2. held' \in Ports
    BY <1>3, <2>1, HeldType, StType DEF ReadPool
  <2>3. used' \subseteq Nat
    <3>1. ASSUME NEW f \in Env PROVE Claimed(f) \subseteq Nat
      <4>1. ls[f].set \subseteq Listener /\ rt[f] \subseteq Route
        BY DEF TypeOK, ListenerSet
      <4>2. ListenerPorts(f) \subseteq Port
        BY <4>1 DEF ListenerPorts, Listener
      <4>3. DirectPorts(f) \subseteq Port
        BY <4>1 DEF DirectPorts, Route
      <4>4. QED
        BY <4>2, <4>3, PoolType DEF Claimed
    <3>2. QED
      BY <1>3, <3>1, BoundAssumption DEF ReadPool, UsedPorts, ClaimedByOthers
  <2>4. TypeOK'
    BY <1>3, <2>1, <2>2, <2>3 DEF TypeOK, ReadPool, Goto, server, cache, bounds
  <2>5. GrantsComplete'
    BY <1>3, <2>1 DEF GrantsComplete, ReadPool, Goto
  <2>6. QED
    BY <2>4, <2>5
<1>4. CASE KeepPort
  <2>1. PICK p \in Pool : Grant(p)
    BY <1>4 DEF KeepPort, Keeps
  <2>2. QED
    BY <1>4, <2>1, GrantType DEF KeepPort
<1>5. CASE LowestPort
  <2>1. PICK p \in Pool : Grant(p)
    BY <1>5 DEF LowestPort
  <2>2. QED
    BY <1>5, <2>1, GrantType DEF LowestPort
<1>6. CASE PoolExhausted
  <2>1. st' \in Status
    BY <1>6, StType DEF PoolExhausted, PublishFailed, Derived, RouteReady
  <2>2. QED
    BY <1>6, <2>1 DEF TypeOK, GrantsComplete, PoolExhausted, PublishFailed, Goto,
                      server, cache, alloc, bounds
<1>7. CASE PruneL4Routes
  <2>1. rt' \in [Env -> SUBSET Route]
    BY <1>7 DEF TypeOK, PruneL4Routes, Prune
  <2>2. TypeOK'
    BY <1>7, <2>1 DEF TypeOK, PruneL4Routes, Goto, cache, alloc, bounds
  <2>3. GrantsComplete'
    BY <1>7 DEF GrantsComplete, Granted, Exposed, PruneL4Routes, Goto, alloc
  <2>4. QED
    BY <2>2, <2>3
<1>8. CASE ApplyListenerSet
  <2>1. DesiredListeners \subseteq Listener
    BY <1>8, DesiredType DEF ApplyListenerSet
  <2>2. ls' \in [Env -> ListenerSet] /\ lsok' \in BOOLEAN
    <3>1. [set |-> DesiredListeners, ok |-> FALSE] \in ListenerSet
      BY <2>1 DEF ListenerSet
    <3>2. \/ ls' = ls
          \/ ls' = [ls EXCEPT ![cur] = [set |-> DesiredListeners, ok |-> FALSE]]
      BY <1>8 DEF ApplyListenerSet
    <3>3. lsok' = lsok \/ lsok' \in BOOLEAN
      BY <1>8, Zenon DEF ApplyListenerSet
    <3>4. QED
      BY <3>1, <3>2, <3>3 DEF TypeOK
  <2>3. st' \in Status
    BY <1>8, StType DEF ApplyListenerSet, PublishFailed, Derived, RouteReady
  <2>4. pc' \in {"status", "routes"} /\ UNCHANGED <<cur, view, ports, i>>
    BY <1>8 DEF ApplyListenerSet, PublishFailed, Goto
  <2>5. TypeOK'
    BY <1>8, <2>2, <2>3, <2>4 DEF TypeOK, ApplyListenerSet, cache, bounds
  <2>6. GrantsComplete'
    BY <1>8, <2>4 DEF GrantsComplete, Granted, Exposed, ApplyListenerSet
  <2>7. QED
    BY <2>5, <2>6
<1>9. CASE ApplyRoutes
  <2>1. rt' \in [Env -> SUBSET Route]
    BY <1>9, RoutesType DEF ApplyRoutes
  <2>2. RouteVerdict \in RouteReady
    BY DEF RouteVerdict, RouteReady
  <2>3. st' \in Status
    <3>1. ports \in Ports /\ NoPorts \in Ports
      BY AbsentType DEF TypeOK
    <3>2. \/ st' = [st EXCEPT !.route = "Conflict"]
          \/ st' = [st EXCEPT !.route = RouteVerdict,
                              !.eps = IF RouteVerdict = "Published" THEN ports ELSE NoPorts]
      BY <1>9 DEF ApplyRoutes, PublishFailed, Derived
    <3>3. "Conflict" \in RouteReady
      BY DEF RouteReady
    <3>4. (IF RouteVerdict = "Published" THEN ports ELSE NoPorts) \in Ports
      BY <3>1
    <3>5. /\ [st EXCEPT !.route = "Conflict"] \in Status
          /\ [st EXCEPT !.route = RouteVerdict,
                        !.eps = IF RouteVerdict = "Published" THEN ports ELSE NoPorts] \in Status
      BY <2>2, <3>3, <3>4, StType, Zenon
    <3>6. QED
      BY <3>2, <3>5
  <2>4. pc' = "status" /\ UNCHANGED <<cur, view>>
    BY <1>9 DEF ApplyRoutes, PublishFailed, Goto
  <2>5. QED
    BY <1>9, <2>1, <2>3, <2>4 DEF TypeOK, GrantsComplete, ApplyRoutes, cache, alloc, bounds
<1>10. QED
  BY <1>1, <1>2, <1>3, <1>4, <1>5, <1>6, <1>7, <1>8, <1>9

LEMMA EndTypes ==
  ASSUME TypeInv,
         \/ ReportStatus \/ BlockSpec \/ RejectSpec
         \/ ReportTerminating \/ StripRoutes \/ DropFinalizer
  PROVE  TypeInv'
<1> USE DEF TypeInv
<1>1. CASE ReportStatus
  <2> DEFINE s == [st EXCEPT !.phase = IF view.running THEN "Up" ELSE "Stopped",
                             !.eps = IF view.running THEN @ ELSE NoPorts]
  <2>1. s \in Status
    BY AbsentType, StType DEF Status, PhaseName
  <2>2. env' \in [Env -> Object] /\ queue' \subseteq Env
    BY <1>1, <2>1, StType, WriteStatusType DEF TypeOK, ReportStatus
  <2>3. QED
    BY <1>1, <2>2, IdleType DEF TypeOK, ReportStatus, cache, bounds
<1>2. CASE BlockSpec
  BY <1>2, DeleteRoutesType DEF TypeOK, GrantsComplete, BlockSpec, Goto, cache, alloc, bounds
<1>3. CASE RejectSpec
  <2> DEFINE s == [phase |-> "Failed", route |-> "", eps |-> NoPorts]
  <2>1. s \in Status
    BY AbsentType DEF Status, PhaseName, RouteReady
  <2>2. env' \in [Env -> Object] /\ queue' \subseteq Env
    BY <1>3, <2>1, StType, WriteStatusType DEF TypeOK, RejectSpec
  <2>3. QED
    <3>1. Idle /\ UNCHANGED <<ls, rt, gw, cache, bounds>>
      BY <1>3 DEF RejectSpec
    <3>2. QED
      BY <2>2, <3>1, IdleType DEF TypeOK, cache, bounds
<1>4. CASE ReportTerminating
  <2>1. [st EXCEPT !.phase = "Terminating"] \in Status
    BY StType DEF PhaseName
  <2>2. env' \in [Env -> Object] /\ queue' \subseteq Env
    BY <1>4, <2>1, StType, WriteStatusType DEF TypeOK, ReportTerminating
  <2>3. CASE env[cur].life = "gone"
    <3>1. Idle
      BY <1>4, <2>3 DEF ReportTerminating
    <3>2. QED
      BY <1>4, <2>2, <3>1, IdleType DEF TypeOK, ReportTerminating, cache, bounds
  <2>4. CASE env[cur].life # "gone"
    <3>1. Goto("strip") /\ UNCHANGED <<alloc, st>>
      BY <1>4, <2>4 DEF ReportTerminating
    <3>2. QED
      BY <1>4, <2>2, <3>1 DEF TypeOK, GrantsComplete, ReportTerminating, Goto, cache, alloc, bounds
  <2>5. QED
    BY <2>3, <2>4
<1>5. CASE StripRoutes
  BY <1>5, DeleteRoutesType DEF TypeOK, GrantsComplete, StripRoutes, Goto, cache, alloc, bounds
<1>6. CASE DropFinalizer
  <2>1. cur \in Env
    BY <1>6 DEF TypeOK, DropFinalizer
  <2>2. env' \in [Env -> Object] /\ queue' \subseteq Env
    <3>1. [env[cur] EXCEPT !.life = "gone"] \in Object
      BY <2>1 DEF TypeOK, Object
    <3>2. \/ env' = env
          \/ env' = [env EXCEPT ![cur] = [env[cur] EXCEPT !.life = "gone"]]
      BY <1>6 DEF TypeOK, DropFinalizer
    <3>3. QED
      BY <1>6, <2>1, <3>1, <3>2 DEF TypeOK, DropFinalizer, Requeue
  <2>3. QED
    BY <1>6, <2>2, IdleType DEF TypeOK, DropFinalizer, cache, bounds
<1>7. QED
  BY <1>1, <1>2, <1>3, <1>4, <1>5, <1>6

LEMMA FaultTypes ==
  ASSUME TypeInv, Faults
  PROVE  TypeInv'
<1> USE DEF TypeInv
<1>1. CASE CoreFails
  <2>1. cur \in Env
    BY <1>1 DEF TypeOK, CoreFails
  <2>2. Patch([st EXCEPT !.phase = "Failed"], view.gen) \in Object
    <3>1. [st EXCEPT !.phase = "Failed"] \in Status /\ view.gen \in Nat
      BY StType DEF PhaseName
    <3>2. QED
      BY <2>1, <3>1, PatchType
  <2>3. env' \in [Env -> Object]
    BY <1>1, <2>2 DEF TypeOK, CoreFails
  <2>4. queue' \subseteq Env /\ faults' \in Nat
    BY <1>1, <2>1 DEF TypeOK, CoreFails, Requeue
  <2>5. QED
    BY <1>1, <2>3, <2>4, IdleType DEF TypeOK, CoreFails, cache
<1>2. CASE PublishCallFails
  <2>1. rt' \in [Env -> SUBSET Route]
    <3>1. CASE rt' = rt
      BY <3>1 DEF TypeOK
    <3>2. CASE pc = "routes" /\ \E fail \in SUBSET DesiredRoutes : WriteRoutes(fail)
      BY <3>2, RoutesType
    <3>3. CASE \E dropped \in SUBSET Dropped : Prune(dropped)
      BY <3>3 DEF TypeOK, Prune
    <3>4. QED
      BY <1>2, <3>1, <3>2, <3>3 DEF PublishCallFails
  <2>2. st' \in Status
    BY <1>2, StType DEF PublishCallFails, PublishFailed, Derived, RouteReady
  <2>3. pc' = "status" /\ UNCHANGED <<cur, view>> /\ faults' \in Nat
    BY <1>2 DEF TypeOK, PublishCallFails, PublishFailed, Goto
  <2>4. QED
    BY <1>2, <2>1, <2>2, <2>3 DEF TypeOK, GrantsComplete, PublishCallFails, cache, alloc
<1>3. CASE ReportStatusFails
  BY <1>3, IdleType DEF TypeOK, ReportStatusFails, Requeue, server, cache
<1>4. CASE ManagerRestart
  BY <1>4, IdleType DEF TypeOK, ManagerRestart, Listed, server
<1>5. QED
  BY <1>1, <1>2, <1>3, <1>4 DEF Faults

\* No step of users, informers or the rest of the cluster touches the worker.
Unseen == UNCHANGED <<pc, cur, view, alloc, st>>

LEMMA UnseenType ==
  ASSUME TypeInv, Unseen,
         env' \in [Env -> Object], cEnv' \in [Env -> Object],
         ls' \in [Env -> ListenerSet], cLs' \in [Env -> ListenerSet],
         rt' \in [Env -> SUBSET Route], cRt' \in [Env -> SUBSET Route],
         gw' \in {"absent", "noaddr", "ready"}, queue' \subseteq Env,
         ops' \in Nat, gwMoves' \in Nat, faults' \in Nat
  PROVE  TypeInv'
<1>1. TypeOK'
  BY DEF TypeInv, TypeOK, Unseen, alloc
<1>2. GrantsComplete'
  BY DEF TypeInv, GrantsComplete, Granted, Exposed, Unseen, alloc
<1>3. QED
  BY <1>1, <1>2 DEF TypeInv

LEMMA InformerTypes ==
  ASSUME TypeInv, Informers
  PROVE  TypeInv'
<1>1. PICK e \in Env : SyncEnv(e) \/ SyncListenerSet(e) \/ SyncRoutes(e)
  BY DEF Informers
<1>2. CASE SyncEnv(e)
  BY <1>2, UnseenType DEF TypeInv, TypeOK, SyncEnv, Listed, Unseen, server, bounds
<1>3. CASE SyncListenerSet(e)
  BY <1>3, UnseenType DEF TypeInv, TypeOK, SyncListenerSet, Unseen, server, bounds
<1>4. CASE SyncRoutes(e)
  BY <1>4, UnseenType DEF TypeInv, TypeOK, SyncRoutes, Unseen, server, bounds
<1>5. QED
  BY <1>1, <1>2, <1>3, <1>4

LEMMA JudgedTypes ==
  ASSUME TypeOK, NEW e \in Env
  PROVE  Judged(e) \in ListenerSet /\ JudgedRoutes(e) \subseteq Route
<1>1. Judged(e) \in ListenerSet
  BY DEF TypeOK, Judged, ListenerSet
<1>2. ASSUME NEW r \in rt[e], NEW b \in BOOLEAN
      PROVE  [r EXCEPT !.ok = b] \in Route
  BY DEF TypeOK, Route
<1>3. JudgedRoutes(e) \subseteq Route
  BY <1>2 DEF JudgedRoutes
<1>4. QED
  BY <1>1, <1>3

LEMMA ClusterTypes ==
  ASSUME TypeInv, Cluster
  PROVE  TypeInv'
<1>1. PICK e \in Env : GatewayReports(e) \/ GarbageCollect(e)
  BY DEF Cluster
<1>2. CASE GatewayReports(e)
  <2>1. Judged(e) \in ListenerSet /\ JudgedRoutes(e) \subseteq Route
    BY JudgedTypes DEF TypeInv
  <2>2. ls' \in [Env -> ListenerSet] /\ rt' \in [Env -> SUBSET Route]
    BY <1>2, <2>1 DEF TypeInv, TypeOK, GatewayReports
  <2>3. QED
    BY <1>2, <2>2, UnseenType DEF TypeInv, TypeOK, GatewayReports, Unseen, cache, bounds
<1>3. CASE GarbageCollect(e)
  <2>1. ls' \in [Env -> ListenerSet] /\ rt' \in [Env -> SUBSET Route]
    BY <1>3 DEF TypeInv, TypeOK, GarbageCollect, NoListenerSet, ListenerSet
  <2>2. QED
    BY <1>3, <2>1, UnseenType DEF TypeInv, TypeOK, GarbageCollect, Unseen, cache, bounds
<1>4. QED
  BY <1>1, <1>2, <1>3

LEMMA RespecType ==
  ASSUME TypeOK, NEW e \in Env, NEW names \in Exposures, NEW running \in BOOLEAN,
         NEW valid \in BOOLEAN
  PROVE  Respec(e, names, running, valid) \in Object
<1>1. env[e].gen + 1 \in Nat
  BY DEF TypeOK, Object
<1>2. env[e] \in Object
  BY DEF TypeOK
<1>3. QED
  BY <1>1, <1>2 DEF Respec, Object

LEMMA UserTypes ==
  ASSUME TypeInv, Users
  PROVE  TypeInv'
<1>1. CASE GatewayMoves
  BY <1>1, UnseenType DEF TypeInv, TypeOK, GatewayMoves, Listed, Unseen, server, cache
<1>2. CASE \E e \in Env : UserCreates(e) \/ UserEdits(e) \/ UserDeletes(e)
  <2>1. PICK e \in Env : UserCreates(e) \/ UserEdits(e) \/ UserDeletes(e)
    BY <1>2
  <2>2. PICK o \in Object : env' = [env EXCEPT ![e] = o]
    <3>1. CASE UserCreates(e)
      <4>1. PICK names \in Exposures, running \in BOOLEAN :
              env' = [env EXCEPT ![e] = [@ EXCEPT !.life = "new", !.names = names,
                                                  !.running = running]]
        BY <3>1 DEF UserCreates
      <4>2. [env[e] EXCEPT !.life = "new", !.names = names, !.running = running] \in Object
        BY DEF TypeInv, TypeOK, Object
      <4>3. QED
        BY <4>1, <4>2 DEF TypeInv, TypeOK
    <3>2. CASE UserEdits(e)
      <4>1. /\ env[e].names \in Exposures /\ env[e].running \in BOOLEAN /\ env[e].valid \in BOOLEAN
            /\ (~env[e].running) \in BOOLEAN /\ (~env[e].valid) \in BOOLEAN
        BY DEF TypeInv, TypeOK, Object
      <4>2. \E names \in Exposures, running \in BOOLEAN, valid \in BOOLEAN :
              env' = [env EXCEPT ![e] = Respec(e, names, running, valid)]
        BY <3>2, <4>1, Zenon DEF UserEdits
      <4>3. QED
        BY <4>2, RespecType DEF TypeInv
    <3>3. CASE UserDeletes(e)
      <4>1. [env[e] EXCEPT !.life = IF @ = "new" THEN "gone" ELSE "deleting"] \in Object
        BY DEF TypeInv, TypeOK, Object
      <4>2. QED
        BY <3>3, <4>1 DEF TypeInv, TypeOK, UserDeletes
    <3>4. QED
      BY <2>1, <3>1, <3>2, <3>3
  <2>3. env' \in [Env -> Object] /\ ops' \in Nat
    <3>1. ops' = ops - 1 /\ ops > 0
      BY <2>1 DEF UserCreates, UserEdits, UserDeletes
    <3>2. env' \in [Env -> Object]
      BY <2>2 DEF TypeInv, TypeOK
    <3>3. QED
      BY <3>1, <3>2 DEF TypeInv, TypeOK
  <2>4. UNCHANGED <<ls, rt, gw, cache, queue, pc, cur, view, alloc, st, gwMoves, faults>>
    BY <2>1 DEF UserCreates, UserEdits, UserDeletes
  <2>5. Unseen
    BY <2>4 DEF Unseen
  <2>6. QED
    BY <2>3, <2>4, <2>5, UnseenType DEF TypeInv, TypeOK, cache
<1>3. QED
  BY <1>1, <1>2 DEF Users

LEMMA InitType ==
  ASSUME Init
  PROVE  TypeInv
<1>1. PICK names \in [Env -> Exposures], eps \in [Env -> Ports], direct \in [Env -> BOOLEAN] :
        Upgraded(names, eps, direct)
  BY DEF Init
<1>2. ASSUME NEW e \in Legacy, NEW n \in Exposed(names[e])
      PROVE  n \in Name /\ eps[e][n] \in Port /\ Proto(n) \in {"tcp", "udp"}
  <2>1. names[e] \in Seq(Name) /\ e \in Env
    BY <1>1, NameAssumption, BoundAssumption
  <2>2. n \in Name
    BY <2>1 DEF Exposed
  <2>3. QED
    BY <1>1, <2>1, <2>2 DEF Upgraded, Ports, Proto
<1>3. env \in [Env -> Object]
  <2>1. ASSUME NEW e \in Env PROVE Published(names[e], eps[e]) \in Object
    BY <1>1, AbsentType DEF Published, Absent, Object, PhaseName, RouteReady
  <2>2. QED
    BY <1>1, <2>1, AbsentType DEF Upgraded
<1>4. ls \in [Env -> ListenerSet]
  <2>1. ASSUME NEW e \in Legacy
        PROVE  {[ep |-> "unnamed", port |-> eps[e][n]] : n \in Exposed(names[e])} \subseteq Listener
    BY <1>2 DEF Listener
  <2>2. ASSUME NEW e \in Env PROVE ls[e] \in ListenerSet
    BY <1>1, <2>1 DEF Upgraded, ListenerSet, NoListenerSet
  <2>3. QED
    BY <1>1, <2>2 DEF Upgraded
<1>5. rt \in [Env -> SUBSET Route]
  <2>1. ASSUME NEW e \in Env, NEW r \in rt[e] PROVE r \in Route
    <3>1. PICK n \in IF e \in Legacy THEN Exposed(names[e]) ELSE {} :
            r = [proto |-> Proto(n), port |-> eps[e][n],
                 ep |-> IF direct[e] THEN "gateway" ELSE "unnamed", ok |-> TRUE]
      BY <1>1, <2>1 DEF Upgraded
    <3>2. e \in Legacy /\ n \in Exposed(names[e])
      BY <3>1
    <3>3. QED
      BY <1>2, <3>1, <3>2 DEF Route
  <2>2. QED
    BY <1>1, <2>1 DEF Upgraded
<1>6. TypeOK
  <2>1. addr \in BOOLEAN /\ lsok \in BOOLEAN
    BY DEF Init
  <2>2. QED
    BY <1>3, <1>4, <1>5, <2>1, AbsentType, BoundAssumption DEF Init, TypeOK, Listed
<1>7. GrantsComplete
  BY DEF Init, GrantsComplete
<1>8. QED
  BY <1>6, <1>7 DEF TypeInv

LEMMA NextType ==
  ASSUME TypeInv, [Next]_vars
  PROVE  TypeInv'
<1>1. CASE Worker
  <2>1. CASE \E e \in Env : ReconcileGone(e) \/ AddFinalizer(e) \/ StartPass(e)
    BY <2>1, StartTypes
  <2>2. CASE \/ CoreResources \/ MigrateListenerNames \/ ReadPool \/ KeepPort \/ LowestPort
             \/ PoolExhausted \/ PruneL4Routes \/ ApplyListenerSet \/ ApplyRoutes
    BY <2>2, PublishTypes
  <2>3. CASE \/ ReportStatus \/ BlockSpec \/ RejectSpec
             \/ ReportTerminating \/ StripRoutes \/ DropFinalizer
    BY <2>3, EndTypes
  <2>4. QED
    BY <1>1, <2>1, <2>2, <2>3 DEF Worker
<1>2. CASE UNCHANGED vars
  BY <1>2 DEF TypeInv, TypeOK, GrantsComplete, Granted, Exposed, vars
<1>3. QED
  BY <1>1, <1>2, InformerTypes, FaultTypes, ClusterTypes, UserTypes DEF Next

\* Every state the controller, the cluster and their users can reach is well
\* typed: in particular no listener or route is ever written with the zero port
\* of a name allocatePort was not reached for.
THEOREM TypeCorrect == Spec => []TypeOK
<1>1. Init => TypeInv
  BY InitType
<1>2. TypeInv /\ [Next]_vars => TypeInv'
  BY NextType
<1>3. TypeInv => TypeOK
  BY DEF TypeInv
<1>4. QED
  BY <1>1, <1>2, <1>3, PTL DEF Spec

-----------------------------------------------------------------------------
(* No two environments hold the same port *)

\* PortsDisjoint alone is not inductive: ApplyListenerSet declares ports chosen
\* several steps earlier.  The strengthening says that what usedPorts read still
\* covers the other environments' ports while allocatePort runs, and that the
\* ports granted since are in the range and not among them until they are
\* written.  It holds because only the running pass adds a port to anyone.
Exclusive(n) == ports[n] \in Pool \ UsedPorts(cur)

GrantsExclusive ==
  /\ pc = "alloc" => /\ UsedPorts(cur) \subseteq used
                     /\ \A j \in 1 .. i - 1 : Exclusive(view.names[j])
  /\ pc \in {"prune", "listeners"} => \A n \in Exposed(view.names) : Exclusive(n)

PortInv == PortsDisjoint /\ GrantsExclusive

\* A step that adds no listener port and no directly attached route.
NothingClaimed ==
  \A e \in Env :
    /\ \A l \in ls'[e].set : \E k \in ls[e].set : k.port = l.port
    /\ \A r \in rt'[e] : r.ep = "gateway" => \E s \in rt[e] : s.ep = "gateway" /\ s.port = r.port

LEMMA ClaimsShrink ==
  ASSUME NothingClaimed
  PROVE  /\ \A e \in Env : Claimed(e)' \subseteq Claimed(e)
         /\ \A e \in Env : (ClaimedByOthers(e))' \subseteq ClaimedByOthers(e)
<1>1. ASSUME NEW e \in Env PROVE Claimed(e)' \subseteq Claimed(e)
  <2>1. ListenerPorts(e)' \subseteq ListenerPorts(e)
    BY DEF NothingClaimed, ListenerPorts
  <2>2. DirectPorts(e)' \subseteq DirectPorts(e)
    BY DEF NothingClaimed, DirectPorts
  <2>3. QED
    BY <2>1, <2>2 DEF Claimed
<1>2. ASSUME NEW e \in Env PROVE (ClaimedByOthers(e))' \subseteq ClaimedByOthers(e)
  BY <1>1 DEF ClaimedByOthers
<1>3. QED
  BY <1>1, <1>2

\* While nothing is claimed the ports stay disjoint, and what the pass reserved
\* stays reserved.
LEMMA ReservationsStand ==
  ASSUME TypeInv, PortInv, NothingClaimed,
         \/ pc' \notin {"alloc", "prune", "listeners"}
         \/ UNCHANGED <<pc, cur, view, used, i, ports>>
  PROVE  PortInv'
<1>1. PortsDisjoint'
  BY ClaimsShrink DEF PortInv, PortsDisjoint
<1>2. CASE pc' \notin {"alloc", "prune", "listeners"}
  BY <1>1, <1>2 DEF PortInv, GrantsExclusive
<1>3. CASE pc \in {"alloc", "prune", "listeners"} /\ UNCHANGED <<pc, cur, view, used, i, ports>>
  <2>1. cur \in Env
    BY <1>3 DEF TypeInv, TypeOK
  <2>2. (UsedPorts(cur))' \subseteq UsedPorts(cur)
    <3>1. (ClaimedByOthers(cur))' = UNION {Claimed(f)' : f \in Env \ {cur}}
      BY <1>3 DEF ClaimedByOthers
    <3>2. (ClaimedByOthers(cur))' \subseteq ClaimedByOthers(cur)
      BY <2>1, <3>1, ClaimsShrink DEF ClaimedByOthers
    <3>3. QED
      BY <3>2 DEF UsedPorts
  <2>3. \A n : Exclusive(n) => Exclusive(n)'
    BY <1>3, <2>2 DEF Exclusive
  <2>4. GrantsExclusive'
    BY <1>3, <2>2, <2>3 DEF PortInv, GrantsExclusive, Exposed
  <2>5. QED
    BY <1>1, <2>4 DEF PortInv
<1>4. QED
  BY <1>2, <1>3

LEMMA SameServer ==
  ASSUME UNCHANGED <<ls, rt>>
  PROVE  NothingClaimed
BY DEF NothingClaimed

LEMMA DeletedRoutes ==
  ASSUME TypeOK, DeleteRoutes
  PROVE  NothingClaimed
<1> SUFFICES ASSUME NEW e \in Env
             PROVE  ls'[e].set \subseteq ls[e].set /\ rt'[e] \subseteq rt[e]
  BY DEF NothingClaimed
<1>1. ls'[e].set \subseteq ls[e].set
  BY DEF TypeOK, DeleteRoutes, NoListenerSet
<1>2. rt'[e] \subseteq rt[e]
  BY DEF TypeOK, DeleteRoutes
<1>3. QED
  BY <1>1, <1>2

\* migrateListenerNames renames listeners and leaves their ports.
LEMMA MigratedNames ==
  ASSUME TypeInv, MigrateListenerNames
  PROVE  NothingClaimed
<1>1. cur \in Env /\ rt' = rt
  BY DEF TypeInv, TypeOK, MigrateListenerNames
<1>2. CASE ls' = ls
  BY <1>1, <1>2, SameServer
<1>3. CASE /\ cLs[cur] = ls[cur]
           /\ ls' = [ls EXCEPT ![cur] = [set |-> {Named(l) : l \in cLs[cur].set}, ok |-> FALSE]]
  <2>1. ASSUME NEW l \in ls[cur].set PROVE Named(l).port = l.port
    BY <1>1, NamedType DEF TypeInv, TypeOK, ListenerSet
  <2>2. ls'[cur].set = {Named(l) : l \in ls[cur].set}
    BY <1>1, <1>3 DEF TypeInv, TypeOK
  <2>3. \A e \in Env : e # cur => ls'[e] = ls[e]
    BY <1>3 DEF TypeInv, TypeOK
  <2>4. QED
    BY <1>1, <2>1, <2>2, <2>3 DEF NothingClaimed
<1>4. QED
  BY <1>2, <1>3 DEF MigrateListenerNames

LEMMA PrunedRoutes ==
  ASSUME TypeInv, NEW dropped, Prune(dropped), ls' = ls
  PROVE  NothingClaimed
<1>1. \A e \in Env : rt'[e] \subseteq rt[e]
  BY DEF Prune, TypeInv, TypeOK
<1>2. QED
  BY <1>1 DEF NothingClaimed

\* A verdict of the Gateway and a collection add no port.
LEMMA ClusterClaimsNothing ==
  ASSUME TypeInv, Cluster
  PROVE  NothingClaimed
<1>1. PICK e \in Env : GatewayReports(e) \/ GarbageCollect(e)
  BY DEF Cluster
<1>2. CASE GatewayReports(e)
  <2>1. ls'[e].set = ls[e].set /\ rt'[e] = JudgedRoutes(e)
    BY <1>2 DEF GatewayReports, Judged, TypeInv, TypeOK
  <2>2. ASSUME NEW r \in JudgedRoutes(e)
        PROVE  \E s \in rt[e] : s.ep = r.ep /\ s.port = r.port
    BY DEF JudgedRoutes, TypeInv, TypeOK, Route
  <2>3. \A f \in Env : f # e => ls'[f] = ls[f] /\ rt'[f] = rt[f]
    BY <1>2 DEF GatewayReports, TypeInv, TypeOK
  <2>4. QED
    BY <2>1, <2>2, <2>3 DEF NothingClaimed
<1>3. CASE GarbageCollect(e)
  <2>1. \A f \in Env : ls'[f].set \subseteq ls[f].set /\ rt'[f] \subseteq rt[f]
    BY <1>3 DEF GarbageCollect, NoListenerSet, TypeInv, TypeOK
  <2>2. QED
    BY <2>1 DEF NothingClaimed
<1>4. QED
  BY <1>1, <1>2, <1>3

\* The routes of this build attach to listeners, so writing them claims nothing.
LEMMA WrittenRoutes ==
  ASSUME TypeInv, pc = "routes", NEW fail, WriteRoutes(fail), ls' = ls
  PROVE  NothingClaimed
<1> SUFFICES ASSUME NEW e \in Env, NEW r \in rt'[e], r.ep = "gateway"
             PROVE  r \in rt[e]
  BY DEF NothingClaimed
<1>1. r \in rt[e] \/ r \in DesiredRoutes
  BY DEF TypeInv, TypeOK, WriteRoutes
<1>2. ASSUME NEW d \in DesiredRoutes PROVE d.ep # "gateway"
  BY ExposedNames, NameAssumption DEF TypeInv, DesiredRoutes
<1>3. QED
  BY <1>1, <1>2

\* allocatePort grants a port outside used, which covers what the others hold.
LEMMA GrantExclusive ==
  ASSUME TypeInv, PortInv, pc = "alloc", NEW p \in Pool \ used, Grant(p)
  PROVE  PortInv'
<1>1. UNCHANGED <<ls, rt, cur, view>> /\ i' = i + 1 /\ used' = used \cup {p}
  BY DEF Grant, Goto, server
<1>2. PortsDisjoint' /\ (UsedPorts(cur))' = UsedPorts(cur)
  BY <1>1 DEF PortInv, PortsDisjoint, UsedPorts, ClaimedByOthers, Claimed, ListenerPorts, DirectPorts
<1>3. UsedPorts(cur) \subseteq used
  BY DEF PortInv, GrantsExclusive
<1>4. \A j \in 1 .. i : Exclusive(view.names[j])'
  <2> TAKE j \in 1 .. i
  <2>1. view.names[j] \in Name /\ view.names[i] \in Name
    BY ExposedNames DEF TypeInv, TypeOK
  <2>2. ports' = [ports EXCEPT ![view.names[i]] = p]
    BY DEF Grant
  <2>3. CASE view.names[j] = view.names[i]
    BY <1>1, <1>2, <1>3, <2>1, <2>2, <2>3 DEF TypeInv, TypeOK, Ports, Exclusive
  <2>4. CASE view.names[j] # view.names[i]
    <3>1. j \in 1 .. i - 1
      BY <2>4 DEF TypeInv, TypeOK
    <3>2. QED
      BY <1>1, <1>2, <2>1, <2>2, <2>4, <3>1
      DEF PortInv, GrantsExclusive, TypeInv, TypeOK, Ports, Exclusive
  <2>5. QED
    BY <2>3, <2>4
<1>5. GrantsExclusive'
  <2>1. pc' = IF i = Len(view.names) THEN "prune" ELSE "alloc"
    BY DEF Grant, Goto
  <2>2. CASE i = Len(view.names)
    BY <1>1, <1>4, <2>1, <2>2, ExposedNames DEF TypeInv, GrantsExclusive, Exposed
  <2>3. CASE i # Len(view.names)
    BY <1>1, <1>2, <1>3, <1>4, <2>1, <2>3 DEF TypeInv, TypeOK, GrantsExclusive
  <2>4. QED
    BY <2>2, <2>3
<1>6. QED
  BY <1>2, <1>5 DEF PortInv

\* applyListenerSet touches one environment, which then holds what it declares
\* and what its remaining direct routes hold.
LEMMA ListenersWritten ==
  ASSUME TypeInv, ApplyListenerSet
  PROVE  /\ \A f \in Env : f # cur => Claimed(f)' = Claimed(f)
         /\ \/ ls' = ls
            \/ Claimed(cur)' \subseteq {ports[n] : n \in Exposed(view.names)} \cup DirectPorts(cur)
<1>1. cur \in Env /\ rt' = rt /\ cur' = cur
  BY DEF TypeInv, TypeOK, ApplyListenerSet, PublishFailed, Goto
<1>2. CASE ls' = ls
  BY <1>1, <1>2 DEF Claimed, ListenerPorts, DirectPorts
<1>3. CASE ls' = [ls EXCEPT ![cur] = [set |-> DesiredListeners, ok |-> FALSE]]
  <2>1. ASSUME NEW f \in Env, f # cur PROVE Claimed(f)' = Claimed(f)
    BY <1>1, <1>3, <2>1 DEF TypeInv, TypeOK, Claimed, ListenerPorts, DirectPorts
  <2>2. ListenerPorts(cur)' = {l.port : l \in DesiredListeners}
    <3>1. ls'[cur].set = DesiredListeners
      BY <1>1, <1>3 DEF TypeInv, TypeOK
    <3>2. QED
      BY <1>1, <3>1 DEF ListenerPorts
  <2>3. {l.port : l \in DesiredListeners} \subseteq {ports[n] : n \in Exposed(view.names)}
    BY DEF DesiredListeners
  <2>4. DirectPorts(cur)' = DirectPorts(cur)
    BY <1>1 DEF DirectPorts
  <2>5. QED
    BY <2>1, <2>2, <2>3, <2>4 DEF Claimed
<1>4. QED
  BY <1>2, <1>3 DEF ApplyListenerSet

\* The one step that claims ports declares only ports granted in this pass.
LEMMA ListenersExclusive ==
  ASSUME TypeInv, PortInv, ApplyListenerSet
  PROVE  PortInv'
<1>1. cur \in Env /\ rt' = rt /\ pc' \notin {"alloc", "prune", "listeners"}
  BY DEF TypeInv, TypeOK, ApplyListenerSet, PublishFailed, Goto
<1>2. CASE ls' = ls
  BY <1>1, <1>2, SameServer, ReservationsStand
<1>3. CASE ls' # ls
  <2>1. \A f \in Env : f # cur => Claimed(f)' = Claimed(f)
    BY ListenersWritten
  <2>2. Claimed(cur)' \subseteq {ports[n] : n \in Exposed(view.names)} \cup DirectPorts(cur)
    BY <1>3, ListenersWritten
  <2>3. cur' = cur
    BY DEF ApplyListenerSet, PublishFailed, Goto
  <2>4. ASSUME NEW f \in Env, f # cur PROVE Claimed(cur)' \cap Claimed(f) = {}
    <3>1. Claimed(f) \subseteq ClaimedByOthers(cur)
      BY <2>4 DEF ClaimedByOthers
    <3>2. \A n \in Exposed(view.names) : ports[n] \notin Claimed(f)
      BY <3>1 DEF PortInv, GrantsExclusive, Exclusive, UsedPorts, ApplyListenerSet
    <3>3. DirectPorts(cur) \cap Claimed(f) = {}
      BY <1>1, <2>4 DEF PortInv, PortsDisjoint, Claimed
    <3>4. QED
      BY <2>2, <3>2, <3>3
  <2>5. PortsDisjoint'
    <3> SUFFICES ASSUME NEW e \in Env, NEW f \in Env, e # f
                 PROVE  Claimed(e)' \cap Claimed(f)' = {}
      BY DEF PortsDisjoint
    <3>1. CASE e = cur
      BY <2>1, <2>3, <2>4, <3>1
    <3>2. CASE f = cur
      BY <2>1, <2>3, <2>4, <3>2
    <3>3. CASE e # cur /\ f # cur
      BY <2>1, <3>3 DEF PortInv, PortsDisjoint
    <3>4. QED
      BY <3>1, <3>2, <3>3
  <2>6. QED
    BY <1>1, <2>5 DEF PortInv, GrantsExclusive
<1>4. QED
  BY <1>2, <1>3

LEMMA WorkerExclusive ==
  ASSUME TypeInv, PortInv, Worker
  PROVE  PortInv'
<1>1. CASE \E e \in Env : ReconcileGone(e) \/ AddFinalizer(e) \/ StartPass(e)
  <2>1. UNCHANGED <<ls, rt>> /\ pc' \notin {"alloc", "prune", "listeners"}
    BY <1>1 DEF ReconcileGone, AddFinalizer, StartPass, Take, server
  <2>2. QED
    BY <2>1, SameServer, ReservationsStand
<1>2. CASE CoreResources
  <2>1. UNCHANGED <<ls, rt, view>>
    BY <1>2 DEF CoreResources, Goto, server
  <2>2. PortsDisjoint'
    BY <2>1 DEF PortInv, PortsDisjoint, Claimed, ListenerPorts, DirectPorts
  <2>3. pc' \notin {"alloc", "listeners"} /\ (pc' = "prune" => view.names = <<>>)
    BY <1>2 DEF CoreResources, Goto
  <2>4. GrantsExclusive'
    BY <2>1, <2>3 DEF GrantsExclusive, Exposed
  <2>5. QED
    BY <2>2, <2>4 DEF PortInv
<1>3. CASE MigrateListenerNames
  <2>1. pc' \notin {"alloc", "prune", "listeners"}
    BY <1>3 DEF MigrateListenerNames, Idle, Goto
  <2>2. QED
    BY <1>3, <2>1, MigratedNames, ReservationsStand
<1>4. CASE ReadPool
  <2>1. UNCHANGED <<ls, rt, cur>> /\ pc' = "alloc" /\ i' = 1 /\ used' = UsedPorts(cur)
    BY <1>4 DEF ReadPool, Goto, server, TypeInv, GrantsComplete
  <2>2. PortsDisjoint' /\ (UsedPorts(cur))' = UsedPorts(cur)
    BY <2>1 DEF PortInv, PortsDisjoint, UsedPorts, ClaimedByOthers, Claimed, ListenerPorts,
                DirectPorts
  <2>3. GrantsExclusive'
    BY <2>1, <2>2 DEF GrantsExclusive
  <2>4. QED
    BY <2>2, <2>3 DEF PortInv
<1>5. CASE KeepPort
  <2>1. PICK p \in Pool \ used : Grant(p)
    BY <1>5 DEF KeepPort, Keeps
  <2>2. QED
    BY <1>5, <2>1, GrantExclusive DEF KeepPort
<1>6. CASE LowestPort
  <2>1. PICK p \in Pool \ used : Grant(p)
    BY <1>6 DEF LowestPort
  <2>2. QED
    BY <1>6, <2>1, GrantExclusive DEF LowestPort
<1>7. CASE PoolExhausted
  <2>1. UNCHANGED <<ls, rt>> /\ pc' = "status"
    BY <1>7 DEF PoolExhausted, PublishFailed, Goto, server
  <2>2. QED
    BY <2>1, SameServer, ReservationsStand
<1>8. CASE PruneL4Routes
  <2>1. UNCHANGED <<ls, cur, view, ports>> /\ pc' = "listeners" /\ cur \in Env
    BY <1>8 DEF PruneL4Routes, Goto, alloc, TypeInv, TypeOK
  <2>3. NothingClaimed
    BY <1>8, <2>1, PrunedRoutes DEF PruneL4Routes
  <2>4. PortsDisjoint'
    BY <2>3, ClaimsShrink DEF PortInv, PortsDisjoint
  <2>5. \A n \in Exposed(view.names) : Exclusive(n)'
    <3>1. (UsedPorts(cur))' \subseteq UsedPorts(cur)
      <4>1. (ClaimedByOthers(cur))' = UNION {Claimed(f)' : f \in Env \ {cur}}
        BY <2>1 DEF ClaimedByOthers
      <4>2. (ClaimedByOthers(cur))' \subseteq ClaimedByOthers(cur)
        BY <2>1, <2>3, <4>1, ClaimsShrink DEF ClaimedByOthers
      <4>3. QED
        BY <4>2 DEF UsedPorts
    <3>2. QED
      BY <1>8, <2>1, <3>1 DEF PortInv, GrantsExclusive, Exclusive, PruneL4Routes
  <2>6. GrantsExclusive'
    BY <2>1, <2>5 DEF GrantsExclusive, Exposed
  <2>7. QED
    BY <2>4, <2>6 DEF PortInv
<1>9. CASE ApplyListenerSet
  BY <1>9, ListenersExclusive
<1>10. CASE ApplyRoutes
  <2>1. NothingClaimed /\ pc' = "status"
    BY <1>10, WrittenRoutes DEF ApplyRoutes, PublishFailed, Goto
  <2>2. QED
    BY <2>1, ReservationsStand
<1>11. CASE ReportStatus \/ RejectSpec \/ ReportTerminating \/ DropFinalizer
  <2>1. UNCHANGED <<ls, rt>> /\ pc' \in {"idle", "strip"}
    BY <1>11 DEF ReportStatus, RejectSpec, ReportTerminating, DropFinalizer, Idle, Goto
  <2>2. QED
    BY <2>1, SameServer, ReservationsStand
<1>12. CASE BlockSpec \/ StripRoutes
  <2>1. NothingClaimed /\ pc' \in {"reject", "finalize"}
    BY <1>12, DeletedRoutes DEF BlockSpec, StripRoutes, Goto, TypeInv
  <2>2. QED
    BY <2>1, ReservationsStand
<1>13. QED
  BY <1>1, <1>2, <1>3, <1>4, <1>5, <1>6, <1>7, <1>8, <1>9, <1>10, <1>11, <1>12 DEF Worker

LEMMA InitExclusive ==
  ASSUME Init
  PROVE  PortInv
<1>1. PICK names \in [Env -> Exposures], eps \in [Env -> Ports], direct \in [Env -> BOOLEAN] :
        Upgraded(names, eps, direct)
  BY DEF Init
<1>2. ASSUME NEW e \in Env, NEW p \in Claimed(e)
      PROVE  e \in Legacy /\ p # NoPort /\ \E n \in Name : p = eps[e][n]
  <2>1. e \in Legacy /\ \E n \in Exposed(names[e]) : p = eps[e][n]
    <3>1. CASE p \in ListenerPorts(e)
      BY <1>1, <3>1 DEF Upgraded, ListenerPorts, NoListenerSet
    <3>2. CASE p \in DirectPorts(e)
      BY <1>1, <3>2 DEF Upgraded, DirectPorts
    <3>3. QED
      BY <1>2, <3>1, <3>2 DEF Claimed
  <2>2. Exposed(names[e]) \subseteq Name
    BY <1>1, NameAssumption DEF Exposed
  <2>3. QED
    BY <1>1, <2>1, <2>2 DEF Upgraded
<1>3. PortsDisjoint
  BY <1>1, <1>2 DEF PortsDisjoint, Upgraded
<1>4. QED
  BY <1>3 DEF Init, PortInv, GrantsExclusive

LEMMA OthersExclusive ==
  ASSUME TypeInv, PortInv, Informers \/ Faults \/ Cluster \/ Users \/ UNCHANGED vars
  PROVE  PortInv'
<1>1. CASE Informers \/ Users \/ UNCHANGED vars
  <2>1. UNCHANGED <<ls, rt, pc, cur, view, used, i, ports>>
    BY <1>1 DEF Informers, SyncEnv, SyncListenerSet, SyncRoutes, Users, GatewayMoves,
                UserCreates, UserEdits, UserDeletes, server, alloc, vars
  <2>2. QED
    BY <2>1, SameServer, ReservationsStand
<1>2. CASE CoreFails \/ ReportStatusFails \/ ManagerRestart
  <2>1. UNCHANGED <<ls, rt>> /\ pc' = "idle"
    BY <1>2 DEF CoreFails, ReportStatusFails, ManagerRestart, Idle, server
  <2>2. QED
    BY <2>1, SameServer, ReservationsStand
<1>3. CASE PublishCallFails
  <2>1. ls' = ls /\ pc' = "status"
    BY <1>3 DEF PublishCallFails, PublishFailed, Goto
  <2>2. CASE rt' = rt
    BY <2>1, <2>2, SameServer, ReservationsStand
  <2>3. CASE pc = "routes" /\ \E fail \in SUBSET DesiredRoutes : WriteRoutes(fail)
    BY <2>1, <2>3, WrittenRoutes, ReservationsStand
  <2>4. CASE \E dropped \in SUBSET Dropped : Prune(dropped)
    BY <2>1, <2>4, PrunedRoutes, ReservationsStand
  <2>5. QED
    BY <1>3, <2>2, <2>3, <2>4 DEF PublishCallFails
<1>4. CASE Cluster
  <2>1. UNCHANGED <<pc, cur, view, used, i, ports>>
    BY <1>4 DEF Cluster, GatewayReports, GarbageCollect, alloc
  <2>2. QED
    BY <1>4, <2>1, ClusterClaimsNothing, ReservationsStand
<1>5. QED
  BY <1>1, <1>2, <1>3, <1>4 DEF Faults

\* No two environments are ever given the same listener port: for any number of
\* environments and exposures, any pool, informers that lag by any amount, and
\* any number of failed calls, crashes, conflicts and Gateway changes.  The
\* argument rests on the single worker and on usedPorts reading through the API
\* server.
THEOREM PortsNeverShared == Spec => []PortsDisjoint
<1>1. Init => TypeInv /\ PortInv
  BY InitType, InitExclusive
<1>2. TypeInv /\ PortInv /\ [Next]_vars => TypeInv' /\ PortInv'
  BY NextType, WorkerExclusive, OthersExclusive DEF Next
<1>3. TypeInv /\ PortInv => PortsDisjoint
  BY DEF PortInv
<1>4. QED
  BY <1>1, <1>2, <1>3, PTL DEF Spec

-----------------------------------------------------------------------------
(* The controller implements the ledger *)

\* Only applyListenerSet gives an environment a port.
LEMMA OneStepClaims ==
  ASSUME TypeInv, [Next]_vars
  PROVE  NothingClaimed \/ ApplyListenerSet
<1>1. CASE UNCHANGED <<ls, rt>>
  BY <1>1, SameServer
<1>2. CASE MigrateListenerNames \/ PruneL4Routes \/ Cluster
  BY <1>2, MigratedNames, PrunedRoutes, ClusterClaimsNothing DEF PruneL4Routes
<1>3. CASE BlockSpec \/ StripRoutes
  BY <1>3, DeletedRoutes DEF BlockSpec, StripRoutes, TypeInv
<1>4. CASE ApplyRoutes
  BY <1>4, WrittenRoutes DEF ApplyRoutes
<1>5. CASE PublishCallFails
  <2>1. CASE rt' = rt
    BY <1>5, <2>1, SameServer DEF PublishCallFails
  <2>2. CASE pc = "routes" /\ \E fail \in SUBSET DesiredRoutes : WriteRoutes(fail)
    BY <1>5, <2>2, WrittenRoutes DEF PublishCallFails
  <2>3. CASE \E dropped \in SUBSET Dropped : Prune(dropped)
    BY <1>5, <2>3, PrunedRoutes DEF PublishCallFails
  <2>4. QED
    BY <1>5, <2>1, <2>2, <2>3 DEF PublishCallFails
<1>6. QED
  <2>1. ASSUME Worker, ~UNCHANGED <<ls, rt>>
        PROVE  \/ MigrateListenerNames \/ PruneL4Routes \/ BlockSpec \/ StripRoutes
               \/ ApplyRoutes \/ ApplyListenerSet
    BY <2>1 DEF Worker, ReconcileGone, AddFinalizer, StartPass, CoreResources, ReadPool, KeepPort,
                LowestPort, Grant, PoolExhausted, ReportStatus, RejectSpec, ReportTerminating,
                DropFinalizer, server
  <2>2. ASSUME Faults, ~UNCHANGED <<ls, rt>> PROVE PublishCallFails
    BY <2>2 DEF Faults, CoreFails, ReportStatusFails, ManagerRestart, server
  <2>3. ASSUME Informers \/ Users \/ UNCHANGED vars PROVE UNCHANGED <<ls, rt>>
    BY <2>3 DEF Informers, SyncEnv, SyncListenerSet, SyncRoutes, Users, GatewayMoves,
                UserCreates, UserEdits, UserDeletes, server, vars
  <2>4. QED
    BY <1>1, <1>2, <1>3, <1>4, <1>5, <2>1, <2>2, <2>3 DEF Next

\* No step touches the objects of two environments.
LEMMA OneAtATime ==
  ASSUME TypeInv, [Next]_vars, ~UNCHANGED <<ls, rt>>
  PROVE  \E e \in Env : \A f \in Env : f # e => ls'[f] = ls[f] /\ rt'[f] = rt[f]
<1>1. CASE Worker
  <2>1. \/ MigrateListenerNames \/ PruneL4Routes \/ BlockSpec \/ StripRoutes
        \/ ApplyRoutes \/ ApplyListenerSet
    BY <1>1 DEF Worker, ReconcileGone, AddFinalizer, StartPass, CoreResources, ReadPool, KeepPort,
                LowestPort, Grant, PoolExhausted, ReportStatus, RejectSpec, ReportTerminating,
                DropFinalizer, server
  <2>2. cur \in Env
    BY <2>1 DEF MigrateListenerNames, PruneL4Routes, BlockSpec, StripRoutes, ApplyRoutes,
                ApplyListenerSet, TypeInv, TypeOK
  <2>3. \A f \in Env : f # cur => ls'[f] = ls[f] /\ rt'[f] = rt[f]
    BY <2>1 DEF MigrateListenerNames, PruneL4Routes, Prune, BlockSpec, StripRoutes, DeleteRoutes,
                ApplyRoutes, WriteRoutes, ApplyListenerSet, TypeInv, TypeOK
  <2>4. QED
    BY <2>2, <2>3
<1>2. CASE Faults
  <2>1. PublishCallFails
    BY <1>2 DEF Faults, CoreFails, ReportStatusFails, ManagerRestart, server
  <2>2. cur \in Env
    BY <2>1 DEF PublishCallFails, TypeInv, TypeOK
  <2>3. \A f \in Env : f # cur => ls'[f] = ls[f] /\ rt'[f] = rt[f]
    BY <2>1 DEF PublishCallFails, Prune, WriteRoutes, TypeInv, TypeOK
  <2>4. QED
    BY <2>2, <2>3
<1>3. CASE Cluster
  BY <1>3 DEF Cluster, GatewayReports, GarbageCollect, TypeInv, TypeOK
<1>4. CASE Informers \/ Users \/ UNCHANGED vars
  BY <1>4 DEF Informers, SyncEnv, SyncListenerSet, SyncRoutes, Users, GatewayMoves,
              UserCreates, UserEdits, UserDeletes, server, vars
<1>5. QED
  BY <1>1, <1>2, <1>3, <1>4 DEF Next

\* What an environment gains was free at that very step.
LEMMA GainedIsFree ==
  ASSUME TypeInv, PortInv, [Next]_vars, NEW e \in Env
  PROVE  Claimed(e)' \ Claimed(e) \subseteq Pool \ UsedPorts(e)
<1>1. CASE NothingClaimed
  BY <1>1, ClaimsShrink
<1>2. CASE ApplyListenerSet
  <2>1. CASE e # cur
    BY <1>2, <2>1, ListenersWritten
  <2>2. CASE e = cur
    <3>1. cur' = cur /\ rt' = rt
      BY <1>2 DEF ApplyListenerSet, PublishFailed, Goto
    <3>2. CASE ls' = ls
      BY <3>1, <3>2 DEF Claimed, ListenerPorts, DirectPorts
    <3>3. CASE Claimed(cur)' \subseteq {ports[n] : n \in Exposed(view.names)} \cup DirectPorts(cur)
      <4>1. \A n \in Exposed(view.names) : ports[n] \in Pool \ UsedPorts(cur)
        BY <1>2 DEF ApplyListenerSet, PortInv, GrantsExclusive, Exclusive
      <4>2. Claimed(e)' = Claimed(cur)'
        BY <2>2, <3>1 DEF Claimed, ListenerPorts, DirectPorts
      <4>3. QED
        BY <2>2, <3>3, <4>1, <4>2 DEF Claimed
    <3>4. QED
      BY <1>2, <3>2, <3>3, ListenersWritten
  <2>3. QED
    BY <2>1, <2>2
<1>3. QED
  BY <1>1, <1>2, OneStepClaims

LEMMA LedgerStep ==
  ASSUME TypeInv, PortInv, [Next]_vars
  PROVE  Ledger!Next \/ UNCHANGED [e \in Env |-> Claimed(e)]
<1>1. CASE UNCHANGED <<ls, rt>>
  BY <1>1 DEF Claimed, ListenerPorts, DirectPorts
<1>2. CASE ~UNCHANGED <<ls, rt>>
  <2>1. PICK e \in Env : \A f \in Env : f # e => ls'[f] = ls[f] /\ rt'[f] = rt[f]
    BY <1>2, OneAtATime
  <2>2. \A f \in Env : f # e => Claimed(f)' = Claimed(f)
    BY <2>1 DEF Claimed, ListenerPorts, DirectPorts
  <2> DEFINE kept == Claimed(e)' \cap Claimed(e)
             taken == Claimed(e)' \ Claimed(e)
  <2>3. taken \in SUBSET Ledger!Free(e)
    BY GainedIsFree DEF Ledger!Free, UsedPorts, ClaimedByOthers
  <2>4. kept \in SUBSET ([f \in Env |-> Claimed(f)][e])
    OBVIOUS
  <2>5. [f \in Env |-> Claimed(f)]' = [[f \in Env |-> Claimed(f)] EXCEPT ![e] = kept \cup taken]
    BY <2>2
  <2>6. Ledger!Settle(e)
    BY <2>3, <2>4, <2>5 DEF Ledger!Settle
  <2>7. QED
    BY <2>6 DEF Ledger!Next
<1>3. QED
  BY <1>1, <1>2

\* For every set of environments, every pool and every bound, the controller
\* with its caches, crashes and conflicts is a ledger that moves one
\* environment at a time and gives out only what is free: publishRoutes chooses
\* from what usedPorts read, and what applyListenerSet writes is still free.
THEOREM PoolImplementsLedger == Spec => ImplementsLedger
<1>1. Init => TypeInv /\ PortInv
  BY InitType, InitExclusive
<1>2. TypeInv /\ PortInv /\ [Next]_vars => TypeInv' /\ PortInv'
  BY NextType, WorkerExclusive, OthersExclusive DEF Next
<1>3. TypeInv /\ PortInv => Ledger!Init
  <2> SUFFICES ASSUME TypeInv, PortInv PROVE Ledger!Init
    OBVIOUS
  <2>1. ASSUME NEW e \in Env PROVE Claimed(e) \subseteq Nat
    <3>1. ls[e].set \subseteq Listener /\ rt[e] \subseteq Route
      BY DEF TypeInv, TypeOK, ListenerSet
    <3>2. \A l \in Listener : l.port \in Nat
      BY PoolType DEF Listener
    <3>3. \A r \in Route : r.port \in Nat
      BY PoolType DEF Route
    <3>4. QED
      BY <3>1, <3>2, <3>3 DEF Claimed, ListenerPorts, DirectPorts
  <2>2. QED
    BY <2>1 DEF Ledger!Init, PortInv, PortsDisjoint
<1>4. TypeInv /\ PortInv /\ [Next]_vars => [Ledger!Next]_[e \in Env |-> Claimed(e)]
  BY LedgerStep
<1>5. QED
  BY <1>1, <1>2, <1>3, <1>4, PTL DEF Spec, ImplementsLedger, Ledger!Spec
=============================================================================
