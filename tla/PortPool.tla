------------------------------ MODULE PortPool ------------------------------
(***************************************************************************)
(* The L4 port pool of the DevEnvironment controller: how one reconcile    *)
(* worker hands out listener ports to many environments, declares them in  *)
(* each environment's ListenerSet, attaches one TCPRoute or UDPRoute per   *)
(* port and publishes the addresses in status.endpoints                    *)
(* (operator/internal/controller/devenvironment_controller.go).            *)
(*                                                                         *)
(* Three parties act.  The API server holds the truth (env, ls, rt, gw).   *)
(* The manager's informers hold copies of it that lag (cEnv, cLs, cRt) and *)
(* wake the worker when a copy moves.  The worker runs one pass at a time  *)
(* (MaxConcurrentReconciles is 1) and every API call of a pass is a step   *)
(* of its own, so users, the Gateway, garbage collection and crashes       *)
(* interleave with it.                                                     *)
(***************************************************************************)
EXTENDS Integers, Sequences, FiniteSets

CONSTANTS
  Env,               \* the DevEnvironments (namespace/name)
  Name,              \* endpoint names: "ssh" and the tcp/udp entries of spec.ports
  UDP,               \* the names exposed over udp; every other name is tcp
  Exposures,         \* the values l4PortNames(env) takes: sequences of names
  L4PortRangeStart,  \* the configured pool
  L4PortRangeEnd,
  GatewayPorts,      \* listener ports the platform declares on the Gateway itself
  Legacy,            \* environments an earlier build already published
  MaxOps,            \* bound: what users create, edit and delete, together
  Prompt,            \* bound: the informers that deliver before the next pass starts
  MaxGateway,        \* bound: times the Gateway changes under the install
  MaxFaults          \* bound: failed API calls and manager crashes together

ASSUME PoolAssumption ==
  /\ L4PortRangeStart \in Nat \ {0}
  /\ L4PortRangeEnd \in Nat
  /\ L4PortRangeStart <= L4PortRangeEnd

ASSUME NameAssumption ==
  /\ UDP \subseteq Name
  /\ Exposures \subseteq Seq(Name)
  /\ <<>> \in Exposures
  /\ \A s \in Exposures : \A j, k \in DOMAIN s : s[j] = s[k] => j = k
  /\ "gateway" \notin Name
  /\ "unnamed" \notin Name
  /\ "none" \notin Env

ASSUME BoundAssumption ==
  /\ MaxOps \in Nat /\ MaxGateway \in Nat /\ MaxFaults \in Nat
  /\ Legacy \subseteq Env
  /\ Prompt \subseteq {"environments", "listenersets", "routes"}
  /\ GatewayPorts \subseteq Nat

-----------------------------------------------------------------------------
(* Values *)

Pool == L4PortRangeStart .. L4PortRangeEnd

\* A recorded port may lie outside the pool: the range is a command-line flag.
Port == 1 .. L4PortRangeEnd

NoPort == 0

Ports == [Name -> Port \cup {NoPort}]

NoPorts == [n \in Name |-> NoPort]

Exposed(names) == {names[j] : j \in DOMAIN names}

\* l4Protocol: the transport a name is exposed over.
Proto(n) == IF n \in UDP THEN "udp" ELSE "tcp"

\* A listener of a ListenerSet.  "unnamed" is one an earlier build wrote, whose
\* name does not say which endpoint it serves (l4ListenerEndpoint gives "").
Listener == [ep : Name \cup {"unnamed"}, port : Port]

\* A ListenerSet with no listeners does not exist.  ok is the Gateway's
\* Accepted verdict on its current generation.
ListenerSet == [set : SUBSET Listener, ok : BOOLEAN]

NoListenerSet == [set |-> {}, ok |-> FALSE]

\* A TCPRoute or UDPRoute.  It is named after its protocol and port; it attaches
\* to the listener of ep, or, for ep = "gateway", straight to the Gateway.
Route == [proto : {"tcp", "udp"}, port : Port,
          ep : Name \cup {"gateway", "unnamed"}, ok : BOOLEAN]

SameRoute(r, s) == r.proto = s.proto /\ r.port = s.port

PhaseName == {"", "Up", "Stopped", "Failed", "Terminating"}

\* RouteReady: absent, true, or false with one of the reasons (and, for a
\* failed publish, the error messages) that are reported.
RouteReady == {"", "Published", "GatewayNotFound", "GatewayNotReady",
               "ListenerNotAccepted", "GatewayNotAccepted",
               "NoFreePort", "Conflict", "CreateFailed"}

\* A DevEnvironment.  life is the object's existence: "new" has no finalizer
\* yet, "deleting" has a deletion timestamp.  names, running and valid are the
\* spec (valid: specFindings has nothing blocking); gen is its generation.
\* obs, phase, route and eps are the status; eps records listener ports.
Object == [life : {"absent", "new", "live", "deleting", "gone"},
           names : Exposures, running : BOOLEAN, valid : BOOLEAN, gen : Nat,
           obs : Nat, phase : PhaseName, route : RouteReady, eps : Ports]

Status == [phase : PhaseName, route : RouteReady, eps : Ports]

NoStatus == [phase |-> "", route |-> "", eps |-> NoPorts]

Absent ==
  [life |-> "absent", names |-> <<>>, running |-> FALSE, valid |-> TRUE, gen |-> 0,
   obs |-> 0, phase |-> "", route |-> "", eps |-> NoPorts]

VARIABLES
  env, ls, rt,       \* the API server: DevEnvironments, ListenerSets, routes
  gw,                \* the Gateway as the manager sees it
  cEnv, cLs, cRt,    \* the informer caches
  queue,             \* the controller's work queue
  pc, cur, view,     \* the worker: step, environment, and the copy Get returned
  used, held,        \* usedPorts and heldPorts of this pass
  i, ports,          \* allocation so far
  lsok,              \* the verdict of the ListenerSet applyListenerSet returned
  addr,              \* whether the Gateway had an address when the pass read it
  st,                \* the status this pass derives
  ops, gwMoves, faults  \* what is left of the bounds

server == <<env, ls, rt>>
cache == <<cEnv, cLs, cRt>>
alloc == <<used, held, i, ports, lsok, addr>>
bounds == <<ops, gwMoves, faults>>
vars == <<env, ls, rt, gw, cEnv, cLs, cRt, queue, pc, cur, view, used, held, i,
          ports, lsok, addr, st, ops, gwMoves, faults>>

-----------------------------------------------------------------------------
(* Reading the server *)

ListenerPorts(e) == {l.port : l \in ls[e].set}

\* A route attached straight to the Gateway holds its port too.
DirectPorts(e) == {r.port : r \in {x \in rt[e] : x.ep = "gateway"}}

Claimed(e) == ListenerPorts(e) \cup DirectPorts(e)

ClaimedByOthers(e) == UNION {Claimed(f) : f \in Env \ {e}}

\* Mutant: allocations read from the endpoint lists, which are withheld.
UsedFromEndpoints(e) ==
  UNION {{env[f].eps[n] : n \in Name} : f \in Env \ {e}} \cup GatewayPorts

\* Mutant: the listeners the platform declares on the Gateway are forgotten.
UsedForgetsGateway(e) == ClaimedByOthers(e)

\* usedPorts, plus the Gateway's own listeners (publishRoutes).
UsedPorts(e) == ClaimedByOthers(e) \cup GatewayPorts

\* Mutant: no fallback to the ListenerSet.
HeldFromEndpoints(e, eps) == eps

\* heldPorts: the published record first, the environment's own ListenerSet,
\* read through, where the list is withheld.
HeldPorts(e, eps) ==
  [n \in Name |->
     LET declared == {l.port : l \in {x \in ls[e].set : x.ep = n}}
     IN  CASE eps[n] # NoPort -> eps[n]
           [] eps[n] = NoPort /\ declared # {} -> CHOOSE p \in declared : TRUE
           [] OTHER -> NoPort]

\* allocatePort's first branch: the port the endpoint holds is still usable.
Keeps(n) == held[n] \in Pool /\ held[n] \notin used

\* desiredListenerSet and the desired routes of this pass.
DesiredListeners == {[ep |-> n, port |-> ports[n]] : n \in Exposed(view.names)}

DesiredRoutes ==
  {[proto |-> Proto(n), port |-> ports[n], ep |-> n, ok |-> FALSE] : n \in Exposed(view.names)}

DesiredPorts == {ports[n] : n \in Exposed(view.names)}

\* enqueueAllDevEnvironments lists the cache.
Listed(c) == {e \in Env : c[e].life \notin {"absent", "gone"}}

-----------------------------------------------------------------------------
(* The worker's bookkeeping *)

Idle ==
  /\ pc' = "idle"
  /\ used' = {} /\ held' = NoPorts /\ i' = 1 /\ ports' = NoPorts /\ lsok' = TRUE /\ addr' = FALSE
  /\ cur' = "none" /\ view' = Absent /\ st' = NoStatus

Goto(label) == pc' = label /\ UNCHANGED <<cur, view>>

\* The error a pass returns re-queues its environment (rate limited).
Requeue == queue' = queue \cup {cur}

Derived(s) == st' = s

\* updateStatusIfChanged: a merge patch of what the pass changed against the
\* copy it read.  A field the pass left as it read it is not sent, so a server
\* that has moved on keeps its own value.
Patch(s, obs) ==
  LET sent(read, want, stored) == IF want # read THEN want ELSE stored
  IN  [env[cur] EXCEPT !.obs = sent(view.obs, obs, @),
                       !.phase = sent(view.phase, s.phase, @),
                       !.route = sent(view.route, s.route, @),
                       !.eps = sent(view.eps, s.eps, @)]

\* The patch, or the NotFound error of an object that is gone.
WriteStatus(s, obs) ==
  IF env[cur].life = "gone"
    THEN Requeue /\ UNCHANGED env
    ELSE env' = [env EXCEPT ![cur] = Patch(s, obs)] /\ UNCHANGED queue

-----------------------------------------------------------------------------
(* Starting a pass: Reconcile up to the spec gate *)

Take(e) ==
  /\ pc = "idle"
  /\ e \in queue
  /\ "environments" \in Prompt => cEnv = env
  /\ "listenersets" \in Prompt => cLs = ls
  /\ "routes" \in Prompt => cRt = rt

\* The object is gone from the cache: nothing to do.
ReconcileGone(e) ==
  /\ Take(e)
  /\ cEnv[e].life \in {"absent", "gone"}
  /\ queue' = queue \ {e}
  /\ UNCHANGED <<server, gw, cache, pc, cur, view, alloc, st, bounds>>

\* The finalizer is added by a merge patch and the pass asks for another.
AddFinalizer(e) ==
  /\ Take(e)
  /\ cEnv[e].life = "new"
  /\ env' = [env EXCEPT ![e].life = IF @ = "new" THEN "live" ELSE @]
  /\ UNCHANGED <<ls, rt, gw, cache, queue, pc, cur, view, alloc, st, bounds>>

\* Mutant: the spec gate is consulted before the deletion timestamp.
StartPassGateFirst(e) ==
  /\ Take(e)
  /\ cEnv[e].life \in {"live", "deleting"}
  /\ queue' = queue \ {e}
  /\ cur' = e
  /\ view' = cEnv[e]
  /\ st' = [phase |-> cEnv[e].phase, route |-> cEnv[e].route, eps |-> cEnv[e].eps]
  /\ pc' = CASE ~cEnv[e].valid -> "block"
             [] cEnv[e].valid /\ cEnv[e].life = "deleting" -> "terminate"
             [] OTHER -> "core"
  /\ UNCHANGED <<server, gw, cache, alloc, bounds>>

StartPass(e) ==
  /\ Take(e)
  /\ cEnv[e].life \in {"live", "deleting"}
  /\ queue' = queue \ {e}
  /\ cur' = e
  /\ view' = cEnv[e]
  /\ st' = [phase |-> cEnv[e].phase, route |-> cEnv[e].route, eps |-> cEnv[e].eps]
  /\ pc' = CASE cEnv[e].life = "deleting" -> "terminate"
             [] cEnv[e].life = "live" /\ ~cEnv[e].valid -> "block"
             [] OTHER -> "core"
  /\ UNCHANGED <<server, gw, cache, alloc, bounds>>

\* Secrets, RBAC, Service, NetworkPolicy and StatefulSet succeed, and
\* reconcileGatewayRoutes reads the Gateway.
CoreResources ==
  /\ pc = "core"
  /\ Goto(CASE gw = "absent" -> "migrate"
            [] gw # "absent" /\ view.names = <<>> -> "prune"
            [] OTHER -> "pool")
  /\ addr' = (gw = "ready")
  /\ UNCHANGED <<server, gw, cache, queue, used, held, i, ports, lsok, st, bounds>>

\* recordStepFailure: a retryable error writes nothing; any other is recorded
\* as phase Failed, with the endpoints kept.  Both return the error.
CoreFails ==
  /\ pc = "core"
  /\ faults > 0
  /\ faults' = faults - 1
  /\ \/ UNCHANGED env
     \/ /\ env[cur].life # "gone"
        /\ env' = [env EXCEPT ![cur] = Patch([st EXCEPT !.phase = "Failed"], view.gen)]
  /\ Requeue
  /\ Idle
  /\ UNCHANGED <<ls, rt, gw, cache, ops, gwMoves>>

-----------------------------------------------------------------------------
(* The Gateway is missing: keep the record of who holds which port *)

\* migrateListenerNames: name each unnamed listener after the endpoint whose
\* record carries its port.
Named(l) ==
  LET holder == {n \in Name : view.eps[n] = l.port}
  IN  IF l.ep = "unnamed" /\ holder # {}
        THEN [l EXCEPT !.ep = CHOOSE n \in holder : TRUE]
        ELSE l

\* Mutant: the endpoints are withdrawn without migrating the listeners.
WithdrawWithoutMigrating ==
  /\ pc = "migrate"
  /\ Goto("status")
  /\ Derived([st EXCEPT !.route = "GatewayNotFound", !.eps = NoPorts])
  /\ UNCHANGED <<env, ls, rt, gw, cache, queue, alloc, bounds>>

MigrateListenerNames ==
  LET migrated == {Named(l) : l \in cLs[cur].set}
  IN  /\ pc = "migrate"
      /\ IF migrated # cLs[cur].set /\ cLs[cur] # ls[cur]
           THEN \* the Update carries a stale resourceVersion: the pass fails
                /\ Requeue
                /\ Idle
                /\ UNCHANGED <<ls>>
           ELSE /\ ls' = IF migrated = cLs[cur].set THEN ls
                         ELSE [ls EXCEPT ![cur] = [set |-> migrated, ok |-> FALSE]]
                /\ Goto("status")
                /\ Derived([st EXCEPT !.route = "GatewayNotFound", !.eps = NoPorts])
                /\ UNCHANGED <<queue, alloc>>
      /\ UNCHANGED <<env, rt, gw, cache, bounds>>

-----------------------------------------------------------------------------
(* publishRoutes *)

\* usedPorts and heldPorts, both read through the API server.
ReadPool ==
  /\ pc = "pool"
  /\ used' = UsedPorts(cur)
  /\ held' = HeldPorts(cur, view.eps)
  /\ Goto("alloc")
  /\ UNCHANGED <<server, gw, cache, queue, i, ports, lsok, addr, st, bounds>>

Grant(p) ==
  /\ ports' = [ports EXCEPT ![view.names[i]] = p]
  /\ used' = used \cup {p}
  /\ i' = i + 1
  /\ Goto(IF i = Len(view.names) THEN "prune" ELSE "alloc")
  /\ UNCHANGED <<server, gw, cache, queue, held, lsok, addr, st, bounds>>

\* allocatePort for the next name: the port it holds, when still free.
KeepPort ==
  /\ pc = "alloc"
  /\ Keeps(view.names[i])
  /\ Grant(held[view.names[i]])

\* allocatePort for the next name: the lowest free port of the range.
LowestPort ==
  /\ pc = "alloc"
  /\ ~Keeps(view.names[i])
  /\ \E p \in Pool \ used :
       /\ \A q \in Pool \ used : p <= q
       /\ Grant(p)

\* A publish that fails is reported on RouteReady and the pass goes on: the
\* error is not returned, and the endpoints stay as they were read.
PublishFailed(reason) ==
  /\ Goto("status")
  /\ Derived([st EXCEPT !.route = reason])

PoolExhausted ==
  /\ pc = "alloc"
  /\ ~Keeps(view.names[i])
  /\ Pool \subseteq used
  /\ PublishFailed("NoFreePort")
  /\ UNCHANGED <<server, gw, cache, queue, alloc, bounds>>

\* pruneL4Routes: delete the listed routes whose port is not desired.
Dropped == {r \in cRt[cur] : r.port \notin DesiredPorts}

Prune(dropped) == rt' = [rt EXCEPT ![cur] = {r \in @ : \A d \in dropped : ~SameRoute(r, d)}]

PruneL4Routes ==
  /\ pc = "prune"
  /\ Prune(Dropped)
  /\ Goto("listeners")
  /\ UNCHANGED <<env, ls, gw, cache, queue, alloc, st, bounds>>

\* applyListenerSet compares with the cached object and writes only a
\* difference; a write against a stale copy is refused.
ApplyListenerSet ==
  LET cached == cLs[cur]
      stale == cached # ls[cur]
      refused == \/ DesiredListeners = {} /\ cached.set # {} /\ ls[cur].set = {}
                 \/ DesiredListeners # {} /\ cached.set = {} /\ ls[cur].set # {}
                 \/ /\ DesiredListeners # {} /\ cached.set # {}
                    /\ cached.set # DesiredListeners /\ stale
      same == cached.set = DesiredListeners
  IN  /\ pc = "listeners"
      /\ IF refused
           THEN PublishFailed("Conflict") /\ UNCHANGED <<ls, lsok>>
           ELSE /\ ls' = IF same THEN ls
                         ELSE [ls EXCEPT ![cur] = [set |-> DesiredListeners, ok |-> FALSE]]
                /\ lsok' = (DesiredListeners = {} \/ (same /\ cached.ok))
                /\ Goto("routes")
                /\ UNCHANGED st
      /\ UNCHANGED <<env, rt, gw, cache, queue, used, held, i, ports, addr, bounds>>

\* The routes this pass leaves when applying d stops at the first of fail:
\* applyTCPRoute and applyUDPRoute run in ascending port order.
Before(d, fail) == \A f \in fail : d.port < f.port

CachedAs(d) == {r \in cRt[cur] : SameRoute(r, d)}

ServedAs(d) == {r \in rt[cur] : SameRoute(r, d)}

Unchanged(d) == \E r \in CachedAs(d) : r.ep = d.ep

Refused(d) == ~Unchanged(d) /\ CachedAs(d) # ServedAs(d)

WriteRoutes(fail) ==
  LET done == {d \in DesiredRoutes : Before(d, fail) /\ ~Unchanged(d)}
  IN  rt' = [rt EXCEPT ![cur] = {r \in @ : \A d \in done : ~SameRoute(r, d)} \cup done]

\* What the Gateway says of what was just applied decides whether the addresses
\* are published: an object written in this pass carries no verdict yet.
RouteVerdict ==
  CASE ~addr -> "GatewayNotReady"
    [] addr /\ ~lsok -> "ListenerNotAccepted"
    [] addr /\ lsok
         /\ \E d \in DesiredRoutes : \A r \in CachedAs(d) : ~(r.ep = d.ep /\ r.ok)
         -> "GatewayNotAccepted"
    [] OTHER -> "Published"

ApplyRoutes ==
  LET fail == {d \in DesiredRoutes : Refused(d)}
  IN  /\ pc = "routes"
      /\ WriteRoutes(fail)
      /\ IF fail # {}
           THEN PublishFailed("Conflict")
           ELSE /\ Goto("status")
                /\ Derived([st EXCEPT !.route = RouteVerdict,
                                      !.eps = IF RouteVerdict = "Published"
                                                THEN ports ELSE NoPorts])
      /\ UNCHANGED <<env, ls, gw, cache, queue, alloc, bounds>>

\* One of publishRoutes' API calls fails, the calls before it done.
PublishCallFails ==
  /\ faults > 0
  /\ faults' = faults - 1
  /\ pc \in {"pool", "prune", "listeners", "routes"}
  /\ \/ UNCHANGED rt
     \/ pc = "prune" /\ \E dropped \in SUBSET Dropped : Prune(dropped)
     \/ pc = "routes" /\ \E d \in DesiredRoutes : WriteRoutes({d} \cup {x \in DesiredRoutes : Refused(x)})
  /\ PublishFailed("CreateFailed")
  /\ UNCHANGED <<env, ls, gw, cache, queue, alloc, ops, gwMoves>>

-----------------------------------------------------------------------------
(* Ending a pass *)

\* Mutant: a stopped environment keeps its addresses.
ReportStatusKeepsEndpoints ==
  /\ pc = "status"
  /\ WriteStatus([st EXCEPT !.phase = IF view.running THEN "Up" ELSE "Stopped"], view.gen)
  /\ Idle
  /\ UNCHANGED <<ls, rt, gw, cache, bounds>>

\* setPhaseAndReady, withdrawStoppedEndpoints and updateStatusIfChanged.
ReportStatus ==
  /\ pc = "status"
  /\ WriteStatus([st EXCEPT !.phase = IF view.running THEN "Up" ELSE "Stopped",
                            !.eps = IF view.running THEN @ ELSE NoPorts],
                 view.gen)
  /\ Idle
  /\ UNCHANGED <<ls, rt, gw, cache, bounds>>

\* The write of the status fails and the pass returns the error.
ReportStatusFails ==
  /\ pc = "status"
  /\ faults > 0
  /\ faults' = faults - 1
  /\ Requeue
  /\ Idle
  /\ UNCHANGED <<server, gw, cache, ops, gwMoves>>

\* deleteRoutes: what the cache lists is deleted, whatever its version.
DeleteRoutes ==
  /\ rt' = [rt EXCEPT ![cur] = {r \in @ : \A d \in cRt[cur] : ~SameRoute(r, d)}]
  /\ ls' = IF cLs[cur].set = {} THEN ls ELSE [ls EXCEPT ![cur] = NoListenerSet]

\* The spec gate: compute is stopped, the routes are withdrawn, then the
\* failure is reported.
BlockSpec ==
  /\ pc = "block"
  /\ DeleteRoutes
  /\ Goto("reject")
  /\ UNCHANGED <<env, gw, cache, queue, alloc, st, bounds>>

RejectSpec ==
  /\ pc = "reject"
  /\ WriteStatus([phase |-> "Failed", route |-> "", eps |-> NoPorts], view.gen)
  /\ Idle
  /\ UNCHANGED <<ls, rt, gw, cache, bounds>>

\* cleanup: Terminating is reported, the objects are deleted, and the finalizer
\* is dropped from the copy the cache holds by then.
ReportTerminating ==
  /\ pc = "terminate"
  /\ WriteStatus([st EXCEPT !.phase = "Terminating"], view.obs)
  /\ IF env[cur].life = "gone" THEN Idle ELSE Goto("strip") /\ UNCHANGED <<alloc, st>>
  /\ UNCHANGED <<ls, rt, gw, cache, bounds>>

StripRoutes ==
  /\ pc = "strip"
  /\ DeleteRoutes
  /\ Goto("finalize")
  /\ UNCHANGED <<env, gw, cache, queue, alloc, st, bounds>>

DropFinalizer ==
  /\ pc = "finalize"
  /\ IF cEnv[cur] = env[cur]
       THEN env' = [env EXCEPT ![cur].life = "gone"] /\ UNCHANGED queue
       ELSE UNCHANGED env /\ Requeue
  /\ Idle
  /\ UNCHANGED <<ls, rt, gw, cache, bounds>>

-----------------------------------------------------------------------------
(* The manager's informers, and its crash *)

\* Mutant: a changed environment wakes only itself.
SyncEnvOwnOnly(e) ==
  /\ cEnv[e] # env[e]
  /\ cEnv' = [cEnv EXCEPT ![e] = env[e]]
  /\ queue' = queue \cup {e}
  /\ UNCHANGED <<server, gw, cLs, cRt, pc, cur, view, alloc, st, bounds>>

SyncEnv(e) ==
  /\ cEnv[e] # env[e]
  /\ cEnv' = [cEnv EXCEPT ![e] = env[e]]
  /\ queue' = queue \cup {e} \cup Listed(cEnv')
  /\ UNCHANGED <<server, gw, cLs, cRt, pc, cur, view, alloc, st, bounds>>

SyncListenerSet(e) ==
  /\ cLs[e] # ls[e]
  /\ cLs' = [cLs EXCEPT ![e] = ls[e]]
  /\ queue' = queue \cup {e}
  /\ UNCHANGED <<server, gw, cEnv, cRt, pc, cur, view, alloc, st, bounds>>

SyncRoutes(e) ==
  /\ cRt[e] # rt[e]
  /\ cRt' = [cRt EXCEPT ![e] = rt[e]]
  /\ queue' = queue \cup {e}
  /\ UNCHANGED <<server, gw, cEnv, cLs, pc, cur, view, alloc, st, bounds>>

\* The manager dies at any step; the next one lists everything afresh.
ManagerRestart ==
  /\ faults > 0
  /\ faults' = faults - 1
  /\ cEnv' = env /\ cLs' = ls /\ cRt' = rt
  /\ queue' = Listed(env)
  /\ Idle
  /\ UNCHANGED <<server, gw, ops, gwMoves>>

-----------------------------------------------------------------------------
(* The rest of the cluster *)

\* The Gateway controller reports on an environment's objects as they are now.
\* A listener whose port something else binds is Conflicted.
Judged(e) ==
  [set |-> ls[e].set,
   ok |-> /\ ls[e].set # {}
          /\ ListenerPorts(e) \cap (GatewayPorts \cup ClaimedByOthers(e)) = {}]

JudgedRoutes(e) ==
  {[r EXCEPT !.ok = \/ r.ep = "gateway"
                    \/ \E l \in ls[e].set : l.ep = r.ep /\ l.port = r.port]
     : r \in rt[e]}

GatewayReports(e) ==
  /\ gw # "absent"
  /\ <<Judged(e), JudgedRoutes(e)>> # <<ls[e], rt[e]>>
  /\ ls' = [ls EXCEPT ![e] = Judged(e)]
  /\ rt' = [rt EXCEPT ![e] = JudgedRoutes(e)]
  /\ UNCHANGED <<env, gw, cache, queue, pc, cur, view, alloc, st, bounds>>

\* The platform creates, deletes or readdresses the Gateway; the Gateway watch
\* wakes every environment.
GatewayMoves ==
  /\ gwMoves > 0
  /\ gwMoves' = gwMoves - 1
  /\ gw' \in {"absent", "noaddr", "ready"} \ {gw}
  /\ queue' = queue \cup Listed(cEnv)
  /\ UNCHANGED <<server, cache, pc, cur, view, alloc, st, ops, faults>>

\* The objects of a deleted environment are collected by their owner reference.
GarbageCollect(e) ==
  /\ env[e].life = "gone"
  /\ ls[e].set # {} \/ rt[e] # {}
  /\ ls' = [ls EXCEPT ![e] = NoListenerSet]
  /\ rt' = [rt EXCEPT ![e] = {}]
  /\ UNCHANGED <<env, gw, cache, queue, pc, cur, view, alloc, st, bounds>>

UserCreates(e) ==
  /\ env[e].life = "absent"
  /\ ops > 0
  /\ \E names \in Exposures, running \in BOOLEAN :
       env' = [env EXCEPT ![e] = [@ EXCEPT !.life = "new", !.names = names, !.running = running]]
  /\ ops' = ops - 1
  /\ UNCHANGED <<ls, rt, gw, cache, queue, pc, cur, view, alloc, st, gwMoves, faults>>

Respec(e, names, running, valid) ==
  [env[e] EXCEPT !.names = names, !.running = running, !.valid = valid, !.gen = env[e].gen + 1]

\* A patch of the spec changes the exposures, the power switch, or whether the
\* spec gate lets it through.
UserEdits(e) ==
  /\ env[e].life \in {"new", "live"}
  /\ ops > 0
  /\ \/ \E names \in Exposures \ {env[e].names} :
          env' = [env EXCEPT ![e] = Respec(e, names, env[e].running, env[e].valid)]
     \/ env' = [env EXCEPT ![e] = Respec(e, env[e].names, ~env[e].running, env[e].valid)]
     \/ env' = [env EXCEPT ![e] = Respec(e, env[e].names, env[e].running, ~env[e].valid)]
  /\ ops' = ops - 1
  /\ UNCHANGED <<ls, rt, gw, cache, queue, pc, cur, view, alloc, st, gwMoves, faults>>

UserDeletes(e) ==
  /\ env[e].life \in {"new", "live"}
  /\ ops > 0
  /\ env' = [env EXCEPT ![e].life = IF @ = "new" THEN "gone" ELSE "deleting"]
  /\ ops' = ops - 1
  /\ UNCHANGED <<ls, rt, gw, cache, queue, pc, cur, view, alloc, st, gwMoves, faults>>

-----------------------------------------------------------------------------
(* The specification *)

\* An environment an earlier build published: its ports are recorded in its
\* endpoint list, and either declared by listeners that do not name their
\* endpoint or held by routes attached to the Gateway itself.
Published(names, eps) ==
  [Absent EXCEPT !.life = "live", !.names = names, !.running = TRUE, !.phase = "Up",
                        !.route = "Published", !.eps = eps]

\* What an upgrade finds: distinct recorded ports, each declared.  direct says
\* which environments are published by routes attached to the Gateway.
Upgraded(names, eps, direct) ==
  /\ \A e \in Env : \A n \in Name :
       eps[e][n] # NoPort <=> (e \in Legacy /\ n \in Exposed(names[e]))
  /\ \A e, f \in Legacy : \A n, m \in Name :
       (eps[e][n] = eps[f][m] /\ eps[e][n] # NoPort) => (e = f /\ n = m)
  /\ \A e \in Env : direct[e] => e \in Legacy /\ Exposed(names[e]) \cap UDP = {}
  /\ \A e \in Env \ Legacy : names[e] = <<>>
  /\ env = [e \in Env |-> IF e \in Legacy THEN Published(names[e], eps[e]) ELSE Absent]
  /\ ls = [e \in Env |->
             IF e \in Legacy /\ ~direct[e] /\ names[e] # <<>>
               THEN [set |-> {[ep |-> "unnamed", port |-> eps[e][n]] : n \in Exposed(names[e])},
                     ok |-> TRUE]
               ELSE NoListenerSet]
  /\ rt = [e \in Env |->
             {[proto |-> Proto(n), port |-> eps[e][n],
               ep |-> IF direct[e] THEN "gateway" ELSE "unnamed", ok |-> TRUE]
                : n \in IF e \in Legacy THEN Exposed(names[e]) ELSE {}}]

Init ==
  /\ \E names \in [Env -> Exposures], eps \in [Env -> Ports], direct \in [Env -> BOOLEAN] :
       Upgraded(names, eps, direct)
  /\ gw = "ready"
  /\ cEnv = env /\ cLs = ls /\ cRt = rt
  /\ queue = Listed(env)
  /\ pc = "idle"
  /\ cur = "none" /\ view = Absent /\ st = NoStatus
  /\ used = {} /\ held = NoPorts /\ i = 1 /\ ports = NoPorts /\ lsok = TRUE /\ addr = FALSE
  /\ ops = MaxOps /\ gwMoves = MaxGateway /\ faults = MaxFaults

Worker ==
  \/ \E e \in Env : ReconcileGone(e) \/ AddFinalizer(e) \/ StartPass(e)
  \/ CoreResources \/ MigrateListenerNames
  \/ ReadPool \/ KeepPort \/ LowestPort \/ PoolExhausted
  \/ PruneL4Routes \/ ApplyListenerSet \/ ApplyRoutes \/ ReportStatus
  \/ BlockSpec \/ RejectSpec
  \/ ReportTerminating \/ StripRoutes \/ DropFinalizer

Informers == \E e \in Env : SyncEnv(e) \/ SyncListenerSet(e) \/ SyncRoutes(e)

Faults == CoreFails \/ PublishCallFails \/ ReportStatusFails \/ ManagerRestart

Cluster == \E e \in Env : GatewayReports(e) \/ GarbageCollect(e)

Users ==
  \/ GatewayMoves
  \/ \E e \in Env : UserCreates(e) \/ UserEdits(e) \/ UserDeletes(e)

Next == Worker \/ Informers \/ Faults \/ Cluster \/ Users

Spec == Init /\ [][Next]_vars

\* The worker's goroutine keeps running, watches are delivered, and the Gateway
\* controller and the garbage collector do their work.  Users, Gateway changes,
\* failed calls and crashes are owed nothing.
Fairness == WF_vars(Worker) /\ WF_vars(Informers) /\ WF_vars(Cluster)

FairSpec == Spec /\ Fairness

-----------------------------------------------------------------------------
(* Properties *)

\* The state is well typed.
TypeOK ==
  /\ env \in [Env -> Object] /\ cEnv \in [Env -> Object]
  /\ ls \in [Env -> ListenerSet] /\ cLs \in [Env -> ListenerSet]
  /\ rt \in [Env -> SUBSET Route] /\ cRt \in [Env -> SUBSET Route]
  /\ gw \in {"absent", "noaddr", "ready"}
  /\ queue \subseteq Env
  /\ pc \in {"idle", "core", "migrate", "pool", "alloc", "prune", "listeners", "routes",
             "status", "block", "reject", "terminate", "strip", "finalize"}
  /\ cur \in Env \cup {"none"} /\ (pc # "idle" => cur \in Env)
  /\ view \in Object
  /\ used \subseteq Nat
  /\ held \in Ports /\ ports \in Ports
  /\ i \in Nat \ {0} /\ (pc = "alloc" => i <= Len(view.names))
  /\ lsok \in BOOLEAN /\ addr \in BOOLEAN
  /\ st \in Status
  /\ ops \in Nat /\ gwMoves \in Nat /\ faults \in Nat

\* No two environments ever hold the same listener port, whatever declares it:
\* allocation (usedPorts, then applyListenerSet) has no reservation between the
\* read of the pool and the write, and none of the stale caches, crashes,
\* conflicts and deletions in between may break it.
PortsDisjoint ==
  \A e, f \in Env : e # f => Claimed(e) \cap Claimed(f) = {}

\* The ports the environments hold, as PortLedger's entries.
Ledger == INSTANCE PortLedger
            WITH Holder <- Env, Range <- Pool, Reserved <- GatewayPorts,
                 holds <- [e \in Env |-> Claimed(e)]

\* The whole controller implements the ledger: no call, watch, crash or Gateway
\* change moves the ports of two environments at once, and what an environment
\* gains was free at that very step, although usedPorts looked several steps
\* before applyListenerSet writes: inside the range, not one of the Gateway's
\* own listeners, and nobody else's.
ImplementsLedger == Ledger!Spec

\* A name the specs put in front of another, for which allocatePort is asked first.
InFront(first, second) ==
  \E names \in Exposures : \E j, k \in DOMAIN names : j < k /\ names[j] = first /\ names[k] = second

\* heldPorts and allocatePort: an endpoint that stays declared keeps its port
\* ("reusing the port that endpoint already holds when it is still free"), and
\* the one way to lose it is to a newcomer of the same environment that the spec
\* names in front of it, in the very write that adds the newcomer: a Gateway that
\* comes and goes, an upgrade, a restart and a withheld endpoint list never move it.
StablePorts ==
  [][\A e \in Env : \A l \in ls[e].set, m \in ls'[e].set :
       (l.ep = m.ep /\ l.ep # "unnamed" /\ l.port \in Pool \ GatewayPorts /\ m.port # l.port)
         => \E n \in ls'[e].set : /\ n.port = l.port /\ InFront(n.ep, l.ep)
                                 /\ \A k \in ls[e].set : k.ep # n.ep]_vars

\* The Gateway coming and going, an upgrade from the build whose listeners do
\* not name their endpoint, and a stop and start leave an environment on the
\* ports it was given: a rewrite of its ListenerSet that declares as many
\* listeners as before declares the same ports (migrateListenerNames: it would
\* "otherwise come back on a new port, at an address no one was given").
AddressKept ==
  [][\A e \in Env :
       (ls[e].set # {} /\ Cardinality(ls'[e].set) = Cardinality(ls[e].set))
         => ListenerPorts(e)' = ListenerPorts(e)]_vars

\* Nothing is left to do: no work queued, no watch event in flight, and the
\* Gateway has reported on everything.
Settled ==
  /\ pc = "idle" /\ queue = {}
  /\ cEnv = env /\ cLs = ls /\ cRt = rt
  /\ \A e \in Env : /\ gw # "absent" => ls[e] = Judged(e) /\ rt[e] = JudgedRoutes(e)
                    /\ env[e].life = "gone" => ls[e].set = {} /\ rt[e] = {}

\* At rest every address in status.endpoints connects: the environment is
\* running, the Gateway serves it, and the listener and route of that very port
\* are declared for that endpoint and accepted.
EndpointsTruthful ==
  Settled =>
    \A e \in Listed(env) : \A n \in Name :
      env[e].eps[n] # NoPort =>
        /\ gw = "ready" /\ env[e].running /\ env[e].valid
        /\ n \in Exposed(env[e].names)
        /\ ls[e].ok /\ [ep |-> n, port |-> env[e].eps[n]] \in ls[e].set
        /\ \E r \in rt[e] : r.ep = n /\ r.port = env[e].eps[n] /\ r.ok

\* No wake-up is lost: at rest with a Gateway present, every environment whose
\* spec is accepted has a listener for every exposure it asks for, unless the
\* ports the others leave free are too few.
EveryoneServed ==
  Settled /\ gw # "absent" =>
    \A e \in Env : env[e].life = "live" /\ env[e].valid =>
      \/ {l.ep : l \in ls[e].set} = Exposed(env[e].names)
      \/ Cardinality(Pool \ UsedPorts(e)) < Len(env[e].names)

\* pruneL4Routes and deleteRoutes leave nothing behind: at rest with a Gateway
\* present every route serves a listener of its environment, "a leftover route
\* would keep claiming the Gateway listener".
NoLeftoverRoutes ==
  Settled /\ gw # "absent" =>
    \A e \in Env : env[e].route \notin {"NoFreePort", "CreateFailed"} =>
      \A r \in rt[e] : \E l \in ls[e].set : l.port = r.port /\ l.ep = r.ep

\* What is published is what there is: an address that is reported connects, and
\* a route that is there serves a listener of its environment.
PublishedIsTrue == EndpointsTruthful /\ NoLeftoverRoutes

\* Once users and failures stop, the controller comes to rest: no pass keeps
\* waking itself, and none leaves a deleted environment's object behind with its
\* finalizer, holding its name and its ports (cleanup).
ComesToRest == <>[](Settled /\ \A e \in Env : env[e].life # "deleting")
=============================================================================
