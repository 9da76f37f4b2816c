----------------------------- MODULE TopoOrder -----------------------------
(***************************************************************************)
(* topoOrder (operator/internal/controller/topo.go): the order in which    *)
(* the roles of a profile are applied.  roles is the profile's list, deps  *)
(* maps a role to the set of roles it depends on, and endpoint names the   *)
(* role that goes last when no role depends on it.                         *)
(***************************************************************************)
EXTENDS Integers, Sequences

\* A role depends on a name the profile does not declare.
UnknownDependency(roles, deps) ==
  \E i \in DOMAIN roles : ~(deps[roles[i]] \subseteq {roles[j] : j \in DOMAIN roles})

DependedOn(roles, deps, name) == \E i \in DOMAIN roles : name \in deps[roles[i]]

\* The loops that fill the queue: the roles of the list that are ready go to its
\* end, in the order of the list.
Enqueue(queue, roles, ready) ==
  LET upto[n \in 0 .. Len(roles)] ==
        IF n = 0 THEN queue
        ELSE IF roles[n] \in ready THEN Append(upto[n - 1], roles[n]) ELSE upto[n - 1]
  IN upto[Len(roles)]

\* unmet stands for indegree: the dependencies not ordered yet.
TopoStart(roles, deps) ==
  LET names == {roles[i] : i \in DOMAIN roles}
  IN [queue |-> Enqueue(<<>>, roles, {r \in names : deps[r] = {}}), order |-> <<>>,
      unmet |-> [r \in names |-> deps[r]]]

\* One turn of the loop: take the last of the queue; either send the endpoint
\* to its front, or order the role and queue the roles that waited only for it.
TopoStep(roles, deps, endpoint, s) ==
  LET name == s.queue[Len(s.queue)]
      rest == SubSeq(s.queue, 1, Len(s.queue) - 1)
  IN IF name = endpoint /\ ~DependedOn(roles, deps, name) /\ rest # <<>>
     THEN [s EXCEPT !.queue = <<name>> \o rest]
     ELSE [queue |-> Enqueue(rest, roles, {r \in DOMAIN s.unmet : s.unmet[r] = {name}}),
           order |-> Append(s.order, name),
           unmet |-> [r \in DOMAIN s.unmet |-> s.unmet[r] \ {name}]]

\* The loop runs once per role, and once more when it defers the endpoint.
TopoRun(roles, deps, endpoint) ==
  LET turn[n \in 0 .. Len(roles) + 1] ==
        IF n = 0 THEN TopoStart(roles, deps)
        ELSE IF turn[n - 1].queue = <<>> THEN turn[n - 1]
        ELSE TopoStep(roles, deps, endpoint, turn[n - 1])
  IN turn[Len(roles) + 1]

\* The second result of topoOrder: an unknown name, or a cycle.
TopoError(roles, deps, endpoint) ==
  \/ UnknownDependency(roles, deps)
  \/ Len(TopoRun(roles, deps, endpoint).order) # Len(roles)

topoOrder(roles, deps, endpoint) == TopoRun(roles, deps, endpoint).order
=============================================================================
