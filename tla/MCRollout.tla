----------------------------- MODULE MCRollout -----------------------------
(* Small instances of Rollout for TLC. *)
EXTENDS Rollout

CONSTANTS p1, p2, m1, m2

MCClass == [m \in {m1, m2} |-> IF m = m1 THEN "fast" ELSE "slow"]

\* A router in front of decode workers.
Pair ==
  [roles |-> <<"decode", "router">>,
   deps |-> [decode |-> {}, router |-> {"decode"}], endpoint |-> "router",
   kind |-> [decode |-> "Deployment", router |-> "Deployment"],
   size |-> [decode |-> 1, router |-> 1], tmpl |-> [decode |-> "a", router |-> "a"],
   asset |-> "x", mounts |-> {"decode"}, services |-> {"router"}, scaled |-> {"decode"},
   models |-> {m1, m2}, renders |-> {1, 2}]

\* The same topology with other templates, groups instead of single pods, a
\* render that fails for some replicas and no support for the second model.
Grouped ==
  [Pair EXCEPT !.kind = [decode |-> "LeaderWorkerSet", router |-> "Deployment"],
               !.size = [decode |-> 2, router |-> 1],
               !.tmpl = [decode |-> "b", router |-> "b"],
               !.asset = "y", !.renders = {1}, !.models = {m1}]

\* One role, without assets.
Single ==
  [Pair EXCEPT !.roles = <<"router">>, !.deps = [decode |-> {}, router |-> {}],
               !.asset = None, !.mounts = {"router"}]

Topologies == {Pair, Grouped, Single}

PairFirst == {[p \in Profiles |-> IF p = p1 THEN Pair ELSE Grouped]}
=============================================================================
