----------------------------- MODULE PortLedger -----------------------------
(***************************************************************************)
(* What the port pool promises: a ledger of who holds which listener port. *)
(* It says nothing of ListenerSets, routes, caches, passes or crashes.     *)
(***************************************************************************)
EXTENDS Naturals

CONSTANTS
  Holder,    \* who may hold ports
  Range,     \* the ports that are handed out
  Reserved   \* ports that are somebody else's for good

VARIABLE holds   \* the ports each holder has

\* What h may be given: a port of the range that nobody else holds.
Free(h) == Range \ (Reserved \cup UNION {holds[g] : g \in Holder \ {h}})

\* A ledger may start out with ports of an earlier range, each held once.
Init ==
  /\ holds \in [Holder -> SUBSET Nat]
  /\ \A g, h \in Holder : g # h => holds[g] \cap holds[h] = {}

\* One holder gives up any of its ports and takes any that are free.
Settle(h) ==
  \E kept \in SUBSET holds[h], taken \in SUBSET Free(h) :
    holds' = [holds EXCEPT ![h] = kept \cup taken]

Next == \E h \in Holder : Settle(h)

Spec == Init /\ [][Next]_holds

=============================================================================
