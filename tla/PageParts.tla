------------------------------ MODULE PageParts ------------------------------
(***************************************************************************)
(* What the models of the two consoles share: nothing, and the bounds.     *)
(***************************************************************************)
EXTENDS Naturals, FiniteSets

CONSTANTS None,          \* nothing (a model value)
          MaxVersion,    \* bound: changes of the cluster
          MaxReqs,       \* bound: requests other than lists under way at once
          MaxMishaps     \* bound: failed requests, and polls that overtake a load
=============================================================================
