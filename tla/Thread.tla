------------------------------- MODULE Thread -------------------------------
(***************************************************************************)
(* The conversation of the agent, checked in one run: the fold of a turn   *)
(* (AgentFold) and the life of its cards (HitlCards) share no state, so a  *)
(* behaviour is about one of them while the other is at rest.              *)
(***************************************************************************)
EXTENDS AgentFold, HitlCards

CardsAtRest ==
    /\ live = FALSE /\ turns = MaxBubbles /\ written = 0
    /\ held = [c \in Cards |-> "unborn"] /\ link = NoLink /\ thread = <<>>
    /\ own = "no" /\ following = FALSE /\ told = FALSE /\ reads = {}
    /\ clicks = [c \in Cards |-> NoClick] /\ lost = 0 /\ elsewhere = 0

FoldAtRest ==
    /\ bubble = [NewAgentMsg EXCEPT !.phase = "done"] /\ doc = <<>> /\ wire = 0
    /\ calls = <<>> /\ results = [c \in Calls |-> <<>>] /\ gated = NoId

Init == (FoldInit /\ CardsAtRest) \/ (FoldAtRest /\ CardsInit)

Next ==
    \/ FoldNext /\ UNCHANGED cardVars
    \/ CardsNext /\ UNCHANGED foldVars

Spec == Init /\ [][Next]_<<foldVars, cardVars>> /\ CardsFairness
=============================================================================
