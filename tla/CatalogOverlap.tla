--------------------------- MODULE CatalogOverlap ---------------------------
(***************************************************************************)
(* Two requests of the provider editor at once: pages of two users, or one *)
(* page whose request was sent again.  Each is the chain of calls of       *)
(* AgentCatalog; the API server takes the calls in any order, and what a   *)
(* request has read by then (its position in the list above all) is its    *)
(* own.  Nobody saves a configuration meanwhile, and no call goes wrong:   *)
(* the routes' order of reading, guarding and patching is all there is.    *)
(***************************************************************************)
EXTENDS AgentCatalog

VARIABLE rival      \* the request of the editor that waits while llm has its calls

overlapVars == <<catalogVars, rival>>

OneGateway == <<"cubestack">>
OwnNames == [u \in {"me", "you"} |-> u]

(* The other request has the next call. *)
TheOthersTurn ==
    /\ llm # Unset \/ rival # Unset
    /\ llm' = rival /\ rival' = llm
    /\ UNCHANGED <<template, secrets, instances, live, save, scene, requests, mishap>>

(* A keyed provider nobody selects in front of one that "you" select; "me" saved
   last, and moved the default to the platform's entry. *)
OverlapInit ==
    /\ template = [providers |-> <<Keyed, Borrowing, Declared>>,
                   defaultModel |-> <<Gateways[1], "m">>, resourceVersion |-> 0]
    /\ secrets = {"x", "shared"}
    /\ instances = [n \in Range(InstanceName) |->
                       [owner |-> n, selected |-> IF n = "you" THEN <<"y", "n">> ELSE <<Gateways[1], "m">>]]
    /\ live = [g \in GatewayNames |-> {"m"}]
    /\ llm = Unset /\ rival = Unset /\ save = Unset
    /\ scene \in Scenes /\ requests = 0 /\ mishap = "none"

OverlapNext ==
    \/ (LlmLooks \/ LlmGuards \/ LlmPatches \/ LlmCredential \/ LlmUndo \/ OthersEdit) /\ UNCHANGED rival
    \/ TheOthersTurn

OverlapSpec == OverlapInit /\ [][OverlapNext]_overlapVars

-----------------------------------------------------------------------------
(* Property *)

(* What somebody's assistant selects stays in the catalogue: the routes refuse an
   edit or a removal of it, "deleting it would break their turns"
   (llms/[name]/route.ts:181, and 113 for an edit).  They ask about the entry they
   read, and patch the position it had. *)
InUseStays ==
    \A n \in DOMAIN instances : instances[n].selected \in ListedRefs(template)
=============================================================================
