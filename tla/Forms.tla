------------------------------- MODULE Forms -------------------------------
(***************************************************************************)
(* The console's forms, checked in one run: the two create wizards and the *)
(* assistant's configuration page.  A behaviour uses one of them while the *)
(* others rest as they were opened.                                        *)
(***************************************************************************)
EXTENDS DevEnvForm, ServiceForm, ConfigPane

Node(id, model, gpu, infiniband, roce) ==
    [id |-> id, model |-> model, gpu |-> gpu, infiniband |-> infiniband, roce |-> roce, schedulable |-> TRUE]

(* An uneven pool of both fabrics, a pool of one, and a cluster without nodes. *)
SmallClusters ==
    { { Node(1, "C500", 8, 0, 4), Node(2, "C550", 8, 3, 0), Node(3, "C550", 6, 2, 4) },
      { Node(1, "C500", 8, 4, 4), Node(2, "C500", 4, 3, 1),
        [Node(3, "C550", 8, 8, 8) EXCEPT !.schedulable = FALSE] },
      {} }

(* The platform's providers, and two identities that fold to one instance name. *)
TwoGateways == <<"cubestack", "cubestack-private">>
FoldedNames == [u \in {"me", "ME", "you"} |-> IF u = "ME" THEN "me" ELSE u]

FormsInit == FormInit /\ DeployInit /\ ConfigInit

(* A form that nobody has touched. *)
DraftRests == draft = Opened /\ edits = 0 /\ focus = (CHOOSE f \in Focus : TRUE)
DeployRests == deploy = DeployOpened /\ deployEdits = 0 /\ nodes = (CHOOSE c \in Clusters : TRUE)
ConfigRests == scene = {} /\ template.defaultModel = Unset

FormsNext ==
    \/ DeployRests /\ ConfigRests /\ FormNext /\ UNCHANGED <<deployVars, catalogVars, paneVars>>
    \/ DraftRests /\ ConfigRests /\ DeployNext /\ UNCHANGED <<formVars, catalogVars, paneVars>>
    \/ DraftRests /\ DeployRests /\ ConfigNext /\ UNCHANGED <<formVars, deployVars>>

FormsSpec == FormsInit /\ [][FormsNext]_<<formVars, deployVars, catalogVars, paneVars>>
=============================================================================
