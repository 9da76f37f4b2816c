------------------------------- MODULE Pages -------------------------------
(***************************************************************************)
(* The two consoles and the assistant's tasks, checked in one run: a       *)
(* behaviour uses one of them while the others are tabs nobody touches.    *)
(***************************************************************************)
EXTENDS DevEnvPage, ServicePage, Tasks, TLC

(* A template with a schedule and a parameter of few values, which is edited
   later, and one with neither a schedule nor a default. *)
TwoTemplates ==
    { [name |-> "w", rev |-> 0, cron |-> "weekly", schema |-> ("a" :> [default |-> "1", enum |-> {"1", "2"}])],
      [name |-> "w", rev |-> 1, cron |-> "weekly", schema |-> ("a" :> [default |-> "2", enum |-> {"2", "3"}])],
      [name |-> "d", rev |-> 0, cron |-> "", schema |-> ("b" :> [default |-> None, enum |-> {}])] }

PageAtRest ==
    /\ doing = {} /\ version = 0 /\ mishaps = 0 /\ orphaned = {}
    /\ envs = [n \in Envs |-> None] /\ page = [Opening EXCEPT !.hidden = TRUE]

SvcAtRest ==
    /\ svcDoing = {} /\ svcVersion = 0 /\ svcMishaps = 0
    /\ svcs = [n \in Services |-> None] /\ svcPage = [SvcOpening EXCEPT !.hidden = TRUE]

TasksAtRest == taskDoing = {} /\ ClusterInit /\ tab = Loaded

Init ==
    \/ PageInit /\ SvcAtRest /\ TasksAtRest
    \/ PageAtRest /\ SvcInit /\ TasksAtRest
    \/ PageAtRest /\ SvcAtRest /\ TasksInit

Next ==
    \/ PageNext /\ UNCHANGED <<svcVars, taskVars>>
    \/ SvcNext /\ UNCHANGED <<pageVars, taskVars>>
    \/ TasksNext /\ UNCHANGED <<pageVars, svcVars>>

Spec == Init /\ [][Next]_<<pageVars, svcVars, taskVars>> /\ PageFairness /\ SvcFairness /\ TaskFairness

(* Either console shows every change of the cluster in the end while somebody
   looks at it, through hidden tabs, failed polls and discarded answers; and the
   tasks tab does not leave a run that is over on screen as running. *)
ListsConverge == ListConverges /\ ServiceListConverges /\ RunFollowed
=============================================================================
