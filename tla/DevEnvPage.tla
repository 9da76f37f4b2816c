----------------------------- MODULE DevEnvPage -----------------------------
(***************************************************************************)
(* The development environments console (app/dev-environments/page.tsx)    *)
(* over its API routes and the cluster: one polled list, the row that is   *)
(* open and the credentials it shows, the actions of a row, the dialogs,   *)
(* and the creation of an environment with the user's own SSH keys.        *)
(*                                                                         *)
(* A request is a record of page.reqs from the click to the moment its     *)
(* answer is acted on; the routes make their calls to the API server one   *)
(* step at a time, and the operator and other users work in between.       *)
(***************************************************************************)
EXTENDS PageParts

CONSTANTS Envs,          \* the names environments can have
          Doings,        \* bound: what is done, and to which environments, in one behaviour
          Credentials    \* what an open row can be asked for: "token", "ssh", "env"

VARIABLES doing,         \* what is done, and to what, in this behaviour
          envs,          \* the DevEnvironments of the cluster, by name
          version,       \* changes so far: the resourceVersion of a list
          page,          \* the state of the page
          mishaps,       \* mishaps so far
          orphaned       \* environments whose keys could be neither written nor unwound

pageVars == <<doing, envs, version, page, mishaps, orphaned>>

Absolutely == UNCHANGED <<envs, version, mishaps, orphaned>>

(* keys: does the environment ask for a Secret of the user's keys, and is it
   there?  uid tells two environments of one name apart. *)
NewEnv(keys) ==
    [uid |-> version + 1, running |-> TRUE, mark |-> FALSE, phase |-> "Pending", keys |-> keys]

Phases == {"Pending", "Running", "Stopped"}

(* Nothing is neither a name nor an environment nor a row. *)
ASSUME PageAssumption ==
    /\ None \notin Envs
    /\ None \notin [uid : Nat, phase : Phases]
    /\ None \notin [uid : Nat, running : BOOLEAN, mark : BOOLEAN, phase : Phases, keys : {"none", "missing", "there"}]

(* What the list carries of an environment. *)
Project(e) == IF e = None THEN None ELSE [uid |-> e.uid, phase |-> e.phase]

Request(kind, n, pc) ==
    [kind |-> kind, name |-> n, pc |-> pc, cur |-> TRUE, ok |-> TRUE, ans |-> None,
     at |-> 0, keys |-> FALSE, mark |-> FALSE]

Opening ==
    [items |-> [n \in Envs |-> None], version |-> 0, view |-> "loading", sel |-> None,
     selectAfterLoad |-> None, created |-> 0, filter |-> "all", hidden |-> FALSE, pendingDelete |-> None,
     wizard |-> FALSE, busy |-> FALSE,
     shown |-> [c \in Credentials |-> None], reqs |-> {}]

-----------------------------------------------------------------------------
(* The list *)

Listed(p) == {n \in Envs : p.items[n] # None}
Visible(p) ==
    IF p.view # "list" THEN {}
    ELSE {n \in Listed(p) : p.filter = "all" \/ p.items[n].phase = p.filter}

Selected(p) == IF p.sel \in Visible(p) THEN p.sel ELSE None

(* The card of the open row that shows how to connect: the environment runs. *)
Card(p) ==
    IF Selected(p) # None /\ p.items[p.sel].phase = "Running" THEN p.sel ELSE None

(* Where a credential is read: the token and the key on that card, the variables
   on the specification that an open row has in every phase. *)
Place(c, p) == IF c = "env" THEN Selected(p) ELSE Card(p)

Reading(r) == r.kind \in {"token", "ssh", "env"}

(* Mutant: the rows are not keyed by the environment, and the open one keeps
   what it has read when another one opens. *)
Rendered_NoKey(before, p) ==
    [p EXCEPT !.shown = [c \in Credentials |-> IF Place(c, p) # None THEN @[c] ELSE None],
              !.reqs = {r \in @ : Reading(r) => Place(r.kind, p) # None}]

(* A render: what a place has read is gone with it, and so is what it waits for. *)
Rendered(before, p) ==
    [p EXCEPT !.shown = [c \in Credentials |-> IF Place(c, p) = Place(c, before) THEN @[c] ELSE None],
              !.reqs = {r \in @ : Reading(r) => Place(r.kind, p) = Place(r.kind, before)}]

(* load: a newer load has started, and only its answer will be used. *)
Load(p) ==
    [p EXCEPT !.reqs = {[r EXCEPT !.cur = @ /\ r.kind # "list"] : r \in @}
                       \cup {Request("list", None, "sent")}]

Newest(items) ==
    LET there == {n \in Envs : items[n] # None}
    IN  IF there = {} THEN None
        ELSE CHOOSE n \in there : \A m \in there : items[m].uid <= items[n].uid

(* The row just created, else the one that is open, else the newest. *)
Choose(p, items) ==
    IF p.selectAfterLoad # None /\ items[p.selectAfterLoad] # None THEN p.selectAfterLoad
    ELSE IF p.sel # None /\ items[p.sel] # None THEN p.sel
    ELSE Newest(items)

Apply(p, r) ==
    IF ~r.ok THEN [p EXCEPT !.view = "error"]
    ELSE [p EXCEPT !.items = r.ans, !.version = r.at, !.view = "list",
                   !.sel = Choose(p, r.ans), !.selectAfterLoad = None, !.created = 0]

(* Mutant: an answer is used whatever was asked after it. *)
ListLands_AnyGeneration(p, r) == Apply(p, r)

ListLands(p, r) == IF r.cur THEN Apply(p, r) ELSE p

ListAnswered(r) ==
    /\ r.kind = "list" /\ r.pc = "sent"
    /\ \E failed \in {FALSE, mishaps < MaxMishaps} :
          /\ mishaps' = IF failed THEN mishaps + 1 ELSE mishaps
          /\ page' = [page EXCEPT !.reqs = (@ \ {r}) \cup
                         {[r EXCEPT !.pc = "done", !.at = version, !.ok = ~failed,
                                    !.ans = IF failed THEN None ELSE [n \in Envs |-> Project(envs[n])]]}]
    /\ UNCHANGED <<envs, version, orphaned>>

ListArrives(r) ==
    /\ r.kind = "list" /\ r.pc = "done"
    /\ page' = Rendered(page, ListLands([page EXCEPT !.reqs = @ \ {r}], r))
    /\ Absolutely

(* The interval of 30 seconds, which runs while the page is looked at.  A tick
   that finds the last load still out supersedes it. *)
Poll ==
    /\ ~page.hidden
    /\ LET late == \E r \in page.reqs : r.kind = "list" /\ r.cur
       IN  /\ late => mishaps < MaxMishaps
           /\ mishaps' = IF late THEN mishaps + 1 ELSE mishaps
    /\ page' = Load(page)
    /\ UNCHANGED <<envs, version, orphaned>>

Hide ==
    /\ ~page.hidden
    /\ page' = [page EXCEPT !.hidden = TRUE]
    /\ Absolutely

Show ==
    /\ page.hidden
    /\ page' = [Load(page) EXCEPT !.hidden = FALSE]
    /\ Absolutely

Retry ==
    /\ page.view = "error" /\ ~page.hidden
    /\ page' = [Load(page) EXCEPT !.view = "loading"]
    /\ Absolutely

SetFilter ==
    /\ page.view = "list"
    /\ \E f \in {"all", "Running", "Stopped"} \ {page.filter} :
          page' = Rendered(page, [page EXCEPT !.filter = f])
    /\ Absolutely

(* A click on the open row closes it. *)
SelectRow ==
    /\ \E n \in Visible(page) :
          page' = Rendered(page, [page EXCEPT !.sel = IF Selected(page) = n THEN None ELSE n])
    /\ Absolutely

-----------------------------------------------------------------------------
(* The credentials of the open row: one read each while its place is there *)

Ask(c) ==
    /\ c \in Credentials /\ Place(c, page) # None /\ page.shown[c] = None
    /\ \A r \in page.reqs : r.kind # c
    /\ page' = [page EXCEPT !.reqs = @ \cup {Request(c, page.sel, "sent")}]
    /\ Absolutely

TokenRow == Ask("token")
SshKeyRow == Ask("ssh")
EnvValues == Ask("env")

CredentialRead(r) ==
    /\ Reading(r)
    /\ page' = [page EXCEPT !.reqs = @ \ {r},
                            !.shown[r.kind] = IF envs[r.name] = None THEN None ELSE r.name]
    /\ Absolutely

-----------------------------------------------------------------------------
(* The actions of a row, and the routes behind them *)

RowActions(n) ==
    {"del"} \cup (IF page.items[n].phase = "Running" THEN {"stop"} ELSE {})
            \cup (IF page.items[n].phase = "Stopped" THEN {"start"} ELSE {})

(* Starting and stopping are sent at once; deleting is asked about first, with
   what the list says of the workspace. *)
RunAction ==
    /\ \E n \in Visible(page) : \E act \in RowActions(n) :
          page' = IF act = "del"
                  THEN [page EXCEPT !.pendingDelete = n]
                  ELSE [page EXCEPT !.reqs = @ \cup {Request(act, n, IF act = "start" THEN "get" ELSE "call")}]
    /\ page.pendingDelete = None
    /\ Absolutely

CancelDelete ==
    /\ page.pendingDelete # None
    /\ page' = [page EXCEPT !.pendingDelete = None]
    /\ Absolutely

ConfirmDelete ==
    /\ page.pendingDelete # None
    /\ page' = [page EXCEPT !.pendingDelete = None,
                            !.reqs = @ \cup {Request("del", page.pendingDelete, "call")}]
    /\ Absolutely

Goes(r, pc) == page' = [page EXCEPT !.reqs = (@ \ {r}) \cup {[r EXCEPT !.pc = pc]}]
Answered(r, ok) == page' = [page EXCEPT !.reqs = (@ \ {r}) \cup {[Request(r.kind, r.name, "done") EXCEPT !.ok = ok]}]

Change(n, e) ==
    /\ version < MaxVersion
    /\ version' = version + 1 /\ envs' = [envs EXCEPT ![n] = e]

(* PATCH, a start: the mark of an idle stop is read first, to be removed. *)
PatchReads(r) ==
    /\ r.kind = "start" /\ r.pc = "get"
    /\ IF envs[r.name] = None THEN Answered(r, FALSE)
       ELSE page' = [page EXCEPT !.reqs = (@ \ {r}) \cup
                        {[r EXCEPT !.pc = "call", !.mark = envs[r.name].mark]}]
    /\ Absolutely

(* The removal of a mark that is not there any more refuses the whole patch. *)
PatchWrites(r) ==
    /\ r.kind \in {"start", "stop"} /\ r.pc = "call"
    /\ LET e == envs[r.name]
       IN  IF e = None \/ (r.mark /\ ~e.mark)
           THEN Answered(r, FALSE) /\ UNCHANGED <<envs, version>>
           ELSE /\ Answered(r, TRUE)
                /\ Change(r.name, [e EXCEPT !.running = r.kind = "start", !.mark = @ /\ ~r.mark])
    /\ UNCHANGED <<mishaps, orphaned>>

DeleteWrites(r) ==
    /\ r.kind = "del" /\ r.pc = "call"
    /\ IF envs[r.name] = None THEN Answered(r, FALSE) /\ UNCHANGED <<envs, version>>
       ELSE Answered(r, TRUE) /\ Change(r.name, None)
    /\ UNCHANGED <<mishaps, orphaned>>

(* An action that went through is followed by a load, one that did not by the
   dialog that says so. *)
ActionLands(r) ==
    /\ r.kind \in {"start", "stop", "del"} /\ r.pc = "done"
    /\ LET p == [page EXCEPT !.reqs = @ \ {r}]
       IN  page' = IF r.ok THEN Load(p) ELSE p
    /\ Absolutely

-----------------------------------------------------------------------------
(* The wizard, and POST *)

OpenWizard ==
    /\ ~page.wizard
    /\ page' = [page EXCEPT !.wizard = TRUE, !.busy = FALSE]
    /\ Absolutely

(* Cancel waits for the request; the backdrop does not. *)
CloseWizard ==
    /\ page.wizard
    /\ page' = [page EXCEPT !.wizard = FALSE, !.busy = FALSE]
    /\ Absolutely

SubmitCreate ==
    /\ page.wizard /\ ~page.busy
    /\ \E n \in (Envs \cap doing) \ Listed(page), keys \in BOOLEAN :
          page' = [page EXCEPT !.busy = TRUE,
                               !.reqs = @ \cup {[Request("create", n, "check") EXCEPT !.keys = keys]}]
    /\ Absolutely

(* The name is looked up, and then the object is created. *)
PostChecks(r) ==
    /\ r.kind = "create" /\ r.pc = "check"
    /\ IF envs[r.name] # None THEN Answered(r, FALSE) ELSE Goes(r, "call")
    /\ Absolutely

PostCreates(r) ==
    /\ r.kind = "create" /\ r.pc = "call"
    /\ IF envs[r.name] # None THEN Answered(r, FALSE) /\ UNCHANGED <<envs, version>>
       ELSE /\ Change(r.name, NewEnv(IF r.keys THEN "missing" ELSE "none"))
            /\ IF r.keys
               THEN page' = [page EXCEPT !.reqs = (@ \ {r}) \cup {[r EXCEPT !.pc = "secret", !.at = version + 1]}]
               ELSE Answered(r, TRUE)
    /\ UNCHANGED <<mishaps, orphaned>>

(* Mutant: the failure is reported, and the environment is left. *)
AfterSecretFailed_Reports(r) == Answered(r, FALSE)

AfterSecretFailed(r) == Goes(r, "unwind")

(* The keys Secret follows the object it is owned by. *)
PostWritesKeys(r) ==
    /\ r.kind = "create" /\ r.pc = "secret"
    /\ \/ /\ Answered(r, TRUE)
          /\ envs' = [envs EXCEPT ![r.name] = IF @ # None /\ @.uid = r.at THEN [@ EXCEPT !.keys = "there"] ELSE @]
          /\ UNCHANGED mishaps
       \/ /\ mishaps < MaxMishaps /\ mishaps' = mishaps + 1
          /\ AfterSecretFailed(r)
          /\ UNCHANGED envs
    /\ UNCHANGED <<version, orphaned>>

(* The object is taken back, by its name; that can fail too. *)
PostUnwinds(r) ==
    /\ r.kind = "create" /\ r.pc = "unwind"
    /\ Answered(r, FALSE)
    /\ \/ IF envs[r.name] = None THEN UNCHANGED <<envs, version, mishaps, orphaned>>
          ELSE Change(r.name, None) /\ UNCHANGED <<mishaps, orphaned>>
       \/ orphaned' = orphaned \cup {r.at} /\ UNCHANGED <<envs, version, mishaps>>

(* Mutant: the load that is out, or the next tick, is to show the row. *)
CreateLands_NoLoad(r) ==
    /\ r.kind = "create" /\ r.pc = "done"
    /\ LET p == [page EXCEPT !.reqs = @ \ {r}, !.busy = FALSE]
       IN  page' = IF ~r.ok THEN p
                   ELSE Rendered(page, [p EXCEPT !.selectAfterLoad = r.name, !.created = version, !.filter = "all",
                                                 !.wizard = FALSE])
    /\ Absolutely

(* onCreated: the row is asked for, every filter off, and whichever wizard is
   open closes.  (created is the model's: the change the page has then heard of.) *)
CreateLands(r) ==
    /\ r.kind = "create" /\ r.pc = "done"
    /\ LET p == [page EXCEPT !.reqs = @ \ {r}, !.busy = FALSE]
       IN  page' = IF ~r.ok THEN p
                   ELSE Rendered(page, [Load(p) EXCEPT !.selectAfterLoad = r.name, !.created = version,
                                                       !.filter = "all", !.wizard = FALSE])
    /\ Absolutely

-----------------------------------------------------------------------------
(* The operator and other users: external *)

Reconcile ==
    \E n \in Envs :
        /\ envs[n] # None
        /\ LET phase == IF envs[n].running /\ ~envs[n].mark THEN "Running" ELSE "Stopped"
           IN  phase # envs[n].phase /\ Change(n, [envs[n] EXCEPT !.phase = phase])
        /\ UNCHANGED <<page, mishaps, orphaned>>

IdleStop ==
    \E n \in Envs :
        /\ envs[n] # None /\ envs[n].phase = "Running" /\ ~envs[n].mark
        /\ Change(n, [envs[n] EXCEPT !.mark = TRUE])
        /\ UNCHANGED <<page, mishaps, orphaned>>

(* It is somebody else's, and running or stopped by the time it is listed. *)
OthersCreate ==
    \E n \in Envs \cap doing, running \in {TRUE, "act" \notin doing} :
        /\ envs[n] = None
        /\ Change(n, [NewEnv("none") EXCEPT !.running = running, !.phase = IF running THEN "Running" ELSE "Stopped"])
        /\ UNCHANGED <<page, mishaps, orphaned>>

OthersDelete ==
    \E n \in Envs :
        /\ envs[n] # None /\ Change(n, None)
        /\ UNCHANGED <<page, mishaps, orphaned>>

-----------------------------------------------------------------------------
PageInit ==
    /\ doing \in Doings
    /\ version = 0 /\ mishaps = 0 /\ orphaned = {}
    /\ envs = [n \in Envs |-> None]
    /\ page = Load(Opening)

User ==
    \/ "look" \in doing /\ (Hide \/ Show \/ Retry)
    \/ "rows" \in doing /\ (SetFilter \/ SelectRow)
    \/ "credentials" \in doing /\ (TokenRow \/ SshKeyRow \/ EnvValues)
    \/ "act" \in doing /\ (RunAction \/ CancelDelete \/ ConfirmDelete)
    \/ "create" \in doing /\ (OpenWizard \/ CloseWizard \/ SubmitCreate)

Served(r) ==
    \/ ListAnswered(r) \/ ListArrives(r) \/ CredentialRead(r)
    \/ PatchReads(r) \/ PatchWrites(r) \/ DeleteWrites(r) \/ ActionLands(r)
    \/ PostChecks(r) \/ PostCreates(r) \/ PostWritesKeys(r) \/ PostUnwinds(r) \/ CreateLands(r)

Lists == \E r \in page.reqs : r.kind = "list" /\ r.cur /\ (ListAnswered(r) \/ ListArrives(r))

PageSteps ==
    \/ User \/ Poll
    \/ "operator" \in doing /\ (Reconcile \/ IdleStop)
    \/ "others" \in doing /\ (OthersCreate \/ OthersDelete)
    \/ \E r \in page.reqs : Served(r)

(* A create, with its several calls, counts twice. *)
WithinBounds ==
    /\ UNCHANGED doing
    /\ Cardinality({r \in page'.reqs : r.kind = "list"}) <= 2
    /\ Cardinality({r \in page'.reqs : r.kind # "list"})
           + Cardinality({r \in page'.reqs : r.kind = "create"}) <= MaxReqs

PageNext == PageSteps /\ WithinBounds

(* The interval ticks, and a list that nothing supersedes is answered. *)
PageFairness ==
    /\ WF_pageVars(Poll /\ WithinBounds)
    /\ WF_pageVars(Lists /\ WithinBounds)

-----------------------------------------------------------------------------
(* Types; and the row that is open is one of the list. *)
PageTypeOK ==
    /\ page.sel # None => page.items[page.sel] # None
    /\ page.view \in {"loading", "list", "error"}
    /\ page.version <= version
    /\ \A r \in page.reqs : r.name \in Envs \cup {None}

(* The list on screen never goes back in time, however the answers of polls,
   of actions and of the create overtake each other, and the open row is always
   one of it. *)
ListNeverGoesBack == [][page'.version >= page.version /\ PageTypeOK']_pageVars

(* The list that takes up the wish to open the row just created opens it, whatever
   else was being loaded when the create came back: it is no older than the news of
   the create, so that it lacks the row only if somebody has deleted it since. *)
CreatedIsOpened ==
    [][page.selectAfterLoad # None /\ page'.selectAfterLoad = None
          => \/ page'.sel = page.selectAfterLoad
             \/ page'.version >= page.created /\ page'.items[page.selectAfterLoad] = None]_pageVars

(* A credential on screen was read for the environment whose row is open, and
   those of the connection only while it runs. *)
CredentialIsTheRows ==
    \A c \in Credentials : page.shown[c] # None => page.shown[c] = Place(c, page)

(* An environment never waits for a Secret of keys that nobody is writing, or
   the attempt to take it back has failed too. *)
KeysAreOnTheirWay ==
    \A n \in Envs :
        envs[n] # None /\ envs[n].keys = "missing"
            => \/ \E r \in page.reqs : r.kind = "create" /\ r.pc \in {"secret", "unwind"} /\ r.at = envs[n].uid
               \/ envs[n].uid \in orphaned

(* A page that is looked at shows every change of the cluster in the end. *)
ListConverges == []<>(page.hidden \/ page.version = version)
=============================================================================
