----------------------------- MODULE ServicePage -----------------------------
(***************************************************************************)
(* The inference services console (app/inference-services/page.tsx) over   *)
(* its API routes and the cluster: one polled list, the row that is open   *)
(* and the values typed into its scale card, the dialogs, and the wizard.  *)
(*                                                                         *)
(* Unlike the development environments console, the list has no            *)
(* generation: every answer is shown when it arrives.  The knobs of a      *)
(* service are one count, and what the profile allows is Counts.           *)
(***************************************************************************)
EXTENDS PageParts

CONSTANTS Services,      \* the names services can have
          Counts,        \* the counts a profile allows
          SvcDoings      \* bound: what is done, and to which services, in one behaviour

VARIABLES svcDoing,      \* what is done, and to what, in this behaviour
          svcs,          \* the InferenceServices of the cluster, by name
          svcVersion,    \* changes so far
          svcPage,       \* the state of the page
          svcMishaps     \* mishaps so far

svcVars == <<svcDoing, svcs, svcVersion, svcPage, svcMishaps>>

Elsewhere == UNCHANGED <<svcs, svcVersion, svcMishaps>>

(* The count a profile declares for a service that sets none. *)
Default == CHOOSE c \in Counts : \A x \in Counts : c <= x

(* mapped: the object has a spec.overrides at all, which the create route always
   writes and another client may leave out. *)
NewService(mapped) ==
    [uid |-> svcVersion + 1, mapped |-> mapped, override |-> None, phase |-> "Pending"]

SvcPhases == {"Pending", "Ready", "Failed"}

(* What the list carries: the count in force, the service's own or the profile's. *)
ProjectService(s) ==
    IF s = None THEN None
    ELSE [uid |-> s.uid, count |-> IF s.override = None THEN Default ELSE s.override, phase |-> s.phase]

SvcRequest(kind, n, pc) ==
    [kind |-> kind, name |-> n, pc |-> pc, ok |-> TRUE, ans |-> None, at |-> 0, count |-> 0, of |-> None]

SvcOpening ==
    [items |-> [n \in Services |-> None], version |-> 0, view |-> "loading", sel |-> None,
     selectAfterLoad |-> None, filter |-> "all", hidden |-> FALSE, pendingDelete |-> None,
     wizard |-> FALSE, deploying |-> FALSE, card |-> None, busy |-> FALSE, reqs |-> {}]

-----------------------------------------------------------------------------
(* The list, and the card of the open row *)

(* A service that has failed is on the first tab only. *)
InTab(filter, phase) ==
    \/ filter = "all"
    \/ filter = "ready" /\ phase = "Ready"
    \/ filter = "progressing" /\ phase \notin {"Ready", "Failed"}

SvcVisible(p) ==
    IF p.view # "list" THEN {}
    ELSE {n \in Services : p.items[n] # None /\ InTab(p.filter, p.items[n].phase)}

OpenRow(p) == IF p.sel \in SvcVisible(p) THEN p.sel ELSE None

ScaleInitial(p, n) == [of |-> n, count |-> p.items[n].count]

(* Mutant: one card serves every row, and keeps what was typed into it. *)
ScaleCard_OneForAll(before, p) ==
    [p EXCEPT !.card = IF OpenRow(p) = None THEN None ELSE IF @ # None THEN @ ELSE ScaleInitial(p, OpenRow(p))]

(* A render: a row that opens starts from the listed count, and so does one
   whose listed count is another; a poll with the same count leaves the edits. *)
ScaleCard(before, p) ==
    LET n == OpenRow(p)
    IN  [p EXCEPT !.card = IF n = None THEN None
                           ELSE IF n = OpenRow(before) /\ p.items[n].count = before.items[n].count THEN @
                           ELSE ScaleInitial(p, n)]

LoadServices(p) == [p EXCEPT !.reqs = @ \cup {SvcRequest("list", None, "sent")}]

NewestService(items) ==
    LET there == {n \in Services : items[n] # None}
    IN  IF there = {} THEN None
        ELSE CHOOSE n \in there : \A m \in there : items[m].uid <= items[n].uid

(* The updater runs at render, when the ref of a created service is null again:
   the open row, else the newest. *)
KeepSelection(p, items) ==
    IF p.sel # None /\ items[p.sel] # None THEN p.sel ELSE NewestService(items)

(* Mutant: a page that has failed once waits for the retry. *)
ShowServices_ErrorSticks(p, r) ==
    IF p.view = "error" \/ ~r.ok THEN [p EXCEPT !.view = "error"]
    ELSE [p EXCEPT !.items = r.ans, !.version = r.at, !.view = "list",
                   !.sel = KeepSelection(p, r.ans), !.selectAfterLoad = None]

ShowServices(p, r) ==
    IF ~r.ok THEN [p EXCEPT !.view = "error"]
    ELSE [p EXCEPT !.items = r.ans, !.version = r.at, !.view = "list",
                   !.sel = KeepSelection(p, r.ans), !.selectAfterLoad = None]

ServicesAnswered(r) ==
    /\ r.kind = "list" /\ r.pc = "sent"
    /\ \E failed \in {FALSE, svcMishaps < MaxMishaps} :
          /\ svcMishaps' = IF failed THEN svcMishaps + 1 ELSE svcMishaps
          /\ svcPage' = [svcPage EXCEPT !.reqs = (@ \ {r}) \cup
                            {[r EXCEPT !.pc = "done", !.at = svcVersion, !.ok = ~failed,
                                       !.ans = IF failed THEN None ELSE [n \in Services |-> ProjectService(svcs[n])]]}]
    /\ UNCHANGED <<svcs, svcVersion>>

ServicesArrive(r) ==
    /\ r.kind = "list" /\ r.pc = "done"
    /\ svcPage' = ScaleCard(svcPage, ShowServices([svcPage EXCEPT !.reqs = @ \ {r}], r))
    /\ Elsewhere

(* The interval of 30 seconds, which runs while the page is looked at. *)
PollServices ==
    /\ ~svcPage.hidden
    /\ svcPage' = LoadServices(svcPage)
    /\ Elsewhere

HideServices ==
    /\ ~svcPage.hidden
    /\ svcPage' = [svcPage EXCEPT !.hidden = TRUE]
    /\ Elsewhere

ShowServicesAgain ==
    /\ svcPage.hidden
    /\ svcPage' = [LoadServices(svcPage) EXCEPT !.hidden = FALSE]
    /\ Elsewhere

RetryServices ==
    /\ svcPage.view = "error" /\ ~svcPage.hidden
    /\ svcPage' = [LoadServices(svcPage) EXCEPT !.view = "loading"]
    /\ Elsewhere

FilterServices ==
    /\ svcPage.view = "list"
    /\ \E f \in {"all", "ready", "progressing"} \ {svcPage.filter} :
          svcPage' = ScaleCard(svcPage, [svcPage EXCEPT !.filter = f])
    /\ Elsewhere

SelectService ==
    /\ \E n \in SvcVisible(svcPage) :
          svcPage' = ScaleCard(svcPage, [svcPage EXCEPT !.sel = IF @ = n THEN None ELSE n])
    /\ Elsewhere

-----------------------------------------------------------------------------
(* Scaling *)

ScaleValueValid(count) == count \in Counts

(* What can be typed includes one count the profile does not allow. *)
ScaleInput ==
    /\ svcPage.card # None
    /\ \E c \in (Counts \cup {0}) \ {svcPage.card.count} :
          svcPage' = [svcPage EXCEPT !.card = [of |-> OpenRow(svcPage), count |-> c]]
    /\ Elsewhere

(* The request names the open row and carries what the card holds. *)
HandleApply ==
    LET card == svcPage.card
    IN  /\ card # None /\ ~svcPage.busy
        /\ ScaleValueValid(card.count) /\ card.count # svcPage.items[OpenRow(svcPage)].count
        /\ svcPage' = [svcPage EXCEPT !.busy = TRUE,
                          !.reqs = @ \cup {[SvcRequest("patch", OpenRow(svcPage), "get")
                                              EXCEPT !.count = card.count, !.of = card.of]}]
        /\ Elsewhere

SvcGoes(r, pc) == svcPage' = [svcPage EXCEPT !.reqs = (@ \ {r}) \cup {[r EXCEPT !.pc = pc]}]
SvcAnswered(r, ok) ==
    svcPage' = [svcPage EXCEPT !.reqs = (@ \ {r}) \cup {[r EXCEPT !.pc = "done", !.ok = ok]}]

ChangeService(n, s) ==
    /\ svcVersion < MaxVersion
    /\ svcVersion' = svcVersion + 1 /\ svcs' = [svcs EXCEPT ![n] = s]

(* PATCH reads the service and its profile, and checks the values. *)
PatchResolves(r) ==
    /\ r.kind = "patch" /\ r.pc = "get"
    /\ IF svcs[r.name] = None \/ ~ScaleValueValid(r.count) THEN SvcAnswered(r, FALSE) ELSE SvcGoes(r, "call")
    /\ Elsewhere

(* `add` under spec.overrides needs a spec.overrides. *)
PatchOverrides(r) ==
    /\ r.kind = "patch" /\ r.pc = "call"
    /\ LET s == svcs[r.name]
       IN  IF s # None /\ s.mapped
           THEN SvcAnswered(r, TRUE) /\ ChangeService(r.name, [s EXCEPT !.override = r.count])
           ELSE SvcAnswered(r, FALSE) /\ UNCHANGED <<svcs, svcVersion>>
    /\ UNCHANGED svcMishaps

Settled(p, ok) == [p EXCEPT !.busy = FALSE]

ApplyLands(r) ==
    /\ r.kind = "patch" /\ r.pc = "done"
    /\ LET p == Settled([svcPage EXCEPT !.reqs = @ \ {r}], r.ok)
       IN  svcPage' = IF r.ok THEN LoadServices(p) ELSE p
    /\ Elsewhere

-----------------------------------------------------------------------------
(* Deleting and deploying *)

AskDelete ==
    /\ svcPage.pendingDelete = None
    /\ \E n \in SvcVisible(svcPage) : svcPage' = [svcPage EXCEPT !.pendingDelete = n]
    /\ Elsewhere

CloseDeleteDialog ==
    /\ svcPage.pendingDelete # None
    /\ svcPage' = [svcPage EXCEPT !.pendingDelete = None]
    /\ Elsewhere

ConfirmServiceDelete ==
    /\ svcPage.pendingDelete # None
    /\ svcPage' = [svcPage EXCEPT !.pendingDelete = None,
                                  !.reqs = @ \cup {SvcRequest("del", svcPage.pendingDelete, "call")}]
    /\ Elsewhere

DeleteService(r) ==
    /\ r.kind = "del" /\ r.pc = "call"
    /\ IF svcs[r.name] = None THEN SvcAnswered(r, FALSE) /\ UNCHANGED <<svcs, svcVersion>>
       ELSE SvcAnswered(r, TRUE) /\ ChangeService(r.name, None)
    /\ UNCHANGED svcMishaps

ServiceDeleteLands(r) ==
    /\ r.kind = "del" /\ r.pc = "done"
    /\ LET p == [svcPage EXCEPT !.reqs = @ \ {r}] IN svcPage' = IF r.ok THEN LoadServices(p) ELSE p
    /\ Elsewhere

OpenDeploy ==
    /\ ~svcPage.wizard
    /\ svcPage' = [svcPage EXCEPT !.wizard = TRUE, !.deploying = FALSE]
    /\ Elsewhere

CloseDeploy ==
    /\ svcPage.wizard
    /\ svcPage' = [svcPage EXCEPT !.wizard = FALSE, !.deploying = FALSE]
    /\ Elsewhere

SubmitDeploy ==
    /\ svcPage.wizard /\ ~svcPage.deploying
    /\ \E n \in Services \cap svcDoing :
          /\ svcPage.items[n] = None
          /\ svcPage' = [svcPage EXCEPT !.deploying = TRUE, !.reqs = @ \cup {SvcRequest("create", n, "check")}]
    /\ Elsewhere

(* POST lists the services, and then creates. *)
PostLists(r) ==
    /\ r.kind = "create" /\ r.pc = "check"
    /\ IF svcs[r.name] # None THEN SvcAnswered(r, FALSE) ELSE SvcGoes(r, "call")
    /\ Elsewhere

PostService(r) ==
    /\ r.kind = "create" /\ r.pc = "call"
    /\ IF svcs[r.name] # None THEN SvcAnswered(r, FALSE) /\ UNCHANGED <<svcs, svcVersion>>
       ELSE SvcAnswered(r, TRUE) /\ ChangeService(r.name, NewService(TRUE))
    /\ UNCHANGED svcMishaps

(* onCreated; the filter stays. *)
DeployLands(r) ==
    /\ r.kind = "create" /\ r.pc = "done"
    /\ LET p == [svcPage EXCEPT !.reqs = @ \ {r}, !.deploying = FALSE]
       IN  svcPage' = IF r.ok THEN [LoadServices(p) EXCEPT !.selectAfterLoad = r.name, !.wizard = FALSE] ELSE p
    /\ Elsewhere

-----------------------------------------------------------------------------
(* The operator and other users: external *)

PhaseSettles ==
    \E n \in Services, phase \in {"Ready", "Failed"} :
        /\ svcs[n] # None /\ svcs[n].phase # phase
        /\ ChangeService(n, [svcs[n] EXCEPT !.phase = phase])
        /\ UNCHANGED <<svcPage, svcMishaps>>

OthersDeploy ==
    \E n \in Services \cap svcDoing, mapped \in {TRUE, "operator" \notin svcDoing} :
        /\ svcs[n] = None /\ ChangeService(n, NewService(mapped))
        /\ UNCHANGED <<svcPage, svcMishaps>>

OthersScale ==
    \E n \in Services, c \in Counts :
        /\ svcs[n] # None /\ svcs[n].override # c
        /\ ChangeService(n, [svcs[n] EXCEPT !.mapped = TRUE, !.override = c])
        /\ UNCHANGED <<svcPage, svcMishaps>>

OthersRemove ==
    \E n \in Services :
        /\ svcs[n] # None /\ ChangeService(n, None)
        /\ UNCHANGED <<svcPage, svcMishaps>>

-----------------------------------------------------------------------------
SvcInit ==
    /\ svcDoing \in SvcDoings
    /\ svcVersion = 0 /\ svcMishaps = 0
    /\ svcs = [n \in Services |-> None]
    /\ svcPage = LoadServices(SvcOpening)

SvcUser ==
    \/ "look" \in svcDoing /\ (HideServices \/ ShowServicesAgain \/ RetryServices)
    \/ "rows" \in svcDoing /\ SelectService
    \/ "filter" \in svcDoing /\ FilterServices
    \/ "scale" \in svcDoing /\ (ScaleInput \/ HandleApply)
    \/ "delete" \in svcDoing /\ (AskDelete \/ CloseDeleteDialog \/ ConfirmServiceDelete)
    \/ "deploy" \in svcDoing /\ (OpenDeploy \/ CloseDeploy \/ SubmitDeploy)

SvcServed(r) ==
    \/ ServicesAnswered(r) \/ ServicesArrive(r)
    \/ PatchResolves(r) \/ PatchOverrides(r) \/ ApplyLands(r)
    \/ DeleteService(r) \/ ServiceDeleteLands(r)
    \/ PostLists(r) \/ PostService(r) \/ DeployLands(r)

SvcSteps ==
    \/ SvcUser \/ PollServices
    \/ "operator" \in svcDoing /\ PhaseSettles
    \/ "others" \in svcDoing /\ (OthersDeploy \/ OthersScale \/ OthersRemove)
    \/ \E r \in svcPage.reqs : SvcServed(r)

SvcWithinBounds ==
    /\ UNCHANGED svcDoing
    /\ Cardinality({r \in svcPage'.reqs : r.kind = "list"}) <= 2
    /\ Cardinality({r \in svcPage'.reqs : r.kind # "list"}) <= MaxReqs

SvcNext == SvcSteps /\ SvcWithinBounds

(* The interval ticks, lists are answered, and answers are acted on. *)
SvcFairness ==
    /\ WF_svcVars(PollServices /\ SvcWithinBounds)
    /\ WF_svcVars((\E r \in svcPage.reqs : ServicesAnswered(r)) /\ SvcWithinBounds)
    /\ WF_svcVars((\E r \in svcPage.reqs : ServicesArrive(r)) /\ SvcWithinBounds)

-----------------------------------------------------------------------------
(* Types; and the row that is open is one of the list. *)
ServiceTypeOK ==
    /\ svcPage.view \in {"loading", "list", "error"} /\ svcPage.version \in 0 .. svcVersion
    /\ svcPage.sel # None => svcPage.items[svcPage.sel] # None
    /\ svcPage.card # None => OpenRow(svcPage) # None

(* The apply button of every row is held while a scale of this page is under
   way, and only then, however that ends. *)
ScaleBusyIsTrue == svcPage.busy <=> \E r \in svcPage.reqs : r.kind = "patch"

(* A scale never carries to one service what was typed for another. *)
ScaleIsTheRows == \A r \in svcPage.reqs : r.kind = "patch" => r.of = r.name

(* A list that reports the open service as it was leaves what the user is
   typing; so does every other answer that arrives while the row stays open.  (A
   list that fails takes the rows, and what was typed, off the screen.) *)
ScaleEditsKept ==
    \A n \in Services :
        OpenRow(svcPage) = n /\ OpenRow(svcPage)' = n /\ svcPage.reqs # svcPage'.reqs
            /\ svcPage.items[n].count = svcPage'.items[n].count
        => svcPage.card = svcPage'.card

(* The scale card through polls, a change of row and an answer that comes late:
   Apply is held exactly while a request is out, what is sent was typed for that
   service, what is being typed is kept, and the card belongs to an open row. *)
ScalingIsSound ==
    [][ServiceTypeOK' /\ ScaleBusyIsTrue' /\ ScaleIsTheRows' /\ ScaleEditsKept]_svcVars

(* A page that is looked at shows every change of the cluster in the end,
   although an older list can land over a newer one. *)
ServiceListConverges == []<>(svcPage.hidden \/ svcPage.version = svcVersion)
=============================================================================
