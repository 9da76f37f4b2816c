------------------------------- MODULE Tasks -------------------------------
(***************************************************************************)
(* The assistant's tasks tab (components/cubepilot/TasksPane.tsx) over its *)
(* API routes and the Task, TaskRun and TaskTemplate objects               *)
(* (lib/cubepilot/taskcrd.ts): the list, the reports of the open task and  *)
(* the poll that follows a run, the rows' buttons, and the create dialog.  *)
(*                                                                         *)
(* Answers carry no generation: each is shown when it arrives.  Routes are *)
(* chains of API calls, one step each, but that the reports route looks    *)
(* the task up and lists in one.  A cron text is its class (empty,         *)
(* bad or one of the valid ones), an instruction is the template and the   *)
(* values put into it, and values hold no placeholders.  Left out: the     *)
(* list/templates segment, exports and toasts.                             *)
(***************************************************************************)
EXTENDS PageParts, Sequences

CONSTANTS TaskIds,       \* the names tasks can be given
          Templates,     \* the templates there can be: name, rev, schema, cron
          TaskDoings,    \* bound: what is done in one behaviour
          MaxRuns,       \* bound: runs of one task
          MaxFormEdits   \* bound: edits of the create dialog and presses of Create

(* A template has a name, and one form of that name in each revision. *)
ASSUME TemplatesAssumption ==
    /\ \A x \in Templates : x.name # None
    /\ \A x, y \in Templates : x.name = y.name /\ x.rev = y.rev => x = y

VARIABLES taskDoing,     \* what is done in this behaviour
          crs,           \* the Task objects by name
          runs,          \* the phases of each task's TaskRuns, newest first
          marked,        \* the tasks whose manual-run annotation awaits the scheduler
          tpls,          \* the TaskTemplates of the cluster
          tab,           \* the state of the tab
          taskMishaps,
          presses        \* history: which states a task was asked to have, and whether one took

clusterVars == <<crs, runs, marked, tpls, presses>>
taskVars == <<taskDoing, clusterVars, tab, taskMishaps>>

Me == "me"
EmptyText == ""
isTaskOwner(cr, user) == cr.owner = user

-----------------------------------------------------------------------------
(* What the routes answer *)

(* taskFromCr, of the caller's own tasks. *)
TaskList == [t \in TaskIds |-> IF crs[t] # None /\ isTaskOwner(crs[t], Me) THEN [enabled |-> crs[t].enabled] ELSE None]

(* reportFromCr: whatever is not over reads as running. *)
ReportStatus(phase) ==
    IF phase = "Completed" THEN "success" ELSE IF phase \in {"Failed", "Cancelled"} THEN "failed" ELSE "running"
Reports(t) == [i \in DOMAIN runs[t] |-> ReportStatus(runs[t][i])]

(* templateFromCr *)
TemplateList == tpls

TaskRequest(kind, t, pc) ==
    [kind |-> kind, task |-> t, pc |-> pc, ok |-> TRUE, ans |-> None, target |-> FALSE, follow |-> FALSE, form |-> None]

Send(p, r) == [p EXCEPT !.reqs = @ \cup {r}]
Became(r, new) == [tab EXCEPT !.reqs = (@ \ {r}) \cup {new}]
Gone(r) == [tab EXCEPT !.reqs = @ \ {r}]

(* then: the task to select when the list has been read. *)
LoadTasks(p, then) == Send(p, TaskRequest("tasks", then, "sent"))
(* follow: the run button is held until this list is in. *)
LoadReports(p, t, follow) == Send(p, [TaskRequest("reports", t, "sent") EXCEPT !.follow = follow])

-----------------------------------------------------------------------------
(* The list and the reports *)

MayFail == {FALSE, taskMishaps < MaxMishaps}
Counted(failed) == taskMishaps' = IF failed THEN taskMishaps + 1 ELSE taskMishaps

(* An answer is read off the cluster, or the call fails. *)
Read(r, answer) ==
    /\ r.pc = "sent"
    /\ \E failed \in MayFail :
          /\ Counted(failed)
          /\ tab' = Became(r, [r EXCEPT !.pc = "done", !.ok = ~failed /\ answer # None, !.ans = IF failed THEN None ELSE answer])
    /\ UNCHANGED clusterVars

(* The reports of a task that is gone, or another's, are refused. *)
ReadsServed(r) ==
    \/ r.kind = "tasks" /\ Read(r, TaskList)
    \/ r.kind = "templates" /\ Read(r, TemplateList)
    \/ r.kind = "reports"
       /\ Read(r, IF crs[r.task] # None /\ isTaskOwner(crs[r.task], Me) THEN Reports(r.task) ELSE None)

SelectTask(p, t) == LoadReports([p EXCEPT !.sel = t], t, FALSE)

(* An open task that is no longer listed is closed; its reports stay. *)
ShowTasks(p, r) ==
    IF ~r.ok THEN p
    ELSE [p EXCEPT !.tasks = r.ans, !.sel = IF @ # None /\ r.ans[@] # None THEN @ ELSE None]

TasksArrive(r) ==
    /\ r.kind = "tasks" /\ r.pc = "done"
    /\ tab' = LET p == ShowTasks(Gone(r), r) IN IF r.task = None THEN p ELSE SelectTask(p, r.task)
    /\ UNCHANGED <<clusterVars, taskMishaps>>

TemplatesArrive(r) ==
    /\ r.kind = "templates" /\ r.pc = "done"
    /\ tab' = [Gone(r) EXCEPT !.templates = IF r.ok THEN r.ans ELSE @]
    /\ UNCHANGED <<clusterVars, taskMishaps>>

Clamp(index, list) == IF Len(list) = 0 THEN 0 ELSE IF index < Len(list) THEN index ELSE Len(list) - 1

(* A list that cannot be read empties the one on screen. *)
ReportsArrive(r) ==
    /\ r.kind = "reports" /\ r.pc = "done"
    /\ tab' = [Gone(r) EXCEPT !.reports = IF r.ok THEN r.ans ELSE <<>>,
                              !.index = IF r.ok THEN Clamp(@, r.ans) ELSE @,
                              !.running = @ /\ ~r.follow]
    /\ UNCHANGED <<clusterVars, taskMishaps>>

NewestRunning(p) == p.reports # <<>> /\ p.reports[1] = "running"

(* The interval of 3 seconds, which stands while the newest report runs. *)
PollReports ==
    /\ tab.sel # None /\ NewestRunning(tab)
    /\ tab' = LoadReports(tab, tab.sel, FALSE)
    /\ UNCHANGED <<clusterVars, taskMishaps>>

ChooseReport ==
    /\ \E i \in DOMAIN tab.reports : i - 1 # tab.index /\ tab' = [tab EXCEPT !.index = i - 1]
    /\ tab.sel # None
    /\ UNCHANGED <<clusterVars, taskMishaps>>

-----------------------------------------------------------------------------
(* The buttons of a row *)

Rows == {t \in TaskIds : tab.tasks[t] # None}

OpenTask ==
    /\ \E t \in Rows : tab' = SelectTask(tab, t)
    /\ UNCHANGED <<clusterVars, taskMishaps>>

(* The request carries the state the row does not show. *)
ToggleTask ==
    /\ \E t \in Rows :
          /\ tab' = Send(tab, [TaskRequest("toggle", t, "sent") EXCEPT !.target = ~tab.tasks[t].enabled])
          /\ presses' = [presses EXCEPT ![t].asked = @ \cup {~tab.tasks[t].enabled}]
    /\ UNCHANGED <<crs, runs, marked, tpls, taskMishaps>>

DeleteTask ==
    /\ \E t \in Rows : tab' = Send(tab, TaskRequest("delete", t, "sent"))
    /\ UNCHANGED <<clusterVars, taskMishaps>>

(* The list is read again after a run only of the task that is open at the click. *)
RunTaskId ==
    /\ ~tab.running
    /\ \E t \in Rows \cup ({tab.sel} \ {None}) :
          tab' = [Send(tab, [TaskRequest("run", t, "sent") EXCEPT !.follow = t = tab.sel]) EXCEPT !.running = TRUE]
    /\ UNCHANGED <<clusterVars, taskMishaps>>

(* Mutant: the state is flipped, whatever the request says. *)
NextState_Flips(r, current) == ~current

(* The state the body carries, which the tab always sends.  (A request without one
   flips the state.) *)
NextState(r, current) == r.target

(* The route reads the task: one that is gone or another's is refused, and a
   toggle to the state it has is answered without a write. *)
ActionChecks(r) ==
    /\ r.kind \in {"toggle", "delete", "run"} /\ r.pc = "sent"
    /\ LET cr == crs[r.task]
       IN  \E failed \in MayFail :
             /\ Counted(failed)
             /\ tab' = Became(r, IF failed \/ cr = None \/ ~isTaskOwner(cr, Me) THEN [r EXCEPT !.pc = "done", !.ok = FALSE]
                                 ELSE IF r.kind # "toggle" THEN [r EXCEPT !.pc = "write"]
                                 ELSE [r EXCEPT !.pc = IF NextState(r, cr.enabled) = cr.enabled THEN "done" ELSE "write",
                                                !.target = NextState(r, cr.enabled)])
    /\ UNCHANGED clusterVars

(* What becomes of a write: it is done, refused, or done and its answer lost. *)
Outcomes == {"done"} \cup (IF taskMishaps < MaxMishaps THEN {"refused", "lost"} ELSE {})

(* patchTaskCrState, deleteTaskCr, markManualRun; a task that has gone meanwhile is an error. *)
ActionWrites(r) ==
    /\ r.kind \in {"toggle", "delete", "run"} /\ r.pc = "write"
    /\ \E outcome \in Outcomes :
          LET took == outcome # "refused" /\ crs[r.task] # None
          IN  /\ Counted(outcome # "done")
              /\ tab' = Became(r, [r EXCEPT !.pc = "done", !.ok = took /\ outcome = "done"])
              /\ crs' = IF ~took \/ r.kind = "run" THEN crs
                        ELSE IF r.kind = "delete" THEN [crs EXCEPT ![r.task] = None]
                        ELSE [crs EXCEPT ![r.task].enabled = r.target]
              /\ marked' = IF ~took \/ r.kind = "toggle" THEN marked
                           ELSE IF r.kind = "run" THEN marked \cup {r.task} ELSE marked \ {r.task}
              /\ presses' = IF took /\ r.kind = "toggle" THEN [presses EXCEPT ![r.task].took = TRUE] ELSE presses
    /\ UNCHANGED <<runs, tpls>>

(* What the tab does with the answer; a failure is only reported. *)
ActionArrives(r) ==
    /\ r.kind \in {"toggle", "delete", "run"} /\ r.pc = "done"
    /\ tab' = IF ~r.ok THEN [Gone(r) EXCEPT !.running = @ /\ r.kind # "run"]
              ELSE IF r.kind = "toggle" THEN LoadTasks(Gone(r), None)
              ELSE IF r.kind = "delete" THEN LoadTasks([Gone(r) EXCEPT !.sel = None, !.reports = <<>>], None)
              ELSE IF r.follow THEN LoadReports(Gone(r), r.task, TRUE)
              ELSE [Gone(r) EXCEPT !.running = FALSE]
    /\ UNCHANGED <<clusterVars, taskMishaps>>

-----------------------------------------------------------------------------
(* The create dialog *)

ResetForm == [name |-> FALSE, prompt |-> EmptyText, cron |-> "nightly", templateRef |-> None, params |-> <<>>, trigger |-> "Cron"]
Named(templates, name) == IF \E x \in templates : x.name = name THEN CHOOSE x \in templates : x.name = name ELSE None
ActiveTemplate(p) == Named(p.templates, p.form.templateRef)

DefaultParams(tpl) ==
    LET given == {x \in DOMAIN tpl.schema : tpl.schema[x].default # None}
    IN  [x \in given |-> tpl.schema[x].default]

(* Mutant: what was set for the former template stays. *)
OnChangeTemplate_KeepsParams(f, tpl) ==
    [f EXCEPT !.templateRef = tpl.name,
              !.params = [x \in DOMAIN @ \cup DOMAIN DefaultParams(tpl) |-> IF x \in DOMAIN @ THEN @[x] ELSE DefaultParams(tpl)[x]],
              !.cron = IF tpl.cron # EmptyText THEN tpl.cron ELSE IF @ # EmptyText THEN @ ELSE "nightly"]

OnChangeTemplate(f, tpl) ==
    [f EXCEPT !.templateRef = tpl.name, !.params = DefaultParams(tpl),
              !.cron = IF tpl.cron # EmptyText THEN tpl.cron ELSE IF @ # EmptyText THEN @ ELSE "nightly"]

OpenDialog ==
    /\ ~tab.dialog
    /\ \E f \in {ResetForm} \cup {OnChangeTemplate(ResetForm, tpl) : tpl \in tab.templates} :
          tab' = [tab EXCEPT !.dialog = TRUE, !.form = f]
    /\ UNCHANGED <<clusterVars, taskMishaps>>

(* The values a parameter's field can be given. *)
Choices(param) == IF param.enum # {} THEN param.enum ELSE {"1", EmptyText}
SetParam(f, x, value) == [f EXCEPT !.params = [y \in DOMAIN @ \cup {x} |-> IF y = x THEN value ELSE @[y]]]

FormEdits(p) ==
    LET f == p.form
        tpl == ActiveTemplate(p)
    IN  {[f EXCEPT !.templateRef = None, !.params = <<>>]} \cup {[f EXCEPT !.name = x] : x \in BOOLEAN}
        \cup {OnChangeTemplate(f, x) : x \in p.templates}
        \cup {[f EXCEPT !.trigger = x] : x \in {"Cron", "Manual"}}
        \cup (IF f.trigger = "Cron" THEN {[f EXCEPT !.cron = x] : x \in {EmptyText, "bad", "hourly"}} ELSE {})
        \cup (IF tpl = None THEN {[f EXCEPT !.prompt = x] : x \in {EmptyText, "text"}}
              ELSE UNION {{SetParam(f, x, v) : v \in Choices(tpl.schema[x])} : x \in DOMAIN tpl.schema})

EditForm ==
    /\ tab.dialog /\ tab.edits < MaxFormEdits
    /\ \E f \in FormEdits(tab) : f # tab.form /\ tab' = [tab EXCEPT !.form = f, !.edits = @ + 1]
    /\ UNCHANGED <<clusterVars, taskMishaps>>

CloseDialog ==
    /\ tab.dialog
    /\ tab' = [tab EXCEPT !.dialog = FALSE]
    /\ UNCHANGED <<clusterVars, taskMishaps>>

isValidCron(cron) == cron \notin {EmptyText, "bad"}
Schedule(f) == IF f.trigger = "Cron" THEN f.cron ELSE EmptyText

(* The dialog stays as it is until the answer, so Create can be pressed again. *)
CreateTask ==
    /\ tab.dialog /\ tab.edits < MaxFormEdits
    /\ LET f == tab.form
           tpl == ActiveTemplate(tab)
       IN  /\ f.name
           /\ tpl # None \/ f.prompt # EmptyText
           /\ f.trigger = "Cron" => isValidCron(f.cron)
           /\ tab' = [Send(tab, [TaskRequest("create", None, "sent") EXCEPT !.form = [form |-> f, template |-> tpl]])
                        EXCEPT !.edits = @ + 1]
    /\ UNCHANGED <<clusterVars, taskMishaps>>

(* resolveParams: None when a value is not one of its enum. *)
ResolveParams(schema, overrides) ==
    LET merged == [x \in DOMAIN schema \cup DOMAIN overrides |->
                     IF x \in DOMAIN overrides THEN overrides[x]
                     ELSE IF schema[x].default # None THEN schema[x].default ELSE EmptyText]
    IN  IF \E x \in DOMAIN schema : schema[x].enum # {} /\ merged[x] \notin schema[x].enum THEN None ELSE merged

(* renderInstruction *)
RenderInstruction(tpl, params) == [name |-> tpl.name, rev |-> tpl.rev, values |-> params]

(* The route reads the template as it is now and renders the instruction. *)
TaskResolved(r) ==
    /\ r.kind = "create" /\ r.pc = "sent"
    /\ LET f == r.form.form
           ref == IF r.form.template = None THEN None ELSE r.form.template.name
           tpl == Named(tpls, ref)
           params == IF tpl = None THEN None ELSE ResolveParams(tpl.schema, f.params)
           cr == [owner |-> Me, enabled |-> TRUE, cron |-> Schedule(f), templateRef |-> ref,
                  params |-> IF ref = None THEN <<>> ELSE params,
                  instruction |-> IF ref = None THEN f.prompt ELSE RenderInstruction(tpl, params)]
       IN  \E failed \in {FALSE} \cup (IF ref = None THEN {} ELSE MayFail) :
             /\ Counted(failed)
             /\ tab' = Became(r, IF failed \/ (ref # None /\ (tpl = None \/ params = None)) THEN [r EXCEPT !.pc = "done", !.ok = FALSE]
                                 ELSE [r EXCEPT !.pc = "write", !.ans = cr])
    /\ UNCHANGED clusterVars

(* taskCrName: a random name, and one is as good as another. *)
Unused == {t \in TaskIds \ taskDoing : crs[t] = None /\ runs[t] = <<>> /\ ~presses[t].took}
TaskCrName == CHOOSE t \in Unused : TRUE

TaskCreated(r) ==
    /\ r.kind = "create" /\ r.pc = "write"
    /\ \E outcome \in Outcomes :
          /\ Counted(outcome # "done")
          /\ crs' = IF outcome = "refused" THEN crs ELSE [crs EXCEPT ![TaskCrName] = r.ans]
          /\ tab' = Became(r, [r EXCEPT !.pc = "done", !.ok = outcome = "done", !.task = TaskCrName, !.ans = None, !.form = None])
    /\ Unused # {}
    /\ UNCHANGED <<runs, marked, tpls, presses>>

(* The dialog is closed and emptied, whatever it holds by now; the new task is
   opened after the list has been read. *)
CreateArrives(r) ==
    /\ r.kind = "create" /\ r.pc = "done"
    /\ tab' = IF r.ok THEN LoadTasks([Gone(r) EXCEPT !.dialog = FALSE, !.form = ResetForm], r.task) ELSE Gone(r)
    /\ UNCHANGED <<clusterVars, taskMishaps>>

-----------------------------------------------------------------------------
(* The scheduler, other windows and other people *)

(* A run starts because its task is marked, or enabled and due. *)
RunStarts ==
    /\ \E t \in TaskIds :
          /\ crs[t] # None /\ Len(runs[t]) < MaxRuns
          /\ t \in marked \/ (crs[t].enabled /\ crs[t].cron # EmptyText)
          /\ runs' = [runs EXCEPT ![t] = <<"Pending">> \o @]
          /\ marked' = marked \ {t}
    /\ UNCHANGED <<crs, tpls, presses, tab, taskMishaps>>

(* A run ends, also that of a task that is gone. *)
RunEnds ==
    /\ \E t \in TaskIds, phase \in {"Completed", "Failed"} :
          \E i \in DOMAIN runs[t] : runs[t][i] = "Pending" /\ runs' = [runs EXCEPT ![t][i] = phase]
    /\ UNCHANGED <<crs, marked, tpls, presses, tab, taskMishaps>>

OthersToggle ==
    /\ \E t \in TaskIds :
          /\ crs[t] # None
          /\ crs' = [crs EXCEPT ![t].enabled = ~@]
          /\ presses' = [presses EXCEPT ![t] = [asked |-> @.asked \cup {~crs[t].enabled}, took |-> TRUE]]
    /\ UNCHANGED <<runs, marked, tpls, tab, taskMishaps>>

OthersDeleteTask ==
    /\ \E t \in TaskIds : crs[t] # None /\ crs' = [crs EXCEPT ![t] = None] /\ marked' = marked \ {t}
    /\ UNCHANGED <<runs, tpls, presses, tab, taskMishaps>>

(* A template is replaced by another of its name, or removed: once, and while a
   request is about to read it, since elsewhere the order is all one. *)
OthersEditTemplate ==
    /\ tpls = {x \in Templates : x.rev = 0}
    /\ \E r \in tab.reqs : r.kind = "create" /\ r.pc = "sent"
    /\ \E x \in tpls :
          \/ tpls' = tpls \ {x}
          \/ \E y \in Templates : y.name = x.name /\ y.rev > x.rev /\ tpls' = (tpls \ {x}) \cup {y}
    /\ UNCHANGED <<crs, runs, marked, presses, tab, taskMishaps>>

-----------------------------------------------------------------------------
Initially(owner, cron) ==
    [owner |-> owner, enabled |-> TRUE, cron |-> cron, templateRef |-> None, params |-> <<>>, instruction |-> "text"]

(* A schedule of mine, one without a schedule, and another's; bound: those of the scene. *)
FirstTasks ==
    [t \in TaskIds |-> IF t \notin taskDoing THEN None
                       ELSE IF t = "z" THEN Initially("you", "nightly")
                       ELSE Initially(Me, IF t = "p" THEN "nightly" ELSE EmptyText)]

(* The tab has just been mounted, or both of its loads are in. *)
Mounted ==
    [tasks |-> [t \in TaskIds |-> None], templates |-> {}, sel |-> None, reports |-> <<>>, index |-> 0,
     running |-> FALSE, dialog |-> FALSE, form |-> ResetForm, edits |-> 0,
     reqs |-> {TaskRequest("tasks", None, "sent"), TaskRequest("templates", None, "sent")}]
Loaded == [Mounted EXCEPT !.tasks = TaskList, !.templates = TemplateList, !.reqs = {}]

ClusterInit ==
    /\ crs = FirstTasks
    /\ runs = [t \in TaskIds |-> <<>>] /\ marked = {}
    /\ tpls = {x \in Templates : x.rev = 0}
    /\ presses = [t \in TaskIds |-> [asked |-> {}, took |-> FALSE]]
    /\ taskMishaps = 0

TasksInit == taskDoing \in TaskDoings /\ ClusterInit /\ tab = IF "mount" \in taskDoing THEN Mounted ELSE Loaded

TaskUser ==
    \/ "reports" \in taskDoing /\ (OpenTask \/ ChooseReport)
    \/ "toggle" \in taskDoing /\ ToggleTask
    \/ "delete" \in taskDoing /\ DeleteTask
    \/ "run" \in taskDoing /\ RunTaskId
    \/ "create" \in taskDoing /\ (OpenDialog \/ EditForm \/ CloseDialog \/ CreateTask)

TaskServed(r) ==
    \/ ReadsServed(r) \/ TasksArrive(r) \/ TemplatesArrive(r) \/ ReportsArrive(r)
    \/ ActionChecks(r) \/ ActionWrites(r) \/ ActionArrives(r)
    \/ TaskResolved(r) \/ TaskCreated(r) \/ CreateArrives(r)

TaskSteps ==
    \/ TaskUser \/ PollReports
    \/ "scheduler" \in taskDoing /\ (RunStarts \/ RunEnds)
    \/ "others" \in taskDoing /\ (OthersToggle \/ OthersDeleteTask)
    \/ "templates" \in taskDoing /\ OthersEditTemplate
    \/ \E r \in tab.reqs : TaskServed(r)

(* Bound: two reads of a kind and one other request at a time, two in a scene of their own. *)
InFlight(kinds) == Cardinality({r \in tab'.reqs : r.kind \in kinds})
TaskWithinBounds ==
    /\ UNCHANGED taskDoing
    /\ InFlight({"tasks"}) <= 2 /\ InFlight({"reports"}) <= 2
    /\ InFlight({"toggle", "delete", "run", "create"}) <= IF "twice" \in taskDoing THEN MaxReqs ELSE 1

TasksNext == TaskSteps /\ TaskWithinBounds

(* The interval ticks, reads of reports are answered and acted on, and runs end. *)
TaskFairness ==
    /\ WF_taskVars(PollReports /\ TaskWithinBounds)
    /\ WF_taskVars((\E r \in tab.reqs : r.kind = "reports" /\ ReadsServed(r)) /\ TaskWithinBounds)
    /\ WF_taskVars((\E r \in tab.reqs : ReportsArrive(r)) /\ TaskWithinBounds)
    /\ WF_taskVars("scheduler" \in taskDoing /\ RunEnds /\ TaskWithinBounds)

-----------------------------------------------------------------------------
(* Properties *)

(* A press repeated because its answer was lost, or because the row had not
   been read again, does not undo the first: as long as everybody asked for the
   same state, a task that took it has it. *)
RetriesAgree ==
    \A t \in TaskIds, s \in BOOLEAN :
        (crs[t] # None /\ presses[t].took /\ presses[t].asked = {s}) => crs[t].enabled = s

(* What the dialog showed for a parameter.  (Where the browser shows the first
   choice of a parameter without a default, nothing is set, and the route refuses:
   no task comes of it.) *)
ShownParams(c) ==
    [x \in DOMAIN c.template.schema |->
        IF x \in DOMAIN c.form.params THEN c.form.params[x]
        ELSE IF c.template.schema[x].default # None THEN c.template.schema[x].default ELSE EmptyText]

(* A task is created as the dialog showed it when Create was pressed, whatever
   was chosen and typed before and since: with its schedule, its template and
   the values of that template's parameters and no other's, or its prompt; and a
   template that has changed meanwhile is run in its new form, with a valid value
   for each of its parameters. *)
AsConfirmed(cr, c) ==
    /\ cr.cron = Schedule(c.form)
    /\ cr.templateRef = (IF c.template = None THEN None ELSE c.template.name)
    /\ c.template = None => cr.instruction = c.form.prompt /\ cr.params = <<>>
    /\ c.template # None =>
          /\ cr.instruction.values = cr.params
          /\ cr.instruction.rev = c.template.rev => cr.params = ShownParams(c)
          /\ \E x \in Templates :
                /\ x.name = cr.templateRef /\ x.rev = cr.instruction.rev
                /\ \A y \in DOMAIN x.schema : x.schema[y].enum # {} => cr.params[y] \in x.schema[y].enum

TaskAsConfirmed == [][\A t \in TaskIds : crs[t] = None /\ crs'[t] # None =>
                        \E r \in tab.reqs \ tab'.reqs : r.kind = "create" /\ AsConfirmed(crs'[t], r.form)]_taskVars

(* A report that is shown as running is seen to its end while its task is open,
   although answers overtake each other and another task's may be shown for a
   while: whatever is shown as running is asked for again. *)
RunFollowed == []<>(tab.sel = None \/ tab.reports = <<>> \/ tab.reports[1] # "running")
=============================================================================
