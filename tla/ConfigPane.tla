----------------------------- MODULE ConfigPane -----------------------------
(***************************************************************************)
(* The assistant's configuration page (components/cubepilot/ConfigPane.tsx) *)
(* over the routes of AgentCatalog: what it loads, the model it offers and *)
(* saves, and the editor of external providers with its fetched list of    *)
(* ids.  The page and the routes run side by side, and so do two loads.    *)
(* Left out: the prompt, the instance's status card and the confirmation   *)
(* policy.                                                                 *)
(***************************************************************************)
EXTENDS AgentCatalog

CONSTANT MaxTouches       \* bound: what the reader does to the editor's fields

VARIABLES pane, touches

paneVars == <<pane, touches>>

Me == CHOOSE u \in Callers : InstanceName[u] = u
Endpoints == {"e", "f"}

(* configFromCr *)
ConfigFromCr(cr, t, catalogs) ==
    [exists |-> cr # Unset, selected |-> IF cr = Unset THEN Unset ELSE cr.selected,
     providers |-> t.providers, entries |-> catalogs]

(* GET config: an instance of another owner reads as absent. *)
ReadConfig ==
    LET cr == instances[InstanceName[Me]]
    IN  ConfigFromCr(IF cr # Unset /\ cr.owner # Me THEN Unset ELSE cr, template, live)

EmptyForm == [name |-> Unset, endpoint |-> Unset, models |-> {}, key |-> FALSE, public |-> FALSE]

(* The causes of a load; bound: each has at most one load under way. *)
Causes == {"mount", "save", "llm"}
Idle == [at |-> "idle", config |-> Unset]
Sent == [at |-> "sent", config |-> Unset]

PaneInit ==
    /\ touches = 0
    /\ pane = [config |-> [exists |-> FALSE, selected |-> Unset, providers |-> <<>>,
                           entries |-> [g \in GatewayNames |-> {}]],
               loads |-> [c \in Causes |-> IF c = "mount" /\ scene \cap {"select", "editor", "rows"} # {} THEN Sent ELSE Idle], loaded |-> FALSE,
               loadError |-> FALSE, saving |-> FALSE, llmBusy |-> FALSE,
               llmForm |-> EmptyForm, editingProvider |-> Unset, llmFetched |-> Unset, llmFetch |-> Unset]

-----------------------------------------------------------------------------
(* What the page offers *)

LivePlatformProviders(c) == {g \in GatewayNames : c.entries[g] # {}}

(* The Gateways' own lists stand in for the entries the template declares, which
   then have nothing to offer. *)
CatalogProviders(c) ==
    IF LivePlatformProviders(c) = {} THEN c.providers
    ELSE [i \in DOMAIN Gateways |-> [name |-> Gateways[i], models |-> c.entries[Gateways[i]], ref |-> Unset]]
         \o [i \in DOMAIN c.providers |->
                [c.providers[i] EXCEPT !.models = IF c.providers[i].name \in GatewayNames THEN {} ELSE @]]

(* A provider without a chat model makes no group. *)
ChatRefs(p) == {p.name} \X (p.models \cap ChatIds)
ModelGroups(c) == {i \in DOMAIN CatalogProviders(c) : ChatRefs(CatalogProviders(c)[i]) # {}}
ModelOptions(c) == UNION {ChatRefs(CatalogProviders(c)[i]) : i \in ModelGroups(c)}

(* The stored selection while it can be chosen, else the first option. *)
ModelValue(c) ==
    IF c.selected \in ModelOptions(c) THEN c.selected
    ELSE IF ModelGroups(c) = {} THEN Unset
    ELSE CHOOSE r \in ChatRefs(CatalogProviders(c)[Min(ModelGroups(c))]) : TRUE

ChooseModel ==
    /\ "select" \in scene
    /\ \E ref \in ModelOptions(pane.config) \ {ModelValue(pane.config)} : pane' = [pane EXCEPT !.config.selected = ref]
    /\ UNCHANGED <<catalogVars, touches>>

-----------------------------------------------------------------------------
(* loadAll and saveConfig *)

LoadReads ==
    /\ \E c \in Causes :
         pane.loads[c] = Sent /\ pane' = [pane EXCEPT !.loads[c] = [at |-> "read", config |-> ReadConfig]]
    /\ UNCHANGED <<catalogVars, touches>>

(* A load after a change of the providers holds their editor until it ends. *)
AfterLoad(p, c) ==
    [p EXCEPT !.loads[c] = Idle, !.loaded = TRUE, !.llmBusy = IF c = "llm" THEN FALSE ELSE @]

LoadLands ==
    /\ \E c \in Causes :
         /\ pane.loads[c].at = "read"
         /\ pane' = [AfterLoad(pane, c) EXCEPT !.config = pane.loads[c].config, !.loadError = FALSE]
    /\ UNCHANGED <<catalogVars, touches>>

LoadFails ==
    /\ \E c \in Causes : pane.loads[c].at # "idle" /\ pane' = [AfterLoad(pane, c) EXCEPT !.loadError = TRUE]
    /\ Call("refused")
    /\ UNCHANGED <<template, secrets, instances, live, llm, save, scene, requests, touches>>

SaveConfig ==
    /\ "select" \in scene /\ Room /\ save = Unset
    /\ ~pane.saving /\ ModelValue(pane.config) # Unset /\ pane.loads["save"] = Idle
    /\ save' = SaveRequest("page", Me, TRUE, ModelValue(pane.config))
    /\ pane' = [pane EXCEPT !.saving = TRUE]
    /\ requests' = requests + 1
    /\ UNCHANGED <<template, secrets, instances, live, llm, scene, mishap, touches>>

SaveAnswered ==
    /\ save # Unset /\ save.at \in {"ok", "failed"}
    /\ \E outcome \in {"done", "lost"} :
         /\ Call(outcome)
         /\ pane' = IF save.at = "ok" /\ outcome = "done"
                    THEN [pane EXCEPT !.saving = FALSE, !.loads["save"] = Sent,
                                      !.config = ConfigFromCr(save.exists, save.saw, save.entries)]
                    ELSE [pane EXCEPT !.saving = FALSE]
    /\ save' = Unset
    /\ UNCHANGED <<template, secrets, instances, live, llm, scene, requests, touches>>

-----------------------------------------------------------------------------
(* The editor of external providers *)

(* Mutant: only the list on screen is dropped. *)
ClearFetched_Shown(p) == [p EXCEPT !.llmFetched = Unset]

(* A fetched list belongs to what it was asked with; an answer still to come is dropped. *)
ClearFetched(p) ==
    [p EXCEPT !.llmFetched = Unset, !.llmFetch = IF @ = Unset THEN @ ELSE [@ EXCEPT !.current = FALSE]]

ResetLlmForm(p) == [ClearFetched(p) EXCEPT !.llmForm = EmptyForm, !.editingProvider = Unset]

StartEditLlm(p, entry) ==
    [ClearFetched(p) EXCEPT !.editingProvider = entry.name,
        !.llmForm = [name |-> entry.name, endpoint |-> "e", models |-> entry.models, key |-> FALSE,
                     public |-> entry.ref = Unset]]

ExternalRows(c) == {p \in Range(c.providers) : p.name \notin GatewayNames}

(* What the reader does: to a provider's row, to the fields, to the fetched ids. *)
TouchRow(p) ==
    (IF p.llmBusy THEN {} ELSE {StartEditLlm(p, entry) : entry \in ExternalRows(p.config)})
    \cup (IF p.llmBusy \/ p.editingProvider = Unset THEN {} ELSE {ResetLlmForm(p)})

TouchField(p) ==
    (IF p.editingProvider # Unset THEN {} ELSE {[p EXCEPT !.llmForm.name = n] : n \in Externals})
    \cup {[ClearFetched(p) EXCEPT !.llmForm.endpoint = e] : e \in Endpoints}
    \cup {[p EXCEPT !.llmForm.public = FALSE]}
    \cup {[ClearFetched(p) EXCEPT !.llmForm.public = TRUE, !.llmForm.key = FALSE]}
    \cup (IF p.llmForm.public THEN {} ELSE {[ClearFetched(p) EXCEPT !.llmForm.key = k] : k \in BOOLEAN})
    \cup {[p EXCEPT !.llmForm.models = ms] : ms \in ModelLists}

ToggleModel(p) ==
    IF p.llmFetched = Unset THEN {}
    ELSE {[p EXCEPT !.llmForm.models = IF id \in @ THEN @ \ {id} ELSE @ \cup {id}] : id \in p.llmFetched.ids}

Touch ==
    /\ "editor" \in scene /\ touches < MaxTouches
    /\ pane' \in TouchRow(pane) \cup TouchField(pane) \cup ToggleModel(pane)
    /\ pane' # pane
    /\ touches' = touches + 1
    /\ UNCHANGED catalogVars

FetchLlmModels ==
    /\ "editor" \in scene
    /\ pane.llmFetch = Unset /\ pane.llmForm.endpoint # Unset /\ (pane.llmForm.public \/ pane.llmForm.key)
    /\ pane' = [pane EXCEPT !.llmFetched = Unset,
                            !.llmFetch = [endpoint |-> pane.llmForm.endpoint, public |-> pane.llmForm.public, current |-> TRUE]]
    /\ UNCHANGED <<catalogVars, touches>>

(* What the endpoint answers: its ids, or an error. *)
FetchAnswers == ModelLists \cup {Unset}

FetchLands ==
    /\ pane.llmFetch # Unset
    /\ \E ids \in FetchAnswers :
         pane' = [pane EXCEPT !.llmFetch = Unset,
                    !.llmFetched = IF ~pane.llmFetch.current \/ ids = Unset THEN @
                                   ELSE [endpoint |-> pane.llmFetch.endpoint, public |-> pane.llmFetch.public, ids |-> ids]]
    /\ UNCHANGED <<catalogVars, touches>>

WasKeyed(p) == \E entry \in Range(p.config.providers) : entry.name = p.editingProvider /\ entry.ref # Unset

SubmitLlm ==
    /\ "editor" \in scene /\ Room /\ llm = Unset /\ ~pane.llmBusy
    /\ LET f == pane.llmForm
           editing == pane.editingProvider # Unset
       IN  /\ f.name # Unset /\ f.endpoint # Unset /\ f.models # {}
           /\ f.public \/ f.key \/ WasKeyed(pane)
           /\ llm' = LlmRequest("page", IF editing THEN "put" ELSE "post", f.name, f.models, f.key, f.public)
    /\ pane' = [pane EXCEPT !.llmBusy = TRUE]
    /\ requests' = requests + 1
    /\ UNCHANGED <<template, secrets, instances, live, save, scene, mishap, touches>>

RemoveLlm ==
    /\ scene \cap {"editor", "rows"} # {} /\ Room /\ llm = Unset /\ ~pane.llmBusy
    /\ \E entry \in ExternalRows(pane.config) : llm' = LlmRequest("page", "delete", entry.name, {}, FALSE, FALSE)
    /\ pane' = [pane EXCEPT !.llmBusy = TRUE]
    /\ requests' = requests + 1
    /\ UNCHANGED <<template, secrets, instances, live, save, scene, mishap, touches>>

(* Success empties the editor (a removal only when it was the provider's own)
   and loads again; a failure leaves what was typed. *)
Finished(p, ok) == IF ok THEN [p EXCEPT !.loads["llm"] = Sent] ELSE [p EXCEPT !.llmBusy = FALSE]

SubmitAnswered ==
    /\ llm # Unset /\ llm.kind # "delete" /\ llm.at \in {"ok", "failed"}
    /\ \E outcome \in {"done", "lost"} :
         LET ok == llm.at = "ok" /\ outcome = "done"
         IN  /\ Call(outcome)
             /\ pane' = Finished(IF ok THEN ResetLlmForm(pane) ELSE pane, ok)
    /\ llm' = Unset
    /\ UNCHANGED <<template, secrets, instances, live, save, scene, requests, touches>>

RemoveAnswered ==
    /\ llm # Unset /\ llm.kind = "delete" /\ llm.at \in {"ok", "failed"}
    /\ \E outcome \in {"done", "lost"} :
         LET ok == llm.at = "ok" /\ outcome = "done"
         IN  /\ Call(outcome)
             /\ pane' = Finished(IF ok /\ pane.editingProvider = llm.name THEN ResetLlmForm(pane) ELSE pane, ok)
    /\ llm' = Unset
    /\ UNCHANGED <<template, secrets, instances, live, save, scene, requests, touches>>

ConfigNext ==
    \/ CatalogNext /\ UNCHANGED paneVars
    \/ ChooseModel \/ LoadReads \/ LoadLands \/ LoadFails \/ SaveConfig \/ SaveAnswered
    \/ Touch \/ FetchLlmModels \/ FetchLands \/ SubmitLlm \/ RemoveLlm \/ SubmitAnswered \/ RemoveAnswered

ConfigInit == CatalogInit /\ PaneInit

-----------------------------------------------------------------------------
(* Properties *)

AtRest == llm = Unset /\ save = Unset

SelectionResolves ==
    \A n \in DOMAIN instances :
        LET cr == instances[n]
        IN  (cr # Unset /\ cr.selected # Unset /\ cr.selected[1] \in Externals) => cr.selected \in ListedRefs(template)

KeyedHaveKeys ==
    (AtRest /\ mishap # "lost" /\ ("together" \in scene => mishap = "none")) =>
        \A p \in Range(template.providers) : p.ref \in secrets \cup {Unset}

(* Whoever selects a model can have its turns answered.  What an instance
   selects from an external provider is in the catalogue: a removal and an edit
   look for selections before they patch, a save writes the template before the
   instance, and an undo does not touch a template that somebody has written
   since.  And between requests an entry points at a Secret that exists, although
   the entry is written first and either write may be refused.  (An answer that
   is lost on the way, or a refusal while somebody else writes the template, is
   beyond it.) *)
SelectedCanAnswer == SelectionResolves /\ KeyedHaveKeys

(* A page that shows the cluster as it is offers what a save accepts, and all
   of it that can chat; without a Gateway it may also offer what the template
   still lists of the platform's. *)
OfferedIsAccepted ==
    LET c == pane.config
        accepted == {r \in Selectable(template, live) : r[2] \in ChatIds}
    IN  (c.providers = template.providers /\ c.entries = live) =>
            IF Served(live) = {} THEN ModelOptions(c) \ accepted \subseteq GatewayNames \X Ids /\ accepted \subseteq ModelOptions(c)
            ELSE ModelOptions(c) = accepted

(* The ids on offer came from the endpoint in the form, whatever was typed and
   whichever provider was opened while they were asked for; and ids asked for
   with a key are gone once the form says there is none. *)
FetchedIsTheForms ==
    pane.llmFetched # Unset =>
        /\ pane.llmFetched.endpoint = pane.llmForm.endpoint
        /\ pane.llmForm.public => pane.llmFetched.public

(* The two pickers of the page, the assistant's model and the ids of a provider's
   form, offer what a save takes and what the endpoint in the form serves. *)
PickerIsTrue == OfferedIsAccepted /\ FetchedIsTheForms
=============================================================================
