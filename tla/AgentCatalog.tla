---------------------------- MODULE AgentCatalog ----------------------------
(***************************************************************************)
(* The assistant's model catalogue: the AgentTemplate's provider list, the *)
(* Secrets its entries point at and the instances that select from it, as  *)
(* the portal's routes write them (app/api/cubepilot/agent/llms,           *)
(* .../llms/[name], .../config; lib/cubepilot/agentcrd.ts and llm.ts).     *)
(*                                                                         *)
(* A route is a chain of calls to the API server, one step each, and any   *)
(* call may be refused or lose its answer.  A patch addresses a provider   *)
(* by the index it had in the template the request read.  One request of   *)
(* the provider editor (llm) and one save of a configuration (save) may be *)
(* under way together; CatalogOverlap has two of the editor's at once.  A  *)
(* model ref is <<provider, id>>; ids hold no "/", lists of ids are sets,  *)
(* and an entry's endpoint is left out.                                    *)
(***************************************************************************)
EXTENDS Naturals, FiniteSets, Sequences, SequencesExt

CONSTANTS Unset,          \* a field the object does not carry (a model value)
          Externals,      \* names of external providers
          Gateways,       \* names of the platform's providers, one per AI Gateway, the public one first
          Ids, ChatIds,   \* model ids, and those that name a chat model
          ModelLists,     \* the lists of ids a provider is given
          Callers,        \* the users who save a configuration
          InstanceName,   \* the instance name each caller's identity is folded to
          Scenes,         \* the scenes a behaviour may play: what happens in it
          MaxProviders,   \* the CRD's cap on spec.providers
          MaxRequests     \* bound: requests

VARIABLES template,       \* the builtin AgentTemplate: providers, defaultModel, resourceVersion
          secrets,        \* the Secrets there are
          instances,      \* the AgentInstances by name
          live,           \* the ids each AI Gateway serves
          llm,            \* the request of the provider editor under way
          save,           \* the save under way
          scene, requests,
          mishap          \* the one call that went wrong: "none", "refused" or "lost"

catalogVars == <<template, secrets, instances, live, llm, save, scene, requests, mishap>>

GatewayNames == Range(Gateways)

(* A platform provider is not an external one, no provider goes by the name of the
   borrowed Secret, and everything is called something.  The platform has a
   Gateway, a provider lists known ids, and the initial catalogue can be made. *)
ASSUME CatalogAssumption ==
    /\ Gateways \in Seq(STRING) /\ Gateways # <<>>
    /\ GatewayNames \cap Externals = {} /\ "shared" \notin Externals \cup GatewayNames
    /\ Unset \notin Externals \cup GatewayNames /\ {"x", "y"} \subseteq Externals
    /\ {"m", "n", "e"} \subseteq Ids /\ ChatIds \subseteq Ids /\ ModelLists \subseteq SUBSET Ids
    /\ DOMAIN InstanceName = Callers /\ \E u \in Callers : InstanceName[u] = u

ProviderNames == Externals \cup GatewayNames
Provider == [name : ProviderNames, models : SUBSET Ids, ref : ProviderNames \cup {"shared", Unset}]

Refs == ProviderNames \X Ids
llmCredentialName(name) == name         \* the Secret llm-<name> goes by the provider's name

RefsOf(p) == {p.name} \X p.models
ListedRefs(t) == UNION {RefsOf(p) : p \in Range(t.providers)}
ProviderIndex(providers, name) == SelectInSeq(providers, LAMBDA p : p.name = name)
SelectedRefs == {instances[n].selected : n \in {n \in DOMAIN instances : instances[n] # Unset}}

-----------------------------------------------------------------------------
(* The API server *)

(* The CRD's rules on an AgentTemplate. *)
Admits(t) == Len(t.providers) <= MaxProviders /\ t.defaultModel \in ListedRefs(t) \cup {Unset}

(* A write that changes nothing keeps the resourceVersion. *)
Written(providers, default) ==
    IF providers = template.providers /\ default = template.defaultModel THEN template
    ELSE [providers |-> providers, defaultModel |-> default, resourceVersion |-> template.resourceVersion + 1]

(* What becomes of a call: it is done, refused, or done and its answer lost. *)
Outcomes == {"done"} \cup (IF mishap = "none" /\ "faults" \in scene THEN {"refused", "lost"} ELSE {})
Took(outcome) == outcome # "refused"
Call(outcome) == outcome \in Outcomes /\ mishap' = IF outcome = "done" THEN mishap ELSE outcome

-----------------------------------------------------------------------------
(* POST llms, PUT llms/[name], DELETE llms/[name] *)

(* A request ends: whoever waits for it reads how; nobody waits for the others. *)
Answered(r, how) == IF r.from = "page" THEN [r EXCEPT !.at = how] ELSE Unset

(* A request holds the body, how far it has come, and what it found and wrote. *)
LlmReq ==
    [from : {"page", "other"}, kind : {"post", "put", "delete"}, name : Externals, models : SUBSET Ids,
     key : BOOLEAN, public : BOOLEAN, at : {"look", "guard", "patch", "credential", "undo", "ok", "failed"},
     first : BOOLEAN, index : Nat, previous : Provider \cup {Unset}, patched : Nat]

(* A request under way is told from none. *)
ASSUME RequestAssumption == Unset \notin LlmReq

LlmRequest(from, kind, name, models, key, public) ==
    [from |-> from, kind |-> kind, name |-> name, models |-> models, key |-> key, public |-> public,
     at |-> "look", first |-> FALSE, index |-> 0, previous |-> Unset, patched |-> 0]

(* The refs an edit or a removal takes out of the catalogue. *)
Removed(r, entry) == IF r.kind = "delete" THEN RefsOf(entry) ELSE {r.name} \X (entry.models \ r.models)

(* Read the template: add refuses a name that is taken and a full list, edit
   and remove a name that is not there. *)
LlmLooks ==
    /\ llm # Unset /\ llm.at = "look"
    /\ \E outcome \in {"done", "refused"} :
         LET i == ProviderIndex(template.providers, llm.name)
             refused == IF llm.kind = "post" THEN i > 0 \/ Len(template.providers) >= MaxProviders ELSE i = 0
         IN  /\ Call(outcome)
             /\ llm' = IF outcome = "refused" \/ refused THEN Answered(llm, "failed")
                       ELSE IF llm.kind = "post" THEN [llm EXCEPT !.at = "patch", !.first = template.providers = <<>>]
                       ELSE [llm EXCEPT !.at = IF Removed(llm, template.providers[i]) = {} THEN "patch" ELSE "guard",
                                        !.index = i, !.previous = template.providers[i]]
    /\ UNCHANGED <<template, secrets, instances, live, save, scene, requests>>

(* Mutant: an edit does not look for those who select what it drops. *)
LlmGuards_Deletes ==
    /\ llm # Unset /\ llm.at = "guard"
    /\ \E outcome \in {"done", "refused"} :
         /\ Call(outcome)
         /\ llm' = IF outcome = "refused" \/ (llm.kind = "delete" /\ SelectedRefs \cap Removed(llm, llm.previous) # {})
                   THEN Answered(llm, "failed") ELSE [llm EXCEPT !.at = "patch"]
    /\ UNCHANGED <<template, secrets, instances, live, save, scene, requests>>

(* instancesSelectingRefs: refuse while an instance selects one of them. *)
LlmGuards ==
    /\ llm # Unset /\ llm.at = "guard"
    /\ \E outcome \in {"done", "refused"} :
         /\ Call(outcome)
         /\ llm' = IF outcome = "refused" \/ SelectedRefs \cap Removed(llm, llm.previous) # {}
                   THEN Answered(llm, "failed") ELSE [llm EXCEPT !.at = "patch"]
    /\ UNCHANGED <<template, secrets, instances, live, save, scene, requests>>

(* The credential an edit leaves the entry with: a new key is the managed
   Secret's, a keyed edit without one keeps what there was. *)
CredentialRef(r) ==
    IF r.public THEN Unset
    ELSE IF r.kind = "post" \/ r.key THEN llmCredentialName(r.name) ELSE r.previous.ref

(* The provider list after the request's patch, or Unset when its index is out of range. *)
PatchedProviders(r) ==
    LET ps == template.providers
        entry == [name |-> r.name, models |-> r.models, ref |-> CredentialRef(r)]
    IN  IF r.kind = "post" THEN (IF r.first THEN <<entry>> ELSE Append(ps, entry))
        ELSE IF r.index > Len(ps) THEN Unset
        ELSE IF r.kind = "delete" THEN RemoveAt(ps, r.index)
        ELSE [ps EXCEPT ![r.index].models = IF r.models = r.previous.models THEN @ ELSE r.models,
                        ![r.index].ref = IF CredentialRef(r) = r.previous.ref THEN @ ELSE CredentialRef(r)]

(* What is left to do about the Secret: write it, delete the managed one, or nothing. *)
CredentialStep(r) ==
    IF r.kind # "delete" /\ ~r.public /\ r.key THEN "write"
    ELSE IF (r.kind = "delete" \/ r.public) /\ r.previous # Unset /\ r.previous.ref = llmCredentialName(r.name) THEN "delete"
    ELSE "none"

(* The template is patched before the Secret is touched. *)
LlmPatches ==
    /\ llm # Unset /\ llm.at = "patch"
    /\ \E outcome \in {"done", "refused", "lost"} :
         LET ps == PatchedProviders(llm)
             ok == ps # Unset /\ Admits([template EXCEPT !.providers = ps])
         IN  /\ Call(outcome)
             /\ template' = IF ok /\ Took(outcome) THEN Written(ps, template.defaultModel) ELSE template
             /\ llm' = IF ~ok \/ outcome # "done" THEN Answered(llm, "failed")
                       ELSE IF CredentialStep(llm) = "none" THEN Answered(llm, "ok")
                       ELSE [llm EXCEPT !.at = "credential", !.patched = template'.resourceVersion]
    /\ UNCHANGED <<secrets, instances, live, save, scene, requests>>

(* upsertLlmCredential, or deleteLlmCredential where a missing Secret is no failure. *)
SecretsAfter(r) ==
    IF CredentialStep(r) = "write" THEN secrets \cup {llmCredentialName(r.name)} ELSE secrets \ {r.previous.ref}

(* A failure is undone, except that a removed provider stays removed and its
   Secret is left behind. *)
LlmCredential ==
    /\ llm # Unset /\ llm.at = "credential"
    /\ \E outcome \in {"done", "refused", "lost"} :
         /\ Call(outcome)
         /\ secrets' = IF Took(outcome) THEN SecretsAfter(llm) ELSE secrets
         /\ llm' = IF outcome = "done" \/ llm.kind = "delete" THEN Answered(llm, "ok")
                   ELSE [llm EXCEPT !.at = "undo"]
    /\ UNCHANGED <<template, instances, live, save, scene, requests>>

(* rollbackAddedProvider and restoreProvider, both on condition that the
   template is still the one this request wrote; a failed undo is dropped. *)
UndoneProviders(r) ==
    IF r.kind = "post" THEN RemoveAt(template.providers, ProviderIndex(template.providers, r.name))
    ELSE [template.providers EXCEPT ![r.index] = r.previous]

MayUndo(r) == template.resourceVersion = r.patched

LlmUndo ==
    /\ llm # Unset /\ llm.at = "undo"
    /\ \E outcome \in {"done", "refused", "lost"} :
         /\ Call(outcome)
         /\ template' = IF MayUndo(llm) /\ Took(outcome) THEN Written(UndoneProviders(llm), template.defaultModel)
                        ELSE template
    /\ llm' = Answered(llm, "failed")
    /\ UNCHANGED <<secrets, instances, live, save, scene, requests>>

-----------------------------------------------------------------------------
(* PUT config *)

(* selected is a ref or Unset; given says whether the body carries it, so that
   a given Unset is the request to clear it. *)
SaveRequest(from, user, given, selected) ==
    [from |-> from, user |-> user, given |-> given, selected |-> selected, at |-> "look", saw |-> Unset,
     exists |-> Unset, target |-> Unset, moves |-> FALSE, entries |-> [g \in GatewayNames |-> {}]]

NameOf(r) == InstanceName[r.user]

SaveLooks ==
    /\ save # Unset /\ save.at = "look"
    /\ \E outcome \in {"done", "refused"} :
         /\ Call(outcome)
         /\ save' = IF outcome = "refused" THEN Answered(save, "failed")
                    ELSE [save EXCEPT !.at = "resolve", !.saw = template, !.exists = instances[NameOf(save)]]
    /\ UNCHANGED <<template, secrets, instances, live, llm, scene, requests>>

(* The refs a save may name: those of the external providers the template
   lists and those the AI Gateways serve now. *)
ExternalProviders(t) == {p \in Range(t.providers) : p.name \notin GatewayNames}
Served(catalogs) == {r \in GatewayNames \X Ids : r[2] \in catalogs[r[1]]}
Selectable(t, catalogs) == (UNION {RefsOf(p) : p \in ExternalProviders(t)}) \cup Served(catalogs)

(* The ref a first save without a selection gets. *)
Derived(t, catalogs) ==
    LET answers == SelectInSeq(Gateways, LAMBDA g : catalogs[g] # {})
    IN  IF answers # 0 THEN <<Gateways[answers], CHOOSE m \in catalogs[Gateways[answers]] : TRUE>>
        ELSE IF Selectable(t, catalogs) = {} THEN Unset ELSE CHOOSE r \in Selectable(t, catalogs) : TRUE

(* Nothing to write: no entry to bring up to date, no default to move. *)
NothingToPatch(r) ==
    /\ ~r.moves
    /\ r.target # Unset =>
         [name |-> r.target, models |-> r.entries[r.target], ref |-> Unset] \in Range(r.saw.providers)

(* Refuse a ref nothing serves; else decide the selection, the platform entry
   to write and whether the template's default moves. *)
Resolved(r, ref, named) ==
    [r EXCEPT !.entries = live, !.selected = ref,
              !.target = IF ref # Unset /\ ref \in Served(live) THEN ref[1] ELSE Unset,
              !.moves = /\ ref # Unset /\ r.saw.defaultModel # ref
                        /\ named \/ \E g \in GatewayNames : live[g] # {}]

SaveResolves ==
    /\ save # Unset /\ save.at = "resolve"
    /\ LET named == save.selected # Unset
           ref == IF named \/ save.given \/ save.exists # Unset THEN save.selected ELSE Derived(save.saw, live)
           r == Resolved(save, ref, named)
       IN  save' = IF named /\ ref \notin Selectable(save.saw, live) THEN Answered(save, "failed")
                   ELSE [r EXCEPT !.at = IF NothingToPatch(r) THEN "instance" ELSE "patch"]
    /\ UNCHANGED <<template, secrets, instances, live, llm, scene, requests, mishap>>

(* platformProviderOps: the platform's entry is appended or brought up to date
   where the request saw it, and keeps no credential. *)
WithPlatform(r) ==
    LET ps == template.providers
        i == ProviderIndex(r.saw.providers, r.target)
        models == r.entries[r.target]
        entry == [name |-> r.target, models |-> models, ref |-> Unset]
    IN  IF r.target = Unset THEN ps
        ELSE IF r.saw.providers = <<>> THEN <<entry>>
        ELSE IF i = 0 THEN Append(ps, entry)
        ELSE IF i > Len(ps) THEN Unset
        ELSE [ps EXCEPT ![i].models = IF r.saw.providers[i].models = models THEN @ ELSE models,
                        ![i].ref = IF r.saw.providers[i].ref = Unset THEN @ ELSE Unset]

(* First the template, then the instance. *)
SavePatches ==
    /\ save # Unset /\ save.at = "patch"
    /\ \E outcome \in {"done", "refused", "lost"} :
         LET ps == WithPlatform(save)
             default == IF save.moves THEN save.selected ELSE template.defaultModel
             ok == ps # Unset /\ Admits([template EXCEPT !.providers = ps, !.defaultModel = default])
         IN  /\ Call(outcome)
             /\ template' = IF ok /\ Took(outcome) THEN Written(ps, default) ELSE template
             /\ save' = IF ok /\ outcome = "done" THEN [save EXCEPT !.at = "instance", !.saw = template']
                        ELSE Answered(save, "failed")
    /\ UNCHANGED <<secrets, instances, live, llm, scene, requests>>

(* ensureAgentInstance, or the patch of the instance there is; an instance of
   another owner is refused, once the template has been written. *)
SaveInstance ==
    /\ save # Unset /\ save.at = "instance"
    /\ \E outcome \in {"done", "refused", "lost"} :
         LET now == instances[NameOf(save)]
             there == IF save.exists = Unset THEN now ELSE save.exists
             foreign == there # Unset /\ there.owner # save.user
             written == IF now = Unset THEN [owner |-> save.user, selected |-> save.selected]
                        ELSE IF save.exists # Unset /\ save.given THEN [now EXCEPT !.selected = save.selected]
                        ELSE now
         IN  /\ Call(outcome)
             /\ instances' = IF foreign \/ ~Took(outcome) THEN instances
                             ELSE [instances EXCEPT ![NameOf(save)] = written]
             /\ save' = IF foreign \/ outcome # "done" THEN Answered(save, "failed")
                        ELSE Answered([save EXCEPT !.exists = written], "ok")
    /\ UNCHANGED <<template, secrets, live, llm, scene, requests>>

-----------------------------------------------------------------------------
(* The routes at work, and the others who use them *)

RouteSteps ==
    \/ LlmLooks \/ LlmGuards \/ LlmPatches \/ LlmCredential \/ LlmUndo
    \/ SaveLooks \/ SaveResolves \/ SavePatches \/ SaveInstance

(* Room for one more request in the scene. *)
Room == requests < MaxRequests /\ ("together" \in scene \/ (llm = Unset /\ save = Unset))

(* Another page adds, edits or removes a provider. *)
OthersEdit ==
    /\ "others" \in scene /\ Room /\ llm = Unset
    /\ \E name \in Externals, models \in ModelLists, key, public \in BOOLEAN :
         /\ ~(key /\ public)
         /\ llm' \in {LlmRequest("other", "put", name, models, key, public)}
                     \cup (IF key # public THEN {LlmRequest("other", "post", name, models, key, public)} ELSE {})
                     \cup {LlmRequest("other", "delete", name, {}, FALSE, FALSE)}
    /\ requests' = requests + 1
    /\ UNCHANGED <<template, secrets, instances, live, save, scene, mishap>>

(* Another page saves a configuration, or a client that names no model does. *)
OthersSave ==
    /\ "others" \in scene /\ Room /\ save = Unset
    /\ \E user \in Callers :
         save' \in {SaveRequest("other", user, TRUE, ref) : ref \in Refs}
                   \cup (IF "together" \in scene THEN {}
                         ELSE {SaveRequest("other", user, given, Unset) : given \in BOOLEAN})
    /\ requests' = requests + 1
    /\ UNCHANGED <<template, secrets, instances, live, llm, scene, mishap>>

(* A model is published or withdrawn, or a Gateway comes or goes.  It happens
   where somebody is about to read the lists: elsewhere the order is all one. *)
GatewayChanges ==
    /\ "gateways" \in scene
    /\ llm = Unset /\ (save # Unset => save.at = "resolve")
    /\ \E g \in GatewayNames, models \in {ms \cap ChatIds : ms \in ModelLists \cup {{}}} : live' = [live EXCEPT ![g] = models]
    /\ live' # live
    /\ UNCHANGED <<template, secrets, instances, llm, save, scene, requests, mishap>>

CatalogNext == RouteSteps \/ OthersEdit \/ OthersSave \/ GatewayChanges

(* A keyed provider and one whose Secret somebody else looks after, before
   anybody has an assistant; or the platform's entry and one that "you" select. *)
Keyed == [name |-> "x", models |-> {"m"}, ref |-> "x"]
Borrowing == [name |-> "y", models |-> {"n", "e"}, ref |-> "shared"]
Declared == [name |-> Gateways[1], models |-> {"m"}, ref |-> Unset]

CatalogInit ==
    /\ scene \in Scenes
    /\ \E used \in BOOLEAN :
         /\ template = [providers |-> IF used THEN <<Declared, Borrowing>> ELSE <<Keyed, Borrowing>>,
                        defaultModel |-> IF used THEN <<Gateways[1], "m">> ELSE Unset, resourceVersion |-> 0]
         /\ secrets = IF used THEN {"shared"} ELSE {"x", "shared"}
         /\ instances = [n \in Range(InstanceName) |->
                            IF used /\ n = "you" THEN [owner |-> n, selected |-> <<"y", "n">>] ELSE Unset]
    /\ live = [g \in GatewayNames |-> {}]
    /\ llm = Unset /\ save = Unset /\ requests = 0 /\ mishap = "none"
=============================================================================
