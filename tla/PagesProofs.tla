----------------------------- MODULE PagesProofs -----------------------------
(***************************************************************************)
(* The safety properties of the development environments console, of the   *)
(* scale card of the inference services console and of the assistant's     *)
(* tasks tab, for all sets of names, counts, templates, doings and bounds: *)
(* of the specification Pages runs, in which each is one of three tabs.    *)
(***************************************************************************)
EXTENDS Pages, TLAPS, WellFoundedInduction

-----------------------------------------------------------------------------
(* The newest row *)

\* Of naturals that are bounded one is the largest: the smallest distance from the bound.
LEMMA Largest ==
  ASSUME NEW S, S \subseteq Nat, S # {}, NEW b \in Nat, \A x \in S : x <= b
  PROVE  \E x \in S : \A y \in S : y <= x
<1> DEFINE T == {b - x : x \in S}
           R == OpToRel(<, Nat)
<1>1. T \subseteq Nat /\ T # {}
  <2>1. T \subseteq Nat
    OBVIOUS
  <2>2. PICK x \in S : TRUE
    OBVIOUS
  <2>3. b - x \in T
    BY <2>2
  <2> QED BY <2>1, <2>3
<1>2. \E d \in T : \A e \in T : ~(<<e, d>> \in R)
  <2> HIDE DEF T, R
  <2> IsWellFoundedOn(R, Nat)
    BY NatLessThanWellFounded DEF R
  <2> QED BY <1>1, WFMin
<1>3. PICK d \in T : \A e \in T : ~(e < d)
  BY <1>1, <1>2 DEF OpToRel
<1>4. PICK x \in S : d = b - x
  OBVIOUS
<1>5. ASSUME NEW y \in S PROVE y <= x
  <2>1. b - y \in T /\ ~(b - y < d)
    BY <1>3
  <2> QED BY <2>1, <1>4
<1> QED BY <1>5

-----------------------------------------------------------------------------
(* The development environments console: types *)

Names == Envs \cup {None}
Row == [uid : Nat, phase : Phases]
Listing == [Envs -> Row \cup {None}]

Env ==
  [uid : Nat, running : BOOLEAN, mark : BOOLEAN, phase : Phases, keys : {"none", "missing", "there"}]

PageRequest ==
  [kind : {"list", "token", "ssh", "env", "start", "stop", "del", "create"}, name : Names,
   pc : {"sent", "done", "get", "call", "check", "secret", "unwind"}, cur : BOOLEAN, ok : BOOLEAN,
   ans : Listing \cup {None}, at : Nat, keys : BOOLEAN, mark : BOOLEAN]

PageState ==
  [items : Listing, version : Nat, view : {"loading", "list", "error"}, sel : Names,
   selectAfterLoad : Names, created : Nat, filter : {"all", "Running", "Stopped"}, hidden : BOOLEAN,
   pendingDelete : Names, wizard : BOOLEAN, busy : BOOLEAN, shown : [Credentials -> Names], reqs : SUBSET PageRequest]

PageTypes ==
  /\ envs \in [Envs -> Env \cup {None}]
  /\ version \in Nat /\ mishaps \in Nat /\ page \in PageState

\* What has been asked of an environment has its name.
Addressed == \A r \in page.reqs : r.kind # "list" => r.name \in Envs

\* An environment was created by one of the changes so far, and no two by the same.
Uids ==
  /\ \A n \in Envs : envs[n] # None => envs[n].uid <= version
  /\ \A n, m \in Envs : envs[n] # None /\ envs[m] # None /\ envs[n].uid = envs[m].uid => n = m

\* A list is not newer than the cluster, one that will be shown not older than
\* the one on screen or than a create the page has heard of, and one that nothing
\* has overtaken shows the cluster.
Answer(r) ==
  r.kind = "list" /\ r.pc = "done" =>
    /\ r.at <= version
    /\ r.cur => page.version <= r.at /\ page.created <= r.at
    /\ r.ok => /\ r.ans \in Listing
               /\ \A n \in Envs : r.ans[n] # None => r.ans[n].uid <= r.at
               /\ r.at = version => r.ans = [n \in Envs |-> Project(envs[n])]

\* Only the last load counts.
OneLoad == \A r, s \in page.reqs : r.kind = "list" /\ s.kind = "list" /\ r.cur /\ s.cur => r = s

LoadInv ==
  /\ Uids /\ OneLoad /\ \A r \in page.reqs : Answer(r)
  /\ page.version <= version /\ page.created <= version
  /\ page.sel # None => page.items[page.sel] # None

PageInv == PageTypes /\ Addressed /\ LoadInv

LEMMA RequestType ==
  ASSUME NEW k \in {"list", "token", "ssh", "env", "start", "stop", "del", "create"}, NEW n \in Names,
         NEW pc \in {"sent", "done", "get", "call", "check", "secret", "unwind"}
  PROVE  Request(k, n, pc) \in PageRequest
BY DEF Request, PageRequest

LEMMA LoadType ==
  ASSUME NEW p \in PageState
  PROVE  Load(p) \in PageState
<1>1. Request("list", None, "sent") \in PageRequest
  BY RequestType DEF Names
<1>2. {[r EXCEPT !.cur = @ /\ r.kind # "list"] : r \in p.reqs} \subseteq PageRequest
  <2> SUFFICES ASSUME NEW r \in p.reqs PROVE [r EXCEPT !.cur = @ /\ r.kind # "list"] \in PageRequest
    OBVIOUS
  <2> r \in PageRequest
    BY DEF PageState
  <2> QED BY DEF PageRequest
<1> QED BY <1>1, <1>2 DEF Load, PageState

LEMMA RenderedType ==
  ASSUME NEW p \in PageState, NEW before
  PROVE  Rendered(before, p) \in PageState
<1>1. /\ [c \in Credentials |-> IF Place(c, p) = Place(c, before) THEN p.shown[c] ELSE None] \in [Credentials -> Names]
      /\ {r \in p.reqs : Reading(r) => Place(r.kind, p) = Place(r.kind, before)} \in SUBSET PageRequest
  BY DEF PageState, Names
<1> QED BY <1>1 DEF Rendered, PageState

\* Of the rows of a list the newest is one.
LEMMA NewestIsListed ==
  ASSUME NEW items \in Listing, NEW b \in Nat, \A n \in Envs : items[n] # None => items[n].uid <= b
  PROVE  /\ Newest(items) \in Names
         /\ Newest(items) # None => items[Newest(items)] # None
<1> DEFINE there == {n \in Envs : items[n] # None}
           S == {items[n].uid : n \in there}
<1>1. CASE there = {}
  BY <1>1 DEF Newest, Names
<1>2. CASE there # {}
  <2>1. \A n \in there : items[n].uid \in Nat /\ items[n].uid <= b
    BY DEF Listing, Row
  <2>2. S \subseteq Nat /\ \A x \in S : x <= b
    BY <2>1
  <2>3. PICK m \in there : TRUE
    BY <1>2
  <2>4. items[m].uid \in S
    BY <2>3
  <2>5. PICK x \in S : \A y \in S : y <= x
    <3> HIDE DEF S
    <3> QED BY <2>2, <2>4, Largest
  <2>6. PICK n \in there : x = items[n].uid
    OBVIOUS
  <2>7. \A k \in there : items[k].uid <= items[n].uid
    BY <2>5, <2>6
  <2>8. Newest(items) \in there
    BY <1>2, <2>7 DEF Newest
  <2> QED BY <2>8 DEF Names
<1> QED BY <1>1, <1>2

LEMMA ChooseType ==
  ASSUME NEW p \in PageState, NEW items \in Listing, NEW b \in Nat, \A n \in Envs : items[n] # None => items[n].uid <= b
  PROVE  /\ Choose(p, items) \in Names
         /\ Choose(p, items) # None => items[Choose(p, items)] # None
BY NewestIsListed DEF Choose, PageState

-----------------------------------------------------------------------------
(* Types, action by action *)

LEMMA UserTypes ==
  ASSUME PageInv, User
  PROVE  PageTypes'
<1> USE DEF PageInv, PageTypes, Absolutely
<1>1. CASE Hide
  BY <1>1 DEF Hide, PageState
<1>2. CASE Show
  BY <1>2, LoadType DEF Show, PageState
<1>3. CASE Retry
  BY <1>3, LoadType DEF Retry, PageState
<1>4. CASE SetFilter
  <2>1. PICK f \in {"all", "Running", "Stopped"} : page' = Rendered(page, [page EXCEPT !.filter = f])
    BY <1>4 DEF SetFilter
  <2>2. [page EXCEPT !.filter = f] \in PageState
    BY DEF PageState
  <2> QED BY <2>1, <2>2, <1>4, RenderedType DEF SetFilter
<1>5. CASE SelectRow
  <2>1. PICK n \in Envs : page' = Rendered(page, [page EXCEPT !.sel = IF Selected(page) = n THEN None ELSE n])
    BY <1>5 DEF SelectRow, Visible, Listed
  <2>2. [page EXCEPT !.sel = IF Selected(page) = n THEN None ELSE n] \in PageState
    BY DEF PageState, Names
  <2> QED BY <2>1, <2>2, <1>5, RenderedType DEF SelectRow
<1>6. ASSUME NEW c \in {"token", "ssh", "env"}, Ask(c) PROVE PageTypes'
  <2>1. Request(c, page.sel, "sent") \in PageRequest
    BY RequestType DEF PageState
  <2> QED BY <1>6, <2>1 DEF Ask, PageState
<1>7. CASE RunAction
  <2>0. PICK n \in Visible(page) : \E act \in RowActions(n) :
          page' = IF act = "del"
                  THEN [page EXCEPT !.pendingDelete = n]
                  ELSE [page EXCEPT !.reqs = @ \cup {Request(act, n, IF act = "start" THEN "get" ELSE "call")}]
    BY <1>7 DEF RunAction
  <2>1. PICK act \in RowActions(n) :
          page' = IF act = "del"
                  THEN [page EXCEPT !.pendingDelete = n]
                  ELSE [page EXCEPT !.reqs = @ \cup {Request(act, n, IF act = "start" THEN "get" ELSE "call")}]
    BY <2>0
  <2> n \in Envs
    BY DEF Visible, Listed
  <2>2. act \in {"del", "start", "stop"}
    BY DEF RowActions
  <2>3. Request(act, n, IF act = "start" THEN "get" ELSE "call") \in PageRequest
    BY <2>2, RequestType DEF Names
  <2> QED BY <1>7, <2>1, <2>3 DEF RunAction, PageState, Names
<1>8. CASE CancelDelete
  BY <1>8 DEF CancelDelete, PageState, Names
<1>9. CASE ConfirmDelete
  <2>1. Request("del", page.pendingDelete, "call") \in PageRequest
    BY RequestType DEF PageState
  <2> QED BY <1>9, <2>1 DEF ConfirmDelete, PageState, Names
<1>10. CASE OpenWizard
  BY <1>10 DEF OpenWizard, PageState
<1>11. CASE CloseWizard
  BY <1>11 DEF CloseWizard, PageState
<1>12. CASE SubmitCreate
  <2>1. PICK n \in Envs, keys \in BOOLEAN :
          page' = [page EXCEPT !.busy = TRUE, !.reqs = @ \cup {[Request("create", n, "check") EXCEPT !.keys = keys]}]
    BY <1>12 DEF SubmitCreate
  <2>2. Request("create", n, "check") \in PageRequest
    BY RequestType DEF Names
  <2>3. [Request("create", n, "check") EXCEPT !.keys = keys] \in PageRequest
    BY <2>2 DEF PageRequest
  <2> QED BY <1>12, <2>1, <2>3 DEF SubmitCreate, PageState
<1> QED
  BY <1>1, <1>2, <1>3, <1>4, <1>5, <1>6, <1>7, <1>8, <1>9, <1>10, <1>11, <1>12
  DEF User, TokenRow, SshKeyRow, EnvValues

LEMMA ReplacedType ==
  ASSUME page \in PageState, NEW r, NEW new \in PageRequest
  PROVE  [page EXCEPT !.reqs = (@ \ {r}) \cup {new}] \in PageState
BY DEF PageState

LEMMA AnsweredType ==
  ASSUME page \in PageState, NEW r \in page.reqs, NEW ok \in BOOLEAN
  PROVE  Answered(r, ok) => page' \in PageState
<1>1. [Request(r.kind, r.name, "done") EXCEPT !.ok = ok] \in PageRequest
  BY DEF PageState, PageRequest, Request
<1> QED BY <1>1, ReplacedType DEF Answered

LEMMA GoesType ==
  ASSUME page \in PageState, NEW r \in page.reqs,
         NEW pc \in {"sent", "done", "get", "call", "check", "secret", "unwind"}
  PROVE  Goes(r, pc) => page' \in PageState
<1>1. [r EXCEPT !.pc = pc] \in PageRequest
  BY DEF PageState, PageRequest
<1> QED BY <1>1, ReplacedType DEF Goes

LEMMA ChangeType ==
  ASSUME version \in Nat, envs \in [Envs -> Env \cup {None}], NEW n \in Envs, NEW e \in Env \cup {None}
  PROVE  Change(n, e) => version' \in Nat /\ envs' \in [Envs -> Env \cup {None}]
BY DEF Change

LEMMA ServedTypes ==
  ASSUME PageInv, NEW r \in page.reqs, Served(r)
  PROVE  PageTypes'
<1> USE DEF PageInv, PageTypes, Absolutely
<1> r \in PageRequest
  BY DEF PageState
<1>0. r.kind # "list" => r.name \in Envs
  BY DEF Addressed
<1>1. CASE ListAnswered(r)
  <2>1. PICK failed \in BOOLEAN :
          /\ mishaps' = IF failed THEN mishaps + 1 ELSE mishaps
          /\ page' = [page EXCEPT !.reqs = (@ \ {r}) \cup
                         {[r EXCEPT !.pc = "done", !.at = version, !.ok = ~failed,
                                    !.ans = IF failed THEN None ELSE [n \in Envs |-> Project(envs[n])]]}]
    BY <1>1, Zenon DEF ListAnswered
  <2>2. [n \in Envs |-> Project(envs[n])] \in Listing
    BY DEF Listing, Project, Row, Env
  <2>3. [r EXCEPT !.pc = "done", !.at = version, !.ok = ~failed,
                  !.ans = IF failed THEN None ELSE [n \in Envs |-> Project(envs[n])]] \in PageRequest
    BY <2>2 DEF PageRequest
  <2>4. mishaps' \in Nat
    <3>1. mishaps' = mishaps \/ mishaps' = mishaps + 1
      BY <2>1, Zenon
    <3> QED BY <3>1
  <2> QED BY <1>1, <2>1, <2>3, <2>4, ReplacedType DEF ListAnswered
<1>2. CASE ListArrives(r)
  <2> DEFINE p == [page EXCEPT !.reqs = @ \ {r}]
  <2>1. p \in PageState
    BY DEF PageState
  <2>2. ListLands(p, r) \in PageState
    <3>1. CASE r.ok /\ r.cur
      <4>1. r.ans \in Listing /\ r.at \in Nat /\ \A n \in Envs : r.ans[n] # None => r.ans[n].uid <= r.at
        BY <1>2, <3>1 DEF ListArrives, LoadInv, Answer, PageRequest
      <4>2. Choose(p, r.ans) \in Names
        BY <2>1, <4>1, ChooseType
      <4> HIDE DEF p
      <4> QED BY <2>1, <3>1, <4>1, <4>2 DEF ListLands, Apply, PageState, Names
    <3>2. CASE ~(r.ok /\ r.cur)
      <4> HIDE DEF p
      <4> QED BY <2>1, <3>2 DEF ListLands, Apply, PageState
    <3> QED BY <3>1, <3>2
  <2> QED BY <1>2, <2>2, RenderedType DEF ListArrives
<1>3. CASE CredentialRead(r)
  <2>1. page' \in PageState
    BY <1>3, <1>0 DEF CredentialRead, PageState, Reading, Names
  <2> QED BY <1>3, <2>1 DEF CredentialRead
<1>4. CASE PatchReads(r)
  <2>1. envs[r.name] # None => [r EXCEPT !.pc = "call", !.mark = envs[r.name].mark] \in PageRequest
    BY <1>4, <1>0 DEF PatchReads, PageRequest, Env
  <2>2. CASE envs[r.name] = None
    BY <1>4, <2>2, AnsweredType DEF PatchReads
  <2>3. CASE envs[r.name] # None
    <3>1. page' = [page EXCEPT !.reqs = (@ \ {r}) \cup {[r EXCEPT !.pc = "call", !.mark = envs[r.name].mark]}]
      BY <1>4, <2>3 DEF PatchReads
    <3> QED BY <1>4, <2>1, <2>3, <3>1, ReplacedType DEF PatchReads
  <2> QED BY <2>2, <2>3
<1>5. CASE PatchWrites(r)
  <2>0. r.name \in Envs /\ (envs[r.name] # None => envs[r.name] \in Env)
    BY <1>5, <1>0 DEF PatchWrites
  <2>1. envs[r.name] # None => [envs[r.name] EXCEPT !.running = r.kind = "start", !.mark = @ /\ ~r.mark] \in Env
    BY <2>0 DEF Env, PageRequest
  <2>2. page' \in PageState
    BY <1>5, AnsweredType DEF PatchWrites
  <2>3. version' \in Nat /\ envs' \in [Envs -> Env \cup {None}]
    BY <1>5, <2>0, <2>1, ChangeType DEF PatchWrites
  <2> QED BY <1>5, <2>2, <2>3 DEF PatchWrites
<1>6. CASE DeleteWrites(r)
  <2>2. page' \in PageState
    BY <1>6, AnsweredType DEF DeleteWrites
  <2>3. version' \in Nat /\ envs' \in [Envs -> Env \cup {None}]
    BY <1>6, <1>0, ChangeType DEF DeleteWrites
  <2> QED BY <1>6, <2>2, <2>3 DEF DeleteWrites
<1>7. CASE ActionLands(r)
  <2>1. [page EXCEPT !.reqs = @ \ {r}] \in PageState
    BY DEF PageState
  <2> QED BY <1>7, <2>1, LoadType DEF ActionLands
<1>8. CASE PostChecks(r)
  <2>1. page' \in PageState
    BY <1>8, GoesType, AnsweredType DEF PostChecks
  <2> QED BY <1>8, <2>1 DEF PostChecks
<1>9. CASE PostCreates(r)
  <2>1. NewEnv(IF r.keys THEN "missing" ELSE "none") \in Env
    BY DEF NewEnv, Env, Phases
  <2>2. [r EXCEPT !.pc = "secret", !.at = version + 1] \in PageRequest
    <3> version + 1 \in Nat
      OBVIOUS
    <3> HIDE DEF PageInv, PageTypes
    <3> QED BY DEF PageRequest
  <2>3. page' \in PageState
    <3>1. \/ Answered(r, FALSE) \/ Answered(r, TRUE)
          \/ page' = [page EXCEPT !.reqs = (@ \ {r}) \cup {[r EXCEPT !.pc = "secret", !.at = version + 1]}]
      BY <1>9, Zenon DEF PostCreates
    <3>2. [page EXCEPT !.reqs = (@ \ {r}) \cup {[r EXCEPT !.pc = "secret", !.at = version + 1]}] \in PageState
      BY <2>2, ReplacedType
    <3> QED BY <3>1, <3>2, AnsweredType
  <2>4. version' \in Nat /\ envs' \in [Envs -> Env \cup {None}]
    BY <1>9, <1>0, <2>1, ChangeType DEF PostCreates
  <2> QED BY <1>9, <2>3, <2>4 DEF PostCreates
<1>10. CASE PostWritesKeys(r)
  <2>1. page' \in PageState
    BY <1>10, GoesType, AnsweredType DEF PostWritesKeys, AfterSecretFailed
  <2>2. envs' \in [Envs -> Env \cup {None}]
    <3>1. envs' = envs \/ envs' = [envs EXCEPT ![r.name] = IF @ # None /\ @.uid = r.at THEN [@ EXCEPT !.keys = "there"] ELSE @]
      BY <1>10, Zenon DEF PostWritesKeys
    <3>2. \A e \in Env : [e EXCEPT !.keys = "there"] \in Env
      BY DEF Env
    <3> QED BY <3>1, <3>2
  <2>3. mishaps' \in Nat
    <3>1. mishaps' = mishaps \/ mishaps' = mishaps + 1
      BY <1>10, Zenon DEF PostWritesKeys
    <3> QED BY <3>1
  <2> QED BY <1>10, <2>1, <2>2, <2>3 DEF PostWritesKeys
<1>11. CASE PostUnwinds(r)
  <2>1. page' \in PageState
    BY <1>11, AnsweredType DEF PostUnwinds
  <2>2. version' \in Nat /\ envs' \in [Envs -> Env \cup {None}]
    BY <1>11, <1>0, ChangeType DEF PostUnwinds
  <2> QED BY <1>11, <2>1, <2>2 DEF PostUnwinds
<1>12. CASE CreateLands(r)
  <2> DEFINE p == [page EXCEPT !.reqs = @ \ {r}, !.busy = FALSE]
             q == [Load(p) EXCEPT !.selectAfterLoad = r.name, !.created = version, !.filter = "all", !.wizard = FALSE]
  <2>1. p \in PageState
    BY DEF PageState
  <2>2. Load(p) \in PageState
    BY <2>1, LoadType
  <2>3. q \in PageState
    BY <2>2 DEF PageState, PageRequest
  <2>4. page' = IF ~r.ok THEN p ELSE Rendered(page, q)
    BY <1>12 DEF CreateLands
  <2> HIDE DEF p, q
  <2> QED BY <1>12, <2>1, <2>3, <2>4, RenderedType DEF CreateLands
<1> QED
  BY <1>1, <1>2, <1>3, <1>4, <1>5, <1>6, <1>7, <1>8, <1>9, <1>10, <1>11, <1>12 DEF Served

LEMMA WorldTypes ==
  ASSUME PageInv, Reconcile \/ IdleStop \/ OthersCreate \/ OthersDelete
  PROVE  PageTypes'
<1> USE DEF PageInv, PageTypes
<1>1. ASSUME NEW n \in Envs, NEW e \in Env \cup {None}, Change(n, e), UNCHANGED <<page, mishaps, orphaned>>
      PROVE  PageTypes'
  BY <1>1, ChangeType
<1>2. CASE Reconcile
  <2>1. PICK n \in Envs : envs[n] # None /\ \E ph \in Phases : Change(n, [envs[n] EXCEPT !.phase = ph])
    BY <1>2 DEF Reconcile, Phases
  <2>2. \A ph \in Phases : [envs[n] EXCEPT !.phase = ph] \in Env
    BY <2>1 DEF Env
  <2> QED BY <1>1, <1>2, <2>1, <2>2 DEF Reconcile
<1>3. CASE IdleStop
  <2>1. PICK n \in Envs : envs[n] # None /\ Change(n, [envs[n] EXCEPT !.mark = TRUE])
    BY <1>3 DEF IdleStop
  <2>2. [envs[n] EXCEPT !.mark = TRUE] \in Env
    BY <2>1 DEF Env
  <2> QED BY <1>1, <1>3, <2>1, <2>2 DEF IdleStop
<1>4. CASE OthersCreate
  <2>1. PICK n \in Envs, running \in BOOLEAN :
          Change(n, [NewEnv("none") EXCEPT !.running = running, !.phase = IF running THEN "Running" ELSE "Stopped"])
    BY <1>4, Zenon DEF OthersCreate
  <2>2. NewEnv("none") \in Env
    BY DEF NewEnv, Env, Phases
  <2>3. [NewEnv("none") EXCEPT !.running = running, !.phase = IF running THEN "Running" ELSE "Stopped"] \in Env
    BY <2>2 DEF Env, Phases
  <2> QED BY <1>1, <1>4, <2>1, <2>3 DEF OthersCreate
<1>5. CASE OthersDelete
  BY <1>1, <1>5 DEF OthersDelete
<1> QED BY <1>2, <1>3, <1>4, <1>5

LEMMA PageStepTypes ==
  ASSUME PageInv, PageNext
  PROVE  PageTypes'
<1>1. CASE Poll
  <2>1. page' \in PageState
    BY <1>1, LoadType DEF Poll, PageInv, PageTypes
  <2>2. mishaps' \in Nat
    <3>1. mishaps' = mishaps \/ mishaps' = mishaps + 1
      BY <1>1, Zenon DEF Poll
    <3> QED BY <3>1 DEF PageInv, PageTypes
  <2> QED BY <1>1, <2>1, <2>2 DEF Poll, PageInv, PageTypes
<1> QED BY <1>1, UserTypes, ServedTypes, WorldTypes DEF PageNext, PageSteps

-----------------------------------------------------------------------------
(* What a step does to the cluster, to the list on screen and to the loads *)

\* Nothing happens that a list would tell.
Still ==
  /\ version' = version
  /\ \A n \in Envs : Project(envs'[n]) = Project(envs[n])
  /\ Uids'

\* One environment changes.
Moves == version' = version + 1 /\ Uids'

SameRows(p, q) == q.items = p.items /\ q.version = p.version /\ q.sel = p.sel /\ q.created = p.created

\* The page hears of a create.
Hears(p, q) == q.items = p.items /\ q.version = p.version /\ q.sel = p.sel /\ q.created = version

ListsKept == \A s \in page'.reqs : s.kind = "list" => s \in page.reqs

Stale(s, r) == ~s.cur /\ s.kind = r.kind /\ s.pc = r.pc /\ s.at = r.at /\ s.ok = r.ok /\ s.ans = r.ans

ListsLoaded ==
  \A s \in page'.reqs : s.kind = "list" => s = Request("list", None, "sent") \/ \E r \in page.reqs : Stale(s, r)

LEMMA LoadFields ==
  ASSUME NEW p \in PageState
  PROVE  /\ SameRows(p, Load(p))
         /\ Load(p).view = p.view /\ Load(p).filter = p.filter /\ Load(p).selectAfterLoad = p.selectAfterLoad
         /\ Load(p).shown = p.shown
         /\ Load(p).reqs = {[r EXCEPT !.cur = @ /\ r.kind # "list"] : r \in p.reqs} \cup {Request("list", None, "sent")}
BY DEF Load, PageState, SameRows

LEMMA LoadLists ==
  ASSUME NEW p \in PageState, NEW s \in Load(p).reqs
  PROVE  /\ s.kind = "list" => s = Request("list", None, "sent") \/ \E r \in p.reqs : Stale(s, r)
         /\ s.kind # "list" => s \in p.reqs
<1>1. CASE s = Request("list", None, "sent")
  BY <1>1 DEF Request
<1>2. CASE s # Request("list", None, "sent")
  <2>1. PICK r \in p.reqs : s = [r EXCEPT !.cur = @ /\ r.kind # "list"]
    BY <1>2, LoadFields
  <2>2. r \in PageRequest
    BY DEF PageState
  <2>3. s.kind = r.kind /\ (s.kind = "list" => Stale(s, r))
    BY <2>1, <2>2 DEF PageRequest, Stale
  <2>4. r.kind # "list" => s = r
    BY <2>1, <2>2 DEF PageRequest
  <2> QED BY <2>3, <2>4
<1> QED BY <1>1, <1>2

LEMMA RenderedFields ==
  ASSUME NEW p \in PageState, NEW before
  PROVE  /\ SameRows(p, Rendered(before, p))
         /\ Rendered(before, p).view = p.view /\ Rendered(before, p).filter = p.filter
         /\ Rendered(before, p).selectAfterLoad = p.selectAfterLoad
         /\ Rendered(before, p).reqs \subseteq p.reqs
         /\ \A r \in p.reqs : ~Reading(r) => r \in Rendered(before, p).reqs
BY DEF Rendered, PageState, SameRows

\* The cluster moves or not, while the list on screen and the loads are left alone.
LEMMA KeptInv ==
  ASSUME PageInv, PageTypes', Still \/ Moves, SameRows(page, page'), ListsKept
  PROVE  LoadInv'
<1> USE DEF PageInv, LoadInv
<1>0. version \in Nat /\ version' \in Nat /\ page \in PageState /\ page' \in PageState
  BY DEF PageTypes
<1>1. OneLoad'
  BY DEF OneLoad, ListsKept
<1>2. ASSUME NEW s \in page'.reqs PROVE Answer(s)'
  <2> SUFFICES ASSUME s.kind = "list", s.pc = "done" PROVE Answer(s)'
    BY DEF Answer
  <2>1. s \in page.reqs /\ Answer(s)
    BY DEF ListsKept
  <2>2. s.at \in Nat
    BY <2>1, <1>0 DEF PageState, PageRequest
  <2>3. s.at <= version' /\ (s.at = version' => version' = version)
    BY <1>0, <2>1, <2>2 DEF Answer, Still, Moves
  <2>4. version' = version => [n \in Envs |-> Project(envs[n])'] = [n \in Envs |-> Project(envs[n])]
    <3>1. version' = version => Still
      BY <1>0 DEF Still, Moves
    <3> QED BY <3>1 DEF Still, Project
  <2> QED BY <2>1, <2>3, <2>4 DEF Answer, SameRows
<1>3. page'.version <= version' /\ page'.created <= version'
  BY <1>0 DEF Still, Moves, SameRows, PageState
<1> QED BY <1>1, <1>2, <1>3 DEF Still, Moves, SameRows

\* A load starts, and nothing else happens that a list would tell.
LEMMA LoadedInv ==
  ASSUME PageInv, PageTypes', UNCHANGED <<envs, version>>, SameRows(page, page') \/ Hears(page, page'), ListsLoaded
  PROVE  LoadInv'
<1> USE DEF PageInv, LoadInv
<1>1. OneLoad'
  BY DEF OneLoad, ListsLoaded, Stale
<1>2. ASSUME NEW s \in page'.reqs PROVE Answer(s)'
  <2> SUFFICES ASSUME s.kind = "list", s.pc = "done" PROVE Answer(s)'
    BY DEF Answer
  <2>1. s # Request("list", None, "sent")
    BY DEF Request
  <2>2. PICK r \in page.reqs : Stale(s, r)
    BY <2>1 DEF ListsLoaded
  <2> QED BY <2>2 DEF Answer, Stale
<1>3. version \in Nat
  BY DEF PageTypes
<1> QED BY <1>1, <1>2, <1>3 DEF SameRows, Hears, Uids

\* Every write makes one change: a new environment, another state of one, or its end.
LEMMA ChangeMoves ==
  ASSUME PageInv, NEW n \in Envs, NEW e \in Env \cup {None}, Change(n, e),
         e # None => e.uid = version + 1 \/ (envs[n] # None /\ e.uid = envs[n].uid)
  PROVE  Moves
<1> USE DEF PageInv, PageTypes
<1>1. version' = version + 1 /\ envs' = [envs EXCEPT ![n] = e]
  BY DEF Change
<1>2. \A m \in Envs : envs'[m] = IF m = n THEN e ELSE envs[m]
  BY <1>1
<1>3. \A m \in Envs : envs[m] # None => envs[m].uid \in Nat /\ envs[m].uid <= version
  BY DEF LoadInv, Uids, Env
<1>4. \A m \in Envs : envs'[m] # None => envs'[m].uid <= version'
  BY <1>1, <1>2, <1>3
<1>5. \A m, k \in Envs : envs'[m] # None /\ envs'[k] # None /\ envs'[m].uid = envs'[k].uid => m = k
  <2> SUFFICES ASSUME NEW m \in Envs, NEW k \in Envs, envs'[m] # None, envs'[k] # None, envs'[m].uid = envs'[k].uid, m # k
               PROVE  FALSE
    OBVIOUS
  <2>1. CASE m # n /\ k # n
    BY <1>2, <2>1 DEF LoadInv, Uids
  <2>2. CASE m = n /\ k # n
    BY <1>2, <1>3, <2>2 DEF LoadInv, Uids
  <2>3. CASE m # n /\ k = n
    BY <1>2, <1>3, <2>3 DEF LoadInv, Uids
  <2> QED BY <2>1, <2>2, <2>3
<1> QED BY <1>1, <1>4, <1>5 DEF Moves, Uids

LEMMA StillHere ==
  ASSUME PageInv, UNCHANGED <<envs, version>>
  PROVE  Still
BY DEF Still, PageInv, LoadInv, Uids

\* An answer replaces a request by one of the same kind.
LEMMA AnsweredFields ==
  ASSUME PageInv, NEW r \in page.reqs, NEW ok \in BOOLEAN, Answered(r, ok)
  PROVE  /\ SameRows(page, page') /\ page'.view = page.view /\ page'.filter = page.filter
         /\ page'.selectAfterLoad = page.selectAfterLoad /\ page'.shown = page.shown
         /\ page'.reqs = (page.reqs \ {r}) \cup {[Request(r.kind, r.name, "done") EXCEPT !.ok = ok]}
BY DEF PageInv, PageTypes, PageState, Answered, SameRows

LEMMA AnsweredKeeps ==
  ASSUME PageInv, NEW r \in page.reqs, r.kind # "list", NEW ok \in BOOLEAN, Answered(r, ok)
  PROVE  ListsKept /\ Addressed'
<1> DEFINE new == [Request(r.kind, r.name, "done") EXCEPT !.ok = ok]
<1>1. new.kind = r.kind /\ new.name = r.name
  BY DEF Request
<1>2. page'.reqs = (page.reqs \ {r}) \cup {new}
  BY AnsweredFields
<1> HIDE DEF new
<1> QED BY <1>1, <1>2 DEF ListsKept, Addressed, PageInv

LEMMA ReplacedFields ==
  ASSUME PageInv, NEW r \in page.reqs, NEW new, page' = [page EXCEPT !.reqs = (@ \ {r}) \cup {new}]
  PROVE  /\ SameRows(page, page') /\ page'.view = page.view /\ page'.filter = page.filter
         /\ page'.selectAfterLoad = page.selectAfterLoad /\ page'.shown = page.shown
         /\ page'.reqs = (page.reqs \ {r}) \cup {new}
BY DEF PageInv, PageTypes, PageState, SameRows

LEMMA ReplacedKeeps ==
  ASSUME PageInv, NEW r \in page.reqs, r.kind # "list", NEW new, new.kind = r.kind, new.name = r.name,
         page' = [page EXCEPT !.reqs = (@ \ {r}) \cup {new}]
  PROVE  SameRows(page, page') /\ ListsKept /\ Addressed'
<1>1. page'.reqs = (page.reqs \ {r}) \cup {new} /\ SameRows(page, page')
  BY ReplacedFields
<1> QED BY <1>1 DEF ListsKept, Addressed, PageInv

\* Requests are added to those there are.
LEMMA AddedKeeps ==
  ASSUME PageInv, NEW new, new.kind # "list", new.name \in Envs,
         page'.reqs = page.reqs \cup {new}
  PROVE  ListsKept /\ Addressed'
BY DEF ListsKept, Addressed, PageInv

LEMMA SameReqsKeep ==
  ASSUME PageInv, page'.reqs \subseteq page.reqs
  PROVE  ListsKept /\ Addressed'
BY DEF ListsKept, Addressed, PageInv

LEMMA LoadKeeps ==
  ASSUME PageInv, NEW p \in PageState, p.reqs \subseteq page.reqs, page'.reqs \subseteq Load(p).reqs
  PROVE  ListsLoaded /\ Addressed'
<1>1. ASSUME NEW s \in page'.reqs
      PROVE  /\ s.kind = "list" => s = Request("list", None, "sent") \/ \E r \in p.reqs : Stale(s, r)
             /\ s.kind # "list" => s \in p.reqs
  BY LoadLists
<1> QED BY <1>1 DEF ListsLoaded, Addressed, PageInv

-----------------------------------------------------------------------------
(* The list, action by action *)

LEMMA UserLoads ==
  ASSUME PageInv, User, PageTypes'
  PROVE  LoadInv' /\ Addressed'
<1> USE DEF Absolutely
<1>a. page \in PageState /\ page' \in PageState
  BY DEF PageInv, PageTypes
<1>b. UNCHANGED <<envs, version>>
  BY DEF User, Hide, Show, Retry, SetFilter, SelectRow, TokenRow, SshKeyRow, EnvValues, Ask,
         RunAction, CancelDelete, ConfirmDelete, OpenWizard, CloseWizard, SubmitCreate
<1>c. Still
  BY <1>b, StillHere
<1>1. ASSUME page'.reqs = page.reqs, SameRows(page, page') PROVE LoadInv' /\ Addressed'
  BY <1>1, <1>c, SameReqsKeep, KeptInv
<1>2. ASSUME NEW new, new.kind # "list", new.name \in Envs, page'.reqs = page.reqs \cup {new}, SameRows(page, page')
      PROVE  LoadInv' /\ Addressed'
  BY <1>2, <1>c, AddedKeeps, KeptInv
<1>3. CASE Hide \/ CancelDelete \/ OpenWizard \/ CloseWizard
  BY <1>a, <1>1, <1>3 DEF Hide, CancelDelete, OpenWizard, CloseWizard, PageState, SameRows
<1>4. CASE Show \/ Retry
  <2>1. Load(page) \in PageState
    BY <1>a, LoadType
  <2>2. SameRows(Load(page), page') /\ page'.reqs = Load(page).reqs
    BY <1>4, <2>1 DEF Show, Retry, PageState, SameRows
  <2>3. SameRows(page, page')
    BY <1>a, <2>2, LoadFields DEF SameRows
  <2> QED BY <1>a, <1>b, <2>2, <2>3, LoadKeeps, LoadedInv
<1>5. CASE SetFilter
  <2>1. PICK f \in {"all", "Running", "Stopped"} : page' = Rendered(page, [page EXCEPT !.filter = f])
    BY <1>5 DEF SetFilter
  <2>2. [page EXCEPT !.filter = f] \in PageState
    BY <1>a DEF PageState
  <2>3. SameRows(page, [page EXCEPT !.filter = f]) /\ [page EXCEPT !.filter = f].reqs = page.reqs
    BY <1>a DEF PageState, SameRows
  <2>4. SameRows(page, page') /\ page'.reqs \subseteq page.reqs
    BY <2>1, <2>2, <2>3, RenderedFields DEF SameRows
  <2> QED BY <1>c, <2>4, SameReqsKeep, KeptInv
<1>6. CASE SelectRow
  <2>1. PICK n \in Visible(page) : page' = Rendered(page, [page EXCEPT !.sel = IF Selected(page) = n THEN None ELSE n])
    BY <1>6 DEF SelectRow
  <2> DEFINE q == [page EXCEPT !.sel = IF Selected(page) = n THEN None ELSE n]
  <2>2. n \in Envs /\ page.items[n] # None
    BY DEF Visible, Listed
  <2>3. q \in PageState
    BY <1>a, <2>2 DEF PageState, Names
  <2>4. q.items = page.items /\ q.version = page.version /\ q.created = page.created /\ q.sel \in {None, n} /\ q.reqs = page.reqs
    BY <1>a DEF PageState
  <2> HIDE DEF q
  <2>5. page' = Rendered(page, q)
    BY <2>1 DEF q
  <2>6. /\ page'.items = page.items /\ page'.version = page.version /\ page'.created = page.created
        /\ page'.sel \in {None, n} /\ page'.reqs \subseteq page.reqs
    BY <2>3, <2>4, <2>5, RenderedFields DEF SameRows
  <2>7. ListsKept /\ Addressed'
    BY <2>6, SameReqsKeep
  <2> USE DEF PageInv, LoadInv
  <2>8. OneLoad'
    BY <2>7 DEF OneLoad, ListsKept
  <2>9. ASSUME NEW s \in page'.reqs PROVE Answer(s)'
    BY <2>6, <1>b DEF Answer
  <2> QED BY <1>b, <1>c, <2>2, <2>6, <2>7, <2>8, <2>9 DEF Still
<1>7. ASSUME NEW c \in {"token", "ssh", "env"}, Ask(c) PROVE LoadInv' /\ Addressed'
  <2> DEFINE new == Request(c, page.sel, "sent")
  <2>1. page.sel \in Envs
    BY <1>7, PageAssumption DEF Ask, Place, Card, Selected, Visible, Listed
  <2>2. new.kind # "list" /\ new.name \in Envs
    BY <2>1 DEF Request
  <2>3. page'.reqs = page.reqs \cup {new} /\ SameRows(page, page')
    BY <1>7, <1>a DEF Ask, PageState, SameRows
  <2> HIDE DEF new
  <2> QED BY <1>2, <2>2, <2>3
<1>8. CASE RunAction
  <2>0. PICK n \in Visible(page) : \E act \in RowActions(n) :
          page' = IF act = "del"
                  THEN [page EXCEPT !.pendingDelete = n]
                  ELSE [page EXCEPT !.reqs = @ \cup {Request(act, n, IF act = "start" THEN "get" ELSE "call")}]
    BY <1>8 DEF RunAction
  <2>1. PICK act \in RowActions(n) :
          page' = IF act = "del"
                  THEN [page EXCEPT !.pendingDelete = n]
                  ELSE [page EXCEPT !.reqs = @ \cup {Request(act, n, IF act = "start" THEN "get" ELSE "call")}]
    BY <2>0
  <2> DEFINE new == Request(act, n, IF act = "start" THEN "get" ELSE "call")
  <2>2. n \in Envs /\ act # "list"
    BY DEF RowActions, Visible, Listed
  <2>3. new.kind # "list" /\ new.name \in Envs
    BY <2>2 DEF Request
  <2>4. SameRows(page, page') /\ (page'.reqs = page.reqs \/ page'.reqs = page.reqs \cup {new})
    BY <1>a, <2>1 DEF PageState, SameRows
  <2> HIDE DEF new
  <2> QED BY <1>1, <1>2, <2>3, <2>4
<1>9. CASE ConfirmDelete
  <2> DEFINE new == Request("del", page.pendingDelete, "call")
  <2>1. new.kind # "list" /\ new.name \in Envs
    BY <1>9, <1>a DEF ConfirmDelete, PageState, Names, Request
  <2>2. page'.reqs = page.reqs \cup {new} /\ SameRows(page, page')
    BY <1>9, <1>a DEF ConfirmDelete, PageState, SameRows
  <2> HIDE DEF new
  <2> QED BY <1>2, <2>1, <2>2
<1>10. CASE SubmitCreate
  <2>1. PICK n \in Envs, keys \in BOOLEAN :
          page' = [page EXCEPT !.busy = TRUE, !.reqs = @ \cup {[Request("create", n, "check") EXCEPT !.keys = keys]}]
    BY <1>10 DEF SubmitCreate
  <2> DEFINE new == [Request("create", n, "check") EXCEPT !.keys = keys]
  <2>2. new.kind # "list" /\ new.name \in Envs
    BY DEF Request
  <2>3. page'.reqs = page.reqs \cup {new} /\ SameRows(page, page')
    BY <1>a, <2>1 DEF PageState, SameRows
  <2> HIDE DEF new
  <2> QED BY <1>2, <2>2, <2>3
<1> QED
  BY <1>3, <1>4, <1>5, <1>6, <1>7, <1>8, <1>9, <1>10 DEF User, TokenRow, SshKeyRow, EnvValues

LEMMA ListAnsweredLoads ==
  ASSUME PageInv, NEW r \in page.reqs, ListAnswered(r), PageTypes'
  PROVE  LoadInv' /\ Addressed'
<1>a. page \in PageState /\ r \in PageRequest /\ r.kind = "list" /\ r.pc = "sent" /\ UNCHANGED <<envs, version>> /\ version \in Nat
  BY DEF PageInv, PageTypes, PageState, ListAnswered
<1> DEFINE now == [n \in Envs |-> Project(envs[n])]
<1>1. PICK failed \in BOOLEAN :
        page' = [page EXCEPT !.reqs = (@ \ {r}) \cup
                    {[r EXCEPT !.pc = "done", !.at = version, !.ok = ~failed, !.ans = IF failed THEN None ELSE now]}]
  BY Zenon DEF ListAnswered
<1> DEFINE new == [r EXCEPT !.pc = "done", !.at = version, !.ok = ~failed, !.ans = IF failed THEN None ELSE now]
<1>2. new.kind = "list" /\ new.cur = r.cur /\ new.at = version /\ new.ok = ~failed /\ (new.ok => new.ans = now)
  BY <1>a DEF PageRequest
<1>3. now \in Listing /\ \A n \in Envs : now[n] # None => now[n].uid <= version
  BY DEF PageInv, PageTypes, LoadInv, Uids, Listing, Project, Row, Env
<1> HIDE DEF now, new
<1>4. page'.reqs = (page.reqs \ {r}) \cup {new} /\ SameRows(page, page')
  BY <1>1, ReplacedFields DEF new
<1> USE DEF PageInv, LoadInv
<1>5. OneLoad'
  BY <1>a, <1>2, <1>4 DEF OneLoad
<1>6. ASSUME NEW s \in page'.reqs PROVE Answer(s)'
  <2>1. CASE s = new
    BY <1>a, <1>2, <1>3, <1>4, <2>1 DEF Answer, SameRows, now
  <2>2. CASE s # new
    <3>1. s \in page.reqs
      BY <1>4, <2>2
    <3> QED BY <1>a, <1>4, <3>1 DEF Answer, SameRows
  <2> QED BY <2>1, <2>2
<1>7. Addressed'
  BY <1>2, <1>4 DEF Addressed
<1> QED BY <1>a, <1>4, <1>5, <1>6, <1>7 DEF SameRows, Uids

\* Only the last load's answer is shown; it opens a row of its own list.
LEMMA ListShown ==
  ASSUME PageInv, NEW r \in page.reqs, ListArrives(r)
  PROVE  /\ page'.reqs \subseteq page.reqs \ {r}
         /\ SameRows(page, page') \/ (/\ r.cur /\ r.ok /\ page'.items = r.ans /\ page'.version = r.at
                                      /\ page'.sel = Choose(page, r.ans) /\ page'.created = 0)
         /\ (page'.selectAfterLoad = page.selectAfterLoad \/ (r.cur /\ r.ok /\ page'.items = r.ans
                 /\ page'.version = r.at /\ page'.sel = Choose(page, r.ans)))
<1> DEFINE p == [page EXCEPT !.reqs = @ \ {r}]
<1>a. page \in PageState /\ r \in PageRequest /\ r.kind = "list" /\ r.pc = "done"
  BY DEF PageInv, PageTypes, PageState, ListArrives
<1>1. p \in PageState /\ p.reqs = page.reqs \ {r} /\ SameRows(page, p) /\ p.selectAfterLoad = page.selectAfterLoad
  BY <1>a DEF PageState, SameRows
<1>2. page' = Rendered(page, ListLands(p, r))
  BY DEF ListArrives
<1>3. Choose(p, r.ans) = Choose(page, r.ans)
  BY <1>1 DEF Choose, SameRows
<1> HIDE DEF p
<1>4. CASE r.cur /\ r.ok
  <2> DEFINE q == [p EXCEPT !.items = r.ans, !.version = r.at, !.view = "list",
                            !.sel = Choose(p, r.ans), !.selectAfterLoad = None, !.created = 0]
  <2>1. r.ans \in Listing /\ r.at \in Nat /\ \A n \in Envs : r.ans[n] # None => r.ans[n].uid <= r.at
    BY <1>a, <1>4 DEF PageInv, LoadInv, Answer, PageRequest
  <2>2. Choose(p, r.ans) \in Names
    BY <1>1, <2>1, ChooseType
  <2>3. q \in PageState
    BY <1>1, <2>1, <2>2 DEF PageState, Names
  <2>4. q.items = r.ans /\ q.version = r.at /\ q.sel = Choose(p, r.ans) /\ q.reqs = p.reqs /\ q.created = 0
    BY <1>1 DEF PageState
  <2>5. ListLands(p, r) = q
    BY <1>4 DEF ListLands, Apply
  <2> HIDE DEF q
  <2> QED BY <1>1, <1>2, <1>3, <1>4, <2>3, <2>4, <2>5, RenderedFields DEF SameRows
<1>5. CASE ~(r.cur /\ r.ok)
  <2>1. ListLands(p, r) \in PageState /\ SameRows(p, ListLands(p, r)) /\ ListLands(p, r).reqs = p.reqs
        /\ ListLands(p, r).selectAfterLoad = p.selectAfterLoad
    BY <1>1, <1>5 DEF ListLands, Apply, PageState, SameRows
  <2> QED BY <1>1, <1>2, <2>1, RenderedFields DEF SameRows
<1> QED BY <1>4, <1>5

LEMMA ListArrivesLoads ==
  ASSUME PageInv, NEW r \in page.reqs, ListArrives(r), PageTypes'
  PROVE  LoadInv' /\ Addressed'
<1>a. page \in PageState /\ page' \in PageState /\ r \in PageRequest /\ r.kind = "list" /\ r.pc = "done"
      /\ UNCHANGED <<envs, version>> /\ version \in Nat
  BY DEF PageInv, PageTypes, PageState, ListArrives, Absolutely
<1>b. Still
  BY <1>a, StillHere
<1>1. page'.reqs \subseteq page.reqs \ {r}
  BY ListShown
<1>2. ListsKept /\ Addressed'
  BY <1>1, SameReqsKeep
<1>3. CASE SameRows(page, page')
  BY <1>b, <1>2, <1>3, KeptInv
<1>4. CASE r.cur /\ r.ok /\ page'.items = r.ans /\ page'.version = r.at /\ page'.sel = Choose(page, r.ans) /\ page'.created = 0
  <2> USE DEF PageInv, LoadInv
  <2>1. r.ans \in Listing /\ r.at \in Nat /\ r.at <= version /\ \A n \in Envs : r.ans[n] # None => r.ans[n].uid <= r.at
    BY <1>a, <1>4 DEF Answer, PageRequest
  <2>2. page'.sel # None => page'.items[page'.sel] # None
    BY <1>a, <1>4, <2>1, ChooseType
  <2>3. OneLoad'
    BY <1>2 DEF OneLoad, ListsKept
  <2>4. ASSUME NEW s \in page'.reqs PROVE Answer(s)'
    <3>1. s \in page.reqs /\ s # r
      BY <1>1
    <3>2. s.kind = "list" => ~s.cur
      BY <1>a, <1>4, <3>1 DEF OneLoad
    <3> QED BY <1>a, <3>1, <3>2 DEF Answer
  <2> QED BY <1>a, <1>b, <1>2, <1>4, <2>1, <2>2, <2>3, <2>4 DEF Still
<1> QED BY <1>3, <1>4, ListShown

LEMMA ServedLoads ==
  ASSUME PageInv, NEW r \in page.reqs, Served(r), PageTypes'
  PROVE  LoadInv' /\ Addressed'
<1> USE DEF Absolutely
<1>a. page \in PageState /\ page' \in PageState /\ r \in PageRequest /\ envs \in [Envs -> Env \cup {None}] /\ version \in Nat
  BY DEF PageInv, PageTypes, PageState
<1>b. r.kind # "list" => r.name \in Envs
  BY DEF PageInv, Addressed
<1>c. ASSUME r.kind # "list", NEW ok \in BOOLEAN, Answered(r, ok), Still \/ Moves PROVE LoadInv' /\ Addressed'
  BY <1>c, AnsweredFields, AnsweredKeeps, KeptInv
<1>d. ASSUME r.kind # "list", NEW new, new.kind = r.kind, new.name = r.name, Still \/ Moves,
             page' = [page EXCEPT !.reqs = (@ \ {r}) \cup {new}]
      PROVE  LoadInv' /\ Addressed'
  BY <1>d, ReplacedKeeps, KeptInv
<1>e. ASSUME NEW pc PROVE [r EXCEPT !.pc = pc].kind = r.kind /\ [r EXCEPT !.pc = pc].name = r.name
  BY <1>a DEF PageRequest
<1>f. ASSUME UNCHANGED <<envs, version>> PROVE Still
  BY <1>f, StillHere
<1>3. CASE CredentialRead(r)
  <2>1. SameRows(page, page') /\ page'.reqs \subseteq page.reqs
    BY <1>3, <1>a DEF CredentialRead, PageState, SameRows
  <2> QED BY <1>3, <1>f, <2>1, SameReqsKeep, KeptInv DEF CredentialRead
<1>4. CASE PatchReads(r)
  <2>1. r.kind # "list" /\ Still
    BY <1>4, <1>f DEF PatchReads
  <2>2. CASE envs[r.name] = None
    BY <1>4, <1>c, <2>1, <2>2 DEF PatchReads
  <2>3. CASE envs[r.name] # None
    <3> DEFINE new == [r EXCEPT !.pc = "call", !.mark = envs[r.name].mark]
    <3>1. page' = [page EXCEPT !.reqs = (@ \ {r}) \cup {new}]
      BY <1>4, <2>3 DEF PatchReads
    <3>2. new.kind = r.kind /\ new.name = r.name
      BY <1>a DEF PageRequest
    <3> HIDE DEF new
    <3> QED BY <1>d, <2>1, <3>1, <3>2
  <2> QED BY <2>2, <2>3
<1>5. CASE PatchWrites(r)
  <2> DEFINE e == [envs[r.name] EXCEPT !.running = r.kind = "start", !.mark = @ /\ ~r.mark]
  <2>0. r.name \in Envs /\ r.kind # "list"
    BY <1>5, <1>b DEF PatchWrites
  <2>1. envs[r.name] # None => e \in Env /\ e.uid = envs[r.name].uid
    <3>1. envs[r.name] # None => envs[r.name] \in Env
      BY <1>a, <2>0
    <3> QED BY <1>a, <3>1 DEF Env, PageRequest
  <2>2. \/ Answered(r, FALSE) /\ UNCHANGED <<envs, version>>
        \/ envs[r.name] # None /\ Answered(r, TRUE) /\ Change(r.name, e)
    BY <1>5 DEF PatchWrites
  <2> HIDE DEF e
  <2> QED BY <1>c, <1>f, <2>0, <2>1, <2>2, ChangeMoves
<1>6. CASE DeleteWrites(r)
  <2>1. \/ Answered(r, FALSE) /\ UNCHANGED <<envs, version>>
        \/ Answered(r, TRUE) /\ Change(r.name, None)
    BY <1>6 DEF DeleteWrites
  <2> QED BY <1>6, <1>b, <1>c, <1>f, <2>1, ChangeMoves DEF DeleteWrites
<1>7. CASE ActionLands(r)
  <2> DEFINE p == [page EXCEPT !.reqs = @ \ {r}]
  <2>1. p \in PageState /\ SameRows(page, p) /\ p.reqs \subseteq page.reqs
    BY <1>a DEF PageState, SameRows
  <2>2. page' = (IF r.ok THEN Load(p) ELSE p) /\ UNCHANGED <<envs, version>>
    BY <1>7 DEF ActionLands
  <2> HIDE DEF p
  <2>3. CASE r.ok
    <3>1. SameRows(page, page')
      BY <2>1, <2>2, <2>3, LoadFields DEF SameRows
    <3> QED BY <2>1, <2>2, <2>3, <3>1, LoadKeeps, LoadedInv
  <2>4. CASE ~r.ok
    BY <1>f, <2>1, <2>2, <2>4, SameReqsKeep, KeptInv
  <2> QED BY <2>3, <2>4
<1>8. CASE PostChecks(r)
  BY <1>8, <1>c, <1>d, <1>e, <1>f DEF PostChecks, Goes
<1>9. CASE PostCreates(r)
  <2> DEFINE e == NewEnv(IF r.keys THEN "missing" ELSE "none")
             new == [r EXCEPT !.pc = "secret", !.at = version + 1]
  <2>1. e \in Env /\ e.uid = version + 1
    BY <1>a DEF NewEnv, Env, Phases
  <2>2. new.kind = r.kind /\ new.name = r.name
    BY <1>a DEF PageRequest
  <2>3. \/ Answered(r, FALSE) /\ UNCHANGED <<envs, version>>
        \/ Change(r.name, e) /\ Answered(r, TRUE)
        \/ Change(r.name, e) /\ page' = [page EXCEPT !.reqs = (@ \ {r}) \cup {new}]
    BY <1>9, Zenon DEF PostCreates
  <2>4. r.kind # "list" /\ r.name \in Envs
    BY <1>9, <1>b DEF PostCreates
  <2> HIDE DEF e, new
  <2>5. Change(r.name, e) => Moves
    BY <2>1, <2>4, ChangeMoves
  <2> QED BY <1>c, <1>d, <1>f, <2>2, <2>3, <2>4, <2>5
<1>10. CASE PostWritesKeys(r)
  <2>1. r.kind # "list" /\ r.name \in Envs
    BY <1>10, <1>b DEF PostWritesKeys
  <2>2. Still
    <3>1. version' = version /\ (\/ envs' = envs
             \/ envs' = [envs EXCEPT ![r.name] = IF @ # None /\ @.uid = r.at THEN [@ EXCEPT !.keys = "there"] ELSE @])
      BY <1>10, Zenon DEF PostWritesKeys
    <3>2. \A x \in Env : [x EXCEPT !.keys = "there"].uid = x.uid /\ [x EXCEPT !.keys = "there"].phase = x.phase
      BY DEF Env
    <3>3. \A x \in Env : [x EXCEPT !.keys = "there"] \in Env
      BY DEF Env
    <3>4. ASSUME NEW n \in Envs
          PROVE  /\ envs[n] = None <=> envs'[n] = None
                 /\ envs[n] # None => envs'[n].uid = envs[n].uid /\ envs'[n].phase = envs[n].phase
      <4>1. None \notin Env
        BY PageAssumption DEF Env
      <4>2. envs'[n] = envs[n] \/ (envs[n] # None /\ envs'[n] = [envs[n] EXCEPT !.keys = "there"])
        BY <1>a, <3>1
      <4>3. envs[n] # None => envs[n] \in Env
        BY <1>a
      <4> QED BY <3>2, <3>3, <4>1, <4>2, <4>3
    <3>5. \A n \in Envs : Project(envs'[n]) = Project(envs[n])
      BY <3>4 DEF Project
    <3> QED BY <3>1, <3>4, <3>5 DEF Still, Uids, PageInv, LoadInv
  <2>3. Answered(r, TRUE) \/ Goes(r, "unwind")
    BY <1>10 DEF PostWritesKeys, AfterSecretFailed
  <2> QED BY <1>c, <1>d, <1>e, <2>1, <2>2, <2>3 DEF Goes
<1>11. CASE PostUnwinds(r)
  <2>1. Answered(r, FALSE) /\ (UNCHANGED <<envs, version>> \/ Change(r.name, None))
    BY <1>11 DEF PostUnwinds
  <2> QED BY <1>11, <1>b, <1>c, <1>f, <2>1, ChangeMoves DEF PostUnwinds
<1>12. CASE CreateLands(r)
  <2> DEFINE p == [page EXCEPT !.reqs = @ \ {r}, !.busy = FALSE]
             q == [Load(p) EXCEPT !.selectAfterLoad = r.name, !.created = version, !.filter = "all", !.wizard = FALSE]
  <2>1. p \in PageState /\ SameRows(page, p) /\ p.reqs \subseteq page.reqs
    BY <1>a DEF PageState, SameRows
  <2>2. Load(p) \in PageState
    BY <2>1, LoadType
  <2>3. q \in PageState /\ Hears(Load(p), q) /\ q.reqs = Load(p).reqs
    BY <1>a, <2>2 DEF PageState, PageRequest, Hears
  <2>4. page' = (IF ~r.ok THEN p ELSE Rendered(page, q)) /\ UNCHANGED <<envs, version>>
    BY <1>12 DEF CreateLands
  <2> HIDE DEF p, q
  <2>5. CASE r.ok
    <3>1. SameRows(q, page') /\ page'.reqs \subseteq Load(p).reqs
      BY <2>3, <2>4, <2>5, RenderedFields
    <3>2. Hears(page, page')
      BY <2>1, <2>3, <3>1, LoadFields DEF SameRows, Hears
    <3> QED BY <2>1, <2>4, <3>1, <3>2, LoadKeeps, LoadedInv
  <2>6. CASE ~r.ok
    BY <1>f, <2>1, <2>4, <2>6, SameReqsKeep, KeptInv
  <2> QED BY <2>5, <2>6
<1> QED
  BY <1>3, <1>4, <1>5, <1>6, <1>7, <1>8, <1>9, <1>10, <1>11, <1>12, ListAnsweredLoads, ListArrivesLoads DEF Served

LEMMA WorldLoads ==
  ASSUME PageInv, Reconcile \/ IdleStop \/ OthersCreate \/ OthersDelete, PageTypes'
  PROVE  Moves /\ LoadInv' /\ Addressed'
<1> USE DEF PageInv, PageTypes
<1>1. ASSUME NEW n \in Envs, NEW e \in Env \cup {None}, Change(n, e),
             e # None => e.uid = version + 1 \/ (envs[n] # None /\ e.uid = envs[n].uid)
      PROVE  Moves
  BY <1>1, ChangeMoves
<1>2. page' = page
  BY DEF Reconcile, IdleStop, OthersCreate, OthersDelete
<1>3. Moves
  <2>1. CASE Reconcile
    <3>1. PICK n \in Envs : envs[n] # None /\ \E ph \in Phases : Change(n, [envs[n] EXCEPT !.phase = ph])
      BY <2>1 DEF Reconcile, Phases
    <3>2. \A ph \in Phases : [envs[n] EXCEPT !.phase = ph] \in Env /\ [envs[n] EXCEPT !.phase = ph].uid = envs[n].uid
      BY <3>1 DEF Env
    <3> QED BY <1>1, <3>1, <3>2
  <2>2. CASE IdleStop
    <3>1. PICK n \in Envs : envs[n] # None /\ Change(n, [envs[n] EXCEPT !.mark = TRUE])
      BY <2>2 DEF IdleStop
    <3>2. [envs[n] EXCEPT !.mark = TRUE] \in Env /\ [envs[n] EXCEPT !.mark = TRUE].uid = envs[n].uid
      BY <3>1 DEF Env
    <3> QED BY <1>1, <3>1, <3>2
  <2>3. CASE OthersCreate
    <3>1. PICK n \in Envs, running \in BOOLEAN :
            Change(n, [NewEnv("none") EXCEPT !.running = running, !.phase = IF running THEN "Running" ELSE "Stopped"])
      BY <2>3, Zenon DEF OthersCreate
    <3> DEFINE e == [NewEnv("none") EXCEPT !.running = running, !.phase = IF running THEN "Running" ELSE "Stopped"]
    <3>2. NewEnv("none") \in Env /\ NewEnv("none").uid = version + 1
      BY DEF NewEnv, Env, Phases
    <3>3. e \in Env /\ e.uid = version + 1
      BY <3>2 DEF Env, Phases
    <3> HIDE DEF e
    <3>4. Change(n, e)
      BY <3>1 DEF e
    <3> QED BY <1>1, <3>3, <3>4
  <2>4. CASE OthersDelete
    BY <1>1, <2>4 DEF OthersDelete
  <2> QED BY <2>1, <2>2, <2>3, <2>4
<1>4. SameRows(page, page') /\ ListsKept /\ Addressed'
  BY <1>2, SameReqsKeep DEF SameRows
<1> QED BY <1>3, <1>4, KeptInv

-----------------------------------------------------------------------------
(* The inductive invariant of the list, and what follows from it *)

\* The initial page, and that of a tab nobody touches.
LEMMA InitPage ==
  ASSUME Init
  PROVE  PageInv
<1> DEFINE Hidden == [Opening EXCEPT !.hidden = TRUE]
<1>1. Opening \in PageState /\ Hidden \in PageState
  BY DEF Opening, PageState, Listing, Names
<1>2. Load(Opening) \in PageState
  BY <1>1, LoadType
<1>3. /\ Opening.reqs = {} /\ Opening.version = 0 /\ Opening.created = 0 /\ Opening.sel = None
      /\ Hidden.reqs = {} /\ Hidden.version = 0 /\ Hidden.created = 0 /\ Hidden.sel = None
  BY DEF Opening
<1>4. /\ Load(Opening).reqs = {Request("list", None, "sent")}
      /\ Load(Opening).version = 0 /\ Load(Opening).created = 0 /\ Load(Opening).sel = None
  BY <1>1, <1>3, LoadFields DEF SameRows
<1>5. /\ envs = [n \in Envs |-> None] /\ version = 0 /\ mishaps = 0 /\ page \in PageState
      /\ page.reqs \subseteq {Request("list", None, "sent")} /\ page.version = 0 /\ page.created = 0 /\ page.sel = None
  <2> HIDE DEF Hidden
  <2>1. page = Load(Opening) \/ page = Hidden
    BY DEF Init, PageInit, PageAtRest, Hidden
  <2> QED BY <1>1, <1>2, <1>3, <1>4, <2>1 DEF Init, PageInit, PageAtRest
<1>6. PageTypes
  BY <1>5 DEF PageTypes
<1>7. \A r \in page.reqs : r = Request("list", None, "sent") /\ r.kind = "list" /\ r.pc = "sent"
  BY <1>5 DEF Request
<1>8. Addressed /\ OneLoad /\ \A r \in page.reqs : Answer(r)
  BY <1>7 DEF Addressed, OneLoad, Answer
<1> QED BY <1>5, <1>6, <1>8 DEF PageInv, LoadInv, Uids

LEMMA StepPage ==
  ASSUME PageInv, [Next]_<<pageVars, svcVars, taskVars>>
  PROVE  PageInv'
<1>1. CASE PageNext
  <2>1. PageTypes'
    BY <1>1, PageStepTypes
  <2>2. CASE Poll
    <3>1. page \in PageState /\ page' = Load(page) /\ UNCHANGED <<envs, version>>
      BY <2>2 DEF Poll, PageInv, PageTypes
    <3>2. SameRows(page, page') /\ ListsLoaded /\ Addressed'
      BY <3>1, LoadFields, LoadKeeps
    <3> QED BY <2>1, <3>1, <3>2, LoadedInv DEF PageInv
  <2> QED BY <1>1, <2>1, <2>2, UserLoads, ServedLoads, WorldLoads DEF PageNext, PageSteps, PageInv
<1>2. CASE UNCHANGED pageVars
  BY <1>2 DEF pageVars, PageInv, PageTypes, Addressed, LoadInv, Uids, OneLoad, Answer
<1> QED BY <1>1, <1>2 DEF Next

\* Only the answer of a load changes what the list is of, or takes up the wish to open a row.
LEMMA OnlyListsArrive ==
  ASSUME PageInv, PageNext, ~\E r \in page.reqs : ListArrives(r)
  PROVE  /\ page'.version = page.version
         /\ page.selectAfterLoad # None => page'.selectAfterLoad # None
<1> DEFINE Same(q) == q.version = page.version /\ q.selectAfterLoad = page.selectAfterLoad
<1>a. page \in PageState
  BY DEF PageInv, PageTypes
<1>b. Load(page) \in PageState /\ Same(Load(page))
  BY <1>a, LoadType, LoadFields DEF SameRows
<1>c. ASSUME NEW q \in PageState, Same(q) PROVE Same(Rendered(page, q))
  BY <1>c, RenderedFields DEF SameRows
<1>1. CASE User
  <2>1. CASE SetFilter
    <3>1. PICK f \in {"all", "Running", "Stopped"} : page' = Rendered(page, [page EXCEPT !.filter = f])
      BY <2>1 DEF SetFilter
    <3>2. [page EXCEPT !.filter = f] \in PageState /\ Same([page EXCEPT !.filter = f])
      BY <1>a DEF PageState
    <3> QED BY <1>c, <3>1, <3>2
  <2>2. CASE SelectRow
    <3>1. PICK n \in Envs : page' = Rendered(page, [page EXCEPT !.sel = IF Selected(page) = n THEN None ELSE n])
      BY <2>2 DEF SelectRow, Visible, Listed
    <3> DEFINE q == [page EXCEPT !.sel = IF Selected(page) = n THEN None ELSE n]
    <3>2. q \in PageState /\ Same(q)
      BY <1>a DEF PageState, Names
    <3> HIDE DEF q
    <3> QED BY <1>c, <3>1, <3>2 DEF q
  <2>3. CASE Show \/ Retry
    BY <1>b, <2>3 DEF Show, Retry, PageState
  <2>4. CASE RunAction
    <3>1. PICK n, new : page' \in {[page EXCEPT !.pendingDelete = n], [page EXCEPT !.reqs = @ \cup {new}]}
      BY <2>4 DEF RunAction
    <3> QED BY <1>a, <3>1 DEF PageState
  <2>5. CASE Hide \/ CancelDelete \/ ConfirmDelete \/ OpenWizard \/ CloseWizard \/ TokenRow \/ SshKeyRow \/ EnvValues
    BY <1>a, <2>5 DEF Hide, CancelDelete, ConfirmDelete, OpenWizard, CloseWizard, TokenRow, SshKeyRow, EnvValues,
                      Ask, PageState
  <2>6. CASE SubmitCreate
    <3>1. PICK new : page' = [page EXCEPT !.busy = TRUE, !.reqs = @ \cup {new}]
      BY <2>6 DEF SubmitCreate
    <3> QED BY <1>a, <3>1 DEF PageState
  <2> QED BY <1>1, <2>1, <2>2, <2>3, <2>4, <2>5, <2>6 DEF User
<1>2. ASSUME NEW r \in page.reqs, Served(r), ~ListArrives(r)
      PROVE  page'.version = page.version /\ (page.selectAfterLoad # None => page'.selectAfterLoad # None)
  <2>a. ASSUME NEW new, page' = [page EXCEPT !.reqs = (@ \ {r}) \cup {new}] PROVE Same(page')
    BY <1>a, <2>a DEF PageState
  <2>1. CASE ListAnswered(r)
    BY <2>a, <2>1 DEF ListAnswered
  <2>2. CASE CredentialRead(r)
    BY <1>a, <2>2 DEF CredentialRead, PageState
  <2>3. CASE PatchReads(r) \/ PatchWrites(r) \/ DeleteWrites(r) \/ PostChecks(r) \/ PostCreates(r) \/ PostWritesKeys(r) \/ PostUnwinds(r)
    <3>1. \E new : page' = [page EXCEPT !.reqs = (@ \ {r}) \cup {new}]
      BY <2>3 DEF PatchReads, PatchWrites, DeleteWrites, PostChecks, PostCreates, PostWritesKeys, PostUnwinds,
                  AfterSecretFailed, Goes, Answered
    <3> QED BY <2>a, <3>1
  <2>4. CASE ActionLands(r)
    <3> DEFINE p == [page EXCEPT !.reqs = @ \ {r}]
    <3>1. p \in PageState /\ Same(p)
      BY <1>a DEF PageState
    <3>2. page' = IF r.ok THEN Load(p) ELSE p
      BY <2>4 DEF ActionLands
    <3> HIDE DEF p
    <3> QED BY <3>1, <3>2, LoadFields DEF SameRows
  <2>5. CASE CreateLands(r)
    <3> DEFINE p == [page EXCEPT !.reqs = @ \ {r}, !.busy = FALSE]
               q == [Load(p) EXCEPT !.selectAfterLoad = r.name, !.created = version, !.filter = "all", !.wizard = FALSE]
    <3>0. r.name \in Envs /\ r.name # None
      BY <2>5, PageAssumption DEF CreateLands, PageInv, Addressed
    <3>1. p \in PageState /\ Same(p)
      BY <1>a DEF PageState
    <3>2. Load(p) \in PageState /\ Same(Load(p))
      BY <3>1, LoadType, LoadFields DEF SameRows
    <3>3. q \in PageState /\ q.version = page.version /\ q.selectAfterLoad # None
      BY <3>0, <3>2 DEF PageState, Names, PageInv, PageTypes
    <3>4. page' = IF ~r.ok THEN p ELSE Rendered(page, q)
      BY <2>5 DEF CreateLands
    <3> HIDE DEF p, q
    <3>5. Rendered(page, q).version = q.version /\ Rendered(page, q).selectAfterLoad = q.selectAfterLoad
      BY <3>3, RenderedFields DEF SameRows
    <3> QED BY <3>1, <3>3, <3>4, <3>5
  <2> QED BY <1>2, <2>1, <2>2, <2>3, <2>4, <2>5 DEF Served
<1>3. CASE Poll
  BY <1>b, <1>3 DEF Poll
<1>4. CASE Reconcile \/ IdleStop \/ OthersCreate \/ OthersDelete
  BY <1>4 DEF Reconcile, IdleStop, OthersCreate, OthersDelete
<1> QED BY <1>1, <1>2, <1>3, <1>4 DEF PageNext, PageSteps

\* A row of the list is something.
LEMMA ProjectIsNone ==
  ASSUME PageTypes, NEW n \in Envs
  PROVE  Project(envs[n]) = None <=> envs[n] = None
<1>1. envs[n] # None => Project(envs[n]) \in [uid : Nat, phase : Phases]
  BY DEF PageTypes, Project, Env
<1> QED BY <1>1, PageAssumption DEF Project

(* The list on screen never goes back in time and its open row is one of it,
   whatever polls, actions and creates overtake each other: the generation
   counter of load() lets only the last load land. *)
THEOREM ListOnlyAdvances == Spec => ListNeverGoesBack
<1>1. Init => PageInv
  BY InitPage
<1>2. PageInv /\ [Next]_<<pageVars, svcVars, taskVars>> => PageInv'
  BY StepPage
<1>3. ASSUME PageInv, PageInv', [Next]_<<pageVars, svcVars, taskVars>>
      PROVE  [page'.version >= page.version /\ PageTypeOK']_pageVars
  <2> SUFFICES ASSUME PageNext PROVE page'.version >= page.version /\ PageTypeOK'
    BY <1>3 DEF Next
  <2>1. page.version \in Nat
    BY <1>3 DEF PageInv, PageTypes, PageState
  <2>2. page'.version >= page.version
    <3>1. CASE \E r \in page.reqs : ListArrives(r)
      <4>1. PICK r \in page.reqs : ListArrives(r)
        BY <3>1
      <4>2. r.cur => page.version <= r.at
        BY <4>1, <1>3 DEF ListArrives, PageInv, LoadInv, Answer
      <4>3. r.at \in Nat
        BY <1>3 DEF PageInv, PageTypes, PageState, PageRequest
      <4>4. page'.version = page.version \/ (r.cur /\ page'.version = r.at)
        BY <1>3, <4>1, ListShown DEF SameRows
      <4> QED BY <2>1, <4>2, <4>3, <4>4
    <3>2. CASE ~\E r \in page.reqs : ListArrives(r)
      BY <1>3, <2>1, <3>2, OnlyListsArrive
    <3> QED BY <3>1, <3>2
  <2>3. PageTypeOK'
    BY <1>3 DEF PageTypeOK, PageInv, PageTypes, LoadInv, PageState, PageRequest, Names
  <2> QED BY <2>2, <2>3
<1> QED BY <1>1, <1>2, <1>3, PTL DEF Spec, ListNeverGoesBack

(* The list that takes up the wish to open the row just created opens it, or
   somebody has deleted the environment since: selectAfterLoad is read before it
   is cleared, and the load that onCreated starts overtakes every list that may
   be older than the create. *)
THEOREM TheCreatedOpens == Spec => CreatedIsOpened
<1> DEFINE Opens == page.selectAfterLoad # None /\ page'.selectAfterLoad = None
                      => \/ page'.sel = page.selectAfterLoad
                         \/ page'.version >= page.created /\ page'.items[page.selectAfterLoad] = None
<1>1. Init => PageInv
  BY InitPage
<1>2. PageInv /\ [Next]_<<pageVars, svcVars, taskVars>> => PageInv'
  BY StepPage
<1>3. ASSUME PageInv, [Next]_<<pageVars, svcVars, taskVars>>
      PROVE  [Opens]_pageVars
  <2> SUFFICES ASSUME PageNext, page.selectAfterLoad # None, page'.selectAfterLoad = None
               PROVE  \/ page'.sel = page.selectAfterLoad
                      \/ page'.version >= page.created /\ page'.items[page.selectAfterLoad] = None
    BY <1>3 DEF Next
  <2>1. PICK r \in page.reqs : ListArrives(r)
    BY <1>3, OnlyListsArrive
  <2>2. r.cur /\ r.ok /\ page'.items = r.ans /\ page'.version = r.at /\ page'.sel = Choose(page, r.ans)
    BY <1>3, <2>1, ListShown
  <2>3. r.at \in Nat /\ page.created \in Nat /\ page.created <= r.at
    BY <1>3, <2>1, <2>2 DEF ListArrives, PageInv, PageTypes, PageState, PageRequest, LoadInv, Answer
  <2>4. CASE r.ans[page.selectAfterLoad] # None
    BY <2>2, <2>4 DEF Choose
  <2>5. CASE r.ans[page.selectAfterLoad] = None
    BY <2>2, <2>3, <2>5
  <2> QED BY <2>4, <2>5
<1> QED BY <1>1, <1>2, <1>3, PTL DEF Spec, CreatedIsOpened

-----------------------------------------------------------------------------
(* The credentials of the open row *)

\* What a place waits for was asked for its own environment.
ReadsAreTheCards == \A r \in page.reqs : Reading(r) => r.name = Place(r.kind, page)

CardInv == ReadsAreTheCards /\ CredentialIsTheRows

LEMMA CardKept ==
  ASSUME CardInv, \A c : Place(c, page') = Place(c, page), page'.shown = page.shown,
         \A r \in page'.reqs : Reading(r) => r \in page.reqs
  PROVE  CardInv'
BY DEF CardInv, ReadsAreTheCards, CredentialIsTheRows

LEMMA SameCard ==
  ASSUME NEW p, NEW q, SameRows(p, q), q.view = p.view, q.filter = p.filter
  PROVE  \A c : Place(c, q) = Place(c, p)
<1>1. Selected(q) = Selected(p)
  BY DEF Selected, Visible, Listed, SameRows
<1>2. Card(q) = Card(p)
  BY <1>1 DEF Card, SameRows
<1> QED BY <1>1, <1>2 DEF Place

LEMMA RenderedCard ==
  ASSUME CardInv, NEW q \in PageState, q.shown = page.shown,
         \A r \in q.reqs : Reading(r) => r \in page.reqs, page' = Rendered(page, q)
  PROVE  CardInv'
<1>1. /\ SameRows(q, page') /\ page'.view = q.view /\ page'.filter = q.filter
      /\ page'.shown = [c \in Credentials |-> IF Place(c, q) = Place(c, page) THEN q.shown[c] ELSE None]
      /\ page'.reqs = {r \in q.reqs : Reading(r) => Place(r.kind, q) = Place(r.kind, page)}
  BY DEF Rendered, PageState, SameRows
<1>2. \A c : Place(c, page') = Place(c, q)
  BY <1>1, SameCard
<1>3. ReadsAreTheCards'
  BY <1>1, <1>2 DEF CardInv, ReadsAreTheCards
<1>4. CredentialIsTheRows'
  BY <1>1, <1>2 DEF CardInv, CredentialIsTheRows
<1> QED BY <1>3, <1>4 DEF CardInv

LEMMA LoadCard ==
  ASSUME NEW p \in PageState
  PROVE  /\ \A c : Place(c, Load(p)) = Place(c, p)
         /\ Load(p).shown = p.shown
         /\ \A r \in Load(p).reqs : Reading(r) => r \in p.reqs
<1>1. \A r \in Load(p).reqs : Reading(r) => r \in p.reqs
  BY LoadLists DEF Reading
<1> QED BY <1>1, SameCard, LoadFields

LEMMA StepCard ==
  ASSUME PageInv, CardInv, [Next]_<<pageVars, svcVars, taskVars>>
  PROVE  CardInv'
<1>a. page \in PageState
  BY DEF PageInv, PageTypes
<1>b. ASSUME NEW q, SameRows(page, q), q.view = page.view, q.filter = page.filter, q.shown = page.shown,
             \A r \in q.reqs : Reading(r) => r \in page.reqs, page' = q
      PROVE  CardInv'
  BY <1>b, SameCard, CardKept
<1>c. ASSUME NEW new, ~Reading(new), page' = [page EXCEPT !.reqs = @ \cup {new}] PROVE CardInv'
  BY <1>a, <1>b, <1>c DEF PageState, SameRows
<1>l. Load(page) \in PageState
  BY <1>a, LoadType
<1>1. CASE User
  <2>1. CASE Hide \/ CancelDelete \/ OpenWizard \/ CloseWizard
    BY <1>a, <1>b, <2>1 DEF Hide, CancelDelete, OpenWizard, CloseWizard, PageState, SameRows
  <2>2. CASE Show
    <3>1. SameRows(Load(page), page') /\ page'.view = Load(page).view /\ page'.filter = Load(page).filter
          /\ page'.shown = Load(page).shown /\ page'.reqs = Load(page).reqs
      BY <1>l, <2>2 DEF Show, PageState, SameRows
    <3>2. \A c : Place(c, page') = Place(c, page)
      BY <1>a, <3>1, SameCard, LoadCard
    <3> QED BY <1>a, <3>1, <3>2, LoadCard, CardKept
  <2>3. CASE Retry
    <3>1. page'.view = "loading" /\ page.view = "error" /\ page'.shown = Load(page).shown /\ page'.reqs = Load(page).reqs
      BY <1>l, <2>3 DEF Retry, PageState
    <3>2. \A c : Place(c, page') = None /\ Place(c, page) = None
      BY <3>1 DEF Place, Card, Selected, Visible
    <3> QED BY <1>a, <3>1, <3>2, LoadCard, CardKept
  <2>4. CASE SetFilter
    <3>1. PICK f \in {"all", "Running", "Stopped"} : page' = Rendered(page, [page EXCEPT !.filter = f])
      BY <2>4 DEF SetFilter
    <3> DEFINE q == [page EXCEPT !.filter = f]
    <3>2. q \in PageState /\ q.shown = page.shown /\ q.reqs = page.reqs
      BY <1>a DEF PageState
    <3> HIDE DEF q
    <3> QED BY <3>1, <3>2, RenderedCard DEF q
  <2>5. CASE SelectRow
    <3>1. PICK n \in Envs : page' = Rendered(page, [page EXCEPT !.sel = IF Selected(page) = n THEN None ELSE n])
      BY <2>5 DEF SelectRow, Visible, Listed
    <3> DEFINE q == [page EXCEPT !.sel = IF Selected(page) = n THEN None ELSE n]
    <3>2. q \in PageState /\ q.shown = page.shown /\ q.reqs = page.reqs
      BY <1>a DEF PageState, Names
    <3> HIDE DEF q
    <3> QED BY <3>1, <3>2, RenderedCard DEF q
  <2>6. ASSUME NEW c, Ask(c) PROVE CardInv'
    <3> DEFINE new == Request(c, page.sel, "sent")
    <3>1. Place(c, page) = page.sel /\ new.kind = c /\ new.name = page.sel
      BY <2>6 DEF Ask, Place, Card, Selected, Request
    <3>2. page'.reqs = page.reqs \cup {new} /\ page'.shown = page.shown /\ \A d : Place(d, page') = Place(d, page)
      <4>1. page' = [page EXCEPT !.reqs = @ \cup {new}]
        BY <2>6 DEF Ask
      <4>2. SameRows(page, page') /\ page'.view = page.view /\ page'.filter = page.filter
            /\ page'.shown = page.shown /\ page'.reqs = page.reqs \cup {new}
        BY <1>a, <4>1 DEF PageState, SameRows
      <4> QED BY <4>2, SameCard
    <3> HIDE DEF new
    <3> QED BY <3>1, <3>2 DEF CardInv, ReadsAreTheCards, CredentialIsTheRows
  <2>7. CASE RunAction
    <3>1. \/ \E n : page' = [page EXCEPT !.pendingDelete = n]
          \/ \E n : \E act \in {"start", "stop"}, pc \in {"get", "call"} :
                page' = [page EXCEPT !.reqs = @ \cup {Request(act, n, pc)}]
      BY <2>7 DEF RunAction, RowActions
    <3>2. \A n : \A act \in {"start", "stop"}, pc \in {"get", "call"} : ~Reading(Request(act, n, pc))
      BY DEF Reading, Request
    <3>3. CASE \E n : page' = [page EXCEPT !.pendingDelete = n]
      BY <1>a, <1>b, <3>3 DEF PageState, SameRows
    <3> QED BY <1>c, <3>1, <3>2, <3>3
  <2>8. CASE ConfirmDelete
    <3> DEFINE new == Request("del", page.pendingDelete, "call")
    <3>1. ~Reading(new)
      BY DEF Reading, Request
    <3> HIDE DEF new
    <3>2. page' = [page EXCEPT !.pendingDelete = None, !.reqs = @ \cup {new}]
      BY <2>8 DEF ConfirmDelete, new
    <3>3. SameRows(page, page') /\ page'.view = page.view /\ page'.filter = page.filter /\ page'.shown = page.shown
          /\ page'.reqs = page.reqs \cup {new}
      BY <1>a, <3>2 DEF PageState, SameRows
    <3> QED BY <1>b, <3>1, <3>3
  <2>9. CASE SubmitCreate
    <3>1. PICK n \in Envs, keys \in BOOLEAN :
            page' = [page EXCEPT !.busy = TRUE, !.reqs = @ \cup {[Request("create", n, "check") EXCEPT !.keys = keys]}]
      BY <2>9 DEF SubmitCreate
    <3> DEFINE new == [Request("create", n, "check") EXCEPT !.keys = keys]
    <3>2. ~Reading(new)
      BY DEF Reading, Request
    <3> HIDE DEF new
    <3>3. page' = [page EXCEPT !.busy = TRUE, !.reqs = @ \cup {new}]
      BY <3>1 DEF new
    <3>4. SameRows(page, page') /\ page'.view = page.view /\ page'.filter = page.filter /\ page'.shown = page.shown
          /\ page'.reqs = page.reqs \cup {new}
      BY <1>a, <3>3 DEF PageState, SameRows
    <3> QED BY <1>b, <3>2, <3>4
  <2> QED BY <1>1, <2>1, <2>2, <2>3, <2>4, <2>5, <2>6, <2>7, <2>8, <2>9 DEF User, TokenRow, SshKeyRow, EnvValues
<1>2. ASSUME NEW r \in page.reqs, Served(r) PROVE CardInv'
  <2>0. r \in PageRequest
    BY <1>a DEF PageState
  <2>a. ASSUME NEW new, ~Reading(new), page' = [page EXCEPT !.reqs = (@ \ {r}) \cup {new}] PROVE CardInv'
    <3>1. SameRows(page, page') /\ page'.view = page.view /\ page'.filter = page.filter /\ page'.shown = page.shown
          /\ page'.reqs = (page.reqs \ {r}) \cup {new}
      BY <2>a, ReplacedFields
    <3> QED BY <1>b, <2>a, <3>1
  <2>b. ASSUME NEW ok \in BOOLEAN, ~Reading(r), Answered(r, ok) PROVE CardInv'
    <3>1. ~Reading([Request(r.kind, r.name, "done") EXCEPT !.ok = ok])
      BY <2>b DEF Reading, Request
    <3> QED BY <2>a, <2>b, <3>1 DEF Answered
  <2>c. ASSUME NEW pc, ~Reading(r), Goes(r, pc) PROVE CardInv'
    <3>1. ~Reading([r EXCEPT !.pc = pc])
      BY <2>c, <2>0 DEF Reading, PageRequest
    <3> QED BY <2>a, <2>c, <3>1 DEF Goes
  <2>1. CASE ListAnswered(r)
    <3>1. PICK failed, ans :
            page' = [page EXCEPT !.reqs = (@ \ {r}) \cup
                        {[r EXCEPT !.pc = "done", !.at = version, !.ok = ~failed, !.ans = ans]}]
      BY <2>1, Zenon DEF ListAnswered
    <3> DEFINE new == [r EXCEPT !.pc = "done", !.at = version, !.ok = ~failed, !.ans = ans]
    <3>2. ~Reading(new)
      BY <2>0, <2>1 DEF ListAnswered, Reading, PageRequest
    <3> HIDE DEF new
    <3> QED BY <2>a, <3>1, <3>2 DEF new
  <2>2. CASE ListArrives(r)
    <3> DEFINE p == [page EXCEPT !.reqs = @ \ {r}]
    <3>1. p \in PageState /\ p.reqs \subseteq page.reqs /\ p.shown = page.shown
      BY <1>a DEF PageState
    <3> HIDE DEF p
    <3>2. ListLands(p, r) \in PageState
      <4>1. CASE r.ok /\ r.cur
        <5>1. r.ans \in Listing /\ r.at \in Nat /\ \A n \in Envs : r.ans[n] # None => r.ans[n].uid <= r.at
          BY <2>0, <2>2, <4>1 DEF ListArrives, PageInv, LoadInv, Answer, PageRequest
        <5>2. Choose(p, r.ans) \in Names
          BY <3>1, <5>1, ChooseType
        <5> QED BY <3>1, <4>1, <5>1, <5>2 DEF ListLands, Apply, PageState, Names
      <4>2. CASE ~(r.ok /\ r.cur)
        BY <3>1, <4>2 DEF ListLands, Apply, PageState
      <4> QED BY <4>1, <4>2
    <3>3. ListLands(p, r).shown = page.shown /\ ListLands(p, r).reqs \subseteq page.reqs
      BY <3>1 DEF ListLands, Apply, PageState
    <3> QED BY <2>2, <3>2, <3>3, RenderedCard DEF ListArrives, p
  <2>3. CASE CredentialRead(r)
    <3>1. SameRows(page, page') /\ page'.view = page.view /\ page'.filter = page.filter /\ page'.reqs = page.reqs \ {r}
      BY <1>a, <2>3 DEF CredentialRead, PageState, SameRows
    <3>2. \A c : Place(c, page') = Place(c, page)
      BY <3>1, SameCard
    <3>3. \A c \in Credentials : page'.shown[c] \in {page.shown[c], None} \/ (c = r.kind /\ page'.shown[c] = r.name)
      BY <1>a, <2>3 DEF CredentialRead, PageState
    <3>4. r.name = Place(r.kind, page)
      BY <2>3 DEF CredentialRead, CardInv, ReadsAreTheCards
    <3> QED BY <3>1, <3>2, <3>3, <3>4 DEF CardInv, ReadsAreTheCards, CredentialIsTheRows
  <2>4. CASE PatchReads(r)
    <3>1. ~Reading(r)
      BY <2>4 DEF PatchReads, Reading
    <3>2. ~Reading([r EXCEPT !.pc = "call", !.mark = envs[r.name].mark])
      BY <2>0, <3>1 DEF Reading, PageRequest
    <3> QED BY <2>4, <2>a, <2>b, <3>1, <3>2 DEF PatchReads
  <2>5. CASE PatchWrites(r) \/ DeleteWrites(r) \/ PostChecks(r) \/ PostWritesKeys(r) \/ PostUnwinds(r)
    <3>1. ~Reading(r)
      BY <2>5 DEF PatchWrites, DeleteWrites, PostChecks, PostWritesKeys, PostUnwinds, Reading
    <3>2. Answered(r, TRUE) \/ Answered(r, FALSE) \/ \E pc : Goes(r, pc)
      BY <2>5 DEF PatchWrites, DeleteWrites, PostChecks, PostWritesKeys, PostUnwinds, AfterSecretFailed
    <3> QED BY <2>b, <2>c, <3>1, <3>2
  <2>6. CASE PostCreates(r)
    <3>1. ~Reading(r)
      BY <2>6 DEF PostCreates, Reading
    <3>2. ~Reading([r EXCEPT !.pc = "secret", !.at = version + 1])
      BY <2>0, <3>1 DEF Reading, PageRequest
    <3>3. \/ Answered(r, FALSE) \/ Answered(r, TRUE)
          \/ page' = [page EXCEPT !.reqs = (@ \ {r}) \cup {[r EXCEPT !.pc = "secret", !.at = version + 1]}]
      BY <2>6, Zenon DEF PostCreates
    <3> QED BY <2>a, <2>b, <3>1, <3>2, <3>3
  <2>7. CASE ActionLands(r)
    <3> DEFINE p == [page EXCEPT !.reqs = @ \ {r}]
    <3>1. p \in PageState /\ SameRows(page, p) /\ p.view = page.view /\ p.filter = page.filter
          /\ p.shown = page.shown /\ p.reqs \subseteq page.reqs
      BY <1>a DEF PageState, SameRows
    <3>2. page' = IF r.ok THEN Load(p) ELSE p
      BY <2>7 DEF ActionLands
    <3> HIDE DEF p
    <3>3. \A c : Place(c, p) = Place(c, page)
      BY <3>1, SameCard
    <3> QED BY <3>1, <3>2, <3>3, LoadCard, CardKept
  <2>8. CASE CreateLands(r)
    <3> DEFINE p == [page EXCEPT !.reqs = @ \ {r}, !.busy = FALSE]
               q == [Load(p) EXCEPT !.selectAfterLoad = r.name, !.created = version, !.filter = "all", !.wizard = FALSE]
    <3>1. p \in PageState /\ SameRows(page, p) /\ p.view = page.view /\ p.filter = page.filter
          /\ p.shown = page.shown /\ p.reqs \subseteq page.reqs
      BY <1>a DEF PageState, SameRows
    <3>2. Load(p) \in PageState
      BY <3>1, LoadType
    <3>3. q \in PageState /\ q.shown = Load(p).shown /\ q.reqs = Load(p).reqs
      BY <2>0, <3>2 DEF PageState, PageRequest, PageInv, PageTypes
    <3>4. page' = IF ~r.ok THEN p ELSE Rendered(page, q)
      BY <2>8 DEF CreateLands
    <3> HIDE DEF p, q
    <3>5. CASE r.ok
      <4>1. q.shown = page.shown /\ \A s \in q.reqs : Reading(s) => s \in page.reqs
        BY <3>1, <3>3, LoadCard
      <4> QED BY <3>3, <3>4, <3>5, <4>1, RenderedCard
    <3>6. CASE ~r.ok
      BY <1>b, <3>1, <3>4, <3>6
    <3> QED BY <3>5, <3>6
  <2> QED BY <1>2, <2>1, <2>2, <2>3, <2>4, <2>5, <2>6, <2>7, <2>8 DEF Served
<1>3. CASE Poll
  <2>1. page' = Load(page)
    BY <1>3 DEF Poll
  <2> QED BY <1>a, <2>1, LoadCard, CardKept
<1>4. CASE page' = page
  BY <1>4, CardKept
<1>5. Reconcile \/ IdleStop \/ OthersCreate \/ OthersDelete \/ UNCHANGED pageVars => page' = page
  BY DEF Reconcile, IdleStop, OthersCreate, OthersDelete, pageVars
<1> QED BY <1>1, <1>2, <1>3, <1>4, <1>5 DEF Next, PageNext, PageSteps

(* A credential on screen was read for the environment whose card is open: the
   cards are keyed by the environment, so what one has read, or waits for, goes
   with it. *)
THEOREM CredentialsAreTheRows == Spec => []CredentialIsTheRows
<1>1. Init => PageInv
  BY InitPage
<1>2. Init => CardInv
  <2> SUFFICES ASSUME Init PROVE CardInv
    OBVIOUS
  <2> DEFINE Hidden == [Opening EXCEPT !.hidden = TRUE]
  <2>1. Opening \in PageState /\ Hidden \in PageState
    BY DEF Opening, PageState, Listing, Names
  <2>2. Opening.reqs = {} /\ Hidden.reqs = {} /\ Opening.shown = [c \in Credentials |-> None]
        /\ Hidden.shown = [c \in Credentials |-> None]
    BY DEF Opening
  <2>3. page = Load(Opening) \/ page = Hidden
    BY DEF Init, PageInit, PageAtRest
  <2> HIDE DEF Hidden
  <2>4. page.shown = [c \in Credentials |-> None] /\ \A r \in page.reqs : ~Reading(r)
    BY <2>1, <2>2, <2>3, LoadCard
  <2> QED BY <2>4 DEF CardInv, ReadsAreTheCards, CredentialIsTheRows
<1>3. PageInv /\ [Next]_<<pageVars, svcVars, taskVars>> => PageInv'
  BY StepPage
<1>4. PageInv /\ CardInv /\ [Next]_<<pageVars, svcVars, taskVars>> => CardInv'
  BY StepCard
<1>5. CardInv => CredentialIsTheRows
  BY DEF CardInv
<1> QED BY <1>1, <1>2, <1>3, <1>4, <1>5, PTL DEF Spec

-----------------------------------------------------------------------------
(* The Secret of the user's keys *)

\* A create that has made its environment, and has the Secret still to write or the object to take back.
Writes(r) == r.kind = "create" /\ r.pc \in {"secret", "unwind"}

\* It remembers the environment it made, which has its name if it is still there.
Writing(r) ==
  Writes(r) => r.at <= version /\ \A n \in Envs : envs[n] # None /\ envs[n].uid = r.at => n = r.name

KeysInv == (\A r \in page.reqs : Writing(r)) /\ KeysAreOnTheirWay

CreatesStay == \A r \in PageRequest : Writes(r) => (r \in page.reqs <=> r \in page'.reqs)

\* An environment as a step leaves it does not begin to wait for keys.
Asks(n) ==
  envs'[n] # None =>
    \/ envs[n] # None /\ envs'[n].uid = envs[n].uid /\ envs'[n].keys = envs[n].keys
    \/ envs'[n].uid = version + 1 /\ version' = version + 1 /\ envs'[n].keys # "missing"

LEMMA KeysKept ==
  ASSUME PageInv, PageInv', KeysInv, CreatesStay, orphaned \subseteq orphaned', version' \in {version, version + 1},
         \A n \in Envs : Asks(n)
  PROVE  KeysInv'
<1>a. version \in Nat /\ page \in PageState /\ page' \in PageState
  BY DEF PageInv, PageTypes
<1>1. ASSUME NEW s \in page'.reqs, Writes(s) PROVE Writing(s)'
  <2>1. s \in PageRequest /\ s \in page.reqs /\ s.at \in Nat
    BY <1>a, <1>1 DEF CreatesStay, PageState, PageRequest
  <2>2. Writing(s)
    BY <2>1 DEF KeysInv
  <2>3. s.at <= version /\ s.at <= version' /\ s.at # version + 1
    BY <1>a, <1>1, <2>1, <2>2 DEF Writing
  <2>4. \A n \in Envs : envs'[n] # None /\ envs'[n].uid = s.at => envs[n] # None /\ envs[n].uid = s.at
    BY <2>3 DEF Asks
  <2> QED BY <1>1, <2>2, <2>3, <2>4 DEF Writing
<1>2. \A s \in page'.reqs : Writing(s)'
  BY <1>1 DEF Writing, Writes
<1>3. ASSUME NEW n \in Envs, envs'[n] # None, envs'[n].keys = "missing"
      PROVE  \/ \E r \in page'.reqs : r.kind = "create" /\ r.pc \in {"secret", "unwind"} /\ r.at = envs'[n].uid
             \/ envs'[n].uid \in orphaned'
  <2>1. envs[n] # None /\ envs'[n].uid = envs[n].uid /\ envs[n].keys = "missing"
    BY <1>3 DEF Asks
  <2>2. CASE envs[n].uid \in orphaned
    BY <2>1, <2>2
  <2>3. CASE \E r \in page.reqs : r.kind = "create" /\ r.pc \in {"secret", "unwind"} /\ r.at = envs[n].uid
    <3>1. PICK r \in page.reqs : r.kind = "create" /\ r.pc \in {"secret", "unwind"} /\ r.at = envs[n].uid
      BY <2>3
    <3>2. r \in PageRequest /\ Writes(r)
      BY <1>a, <3>1 DEF PageState, Writes
    <3>3. r \in page'.reqs
      BY <3>2 DEF CreatesStay
    <3> QED BY <2>1, <3>1, <3>3
  <2> QED BY <2>1, <2>2, <2>3 DEF KeysInv, KeysAreOnTheirWay
<1> QED BY <1>2, <1>3 DEF KeysInv, KeysAreOnTheirWay

LEMMA LoadCreates ==
  ASSUME NEW p \in PageState, NEW r \in PageRequest, Writes(r)
  PROVE  r \in p.reqs <=> r \in Load(p).reqs
<1>1. ASSUME r \in p.reqs PROVE r \in Load(p).reqs
  <2>1. r = [r EXCEPT !.cur = @ /\ r.kind # "list"]
    BY DEF Writes, PageRequest
  <2> QED BY <1>1, <2>1, LoadFields
<1>2. ASSUME r \in Load(p).reqs PROVE r \in p.reqs
  BY <1>2, LoadLists DEF Writes
<1> QED BY <1>1, <1>2

LEMMA RenderedCreates ==
  ASSUME NEW p \in PageState, NEW before, NEW r \in PageRequest, Writes(r)
  PROVE  r \in p.reqs <=> r \in Rendered(before, p).reqs
<1> ~Reading(r)
  BY DEF Writes, Reading
<1> QED BY RenderedFields

LEMMA UserKeys ==
  ASSUME PageInv, User
  PROVE  CreatesStay
<1>a. page \in PageState
  BY DEF PageInv, PageTypes
<1>l. Load(page) \in PageState
  BY <1>a, LoadType
<1>b. ASSUME NEW new, ~Writes(new), page'.reqs = page.reqs \cup {new} PROVE CreatesStay
  BY <1>b DEF CreatesStay
<1>1. CASE Hide \/ CancelDelete \/ OpenWizard \/ CloseWizard
  BY <1>a, <1>1 DEF Hide, CancelDelete, OpenWizard, CloseWizard, PageState, CreatesStay
<1>2. CASE Show \/ Retry
  <2>1. page'.reqs = Load(page).reqs
    BY <1>l, <1>2 DEF Show, Retry, PageState
  <2> QED BY <1>a, <2>1, LoadCreates DEF CreatesStay
<1>3. CASE SetFilter
  <2>1. PICK f \in {"all", "Running", "Stopped"} : page' = Rendered(page, [page EXCEPT !.filter = f])
    BY <1>3 DEF SetFilter
  <2> DEFINE q == [page EXCEPT !.filter = f]
  <2>2. q \in PageState /\ q.reqs = page.reqs
    BY <1>a DEF PageState
  <2> HIDE DEF q
  <2> QED BY <2>1, <2>2, RenderedCreates DEF q, CreatesStay
<1>4. CASE SelectRow
  <2>1. PICK n \in Envs : page' = Rendered(page, [page EXCEPT !.sel = IF Selected(page) = n THEN None ELSE n])
    BY <1>4 DEF SelectRow, Visible, Listed
  <2> DEFINE q == [page EXCEPT !.sel = IF Selected(page) = n THEN None ELSE n]
  <2>2. q \in PageState /\ q.reqs = page.reqs
    BY <1>a DEF PageState, Names
  <2> HIDE DEF q
  <2> QED BY <2>1, <2>2, RenderedCreates DEF q, CreatesStay
<1>5. ASSUME NEW c, Ask(c) PROVE CreatesStay
  <2>1. ~Writes(Request(c, page.sel, "sent"))
    BY DEF Writes, Request
  <2> QED BY <1>a, <1>b, <1>5, <2>1 DEF Ask, PageState
<1>6. CASE RunAction
  <2>1. \/ \E n : page' = [page EXCEPT !.pendingDelete = n]
        \/ \E n, act : \E pc \in {"get", "call"} : page' = [page EXCEPT !.reqs = @ \cup {Request(act, n, pc)}]
    BY <1>6 DEF RunAction
  <2>2. \A n, act : \A pc \in {"get", "call"} : ~Writes(Request(act, n, pc))
    BY DEF Writes, Request
  <2>3. CASE \E n : page' = [page EXCEPT !.pendingDelete = n]
    BY <1>a, <2>3 DEF PageState, CreatesStay
  <2>4. CASE \E n, act : \E pc \in {"get", "call"} : page' = [page EXCEPT !.reqs = @ \cup {Request(act, n, pc)}]
    <3>1. PICK new : ~Writes(new) /\ page' = [page EXCEPT !.reqs = @ \cup {new}]
      BY <2>2, <2>4
    <3> QED BY <1>a, <1>b, <3>1 DEF PageState
  <2> QED BY <2>1, <2>3, <2>4
<1>7. CASE ConfirmDelete
  <2>1. ~Writes(Request("del", page.pendingDelete, "call"))
    BY DEF Writes, Request
  <2> QED BY <1>a, <1>b, <1>7, <2>1 DEF ConfirmDelete, PageState
<1>8. CASE SubmitCreate
  <2>1. PICK n \in Envs, keys \in BOOLEAN :
          page' = [page EXCEPT !.busy = TRUE, !.reqs = @ \cup {[Request("create", n, "check") EXCEPT !.keys = keys]}]
    BY <1>8 DEF SubmitCreate
  <2>2. ~Writes([Request("create", n, "check") EXCEPT !.keys = keys])
    BY DEF Writes, Request
  <2> QED BY <1>a, <1>b, <2>1, <2>2 DEF PageState
<1> QED BY <1>1, <1>2, <1>3, <1>4, <1>5, <1>6, <1>7, <1>8 DEF User, TokenRow, SshKeyRow, EnvValues

\* A step of a request that has no Secret to write, before or after.
LEMMA OtherCreates ==
  ASSUME PageInv, NEW r \in page.reqs, ~Writes(r),
         \/ page'.reqs = page.reqs \ {r}
         \/ \E new : ~Writes(new) /\ page'.reqs = (page.reqs \ {r}) \cup {new}
  PROVE  CreatesStay
BY DEF CreatesStay

LEMMA ChangeAsks ==
  ASSUME PageInv, NEW n \in Envs, NEW e \in Env \cup {None}, Change(n, e),
         e # None => \/ envs[n] # None /\ e.uid = envs[n].uid /\ e.keys = envs[n].keys
                     \/ e.uid = version + 1 /\ e.keys # "missing"
  PROVE  version' = version + 1 /\ \A m \in Envs : Asks(m)
<1>1. version' = version + 1 /\ \A m \in Envs : envs'[m] = IF m = n THEN e ELSE envs[m]
  BY DEF Change, PageInv, PageTypes
<1> QED BY <1>1 DEF Asks

LEMMA ServedKeys ==
  ASSUME PageInv, PageInv', KeysInv, NEW r \in page.reqs, Served(r)
  PROVE  KeysInv'
<1> USE DEF Absolutely
<1>a. page \in PageState /\ r \in PageRequest /\ envs \in [Envs -> Env \cup {None}] /\ version \in Nat
  BY DEF PageInv, PageTypes, PageState
<1>b. r.kind # "list" => r.name \in Envs
  BY DEF PageInv, Addressed
<1>c. ASSUME CreatesStay, UNCHANGED <<envs, version, orphaned>> PROVE KeysInv'
  <2>1. \A n \in Envs : Asks(n)
    BY <1>c DEF Asks
  <2> QED BY <1>c, <2>1, KeysKept
<1>d. ASSUME NEW ok \in BOOLEAN, Answered(r, ok)
      PROVE  /\ \E new : ~Writes(new) /\ page'.reqs = (page.reqs \ {r}) \cup {new}
             /\ \A s \in page'.reqs : Writes(s) => s \in page.reqs
             /\ \A s \in page.reqs : s = r \/ s \in page'.reqs
             /\ ~Writes(r) => CreatesStay
  <2> DEFINE new == [Request(r.kind, r.name, "done") EXCEPT !.ok = ok]
  <2>1. ~Writes(new)
    BY DEF Writes, Request
  <2>2. page'.reqs = (page.reqs \ {r}) \cup {new}
    BY <1>d, AnsweredFields
  <2> HIDE DEF new
  <2> QED BY <2>1, <2>2, OtherCreates
<1>1. CASE ListAnswered(r)
  <2>1. PICK failed, ans :
          page' = [page EXCEPT !.reqs = (@ \ {r}) \cup
                      {[r EXCEPT !.pc = "done", !.at = version, !.ok = ~failed, !.ans = ans]}]
    BY <1>1, Zenon DEF ListAnswered
  <2> DEFINE new == [r EXCEPT !.pc = "done", !.at = version, !.ok = ~failed, !.ans = ans]
  <2>2. ~Writes(new) /\ ~Writes(r)
    BY <1>a, <1>1 DEF ListAnswered, Writes, PageRequest
  <2> HIDE DEF new
  <2>3. page'.reqs = (page.reqs \ {r}) \cup {new}
    BY <2>1, ReplacedFields DEF new
  <2> QED BY <1>1, <1>c, <2>2, <2>3, OtherCreates DEF ListAnswered
<1>2. CASE ListArrives(r)
  <2> DEFINE p == [page EXCEPT !.reqs = @ \ {r}]
  <2>1. p \in PageState /\ p.reqs = page.reqs \ {r} /\ ~Writes(r)
    BY <1>a, <1>2 DEF PageState, ListArrives, Writes
  <2> HIDE DEF p
  <2> DEFINE q == ListLands(p, r)
  <2>q. q.reqs = p.reqs /\ "reqs" \in DOMAIN q
    BY <2>1 DEF ListLands, Apply, PageState
  <2>r. page' = Rendered(page, q)
    BY <1>2 DEF ListArrives, p
  <2> HIDE DEF q
  <2>2. page'.reqs \subseteq p.reqs /\ \A s \in p.reqs : ~Reading(s) => s \in page'.reqs
    BY <2>q, <2>r DEF Rendered
  <2>3. \A s : Writes(s) => ~Reading(s)
    BY DEF Writes, Reading
  <2>4. CreatesStay
    BY <2>1, <2>2, <2>3 DEF CreatesStay
  <2> QED BY <1>2, <1>c, <2>4 DEF ListArrives
<1>3. CASE CredentialRead(r)
  <2>1. page'.reqs = page.reqs \ {r} /\ ~Writes(r)
    BY <1>a, <1>3 DEF CredentialRead, PageState, Writes, Reading
  <2> QED BY <1>3, <1>c, <2>1, OtherCreates DEF CredentialRead
<1>4. CASE PatchReads(r)
  <2>1. ~Writes(r) /\ ~Writes([r EXCEPT !.pc = "call", !.mark = envs[r.name].mark])
    BY <1>4, <1>a DEF PatchReads, Writes, PageRequest
  <2>2. CreatesStay
    <3>1. CASE Answered(r, FALSE)
      BY <1>d, <2>1, <3>1
    <3>2. CASE page' = [page EXCEPT !.reqs = (@ \ {r}) \cup {[r EXCEPT !.pc = "call", !.mark = envs[r.name].mark]}]
      BY <2>1, <3>2, ReplacedFields, OtherCreates
    <3> QED BY <1>4, <3>1, <3>2 DEF PatchReads
  <2> QED BY <1>4, <1>c, <2>2 DEF PatchReads
<1>5. CASE PatchWrites(r)
  <2> DEFINE e == [envs[r.name] EXCEPT !.running = r.kind = "start", !.mark = @ /\ ~r.mark]
  <2>0. r.name \in Envs /\ ~Writes(r) /\ orphaned' = orphaned
    BY <1>5, <1>b DEF PatchWrites, Writes
  <2>1. envs[r.name] # None => e \in Env /\ e.uid = envs[r.name].uid /\ e.keys = envs[r.name].keys
    <3>1. envs[r.name] # None => envs[r.name] \in Env
      BY <1>a, <2>0
    <3> QED BY <1>a, <3>1 DEF Env, PageRequest
  <2>2. \/ Answered(r, FALSE) /\ UNCHANGED <<envs, version>>
        \/ envs[r.name] # None /\ Answered(r, TRUE) /\ Change(r.name, e)
    BY <1>5 DEF PatchWrites
  <2> HIDE DEF e
  <2>3. CreatesStay
    BY <1>d, <2>0, <2>2
  <2>4. CASE UNCHANGED <<envs, version>>
    BY <1>c, <2>0, <2>3, <2>4
  <2>5. CASE envs[r.name] # None /\ Change(r.name, e)
    BY <2>0, <2>1, <2>3, <2>5, ChangeAsks, KeysKept
  <2> QED BY <2>2, <2>4, <2>5
<1>6. CASE DeleteWrites(r)
  <2>0. r.name \in Envs /\ ~Writes(r) /\ orphaned' = orphaned
    BY <1>6, <1>b DEF DeleteWrites, Writes
  <2>1. \/ Answered(r, FALSE) /\ UNCHANGED <<envs, version>>
        \/ Answered(r, TRUE) /\ Change(r.name, None)
    BY <1>6 DEF DeleteWrites
  <2>2. CreatesStay
    BY <1>d, <2>0, <2>1
  <2> QED BY <1>c, <2>0, <2>1, <2>2, ChangeAsks, KeysKept
<1>7. CASE ActionLands(r)
  <2> DEFINE p == [page EXCEPT !.reqs = @ \ {r}]
  <2>1. p \in PageState /\ p.reqs = page.reqs \ {r} /\ ~Writes(r)
    BY <1>a, <1>7 DEF PageState, ActionLands, Writes
  <2>2. page' = IF r.ok THEN Load(p) ELSE p
    BY <1>7 DEF ActionLands
  <2> HIDE DEF p
  <2>3. CreatesStay
    BY <2>1, <2>2, LoadCreates DEF CreatesStay
  <2> QED BY <1>7, <1>c, <2>3 DEF ActionLands
<1>8. CASE PostChecks(r)
  <2>1. ~Writes(r) /\ ~Writes([r EXCEPT !.pc = "call"])
    BY <1>8, <1>a DEF PostChecks, Writes, PageRequest
  <2>2. CreatesStay
    <3>1. CASE Answered(r, FALSE)
      BY <1>d, <2>1, <3>1
    <3>2. CASE Goes(r, "call")
      BY <2>1, <3>2, ReplacedFields, OtherCreates DEF Goes
    <3> QED BY <1>8, <3>1, <3>2 DEF PostChecks
  <2> QED BY <1>8, <1>c, <2>2 DEF PostChecks
<1>12. CASE CreateLands(r)
  <2> DEFINE p == [page EXCEPT !.reqs = @ \ {r}, !.busy = FALSE]
             q == [Load(p) EXCEPT !.selectAfterLoad = r.name, !.created = version, !.filter = "all", !.wizard = FALSE]
  <2>1. p \in PageState /\ p.reqs = page.reqs \ {r} /\ ~Writes(r)
    BY <1>a, <1>12 DEF PageState, CreateLands, Writes
  <2>2. Load(p) \in PageState
    BY <2>1, LoadType
  <2>3. q \in PageState /\ q.reqs = Load(p).reqs
    BY <1>a, <2>2 DEF PageState, PageRequest
  <2>4. page' = IF ~r.ok THEN p ELSE Rendered(page, q)
    BY <1>12 DEF CreateLands
  <2> HIDE DEF p, q
  <2>5. ASSUME NEW s \in PageRequest, Writes(s) PROVE s \in page.reqs <=> s \in page'.reqs
    <3>1. s \in page.reqs <=> s \in p.reqs
      BY <2>1, <2>5
    <3>2. s \in p.reqs <=> s \in q.reqs
      BY <2>1, <2>3, <2>5, LoadCreates
    <3>3. s \in q.reqs <=> s \in Rendered(page, q).reqs
      BY <2>3, <2>5, RenderedCreates
    <3> QED BY <2>4, <3>1, <3>2, <3>3
  <2> QED BY <1>12, <1>c, <2>5 DEF CreateLands, CreatesStay
<1>9. CASE PostCreates(r)
  <2>0. r.name \in Envs /\ ~Writes(r) /\ orphaned' = orphaned
    BY <1>9, <1>b DEF PostCreates, Writes
  <2>1. CASE envs[r.name] # None
    <3>1. Answered(r, FALSE) /\ UNCHANGED <<envs, version>>
      BY <1>9, <2>1 DEF PostCreates
    <3> QED BY <1>c, <1>d, <2>0, <3>1
  <2>2. CASE envs[r.name] = None /\ ~r.keys
    <3>1. Answered(r, TRUE) /\ Change(r.name, NewEnv("none"))
      BY <1>9, <2>2 DEF PostCreates
    <3>2. NewEnv("none") \in Env /\ NewEnv("none").uid = version + 1 /\ NewEnv("none").keys = "none"
      BY <1>a DEF NewEnv, Env, Phases
    <3>3. CreatesStay
      BY <1>d, <2>0, <3>1
    <3> QED BY <2>0, <3>1, <3>2, <3>3, ChangeAsks, KeysKept
  <2>3. CASE envs[r.name] = None /\ r.keys
    <3> DEFINE e == NewEnv("missing")
               new == [r EXCEPT !.pc = "secret", !.at = version + 1]
    <3>1. Change(r.name, e) /\ page' = [page EXCEPT !.reqs = (@ \ {r}) \cup {new}]
      BY <1>9, <2>3 DEF PostCreates
    <3>2. e.uid = version + 1
      BY DEF NewEnv
    <3>3. new.kind = "create" /\ new.pc = "secret" /\ new.at = version + 1 /\ new.name = r.name
      BY <1>a, <1>9 DEF PageRequest, PostCreates
    <3> HIDE DEF e, new
    <3>4. page'.reqs = (page.reqs \ {r}) \cup {new}
      BY <3>1, ReplacedFields
    <3>5. version' = version + 1 /\ \A m \in Envs : envs'[m] = IF m = r.name THEN e ELSE envs[m]
      BY <1>a, <3>1 DEF Change
    <3>6. \A m \in Envs : envs[m] # None => envs[m].uid \in Nat /\ envs[m].uid <= version
      BY <1>a DEF PageInv, LoadInv, Uids, Env
    <3>7. ASSUME NEW s \in page'.reqs PROVE Writing(s)'
      <4>1. CASE s = new
        <5>1. \A n \in Envs : envs'[n] # None /\ envs'[n].uid = version + 1 => n = r.name
          BY <1>a, <3>5, <3>6
        <5> QED BY <1>a, <3>3, <3>5, <4>1, <5>1 DEF Writing
      <4>2. CASE s # new /\ Writes(s)
        <5>1. s \in page.reqs /\ s.at \in Nat
          BY <1>a, <3>4, <4>2 DEF PageState, PageRequest
        <5>2. s.at <= version /\ \A n \in Envs : envs[n] # None /\ envs[n].uid = s.at => n = s.name
          BY <4>2, <5>1 DEF KeysInv, Writing
        <5>3. s.at <= version' /\ s.at # version + 1
          BY <1>a, <3>5, <5>1, <5>2
        <5>4. \A n \in Envs : envs'[n] # None /\ envs'[n].uid = s.at => n = s.name
          BY <3>2, <3>5, <5>2, <5>3
        <5> QED BY <5>3, <5>4 DEF Writing
      <4> QED BY <4>1, <4>2 DEF Writing, Writes
    <3>8. ASSUME NEW n \in Envs, envs'[n] # None, envs'[n].keys = "missing"
          PROVE  \/ \E s \in page'.reqs : s.kind = "create" /\ s.pc \in {"secret", "unwind"} /\ s.at = envs'[n].uid
                 \/ envs'[n].uid \in orphaned'
      <4>1. CASE n = r.name
        BY <3>2, <3>3, <3>4, <3>5, <4>1
      <4>2. CASE n # r.name
        <5>1. envs'[n] = envs[n]
          BY <3>5, <4>2
        <5>2. CASE envs[n].uid \in orphaned
          BY <2>0, <5>1, <5>2
        <5>3. CASE \E s \in page.reqs : s.kind = "create" /\ s.pc \in {"secret", "unwind"} /\ s.at = envs[n].uid
          <6>1. PICK s \in page.reqs : s.kind = "create" /\ s.pc \in {"secret", "unwind"} /\ s.at = envs[n].uid
            BY <5>3
          <6>2. s \in page'.reqs
            BY <2>0, <3>4, <6>1 DEF Writes
          <6> QED BY <5>1, <6>1, <6>2
        <5> QED BY <3>8, <5>1, <5>2, <5>3 DEF KeysInv, KeysAreOnTheirWay
      <4> QED BY <4>1, <4>2
    <3> QED BY <3>7, <3>8 DEF KeysInv, KeysAreOnTheirWay
  <2> QED BY <2>1, <2>2, <2>3
<1>10. CASE PostWritesKeys(r)
  <2>0. r.name \in Envs /\ Writes(r) /\ orphaned' = orphaned /\ version' = version
    BY <1>10, <1>b DEF PostWritesKeys, Writes
  <2>1. CASE Answered(r, TRUE) /\ envs' = [envs EXCEPT ![r.name] = IF @ # None /\ @.uid = r.at THEN [@ EXCEPT !.keys = "there"] ELSE @]
    <3>1. ASSUME NEW n \in Envs
          PROVE  envs'[n] = envs[n] \/ (envs[n] # None /\ envs'[n].uid = envs[n].uid /\ envs'[n].keys = "there")
      <4>1. envs'[n] = envs[n] \/ (envs[n] # None /\ envs'[n] = [envs[n] EXCEPT !.keys = "there"])
        BY <1>a, <2>1
      <4>2. envs[n] # None => envs[n] \in Env
        BY <1>a
      <4> QED BY <4>1, <4>2 DEF Env
    <3>2. ASSUME envs[r.name] # None, envs[r.name].uid = r.at PROVE envs'[r.name].keys = "there"
      <4>1. envs'[r.name] = [envs[r.name] EXCEPT !.keys = "there"] /\ envs[r.name] \in Env
        BY <1>a, <2>0, <2>1, <3>2
      <4> QED BY <4>1 DEF Env
    <3>3. ASSUME NEW s \in page'.reqs PROVE Writing(s)'
      <4>1. Writes(s) => s \in page.reqs
        BY <1>d, <2>1
      <4> QED BY <2>0, <3>1, <4>1 DEF KeysInv, Writing
    <3>4. ASSUME NEW n \in Envs, envs'[n] # None, envs'[n].keys = "missing"
          PROVE  \/ \E s \in page'.reqs : s.kind = "create" /\ s.pc \in {"secret", "unwind"} /\ s.at = envs'[n].uid
                 \/ envs'[n].uid \in orphaned'
      <4>1. envs'[n] = envs[n]
        BY <3>1, <3>4
      <4>2. envs[n].uid # r.at
        BY <2>0, <3>2, <3>4, <4>1 DEF KeysInv, Writing
      <4>3. CASE \E s \in page.reqs : s.kind = "create" /\ s.pc \in {"secret", "unwind"} /\ s.at = envs[n].uid
        <5>1. PICK s \in page.reqs : s.kind = "create" /\ s.pc \in {"secret", "unwind"} /\ s.at = envs[n].uid
          BY <4>3
        <5>2. s \in page'.reqs
          BY <1>d, <2>1, <4>2, <5>1
        <5> QED BY <4>1, <5>1, <5>2
      <4> QED BY <2>0, <3>4, <4>1, <4>3 DEF KeysInv, KeysAreOnTheirWay
    <3> QED BY <3>3, <3>4 DEF KeysInv, KeysAreOnTheirWay
  <2>2. CASE Goes(r, "unwind") /\ envs' = envs
    <3> DEFINE new == [r EXCEPT !.pc = "unwind"]
    <3>1. new.kind = "create" /\ new.pc = "unwind" /\ new.at = r.at /\ new.name = r.name
      BY <1>a, <2>0 DEF PageRequest, Writes
    <3>2. page'.reqs = (page.reqs \ {r}) \cup {new}
      BY <2>2, ReplacedFields DEF Goes
    <3> HIDE DEF new
    <3>3. \A s \in page'.reqs : Writing(s)'
      BY <2>0, <2>2, <3>1, <3>2 DEF KeysInv, Writing, Writes
    <3>4. KeysAreOnTheirWay'
      BY <2>0, <2>2, <3>1, <3>2 DEF KeysInv, KeysAreOnTheirWay
    <3> QED BY <3>3, <3>4 DEF KeysInv
  <2> QED BY <1>10, <2>1, <2>2 DEF PostWritesKeys, AfterSecretFailed
<1>11. CASE PostUnwinds(r)
  <2>0. r.name \in Envs /\ Writes(r) /\ Answered(r, FALSE)
    BY <1>11, <1>b DEF PostUnwinds, Writes
  <2>1. /\ orphaned \subseteq orphaned' /\ version' \in {version, version + 1}
        /\ \A n \in Envs : envs'[n] = envs[n] \/ (n = r.name /\ envs'[n] = None)
        /\ r.at \in orphaned' \/ envs'[r.name] = None
    <3>1. \/ envs[r.name] = None /\ UNCHANGED <<envs, version, orphaned>>
          \/ version' = version + 1 /\ envs' = [envs EXCEPT ![r.name] = None] /\ UNCHANGED orphaned
          \/ orphaned' = orphaned \cup {r.at} /\ UNCHANGED <<envs, version>>
      BY <1>11, Zenon DEF PostUnwinds, Change
    <3>2. CASE envs[r.name] = None /\ UNCHANGED <<envs, version, orphaned>>
      BY <3>2
    <3>3. CASE version' = version + 1 /\ envs' = [envs EXCEPT ![r.name] = None] /\ UNCHANGED orphaned
      BY <1>a, <2>0, <3>3
    <3>4. CASE orphaned' = orphaned \cup {r.at} /\ UNCHANGED <<envs, version>>
      BY <3>4
    <3> QED BY <3>1, <3>2, <3>3, <3>4
  <2>2. \A s \in page'.reqs : (Writes(s) => s \in page.reqs)
    BY <1>d, <2>0
  <2>3. ASSUME NEW s \in page'.reqs PROVE Writing(s)'
    <3> SUFFICES ASSUME Writes(s) PROVE Writing(s)'
      BY DEF Writing
    <3>1. s \in page.reqs /\ s.at \in Nat /\ Writing(s)
      BY <1>a, <2>2 DEF KeysInv, PageState, PageRequest
    <3>2. s.at <= version'
      BY <1>a, <2>1, <3>1 DEF Writing
    <3> QED BY <2>1, <3>1, <3>2 DEF Writing
  <2>4. ASSUME NEW n \in Envs, envs'[n] # None, envs'[n].keys = "missing"
        PROVE  \/ \E s \in page'.reqs : s.kind = "create" /\ s.pc \in {"secret", "unwind"} /\ s.at = envs'[n].uid
               \/ envs'[n].uid \in orphaned'
    <3>1. envs'[n] = envs[n]
      BY <2>1, <2>4
    <3>2. envs[n].uid = r.at => envs'[n].uid \in orphaned'
      <4>1. envs[n].uid = r.at => n = r.name
        BY <2>0, <2>4, <3>1 DEF KeysInv, Writing
      <4> QED BY <2>1, <2>4, <3>1, <4>1
    <3>3. CASE \E s \in page.reqs : s.kind = "create" /\ s.pc \in {"secret", "unwind"} /\ s.at = envs[n].uid
      <4>1. PICK s \in page.reqs : s.kind = "create" /\ s.pc \in {"secret", "unwind"} /\ s.at = envs[n].uid
        BY <3>3
      <4>2. s = r \/ s \in page'.reqs
        BY <1>d, <2>0
      <4> QED BY <3>1, <3>2, <4>1, <4>2
    <3> QED BY <2>1, <2>4, <3>1, <3>3 DEF KeysInv, KeysAreOnTheirWay
  <2> QED BY <2>3, <2>4 DEF KeysInv, KeysAreOnTheirWay
<1> QED
  BY <1>1, <1>2, <1>3, <1>4, <1>5, <1>6, <1>7, <1>8, <1>9, <1>10, <1>11, <1>12 DEF Served

LEMMA WorldAsks ==
  ASSUME PageInv, Reconcile \/ IdleStop \/ OthersCreate \/ OthersDelete
  PROVE  page' = page /\ orphaned' = orphaned /\ version' = version + 1 /\ \A m \in Envs : Asks(m)
<1> USE DEF PageInv, PageTypes
<1>0. page' = page /\ orphaned' = orphaned
  BY DEF Reconcile, IdleStop, OthersCreate, OthersDelete
<1>1. CASE Reconcile
  <2>1. PICK n \in Envs : envs[n] # None /\ \E ph \in Phases : Change(n, [envs[n] EXCEPT !.phase = ph])
    BY <1>1 DEF Reconcile, Phases
  <2>2. PICK ph \in Phases : Change(n, [envs[n] EXCEPT !.phase = ph])
    BY <2>1
  <2> DEFINE e == [envs[n] EXCEPT !.phase = ph]
  <2>3. e \in Env /\ e.uid = envs[n].uid /\ e.keys = envs[n].keys
    BY <2>1 DEF Env
  <2> HIDE DEF e
  <2>4. Change(n, e)
    BY <2>2 DEF e
  <2> QED BY <1>0, <2>1, <2>3, <2>4, ChangeAsks
<1>2. CASE IdleStop
  <2>1. PICK n \in Envs : envs[n] # None /\ Change(n, [envs[n] EXCEPT !.mark = TRUE])
    BY <1>2 DEF IdleStop
  <2> DEFINE e == [envs[n] EXCEPT !.mark = TRUE]
  <2>2. e \in Env /\ e.uid = envs[n].uid /\ e.keys = envs[n].keys
    BY <2>1 DEF Env
  <2> HIDE DEF e
  <2>3. Change(n, e)
    BY <2>1 DEF e
  <2> QED BY <1>0, <2>1, <2>2, <2>3, ChangeAsks
<1>3. CASE OthersCreate
  <2>1. PICK n \in Envs, running \in BOOLEAN :
          Change(n, [NewEnv("none") EXCEPT !.running = running, !.phase = IF running THEN "Running" ELSE "Stopped"])
    BY <1>3, Zenon DEF OthersCreate
  <2> DEFINE e == [NewEnv("none") EXCEPT !.running = running, !.phase = IF running THEN "Running" ELSE "Stopped"]
  <2>2. NewEnv("none") \in Env /\ NewEnv("none").uid = version + 1 /\ NewEnv("none").keys = "none"
    BY DEF NewEnv, Env, Phases
  <2>3. e \in Env /\ e.uid = version + 1 /\ e.keys = "none"
    BY <2>2 DEF Env, Phases
  <2> HIDE DEF e
  <2>4. Change(n, e)
    BY <2>1 DEF e
  <2> QED BY <1>0, <2>3, <2>4, ChangeAsks
<1>4. CASE OthersDelete
  BY <1>0, <1>4, ChangeAsks DEF OthersDelete
<1> QED BY <1>1, <1>2, <1>3, <1>4

(* An environment waits for a Secret of keys only while its create is still to
   write it or to take the object back, or when taking it back has failed too,
   whatever others delete and re-create under its name between the calls of POST. *)
THEOREM KeysArrive == Spec => []KeysAreOnTheirWay
<1>1. Init => PageInv
  BY InitPage
<1>2. Init => KeysInv
  <2> SUFFICES ASSUME Init PROVE KeysInv
    OBVIOUS
  <2>1. envs = [n \in Envs |-> None]
    BY DEF Init, PageInit, PageAtRest
  <2>2. page = Load(Opening) \/ page = [Opening EXCEPT !.hidden = TRUE]
    BY DEF Init, PageInit, PageAtRest
  <2>3. \A r \in page.reqs : r = Request("list", None, "sent")
    <3>1. Opening \in PageState /\ Opening.reqs = {} /\ [Opening EXCEPT !.hidden = TRUE].reqs = {}
      BY DEF Opening, PageState, Listing, Names
    <3> QED BY <2>2, <3>1, LoadFields
  <2>4. \A r \in page.reqs : Writing(r)
    BY <2>3 DEF Writing, Writes, Request
  <2> QED BY <2>1, <2>4 DEF KeysInv, KeysAreOnTheirWay
<1>3. PageInv /\ [Next]_<<pageVars, svcVars, taskVars>> => PageInv'
  BY StepPage
<1>4. ASSUME PageInv, PageInv', KeysInv, [Next]_<<pageVars, svcVars, taskVars>>
      PROVE  KeysInv'
  <2>1. CASE User \/ Poll
    <3>1. UNCHANGED <<envs, version, orphaned>>
      BY <2>1 DEF User, Poll, Absolutely, Hide, Show, Retry, SetFilter, SelectRow, TokenRow, SshKeyRow, EnvValues, Ask,
                  RunAction, CancelDelete, ConfirmDelete, OpenWizard, CloseWizard, SubmitCreate
    <3>2. CreatesStay
      <4>1. CASE Poll
        BY <1>4, <4>1, LoadCreates DEF Poll, CreatesStay, PageInv, PageTypes
      <4> QED BY <1>4, <2>1, <4>1, UserKeys
    <3>3. \A n \in Envs : Asks(n)
      BY <3>1 DEF Asks
    <3> QED BY <1>4, <3>1, <3>2, <3>3, KeysKept
  <2>2. CASE Reconcile \/ IdleStop \/ OthersCreate \/ OthersDelete
    BY <1>4, <2>2, WorldAsks, KeysKept DEF CreatesStay
  <2>3. CASE UNCHANGED pageVars
    BY <1>4, <2>3 DEF pageVars, KeysInv, KeysAreOnTheirWay, Writing
  <2> QED BY <1>4, <2>1, <2>2, <2>3, ServedKeys DEF Next, PageNext, PageSteps
<1>5. KeysInv => KeysAreOnTheirWay
  BY DEF KeysInv
<1> QED BY <1>1, <1>2, <1>3, <1>4, <1>5, PTL DEF Spec

-----------------------------------------------------------------------------
(* The inference services console *)

-----------------------------------------------------------------------------
(* Types *)

SvcNames == Services \cup {None}

\* A count of a service, of a card or of a request.
AnyCount == Counts \cup {0, None, Default}

SvcListing == [Services -> [uid : Nat, count : AnyCount, phase : SvcPhases] \cup {None}]

Service == [uid : Nat, mapped : BOOLEAN, override : AnyCount, phase : SvcPhases]

SvcRequestType ==
  [kind : {"list", "patch", "del", "create"}, name : SvcNames, pc : {"sent", "done", "get", "call", "check"},
   ok : BOOLEAN, ans : SvcListing \cup {None}, at : Nat, count : AnyCount, of : SvcNames]

SvcState ==
  [items : SvcListing, version : Nat, view : {"loading", "list", "error"}, sel : SvcNames,
   selectAfterLoad : SvcNames, filter : {"all", "ready", "progressing"}, hidden : BOOLEAN, pendingDelete : SvcNames,
   wizard : BOOLEAN, deploying : BOOLEAN, card : [of : SvcNames, count : AnyCount] \cup {None}, busy : BOOLEAN,
   reqs : SUBSET SvcRequestType]

SvcTypes ==
  /\ svcs \in [Services -> Service \cup {None}]
  /\ svcVersion \in Nat /\ svcPage \in SvcState

\* A list is not newer than the cluster, nor are the services in it newer than the list.
SvcAnswer(r) ==
  r.kind = "list" /\ r.pc = "done" =>
    /\ r.at <= svcVersion
    /\ r.ok => r.ans \in SvcListing /\ \A n \in Services : r.ans[n] # None => r.ans[n].uid <= r.at

SvcListInv ==
  /\ \A n \in Services : svcs[n] # None => svcs[n].uid <= svcVersion
  /\ \A r \in svcPage.reqs : SvcAnswer(r)
  /\ svcPage.version <= svcVersion
  /\ svcPage.sel # None => svcPage.items[svcPage.sel] # None

\* The card holds what was typed for the open row.
CardIsTheRows == svcPage.card # None => OpenRow(svcPage) # None /\ svcPage.card.of = OpenRow(svcPage)

\* One scale at a time.
OneScale == \A r, s \in svcPage.reqs : r.kind = "patch" /\ s.kind = "patch" => r = s

SvcAddressed == \A r \in svcPage.reqs : r.kind # "list" => r.name \in Services

SvcInv ==
  /\ SvcTypes /\ SvcAddressed /\ SvcListInv
  /\ CardIsTheRows /\ OneScale /\ ScaleBusyIsTrue /\ ScaleIsTheRows

-----------------------------------------------------------------------------
(* The operators *)

LEMMA SvcRequestIs ==
  ASSUME NEW k \in {"list", "patch", "del", "create"}, NEW n \in SvcNames, NEW pc \in {"sent", "done", "get", "call", "check"}
  PROVE  /\ SvcRequest(k, n, pc) \in SvcRequestType
         /\ SvcRequest(k, n, pc).kind = k /\ SvcRequest(k, n, pc).name = n /\ SvcRequest(k, n, pc).pc = pc
BY DEF SvcRequest, SvcRequestType, SvcNames, AnyCount

LEMMA NewestServiceIsListed ==
  ASSUME NEW items \in SvcListing, NEW b \in Nat, \A n \in Services : items[n] # None => items[n].uid <= b
  PROVE  /\ NewestService(items) \in SvcNames
         /\ NewestService(items) # None => items[NewestService(items)] # None
<1> DEFINE there == {n \in Services : items[n] # None}
           S == {items[n].uid : n \in there}
<1>1. CASE there = {}
  BY <1>1 DEF NewestService, SvcNames
<1>2. CASE there # {}
  <2>1. \A n \in there : items[n].uid \in Nat /\ items[n].uid <= b
    BY DEF SvcListing
  <2>2. S \subseteq Nat /\ \A x \in S : x <= b
    BY <2>1
  <2>3. PICK m \in there : TRUE
    BY <1>2
  <2>4. items[m].uid \in S
    BY <2>3
  <2>5. PICK x \in S : \A y \in S : y <= x
    <3> HIDE DEF S
    <3> QED BY <2>2, <2>4, Largest
  <2>6. PICK n \in there : x = items[n].uid
    OBVIOUS
  <2>7. \A k \in there : items[k].uid <= items[n].uid
    BY <2>5, <2>6
  <2>8. NewestService(items) \in there
    BY <1>2, <2>7 DEF NewestService
  <2> QED BY <2>8 DEF SvcNames
<1> QED BY <1>1, <1>2

LEMMA KeepSelectionType ==
  ASSUME NEW p \in SvcState, NEW items \in SvcListing, NEW b \in Nat,
         \A n \in Services : items[n] # None => items[n].uid <= b
  PROVE  /\ KeepSelection(p, items) \in SvcNames
         /\ KeepSelection(p, items) # None => items[KeepSelection(p, items)] # None
BY NewestServiceIsListed DEF KeepSelection, SvcState

\* What the scale card depends on.
SameScale(p, q) ==
  q.items = p.items /\ q.version = p.version /\ q.sel = p.sel /\ q.view = p.view /\ q.filter = p.filter /\ q.card = p.card

LEMMA SameOpenRow ==
  ASSUME NEW p, NEW q, q.items = p.items, q.sel = p.sel, q.view = p.view, q.filter = p.filter
  PROVE  OpenRow(q) = OpenRow(p)
BY DEF OpenRow, SvcVisible

\* A render: the card of the open row, which keeps its edits if neither the row nor its count is another.
LEMMA ScaleCardIs ==
  ASSUME NEW p \in SvcState, NEW before \in SvcState, before.card # None => before.card.of = OpenRow(before), p.card = before.card
  PROVE  LET q == ScaleCard(before, p)
         IN  /\ q \in SvcState
             /\ q.items = p.items /\ q.version = p.version /\ q.sel = p.sel /\ q.view = p.view /\ q.filter = p.filter
             /\ q.reqs = p.reqs /\ q.busy = p.busy
             /\ OpenRow(q) = OpenRow(p)
             /\ q.card # None => OpenRow(q) # None /\ q.card.of = OpenRow(q)
             /\ OpenRow(q) # None /\ OpenRow(q) = OpenRow(before)
                  /\ p.items[OpenRow(q)].count = before.items[OpenRow(q)].count => q.card = before.card
<1> DEFINE q == ScaleCard(before, p)
           n == OpenRow(p)
           c == IF n = None THEN None
                ELSE IF n = OpenRow(before) /\ p.items[n].count = before.items[n].count THEN p.card ELSE ScaleInitial(p, n)
<1>1. q = [p EXCEPT !.card = c]
  BY DEF ScaleCard
<1>2. n # None => n \in Services /\ p.items[n] # None
  BY DEF OpenRow, SvcVisible
<1>3. n # None => ScaleInitial(p, n) \in [of : SvcNames, count : AnyCount] /\ ScaleInitial(p, n).of = n
  BY <1>2 DEF ScaleInitial, SvcState, SvcListing, SvcNames
<1>4. c \in [of : SvcNames, count : AnyCount] \cup {None}
  BY <1>3 DEF SvcState
<1>5. c # None => n # None /\ c.of = n
  BY <1>3
<1> HIDE DEF n, c
<1>6. q \in SvcState /\ q.items = p.items /\ q.version = p.version /\ q.sel = p.sel /\ q.view = p.view /\ q.filter = p.filter
      /\ q.reqs = p.reqs /\ q.busy = p.busy /\ q.card = c
  BY <1>1, <1>4 DEF SvcState
<1> HIDE DEF q
<1>7. OpenRow(q) = n
  BY <1>6, SameOpenRow DEF n
<1>8. n # None /\ n = OpenRow(before) /\ p.items[n].count = before.items[n].count => c = before.card
  BY DEF c
<1>9. /\ q \in SvcState
      /\ q.items = p.items /\ q.version = p.version /\ q.sel = p.sel /\ q.view = p.view /\ q.filter = p.filter
      /\ q.reqs = p.reqs /\ q.busy = p.busy
      /\ OpenRow(q) = OpenRow(p)
      /\ q.card # None => OpenRow(q) # None /\ q.card.of = OpenRow(q)
      /\ OpenRow(q) # None /\ OpenRow(q) = OpenRow(before)
           /\ p.items[OpenRow(q)].count = before.items[OpenRow(q)].count => q.card = before.card
  BY <1>5, <1>6, <1>7, <1>8 DEF n
<1> QED BY <1>9 DEF q

LEMMA LoadServicesIs ==
  ASSUME NEW p \in SvcState
  PROVE  /\ LoadServices(p) \in SvcState /\ SameScale(p, LoadServices(p)) /\ LoadServices(p).busy = p.busy
         /\ LoadServices(p).reqs = p.reqs \cup {SvcRequest("list", None, "sent")}
<1>1. SvcRequest("list", None, "sent") \in SvcRequestType
  BY SvcRequestIs DEF SvcNames
<1> QED BY <1>1 DEF LoadServices, SvcState, SameScale

-----------------------------------------------------------------------------
(* What a step does *)

SvcUids == \A n \in Services : svcs[n] # None => svcs[n].uid <= svcVersion

\* Neither the rows nor the card are touched, and no list is answered.
Untouched ==
  /\ SameScale(svcPage, svcPage')
  /\ \A s \in svcPage'.reqs : s.kind = "list" /\ s.pc = "done" => s \in svcPage.reqs
  /\ svcVersion' \in {svcVersion, svcVersion + 1} /\ SvcUids'

LEMMA UntouchedInv ==
  ASSUME SvcInv, SvcTypes', Untouched
  PROVE  SvcListInv' /\ CardIsTheRows' /\ ScaleEditsKept
<1> USE DEF SvcInv, SvcTypes, SvcListInv, Untouched
<1>1. OpenRow(svcPage)' = OpenRow(svcPage)
  BY SameOpenRow DEF SameScale
<1>2. CardIsTheRows'
  BY <1>1 DEF CardIsTheRows, SameScale
<1>3. ASSUME NEW s \in svcPage'.reqs PROVE SvcAnswer(s)'
  <2> SUFFICES ASSUME s.kind = "list", s.pc = "done" PROVE SvcAnswer(s)'
    BY DEF SvcAnswer
  <2>1. s \in svcPage.reqs /\ s.at \in Nat /\ SvcAnswer(s)
    BY DEF SvcState, SvcRequestType
  <2>2. s.at <= svcVersion'
    BY <2>1 DEF SvcAnswer
  <2> QED BY <2>1, <2>2 DEF SvcAnswer
<1>4. svcPage'.version <= svcVersion' /\ (svcPage'.sel # None => svcPage'.items[svcPage'.sel] # None)
  BY DEF SameScale, SvcState
<1>5. ScaleEditsKept
  BY DEF ScaleEditsKept, SameScale
<1> QED BY <1>2, <1>3, <1>4, <1>5 DEF SvcUids

\* The scales under way are the same.
SameScales ==
  /\ svcPage'.busy = svcPage.busy
  /\ \A s : s.kind = "patch" => (s \in svcPage.reqs <=> s \in svcPage'.reqs)

LEMMA SameScalesInv ==
  ASSUME SvcInv, SameScales
  PROVE  OneScale' /\ ScaleBusyIsTrue' /\ ScaleIsTheRows'
BY DEF SvcInv, SameScales, OneScale, ScaleBusyIsTrue, ScaleIsTheRows

\* A request takes a step.
SvcReplaced(r, new) == svcPage' = [svcPage EXCEPT !.reqs = (@ \ {r}) \cup {new}]

LEMMA SvcReplacedIs ==
  ASSUME SvcInv, NEW r \in svcPage.reqs, NEW new \in SvcRequestType, SvcReplaced(r, new),
         new.kind = r.kind, new.name = r.name, new.of = r.of
  PROVE  /\ svcPage' \in SvcState /\ SameScale(svcPage, svcPage') /\ svcPage'.reqs = (svcPage.reqs \ {r}) \cup {new}
         /\ OneScale' /\ ScaleBusyIsTrue' /\ ScaleIsTheRows' /\ SvcAddressed'
<1>1. /\ svcPage' \in SvcState /\ SameScale(svcPage, svcPage') /\ svcPage'.reqs = (svcPage.reqs \ {r}) \cup {new}
      /\ svcPage'.busy = svcPage.busy
  BY DEF SvcInv, SvcTypes, SvcState, SvcReplaced, SameScale
<1>2. OneScale'
  BY <1>1 DEF SvcInv, OneScale
<1>3. ScaleBusyIsTrue'
  BY <1>1 DEF SvcInv, ScaleBusyIsTrue
<1>4. ScaleIsTheRows'
  BY <1>1 DEF SvcInv, ScaleIsTheRows
<1>5. SvcAddressed'
  BY <1>1 DEF SvcInv, SvcAddressed
<1> QED BY <1>1, <1>2, <1>3, <1>4, <1>5

LEMMA SvcAnsweredIs ==
  ASSUME SvcInv, NEW r \in svcPage.reqs, r.kind # "list", NEW ok \in BOOLEAN, SvcAnswered(r, ok),
         svcVersion' \in {svcVersion, svcVersion + 1}, SvcUids', svcs' \in [Services -> Service \cup {None}]
  PROVE  SvcInv' /\ ScaleEditsKept
<1> DEFINE new == [r EXCEPT !.pc = "done", !.ok = ok]
<1>0. r \in SvcRequestType
  BY DEF SvcInv, SvcTypes, SvcState
<1>1. new \in SvcRequestType /\ new.kind = r.kind /\ new.name = r.name /\ new.of = r.of
  BY <1>0 DEF SvcRequestType
<1>2. SvcReplaced(r, new)
  BY DEF SvcAnswered, SvcReplaced
<1> HIDE DEF new
<1>3. /\ svcPage' \in SvcState /\ SameScale(svcPage, svcPage') /\ svcPage'.reqs = (svcPage.reqs \ {r}) \cup {new}
      /\ OneScale' /\ ScaleBusyIsTrue' /\ ScaleIsTheRows' /\ SvcAddressed'
  BY <1>1, <1>2, SvcReplacedIs
<1>4. SvcTypes' /\ Untouched
  BY <1>1, <1>3 DEF SvcTypes, Untouched, SvcInv
<1> QED BY <1>3, <1>4, UntouchedInv DEF SvcInv

LEMMA SvcGoesIs ==
  ASSUME SvcInv, NEW r \in svcPage.reqs, r.kind # "list", SvcGoes(r, "call"), UNCHANGED <<svcs, svcVersion>>
  PROVE  SvcInv' /\ ScaleEditsKept
<1> DEFINE new == [r EXCEPT !.pc = "call"]
<1>0. r \in SvcRequestType
  BY DEF SvcInv, SvcTypes, SvcState
<1>1. new \in SvcRequestType /\ new.kind = r.kind /\ new.name = r.name /\ new.of = r.of
  BY <1>0 DEF SvcRequestType
<1>2. SvcReplaced(r, new)
  BY DEF SvcGoes, SvcReplaced
<1> HIDE DEF new
<1>3. /\ svcPage' \in SvcState /\ SameScale(svcPage, svcPage') /\ svcPage'.reqs = (svcPage.reqs \ {r}) \cup {new}
      /\ OneScale' /\ ScaleBusyIsTrue' /\ ScaleIsTheRows' /\ SvcAddressed'
  BY <1>1, <1>2, SvcReplacedIs
<1>4. SvcTypes' /\ Untouched
  BY <1>1, <1>3 DEF SvcTypes, Untouched, SvcInv, SvcUids, SvcListInv
<1> QED BY <1>3, <1>4, UntouchedInv DEF SvcInv

\* Every write makes one change.
LEMMA ChangeServiceIs ==
  ASSUME SvcInv, NEW n \in Services, NEW e \in Service \cup {None}, ChangeService(n, e),
         e # None => e.uid = svcVersion + 1 \/ (svcs[n] # None /\ e.uid = svcs[n].uid)
  PROVE  svcVersion' = svcVersion + 1 /\ SvcUids' /\ svcs' \in [Services -> Service \cup {None}]
<1> USE DEF SvcInv, SvcTypes, SvcListInv
<1>1. svcVersion' = svcVersion + 1 /\ svcs' \in [Services -> Service \cup {None}]
      /\ \A m \in Services : svcs'[m] = IF m = n THEN e ELSE svcs[m]
  BY DEF ChangeService
<1>2. \A m \in Services : svcs[m] # None => svcs[m].uid \in Nat /\ svcs[m].uid <= svcVersion
  BY DEF Service
<1>3. \A m \in Services : svcs'[m] # None => svcs'[m].uid <= svcVersion'
  BY <1>1, <1>2
<1> QED BY <1>1, <1>3 DEF SvcUids

LEMMA SvcStillHere ==
  ASSUME SvcInv, UNCHANGED <<svcs, svcVersion>>
  PROVE  svcVersion' \in {svcVersion, svcVersion + 1} /\ SvcUids' /\ svcs' \in [Services -> Service \cup {None}]
BY DEF SvcInv, SvcTypes, SvcListInv, SvcUids

\* The page leaves the card and the scales alone, and may ask for something else.
LEMMA QuietInv ==
  ASSUME SvcInv, svcPage' \in SvcState, SameScale(svcPage, svcPage'), UNCHANGED <<svcs, svcVersion>>,
         svcPage'.busy = svcPage.busy,
         \A s \in svcPage.reqs : s.kind = "patch" => s \in svcPage'.reqs,
         \A s \in svcPage'.reqs : s \in svcPage.reqs \/ (s.pc # "done" /\ s.kind # "patch" /\ (s.kind # "list" => s.name \in Services))
  PROVE  SvcInv' /\ ScaleEditsKept
<1>1. SvcTypes' /\ Untouched
  BY SvcStillHere DEF SvcTypes, SvcInv, Untouched
<1>2. SameScales
  BY DEF SameScales
<1>3. SvcAddressed'
  BY DEF SvcAddressed, SvcInv
<1> QED BY <1>1, <1>2, <1>3, UntouchedInv, SameScalesInv DEF SvcInv

\* A render, of rows that may be others.
LEMMA RenderInv ==
  ASSUME SvcInv, NEW p \in SvcState, svcPage' = ScaleCard(svcPage, p), p.card = svcPage.card, p.busy = svcPage.busy,
         UNCHANGED <<svcs, svcVersion>>, p.reqs \subseteq svcPage.reqs,
         \A s \in svcPage.reqs : s.kind = "patch" => s \in p.reqs,
         p.version <= svcVersion, p.sel # None => p.items[p.sel] # None
  PROVE  SvcInv' /\ ScaleEditsKept
<1>0. svcPage \in SvcState /\ (svcPage.card # None => OpenRow(svcPage) # None /\ svcPage.card.of = OpenRow(svcPage))
  BY DEF SvcInv, SvcTypes, CardIsTheRows
<1>1. /\ svcPage' \in SvcState
      /\ svcPage'.items = p.items /\ svcPage'.version = p.version /\ svcPage'.sel = p.sel
      /\ svcPage'.reqs = p.reqs /\ svcPage'.busy = p.busy
      /\ svcPage'.card # None => OpenRow(svcPage') # None /\ svcPage'.card.of = OpenRow(svcPage')
      /\ OpenRow(svcPage') # None /\ OpenRow(svcPage') = OpenRow(svcPage)
           /\ p.items[OpenRow(svcPage')].count = svcPage.items[OpenRow(svcPage')].count => svcPage'.card = svcPage.card
  BY <1>0, ScaleCardIs
<1>2. SvcTypes'
  BY <1>1 DEF SvcTypes, SvcInv
<1>3. SvcListInv'
  BY <1>1 DEF SvcListInv, SvcInv, SvcAnswer
<1>4. CardIsTheRows'
  BY <1>1 DEF CardIsTheRows
<1>5. SameScales
  BY <1>1 DEF SameScales
<1>6. SvcAddressed'
  BY <1>1 DEF SvcAddressed, SvcInv
<1>7. ScaleEditsKept
  <2> SUFFICES ASSUME NEW n \in Services, OpenRow(svcPage) = n, OpenRow(svcPage)' = n,
                      svcPage.items[n].count = svcPage'.items[n].count
               PROVE  svcPage.card = svcPage'.card
    BY DEF ScaleEditsKept
  <2>1. OpenRow(svcPage') = n
    OBVIOUS
  <2> QED BY <1>0, <1>1, <2>1
<1> QED BY <1>2, <1>3, <1>4, <1>5, <1>6, <1>7, SameScalesInv DEF SvcInv

LEMMA SvcUserInv ==
  ASSUME SvcInv, SvcUser
  PROVE  SvcInv' /\ ScaleEditsKept
<1> USE DEF Elsewhere
<1>a. svcPage \in SvcState
  BY DEF SvcInv, SvcTypes
<1>b. UNCHANGED <<svcs, svcVersion>>
  BY DEF SvcUser, HideServices, ShowServicesAgain, RetryServices, SelectService, FilterServices, ScaleInput, HandleApply,
         AskDelete, CloseDeleteDialog, ConfirmServiceDelete, OpenDeploy, CloseDeploy, SubmitDeploy
<1>l. LoadServices(svcPage) \in SvcState /\ SameScale(svcPage, LoadServices(svcPage)) /\ LoadServices(svcPage).busy = svcPage.busy
      /\ LoadServices(svcPage).reqs = svcPage.reqs \cup {SvcRequest("list", None, "sent")}
  BY <1>a, LoadServicesIs
<1>m. SvcRequest("list", None, "sent").kind = "list" /\ SvcRequest("list", None, "sent").pc = "sent"
  BY DEF SvcRequest
<1>1. CASE HideServices \/ CloseDeleteDialog \/ OpenDeploy \/ CloseDeploy
  <2>1. svcPage' \in SvcState /\ SameScale(svcPage, svcPage') /\ svcPage'.busy = svcPage.busy /\ svcPage'.reqs = svcPage.reqs
    <3>1. CASE HideServices
      BY <1>a, <3>1 DEF HideServices, SvcState, SameScale, SvcNames
    <3>2. CASE CloseDeleteDialog
      BY <1>a, <3>2 DEF CloseDeleteDialog, SvcState, SameScale, SvcNames
    <3>3. CASE OpenDeploy
      BY <1>a, <3>3 DEF OpenDeploy, SvcState, SameScale, SvcNames
    <3>4. CASE CloseDeploy
      BY <1>a, <3>4 DEF CloseDeploy, SvcState, SameScale, SvcNames
    <3> QED BY <1>1, <3>1, <3>2, <3>3, <3>4
  <2> QED BY <1>b, <2>1, QuietInv
<1>2. CASE AskDelete
  <2>1. PICK n \in Services : svcPage' = [svcPage EXCEPT !.pendingDelete = n]
    BY <1>2 DEF AskDelete, SvcVisible
  <2>2. svcPage' \in SvcState /\ SameScale(svcPage, svcPage') /\ svcPage'.busy = svcPage.busy /\ svcPage'.reqs = svcPage.reqs
    BY <1>a, <2>1 DEF SvcState, SameScale, SvcNames
  <2> QED BY <1>b, <2>2, QuietInv
<1>3. CASE ShowServicesAgain
  <2>1. svcPage' \in SvcState /\ SameScale(LoadServices(svcPage), svcPage') /\ svcPage'.busy = LoadServices(svcPage).busy
        /\ svcPage'.reqs = LoadServices(svcPage).reqs
    BY <1>l, <1>3 DEF ShowServicesAgain, SvcState, SameScale
  <2>2. SameScale(svcPage, svcPage')
    BY <1>l, <2>1 DEF SameScale
  <2> QED BY <1>b, <1>l, <1>m, <2>1, <2>2, QuietInv
<1>4. CASE RetryServices
  \* The card is gone with the list, and does not come back before the next one.
  <2>1. svcPage' \in SvcState /\ svcPage'.busy = svcPage.busy /\ svcPage'.reqs = LoadServices(svcPage).reqs
        /\ svcPage'.items = svcPage.items /\ svcPage'.version = svcPage.version /\ svcPage'.sel = svcPage.sel
        /\ svcPage'.card = svcPage.card /\ svcPage.view = "error"
    BY <1>l, <1>4 DEF RetryServices, SvcState, SameScale
  <2>2. OpenRow(svcPage) = None
    BY <2>1 DEF OpenRow, SvcVisible
  <2>3. svcPage.card = None
    BY <2>2 DEF SvcInv, CardIsTheRows
  <2>4. SvcTypes'
    BY <1>b, <2>1 DEF SvcTypes, SvcInv
  <2>5. SvcListInv'
    BY <1>b, <1>l, <1>m, <2>1 DEF SvcListInv, SvcInv, SvcAnswer
  <2>6. CardIsTheRows' /\ ScaleEditsKept
    BY <2>1, <2>3 DEF CardIsTheRows, ScaleEditsKept
  <2>7. SameScales
    BY <1>l, <1>m, <2>1 DEF SameScales
  <2>8. SvcAddressed'
    BY <1>l, <1>m, <2>1 DEF SvcAddressed, SvcInv
  <2> QED BY <2>4, <2>5, <2>6, <2>7, <2>8, SameScalesInv DEF SvcInv
<1>5. CASE SelectService
  <2>1. PICK n \in SvcVisible(svcPage) : svcPage' = ScaleCard(svcPage, [svcPage EXCEPT !.sel = IF @ = n THEN None ELSE n])
    BY <1>5 DEF SelectService
  <2> DEFINE p == [svcPage EXCEPT !.sel = IF @ = n THEN None ELSE n]
  <2>2. n \in Services /\ svcPage.items[n] # None
    BY DEF SvcVisible
  <2>3. p \in SvcState /\ p.card = svcPage.card /\ p.busy = svcPage.busy /\ p.reqs = svcPage.reqs /\ p.version = svcPage.version
        /\ p.items = svcPage.items /\ p.sel \in {None, n}
    BY <1>a, <2>2 DEF SvcState, SvcNames
  <2> HIDE DEF p
  <2>4. svcPage' = ScaleCard(svcPage, p)
    BY <2>1 DEF p
  <2> QED BY <1>b, <2>2, <2>3, <2>4, RenderInv DEF SvcInv, SvcListInv
<1>6. CASE FilterServices
  <2>1. PICK f \in {"all", "ready", "progressing"} : svcPage' = ScaleCard(svcPage, [svcPage EXCEPT !.filter = f])
    BY <1>6 DEF FilterServices
  <2> DEFINE p == [svcPage EXCEPT !.filter = f]
  <2>2. p \in SvcState /\ p.card = svcPage.card /\ p.busy = svcPage.busy /\ p.reqs = svcPage.reqs /\ p.version = svcPage.version
        /\ p.items = svcPage.items /\ p.sel = svcPage.sel
    BY <1>a DEF SvcState
  <2> HIDE DEF p
  <2>3. svcPage' = ScaleCard(svcPage, p)
    BY <2>1 DEF p
  <2> QED BY <1>b, <2>2, <2>3, RenderInv DEF SvcInv, SvcListInv
<1>7. CASE ScaleInput
  <2>1. PICK c \in Counts \cup {0} : svcPage' = [svcPage EXCEPT !.card = [of |-> OpenRow(svcPage), count |-> c]]
    BY <1>7 DEF ScaleInput
  <2> DEFINE card == [of |-> OpenRow(svcPage), count |-> c]
  <2>2. OpenRow(svcPage) # None /\ OpenRow(svcPage) \in SvcNames
    BY <1>7 DEF ScaleInput, SvcInv, CardIsTheRows, OpenRow, SvcVisible, SvcNames
  <2>3. card \in [of : SvcNames, count : AnyCount] /\ card.of = OpenRow(svcPage)
    BY <2>2 DEF AnyCount
  <2> HIDE DEF card
  <2>4. svcPage' = [svcPage EXCEPT !.card = card]
    BY <2>1 DEF card
  <2>5. svcPage' \in SvcState /\ svcPage'.busy = svcPage.busy /\ svcPage'.reqs = svcPage.reqs
        /\ svcPage'.items = svcPage.items /\ svcPage'.version = svcPage.version /\ svcPage'.sel = svcPage.sel
        /\ svcPage'.view = svcPage.view /\ svcPage'.filter = svcPage.filter /\ svcPage'.card = card
    BY <1>a, <2>3, <2>4 DEF SvcState
  <2>6. OpenRow(svcPage') = OpenRow(svcPage)
    BY <2>5, SameOpenRow
  <2>7. SvcTypes'
    BY <1>b, <2>5 DEF SvcTypes, SvcInv
  <2>8. SvcListInv'
    BY <1>b, <2>5 DEF SvcListInv, SvcInv, SvcAnswer
  <2>9. CardIsTheRows' /\ ScaleEditsKept
    BY <2>2, <2>3, <2>5, <2>6 DEF CardIsTheRows, ScaleEditsKept
  <2>10. SameScales /\ SvcAddressed'
    BY <2>5 DEF SameScales, SvcAddressed, SvcInv
  <2> QED BY <2>7, <2>8, <2>9, <2>10, SameScalesInv DEF SvcInv
<1>8. CASE HandleApply
  <2> DEFINE row == OpenRow(svcPage)
             new == [SvcRequest("patch", row, "get") EXCEPT !.count = svcPage.card.count, !.of = svcPage.card.of]
  <2>1. svcPage.card # None /\ ~svcPage.busy /\ svcPage.card.count \in Counts
        /\ svcPage' = [svcPage EXCEPT !.busy = TRUE, !.reqs = @ \cup {new}]
    BY <1>8 DEF HandleApply, ScaleValueValid
  <2>2. row \in Services /\ svcPage.card.of = row
    BY <2>1 DEF SvcInv, CardIsTheRows, OpenRow, SvcVisible
  <2>3. SvcRequest("patch", row, "get") \in SvcRequestType
    BY <2>2, SvcRequestIs DEF SvcNames
  <2>4. new \in SvcRequestType /\ new.kind = "patch" /\ new.name = row /\ new.of = row /\ new.pc = "get"
    BY <2>1, <2>2, <2>3 DEF SvcRequestType, SvcRequest, AnyCount, SvcNames
  <2> HIDE DEF new, row
  <2>5. svcPage' \in SvcState /\ SameScale(svcPage, svcPage') /\ svcPage'.busy = TRUE /\ svcPage'.reqs = svcPage.reqs \cup {new}
    BY <1>a, <2>1, <2>4 DEF SvcState, SameScale
  <2>6. SvcTypes' /\ Untouched
    BY <1>b, <2>4, <2>5, SvcStillHere DEF SvcTypes, SvcInv, Untouched
  <2>7. \A s \in svcPage.reqs : s.kind # "patch"
    BY <2>1 DEF SvcInv, ScaleBusyIsTrue
  <2>8. OneScale' /\ ScaleBusyIsTrue' /\ ScaleIsTheRows' /\ SvcAddressed'
    BY <2>2, <2>4, <2>5, <2>7 DEF SvcInv, OneScale, ScaleBusyIsTrue, ScaleIsTheRows, SvcAddressed
  <2> QED BY <2>6, <2>8, UntouchedInv DEF SvcInv
<1>9. CASE ConfirmServiceDelete
  <2> DEFINE new == SvcRequest("del", svcPage.pendingDelete, "call")
  <2>1. svcPage.pendingDelete \in Services
    BY <1>a, <1>9 DEF ConfirmServiceDelete, SvcState, SvcNames
  <2>2. new \in SvcRequestType /\ new.kind = "del" /\ new.name \in Services /\ new.pc = "call"
    BY <2>1, SvcRequestIs DEF SvcNames
  <2> HIDE DEF new
  <2>3. svcPage' = [svcPage EXCEPT !.pendingDelete = None, !.reqs = @ \cup {new}]
    BY <1>9 DEF ConfirmServiceDelete, new
  <2>4. svcPage' \in SvcState /\ SameScale(svcPage, svcPage') /\ svcPage'.busy = svcPage.busy /\ svcPage'.reqs = svcPage.reqs \cup {new}
    BY <1>a, <2>2, <2>3 DEF SvcState, SameScale, SvcNames
  <2> QED BY <1>b, <2>2, <2>4, QuietInv
<1>10. CASE SubmitDeploy
  <2>1. PICK n \in Services : svcPage' = [svcPage EXCEPT !.deploying = TRUE, !.reqs = @ \cup {SvcRequest("create", n, "check")}]
    BY <1>10 DEF SubmitDeploy
  <2> DEFINE new == SvcRequest("create", n, "check")
  <2>2. new \in SvcRequestType /\ new.kind = "create" /\ new.name \in Services /\ new.pc = "check"
    BY SvcRequestIs DEF SvcNames
  <2> HIDE DEF new
  <2>3. svcPage' \in SvcState /\ SameScale(svcPage, svcPage') /\ svcPage'.busy = svcPage.busy /\ svcPage'.reqs = svcPage.reqs \cup {new}
    BY <1>a, <2>1, <2>2 DEF SvcState, SameScale, SvcNames, new
  <2> QED BY <1>b, <2>2, <2>3, QuietInv
<1> QED BY <1>1, <1>2, <1>3, <1>4, <1>5, <1>6, <1>7, <1>8, <1>9, <1>10 DEF SvcUser

LEMMA SvcServedInv ==
  ASSUME SvcInv, NEW r \in svcPage.reqs, SvcServed(r)
  PROVE  SvcInv' /\ ScaleEditsKept
<1> USE DEF Elsewhere
<1>a. svcPage \in SvcState /\ r \in SvcRequestType /\ svcs \in [Services -> Service \cup {None}] /\ svcVersion \in Nat
  BY DEF SvcInv, SvcTypes, SvcState
<1>b. r.kind # "list" => r.name \in Services
  BY DEF SvcInv, SvcAddressed
<1>c. ASSUME UNCHANGED <<svcs, svcVersion>>, r.kind # "list", NEW ok \in BOOLEAN, SvcAnswered(r, ok) PROVE SvcInv' /\ ScaleEditsKept
  BY <1>c, SvcStillHere, SvcAnsweredIs
<1>d. ASSUME r.kind # "list", NEW ok \in BOOLEAN, SvcAnswered(r, ok), NEW e \in Service \cup {None}, ChangeService(r.name, e),
             e # None => e.uid = svcVersion + 1 \/ (svcs[r.name] # None /\ e.uid = svcs[r.name].uid)
      PROVE  SvcInv' /\ ScaleEditsKept
  <2>1. svcVersion' = svcVersion + 1 /\ SvcUids' /\ svcs' \in [Services -> Service \cup {None}]
    BY <1>b, <1>d, ChangeServiceIs
  <2> QED BY <1>d, <2>1, SvcAnsweredIs
<1> DEFINE gone == [svcPage EXCEPT !.reqs = @ \ {r}]
<1>e. gone \in SvcState /\ SameScale(svcPage, gone) /\ gone.busy = svcPage.busy /\ gone.reqs = svcPage.reqs \ {r}
  BY <1>a DEF SvcState, SameScale
<1>f. SvcRequest("list", None, "sent").kind = "list" /\ SvcRequest("list", None, "sent").pc = "sent"
  BY DEF SvcRequest
<1>1. CASE ServicesAnswered(r)
  <2> DEFINE list == [n \in Services |-> ProjectService(svcs[n])]
  <2>1. PICK failed \in BOOLEAN :
          svcPage' = [svcPage EXCEPT !.reqs = (@ \ {r}) \cup
                        {[r EXCEPT !.pc = "done", !.at = svcVersion, !.ok = ~failed, !.ans = IF failed THEN None ELSE list]}]
    BY <1>1, Zenon DEF ServicesAnswered
  <2> DEFINE new == [r EXCEPT !.pc = "done", !.at = svcVersion, !.ok = ~failed, !.ans = IF failed THEN None ELSE list]
  <2>2. list \in SvcListing /\ \A n \in Services : list[n] # None => list[n].uid <= svcVersion
    BY <1>a DEF SvcListing, ProjectService, Service, AnyCount, SvcInv, SvcListInv
  <2> HIDE DEF list
  <2>3. new \in SvcRequestType /\ new.kind = r.kind /\ new.name = r.name /\ new.of = r.of /\ new.at = svcVersion
        /\ new.ok = ~failed /\ (new.ok => new.ans = list)
    BY <1>a, <2>2 DEF SvcRequestType
  <2> HIDE DEF new
  <2>4. SvcReplaced(r, new) /\ UNCHANGED <<svcs, svcVersion>> /\ r.kind = "list"
    BY <1>1, <2>1 DEF SvcReplaced, new, ServicesAnswered
  <2>5. /\ svcPage' \in SvcState /\ SameScale(svcPage, svcPage') /\ svcPage'.reqs = (svcPage.reqs \ {r}) \cup {new}
        /\ OneScale' /\ ScaleBusyIsTrue' /\ ScaleIsTheRows' /\ SvcAddressed'
    BY <2>3, <2>4, SvcReplacedIs
  <2>6. SvcTypes'
    BY <2>4, <2>5 DEF SvcTypes, SvcInv
  <2>7. ASSUME NEW s \in svcPage'.reqs PROVE SvcAnswer(s)'
    <3>1. CASE s = new
      BY <1>a, <2>2, <2>3, <2>4, <3>1 DEF SvcAnswer
    <3>2. CASE s # new
      BY <2>4, <2>5, <3>2 DEF SvcAnswer, SvcInv, SvcListInv
    <3> QED BY <3>1, <3>2
  <2>8. SvcListInv'
    BY <2>4, <2>5, <2>7 DEF SvcListInv, SvcInv, SameScale
  <2>9. CardIsTheRows' /\ ScaleEditsKept
    BY <2>5, SameOpenRow DEF CardIsTheRows, ScaleEditsKept, SvcInv, SameScale
  <2> QED BY <2>5, <2>6, <2>8, <2>9 DEF SvcInv
<1>2. CASE ServicesArrive(r)
  <2> DEFINE p == ShowServices(gone, r)
  <2>1. svcPage' = ScaleCard(svcPage, p) /\ UNCHANGED <<svcs, svcVersion>> /\ r.kind = "list" /\ r.pc = "done"
    BY <1>2 DEF ServicesArrive
  <2> HIDE DEF gone
  <2>2. /\ p \in SvcState /\ p.card = svcPage.card /\ p.busy = svcPage.busy /\ p.reqs = svcPage.reqs \ {r}
        /\ p.version <= svcVersion /\ (p.sel # None => p.items[p.sel] # None)
    <3>1. CASE r.ok
      <4>1. r.ans \in SvcListing /\ r.at \in Nat /\ r.at <= svcVersion /\ \A n \in Services : r.ans[n] # None => r.ans[n].uid <= r.at
        BY <1>a, <2>1, <3>1 DEF SvcInv, SvcListInv, SvcAnswer, SvcRequestType
      <4>2. /\ KeepSelection(gone, r.ans) \in SvcNames
            /\ KeepSelection(gone, r.ans) # None => r.ans[KeepSelection(gone, r.ans)] # None
        BY <1>e, <4>1, KeepSelectionType
      <4>3. p = [gone EXCEPT !.items = r.ans, !.version = r.at, !.view = "list",
                             !.sel = KeepSelection(gone, r.ans), !.selectAfterLoad = None]
        BY <3>1 DEF ShowServices
      <4> HIDE DEF p
      <4>4. p \in SvcState
        BY <1>e, <4>1, <4>2, <4>3 DEF SvcState, SvcNames
      <4>5. p.items = r.ans /\ p.version = r.at /\ p.sel = KeepSelection(gone, r.ans) /\ p.card = gone.card
            /\ p.busy = gone.busy /\ p.reqs = gone.reqs
        BY <1>e, <4>3 DEF SvcState
      <4> QED BY <1>e, <4>1, <4>2, <4>4, <4>5 DEF SameScale
    <3>2. CASE ~r.ok
      <4>1. p = [gone EXCEPT !.view = "error"]
        BY <3>2 DEF ShowServices
      <4> HIDE DEF p
      <4> QED BY <1>e, <4>1 DEF SvcState, SameScale, SvcInv, SvcListInv
    <3> QED BY <3>1, <3>2
  <2> HIDE DEF p
  <2> QED BY <2>1, <2>2, RenderInv
<1>3. CASE PatchResolves(r)
  BY <1>3, <1>c, SvcGoesIs DEF PatchResolves
<1>4. CASE PatchOverrides(r)
  <2> DEFINE e == [svcs[r.name] EXCEPT !.override = r.count]
  <2>0. r.name \in Services /\ r.kind # "list"
    BY <1>4, <1>b DEF PatchOverrides
  <2>1. svcs[r.name] # None => e \in Service /\ e.uid = svcs[r.name].uid
    <3>1. svcs[r.name] # None => svcs[r.name] \in Service
      BY <1>a, <2>0
    <3> QED BY <1>a, <3>1 DEF Service, SvcRequestType
  <2>2. \/ SvcAnswered(r, FALSE) /\ UNCHANGED <<svcs, svcVersion>>
        \/ svcs[r.name] # None /\ SvcAnswered(r, TRUE) /\ ChangeService(r.name, e)
    BY <1>4 DEF PatchOverrides
  <2> HIDE DEF e
  <2> QED BY <1>c, <1>d, <2>0, <2>1, <2>2
<1>5. CASE ApplyLands(r)
  <2> DEFINE p == Settled(gone, r.ok)
  <2>1. svcPage' = (IF r.ok THEN LoadServices(p) ELSE p) /\ UNCHANGED <<svcs, svcVersion>> /\ r.kind = "patch"
    BY <1>5 DEF ApplyLands
  <2> HIDE DEF gone
  <2>2. p \in SvcState /\ SameScale(svcPage, p) /\ p.busy = FALSE /\ p.reqs = svcPage.reqs \ {r}
    BY <1>e DEF Settled, SvcState, SameScale
  <2> HIDE DEF p
  <2>3. svcPage' \in SvcState /\ SameScale(svcPage, svcPage') /\ svcPage'.busy = FALSE
        /\ svcPage'.reqs \in {p.reqs, p.reqs \cup {SvcRequest("list", None, "sent")}}
    BY <2>1, <2>2, LoadServicesIs DEF SameScale
  <2>4. SvcTypes' /\ Untouched
    BY <1>f, <2>1, <2>2, <2>3, SvcStillHere DEF SvcTypes, SvcInv, Untouched
  <2>5. \A s \in svcPage'.reqs : s.kind # "patch"
    BY <1>f, <2>1, <2>2, <2>3 DEF SvcInv, OneScale
  <2>6. OneScale' /\ ScaleBusyIsTrue' /\ ScaleIsTheRows'
    BY <2>3, <2>5 DEF OneScale, ScaleBusyIsTrue, ScaleIsTheRows
  <2>7. SvcAddressed'
    BY <1>f, <2>2, <2>3 DEF SvcInv, SvcAddressed
  <2> QED BY <2>4, <2>6, <2>7, UntouchedInv DEF SvcInv
<1>6. CASE DeleteService(r)
  BY <1>6, <1>b, <1>c, <1>d DEF DeleteService
<1>7. CASE ServiceDeleteLands(r)
  <2>1. svcPage' = (IF r.ok THEN LoadServices(gone) ELSE gone) /\ UNCHANGED <<svcs, svcVersion>> /\ r.kind = "del"
    BY <1>7 DEF ServiceDeleteLands
  <2> HIDE DEF gone
  <2>2. svcPage' \in SvcState /\ SameScale(svcPage, svcPage') /\ svcPage'.busy = svcPage.busy
        /\ svcPage'.reqs \in {gone.reqs, gone.reqs \cup {SvcRequest("list", None, "sent")}}
    BY <1>e, <2>1, LoadServicesIs DEF SameScale
  <2> QED BY <1>e, <1>f, <2>1, <2>2, QuietInv
<1>8. CASE PostLists(r)
  BY <1>8, <1>c, SvcGoesIs DEF PostLists
<1>9. CASE PostService(r)
  <2>1. NewService(TRUE) \in Service /\ NewService(TRUE).uid = svcVersion + 1
    BY <1>a DEF NewService, Service, AnyCount, SvcPhases
  <2> QED BY <1>9, <1>b, <1>c, <1>d, <2>1 DEF PostService
<1>10. CASE DeployLands(r)
  <2> DEFINE p == [svcPage EXCEPT !.reqs = @ \ {r}, !.deploying = FALSE]
             q == [LoadServices(p) EXCEPT !.selectAfterLoad = r.name, !.wizard = FALSE]
  <2>1. p \in SvcState /\ SameScale(svcPage, p) /\ p.busy = svcPage.busy /\ p.reqs = svcPage.reqs \ {r}
    BY <1>a DEF SvcState, SameScale
  <2>2. svcPage' = (IF r.ok THEN q ELSE p) /\ UNCHANGED <<svcs, svcVersion>> /\ r.kind = "create"
    BY <1>10 DEF DeployLands
  <2> HIDE DEF p
  <2>3. LoadServices(p) \in SvcState /\ SameScale(p, LoadServices(p)) /\ LoadServices(p).busy = p.busy
        /\ LoadServices(p).reqs = p.reqs \cup {SvcRequest("list", None, "sent")}
    BY <2>1, LoadServicesIs
  <2>4. q \in SvcState /\ SameScale(LoadServices(p), q) /\ q.busy = LoadServices(p).busy /\ q.reqs = LoadServices(p).reqs
    BY <1>a, <2>3 DEF SvcState, SvcRequestType, SameScale
  <2> HIDE DEF q
  <2>5. svcPage' \in SvcState /\ SameScale(svcPage, svcPage') /\ svcPage'.busy = svcPage.busy
        /\ svcPage'.reqs \in {p.reqs, p.reqs \cup {SvcRequest("list", None, "sent")}}
    BY <2>1, <2>2, <2>3, <2>4 DEF SameScale
  <2> QED BY <1>f, <2>1, <2>2, <2>5, QuietInv
<1> QED BY <1>1, <1>2, <1>3, <1>4, <1>5, <1>6, <1>7, <1>8, <1>9, <1>10 DEF SvcServed

LEMMA SvcWorldInv ==
  ASSUME SvcInv, PhaseSettles \/ OthersDeploy \/ OthersScale \/ OthersRemove
  PROVE  SvcInv' /\ ScaleEditsKept
<1> USE DEF SvcInv, SvcTypes
<1>1. svcPage' = svcPage
  BY DEF PhaseSettles, OthersDeploy, OthersScale, OthersRemove
<1>2. ASSUME NEW n \in Services, NEW e \in Service \cup {None}, ChangeService(n, e),
             e # None => e.uid = svcVersion + 1 \/ (svcs[n] # None /\ e.uid = svcs[n].uid)
      PROVE  SvcInv' /\ ScaleEditsKept
  <2>1. svcVersion' = svcVersion + 1 /\ SvcUids' /\ svcs' \in [Services -> Service \cup {None}]
    BY <1>2, ChangeServiceIs
  <2>2. SvcTypes'
    BY <1>1, <2>1
  <2>3. Untouched
    BY <1>1, <2>1 DEF Untouched, SameScale
  <2>4. SameScales /\ SvcAddressed'
    BY <1>1 DEF SameScales, SvcAddressed
  <2> QED BY <2>2, <2>3, <2>4, UntouchedInv, SameScalesInv
<1>3. CASE PhaseSettles
  <2>1. PICK n \in Services, phase \in {"Ready", "Failed"} : svcs[n] # None /\ ChangeService(n, [svcs[n] EXCEPT !.phase = phase])
    BY <1>3 DEF PhaseSettles
  <2>2. [svcs[n] EXCEPT !.phase = phase] \in Service /\ [svcs[n] EXCEPT !.phase = phase].uid = svcs[n].uid
    BY <2>1 DEF Service, SvcPhases
  <2> QED BY <1>2, <2>1, <2>2
<1>4. CASE OthersDeploy
  <2>1. PICK n \in Services, mapped \in BOOLEAN : ChangeService(n, NewService(mapped))
    BY <1>4, Zenon DEF OthersDeploy
  <2>2. NewService(mapped) \in Service /\ NewService(mapped).uid = svcVersion + 1
    BY DEF NewService, Service, AnyCount, SvcPhases
  <2> QED BY <1>2, <2>1, <2>2
<1>5. CASE OthersScale
  <2>1. PICK n \in Services, c \in Counts : svcs[n] # None /\ ChangeService(n, [svcs[n] EXCEPT !.mapped = TRUE, !.override = c])
    BY <1>5 DEF OthersScale
  <2> DEFINE e == [svcs[n] EXCEPT !.mapped = TRUE, !.override = c]
  <2>2. svcs[n] \in Service
    BY <2>1
  <2>3. e \in Service /\ e.uid = svcs[n].uid
    BY <2>2 DEF Service, AnyCount
  <2> HIDE DEF e
  <2>4. ChangeService(n, e)
    BY <2>1 DEF e
  <2> QED BY <1>2, <2>1, <2>3, <2>4
<1>6. CASE OthersRemove
  BY <1>2, <1>6 DEF OthersRemove
<1> QED BY <1>3, <1>4, <1>5, <1>6

LEMMA SvcInitInv ==
  ASSUME Init
  PROVE  SvcInv
<1> DEFINE Hidden == [SvcOpening EXCEPT !.hidden = TRUE]
<1>1. SvcOpening \in SvcState /\ Hidden \in SvcState
  BY DEF SvcOpening, SvcState, SvcListing, SvcNames
<1>2. /\ SvcOpening.reqs = {} /\ SvcOpening.version = 0 /\ SvcOpening.sel = None /\ SvcOpening.card = None /\ SvcOpening.busy = FALSE
      /\ Hidden.reqs = {} /\ Hidden.version = 0 /\ Hidden.sel = None /\ Hidden.card = None /\ Hidden.busy = FALSE
  BY DEF SvcOpening
<1> HIDE DEF Hidden
<1>3. svcs = [n \in Services |-> None] /\ svcVersion = 0 /\ (svcPage = LoadServices(SvcOpening) \/ svcPage = Hidden)
  BY DEF Init, SvcInit, SvcAtRest, Hidden
<1>4. /\ svcPage \in SvcState /\ svcPage.reqs \subseteq {SvcRequest("list", None, "sent")} /\ svcPage.version = 0
      /\ svcPage.sel = None /\ svcPage.card = None /\ svcPage.busy = FALSE
  BY <1>1, <1>2, <1>3, LoadServicesIs DEF SameScale
<1>5. \A r \in svcPage.reqs : r.kind = "list" /\ r.pc = "sent"
  BY <1>4 DEF SvcRequest
<1>6. SvcTypes /\ SvcListInv
  BY <1>3, <1>4, <1>5 DEF SvcTypes, SvcListInv, SvcAnswer
<1> QED BY <1>4, <1>5, <1>6 DEF SvcInv, SvcAddressed, CardIsTheRows, OneScale, ScaleBusyIsTrue, ScaleIsTheRows

(* The scale card is sound through polls, changes of row and late answers:
   Apply is held exactly while a scale is under way, a scale carries what was
   typed for its own service, and a list that tells nothing new keeps the edits. *)
THEOREM ScaleCardIsSound == Spec => ScalingIsSound
<1>1. Init => SvcInv
  BY SvcInitInv
<1>2. ASSUME SvcInv, [Next]_<<pageVars, svcVars, taskVars>>
      PROVE  SvcInv' /\ [ScaleEditsKept]_svcVars
  <2>1. CASE SvcNext
    <3>1. CASE PollServices
      <4>1. svcPage \in SvcState /\ svcPage' = LoadServices(svcPage) /\ UNCHANGED <<svcs, svcVersion>>
        BY <1>2, <3>1 DEF PollServices, Elsewhere, SvcInv, SvcTypes
      <4>2. svcPage' \in SvcState /\ SameScale(svcPage, svcPage') /\ svcPage'.busy = svcPage.busy
            /\ svcPage'.reqs = svcPage.reqs \cup {SvcRequest("list", None, "sent")}
        BY <4>1, LoadServicesIs
      <4>3. SvcRequest("list", None, "sent").kind = "list" /\ SvcRequest("list", None, "sent").pc = "sent"
        BY DEF SvcRequest
      <4> QED BY <1>2, <4>1, <4>2, <4>3, QuietInv
    <3> QED BY <1>2, <2>1, <3>1, SvcUserInv, SvcServedInv, SvcWorldInv DEF SvcNext, SvcSteps
  <2>2. CASE UNCHANGED svcVars
    BY <1>2, <2>2 DEF svcVars, SvcInv, SvcTypes, SvcAddressed, SvcListInv, SvcAnswer, CardIsTheRows, OneScale,
                      ScaleBusyIsTrue, ScaleIsTheRows, OpenRow, SvcVisible
  <2> QED BY <1>2, <2>1, <2>2 DEF Next
<1>3. SvcInv => ServiceTypeOK /\ ScaleBusyIsTrue /\ ScaleIsTheRows
  <2> SUFFICES ASSUME SvcInv PROVE ServiceTypeOK /\ ScaleBusyIsTrue /\ ScaleIsTheRows
    OBVIOUS
  <2>1. svcPage.view \in {"loading", "list", "error"} /\ svcPage.version \in Nat /\ svcVersion \in Nat
    BY DEF SvcInv, SvcTypes, SvcState
  <2>2. svcPage.version <= svcVersion /\ (svcPage.sel # None => svcPage.items[svcPage.sel] # None)
        /\ (svcPage.card # None => OpenRow(svcPage) # None)
    BY DEF SvcInv, SvcListInv, CardIsTheRows
  <2> QED BY <2>1, <2>2 DEF ServiceTypeOK, SvcInv
<1>4. ASSUME SvcInv, SvcInv', [Next]_<<pageVars, svcVars, taskVars>>
      PROVE  [ServiceTypeOK' /\ ScaleBusyIsTrue' /\ ScaleIsTheRows' /\ ScaleEditsKept]_svcVars
  <2>1. ServiceTypeOK' /\ ScaleBusyIsTrue' /\ ScaleIsTheRows'
    BY <1>3, <1>4, PTL
  <2> QED BY <1>2, <1>4, <2>1
<1> QED BY <1>1, <1>2, <1>4, PTL DEF Spec, ScalingIsSound

-----------------------------------------------------------------------------
(* The tasks tab *)

-----------------------------------------------------------------------------
(* The inductive invariant, in parts *)

\* The fields that are read and written.
CrShape(cr) == {"enabled", "owner"} \subseteq DOMAIN cr
RequestShape(r) == {"kind", "task", "pc", "ok", "ans", "target", "follow", "form"} \subseteq DOMAIN r
TabShape(p) ==
  {"tasks", "templates", "sel", "reports", "index", "running", "dialog", "form", "edits", "reqs"} \subseteq DOMAIN p
FormShape(f) == {"name", "prompt", "cron", "templateRef", "params", "trigger"} \subseteq DOMAIN f

ClusterShape ==
  /\ DOMAIN crs = TaskIds /\ \A t \in TaskIds : crs[t] # None => CrShape(crs[t])
  /\ DOMAIN presses = TaskIds /\ \A t \in TaskIds : {"asked", "took"} \subseteq DOMAIN presses[t]

\* Templates of which no two have the same name.
Distinct(s) == s \subseteq Templates /\ \A x, y \in s : x.name = y.name => x = y

\* The form holds values for parameters of its template, and of no other.
FormFits(f, templates) ==
  f.templateRef # None => \E x \in templates : x.name = f.templateRef /\ DOMAIN f.params \subseteq DOMAIN x.schema

\* What is sent by Create: the form, and the template it was shown with.
Sent(c) == c.template # None => c.template \in Templates /\ DOMAIN c.form.params \subseteq DOMAIN c.template.schema

\* What a request under way says is what somebody asked for, and what it will
\* create is what was confirmed; the templates are read once, before any is chosen.
RequestOK(r) ==
  /\ RequestShape(r)
  /\ r.kind = "toggle" => r.task \in TaskIds /\ r.target \in presses[r.task].asked
  /\ r.kind = "templates" => /\ tab.templates = {} /\ tab.form.templateRef = None
                             /\ r.pc = "done" /\ r.ok => Distinct(r.ans)
  /\ r.kind = "create" /\ r.pc = "sent" => Sent(r.form)
  /\ r.kind = "create" /\ r.pc = "write" => CrShape(r.ans) /\ AsConfirmed(r.ans, r.form)

OneTemplatesRead == \A r, s \in tab.reqs : r.kind = "templates" /\ s.kind = "templates" => r = s

\* A task that took a state somebody asked for has one of those.
HasAsked == \A t \in TaskIds : crs[t] # None /\ presses[t].took => crs[t].enabled \in presses[t].asked

TasksInv ==
  /\ ClusterShape /\ HasAsked /\ Distinct(tpls)
  /\ TabShape(tab) /\ FormShape(tab.form) /\ Distinct(tab.templates) /\ FormFits(tab.form, tab.templates)
  /\ \A r \in tab.reqs : RequestOK(r)
  /\ OneTemplatesRead

-----------------------------------------------------------------------------
(* The operators *)

LEMMA TaskRequestIs ==
  ASSUME NEW k, NEW t, NEW pc
  PROVE  LET r == TaskRequest(k, t, pc)
         IN  RequestShape(r) /\ r.kind = k /\ r.task = t /\ r.pc = pc
BY DEF TaskRequest, RequestShape

\* The part of the tab the invariant is about.
SameForm(p, q) == TabShape(q) /\ q.templates = p.templates /\ q.form = p.form

LEMMA SendIs ==
  ASSUME NEW p, TabShape(p), NEW r
  PROVE  SameForm(p, Send(p, r)) /\ Send(p, r).reqs = p.reqs \cup {r}
BY DEF Send, TabShape, SameForm

LEMMA BecameIs ==
  ASSUME TabShape(tab), NEW r, NEW new
  PROVE  SameForm(tab, Became(r, new)) /\ Became(r, new).reqs = (tab.reqs \ {r}) \cup {new}
BY DEF Became, TabShape, SameForm

LEMMA GoneIs ==
  ASSUME TabShape(tab), NEW r
  PROVE  SameForm(tab, Gone(r)) /\ Gone(r).reqs = tab.reqs \ {r}
BY DEF Gone, TabShape, SameForm

\* A request that asks for nothing the invariant is about.
Plain(r) == RequestShape(r) /\ r.kind \notin {"toggle", "templates", "create"}

LEMMA LoadTasksIs ==
  ASSUME NEW p, TabShape(p), NEW then
  PROVE  SameForm(p, LoadTasks(p, then)) /\ \E new : Plain(new) /\ LoadTasks(p, then).reqs = p.reqs \cup {new}
<1> DEFINE new == TaskRequest("tasks", then, "sent")
<1>1. Plain(new)
  BY TaskRequestIs DEF Plain
<1> QED BY <1>1, SendIs DEF LoadTasks

LEMMA LoadReportsIs ==
  ASSUME NEW p, TabShape(p), NEW t, NEW follow
  PROVE  SameForm(p, LoadReports(p, t, follow)) /\ \E new : Plain(new) /\ LoadReports(p, t, follow).reqs = p.reqs \cup {new}
<1> DEFINE new == [TaskRequest("reports", t, "sent") EXCEPT !.follow = follow]
<1>1. Plain(new)
  BY DEF Plain, TaskRequest, RequestShape
<1> HIDE DEF new
<1>2. LoadReports(p, t, follow) = Send(p, new)
  BY DEF LoadReports, new
<1> QED BY <1>1, <1>2, SendIs

LEMMA SelectTaskIs ==
  ASSUME NEW p, TabShape(p), NEW t
  PROVE  SameForm(p, SelectTask(p, t)) /\ \E new : Plain(new) /\ SelectTask(p, t).reqs = p.reqs \cup {new}
<1> DEFINE q == [p EXCEPT !.sel = t]
<1>1. SameForm(p, q) /\ q.reqs = p.reqs
  BY DEF TabShape, SameForm
<1>2. SelectTask(p, t) = LoadReports(q, t, FALSE)
  BY DEF SelectTask
<1> HIDE DEF q
<1>3. TabShape(q)
  BY <1>1 DEF SameForm
<1>4. SameForm(q, SelectTask(p, t)) /\ \E new : Plain(new) /\ SelectTask(p, t).reqs = q.reqs \cup {new}
  <2>1. SameForm(q, LoadReports(q, t, FALSE)) /\ \E new : Plain(new) /\ LoadReports(q, t, FALSE).reqs = q.reqs \cup {new}
    BY <1>3, LoadReportsIs
  <2> QED BY <1>2, <2>1, Zenon
<1>5. SameForm(p, SelectTask(p, t))
  BY <1>1, <1>4 DEF SameForm
<1> QED BY <1>1, <1>4, <1>5

-----------------------------------------------------------------------------
(* What a step does *)

\* The tab goes on with the requests it had, and such as ask for nothing special.
TabGoesOn ==
  /\ SameForm(tab, tab')
  /\ \A r \in tab'.reqs : r \in tab.reqs \/ Plain(r)

LEMMA PlainIsOK ==
  ASSUME NEW r, Plain(r)
  PROVE  RequestOK(r) /\ RequestOK(r)'
BY DEF Plain, RequestOK

LEMMA GoesOnInv ==
  ASSUME TasksInv, UNCHANGED <<crs, presses, tpls>>, TabGoesOn
  PROVE  TasksInv'
<1> USE DEF TasksInv, TabGoesOn, SameForm
<1>1. ASSUME NEW r \in tab'.reqs PROVE RequestOK(r)'
  <2>1. CASE r \in tab.reqs
    BY <2>1 DEF RequestOK
  <2> QED BY <2>1, PlainIsOK
<1>2. OneTemplatesRead'
  BY DEF OneTemplatesRead, Plain
<1> QED BY <1>1, <1>2 DEF ClusterShape, HasAsked

\* One request becomes another of its kind.
LEMMA BecameInv ==
  ASSUME TasksInv, UNCHANGED <<crs, presses, tpls>>, NEW r \in tab.reqs, NEW new, tab' = Became(r, new),
         new.kind = r.kind, RequestOK(new)
  PROVE  TasksInv'
<1> USE DEF TasksInv
<1>0. SameForm(tab, tab') /\ tab'.reqs = (tab.reqs \ {r}) \cup {new}
  BY BecameIs
<1>1. ASSUME NEW s \in tab'.reqs PROVE RequestOK(s)'
  BY <1>0 DEF RequestOK, SameForm
<1>2. OneTemplatesRead'
  BY <1>0 DEF OneTemplatesRead
<1> QED BY <1>0, <1>1, <1>2 DEF ClusterShape, HasAsked, SameForm

\* The dialog's form changes, to one that fits.
LEMMA FormInv ==
  ASSUME TasksInv, UNCHANGED <<crs, presses, tpls>>, TabShape(tab'), tab'.templates = tab.templates,
         FormShape(tab'.form), FormFits(tab'.form, tab.templates),
         \A r \in tab'.reqs : r \in tab.reqs \/ Plain(r)
  PROVE  TasksInv'
<1> USE DEF TasksInv
<1>1. tab.templates = {} => tab'.form.templateRef = None
  BY DEF FormFits
<1>2. ASSUME NEW r \in tab'.reqs PROVE RequestOK(r)'
  <2>1. CASE r \in tab.reqs
    BY <1>1, <2>1 DEF RequestOK
  <2> QED BY <1>2, <2>1, PlainIsOK
<1>3. OneTemplatesRead'
  BY DEF OneTemplatesRead, Plain
<1> QED BY <1>2, <1>3 DEF ClusterShape, HasAsked

\* The tab is left alone while the cluster moves, and nobody's wish is forgotten.
LEMMA WorldInv ==
  ASSUME TasksInv, tab' = tab, ClusterShape', HasAsked', Distinct(tpls'),
         \A t \in TaskIds : presses[t].asked \subseteq presses'[t].asked
  PROVE  TasksInv'
<1> USE DEF TasksInv
<1>1. ASSUME NEW r \in tab'.reqs PROVE RequestOK(r)'
  BY DEF RequestOK
<1>2. OneTemplatesRead'
  BY DEF OneTemplatesRead
<1> QED BY <1>1, <1>2

-----------------------------------------------------------------------------
(* The list, the reports and the buttons *)

LEMMA ReadsServedInv ==
  ASSUME TasksInv, NEW r \in tab.reqs, ReadsServed(r)
  PROVE  TasksInv'
<1>a. RequestOK(r) /\ RequestShape(r)
  BY DEF TasksInv, RequestOK
<1>1. ASSUME NEW answer, Read(r, answer), r.kind \in {"tasks", "templates", "reports"}, r.kind = "templates" => answer = tpls
      PROVE  TasksInv'
  <2>1. PICK failed : tab' = Became(r, [r EXCEPT !.pc = "done", !.ok = ~failed /\ answer # None, !.ans = IF failed THEN None ELSE answer])
    BY <1>1, Zenon DEF Read
  <2> DEFINE new == [r EXCEPT !.pc = "done", !.ok = ~failed /\ answer # None, !.ans = IF failed THEN None ELSE answer]
  <2>2. new.kind = r.kind /\ RequestShape(new) /\ (new.ok => new.ans = answer)
    BY <1>a DEF RequestShape
  <2> HIDE DEF new
  <2>3. RequestOK(new)
    BY <1>a, <1>1, <2>2 DEF RequestOK, TasksInv
  <2>4. UNCHANGED <<crs, presses, tpls>> /\ tab' = Became(r, new)
    BY <1>1, <2>1 DEF Read, clusterVars, new
  <2> QED BY <2>2, <2>3, <2>4, BecameInv
<1> QED BY <1>1 DEF ReadsServed, TemplateList

LEMMA TasksArriveInv ==
  ASSUME TasksInv, NEW r \in tab.reqs, TasksArrive(r) \/ ReportsArrive(r)
  PROVE  TasksInv'
<1>a. TabShape(tab) /\ UNCHANGED <<crs, presses, tpls>>
  BY DEF TasksInv, TasksArrive, ReportsArrive, clusterVars
<1>g. SameForm(tab, Gone(r)) /\ Gone(r).reqs = tab.reqs \ {r}
  BY <1>a, GoneIs
<1>1. CASE TasksArrive(r)
  <2> DEFINE p == ShowTasks(Gone(r), r)
  <2>1. SameForm(tab, p) /\ p.reqs = tab.reqs \ {r}
    BY <1>g DEF ShowTasks, SameForm, TabShape
  <2>2. tab' = IF r.task = None THEN p ELSE SelectTask(p, r.task)
    BY <1>1 DEF TasksArrive
  <2> HIDE DEF p
  <2>3. CASE r.task = None
    BY <1>a, <2>1, <2>2, <2>3, GoesOnInv DEF TabGoesOn
  <2>4. CASE r.task # None
    <3>1. SameForm(p, tab') /\ \E new : Plain(new) /\ tab'.reqs = p.reqs \cup {new}
      BY <2>1, <2>2, <2>4, SelectTaskIs DEF SameForm
    <3>2. TabGoesOn
      BY <2>1, <3>1 DEF TabGoesOn, SameForm
    <3> QED BY <1>a, <3>2, GoesOnInv
  <2> QED BY <2>3, <2>4
<1>2. CASE ReportsArrive(r)
  <2>1. SameForm(tab, tab') /\ tab'.reqs = tab.reqs \ {r}
    BY <1>2, <1>g DEF ReportsArrive, SameForm, TabShape
  <2> QED BY <1>a, <2>1, GoesOnInv DEF TabGoesOn
<1> QED BY <1>1, <1>2

\* No template was chosen before they were read.
LEMMA TemplatesArriveInv ==
  ASSUME TasksInv, NEW r \in tab.reqs, TemplatesArrive(r)
  PROVE  TasksInv'
<1> USE DEF TasksInv
<1>a. UNCHANGED <<crs, presses, tpls>> /\ r.kind = "templates" /\ r.pc = "done"
  BY DEF TemplatesArrive, clusterVars
<1>g. SameForm(tab, Gone(r)) /\ Gone(r).reqs = tab.reqs \ {r}
  BY GoneIs
<1>1. TabShape(tab') /\ tab'.form = tab.form /\ tab'.reqs = tab.reqs \ {r} /\ tab'.templates = IF r.ok THEN r.ans ELSE tab.templates
  BY <1>g DEF TemplatesArrive, SameForm, TabShape
<1>2. tab.form.templateRef = None /\ Distinct(tab'.templates)
  BY <1>a, <1>1 DEF RequestOK
<1>3. \A s \in tab'.reqs : s \in tab.reqs /\ s.kind # "templates"
  BY <1>a, <1>1 DEF OneTemplatesRead
<1>4. ASSUME NEW s \in tab'.reqs PROVE RequestOK(s)'
  BY <1>a, <1>3 DEF RequestOK
<1>5. OneTemplatesRead' /\ FormFits(tab'.form, tab'.templates)
  BY <1>1, <1>2, <1>3 DEF OneTemplatesRead, FormFits
<1> QED BY <1>a, <1>1, <1>2, <1>4, <1>5 DEF ClusterShape, HasAsked

LEMMA RowsInv ==
  ASSUME TasksInv, PollReports \/ ChooseReport \/ OpenTask \/ DeleteTask \/ RunTaskId
  PROVE  TasksInv'
<1>a. TabShape(tab) /\ UNCHANGED <<crs, presses, tpls>>
  BY DEF TasksInv, PollReports, ChooseReport, OpenTask, DeleteTask, RunTaskId, clusterVars
<1>b. ASSUME NEW new, Plain(new), SameForm(tab, tab'), tab'.reqs = tab.reqs \cup {new} PROVE TasksInv'
  BY <1>a, <1>b, GoesOnInv DEF TabGoesOn
<1>1. CASE PollReports
  BY <1>a, <1>b, <1>1, LoadReportsIs DEF PollReports
<1>2. CASE ChooseReport
  <2>1. PICK i : tab' = [tab EXCEPT !.index = i]
    BY <1>2 DEF ChooseReport
  <2>2. SameForm(tab, tab') /\ tab'.reqs = tab.reqs
    BY <1>a, <2>1 DEF SameForm, TabShape
  <2> QED BY <1>a, <2>2, GoesOnInv DEF TabGoesOn
<1>3. CASE OpenTask
  BY <1>a, <1>b, <1>3, SelectTaskIs DEF OpenTask
<1>4. CASE DeleteTask
  <2>1. PICK t : tab' = Send(tab, TaskRequest("delete", t, "sent"))
    BY <1>4 DEF DeleteTask
  <2>2. Plain(TaskRequest("delete", t, "sent"))
    BY DEF Plain, TaskRequest, RequestShape
  <2> QED BY <1>a, <1>b, <2>1, <2>2, SendIs
<1>5. CASE RunTaskId
  <2>1. PICK t, follow : tab' = [Send(tab, [TaskRequest("run", t, "sent") EXCEPT !.follow = follow]) EXCEPT !.running = TRUE]
    BY <1>5 DEF RunTaskId
  <2> DEFINE new == [TaskRequest("run", t, "sent") EXCEPT !.follow = follow]
  <2>2. Plain(new)
    BY DEF Plain, TaskRequest, RequestShape
  <2> HIDE DEF new
  <2>3. SameForm(tab, Send(tab, new)) /\ Send(tab, new).reqs = tab.reqs \cup {new} /\ tab' = [Send(tab, new) EXCEPT !.running = TRUE]
    BY <1>a, <2>1, SendIs DEF new
  <2>4. SameForm(tab, tab') /\ tab'.reqs = tab.reqs \cup {new}
    BY <2>3 DEF SameForm, TabShape
  <2> QED BY <1>b, <2>2, <2>4
<1> QED BY <1>1, <1>2, <1>3, <1>4, <1>5

LEMMA ToggleTaskInv ==
  ASSUME TasksInv, ToggleTask
  PROVE  TasksInv'
<1> USE DEF TasksInv
<1>1. PICK t \in TaskIds :
        /\ tab' = Send(tab, [TaskRequest("toggle", t, "sent") EXCEPT !.target = ~tab.tasks[t].enabled])
        /\ presses' = [presses EXCEPT ![t].asked = @ \cup {~tab.tasks[t].enabled}]
  BY DEF ToggleTask, Rows
<1> DEFINE s == ~tab.tasks[t].enabled
           new == [TaskRequest("toggle", t, "sent") EXCEPT !.target = s]
<1> HIDE DEF s
<1>2. RequestShape(new) /\ new.kind = "toggle" /\ new.task = t /\ new.target = s
  BY DEF TaskRequest, RequestShape
<1> HIDE DEF new
<1>3. SameForm(tab, tab') /\ tab'.reqs = tab.reqs \cup {new}
  BY <1>1, SendIs DEF new, s
<1>4. presses' = [presses EXCEPT ![t].asked = @ \cup {s}]
  BY <1>1 DEF s
<1>5. /\ DOMAIN presses' = TaskIds /\ \A u \in TaskIds : {"asked", "took"} \subseteq DOMAIN presses'[u]
      /\ \A u \in TaskIds : presses[u].asked \subseteq presses'[u].asked /\ presses'[u].took = presses[u].took
      /\ s \in presses'[t].asked
  BY <1>4 DEF ClusterShape
<1>6. UNCHANGED <<crs, tpls>>
  BY DEF ToggleTask
<1>7. ClusterShape' /\ HasAsked'
  BY <1>5, <1>6 DEF ClusterShape, HasAsked
<1>8. ASSUME NEW r \in tab'.reqs PROVE RequestOK(r)'
  <2>1. CASE r = new
    BY <1>2, <1>5, <2>1 DEF RequestOK
  <2>2. CASE r \in tab.reqs
    BY <1>3, <1>5, <2>2 DEF RequestOK, SameForm
  <2> QED BY <1>3, <2>1, <2>2
<1>9. OneTemplatesRead'
  BY <1>2, <1>3 DEF OneTemplatesRead
<1> QED BY <1>3, <1>6, <1>7, <1>8, <1>9 DEF SameForm

LEMMA ActionChecksInv ==
  ASSUME TasksInv, NEW r \in tab.reqs, ActionChecks(r)
  PROVE  TasksInv'
<1>a. RequestOK(r) /\ RequestShape(r) /\ UNCHANGED <<crs, presses, tpls>> /\ r.kind \in {"toggle", "delete", "run"}
  BY DEF TasksInv, RequestOK, ActionChecks, clusterVars
<1>1. PICK new : /\ tab' = Became(r, new)
                 /\ \/ new = [r EXCEPT !.pc = "done", !.ok = FALSE] \/ new = [r EXCEPT !.pc = "write"]
                    \/ \E pc : new = [r EXCEPT !.pc = pc, !.target = r.target]
  BY Zenon DEF ActionChecks, NextState
<1>2. new.kind = r.kind /\ RequestShape(new) /\ new.task = r.task /\ new.target = r.target
  BY <1>a, <1>1 DEF RequestShape
<1>3. RequestOK(new)
  BY <1>a, <1>2 DEF RequestOK
<1> QED BY <1>a, <1>1, <1>2, <1>3, BecameInv

LEMMA ActionWritesInv ==
  ASSUME TasksInv, NEW r \in tab.reqs, ActionWrites(r)
  PROVE  TasksInv'
<1> USE DEF TasksInv
<1>a. RequestOK(r) /\ RequestShape(r) /\ tpls' = tpls /\ r.kind \in {"toggle", "delete", "run"}
  BY DEF RequestOK, ActionWrites
<1>1. PICK outcome :
        LET took == outcome # "refused" /\ crs[r.task] # None
        IN  /\ tab' = Became(r, [r EXCEPT !.pc = "done", !.ok = took /\ outcome = "done"])
            /\ crs' = IF ~took \/ r.kind = "run" THEN crs
                      ELSE IF r.kind = "delete" THEN [crs EXCEPT ![r.task] = None]
                      ELSE [crs EXCEPT ![r.task].enabled = r.target]
            /\ presses' = IF took /\ r.kind = "toggle" THEN [presses EXCEPT ![r.task].took = TRUE] ELSE presses
  BY Zenon DEF ActionWrites
<1> DEFINE ok == outcome # "refused" /\ crs[r.task] # None /\ outcome = "done"
           new == [r EXCEPT !.pc = "done", !.ok = ok]
<1>2. tab' = Became(r, new)
  BY <1>1
<1> HIDE DEF ok
<1>3. RequestShape(new) /\ new.kind = r.kind /\ new.task = r.task /\ new.target = r.target
  BY <1>a DEF RequestShape
<1> HIDE DEF new
<1>4. SameForm(tab, tab') /\ tab'.reqs = (tab.reqs \ {r}) \cup {new}
  BY <1>2, BecameIs
<1>5. \/ crs' = crs /\ presses' = presses
      \/ crs' = [crs EXCEPT ![r.task] = None] /\ presses' = presses
      \/ /\ r.kind = "toggle" /\ crs[r.task] # None
         /\ crs' = [crs EXCEPT ![r.task].enabled = r.target] /\ presses' = [presses EXCEPT ![r.task].took = TRUE]
  BY <1>a, <1>1
<1>6. ClusterShape' /\ HasAsked' /\ \A t \in TaskIds : presses'[t].asked = presses[t].asked
  <2>1. CASE crs' = crs /\ presses' = presses
    BY <2>1 DEF ClusterShape, HasAsked
  <2>2. CASE crs' = [crs EXCEPT ![r.task] = None] /\ presses' = presses
    BY <2>2 DEF ClusterShape, HasAsked
  <2>3. CASE /\ r.kind = "toggle" /\ crs[r.task] # None
             /\ crs' = [crs EXCEPT ![r.task].enabled = r.target] /\ presses' = [presses EXCEPT ![r.task].took = TRUE]
    <3>1. r.task \in TaskIds /\ r.target \in presses[r.task].asked
      BY <1>a, <2>3 DEF RequestOK
    <3>2. CrShape(crs[r.task]) /\ {"asked", "took"} \subseteq DOMAIN presses[r.task]
      BY <2>3, <3>1 DEF ClusterShape
    <3>3. /\ DOMAIN crs' = TaskIds /\ \A t \in TaskIds : t # r.task => crs'[t] = crs[t]
          /\ CrShape(crs'[r.task]) /\ crs'[r.task].enabled = r.target
      BY <2>3, <3>1, <3>2 DEF ClusterShape, CrShape
    <3>4. /\ DOMAIN presses' = TaskIds /\ \A t \in TaskIds : t # r.task => presses'[t] = presses[t]
          /\ {"asked", "took"} \subseteq DOMAIN presses'[r.task] /\ presses'[r.task].asked = presses[r.task].asked
      BY <2>3, <3>1, <3>2 DEF ClusterShape
    <3>5. ClusterShape'
      BY <3>3, <3>4 DEF ClusterShape
    <3>6. HasAsked'
      BY <3>1, <3>3, <3>4 DEF HasAsked
    <3> QED BY <3>4, <3>5, <3>6
  <2> QED BY <1>5, <2>1, <2>2, <2>3
<1>7. ASSUME NEW s \in tab'.reqs PROVE RequestOK(s)'
  <2>1. CASE s = new
    BY <1>a, <1>3, <1>6, <2>1 DEF RequestOK
  <2>2. CASE s \in tab.reqs
    BY <1>4, <1>6, <2>2 DEF RequestOK, SameForm
  <2> QED BY <1>4, <2>1, <2>2
<1>8. OneTemplatesRead'
  BY <1>a, <1>3, <1>4 DEF OneTemplatesRead
<1> QED BY <1>a, <1>4, <1>6, <1>7, <1>8 DEF SameForm

LEMMA ActionArrivesInv ==
  ASSUME TasksInv, NEW r \in tab.reqs, ActionArrives(r)
  PROVE  TasksInv'
<1>a. TabShape(tab) /\ UNCHANGED <<crs, presses, tpls>>
  BY DEF TasksInv, ActionArrives, clusterVars
<1>g. SameForm(tab, Gone(r)) /\ Gone(r).reqs = tab.reqs \ {r} /\ TabShape(Gone(r))
  BY <1>a, GoneIs DEF SameForm
<1> DEFINE p == [Gone(r) EXCEPT !.sel = None, !.reports = <<>>]
<1>p. SameForm(tab, p) /\ p.reqs = tab.reqs \ {r} /\ TabShape(p)
  BY <1>g DEF SameForm, TabShape
<1> HIDE DEF p
<1>1. \/ \E b : tab' = [Gone(r) EXCEPT !.running = b]
      \/ tab' = LoadTasks(Gone(r), None)
      \/ tab' = LoadTasks(p, None)
      \/ tab' = LoadReports(Gone(r), r.task, TRUE)
  BY Zenon DEF ActionArrives, p
<1>2. CASE \E b : tab' = [Gone(r) EXCEPT !.running = b]
  <2>1. SameForm(tab, tab') /\ tab'.reqs = tab.reqs \ {r}
    BY <1>g, <1>2 DEF SameForm, TabShape
  <2> QED BY <1>a, <2>1, GoesOnInv DEF TabGoesOn
<1>3. ASSUME NEW q, SameForm(tab, q), q.reqs = tab.reqs \ {r}, SameForm(q, tab'), \E new : Plain(new) /\ tab'.reqs = q.reqs \cup {new}
      PROVE  TasksInv'
  <2>1. SameForm(tab, tab')
    BY <1>3 DEF SameForm
  <2> QED BY <1>a, <1>3, <2>1, GoesOnInv DEF TabGoesOn
<1>4. CASE tab' = LoadTasks(Gone(r), None)
  BY <1>3, <1>4, <1>g, LoadTasksIs
<1>5. CASE tab' = LoadTasks(p, None)
  BY <1>3, <1>5, <1>p, LoadTasksIs
<1>6. CASE tab' = LoadReports(Gone(r), r.task, TRUE)
  BY <1>3, <1>6, <1>g, LoadReportsIs
<1> QED BY <1>1, <1>2, <1>4, <1>5, <1>6

-----------------------------------------------------------------------------
(* The create dialog *)

LEMMA NamedIs ==
  ASSUME NEW templates, NEW name, Named(templates, name) # None
  PROVE  Named(templates, name) \in templates /\ Named(templates, name).name = name
<1>1. PICK x \in templates : x.name = name
  BY DEF Named
<1>2. Named(templates, name) = CHOOSE y \in templates : y.name = name
  BY <1>1 DEF Named
<1> QED BY <1>1, <1>2, Zenon

\* The template the dialog shows is the one whose parameters the form holds.
LEMMA ActiveFits ==
  ASSUME TasksInv, ActiveTemplate(tab) # None
  PROVE  LET tpl == ActiveTemplate(tab)
         IN  /\ tpl \in tab.templates /\ tpl \in Templates /\ tpl.name = tab.form.templateRef
             /\ DOMAIN tab.form.params \subseteq DOMAIN tpl.schema
<1> DEFINE tpl == ActiveTemplate(tab)
<1>1. tpl \in tab.templates /\ tpl.name = tab.form.templateRef
  BY NamedIs DEF ActiveTemplate
<1> HIDE DEF tpl
<1>2. tpl \in Templates /\ tab.form.templateRef # None
  BY <1>1, TemplatesAssumption DEF TasksInv, Distinct
<1>3. DOMAIN tab.form.params \subseteq DOMAIN tpl.schema
  BY <1>1, <1>2 DEF TasksInv, FormFits, Distinct
<1> QED BY <1>1, <1>2, <1>3 DEF tpl

LEMMA OnChangeTemplateFits ==
  ASSUME NEW f, FormShape(f), NEW templates, NEW tpl \in templates
  PROVE  FormShape(OnChangeTemplate(f, tpl)) /\ FormFits(OnChangeTemplate(f, tpl), templates)
<1> DEFINE cron == IF tpl.cron # EmptyText THEN tpl.cron ELSE IF f.cron # EmptyText THEN f.cron ELSE "nightly"
           params == DefaultParams(tpl)
           g == [f EXCEPT !.templateRef = tpl.name, !.params = params, !.cron = cron]
<1>1. OnChangeTemplate(f, tpl) = g
  BY DEF OnChangeTemplate
<1>2. DOMAIN params \subseteq DOMAIN tpl.schema
  BY DEF DefaultParams
<1> HIDE DEF cron, params
<1>3. FormShape(g) /\ g.templateRef = tpl.name /\ g.params = params
  BY DEF FormShape
<1> HIDE DEF g
<1>4. FormFits(g, templates)
  BY <1>2, <1>3 DEF FormFits
<1> QED BY <1>1, <1>3, <1>4

LEMMA ResetFormFits ==
  ASSUME NEW templates
  PROVE  FormShape(ResetForm) /\ FormFits(ResetForm, templates) /\ ResetForm.templateRef = None
BY DEF ResetForm, FormShape, FormFits

LEMMA SetParamFits ==
  ASSUME NEW f, FormShape(f), NEW x, NEW value
  PROVE  LET g == SetParam(f, x, value)
         IN  FormShape(g) /\ g.templateRef = f.templateRef /\ DOMAIN g.params = DOMAIN f.params \cup {x}
<1> DEFINE params == [y \in DOMAIN f.params \cup {x} |-> IF y = x THEN value ELSE f.params[y]]
<1>1. DOMAIN params = DOMAIN f.params \cup {x}
  OBVIOUS
<1>2. SetParam(f, x, value) = [f EXCEPT !.params = params]
  BY DEF SetParam
<1> HIDE DEF params
<1> QED BY <1>1, <1>2 DEF FormShape

LEMMA FormEditsFit ==
  ASSUME TasksInv, NEW f \in FormEdits(tab)
  PROVE  FormShape(f) /\ FormFits(f, tab.templates)
<1> DEFINE tpl == ActiveTemplate(tab)
<1>a. FormShape(tab.form) /\ FormFits(tab.form, tab.templates)
  BY DEF TasksInv
<1>1. \/ f = [tab.form EXCEPT !.templateRef = None, !.params = <<>>]
      \/ \E x : \/ f = [tab.form EXCEPT !.name = x] \/ f = [tab.form EXCEPT !.trigger = x]
                \/ f = [tab.form EXCEPT !.cron = x] \/ f = [tab.form EXCEPT !.prompt = x]
      \/ \E x \in tab.templates : f = OnChangeTemplate(tab.form, x)
      \/ tpl # None /\ \E x \in DOMAIN tpl.schema : \E v : f = SetParam(tab.form, x, v)
  BY DEF FormEdits
<1>2. CASE f = [tab.form EXCEPT !.templateRef = None, !.params = <<>>]
  BY <1>a, <1>2 DEF FormShape, FormFits
<1>3. CASE \E x : \/ f = [tab.form EXCEPT !.name = x] \/ f = [tab.form EXCEPT !.trigger = x]
                  \/ f = [tab.form EXCEPT !.cron = x] \/ f = [tab.form EXCEPT !.prompt = x]
  <2>1. FormShape(f) /\ f.templateRef = tab.form.templateRef /\ f.params = tab.form.params
    BY <1>a, <1>3 DEF FormShape
  <2> QED BY <1>a, <2>1 DEF FormFits
<1>4. CASE \E x \in tab.templates : f = OnChangeTemplate(tab.form, x)
  BY <1>a, <1>4, OnChangeTemplateFits
<1>5. CASE tpl # None /\ \E x \in DOMAIN tpl.schema : \E v : f = SetParam(tab.form, x, v)
  <2> HIDE DEF tpl
  <2>1. PICK x \in DOMAIN tpl.schema : \E v : f = SetParam(tab.form, x, v)
    BY <1>5
  <2>2. PICK v : f = SetParam(tab.form, x, v)
    BY <2>1
  <2>3. FormShape(f) /\ f.templateRef = tab.form.templateRef /\ DOMAIN f.params = DOMAIN tab.form.params \cup {x}
    BY <1>a, <2>2, SetParamFits
  <2>4. tpl \in tab.templates /\ tpl.name = tab.form.templateRef /\ DOMAIN tab.form.params \subseteq DOMAIN tpl.schema
    BY <1>5, ActiveFits DEF tpl
  <2> QED BY <2>1, <2>3, <2>4 DEF FormFits
<1> QED BY <1>1, <1>2, <1>3, <1>4, <1>5

LEMMA DialogInv ==
  ASSUME TasksInv, OpenDialog \/ EditForm \/ CloseDialog
  PROVE  TasksInv'
<1>a. TabShape(tab) /\ FormShape(tab.form) /\ UNCHANGED <<crs, presses, tpls>>
  BY DEF TasksInv, OpenDialog, EditForm, CloseDialog, clusterVars
<1>1. CASE OpenDialog
  <2>1. PICK f \in {ResetForm} \cup {OnChangeTemplate(ResetForm, tpl) : tpl \in tab.templates} :
          tab' = [tab EXCEPT !.dialog = TRUE, !.form = f]
    BY <1>1 DEF OpenDialog
  <2>2. FormShape(f) /\ FormFits(f, tab.templates)
    BY ResetFormFits, OnChangeTemplateFits
  <2>3. TabShape(tab') /\ tab'.templates = tab.templates /\ tab'.form = f /\ tab'.reqs = tab.reqs
    BY <1>a, <2>1 DEF TabShape
  <2> QED BY <1>a, <2>2, <2>3, FormInv
<1>2. CASE EditForm
  <2>1. PICK f \in FormEdits(tab) : tab' = [tab EXCEPT !.form = f, !.edits = @ + 1]
    BY <1>2 DEF EditForm
  <2>2. FormShape(f) /\ FormFits(f, tab.templates)
    BY FormEditsFit
  <2>3. TabShape(tab') /\ tab'.templates = tab.templates /\ tab'.form = f /\ tab'.reqs = tab.reqs
    BY <1>a, <2>1 DEF TabShape
  <2> QED BY <1>a, <2>2, <2>3, FormInv
<1>3. CASE CloseDialog
  <2>1. SameForm(tab, tab') /\ tab'.reqs = tab.reqs
    BY <1>a, <1>3 DEF CloseDialog, SameForm, TabShape
  <2> QED BY <1>a, <2>1, GoesOnInv DEF TabGoesOn
<1> QED BY <1>1, <1>2, <1>3

LEMMA CreateTaskInv ==
  ASSUME TasksInv, CreateTask
  PROVE  TasksInv'
<1> USE DEF TasksInv
<1> DEFINE c == [form |-> tab.form, template |-> ActiveTemplate(tab)]
           new == [TaskRequest("create", None, "sent") EXCEPT !.form = c]
           edits == tab.edits + 1
<1>a. UNCHANGED <<crs, presses, tpls>>
  BY DEF CreateTask, clusterVars
<1>1. tab' = [Send(tab, new) EXCEPT !.edits = Send(tab, new).edits + 1]
  BY DEF CreateTask
<1>2. Sent(c)
  BY ActiveFits DEF Sent
<1> HIDE DEF c
<1>3. RequestShape(new) /\ new.kind = "create" /\ new.pc = "sent" /\ new.form = c
  BY DEF TaskRequest, RequestShape
<1> HIDE DEF new
<1>4. SameForm(tab, Send(tab, new)) /\ Send(tab, new).reqs = tab.reqs \cup {new}
  BY SendIs
<1>5. SameForm(tab, tab') /\ tab'.reqs = tab.reqs \cup {new}
  BY <1>1, <1>4 DEF SameForm, TabShape
<1>6. ASSUME NEW r \in tab'.reqs PROVE RequestOK(r)'
  <2>1. CASE r = new
    BY <1>2, <1>3, <2>1 DEF RequestOK
  <2>2. CASE r \in tab.reqs
    BY <1>a, <1>5, <2>2 DEF RequestOK, SameForm
  <2> QED BY <1>5, <2>1, <2>2
<1>7. OneTemplatesRead'
  BY <1>3, <1>5 DEF OneTemplatesRead
<1> QED BY <1>a, <1>5, <1>6, <1>7 DEF SameForm, ClusterShape, HasAsked

\* What the route resolves for a form that was sent is what was confirmed.
LEMMA ResolvedAsConfirmed ==
  ASSUME TasksInv, NEW c, Sent(c), NEW cr,
         LET ref == IF c.template = None THEN None ELSE c.template.name
             tpl == Named(tpls, ref)
             params == IF tpl = None THEN None ELSE ResolveParams(tpl.schema, c.form.params)
         IN  /\ ref # None => tpl # None /\ params # None
             /\ cr = [owner |-> Me, enabled |-> TRUE, cron |-> Schedule(c.form), templateRef |-> ref,
                      params |-> IF ref = None THEN <<>> ELSE params,
                      instruction |-> IF ref = None THEN c.form.prompt ELSE RenderInstruction(tpl, params)]
  PROVE  CrShape(cr) /\ AsConfirmed(cr, c)
<1>a. CrShape(cr)
  BY DEF CrShape
<1>1. CASE c.template = None
  BY <1>a, <1>1 DEF AsConfirmed
<1>2. CASE c.template # None
  <2> DEFINE ref == c.template.name
             tpl == Named(tpls, ref)
             overrides == c.form.params
             params == ResolveParams(tpl.schema, overrides)
  <2>1. c.template \in Templates /\ DOMAIN overrides \subseteq DOMAIN c.template.schema /\ ref # None
    BY <1>2, TemplatesAssumption DEF Sent
  <2>2. tpl # None
    BY <1>2, <2>1
  <2>2a. params # None
    BY <1>2, <2>1, <2>2
  <2>3. /\ cr.cron = Schedule(c.form) /\ cr.templateRef = ref /\ cr.params = params
        /\ cr.instruction = RenderInstruction(tpl, params)
    BY <1>2, <2>1, <2>2, <2>2a
  <2>4. tpl \in tpls /\ tpl.name = ref
    BY <2>2, NamedIs
  <2>5. tpl \in Templates
    BY <2>4 DEF TasksInv, Distinct
  <2> HIDE DEF tpl
  <2>6. cr.instruction.values = params /\ cr.instruction.rev = tpl.rev
    BY <2>3 DEF RenderInstruction
  <2> DEFINE schema == tpl.schema
             merged == [x \in DOMAIN schema \cup DOMAIN overrides |->
                          IF x \in DOMAIN overrides THEN overrides[x]
                          ELSE IF schema[x].default # None THEN schema[x].default ELSE EmptyText]
  <2>7. params = merged /\ \A y \in DOMAIN schema : schema[y].enum # {} => params[y] \in schema[y].enum
    BY <2>2a DEF ResolveParams
  <2>8. ASSUME tpl.rev = c.template.rev PROVE params = ShownParams(c)
    <3>1. tpl = c.template
      BY <2>1, <2>4, <2>5, <2>8, TemplatesAssumption
    <3>2. DOMAIN schema \cup DOMAIN overrides = DOMAIN c.template.schema
      BY <2>1, <3>1
    <3> QED BY <2>7, <3>1, <3>2, Zenon DEF ShownParams
  <2> HIDE DEF params
  <2>9. cr.instruction.rev = c.template.rev => cr.params = ShownParams(c)
    BY <2>3, <2>6, <2>8
  <2>10. \E x \in Templates :
           /\ x.name = cr.templateRef /\ x.rev = cr.instruction.rev
           /\ \A y \in DOMAIN x.schema : x.schema[y].enum # {} => cr.params[y] \in x.schema[y].enum
    BY <2>3, <2>4, <2>5, <2>6, <2>7
  <2> QED BY <1>a, <1>2, <2>3, <2>6, <2>9, <2>10, Zenon DEF AsConfirmed
<1> QED BY <1>1, <1>2

LEMMA TaskResolvedInv ==
  ASSUME TasksInv, NEW r \in tab.reqs, TaskResolved(r)
  PROVE  TasksInv'
<1> DEFINE c == r.form
           ref == IF c.template = None THEN None ELSE c.template.name
           tpl == Named(tpls, ref)
           params == IF tpl = None THEN None ELSE ResolveParams(tpl.schema, c.form.params)
           cr == [owner |-> Me, enabled |-> TRUE, cron |-> Schedule(c.form), templateRef |-> ref,
                  params |-> IF ref = None THEN <<>> ELSE params,
                  instruction |-> IF ref = None THEN c.form.prompt ELSE RenderInstruction(tpl, params)]
<1>a. RequestOK(r) /\ RequestShape(r) /\ UNCHANGED <<crs, presses, tpls>> /\ r.kind = "create" /\ r.pc = "sent" /\ Sent(c)
  BY DEF TasksInv, RequestOK, TaskResolved, clusterVars
<1>1. \/ tab' = Became(r, [r EXCEPT !.pc = "done", !.ok = FALSE])
      \/ (ref # None => tpl # None /\ params # None) /\ tab' = Became(r, [r EXCEPT !.pc = "write", !.ans = cr])
  BY Zenon DEF TaskResolved
<1>2. CASE tab' = Became(r, [r EXCEPT !.pc = "done", !.ok = FALSE])
  <2> DEFINE new == [r EXCEPT !.pc = "done", !.ok = FALSE]
  <2>1. RequestShape(new) /\ new.kind = "create" /\ new.pc = "done"
    BY <1>a DEF RequestShape
  <2>2. tab' = Became(r, new)
    BY <1>2
  <2> HIDE DEF new
  <2>3. RequestOK(new)
    BY <2>1 DEF RequestOK
  <2> QED BY <1>a, <2>1, <2>2, <2>3, BecameInv
<1>3. CASE (ref # None => tpl # None /\ params # None) /\ tab' = Became(r, [r EXCEPT !.pc = "write", !.ans = cr])
  <2>1. CrShape(cr) /\ AsConfirmed(cr, c)
    BY <1>a, <1>3, ResolvedAsConfirmed
  <2> HIDE DEF cr
  <2> DEFINE new == [r EXCEPT !.pc = "write", !.ans = cr]
  <2>2. RequestShape(new) /\ new.kind = "create" /\ new.pc = "write" /\ new.ans = cr /\ new.form = c
    BY <1>a DEF RequestShape
  <2>3. tab' = Became(r, new)
    BY <1>3
  <2> HIDE DEF new, c
  <2>4. RequestOK(new)
    BY <2>1, <2>2 DEF RequestOK
  <2> QED BY <1>a, <2>2, <2>3, <2>4, BecameInv
<1> QED BY <1>1, <1>2, <1>3

\* What TaskCreated does, and the request it does it for is over.
LEMMA TaskCreatedIs ==
  ASSUME TasksInv, NEW r \in tab.reqs, TaskCreated(r)
  PROVE  /\ r.kind = "create" /\ r.pc = "write" /\ CrShape(r.ans) /\ AsConfirmed(r.ans, r.form)
         /\ TaskCrName \in TaskIds /\ crs[TaskCrName] = None /\ ~presses[TaskCrName].took
         /\ crs' = crs \/ crs' = [crs EXCEPT ![TaskCrName] = r.ans]
         /\ UNCHANGED <<tpls, presses>>
         /\ \E new : /\ SameForm(tab, tab') /\ tab'.reqs = (tab.reqs \ {r}) \cup {new}
                     /\ RequestShape(new) /\ new.kind = "create" /\ new.pc = "done"
<1>a. RequestOK(r) /\ r.kind = "create" /\ r.pc = "write" /\ UNCHANGED <<tpls, presses>> /\ Unused # {}
  BY DEF TasksInv, TaskCreated
<1>b. RequestShape(r) /\ CrShape(r.ans) /\ AsConfirmed(r.ans, r.form)
  BY <1>a DEF RequestOK
<1>1. TaskCrName \in Unused
  <2>1. \E t : t \in Unused
    BY <1>a
  <2> QED BY <2>1, Zenon DEF TaskCrName
<1>2. TaskCrName \in TaskIds /\ crs[TaskCrName] = None /\ ~presses[TaskCrName].took
  BY <1>1, Zenon DEF Unused
<1>3. /\ crs' = crs \/ crs' = [crs EXCEPT ![TaskCrName] = r.ans]
      /\ \E ok : tab' = Became(r, [r EXCEPT !.pc = "done", !.ok = ok, !.task = TaskCrName, !.ans = None, !.form = None])
  BY Zenon DEF TaskCreated
<1>4. PICK ok : tab' = Became(r, [r EXCEPT !.pc = "done", !.ok = ok, !.task = TaskCrName, !.ans = None, !.form = None])
  BY <1>3
<1> DEFINE new == [r EXCEPT !.pc = "done", !.ok = ok, !.task = TaskCrName, !.ans = None, !.form = None]
<1>5. RequestShape(new) /\ new.kind = "create" /\ new.pc = "done"
  BY <1>a, <1>b DEF RequestShape
<1>6. tab' = Became(r, new)
  BY <1>4
<1> HIDE DEF new
<1>7. SameForm(tab, tab') /\ tab'.reqs = (tab.reqs \ {r}) \cup {new}
  BY <1>6, BecameIs DEF TasksInv
<1> QED BY <1>a, <1>b, <1>2, <1>3, <1>5, <1>7

LEMMA TaskCreatedInv ==
  ASSUME TasksInv, NEW r \in tab.reqs, TaskCreated(r)
  PROVE  TasksInv'
<1> USE DEF TasksInv
<1> DEFINE t == TaskCrName
<1>1. /\ r.kind = "create" /\ CrShape(r.ans)
      /\ t \in TaskIds /\ crs[t] = None /\ ~presses[t].took
      /\ crs' = crs \/ crs' = [crs EXCEPT ![t] = r.ans]
      /\ UNCHANGED <<tpls, presses>>
  BY TaskCreatedIs
<1>2. PICK new : /\ SameForm(tab, tab') /\ tab'.reqs = (tab.reqs \ {r}) \cup {new}
                 /\ RequestShape(new) /\ new.kind = "create" /\ new.pc = "done"
  BY TaskCreatedIs
<1> HIDE DEF t
<1>3. ClusterShape' /\ HasAsked'
  BY <1>1 DEF ClusterShape, HasAsked
<1>4. ASSUME NEW s \in tab'.reqs PROVE RequestOK(s)'
  <2>1. CASE s = new
    BY <1>2, <2>1 DEF RequestOK
  <2>2. CASE s \in tab.reqs
    BY <1>1, <1>2, <2>2 DEF RequestOK, SameForm
  <2> QED BY <1>2, <2>1, <2>2
<1>5. OneTemplatesRead'
  BY <1>2 DEF OneTemplatesRead
<1> QED BY <1>1, <1>2, <1>3, <1>4, <1>5 DEF SameForm

LEMMA CreateArrivesInv ==
  ASSUME TasksInv, NEW r \in tab.reqs, CreateArrives(r)
  PROVE  TasksInv'
<1>a. TabShape(tab) /\ UNCHANGED <<crs, presses, tpls>>
  BY DEF TasksInv, CreateArrives, clusterVars
<1>g. SameForm(tab, Gone(r)) /\ Gone(r).reqs = tab.reqs \ {r}
  BY <1>a, GoneIs
<1> DEFINE p == [Gone(r) EXCEPT !.dialog = FALSE, !.form = ResetForm]
<1>1. TabShape(p) /\ p.templates = tab.templates /\ p.form = ResetForm /\ p.reqs = tab.reqs \ {r}
  BY <1>g DEF SameForm, TabShape
<1>2. tab' = IF r.ok THEN LoadTasks(p, r.task) ELSE Gone(r)
  BY DEF CreateArrives
<1> HIDE DEF p
<1>3. CASE r.ok
  <2>1. SameForm(p, tab') /\ \E new : Plain(new) /\ tab'.reqs = p.reqs \cup {new}
    BY <1>1, <1>2, <1>3, LoadTasksIs
  <2>2. /\ TabShape(tab') /\ tab'.templates = tab.templates /\ tab'.form = ResetForm
        /\ \A s \in tab'.reqs : s \in tab.reqs \/ Plain(s)
    BY <1>1, <2>1 DEF SameForm
  <2> QED BY <1>a, <2>2, ResetFormFits, FormInv
<1>4. CASE ~r.ok
  BY <1>a, <1>g, <1>2, <1>4, GoesOnInv DEF TabGoesOn
<1> QED BY <1>3, <1>4

-----------------------------------------------------------------------------
(* The scheduler, other windows and other people *)

LEMMA OthersInv ==
  ASSUME TasksInv, RunStarts \/ RunEnds \/ OthersToggle \/ OthersDeleteTask \/ OthersEditTemplate
  PROVE  TasksInv'
<1>1. CASE RunStarts \/ RunEnds
  BY <1>1, WorldInv DEF RunStarts, RunEnds, TasksInv, ClusterShape, HasAsked
<1>2. CASE OthersToggle
  <2>1. PICK t \in TaskIds :
          /\ crs[t] # None
          /\ crs' = [crs EXCEPT ![t].enabled = ~@]
          /\ presses' = [presses EXCEPT ![t] = [asked |-> @.asked \cup {~crs[t].enabled}, took |-> TRUE]]
    BY <1>2 DEF OthersToggle
  <2> DEFINE s == ~crs[t].enabled
  <2>2. crs' = [crs EXCEPT ![t].enabled = s] /\ presses' = [presses EXCEPT ![t] = [asked |-> presses[t].asked \cup {s}, took |-> TRUE]]
    BY <2>1
  <2> HIDE DEF s
  <2>3. /\ DOMAIN crs' = TaskIds /\ \A u \in TaskIds : u # t => crs'[u] = crs[u]
        /\ CrShape(crs'[t]) /\ crs'[t].enabled = s
    BY <2>1, <2>2 DEF TasksInv, ClusterShape, CrShape
  <2>4. /\ DOMAIN presses' = TaskIds /\ \A u \in TaskIds : u # t => presses'[u] = presses[u]
        /\ {"asked", "took"} \subseteq DOMAIN presses'[t] /\ presses'[t].asked = presses[t].asked \cup {s}
    BY <2>2 DEF TasksInv, ClusterShape
  <2>5. ClusterShape'
    BY <2>3, <2>4 DEF TasksInv, ClusterShape
  <2>6. HasAsked'
    BY <2>3, <2>4 DEF TasksInv, HasAsked
  <2>7. tab' = tab /\ tpls' = tpls
    BY <1>2 DEF OthersToggle
  <2>8. \A u \in TaskIds : presses[u].asked \subseteq presses'[u].asked
    BY <2>4
  <2> QED BY <2>5, <2>6, <2>7, <2>8, WorldInv DEF TasksInv
<1>3. CASE OthersDeleteTask
  <2>1. PICK t \in TaskIds : crs' = [crs EXCEPT ![t] = None]
    BY <1>3 DEF OthersDeleteTask
  <2>2. ClusterShape' /\ HasAsked'
    BY <1>3, <2>1 DEF OthersDeleteTask, TasksInv, ClusterShape, HasAsked
  <2> QED BY <1>3, <2>2, WorldInv DEF OthersDeleteTask, TasksInv
<1>4. CASE OthersEditTemplate
  <2>1. Distinct(tpls')
    BY <1>4 DEF OthersEditTemplate, TasksInv, Distinct
  <2>2. UNCHANGED <<crs, presses, tab>>
    BY <1>4 DEF OthersEditTemplate
  <2> QED BY <2>1, <2>2, WorldInv DEF TasksInv, ClusterShape, HasAsked
<1> QED BY <1>1, <1>2, <1>3, <1>4

-----------------------------------------------------------------------------
(* The specification *)

LEMMA TasksInvInit == Init => TasksInv
<1> SUFFICES ASSUME ClusterInit, tab = Mounted \/ tab = Loaded PROVE TasksInv
  BY Zenon DEF Init, TasksAtRest, TasksInit
<1>1. DOMAIN crs = TaskIds /\ \A t \in TaskIds : crs[t] # None => CrShape(crs[t])
  BY DEF ClusterInit, FirstTasks, Initially, CrShape
<1>2. DOMAIN presses = TaskIds /\ \A t \in TaskIds : {"asked", "took"} \subseteq DOMAIN presses[t] /\ ~presses[t].took
  BY DEF ClusterInit
<1>3. Distinct(tpls)
  BY TemplatesAssumption DEF ClusterInit, Distinct
<1>4. /\ TabShape(tab) /\ tab.form = ResetForm
      /\ \/ tab.templates = {} /\ tab.reqs = {TaskRequest("tasks", None, "sent"), TaskRequest("templates", None, "sent")}
         \/ tab.templates = tpls /\ tab.reqs = {}
  <2>1. /\ TabShape(Mounted) /\ Mounted.form = ResetForm /\ Mounted.templates = {}
        /\ Mounted.reqs = {TaskRequest("tasks", None, "sent"), TaskRequest("templates", None, "sent")}
    BY DEF Mounted, TabShape
  <2>2. TabShape(Loaded) /\ Loaded.form = ResetForm /\ Loaded.templates = tpls /\ Loaded.reqs = {}
    BY <2>1 DEF Loaded, TemplateList, TabShape
  <2> QED BY <2>1, <2>2
<1>5. FormShape(tab.form) /\ FormFits(tab.form, tab.templates) /\ tab.form.templateRef = None /\ Distinct(tab.templates)
  BY <1>3, <1>4, ResetFormFits DEF Distinct
<1>6. ASSUME NEW r \in tab.reqs PROVE RequestOK(r)
  <2>1. RequestShape(r) /\ r.kind \in {"tasks", "templates"} /\ r.pc = "sent" /\ tab.templates = {}
    BY <1>4, TaskRequestIs
  <2> QED BY <1>5, <2>1 DEF RequestOK
<1>7. OneTemplatesRead
  BY <1>4, TaskRequestIs DEF OneTemplatesRead
<1> QED BY <1>1, <1>2, <1>3, <1>4, <1>5, <1>6, <1>7 DEF TasksInv, ClusterShape, HasAsked

LEMMA TasksInvNext ==
  ASSUME TasksInv, [Next]_<<pageVars, svcVars, taskVars>>
  PROVE  TasksInv'
<1>1. CASE UNCHANGED taskVars
  BY <1>1, GoesOnInv DEF taskVars, clusterVars, TabGoesOn, SameForm, TasksInv
<1>2. CASE TaskSteps
  <2>1. ASSUME NEW r \in tab.reqs, TaskServed(r) PROVE TasksInv'
    BY <2>1, ReadsServedInv, TasksArriveInv, TemplatesArriveInv, ActionChecksInv, ActionWritesInv, ActionArrivesInv,
       TaskResolvedInv, TaskCreatedInv, CreateArrivesInv DEF TaskServed
  <2>2. ASSUME TaskUser PROVE TasksInv'
    BY <2>2, RowsInv, ToggleTaskInv, DialogInv, CreateTaskInv DEF TaskUser
  <2> QED BY <1>2, <2>1, <2>2, RowsInv, OthersInv DEF TaskSteps
<1> QED BY <1>1, <1>2 DEF Next, TasksNext

(* The requests under way, the form and the cluster stay in the states the proofs
   below rest on, through every handler of TasksPane and every call of its routes. *)
THEOREM TasksInductive == Spec => []TasksInv
<1>1. Init => TasksInv
  BY TasksInvInit
<1>2. TasksInv /\ [Next]_<<pageVars, svcVars, taskVars>> => TasksInv'
  BY TasksInvNext
<1> QED BY <1>1, <1>2, PTL DEF Spec

(* A toggle that is pressed again, because its answer was lost or its row had
   not been read again, never undoes the first press: the request carries the
   state that was asked for, and the route writes that one. *)
THEOREM TogglesAgree == Spec => []RetriesAgree
<1>1. TasksInv => RetriesAgree
  BY DEF TasksInv, HasAsked, RetriesAgree
<1> QED BY <1>1, TasksInductive, PTL

\* Only the creation of a task makes one where there was none.
LEMMA OnlyCreated ==
  ASSUME TasksInv, TaskSteps, NEW t \in TaskIds, crs[t] = None, crs'[t] # None
  PROVE  \E r \in tab.reqs : TaskCreated(r)
<1>a. DOMAIN crs = TaskIds
  BY DEF TasksInv, ClusterShape
<1>b. crs' # crs
  OBVIOUS
<1>1. ASSUME TaskUser \/ PollReports \/ RunStarts \/ RunEnds \/ OthersEditTemplate PROVE FALSE
  BY <1>b, <1>1 DEF TaskUser, PollReports, RunStarts, RunEnds, OthersEditTemplate, OpenTask, ChooseReport, ToggleTask, DeleteTask,
     RunTaskId, OpenDialog, EditForm, CloseDialog, CreateTask, clusterVars
<1>2. ASSUME OthersToggle \/ OthersDeleteTask PROVE FALSE
  BY <1>a, <1>2 DEF OthersToggle, OthersDeleteTask
<1>3. ASSUME NEW r \in tab.reqs, TaskServed(r), ~TaskCreated(r) PROVE FALSE
  <2>1. ActionWrites(r)
    BY <1>b, <1>3 DEF TaskServed, ReadsServed, Read, TasksArrive, TemplatesArrive, ReportsArrive, ActionChecks, ActionArrives,
       TaskResolved, CreateArrives, clusterVars
  <2>2. \/ crs' = crs
        \/ crs' = [crs EXCEPT ![r.task] = None]
        \/ crs[r.task] # None /\ crs' = [crs EXCEPT ![r.task].enabled = r.target]
    BY <2>1, Zenon DEF ActionWrites
  <2> QED BY <1>a, <1>b, <2>2
<1> QED BY <1>1, <1>2, <1>3 DEF TaskSteps

(* A task comes to be only as the dialog showed it when Create was pressed, for
   all templates: with the schedule, the template and that template's values, or
   the prompt; a template edited meanwhile is run in its new form, with valid
   values. *)
THEOREM TasksAsConfirmed == Spec => TaskAsConfirmed
<1> DEFINE Step == \A t \in TaskIds : crs[t] = None /\ crs'[t] # None =>
                     \E r \in tab.reqs \ tab'.reqs : r.kind = "create" /\ AsConfirmed(crs'[t], r.form)
<1>1. ASSUME TasksInv, [Next]_<<pageVars, svcVars, taskVars>> PROVE [Step]_taskVars
  <2>1. CASE UNCHANGED taskVars
    BY <2>1
  <2>2. ASSUME TaskSteps, NEW t \in TaskIds, crs[t] = None, crs'[t] # None
        PROVE  \E r \in tab.reqs \ tab'.reqs : r.kind = "create" /\ AsConfirmed(crs'[t], r.form)
    <3>1. PICK r \in tab.reqs : TaskCreated(r)
      BY <1>1, <2>2, OnlyCreated
    <3>2. /\ r.kind = "create" /\ r.pc = "write" /\ AsConfirmed(r.ans, r.form)
          /\ crs' = crs \/ crs' = [crs EXCEPT ![TaskCrName] = r.ans]
      BY <1>1, <3>1, TaskCreatedIs
    <3>3. PICK new : tab'.reqs = (tab.reqs \ {r}) \cup {new} /\ new.pc = "done"
      BY <1>1, <3>1, TaskCreatedIs
    <3>4. r \notin tab'.reqs
      BY <3>2, <3>3
    <3>5. crs'[t] = r.ans
      BY <1>1, <2>2, <3>2 DEF TasksInv, ClusterShape
    <3> QED BY <3>2, <3>4, <3>5
  <2> QED BY <1>1, <2>1, <2>2 DEF Next, TasksNext
<1>2. TasksInv /\ [Next]_<<pageVars, svcVars, taskVars>> => [Step]_taskVars
  BY <1>1
<1> QED BY <1>2, TasksInductive, PTL DEF Spec, TaskAsConfirmed
=============================================================================
