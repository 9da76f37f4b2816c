---------------------------- MODULE CatalogProofs ----------------------------
(***************************************************************************)
(* The assistant's catalogue and its configuration page, for all sets of   *)
(* providers, Gateways, models and callers and all bounds: of the          *)
(* specification Forms runs, in which the page is one of three forms.      *)
(***************************************************************************)
EXTENDS Forms, WellFoundedInduction, TLAPS

-----------------------------------------------------------------------------
(* Provider lists *)

\* An entry has no credential, the borrowed one, or the one managed for it.
RefForm(p) == p.ref \in {Unset, "shared", p.name}

WellFormed(ps) ==
  /\ ps \in Seq(Provider)
  /\ \A i, j \in DOMAIN ps : ps[i].name = ps[j].name => i = j
  /\ \A i \in DOMAIN ps : RefForm(ps[i])

Own(ps, name) == {p \in Range(ps) : p.name = name}

\* qs has the entry es under name, and ps otherwise.
Rewrites(ps, qs, name, es) ==
  /\ WellFormed(qs)
  /\ \A other \in ProviderNames : other # name => Own(qs, other) = Own(ps, other)
  /\ Own(qs, name) = es

LEMMA MinIs ==
  ASSUME NEW I, I \subseteq Nat, I # {}
  PROVE  Min(I) \in I /\ \A j \in I : Min(I) <= j
<1> DEFINE R == OpToRel(<, Nat)
<1>1. \E x \in I : \A y \in I : ~(<<y, x>> \in R)
  <2> IsWellFoundedOn(R, Nat)
    BY NatLessThanWellFounded DEF R
  <2> HIDE DEF R
  <2> QED BY WFMin
<1>2. \E x \in I : \A y \in I : x <= y
  <2>1. PICK x \in I : \A y \in I : ~(<<y, x>> \in R)
    BY <1>1
  <2>2. \A y \in I : x <= y
    <3> TAKE y \in I
    <3>1. x \in Nat /\ y \in Nat
      OBVIOUS
    <3>2. y < x => <<y, x>> \in R
      BY <3>1 DEF OpToRel
    <3>3. ~(<<y, x>> \in R)
      BY <2>1
    <3> HIDE DEF R
    <3> QED BY <3>1, <3>2, <3>3
  <2> QED BY <2>2
<1> QED BY <1>2 DEF Min

\* The position of a provider, or 0.
LEMMA IndexIs ==
  ASSUME NEW ps \in Seq(Provider), NEW name
  PROVE  /\ ProviderIndex(ps, name) \in Nat
         /\ ProviderIndex(ps, name) # 0 =>
              ProviderIndex(ps, name) \in DOMAIN ps /\ ps[ProviderIndex(ps, name)].name = name
         /\ ProviderIndex(ps, name) = 0 => \A i \in DOMAIN ps : ps[i].name # name
<1> DEFINE I == {i \in 1 .. Len(ps) : ps[i].name = name}
<1>1. ProviderIndex(ps, name) = IF I # {} THEN Min(I) ELSE 0
  BY DEF ProviderIndex, SelectInSeq
<1>2. Len(ps) \in Nat /\ DOMAIN ps = 1 .. Len(ps)
  OBVIOUS
<1>3. CASE I = {}
  BY <1>1, <1>2, <1>3
<1>4. CASE I # {}
  <2>1. Min(I) \in I
    <3> I \subseteq Nat
      OBVIOUS
    <3> HIDE DEF I
    <3> QED BY <1>4, MinIs
  <2>2. ProviderIndex(ps, name) = Min(I)
    BY <1>1, <1>4
  <2>3. Min(I) \in 1 .. Len(ps) /\ ps[Min(I)].name = name
    BY <2>1
  <2> HIDE DEF I
  <2> QED BY <1>2, <2>2, <2>3
<1> QED BY <1>3, <1>4

LEMMA AppendRewrites ==
  ASSUME NEW ps, WellFormed(ps), NEW e \in Provider, RefForm(e), \A i \in DOMAIN ps : ps[i].name # e.name,
         NEW qs, qs = Append(ps, e)
  PROVE  Rewrites(ps, qs, e.name, {e})
<1> DEFINE n == Len(ps) + 1
<1>1. /\ ps \in Seq(Provider) /\ Len(ps) \in Nat /\ DOMAIN ps = 1 .. Len(ps)
      /\ qs \in Seq(Provider) /\ DOMAIN qs = 1 .. n /\ qs[n] = e /\ \A i \in DOMAIN ps : qs[i] = ps[i]
  BY DEF WellFormed
<1>2. DOMAIN qs = DOMAIN ps \cup {n} /\ n \notin DOMAIN ps
  BY <1>1
<1> HIDE DEF n
<1>3. WellFormed(qs)
  BY <1>1, <1>2 DEF WellFormed
<1>4. Range(qs) = Range(ps) \cup {e}
  BY <1>1, <1>2 DEF Range
<1>5. \A p \in Range(ps) : p.name # e.name
  BY DEF Range
<1> QED BY <1>3, <1>4, <1>5 DEF Rewrites, Own

LEMMA ReplaceRewrites ==
  ASSUME NEW ps, WellFormed(ps), NEW i \in DOMAIN ps, NEW e \in Provider, RefForm(e), e.name = ps[i].name,
         NEW qs, qs = [ps EXCEPT ![i] = e]
  PROVE  Rewrites(ps, qs, e.name, {e})
<1>1. /\ ps \in Seq(Provider) /\ qs \in Seq(Provider) /\ DOMAIN qs = DOMAIN ps
      /\ qs[i] = e /\ \A j \in DOMAIN ps : j # i => qs[j] = ps[j]
  BY DEF WellFormed
<1>2. \A j \in DOMAIN ps : j # i => ps[j].name # e.name
  BY DEF WellFormed
<1>3. WellFormed(qs)
  BY <1>1, <1>2 DEF WellFormed
<1>4. \A p : p \in Range(qs) <=> p = e \/ \E j \in DOMAIN ps : j # i /\ p = ps[j]
  BY <1>1 DEF Range
<1>5. \A p : p \in Range(ps) <=> p = ps[i] \/ \E j \in DOMAIN ps : j # i /\ p = ps[j]
  BY <1>1 DEF Range
<1>6. Own(qs, e.name) = {e}
  <2>1. e \in Own(qs, e.name)
    BY <1>4 DEF Own
  <2>2. ASSUME NEW p \in Own(qs, e.name) PROVE p = e
    BY <1>2, <1>4 DEF Own
  <2> QED BY <2>1, <2>2
<1>7. ASSUME NEW other \in ProviderNames, other # e.name PROVE Own(qs, other) = Own(ps, other)
  BY <1>4, <1>5, <1>7 DEF Own
<1> QED BY <1>3, <1>6, <1>7 DEF Rewrites

\* What is left without position i.
LEMMA RemoveAtIs ==
  ASSUME NEW ps \in Seq(Provider), NEW i \in DOMAIN ps, NEW qs, qs = RemoveAt(ps, i)
  PROVE  /\ qs \in Seq(Provider) /\ Len(qs) = Len(ps) - 1
         /\ \A k \in DOMAIN qs : qs[k] = IF k < i THEN ps[k] ELSE ps[k + 1]
<1> DEFINE a == SubSeq(ps, 1, i - 1)
           b == SubSeq(ps, i + 1, Len(ps))
<1>1. i \in Nat /\ Len(ps) \in Nat /\ 1 <= i /\ i <= Len(ps)
  OBVIOUS
<1>2. a \in Seq(Provider) /\ Len(a) = i - 1 /\ \A k \in 1 .. i - 1 : a[k] = ps[k]
  BY <1>1
<1>3. b \in Seq(Provider) /\ Len(b) = Len(ps) - i /\ \A k \in 1 .. Len(ps) - i : b[k] = ps[k + i]
  BY <1>1
<1>4. qs = a \o b
  BY DEF RemoveAt
<1> HIDE DEF a, b
<1>5. qs \in Seq(Provider) /\ Len(qs) = Len(ps) - 1
  BY <1>1, <1>2, <1>3, <1>4
<1>6. ASSUME NEW k \in DOMAIN qs PROVE qs[k] = IF k < i THEN ps[k] ELSE ps[k + 1]
  <2>1. k \in Nat /\ 1 <= k /\ k <= Len(ps) - 1
    BY <1>5
  <2>2. CASE k < i
    BY <1>1, <1>2, <1>3, <1>4, <2>1, <2>2
  <2>3. CASE ~(k < i)
    <3>1. qs[k] = b[k - (i - 1)]
      BY <1>1, <1>2, <1>3, <1>4, <2>1, <2>3
    <3>2. k - (i - 1) \in 1 .. Len(ps) - i
      BY <1>1, <2>1, <2>3
    <3>3. b[k - (i - 1)] = ps[k - (i - 1) + i]
      BY <1>3, <3>2
    <3> QED BY <1>1, <2>1, <2>3, <3>1, <3>3
  <2> QED BY <2>2, <2>3
<1> QED BY <1>5, <1>6

LEMMA RemoveRewrites ==
  ASSUME NEW ps, WellFormed(ps), NEW i \in DOMAIN ps, NEW qs, qs = RemoveAt(ps, i)
  PROVE  Rewrites(ps, qs, ps[i].name, {})
<1>1. ps \in Seq(Provider) /\ DOMAIN ps = 1 .. Len(ps) /\ Len(ps) \in Nat /\ i \in Nat
  BY DEF WellFormed
<1>2. /\ qs \in Seq(Provider) /\ Len(qs) = Len(ps) - 1
      /\ \A k \in DOMAIN qs : qs[k] = IF k < i THEN ps[k] ELSE ps[k + 1]
  BY <1>1, RemoveAtIs
<1>3. DOMAIN qs = 1 .. Len(ps) - 1
  BY <1>2
<1> DEFINE At(k) == IF k < i THEN k ELSE k + 1
<1>4. \A k \in DOMAIN qs : qs[k] = ps[At(k)] /\ At(k) \in DOMAIN ps /\ At(k) # i
  BY <1>1, <1>2, <1>3
<1>5. \A k, l \in DOMAIN qs : At(k) = At(l) => k = l
  BY <1>1, <1>3
<1>6. ASSUME NEW j \in DOMAIN ps, j # i PROVE \E k \in DOMAIN qs : At(k) = j
  <2>1. CASE j < i
    <3> j \in DOMAIN qs /\ At(j) = j
      BY <1>1, <1>3, <2>1
    <3> QED OBVIOUS
  <2>2. CASE j > i
    <3> j - 1 \in DOMAIN qs /\ At(j - 1) = j
      BY <1>1, <1>3, <2>2
    <3> QED OBVIOUS
  <2> QED BY <1>1, <1>6, <2>1, <2>2
<1> HIDE DEF At
<1>7. WellFormed(qs)
  BY <1>2, <1>4, <1>5 DEF WellFormed
<1>8. \A p : p \in Range(qs) <=> \E j \in DOMAIN ps : j # i /\ p = ps[j]
  BY <1>4, <1>6 DEF Range
<1>9. \A p : p \in Range(ps) <=> p = ps[i] \/ \E j \in DOMAIN ps : j # i /\ p = ps[j]
  BY DEF Range
<1>10. \A j \in DOMAIN ps : j # i => ps[j].name # ps[i].name
  BY DEF WellFormed
<1>11. Own(qs, ps[i].name) = {}
  BY <1>8, <1>10 DEF Own
<1>12. ASSUME NEW other \in ProviderNames, other # ps[i].name PROVE Own(qs, other) = Own(ps, other)
  BY <1>8, <1>9, <1>12 DEF Own
<1> QED BY <1>7, <1>11, <1>12 DEF Rewrites

LEMMA RemoveAppended ==
  ASSUME NEW ps \in Seq(Provider), NEW e \in Provider, NEW qs, qs = RemoveAt(Append(ps, e), Len(ps) + 1)
  PROVE  qs = ps
<1> DEFINE as == Append(ps, e)
           n == Len(ps) + 1
<1>1. as \in Seq(Provider) /\ n \in DOMAIN as /\ Len(as) = n /\ \A k \in DOMAIN ps : as[k] = ps[k]
  OBVIOUS
<1>2. qs = RemoveAt(as, n)
  OBVIOUS
<1>3. /\ qs \in Seq(Provider) /\ Len(qs) = n - 1
      /\ \A k \in DOMAIN qs : qs[k] = IF k < n THEN as[k] ELSE as[k + 1]
  <2> HIDE DEF as, n
  <2>1. /\ qs \in Seq(Provider) /\ Len(qs) = Len(as) - 1
        /\ \A k \in DOMAIN qs : qs[k] = IF k < n THEN as[k] ELSE as[k + 1]
    BY <1>1, <1>2, RemoveAtIs, ZenonT(30)
  <2> QED BY <1>1, <2>1
<1> HIDE DEF as
<1>4. Len(qs) = Len(ps) /\ DOMAIN qs = DOMAIN ps
  BY <1>3
<1>5. \A k \in DOMAIN ps : qs[k] = ps[k]
  <2>1. \A k \in DOMAIN ps : k < n
    OBVIOUS
  <2> HIDE DEF n
  <2> QED BY <1>1, <1>3, <1>4, <2>1
<1> QED BY <1>3, <1>4, <1>5

-----------------------------------------------------------------------------
(* The inductive invariant of a catalogue that is written by one request at a
   time, in parts *)

Alone == "together" \notin scene

Template == [providers : Seq(Provider), defaultModel : Refs \cup {Unset}, resourceVersion : Nat]
Instance == [owner : Callers \cup Range(InstanceName), selected : Refs \cup {Unset}]
SaveReq ==
  [from : {"page", "other"}, user : Callers, given : BOOLEAN, selected : Refs \cup {Unset},
   at : {"look", "resolve", "patch", "instance", "ok", "failed"}, saw : Template \cup {Unset},
   exists : Instance \cup {Unset}, target : GatewayNames \cup {Unset}, moves : BOOLEAN,
   entries : [GatewayNames -> SUBSET ChatIds]]

CatalogTypes ==
  /\ template \in Template /\ "shared" \in secrets /\ mishap \in {"none", "refused", "lost"}
  /\ instances \in [Range(InstanceName) -> Instance \cup {Unset}]
  /\ live \in [GatewayNames -> SUBSET ChatIds]
  /\ llm \in LlmReq \cup {Unset} /\ save \in SaveReq \cup {Unset}

OneAtATime == llm = Unset \/ save = Unset

\* A selection of an external model is listed.
Picked(ref) == ref # Unset /\ ref[1] \in Externals
Lists(ps, ref) == \E p \in Range(ps) : ref[1] = p.name /\ ref[2] \in p.models
Resolves(ps) == \A ref \in SelectedRefs : Picked(ref) => Lists(ps, ref)

\* An entry's Secret is there; the one being written may not be yet.
HasKey(p) == p.ref \in secrets \cup {Unset}
Writing == llm # Unset /\ llm.at \in {"credential", "undo"} /\ CredentialStep(llm) = "write"
KeysThere == mishap # "lost" => \A p \in Range(template.providers) : HasKey(p) \/ (Writing /\ p.name = llm.name)

\* What a request of the editor found is still there when it patches.
Found(r) ==
  IF r.kind = "post"
  THEN r.at = "patch" /\ Own(template.providers, r.name) = {} /\ (r.first => template.providers = <<>>)
  ELSE r.index \in DOMAIN template.providers /\ r.previous = template.providers[r.index] /\ r.previous.name = r.name

\* Between the template and the Secret: what the template was can be restored, and
\* a Secret to be deleted is nobody's.
Half(r) ==
  /\ CredentialStep(r) # "none" /\ template.resourceVersion = r.patched
  /\ r.kind # "delete" =>
       /\ Rewrites(template.providers, UndoneProviders(r), r.name, Own(UndoneProviders(r), r.name))
       /\ Resolves(UndoneProviders(r))
       /\ mishap # "lost" => \A p \in Range(UndoneProviders(r)) : HasKey(p)
  /\ CredentialStep(r) = "delete" => r.previous.ref = r.name /\ \A p \in Range(template.providers) : p.ref # r.name
  /\ r.at = "undo" => mishap # "none" /\ r.kind # "delete"

LlmSound ==
  llm # Unset /\ llm.at \notin {"ok", "failed"} =>
    /\ ~(llm.key /\ llm.public)
    /\ llm.kind = "post" => llm.previous = Unset /\ (llm.key \/ llm.public)
    /\ llm.at \in {"guard", "patch"} => Found(llm)
    /\ llm.at = "patch" /\ llm.kind # "post" => SelectedRefs \cap Removed(llm, llm.previous) = {}
    /\ llm.at \in {"credential", "undo"} => Half(llm)

SaveSound ==
  save # Unset =>
    /\ save.at \in {"resolve", "patch"} => save.saw = template
    /\ save.at \in {"instance", "ok"} => save.saw \in Template
    /\ save.at \in {"patch", "instance"} /\ Picked(save.selected) => Lists(template.providers, save.selected)

CatalogInv ==
  /\ CatalogTypes /\ OneAtATime /\ WellFormed(template.providers) /\ Resolves(template.providers)
  /\ KeysThere /\ LlmSound /\ SaveSound

-----------------------------------------------------------------------------
(* Small facts *)

LEMMA CallIs ==
  ASSUME NEW outcome, Call(outcome), mishap \in {"none", "refused", "lost"}
  PROVE  /\ mishap' \in {"none", "refused", "lost"}
         /\ mishap # "none" => outcome = "done" /\ mishap' = mishap
         /\ outcome = "done" => mishap' = mishap
         /\ outcome # "done" => mishap' = outcome
         /\ mishap' # "lost" => mishap # "lost"
BY DEF Call, Outcomes

LEMMA LlmAnswered ==
  ASSUME NEW r \in LlmReq, NEW how \in {"ok", "failed"}
  PROVE  /\ Answered(r, how) \in LlmReq \cup {Unset}
         /\ Answered(r, how) # Unset => Answered(r, how).at \in {"ok", "failed"}
<1>1. [r EXCEPT !.at = how] \in LlmReq /\ [r EXCEPT !.at = how].at = how
  BY DEF LlmReq
<1> QED BY <1>1 DEF Answered

LEMMA SaveAnsweredIs ==
  ASSUME NEW r \in SaveReq, NEW how \in {"ok", "failed"}
  PROVE  /\ Answered(r, how) \in SaveReq \cup {Unset}
         /\ Answered(r, how) # Unset => Answered(r, how).at = how /\ Answered(r, how).saw = r.saw
<1>1. [r EXCEPT !.at = how] \in SaveReq /\ [r EXCEPT !.at = how].at = how /\ [r EXCEPT !.at = how].saw = r.saw
  BY DEF SaveReq
<1> QED BY <1>1 DEF Answered

LEMMA WrittenIs ==
  ASSUME template \in Template, NEW ps \in Seq(Provider), NEW default \in Refs \cup {Unset}
  PROVE  Written(ps, default) \in Template /\ Written(ps, default).providers = ps
<1>1. CASE ps = template.providers /\ default = template.defaultModel
  BY <1>1 DEF Written
<1>2. CASE ~(ps = template.providers /\ default = template.defaultModel)
  <2>1. Written(ps, default) = [providers |-> ps, defaultModel |-> default, resourceVersion |-> template.resourceVersion + 1]
    BY <1>2 DEF Written
  <2>2. template.resourceVersion + 1 \in Nat
    BY DEF Template
  <2> QED BY <2>1, <2>2 DEF Template
<1> QED BY <1>1, <1>2

LEMMA SelectedAreRefs ==
  ASSUME instances \in [Range(InstanceName) -> Instance \cup {Unset}]
  PROVE  SelectedRefs \subseteq Refs \cup {Unset}
BY DEF SelectedRefs, Instance

LEMMA RefIs ==
  ASSUME NEW ref \in Refs
  PROVE  ref[1] \in ProviderNames /\ ref[2] \in Ids /\ ref = <<ref[1], ref[2]>>
BY DEF Refs, ProviderNames

LEMMA ListedIs ==
  ASSUME NEW ref \in Refs, NEW t
  PROVE  ref \in ListedRefs(t) <=> Lists(t.providers, ref)
<1>1. \A p : ref \in RefsOf(p) <=> ref[1] = p.name /\ ref[2] \in p.models
  BY RefIs DEF RefsOf
<1>2. ref \in ListedRefs(t) <=> \E p \in Range(t.providers) : ref \in RefsOf(p)
  BY DEF ListedRefs
<1> QED BY <1>1, <1>2 DEF Lists

LEMMA OwnIs ==
  ASSUME NEW ps, WellFormed(ps), NEW i \in DOMAIN ps
  PROVE  Own(ps, ps[i].name) = {ps[i]} /\ ps[i] \in Provider /\ RefForm(ps[i])
<1>1. ps[i] \in Own(ps, ps[i].name)
  BY DEF Own, Range
<1>2. ASSUME NEW p \in Own(ps, ps[i].name) PROVE p = ps[i]
  <2>1. PICK j \in DOMAIN ps : p = ps[j]
    BY DEF Own, Range
  <2>2. ps[j].name = ps[i].name
    BY <2>1 DEF Own
  <2> QED BY <2>1, <2>2 DEF WellFormed
<1>3. ps[i] \in Provider /\ RefForm(ps[i])
  BY DEF WellFormed
<1> QED BY <1>1, <1>2, <1>3

LEMMA InRange ==
  ASSUME NEW ps, WellFormed(ps), NEW p \in Range(ps)
  PROVE  p \in Provider /\ RefForm(p) /\ p.name \in ProviderNames /\ p \in Own(ps, p.name)
<1>1. PICK i \in DOMAIN ps : p = ps[i]
  BY DEF Range
<1>2. p \in Provider /\ RefForm(p)
  BY <1>1 DEF WellFormed
<1> QED BY <1>2 DEF Provider, Own

\* The entries of a rewritten list.
LEMMA RewritesIs ==
  ASSUME NEW ps, NEW qs, NEW name, NEW es, Rewrites(ps, qs, name, es)
  PROVE  /\ \A p \in Range(qs) : p.name # name => p \in Range(ps)
         /\ \A p \in Range(qs) : p.name = name => p \in es
         /\ \A p \in es : p \in Range(qs)
         /\ \A p \in Range(ps) : p.name \in ProviderNames /\ p.name # name => p \in Range(qs)
<1>1. ASSUME NEW p \in Range(qs), p.name # name PROVE p \in Range(ps)
  <2>1. p \in Own(qs, p.name) /\ p.name \in ProviderNames
    BY InRange DEF Rewrites
  <2>2. p \in Own(ps, p.name)
    BY <1>1, <2>1 DEF Rewrites
  <2> QED BY <2>2 DEF Own
<1>2. \A p \in Range(qs) : p.name = name => p \in es
  BY DEF Rewrites, Own
<1>3. \A p \in es : p \in Range(qs)
  BY DEF Rewrites, Own
<1>4. ASSUME NEW p \in Range(ps), p.name \in ProviderNames, p.name # name PROVE p \in Range(qs)
  <2>1. p \in Own(ps, p.name)
    BY DEF Own
  <2>2. p \in Own(qs, p.name)
    BY <1>4, <2>1 DEF Rewrites
  <2> QED BY <2>2 DEF Own
<1> QED BY <1>1, <1>2, <1>3, <1>4

\* A list rewritten under name lists what it listed elsewhere.
LEMMA StillLists ==
  ASSUME NEW ps, NEW qs, NEW name, NEW es, WellFormed(ps), Rewrites(ps, qs, name, es),
         NEW ref, Lists(ps, ref), ref[1] # name
  PROVE  Lists(qs, ref)
<1>1. PICK p \in Range(ps) : ref[1] = p.name /\ ref[2] \in p.models
  BY DEF Lists
<1>2. p.name \in ProviderNames /\ p.name # name
  BY <1>1, InRange
<1>3. p \in Range(qs)
  BY <1>2, RewritesIs
<1> QED BY <1>1, <1>3 DEF Lists

-----------------------------------------------------------------------------
(* The requests of the provider editor *)

\* A step of a request of the editor is about the catalogue and itself.
LEMMA LlmStep ==
  ASSUME CatalogInv, llm # Unset, UNCHANGED <<instances, live, save>>, template' \in Template,
         "shared" \in secrets', mishap' \in {"none", "refused", "lost"}, llm' \in LlmReq \cup {Unset},
         WellFormed(template'.providers), Resolves(template'.providers), KeysThere', LlmSound'
  PROVE  CatalogInv'
<1>1. SelectedRefs' = SelectedRefs
  BY DEF SelectedRefs
<1>2. CatalogTypes'
  BY DEF CatalogInv, CatalogTypes
<1>3. save = Unset /\ save' = Unset
  BY DEF CatalogInv, OneAtATime
<1>4. OneAtATime' /\ SaveSound'
  BY <1>3 DEF OneAtATime, SaveSound
<1>5. (Resolves(template.providers))'
  BY <1>1 DEF Resolves
<1> QED BY <1>2, <1>4, <1>5 DEF CatalogInv

\* A request that is over, with the template as it was.
LEMMA LlmFails ==
  ASSUME CatalogInv, llm # Unset, ~Writing, UNCHANGED <<template, secrets, instances, live, save>>,
         mishap' \in {"none", "refused", "lost"}, mishap' # "lost" => mishap # "lost",
         NEW how \in {"ok", "failed"}, llm' = Answered(llm, how)
  PROVE  CatalogInv'
<1>1. llm \in LlmReq
  BY DEF CatalogInv, CatalogTypes
<1>2. llm' \in LlmReq \cup {Unset} /\ (llm' # Unset => llm'.at \in {"ok", "failed"})
  BY <1>1, LlmAnswered
<1>3. LlmSound'
  BY <1>2 DEF LlmSound
<1>4. KeysThere'
  BY DEF CatalogInv, KeysThere, HasKey
<1>5. template' \in Template /\ "shared" \in secrets' /\ WellFormed(template'.providers) /\ Resolves(template'.providers)
  BY DEF CatalogInv, CatalogTypes
<1> QED BY <1>2, <1>3, <1>4, <1>5, LlmStep

LEMMA LlmFields ==
  ASSUME NEW r \in LlmReq
  PROVE  /\ r.from \in {"page", "other"} /\ r.kind \in {"post", "put", "delete"} /\ r.name \in Externals
         /\ r.models \in SUBSET Ids /\ r.key \in BOOLEAN /\ r.public \in BOOLEAN
         /\ r.at \in {"look", "guard", "patch", "credential", "undo", "ok", "failed"}
         /\ r.first \in BOOLEAN /\ r.index \in Nat /\ r.previous \in Provider \cup {Unset} /\ r.patched \in Nat
BY DEF LlmReq

LEMMA LlmLooksInv ==
  ASSUME CatalogInv, LlmLooks
  PROVE  CatalogInv'
<1>1. llm \in LlmReq /\ llm # Unset /\ llm.at = "look" /\ mishap \in {"none", "refused", "lost"} /\ template \in Template
  BY DEF LlmLooks, CatalogInv, CatalogTypes
<1> DEFINE ps == template.providers
           i == ProviderIndex(ps, llm.name)
           refused == IF llm.kind = "post" THEN i > 0 \/ Len(template.providers) >= MaxProviders ELSE i = 0
<1>2. PICK outcome \in {"done", "refused"} :
         /\ Call(outcome)
         /\ llm' = IF outcome = "refused" \/ refused THEN Answered(llm, "failed")
                   ELSE IF llm.kind = "post" THEN [llm EXCEPT !.at = "patch", !.first = template.providers = <<>>]
                   ELSE [llm EXCEPT !.at = IF Removed(llm, template.providers[i]) = {} THEN "patch" ELSE "guard",
                                    !.index = i, !.previous = template.providers[i]]
  BY DEF LlmLooks
<1>3. UNCHANGED <<template, secrets, instances, live, save>>
  BY DEF LlmLooks
<1>4. mishap' \in {"none", "refused", "lost"} /\ (mishap' # "lost" => mishap # "lost")
  BY <1>1, <1>2, CallIs
<1>5. ~Writing
  BY <1>1 DEF Writing
<1>6. WellFormed(ps) /\ ps \in Seq(Provider) /\ llm.name \in Externals
  BY <1>1, LlmFields DEF CatalogInv, WellFormed
<1>7. CASE outcome = "refused" \/ refused
  <2>1. llm' = Answered(llm, "failed")
    BY <1>2, <1>7
  <2> QED BY <1>1, <1>3, <1>4, <1>5, <2>1, LlmFails
<1>8. CASE ~(outcome = "refused" \/ refused) /\ llm.kind = "post"
  <2>1. PICK b \in BOOLEAN : b = (ps = <<>>)
    OBVIOUS
  <2>2. llm' = [llm EXCEPT !.at = "patch", !.first = b]
    BY <1>2, <1>8, <2>1, Zenon
  <2>3. [llm EXCEPT !.at = "patch", !.first = b] \in LlmReq
    BY <1>1 DEF LlmReq
  <2>4. /\ llm'.at = "patch" /\ llm'.first = b /\ llm'.kind = llm.kind /\ llm'.name = llm.name
        /\ llm'.key = llm.key /\ llm'.public = llm.public /\ llm'.previous = llm.previous
    BY <1>1, <2>2 DEF LlmReq
  <2>5. Own(ps, llm.name) = {}
    <3>1. i = 0
      BY <1>6, <1>8, IndexIs
    <3>2. \A j \in DOMAIN ps : ps[j].name # llm.name
      BY <1>6, <3>1, IndexIs
    <3> QED BY <3>2 DEF Own, Range
  <2>6. LlmSound'
    <3>1. Found(llm)'
      BY <1>3, <1>8, <2>1, <2>4, <2>5 DEF Found
    <3> QED BY <1>1, <1>8, <2>4, <3>1 DEF CatalogInv, LlmSound
  <2>7. KeysThere'
    BY <1>3, <1>4, <1>5 DEF CatalogInv, KeysThere, HasKey
  <2>8. template' \in Template /\ "shared" \in secrets' /\ WellFormed(template'.providers) /\ Resolves(template'.providers)
    BY <1>3 DEF CatalogInv, CatalogTypes
  <2>9. llm' \in LlmReq \cup {Unset}
    BY <2>2, <2>3
  <2> QED BY <1>1, <1>3, <1>4, <2>6, <2>7, <2>8, <2>9, LlmStep
<1>9. CASE ~(outcome = "refused" \/ refused) /\ llm.kind # "post"
  <2> DEFINE e == ps[i]
  <2>1. PICK to \in {"patch", "guard"} : to = IF Removed(llm, e) = {} THEN "patch" ELSE "guard"
    OBVIOUS
  <2>2. i # 0 /\ i \in DOMAIN ps /\ e.name = llm.name
    BY <1>6, <1>9, IndexIs
  <2>3. i \in Nat /\ e \in Provider
    BY <1>6, <2>2
  <2> HIDE DEF i, e
  <2>4. llm' = [llm EXCEPT !.at = to, !.index = i, !.previous = e]
    BY <1>2, <1>9, <2>1, Zenon DEF e
  <2>5. [llm EXCEPT !.at = to, !.index = i, !.previous = e] \in LlmReq
    BY <1>1, <2>3 DEF LlmReq
  <2>6. /\ llm'.at = to /\ llm'.index = i /\ llm'.previous = e /\ llm'.kind = llm.kind /\ llm'.name = llm.name
        /\ llm'.key = llm.key /\ llm'.public = llm.public /\ llm'.models = llm.models
    BY <1>1, <2>4 DEF LlmReq
  <2>7. Found(llm)'
    BY <1>3, <1>9, <2>2, <2>6 DEF Found, e
  <2>8. to = "patch" => Removed(llm', llm'.previous) = {}
    BY <2>1, <2>6 DEF Removed
  <2>9. LlmSound'
    BY <1>1, <1>9, <2>6, <2>7, <2>8 DEF CatalogInv, LlmSound
  <2>10. KeysThere'
    BY <1>3, <1>4, <1>5 DEF CatalogInv, KeysThere, HasKey
  <2>11. template' \in Template /\ "shared" \in secrets' /\ WellFormed(template'.providers) /\ Resolves(template'.providers)
    BY <1>3 DEF CatalogInv, CatalogTypes
  <2>12. llm' \in LlmReq \cup {Unset}
    BY <2>4, <2>5
  <2> QED BY <1>1, <1>3, <1>4, <2>9, <2>10, <2>11, <2>12, LlmStep
<1> QED BY <1>7, <1>8, <1>9

LEMMA LlmGuardsInv ==
  ASSUME CatalogInv, LlmGuards
  PROVE  CatalogInv'
<1>1. llm \in LlmReq /\ llm # Unset /\ llm.at = "guard" /\ mishap \in {"none", "refused", "lost"} /\ template \in Template
  BY DEF LlmGuards, CatalogInv, CatalogTypes
<1>2. PICK outcome \in {"done", "refused"} :
         /\ Call(outcome)
         /\ llm' = IF outcome = "refused" \/ SelectedRefs \cap Removed(llm, llm.previous) # {}
                   THEN Answered(llm, "failed") ELSE [llm EXCEPT !.at = "patch"]
  BY DEF LlmGuards
<1>3. UNCHANGED <<template, secrets, instances, live, save>>
  BY DEF LlmGuards
<1>4. mishap' \in {"none", "refused", "lost"} /\ (mishap' # "lost" => mishap # "lost")
  BY <1>1, <1>2, CallIs
<1>5. ~Writing
  BY <1>1 DEF Writing
<1>6. CASE outcome = "refused" \/ SelectedRefs \cap Removed(llm, llm.previous) # {}
  <2>1. llm' = Answered(llm, "failed")
    BY <1>2, <1>6
  <2> QED BY <1>1, <1>3, <1>4, <1>5, <2>1, LlmFails
<1>7. CASE ~(outcome = "refused" \/ SelectedRefs \cap Removed(llm, llm.previous) # {})
  <2>1. llm' = [llm EXCEPT !.at = "patch"]
    BY <1>2, <1>7
  <2>2. [llm EXCEPT !.at = "patch"] \in LlmReq
    BY <1>1 DEF LlmReq
  <2>3. /\ llm'.at = "patch" /\ llm'.index = llm.index /\ llm'.previous = llm.previous /\ llm'.kind = llm.kind
        /\ llm'.name = llm.name /\ llm'.key = llm.key /\ llm'.public = llm.public /\ llm'.models = llm.models
        /\ llm'.first = llm.first
    BY <1>1, <2>1 DEF LlmReq
  <2>4. Found(llm) /\ llm.kind # "post"
    BY <1>1 DEF CatalogInv, LlmSound, Found
  <2>5. Found(llm)'
    BY <1>3, <2>3, <2>4 DEF Found
  <2>6. SelectedRefs' \cap Removed(llm', llm'.previous) = {}
    BY <1>3, <1>7, <2>3 DEF Removed, SelectedRefs
  <2>7. LlmSound'
    BY <1>1, <2>3, <2>4, <2>5, <2>6 DEF CatalogInv, LlmSound
  <2>8. KeysThere'
    BY <1>3, <1>4, <1>5 DEF CatalogInv, KeysThere, HasKey
  <2>9. template' \in Template /\ "shared" \in secrets' /\ WellFormed(template'.providers) /\ Resolves(template'.providers)
    BY <1>3 DEF CatalogInv, CatalogTypes
  <2>10. llm' \in LlmReq \cup {Unset}
    BY <2>1, <2>2
  <2> QED BY <1>1, <1>3, <1>4, <2>7, <2>8, <2>9, <2>10, LlmStep
<1> QED BY <1>6, <1>7

\* The list as it was is the rewritten one's rewriting.
LEMMA RewritesBack ==
  ASSUME NEW ps, WellFormed(ps), NEW qs, NEW name, NEW es, Rewrites(ps, qs, name, es)
  PROVE  Rewrites(qs, ps, name, Own(ps, name))
BY DEF Rewrites

\* Two fields of an entry assigned at once, each where it differs.
Assigned(ps, i, models, m, ref, r) ==
  [ps EXCEPT ![i].models = IF models THEN m ELSE @, ![i].ref = IF ref THEN r ELSE @]

LEMMA TwoFields ==
  ASSUME NEW ps \in Seq(Provider), NEW i \in DOMAIN ps, NEW models \in BOOLEAN, NEW ref \in BOOLEAN,
         NEW m, NEW r, models \/ m = ps[i].models, ref \/ r = ps[i].ref,
         NEW e \in Provider, e.name = ps[i].name, e.models = m, e.ref = r,
         NEW qs, qs = Assigned(ps, i, models, m, ref, r)
  PROVE  qs = [ps EXCEPT ![i] = e]
<1> DEFINE f == [ps[i] EXCEPT !.models = IF models THEN m ELSE @, !.ref = IF ref THEN r ELSE @]
<1>1. f = e
  <2>1. ps[i] \in Provider
    OBVIOUS
  <2>2. f.name = ps[i].name /\ f.models = m /\ f.ref = r
    BY <2>1 DEF Provider
  <2>3. f \in Provider
    BY <2>1 DEF Provider
  <2> HIDE DEF f
  <2> QED BY <2>2, <2>3 DEF Provider
<1>2. qs = [ps EXCEPT ![i] = f]
  BY DEF Assigned
<1> QED BY <1>1, <1>2

\* The entry a request of the editor leaves behind.
EntryOf(r) == [name |-> r.name, models |-> r.models, ref |-> CredentialRef(r)]
EntriesOf(r) == IF r.kind = "delete" THEN {} ELSE {EntryOf(r)}

LEMMA EntryIs ==
  ASSUME CatalogInv, llm # Unset, llm.at = "patch"
  PROVE  /\ EntryOf(llm) \in Provider /\ RefForm(EntryOf(llm))
         /\ EntryOf(llm).name = llm.name /\ EntryOf(llm).models = llm.models /\ EntryOf(llm).ref = CredentialRef(llm)
<1>1. llm \in LlmReq /\ Found(llm) /\ WellFormed(template.providers)
  BY DEF CatalogInv, CatalogTypes, LlmSound
<1>2. llm.name \in ProviderNames /\ llm.models \in SUBSET Ids
  BY <1>1, LlmFields DEF ProviderNames
<1>3. CredentialRef(llm) \in {Unset, "shared", llm.name}
  <2>1. CASE llm.public \/ llm.kind = "post" \/ llm.key
    BY <2>1 DEF CredentialRef, llmCredentialName
  <2>2. CASE ~(llm.public \/ llm.kind = "post" \/ llm.key)
    <3>1. llm.index \in DOMAIN template.providers /\ llm.previous = template.providers[llm.index] /\ llm.previous.name = llm.name
      BY <1>1, <2>2 DEF Found
    <3>2. RefForm(llm.previous)
      BY <1>1, <3>1, OwnIs
    <3> QED BY <2>2, <3>1, <3>2 DEF CredentialRef, RefForm
  <2> QED BY <2>1, <2>2
<1> HIDE DEF CatalogInv
<1> QED BY <1>2, <1>3 DEF EntryOf, RefForm, Provider

LEMMA PatchedIs ==
  ASSUME CatalogInv, llm # Unset, llm.at = "patch", NEW qs, qs = PatchedProviders(llm)
  PROVE  /\ Rewrites(template.providers, qs, llm.name, EntriesOf(llm))
         /\ llm.kind = "post" => qs = Append(template.providers, EntryOf(llm))
         /\ llm.kind = "put" => qs = [template.providers EXCEPT ![llm.index] = EntryOf(llm)]
<1> DEFINE ps == template.providers
           e == EntryOf(llm)
<1>1. llm \in LlmReq /\ Found(llm) /\ WellFormed(ps)
  BY DEF CatalogInv, CatalogTypes, LlmSound
<1>2. e \in Provider /\ RefForm(e) /\ e.name = llm.name /\ e.models = llm.models /\ e.ref = CredentialRef(llm)
  BY EntryIs
<1>3. ps \in Seq(Provider)
  BY <1>1 DEF WellFormed
<1>4. CASE llm.kind = "post"
  <2>1. Own(ps, llm.name) = {} /\ (llm.first => ps = <<>>)
    BY <1>1, <1>4 DEF Found
  <2>2. qs = IF llm.first THEN <<e>> ELSE Append(ps, e)
    BY <1>4 DEF PatchedProviders, EntryOf
  <2> HIDE DEF e
  <2>3. qs = Append(ps, e)
    <3> \A x \in Provider : <<x>> = Append(<<>>, x)
      OBVIOUS
    <3> QED BY <1>2, <2>1, <2>2
  <2>4. \A i \in DOMAIN ps : ps[i].name # e.name
    BY <1>2, <2>1 DEF Own, Range
  <2>5. Rewrites(ps, qs, llm.name, {e})
    <3> HIDE DEF ps
    <3> QED BY <1>1, <1>2, <2>3, <2>4, AppendRewrites
  <2> QED BY <1>4, <2>3, <2>5 DEF EntriesOf, e
<1>5. CASE llm.kind # "post"
  <2> DEFINE i == llm.index
  <2>1. i \in DOMAIN ps /\ llm.previous = ps[i] /\ ps[i].name = llm.name
    BY <1>1, <1>5 DEF Found
  <2>2. ~(llm.index > Len(ps))
    BY <1>3, <2>1
  <2>3. CASE llm.kind = "delete"
    <3>1. qs = RemoveAt(ps, i)
      BY <2>2, <2>3 DEF PatchedProviders
    <3> HIDE DEF ps, i
    <3>2. Rewrites(ps, qs, ps[i].name, {})
      BY <1>1, <2>1, <3>1, RemoveRewrites
    <3> QED BY <2>1, <2>3, <3>2 DEF EntriesOf, ps
  <2>4. CASE llm.kind # "delete"
    <3>1. qs = [ps EXCEPT ![i].models = IF llm.models = llm.previous.models THEN @ ELSE llm.models,
                          ![i].ref = IF CredentialRef(llm) = llm.previous.ref THEN @ ELSE CredentialRef(llm)]
      BY <1>5, <2>2, <2>4 DEF PatchedProviders
    <3>2. PICK b, c \in BOOLEAN : b = (llm.models # llm.previous.models) /\ c = (CredentialRef(llm) # llm.previous.ref)
      OBVIOUS
    <3>3. qs = Assigned(ps, i, b, llm.models, c, CredentialRef(llm))
      BY <3>1, <3>2 DEF Assigned
    <3>4. (b \/ llm.models = ps[i].models) /\ (c \/ CredentialRef(llm) = ps[i].ref)
      BY <2>1, <3>2
    <3> HIDE DEF ps, i
    <3> HIDE DEF e
    <3>6. qs = [ps EXCEPT ![i] = e]
      BY <1>2, <1>3, <2>1, <3>3, <3>4, TwoFields
    <3>7. Rewrites(ps, qs, e.name, {e})
      BY <1>1, <1>2, <2>1, <3>6, ReplaceRewrites
    <3> QED BY <1>2, <1>5, <2>4, <3>6, <3>7 DEF EntriesOf, ps, e, i
  <2> QED BY <1>5, <2>3, <2>4
<1> QED BY <1>4, <1>5

\* A patch takes no selected model away.
LEMMA PatchedResolves ==
  ASSUME CatalogInv, llm # Unset, llm.at = "patch"
  PROVE  Resolves(PatchedProviders(llm))
<1> DEFINE ps == template.providers
           qs == PatchedProviders(llm)
           e == EntryOf(llm)
<1>1. llm \in LlmReq /\ Found(llm) /\ WellFormed(ps) /\ Resolves(ps)
  BY DEF CatalogInv, CatalogTypes, LlmSound
<1>2. Rewrites(ps, qs, llm.name, EntriesOf(llm))
  BY PatchedIs
<1>3. SelectedRefs \subseteq Refs \cup {Unset}
  BY SelectedAreRefs DEF CatalogInv, CatalogTypes
<1> HIDE DEF qs
<1>4. ASSUME NEW ref \in SelectedRefs, Picked(ref) PROVE Lists(qs, ref)
  <2>1. ref \in Refs /\ Lists(ps, ref)
    BY <1>1, <1>3, <1>4 DEF Resolves, Picked
  <2>2. CASE ref[1] # llm.name
    <3> HIDE DEF ps
    <3> QED BY <1>1, <1>2, <2>1, <2>2, StillLists
  <2>3. CASE ref[1] = llm.name
    <3>1. PICK p \in Range(ps) : ref[1] = p.name /\ ref[2] \in p.models
      BY <2>1 DEF Lists
    <3>2. p \in Own(ps, llm.name)
      BY <2>3, <3>1 DEF Own
    <3>3. llm.kind # "post"
      BY <1>1, <3>2 DEF Found
    <3>4. p = llm.previous
      BY <1>1, <3>2, <3>3, OwnIs DEF Found
    <3>5. ref = <<llm.name, ref[2]>>
      BY <2>1, <2>3, RefIs
    <3>6. ref \notin Removed(llm, llm.previous)
      BY <3>3 DEF CatalogInv, LlmSound
    <3>7. llm.kind # "delete" /\ ref[2] \in llm.models
      BY <2>3, <3>1, <3>4, <3>5, <3>6 DEF Removed, RefsOf
    <3>8. e \in Range(qs)
      BY <1>2, <3>7, RewritesIs DEF EntriesOf
    <3>9. e.name = llm.name /\ e.models = llm.models
      BY EntryIs
    <3> QED BY <2>3, <3>7, <3>8, <3>9 DEF Lists
  <2> QED BY <2>2, <2>3
<1> QED BY <1>4 DEF Resolves, qs

\* Every entry keeps its Secret, but for the one the request is about to write.
LEMMA PatchedKeys ==
  ASSUME CatalogInv, llm # Unset, llm.at = "patch", mishap # "lost"
  PROVE  /\ \A p \in Range(template.providers) : HasKey(p)
         /\ \A p \in Range(PatchedProviders(llm)) : HasKey(p) \/ (CredentialStep(llm) = "write" /\ p.name = llm.name)
<1> DEFINE ps == template.providers
           qs == PatchedProviders(llm)
           e == EntryOf(llm)
<1>1. llm \in LlmReq /\ Found(llm) /\ WellFormed(ps)
  BY DEF CatalogInv, CatalogTypes, LlmSound
<1>2. Rewrites(ps, qs, llm.name, EntriesOf(llm))
  BY PatchedIs
<1>3. \A p \in Range(ps) : HasKey(p)
  BY DEF CatalogInv, KeysThere, Writing
<1> HIDE DEF qs
<1>4. ASSUME NEW p \in Range(qs) PROVE HasKey(p) \/ (CredentialStep(llm) = "write" /\ p.name = llm.name)
  <2>1. CASE p.name # llm.name
    BY <1>2, <1>3, <2>1, RewritesIs
  <2>2. CASE p.name = llm.name
    <3>1. p = e /\ llm.kind # "delete"
      BY <1>2, <2>2, RewritesIs DEF EntriesOf
    <3>2. p.ref = CredentialRef(llm)
      BY <3>1, EntryIs
    <3>3. CASE llm.public
      BY <3>2, <3>3 DEF CredentialRef, HasKey
    <3>4. CASE ~llm.public /\ llm.key
      BY <2>2, <3>1, <3>4 DEF CredentialStep
    <3>5. CASE ~llm.public /\ ~llm.key
      <4>1. llm.kind # "post"
        BY <3>5 DEF CatalogInv, LlmSound
      <4>2. p.ref = llm.previous.ref
        BY <3>2, <3>5, <4>1 DEF CredentialRef
      <4>3. llm.previous \in Range(ps)
        BY <1>1, <4>1 DEF Found, Range
      <4> QED BY <1>3, <4>2, <4>3 DEF HasKey
    <3> QED BY <3>3, <3>4, <3>5
  <2> QED BY <2>1, <2>2
<1> QED BY <1>3, <1>4 DEF qs

\* A Secret that is to be deleted belongs to no entry any more.
LEMMA PatchedFrees ==
  ASSUME CatalogInv, llm # Unset, llm.at = "patch", CredentialStep(llm) = "delete"
  PROVE  llm.previous.ref = llm.name /\ \A p \in Range(PatchedProviders(llm)) : p.ref # llm.name
<1> DEFINE ps == template.providers
           qs == PatchedProviders(llm)
           e == EntryOf(llm)
<1>1. llm \in LlmReq /\ Found(llm) /\ WellFormed(ps) /\ llm.name \in Externals
  BY LlmFields DEF CatalogInv, CatalogTypes, LlmSound
<1>2. Rewrites(ps, qs, llm.name, EntriesOf(llm))
  BY PatchedIs
<1>3. (llm.kind = "delete" \/ llm.public) /\ llm.previous.ref = llm.name
  BY DEF CredentialStep, llmCredentialName
<1>4. llm.name # Unset /\ llm.name # "shared"
  BY <1>1, CatalogAssumption
<1> HIDE DEF qs
<1>5. ASSUME NEW p \in Range(qs) PROVE p.ref # llm.name
  <2>1. CASE p.name # llm.name
    <3>1. RefForm(p)
      BY <1>2, InRange DEF Rewrites
    <3> QED BY <1>4, <2>1, <3>1 DEF RefForm
  <2>2. CASE p.name = llm.name
    <3>1. p = e /\ llm.kind # "delete"
      BY <1>2, <2>2, RewritesIs DEF EntriesOf
    <3>2. p.ref = Unset
      BY <1>3, <3>1, EntryIs DEF CredentialRef
    <3> QED BY <1>4, <3>2
  <2> QED BY <2>1, <2>2
<1> QED BY <1>3, <1>5 DEF qs

\* What the patch did can be undone.
LEMMA PatchedBack ==
  ASSUME CatalogInv, llm # Unset, llm.at = "patch", llm.kind # "delete", NEW qs, qs = PatchedProviders(llm)
  PROVE  /\ llm.kind = "post" => RemoveAt(qs, ProviderIndex(qs, llm.name)) = template.providers
         /\ llm.kind = "put" => [qs EXCEPT ![llm.index] = llm.previous] = template.providers
<1> DEFINE ps == template.providers
           e == EntryOf(llm)
<1>1. llm \in LlmReq /\ Found(llm) /\ WellFormed(ps) /\ ps \in Seq(Provider)
  BY DEF CatalogInv, CatalogTypes, LlmSound, WellFormed
<1>2. e \in Provider /\ e.name = llm.name
  BY EntryIs
<1>3. CASE llm.kind = "post"
  <2> DEFINE i == ProviderIndex(qs, llm.name)
             n == Len(ps) + 1
  <2>1. qs = Append(ps, e)
    BY <1>3, PatchedIs
  <2> HIDE DEF e
  <2>2. /\ qs \in Seq(Provider) /\ DOMAIN qs = DOMAIN ps \cup {n} /\ n \notin DOMAIN ps /\ qs[n] = e
        /\ \A k \in DOMAIN ps : qs[k] = ps[k]
    BY <1>1, <1>2, <2>1
  <2> HIDE DEF n
  <2>3. \A k \in DOMAIN ps : ps[k].name # llm.name
    BY <1>1, <1>3 DEF Found, Own, Range
  <2>4. i # 0
    BY <1>2, <2>2, IndexIs
  <2>5. i \in DOMAIN qs /\ qs[i].name = llm.name
    BY <2>2, <2>4, IndexIs
  <2>6. i = n
    BY <2>2, <2>3, <2>5
  <2>7. RemoveAt(qs, i) = RemoveAt(Append(ps, e), Len(ps) + 1)
    BY <2>1, <2>6 DEF n
  <2> HIDE DEF ps, i
  <2>8. RemoveAt(qs, i) = ps
    BY <1>1, <1>2, <2>7, RemoveAppended
  <2> QED BY <1>3, <2>8 DEF ps, i
<1>4. CASE llm.kind # "post"
  <2>1. llm.kind = "put"
    BY <1>1, <1>4, LlmFields
  <2>2. qs = [ps EXCEPT ![llm.index] = e]
    BY <2>1, PatchedIs
  <2>3. llm.index \in DOMAIN ps /\ llm.previous = ps[llm.index]
    BY <1>1, <1>4 DEF Found
  <2> HIDE DEF ps, e
  <2>4. [qs EXCEPT ![llm.index] = ps[llm.index]] = ps
    <3> DEFINE rs == [qs EXCEPT ![llm.index] = ps[llm.index]]
    <3>1. qs \in Seq(Provider) /\ Len(qs) = Len(ps) /\ \A k \in DOMAIN ps : k # llm.index => qs[k] = ps[k]
      BY <1>1, <1>2, <2>2, <2>3
    <3>2. ps[llm.index] \in Provider
      BY <1>1, <2>3
    <3>3. rs \in Seq(Provider) /\ Len(rs) = Len(ps) /\ \A k \in DOMAIN ps : rs[k] = ps[k]
      <4>1. DOMAIN qs = DOMAIN ps
        BY <1>1, <3>1
      <4>2. rs \in Seq(Provider) /\ Len(rs) = Len(qs)
        <5>1. PICK x \in Provider : x = ps[llm.index]
          BY <3>2
        <5>2. PICK i \in DOMAIN qs : i = llm.index
          BY <2>3, <4>1
        <5>3. [qs EXCEPT ![i] = x] \in Seq(Provider) /\ Len([qs EXCEPT ![i] = x]) = Len(qs)
          BY <3>1
        <5> QED BY <5>1, <5>2, <5>3
      <4>3. \A k \in DOMAIN qs : rs[k] = IF k = llm.index THEN ps[k] ELSE qs[k]
        BY <3>1
      <4> HIDE DEF rs
      <4> QED BY <2>3, <3>1, <4>1, <4>2, <4>3
    <3> HIDE DEF rs
    <3>4. rs = ps
      BY <1>1, <3>3
    <3> QED BY <3>4 DEF rs
  <2> QED BY <1>4, <2>3, <2>4 DEF ps
<1> QED BY <1>3, <1>4

\* What the template becomes when a patch is taken.
LEMMA LlmTaken ==
  ASSUME CatalogInv, llm # Unset, llm.at = "patch", template' = Written(PatchedProviders(llm), template.defaultModel)
  PROVE  /\ template' \in Template /\ template'.providers = PatchedProviders(llm)
         /\ WellFormed(template'.providers) /\ Resolves(template'.providers)
<1>1. Rewrites(template.providers, PatchedProviders(llm), llm.name, EntriesOf(llm))
  BY PatchedIs
<1>2. PatchedProviders(llm) \in Seq(Provider) /\ WellFormed(PatchedProviders(llm))
  BY <1>1 DEF Rewrites, WellFormed
<1>3. template \in Template /\ template.defaultModel \in Refs \cup {Unset}
  BY DEF CatalogInv, CatalogTypes, Template
<1>4. template' \in Template /\ template'.providers = PatchedProviders(llm)
  BY <1>2, <1>3, WrittenIs
<1>5. Resolves(PatchedProviders(llm))
  BY PatchedResolves
<1> QED BY <1>2, <1>4, <1>5

LEMMA LlmPatchesInv ==
  ASSUME CatalogInv, LlmPatches
  PROVE  CatalogInv'
<1> DEFINE qs == PatchedProviders(llm)
           ok == qs # Unset /\ Admits([template EXCEPT !.providers = qs])
<1>1. llm \in LlmReq /\ llm # Unset /\ llm.at = "patch" /\ mishap \in {"none", "refused", "lost"} /\ template \in Template
  BY DEF LlmPatches, CatalogInv, CatalogTypes
<1>2. PICK outcome \in {"done", "refused", "lost"} :
         /\ Call(outcome)
         /\ template' = IF ok /\ Took(outcome) THEN Written(qs, template.defaultModel) ELSE template
         /\ llm' = IF ~ok \/ outcome # "done" THEN Answered(llm, "failed")
                   ELSE IF CredentialStep(llm) = "none" THEN Answered(llm, "ok")
                   ELSE [llm EXCEPT !.at = "credential", !.patched = template'.resourceVersion]
  BY DEF LlmPatches
<1>3. UNCHANGED <<secrets, instances, live, save>>
  BY DEF LlmPatches
<1>4. /\ mishap' \in {"none", "refused", "lost"} /\ (mishap' # "lost" => mishap # "lost")
      /\ (outcome = "done" => mishap' = mishap) /\ (outcome # "done" => mishap' = outcome)
  BY <1>1, <1>2, CallIs
<1>5. ~Writing /\ Found(llm) /\ "shared" \in secrets'
  BY <1>1, <1>3 DEF Writing, CatalogInv, LlmSound, CatalogTypes
<1> HIDE DEF ok
<1>6. CASE ~(ok /\ Took(outcome))
  <2>1. template' = template
    BY <1>2, <1>6
  <2>2. llm' = Answered(llm, "failed")
    BY <1>2, <1>6 DEF Took
  <2> QED BY <1>1, <1>3, <1>4, <1>5, <2>1, <2>2, LlmFails
<1>7. CASE ok /\ Took(outcome)
  <2>1. template' = Written(qs, template.defaultModel)
    BY <1>2, <1>7
  <2>2. template' \in Template /\ template'.providers = qs /\ WellFormed(template'.providers) /\ Resolves(template'.providers)
    BY <1>1, <2>1, LlmTaken
  <2>3. CASE outcome = "lost"
    <3>1. llm' = Answered(llm, "failed")
      BY <1>2, <2>3
    <3>2. llm' \in LlmReq \cup {Unset} /\ LlmSound'
      BY <1>1, <3>1, LlmAnswered DEF LlmSound
    <3>3. KeysThere'
      BY <1>4, <2>3 DEF KeysThere
    <3> HIDE DEF qs
    <3> QED BY <1>1, <1>3, <1>4, <1>5, <2>2, <3>2, <3>3, LlmStep
  <2>4. CASE outcome = "done" /\ CredentialStep(llm) = "none"
    <3>1. llm' = Answered(llm, "ok")
      BY <1>2, <1>7, <2>4
    <3>2. llm' \in LlmReq \cup {Unset} /\ LlmSound'
      BY <1>1, <3>1, LlmAnswered DEF LlmSound
    <3>3. KeysThere'
      <4>1. mishap' # "lost" => \A p \in Range(qs) : HasKey(p)
        BY <1>1, <1>4, <2>4, PatchedKeys
      <4> QED BY <1>3, <2>2, <4>1 DEF KeysThere, HasKey
    <3> HIDE DEF qs
    <3> QED BY <1>1, <1>3, <1>4, <1>5, <2>2, <3>2, <3>3, LlmStep
  <2>5. CASE outcome = "done" /\ CredentialStep(llm) # "none"
    <3>1. PICK v \in Nat : v = template'.resourceVersion
      BY <2>2 DEF Template
    <3>2. llm' = [llm EXCEPT !.at = "credential", !.patched = v]
      BY <1>2, <1>7, <2>5, <3>1
    <3>3. [llm EXCEPT !.at = "credential", !.patched = v] \in LlmReq
      BY <1>1 DEF LlmReq
    <3>4. /\ llm'.at = "credential" /\ llm'.patched = v /\ llm'.kind = llm.kind /\ llm'.name = llm.name
          /\ llm'.key = llm.key /\ llm'.public = llm.public /\ llm'.models = llm.models
          /\ llm'.previous = llm.previous /\ llm'.index = llm.index
      BY <1>1, <3>2 DEF LlmReq
    <3>5. llm' \in LlmReq \cup {Unset} /\ llm' # Unset
      <4>1. llm' \in LlmReq
        BY <3>2, <3>3
      <4>2. llm' # Unset
        BY <4>1, RequestAssumption
      <4> QED BY <4>1, <4>2
    <3>6. CredentialStep(llm)' = CredentialStep(llm)
      BY <3>4 DEF CredentialStep
    <3>7. KeysThere'
      <4>1. Writing' <=> CredentialStep(llm) = "write"
        BY <3>4, <3>5, <3>6 DEF Writing
      <4>2. mishap' # "lost" => \A p \in Range(qs) : HasKey(p) \/ (CredentialStep(llm) = "write" /\ p.name = llm.name)
        BY <1>1, <1>4, <2>5, PatchedKeys
      <4> HIDE DEF qs
      <4> QED BY <1>3, <2>2, <3>4, <4>1, <4>2 DEF KeysThere, HasKey
    <3>8. LlmSound'
      <4>1. llm.kind # "delete" => UndoneProviders(llm)' = template.providers
        <5>1. llm.kind # "delete" => UndoneProviders(llm)' = IF llm.kind = "post" THEN RemoveAt(qs, ProviderIndex(qs, llm.name))
                                                             ELSE [qs EXCEPT ![llm.index] = llm.previous]
          BY <2>2, <3>4 DEF UndoneProviders
        <5>2. llm.kind # "delete" => llm.kind = "post" \/ llm.kind = "put"
          BY <1>1, LlmFields
        <5> QED BY <1>1, <5>1, <5>2, PatchedBack
      <4>2. WellFormed(template.providers) /\ Resolves(template.providers)
        BY DEF CatalogInv
      <4>3. Rewrites(qs, template.providers, llm.name, Own(template.providers, llm.name))
        BY <1>1, <4>2, PatchedIs, RewritesBack
      <4>4. SelectedRefs' = SelectedRefs
        BY <1>3 DEF SelectedRefs
      <4>5. mishap' # "lost" => \A p \in Range(template.providers) : HasKey(p)'
        BY <1>1, <1>3, <1>4, PatchedKeys DEF HasKey
      <4>6. CredentialStep(llm) = "delete" => llm.previous.ref = llm.name /\ \A p \in Range(qs) : p.ref # llm.name
        BY <1>1, PatchedFrees
      <4> HIDE DEF qs
      <4>7. Half(llm)'
        <5>1. (CredentialStep(llm) # "none" /\ template.resourceVersion = llm.patched)'
          BY <2>5, <3>1, <3>4, <3>6
        <5>2. ASSUME llm'.kind # "delete"
              PROVE  /\ Rewrites(template.providers, UndoneProviders(llm), llm.name, Own(UndoneProviders(llm), llm.name))'
                     /\ Resolves(UndoneProviders(llm))'
                     /\ (mishap # "lost" => \A p \in Range(UndoneProviders(llm)) : HasKey(p))'
          <6>1. UndoneProviders(llm)' = template.providers
            BY <3>4, <4>1, <5>2
          <6>2. Rewrites(template.providers, UndoneProviders(llm), llm.name, Own(UndoneProviders(llm), llm.name))'
            BY <2>2, <3>4, <4>3, <6>1
          <6>3. Resolves(UndoneProviders(llm))'
            BY <4>2, <4>4, <6>1 DEF Resolves
          <6>4. (mishap # "lost" => \A p \in Range(UndoneProviders(llm)) : HasKey(p))'
            BY <4>5, <6>1
          <6> QED BY <6>2, <6>3, <6>4
        <5>3. (CredentialStep(llm) = "delete" => llm.previous.ref = llm.name /\ \A p \in Range(template.providers) : p.ref # llm.name)'
          BY <2>2, <3>4, <3>6, <4>6
        <5>4. llm'.at # "undo"
          BY <3>4
        <5> QED BY <5>1, <5>2, <5>3, <5>4 DEF Half
      <4> QED BY <1>1, <3>4, <4>7 DEF CatalogInv, LlmSound
    <3> HIDE DEF qs
    <3> QED BY <1>1, <1>3, <1>4, <1>5, <2>2, <3>5, <3>7, <3>8, LlmStep
  <2> QED BY <2>3, <2>4, <2>5, <1>7 DEF Took
<1> QED BY <1>6, <1>7

LEMMA LlmCredentialInv ==
  ASSUME CatalogInv, LlmCredential
  PROVE  CatalogInv'
<1> DEFINE ps == template.providers
<1>1. llm \in LlmReq /\ llm # Unset /\ llm.at = "credential" /\ mishap \in {"none", "refused", "lost"} /\ template \in Template
  BY DEF LlmCredential, CatalogInv, CatalogTypes
<1>2. PICK outcome \in {"done", "refused", "lost"} :
         /\ Call(outcome)
         /\ secrets' = IF Took(outcome) THEN SecretsAfter(llm) ELSE secrets
         /\ llm' = IF outcome = "done" \/ llm.kind = "delete" THEN Answered(llm, "ok")
                   ELSE [llm EXCEPT !.at = "undo"]
  BY DEF LlmCredential
<1>3. UNCHANGED <<template, instances, live, save>>
  BY DEF LlmCredential
<1>4. /\ mishap' \in {"none", "refused", "lost"} /\ (mishap' # "lost" => mishap # "lost")
      /\ (outcome = "done" => mishap' = mishap) /\ (outcome # "done" => mishap' = outcome)
  BY <1>1, <1>2, CallIs
<1>5. Half(llm) /\ llm.name \in Externals /\ llm.name # "shared" /\ llm.name # Unset
  BY <1>1, LlmFields, CatalogAssumption DEF CatalogInv, LlmSound
<1>6. CredentialStep(llm) \in {"write", "delete"}
  BY <1>5 DEF Half, CredentialStep
<1>7. SecretsAfter(llm) = IF CredentialStep(llm) = "write" THEN secrets \cup {llm.name} ELSE secrets \ {llm.name}
  BY <1>5, <1>6 DEF SecretsAfter, Half, llmCredentialName
<1>8. "shared" \in secrets'
  BY <1>2, <1>5, <1>7 DEF CatalogInv, CatalogTypes
<1>9. WellFormed(ps) /\ template' \in Template /\ WellFormed(template'.providers) /\ Resolves(template'.providers)
  BY <1>3 DEF CatalogInv, CatalogTypes
<1>10. ASSUME outcome # "refused" PROVE KeysThere'
  <2>1. SUFFICES ASSUME mishap' # "lost", NEW p \in Range(ps)
                 PROVE  HasKey(p)'
    BY <1>3 DEF KeysThere
  <2>2. outcome = "done" /\ mishap # "lost"
    BY <1>4, <1>10, <2>1
  <2>3. secrets' = SecretsAfter(llm)
    BY <1>2, <2>2 DEF Took
  <2>4. RefForm(p) /\ (HasKey(p) \/ (Writing /\ p.name = llm.name))
    BY <1>9, <2>2, InRange DEF CatalogInv, KeysThere
  <2>5. CASE CredentialStep(llm) = "write"
    BY <1>7, <1>8, <2>3, <2>4, <2>5 DEF RefForm, HasKey
  <2>6. CASE CredentialStep(llm) = "delete"
    <3>1. p.ref # llm.name
      BY <1>5, <2>6 DEF Half
    <3>2. HasKey(p)
      BY <2>4, <2>6 DEF Writing
    <3> QED BY <1>7, <2>3, <2>6, <3>1, <3>2 DEF HasKey
  <2> QED BY <1>6, <2>5, <2>6
<1>11. CASE outcome = "done" \/ llm.kind = "delete"
  <2>1. llm' = Answered(llm, "ok")
    BY <1>2, <1>11
  <2>2. CASE outcome # "refused"
    <3>1. llm' \in LlmReq \cup {Unset} /\ LlmSound'
      BY <1>1, <2>1, LlmAnswered DEF LlmSound
    <3> QED BY <1>1, <1>3, <1>4, <1>8, <1>9, <1>10, <2>2, <3>1, LlmStep
  <2>3. CASE outcome = "refused"
    <3>1. secrets' = secrets /\ ~Writing
      BY <1>2, <1>11, <2>3 DEF Took, Writing, CredentialStep
    <3> QED BY <1>1, <1>3, <1>4, <2>1, <3>1, LlmFails
  <2> QED BY <2>2, <2>3
<1>12. CASE outcome # "done" /\ llm.kind # "delete"
  <2>1. llm' = [llm EXCEPT !.at = "undo"]
    BY <1>2, <1>12
  <2>2. [llm EXCEPT !.at = "undo"] \in LlmReq
    BY <1>1 DEF LlmReq
  <2>3. /\ llm'.at = "undo" /\ llm'.patched = llm.patched /\ llm'.kind = llm.kind /\ llm'.name = llm.name
        /\ llm'.key = llm.key /\ llm'.public = llm.public /\ llm'.models = llm.models
        /\ llm'.previous = llm.previous /\ llm'.index = llm.index
    BY <1>1, <2>1 DEF LlmReq
  <2>4. llm' \in LlmReq \cup {Unset} /\ llm' # Unset
    BY <2>1, <2>2, RequestAssumption
  <2>5. CredentialStep(llm)' = CredentialStep(llm)
    BY <2>3 DEF CredentialStep
  <2>6. UndoneProviders(llm)' = UndoneProviders(llm)
    BY <1>3, <2>3 DEF UndoneProviders
  <2>7. KeysThere'
    <3>1. CASE outcome = "refused"
      <4>1. Writing' <=> Writing
        BY <1>1, <2>3, <2>4, <2>5 DEF Writing
      <4>2. secrets' = secrets
        BY <1>2, <3>1 DEF Took
      <4> QED BY <1>3, <1>4, <2>3, <4>1, <4>2 DEF CatalogInv, KeysThere, HasKey
    <3> QED BY <1>10, <3>1
  <2>8. SelectedRefs' = SelectedRefs
    BY <1>3 DEF SelectedRefs
  <2>9. mishap' # "lost" => secrets' = secrets
    BY <1>2, <1>4, <1>12 DEF Took
  <2>10. mishap' # "none"
    BY <1>4, <1>12
  <2>11. Half(llm)'
    <3>1. (CredentialStep(llm) # "none" /\ template.resourceVersion = llm.patched)'
      BY <1>3, <1>5, <2>3, <2>5 DEF Half
    <3>2. /\ Rewrites(template.providers, UndoneProviders(llm), llm.name, Own(UndoneProviders(llm), llm.name))'
          /\ Resolves(UndoneProviders(llm))'
      BY <1>3, <1>5, <1>12, <2>3, <2>6, <2>8 DEF Half, Resolves
    <3>3. (mishap # "lost" => \A p \in Range(UndoneProviders(llm)) : HasKey(p))'
      BY <1>4, <1>5, <1>12, <2>6, <2>9 DEF Half, HasKey
    <3>4. (CredentialStep(llm) = "delete" => llm.previous.ref = llm.name /\ \A p \in Range(template.providers) : p.ref # llm.name)'
      BY <1>3, <1>5, <2>3, <2>5 DEF Half
    <3>5. (llm.at = "undo" => mishap # "none" /\ llm.kind # "delete")'
      BY <1>12, <2>3, <2>10
    <3> QED BY <3>1, <3>2, <3>3, <3>4, <3>5 DEF Half
  <2>12. LlmSound'
    BY <1>1, <2>3, <2>11 DEF CatalogInv, LlmSound
  <2> QED BY <1>1, <1>3, <1>4, <1>8, <1>9, <2>4, <2>7, <2>12, LlmStep
<1> QED BY <1>11, <1>12

LEMMA LlmUndoInv ==
  ASSUME CatalogInv, LlmUndo
  PROVE  CatalogInv'
<1> DEFINE us == UndoneProviders(llm)
<1>1. llm \in LlmReq /\ llm # Unset /\ llm.at = "undo" /\ mishap \in {"none", "refused", "lost"} /\ template \in Template
  BY DEF LlmUndo, CatalogInv, CatalogTypes
<1>2. PICK outcome \in {"done", "refused", "lost"} :
         /\ Call(outcome)
         /\ template' = IF MayUndo(llm) /\ Took(outcome) THEN Written(us, template.defaultModel) ELSE template
  BY DEF LlmUndo
<1>3. UNCHANGED <<secrets, instances, live, save>> /\ llm' = Answered(llm, "failed")
  BY DEF LlmUndo
<1>4. Half(llm) /\ mishap # "none" /\ llm.kind # "delete"
  BY <1>1 DEF CatalogInv, LlmSound, Half
<1>5. outcome = "done" /\ mishap' = mishap
  BY <1>1, <1>2, <1>4, CallIs
<1>6. template' = Written(us, template.defaultModel)
  BY <1>2, <1>4, <1>5 DEF MayUndo, Took, Half
<1>7. WellFormed(us) /\ Resolves(us) /\ (mishap # "lost" => \A p \in Range(us) : HasKey(p))
  BY <1>4 DEF Half, Rewrites
<1>8. us \in Seq(Provider) /\ template.defaultModel \in Refs \cup {Unset}
  BY <1>1, <1>7 DEF WellFormed, Template
<1> HIDE DEF us
<1>9. template' \in Template /\ template'.providers = us
  BY <1>1, <1>6, <1>8, WrittenIs
<1>10. KeysThere'
  BY <1>3, <1>5, <1>7, <1>9 DEF KeysThere, HasKey
<1>11. llm' \in LlmReq \cup {Unset} /\ LlmSound'
  BY <1>1, <1>3, LlmAnswered DEF LlmSound
<1>12. "shared" \in secrets' /\ mishap' \in {"none", "refused", "lost"}
  BY <1>1, <1>3, <1>5 DEF CatalogInv, CatalogTypes
<1> QED BY <1>1, <1>3, <1>7, <1>9, <1>10, <1>11, <1>12, LlmStep

-----------------------------------------------------------------------------
(* The saves of a configuration *)

\* A save writes no entry that needs a Secret.
LEMMA SaveStep ==
  ASSUME CatalogInv, save # Unset, UNCHANGED <<secrets, live, llm>>, template' \in Template,
         mishap' \in {"none", "refused", "lost"}, mishap' # "lost" => mishap # "lost",
         instances' \in [Range(InstanceName) -> Instance \cup {Unset}], save' \in SaveReq \cup {Unset},
         WellFormed(template'.providers), Resolves(template.providers)', SaveSound',
         \A p \in Range(template'.providers) : p \in Range(template.providers) \/ p.ref = Unset
  PROVE  CatalogInv'
<1>1. llm = Unset /\ llm' = Unset
  BY DEF CatalogInv, OneAtATime
<1>2. CatalogTypes'
  BY <1>1 DEF CatalogInv, CatalogTypes
<1>3. OneAtATime' /\ LlmSound'
  BY <1>1 DEF OneAtATime, LlmSound
<1>4. mishap # "lost" => \A p \in Range(template.providers) : HasKey(p)
  BY <1>1 DEF CatalogInv, KeysThere, Writing
<1>5. KeysThere'
  BY <1>4 DEF KeysThere, HasKey
<1> QED BY <1>2, <1>3, <1>5 DEF CatalogInv

LEMMA SaveFields ==
  ASSUME NEW r \in SaveReq
  PROVE  /\ r.from \in {"page", "other"} /\ r.user \in Callers /\ r.given \in BOOLEAN /\ r.selected \in Refs \cup {Unset}
         /\ r.at \in {"look", "resolve", "patch", "instance", "ok", "failed"} /\ r.saw \in Template \cup {Unset}
         /\ r.exists \in Instance \cup {Unset} /\ r.target \in GatewayNames \cup {Unset} /\ r.moves \in BOOLEAN
         /\ r.entries \in [GatewayNames -> SUBSET ChatIds]
BY DEF SaveReq

\* A save that goes on, or is over, with the catalogue as it was.
LEMMA SaveGoesOn ==
  ASSUME CatalogInv, save # Unset, UNCHANGED <<template, secrets, instances, live, llm>>,
         mishap' \in {"none", "refused", "lost"}, mishap' # "lost" => mishap # "lost",
         save' \in SaveReq \cup {Unset}, SaveSound'
  PROVE  CatalogInv'
<1>1. template' \in Template /\ instances' \in [Range(InstanceName) -> Instance \cup {Unset}] /\ WellFormed(template'.providers)
  BY DEF CatalogInv, CatalogTypes
<1>2. Resolves(template.providers)'
  BY DEF CatalogInv, Resolves, SelectedRefs
<1> QED BY <1>1, <1>2, SaveStep

LEMMA SaveFails ==
  ASSUME NEW r \in SaveReq, save' = Answered(r, "failed")
  PROVE  save' \in SaveReq \cup {Unset} /\ SaveSound'
<1>1. save' \in SaveReq \cup {Unset} /\ (save' # Unset => save'.at = "failed")
  BY SaveAnsweredIs
<1> QED BY <1>1 DEF SaveSound

LEMMA NameIs ==
  ASSUME NEW r \in SaveReq
  PROVE  NameOf(r) \in Range(InstanceName)
<1>1. r.user \in DOMAIN InstanceName
  BY SaveFields, CatalogAssumption
<1> QED BY <1>1 DEF NameOf, Range

LEMMA SaveLooksInv ==
  ASSUME CatalogInv, SaveLooks
  PROVE  CatalogInv'
<1>1. save \in SaveReq /\ save # Unset /\ save.at = "look" /\ mishap \in {"none", "refused", "lost"} /\ template \in Template
  BY DEF SaveLooks, CatalogInv, CatalogTypes
<1>2. PICK outcome \in {"done", "refused"} :
         /\ Call(outcome)
         /\ save' = IF outcome = "refused" THEN Answered(save, "failed")
                    ELSE [save EXCEPT !.at = "resolve", !.saw = template, !.exists = instances[NameOf(save)]]
  BY DEF SaveLooks
<1>3. UNCHANGED <<template, secrets, instances, live, llm>>
  BY DEF SaveLooks
<1>4. mishap' \in {"none", "refused", "lost"} /\ (mishap' # "lost" => mishap # "lost")
  BY <1>1, <1>2, CallIs
<1>5. save' \in SaveReq \cup {Unset} /\ SaveSound'
  <2>1. CASE outcome = "refused"
    BY <1>1, <1>2, <2>1, SaveFails
  <2>2. CASE outcome # "refused"
    <3>1. PICK cr \in Instance \cup {Unset} : cr = instances[NameOf(save)]
      BY <1>1, NameIs DEF CatalogInv, CatalogTypes
    <3>2. save' = [save EXCEPT !.at = "resolve", !.saw = template, !.exists = cr]
      BY <1>2, <2>2, <3>1
    <3>3. [save EXCEPT !.at = "resolve", !.saw = template, !.exists = cr] \in SaveReq
      BY <1>1 DEF SaveReq
    <3>4. save'.at = "resolve" /\ save'.saw = template
      BY <1>1, <3>2 DEF SaveReq
    <3>5. SaveSound'
      BY <1>3, <3>4 DEF SaveSound
    <3> QED BY <3>2, <3>3, <3>5
  <2> QED BY <2>1, <2>2
<1> QED BY <1>1, <1>3, <1>4, <1>5, SaveGoesOn

LEMMA SelectableHas ==
  ASSUME NEW t, NEW c, NEW ref
  PROVE  ref \in Selectable(t, c) <=> ref \in Served(c) \/ \E p \in ExternalProviders(t) : ref \in RefsOf(p)
<1> DEFINE U == UNION {RefsOf(p) : p \in ExternalProviders(t)}
<1>1. Selectable(t, c) = U \cup Served(c)
  BY DEF Selectable
<1>2. ref \in U <=> \E p \in ExternalProviders(t) : ref \in RefsOf(p)
  OBVIOUS
<1> HIDE DEF U
<1> QED BY <1>1, <1>2

\* A ref that a save may name is listed, when it is an external provider's.
LEMMA SelectableIs ==
  ASSUME NEW t \in Template, NEW c \in [GatewayNames -> SUBSET ChatIds], NEW ref \in Selectable(t, c)
  PROVE  ref \in Refs /\ (Picked(ref) => Lists(t.providers, ref))
<1>1. CASE ref \in Served(c)
  BY <1>1, CatalogAssumption DEF Served, Refs, ProviderNames, Picked
<1>2. CASE ref \notin Served(c)
  <2>1. PICK p \in Range(t.providers) : ref \in RefsOf(p)
    BY <1>2, SelectableHas DEF ExternalProviders
  <2>2. p \in Provider
    <3>1. t.providers \in Seq(Provider)
      BY DEF Template
    <3> QED BY <2>1, <3>1 DEF Range
  <2>3. ref \in Refs
    BY <2>1, <2>2 DEF RefsOf, Refs, Provider
  <2>4. ref[1] = p.name /\ ref[2] \in p.models
    BY <2>1 DEF RefsOf
  <2> QED BY <2>3, <2>4 DEF Lists
<1> QED BY <1>1, <1>2

LEMMA DerivedIs ==
  ASSUME NEW t, NEW c \in [GatewayNames -> SUBSET ChatIds], NEW ref, ref = Derived(t, c), ref # Unset
  PROVE  ref \in Selectable(t, c)
<1> DEFINE I == {i \in 1 .. Len(Gateways) : c[Gateways[i]] # {}}
           n == SelectInSeq(Gateways, LAMBDA g : c[g] # {})
<1>1. n = IF I # {} THEN Min(I) ELSE 0
  BY DEF SelectInSeq
<1>2. ref = IF n # 0 THEN <<Gateways[n], CHOOSE m \in c[Gateways[n]] : TRUE>>
            ELSE IF Selectable(t, c) = {} THEN Unset ELSE CHOOSE r \in Selectable(t, c) : TRUE
  BY DEF Derived
<1>3. CASE n # 0
  <2>1. n = Min(I) /\ I # {}
    BY <1>1, <1>3
  <2>2. n \in I
    <3> I \subseteq Nat
      OBVIOUS
    <3> HIDE DEF I, n
    <3> QED BY <2>1, MinIs
  <2>3. n \in 1 .. Len(Gateways) /\ c[Gateways[n]] # {}
    BY <2>2
  <2> HIDE DEF n, I
  <2>4. Gateways[n] \in GatewayNames
    <3>1. DOMAIN Gateways = 1 .. Len(Gateways)
      BY CatalogAssumption
    <3> QED BY <2>3, <3>1 DEF GatewayNames, Range
  <2>5. PICK m \in c[Gateways[n]] : ref = <<Gateways[n], m>>
    BY <1>2, <1>3, <2>3
  <2>6. m \in Ids
    BY <2>4, <2>5, CatalogAssumption
  <2>7. ref \in GatewayNames \X Ids /\ ref[2] \in c[ref[1]]
    BY <2>4, <2>5, <2>6
  <2> QED BY <2>7, SelectableHas DEF Served
<1>4. CASE n = 0
  <2> HIDE DEF n
  <2> QED BY <1>2, <1>4
<1> QED BY <1>3, <1>4

\* How a save goes on: it is refused, or has decided what to select.
LEMMA SaveResolvesIs ==
  ASSUME save \in SaveReq, save.saw \in Template, live \in [GatewayNames -> SUBSET ChatIds], SaveResolves
  PROVE  \/ save' = Answered(save, "failed")
         \/ /\ save' \in SaveReq /\ save'.at \in {"instance", "patch"} /\ save'.saw = save.saw
            /\ Picked(save'.selected) => Lists(save.saw.providers, save'.selected)
<1> DEFINE named == save.selected # Unset
           ref == IF named \/ save.given \/ save.exists # Unset THEN save.selected ELSE Derived(save.saw, live)
           moves == /\ ref # Unset /\ save.saw.defaultModel # ref
                    /\ named \/ \E g \in GatewayNames : live[g] # {}
           r == Resolved(save, ref, named)
<1>1. save' = IF named /\ ref \notin Selectable(save.saw, live) THEN Answered(save, "failed")
              ELSE [r EXCEPT !.at = IF NothingToPatch(r) THEN "instance" ELSE "patch"]
  BY DEF SaveResolves
<1>2. CASE named /\ ref \notin Selectable(save.saw, live)
  BY <1>1, <1>2
<1>3. CASE ~(named /\ ref \notin Selectable(save.saw, live))
  <2>1. ref = Unset \/ ref \in Selectable(save.saw, live)
    BY <1>3, DerivedIs
  <2> HIDE DEF ref
  <2>2. ref \in Refs \cup {Unset} /\ (Picked(ref) => Lists(save.saw.providers, ref))
    BY <2>1, SelectableIs DEF Picked
  <2>3. PICK to \in {"instance", "patch"} : to = IF NothingToPatch(r) THEN "instance" ELSE "patch"
    OBVIOUS
  <2>4. PICK b \in BOOLEAN : b = moves
    OBVIOUS
  <2>5. PICK target \in GatewayNames \cup {Unset} : target = IF ref # Unset /\ ref \in Served(live) THEN ref[1] ELSE Unset
    BY DEF Served
  <2> DEFINE q == [save EXCEPT !.entries = live, !.selected = ref, !.target = target, !.moves = b]
  <2>6. r = q
    BY <2>4, <2>5 DEF Resolved
  <2>7. q \in SaveReq /\ q.selected = ref /\ q.saw = save.saw
    BY <2>2 DEF SaveReq
  <2> HIDE DEF q
  <2>8. save' = [q EXCEPT !.at = to]
    BY <1>1, <1>3, <2>3, <2>6
  <2>9. [q EXCEPT !.at = to] \in SaveReq
    BY <2>7 DEF SaveReq
  <2>10. save'.at = to /\ save'.selected = ref /\ save'.saw = save.saw
    BY <2>7, <2>8 DEF SaveReq
  <2> QED BY <2>2, <2>8, <2>9, <2>10
<1> QED BY <1>2, <1>3

LEMMA SaveResolvesInv ==
  ASSUME CatalogInv, SaveResolves
  PROVE  CatalogInv'
<1>1. save \in SaveReq /\ save # Unset /\ save.at = "resolve" /\ mishap \in {"none", "refused", "lost"} /\ template \in Template
  BY DEF SaveResolves, CatalogInv, CatalogTypes
<1>2. UNCHANGED <<template, secrets, instances, live, llm, mishap>>
  BY DEF SaveResolves
<1>3. save.saw = template /\ live \in [GatewayNames -> SUBSET ChatIds]
  BY <1>1 DEF CatalogInv, SaveSound, CatalogTypes
<1>4. save' \in SaveReq \cup {Unset} /\ SaveSound'
  <2>1. CASE save' = Answered(save, "failed")
    BY <1>1, <2>1, SaveFails
  <2>2. CASE save' # Answered(save, "failed")
    BY <1>1, <1>2, <1>3, <2>2, SaveResolvesIs DEF SaveSound, Picked
  <2> QED BY <2>1, <2>2
<1> QED BY <1>1, <1>2, <1>4, SaveGoesOn

\* The platform's entry is written and no other.
LEMMA PlatformIs ==
  ASSUME CatalogInv, save # Unset, save.at = "patch", NEW qs, qs = WithPlatform(save)
  PROVE  /\ save.target = Unset => qs = template.providers
         /\ save.target # Unset => \E e \in Provider :
              e.ref = Unset /\ e.name = save.target /\ Rewrites(template.providers, qs, save.target, {e})
<1> DEFINE ps == template.providers
           i == ProviderIndex(ps, save.target)
           models == save.entries[save.target]
           e == [name |-> save.target, models |-> models, ref |-> Unset]
<1>1. save \in SaveReq /\ save.saw = template /\ WellFormed(ps) /\ ps \in Seq(Provider)
  BY DEF CatalogInv, CatalogTypes, SaveSound, WellFormed
<1>2. CASE save.target = Unset
  BY <1>2 DEF WithPlatform
<1>3. CASE save.target # Unset
  <2>1. save.target \in GatewayNames /\ models \in SUBSET Ids
    BY <1>1, <1>3, SaveFields, CatalogAssumption
  <2>2. e \in Provider /\ RefForm(e) /\ e.ref = Unset /\ e.name = save.target /\ e.models = models
    BY <2>1 DEF Provider, ProviderNames, RefForm
  <2>3. qs = IF ps = <<>> THEN <<e>> ELSE IF i = 0 THEN Append(ps, e) ELSE IF i > Len(ps) THEN Unset
             ELSE [ps EXCEPT ![i].models = IF ps[i].models = models THEN @ ELSE models,
                             ![i].ref = IF ps[i].ref = Unset THEN @ ELSE Unset]
    BY <1>1, <1>3 DEF WithPlatform
  <2> HIDE DEF e, models
  <2>4. CASE i = 0
    <3>1. qs = Append(ps, e)
      <4> \A x \in Provider : <<x>> = Append(<<>>, x)
        OBVIOUS
      <4> QED BY <2>2, <2>3, <2>4
    <3>2. \A j \in DOMAIN ps : ps[j].name # e.name
      BY <1>1, <2>2, <2>4, IndexIs
    <3> HIDE DEF ps
    <3>3. Rewrites(ps, qs, e.name, {e})
      BY <1>1, <2>2, <3>1, <3>2, AppendRewrites
    <3> QED BY <1>3, <2>2, <3>3 DEF ps
  <2>5. CASE i # 0
    <3>1. i \in DOMAIN ps /\ ps[i].name = save.target
      BY <1>1, <2>5, IndexIs
    <3>2. PICK b, c \in BOOLEAN : b = (ps[i].models # models) /\ c = (ps[i].ref # Unset)
      OBVIOUS
    <3>3. ps # <<>> /\ ~(i > Len(ps))
      BY <1>1, <3>1
    <3>4. qs = Assigned(ps, i, b, models, c, Unset)
      BY <2>3, <2>5, <3>2, <3>3 DEF Assigned
    <3>5. (b \/ models = ps[i].models) /\ (c \/ Unset = ps[i].ref)
      BY <3>2
    <3> HIDE DEF ps, i
    <3>6. qs = [ps EXCEPT ![i] = e]
      BY <1>1, <2>2, <3>1, <3>4, <3>5, TwoFields
    <3>7. Rewrites(ps, qs, e.name, {e})
      BY <1>1, <2>2, <3>1, <3>6, ReplaceRewrites
    <3> QED BY <1>3, <2>2, <3>7 DEF ps
  <2> QED BY <2>4, <2>5
<1> QED BY <1>2, <1>3

\* It takes no external model away and needs no Secret.
LEMMA PlatformKeeps ==
  ASSUME CatalogInv, save # Unset, save.at = "patch", NEW qs, qs = WithPlatform(save)
  PROVE  /\ WellFormed(qs)
         /\ \A ref : Picked(ref) /\ Lists(template.providers, ref) => Lists(qs, ref)
         /\ \A p \in Range(qs) : p \in Range(template.providers) \/ p.ref = Unset
<1>1. WellFormed(template.providers) /\ save \in SaveReq
  BY DEF CatalogInv, CatalogTypes
<1>2. CASE save.target = Unset
  <2> qs = template.providers
    BY <1>2, PlatformIs
  <2> QED BY <1>1
<1>3. CASE save.target # Unset
  <2>1. PICK e \in Provider : e.ref = Unset /\ e.name = save.target /\ Rewrites(template.providers, qs, save.target, {e})
    BY <1>3, PlatformIs
  <2>2. save.target \notin Externals
    BY <1>1, <1>3, SaveFields, CatalogAssumption
  <2>3. ASSUME NEW ref, Picked(ref), Lists(template.providers, ref) PROVE Lists(qs, ref)
    <3>1. ref[1] # save.target
      BY <2>2, <2>3 DEF Picked
    <3> QED BY <1>1, <2>1, <2>3, <3>1, StillLists
  <2>4. \A p \in Range(qs) : p \in Range(template.providers) \/ p.ref = Unset
    BY <2>1, RewritesIs
  <2> QED BY <2>1, <2>3, <2>4 DEF Rewrites
<1> QED BY <1>2, <1>3

LEMMA SavePatchesInv ==
  ASSUME CatalogInv, SavePatches
  PROVE  CatalogInv'
<1> DEFINE qs == WithPlatform(save)
           default == IF save.moves THEN save.selected ELSE template.defaultModel
           ok == qs # Unset /\ Admits([template EXCEPT !.providers = qs, !.defaultModel = default])
<1>1. save \in SaveReq /\ save # Unset /\ save.at = "patch" /\ mishap \in {"none", "refused", "lost"} /\ template \in Template
  BY DEF SavePatches, CatalogInv, CatalogTypes
<1>2. PICK outcome \in {"done", "refused", "lost"} :
         /\ Call(outcome)
         /\ template' = IF ok /\ Took(outcome) THEN Written(qs, default) ELSE template
         /\ save' = IF ok /\ outcome = "done" THEN [save EXCEPT !.at = "instance", !.saw = template']
                    ELSE Answered(save, "failed")
  BY DEF SavePatches
<1>3. UNCHANGED <<secrets, instances, live, llm>>
  BY DEF SavePatches
<1>4. mishap' \in {"none", "refused", "lost"} /\ (mishap' # "lost" => mishap # "lost")
  BY <1>1, <1>2, CallIs
<1>5. default \in Refs \cup {Unset}
  BY <1>1, SaveFields DEF Template
<1>6. /\ WellFormed(qs) /\ qs \in Seq(Provider)
      /\ \A ref : Picked(ref) /\ Lists(template.providers, ref) => Lists(qs, ref)
      /\ \A p \in Range(qs) : p \in Range(template.providers) \/ p.ref = Unset
  BY <1>1, PlatformKeeps DEF WellFormed
<1> HIDE DEF qs, default, ok
<1>7. template' \in Template /\ template'.providers \in {qs, template.providers} /\ (ok /\ Took(outcome) => template'.providers = qs)
  BY <1>1, <1>2, <1>5, <1>6, WrittenIs
<1>8. WellFormed(template'.providers) /\ \A p \in Range(template'.providers) : p \in Range(template.providers) \/ p.ref = Unset
  BY <1>6, <1>7 DEF CatalogInv
<1>9. Resolves(template.providers)'
  <2>1. SelectedRefs' = SelectedRefs
    BY <1>3 DEF SelectedRefs
  <2> QED BY <1>6, <1>7, <2>1 DEF CatalogInv, Resolves
<1>10. save' \in SaveReq \cup {Unset} /\ SaveSound'
  <2>1. CASE ~(ok /\ outcome = "done")
    <3>1. save' = Answered(save, "failed")
      BY <1>2, <2>1
    <3> QED BY <1>1, <3>1, SaveFails
  <2>2. CASE ok /\ outcome = "done"
    <3>1. PICK t \in Template : t = template'
      BY <1>7
    <3>2. save' = [save EXCEPT !.at = "instance", !.saw = t]
      BY <1>2, <2>2, <3>1
    <3>3. [save EXCEPT !.at = "instance", !.saw = t] \in SaveReq
      BY <1>1 DEF SaveReq
    <3>4. save'.at = "instance" /\ save'.saw = t /\ save'.selected = save.selected
      BY <1>1, <3>2 DEF SaveReq
    <3>5. template'.providers = qs
      BY <1>7, <2>2 DEF Took
    <3>6. Picked(save.selected) => Lists(qs, save.selected)
      BY <1>1, <1>6 DEF CatalogInv, SaveSound
    <3>7. SaveSound'
      BY <3>4, <3>5, <3>6 DEF SaveSound, Picked
    <3> QED BY <3>2, <3>3, <3>7
  <2> QED BY <2>1, <2>2
<1>11. instances' \in [Range(InstanceName) -> Instance \cup {Unset}]
  BY <1>3 DEF CatalogInv, CatalogTypes
<1> QED BY <1>1, <1>3, <1>4, <1>7, <1>8, <1>9, <1>10, <1>11, SaveStep

LEMMA SaveInstanceInv ==
  ASSUME CatalogInv, SaveInstance
  PROVE  CatalogInv'
<1> DEFINE n == NameOf(save)
           now == instances[n]
           there == IF save.exists = Unset THEN now ELSE save.exists
           foreign == there # Unset /\ there.owner # save.user
           w == IF now = Unset THEN [owner |-> save.user, selected |-> save.selected]
                ELSE IF save.exists # Unset /\ save.given THEN [now EXCEPT !.selected = save.selected]
                ELSE now
<1>1. save \in SaveReq /\ save # Unset /\ save.at = "instance" /\ mishap \in {"none", "refused", "lost"} /\ template \in Template
  BY DEF SaveInstance, CatalogInv, CatalogTypes
<1>2. PICK outcome \in {"done", "refused", "lost"} :
         /\ Call(outcome)
         /\ instances' = IF foreign \/ ~Took(outcome) THEN instances ELSE [instances EXCEPT ![n] = w]
         /\ save' = IF foreign \/ outcome # "done" THEN Answered(save, "failed")
                    ELSE Answered([save EXCEPT !.exists = w], "ok")
  BY DEF SaveInstance
<1>3. UNCHANGED <<template, secrets, live, llm>>
  BY DEF SaveInstance
<1>4. mishap' \in {"none", "refused", "lost"} /\ (mishap' # "lost" => mishap # "lost")
  BY <1>1, <1>2, CallIs
<1>5. n \in Range(InstanceName) /\ instances \in [Range(InstanceName) -> Instance \cup {Unset}]
  BY <1>1, NameIs DEF CatalogInv, CatalogTypes
<1>6. now \in Instance \cup {Unset} /\ save.user \in Callers /\ save.selected \in Refs \cup {Unset} /\ save.saw \in Template
  BY <1>1, <1>5, SaveFields DEF CatalogInv, SaveSound
<1> HIDE DEF n, foreign
<1>7. w \in Instance \cup {Unset} /\ (w # Unset => w.selected \in {save.selected, now.selected} /\ (now = Unset => w.selected = save.selected))
  <2>1. CASE now = Unset
    BY <1>6, <2>1 DEF Instance
  <2>2. CASE now # Unset
    <3> HIDE DEF now
    <3>1. [now EXCEPT !.selected = save.selected] \in Instance /\ [now EXCEPT !.selected = save.selected].selected = save.selected
      BY <1>6, <2>2 DEF Instance
    <3> QED BY <1>6, <2>2, <3>1
  <2> QED BY <2>1, <2>2
<1> HIDE DEF w
<1>8. instances' \in [Range(InstanceName) -> Instance \cup {Unset}]
  BY <1>2, <1>5, <1>7
<1>9. SelectedRefs' \subseteq SelectedRefs \cup {save.selected}
  <2>1. CASE instances' = instances
    BY <2>1 DEF SelectedRefs
  <2>2. CASE instances' = [instances EXCEPT ![n] = w]
    <3>1. instances'[n] = w /\ \A k \in Range(InstanceName) : k # n => instances'[k] = instances[k]
      BY <1>5, <2>2
    <3>2. DOMAIN instances = Range(InstanceName) /\ DOMAIN instances' = Range(InstanceName)
      BY <1>5, <1>8
    <3>3. ASSUME NEW k \in Range(InstanceName), instances'[k] # Unset
          PROVE  instances'[k].selected \in SelectedRefs \cup {save.selected}
      <4>1. CASE k # n
        BY <3>1, <3>2, <3>3, <4>1 DEF SelectedRefs
      <4>2. CASE k = n
        <5>1. w # Unset /\ instances'[k] = w
          BY <3>1, <3>3, <4>2
        <5>2. CASE now = Unset
          BY <1>7, <5>1, <5>2
        <5>3. CASE now # Unset
          <6>1. now.selected \in SelectedRefs
            BY <1>5, <3>2, <5>3 DEF SelectedRefs
          <6> QED BY <1>7, <5>1, <6>1
        <5> QED BY <5>2, <5>3
      <4> QED BY <4>1, <4>2
    <3> QED BY <3>2, <3>3 DEF SelectedRefs
  <2> QED BY <1>2, <2>1, <2>2
<1>10. Resolves(template.providers)'
  <2>1. Picked(save.selected) => Lists(template.providers, save.selected)
    BY <1>1 DEF CatalogInv, SaveSound
  <2> QED BY <1>3, <1>9, <2>1 DEF CatalogInv, Resolves
<1>11. save' \in SaveReq \cup {Unset} /\ SaveSound'
  <2>1. CASE foreign \/ outcome # "done"
    <3>1. save' = Answered(save, "failed")
      BY <1>2, <2>1
    <3> QED BY <1>1, <3>1, SaveFails
  <2>2. CASE ~(foreign \/ outcome # "done")
    <3> DEFINE q == [save EXCEPT !.exists = w]
    <3>1. q \in SaveReq /\ q.saw = save.saw
      BY <1>1, <1>7 DEF SaveReq
    <3>2. save' = Answered(q, "ok")
      BY <1>2, <2>2
    <3> HIDE DEF q
    <3>3. save' \in SaveReq \cup {Unset} /\ (save' # Unset => save'.at = "ok" /\ save'.saw = save.saw)
      BY <3>1, <3>2, SaveAnsweredIs
    <3> QED BY <1>6, <3>3 DEF SaveSound
  <2> QED BY <2>1, <2>2
<1>12. template' \in Template /\ WellFormed(template'.providers) /\ \A p \in Range(template'.providers) : p \in Range(template.providers)
  BY <1>3 DEF CatalogInv, CatalogTypes
<1> QED BY <1>1, <1>3, <1>4, <1>8, <1>10, <1>11, <1>12, SaveStep

-----------------------------------------------------------------------------
(* What everything looks like, in every scene: also when requests interleave
   and a position is stale *)

LlmShape ==
  /\ llm \in LlmReq \cup {Unset}
  /\ llm # Unset /\ llm.kind # "post" /\ llm.at \in {"guard", "patch", "credential", "undo"} => llm.previous \in Provider

SaveShape ==
  /\ save \in SaveReq \cup {Unset}
  /\ save # Unset /\ save.at \in {"resolve", "patch", "instance", "ok"} => save.saw \in Template

Shapes ==
  /\ template \in Template /\ instances \in [Range(InstanceName) -> Instance \cup {Unset}]
  /\ live \in [GatewayNames -> SUBSET ChatIds] /\ LlmShape /\ SaveShape

LEMMA LlmShapeAnswered ==
  ASSUME NEW r \in LlmReq, NEW how \in {"ok", "failed"}, llm' = Answered(r, how)
  PROVE  LlmShape'
BY LlmAnswered DEF LlmShape

LEMMA LlmShapeMoves ==
  ASSUME LlmShape, llm # Unset, llm.at \in {"guard", "patch", "credential", "undo"},
         NEW to \in {"patch", "undo"}, llm' = [llm EXCEPT !.at = to]
  PROVE  LlmShape'
<1>1. llm \in LlmReq /\ (llm.kind # "post" => llm.previous \in Provider)
  BY DEF LlmShape
<1>2. [llm EXCEPT !.at = to] \in LlmReq
  BY <1>1 DEF LlmReq
<1>3. llm'.kind = llm.kind /\ llm'.previous = llm.previous
  BY <1>1 DEF LlmReq
<1>4. llm' \in LlmReq
  BY <1>2
<1> QED BY <1>1, <1>3, <1>4 DEF LlmShape

LEMMA LlmLooksShapes ==
  ASSUME Shapes, LlmLooks
  PROVE  Shapes'
<1> DEFINE ps == template.providers
           i == ProviderIndex(ps, llm.name)
           refused == IF llm.kind = "post" THEN i > 0 \/ Len(template.providers) >= MaxProviders ELSE i = 0
<1>1. llm \in LlmReq /\ template \in Template /\ ps \in Seq(Provider)
  BY DEF LlmLooks, Shapes, LlmShape, Template
<1>2. PICK outcome \in {"done", "refused"} :
         llm' = IF outcome = "refused" \/ refused THEN Answered(llm, "failed")
                ELSE IF llm.kind = "post" THEN [llm EXCEPT !.at = "patch", !.first = template.providers = <<>>]
                ELSE [llm EXCEPT !.at = IF Removed(llm, template.providers[i]) = {} THEN "patch" ELSE "guard",
                                 !.index = i, !.previous = template.providers[i]]
  BY DEF LlmLooks
<1>3. UNCHANGED <<template, instances, live, save>>
  BY DEF LlmLooks
<1>4. LlmShape'
  <2>1. CASE outcome = "refused" \/ refused
    <3>1. llm' = Answered(llm, "failed")
      BY <1>2, <2>1
    <3> QED BY <1>1, <3>1, LlmShapeAnswered
  <2>2. CASE ~(outcome = "refused" \/ refused) /\ llm.kind = "post"
    <3>1. PICK b \in BOOLEAN : b = (ps = <<>>)
      OBVIOUS
    <3>2. llm' = [llm EXCEPT !.at = "patch", !.first = b]
      BY <1>2, <2>2, <3>1, Zenon
    <3>3. [llm EXCEPT !.at = "patch", !.first = b] \in LlmReq
      BY <1>1 DEF LlmReq
    <3>4. llm'.kind = "post"
      BY <1>1, <2>2, <3>2 DEF LlmReq
    <3> QED BY <3>2, <3>3, <3>4 DEF LlmShape
  <2>3. CASE ~(outcome = "refused" \/ refused) /\ llm.kind # "post"
    <3>1. PICK to \in {"patch", "guard"} : to = IF Removed(llm, ps[i]) = {} THEN "patch" ELSE "guard"
      OBVIOUS
    <3>2. i \in Nat /\ ps[i] \in Provider
      BY <1>1, <2>3, IndexIs
    <3>3. PICK e \in Provider : e = ps[i]
      BY <3>2
    <3> HIDE DEF i
    <3>4. llm' = [llm EXCEPT !.at = to, !.index = i, !.previous = e]
      BY <1>2, <2>3, <3>1, <3>3, Zenon
    <3>5. [llm EXCEPT !.at = to, !.index = i, !.previous = e] \in LlmReq
      BY <1>1, <3>2 DEF LlmReq
    <3>6. llm'.previous = e
      BY <1>1, <3>4 DEF LlmReq
    <3> QED BY <3>4, <3>5, <3>6 DEF LlmShape
  <2> QED BY <2>1, <2>2, <2>3
<1> QED BY <1>3, <1>4 DEF Shapes, SaveShape

LEMMA LlmGuardsShapes ==
  ASSUME Shapes, LlmGuards
  PROVE  Shapes'
<1>1. llm \in LlmReq /\ llm # Unset /\ llm.at = "guard" /\ LlmShape
  BY DEF LlmGuards, Shapes, LlmShape
<1>2. PICK outcome \in {"done", "refused"} :
         llm' = IF outcome = "refused" \/ SelectedRefs \cap Removed(llm, llm.previous) # {}
                THEN Answered(llm, "failed") ELSE [llm EXCEPT !.at = "patch"]
  BY DEF LlmGuards
<1>3. LlmShape'
  <2>1. CASE llm' = Answered(llm, "failed")
    BY <1>1, <2>1, LlmShapeAnswered
  <2>2. CASE llm' = [llm EXCEPT !.at = "patch"]
    BY <1>1, <2>2, LlmShapeMoves
  <2> QED BY <1>2, <2>1, <2>2
<1>4. UNCHANGED <<template, instances, live, save>>
  BY DEF LlmGuards
<1> QED BY <1>3, <1>4 DEF Shapes, SaveShape

LEMMA RemoveAtShape ==
  ASSUME NEW ps \in Seq(Provider), NEW i \in Nat, i <= Len(ps)
  PROVE  RemoveAt(ps, i) \in Seq(Provider)
<1> DEFINE a == SubSeq(ps, 1, i - 1)
           b == SubSeq(ps, i + 1, Len(ps))
<1>1. a \in Seq(Provider)
  <2>1. \A k \in 1 .. i - 1 : k \in DOMAIN ps
    OBVIOUS
  <2> QED BY <2>1
<1>2. b \in Seq(Provider)
  OBVIOUS
<1>3. RemoveAt(ps, i) = a \o b
  BY DEF RemoveAt
<1> HIDE DEF a, b
<1> QED BY <1>1, <1>2, <1>3

\* One entry of a list changed, or none when the position is not there.
LEMMA ReplaceShape ==
  ASSUME NEW ps \in Seq(Provider), NEW i \in Nat, NEW e \in Provider
  PROVE  [ps EXCEPT ![i] = e] \in Seq(Provider)
<1>1. CASE i \in DOMAIN ps
  BY <1>1
<1>2. CASE i \notin DOMAIN ps
  <2> [ps EXCEPT ![i] = e] = ps
    BY <1>2
  <2> QED OBVIOUS
<1> QED BY <1>1, <1>2

LEMMA AssignedShape ==
  ASSUME NEW ps \in Seq(Provider), NEW i \in Nat, NEW models \in BOOLEAN, NEW ref \in BOOLEAN,
         NEW m \in SUBSET Ids, NEW r \in ProviderNames \cup {"shared", Unset}
  PROVE  Assigned(ps, i, models, m, ref, r) \in Seq(Provider)
<1> DEFINE f == [ps[i] EXCEPT !.models = IF models THEN m ELSE @, !.ref = IF ref THEN r ELSE @]
<1>1. Assigned(ps, i, models, m, ref, r) = [ps EXCEPT ![i] = f]
  BY DEF Assigned
<1>2. CASE i \in DOMAIN ps
  <2>1. ps[i] \in Provider
    BY <1>2
  <2>2. f \in Provider
    BY <2>1 DEF Provider
  <2> HIDE DEF f
  <2> QED BY <1>1, <2>2, ReplaceShape
<1>3. CASE i \notin DOMAIN ps
  <2> HIDE DEF f
  <2> [ps EXCEPT ![i] = f] = ps
    BY <1>3
  <2> QED BY <1>1
<1> QED BY <1>2, <1>3

LEMMA PatchedShape ==
  ASSUME Shapes, llm # Unset, llm.at = "patch", PatchedProviders(llm) # Unset
  PROVE  PatchedProviders(llm) \in Seq(Provider)
<1> DEFINE ps == template.providers
           r == CredentialRef(llm)
           i == llm.index
           e == [name |-> llm.name, models |-> llm.models, ref |-> r]
<1>1. llm \in LlmReq /\ ps \in Seq(Provider)
  BY DEF Shapes, LlmShape, Template
<1>2. llm.kind \in {"post", "put", "delete"} /\ llm.name \in ProviderNames /\ llm.models \in SUBSET Ids /\ i \in Nat
  BY <1>1, LlmFields DEF ProviderNames
<1>3. llm.kind # "post" => llm.previous \in Provider
  BY DEF Shapes, LlmShape
<1>4. r \in ProviderNames \cup {"shared", Unset}
  BY <1>2, <1>3 DEF CredentialRef, llmCredentialName, Provider
<1>5. CASE llm.kind = "post"
  <2>1. e \in Provider
    BY <1>2, <1>4 DEF Provider
  <2>2. PatchedProviders(llm) = IF llm.first THEN <<e>> ELSE Append(ps, e)
    BY <1>5 DEF PatchedProviders
  <2> HIDE DEF e
  <2> QED BY <1>1, <2>1, <2>2
<1>6. CASE llm.kind # "post"
  <2>1. ~(i > Len(ps))
    BY <1>6 DEF PatchedProviders
  <2>2. CASE llm.kind = "delete"
    <3>1. PatchedProviders(llm) = RemoveAt(ps, i) /\ i <= Len(ps)
      BY <1>1, <1>2, <2>1, <2>2 DEF PatchedProviders
    <3> HIDE DEF ps, i
    <3> QED BY <1>1, <1>2, <3>1, RemoveAtShape
  <2>3. CASE llm.kind # "delete"
    <3>1. PICK b, c \in BOOLEAN : b = (llm.models # llm.previous.models) /\ c = (r # llm.previous.ref)
      OBVIOUS
    <3>2. PatchedProviders(llm) = Assigned(ps, i, b, llm.models, c, r)
      BY <1>6, <2>1, <2>3, <3>1 DEF PatchedProviders, Assigned
    <3> HIDE DEF ps, i, r
    <3> QED BY <1>1, <1>2, <1>4, <3>2, AssignedShape
  <2> QED BY <2>2, <2>3
<1> QED BY <1>5, <1>6

LEMMA LlmPatchesShapes ==
  ASSUME Shapes, LlmPatches
  PROVE  Shapes'
<1> DEFINE qs == PatchedProviders(llm)
           ok == qs # Unset /\ Admits([template EXCEPT !.providers = qs])
<1>1. llm \in LlmReq /\ llm # Unset /\ llm.at = "patch" /\ LlmShape /\ template \in Template
  BY DEF LlmPatches, Shapes, LlmShape
<1>2. PICK outcome \in {"done", "refused", "lost"} :
         /\ template' = IF ok /\ Took(outcome) THEN Written(qs, template.defaultModel) ELSE template
         /\ llm' = IF ~ok \/ outcome # "done" THEN Answered(llm, "failed")
                   ELSE IF CredentialStep(llm) = "none" THEN Answered(llm, "ok")
                   ELSE [llm EXCEPT !.at = "credential", !.patched = template'.resourceVersion]
  BY DEF LlmPatches
<1>3. UNCHANGED <<instances, live, save>>
  BY DEF LlmPatches
<1>4. template' \in Template
  <2>1. CASE ok /\ Took(outcome)
    <3>1. qs \in Seq(Provider) /\ template.defaultModel \in Refs \cup {Unset}
      BY <1>1, <2>1, PatchedShape DEF Template
    <3> HIDE DEF qs
    <3> QED BY <1>1, <1>2, <2>1, <3>1, WrittenIs
  <2> QED BY <1>1, <1>2, <2>1
<1> HIDE DEF ok
<1>5. LlmShape'
  <2>1. CASE llm' = Answered(llm, "failed")
    BY <1>1, <2>1, LlmShapeAnswered
  <2>2. CASE llm' = Answered(llm, "ok")
    BY <1>1, <2>2, LlmShapeAnswered
  <2>3. CASE llm' = [llm EXCEPT !.at = "credential", !.patched = template'.resourceVersion]
    <3>1. PICK v \in Nat : v = template'.resourceVersion
      BY <1>4 DEF Template
    <3>2. [llm EXCEPT !.at = "credential", !.patched = v] \in LlmReq
      BY <1>1 DEF LlmReq
    <3>3. llm'.kind = llm.kind /\ llm'.previous = llm.previous
      BY <1>1, <2>3 DEF LlmReq
    <3>4. llm' \in LlmReq
      BY <2>3, <3>1, <3>2
    <3> QED BY <1>1, <3>3, <3>4 DEF LlmShape
  <2> QED BY <1>2, <2>1, <2>2, <2>3
<1> QED BY <1>3, <1>4, <1>5 DEF Shapes, SaveShape

LEMMA LlmCredentialShapes ==
  ASSUME Shapes, LlmCredential
  PROVE  Shapes'
<1>1. llm \in LlmReq /\ llm # Unset /\ llm.at = "credential" /\ LlmShape
  BY DEF LlmCredential, Shapes, LlmShape
<1>2. llm' = Answered(llm, "ok") \/ llm' = [llm EXCEPT !.at = "undo"]
  BY DEF LlmCredential
<1>3. LlmShape'
  <2>1. CASE llm' = Answered(llm, "ok")
    BY <1>1, <2>1, LlmShapeAnswered
  <2>2. CASE llm' = [llm EXCEPT !.at = "undo"]
    BY <1>1, <2>2, LlmShapeMoves
  <2> QED BY <1>2, <2>1, <2>2
<1>4. UNCHANGED <<template, instances, live, save>>
  BY DEF LlmCredential
<1> QED BY <1>3, <1>4 DEF Shapes, SaveShape

LEMMA LlmUndoShapes ==
  ASSUME Shapes, LlmUndo
  PROVE  Shapes'
<1> DEFINE ps == template.providers
           us == UndoneProviders(llm)
<1>1. llm \in LlmReq /\ llm # Unset /\ llm.at = "undo" /\ template \in Template /\ ps \in Seq(Provider)
  BY DEF LlmUndo, Shapes, LlmShape, Template
<1>2. template' = Written(us, template.defaultModel) \/ template' = template
  BY DEF LlmUndo
<1>3. UNCHANGED <<instances, live, save>> /\ llm' = Answered(llm, "failed")
  BY DEF LlmUndo
<1>4. us \in Seq(Provider)
  <2>1. CASE llm.kind = "post"
    <3> DEFINE i == ProviderIndex(ps, llm.name)
    <3>1. i \in Nat /\ i <= Len(ps)
      BY <1>1, IndexIs
    <3>2. us = RemoveAt(ps, i)
      BY <2>1 DEF UndoneProviders
    <3> HIDE DEF i, ps
    <3> QED BY <1>1, <3>1, <3>2, RemoveAtShape
  <2>2. CASE llm.kind # "post"
    <3>1. llm.previous \in Provider /\ llm.index \in Nat
      BY <1>1, <2>2, LlmFields DEF Shapes, LlmShape
    <3>2. us = [ps EXCEPT ![llm.index] = llm.previous]
      BY <2>2 DEF UndoneProviders
    <3> HIDE DEF ps
    <3> QED BY <1>1, <3>1, <3>2, ReplaceShape
  <2> QED BY <2>1, <2>2
<1>5. template.defaultModel \in Refs \cup {Unset}
  BY <1>1 DEF Template
<1> HIDE DEF us
<1>6. template' \in Template
  BY <1>1, <1>2, <1>4, <1>5, WrittenIs
<1>7. LlmShape'
  BY <1>1, <1>3, LlmShapeAnswered
<1> QED BY <1>3, <1>6, <1>7 DEF Shapes, SaveShape

LEMMA SaveShapeFails ==
  ASSUME NEW r \in SaveReq, save' = Answered(r, "failed")
  PROVE  SaveShape'
BY SaveAnsweredIs DEF SaveShape

LEMMA SaveLooksShapes ==
  ASSUME Shapes, SaveLooks
  PROVE  Shapes'
<1>1. save \in SaveReq /\ template \in Template
  BY DEF SaveLooks, Shapes, SaveShape
<1>2. \/ save' = Answered(save, "failed")
      \/ save' = [save EXCEPT !.at = "resolve", !.saw = template, !.exists = instances[NameOf(save)]]
  BY DEF SaveLooks
<1>3. SaveShape'
  <2>1. CASE save' = Answered(save, "failed")
    BY <1>1, <2>1, SaveShapeFails
  <2>2. CASE save' = [save EXCEPT !.at = "resolve", !.saw = template, !.exists = instances[NameOf(save)]]
    <3>1. PICK cr \in Instance \cup {Unset} : cr = instances[NameOf(save)]
      BY <1>1, NameIs DEF Shapes
    <3>2. [save EXCEPT !.at = "resolve", !.saw = template, !.exists = cr] \in SaveReq
      BY <1>1 DEF SaveReq
    <3>3. save' \in SaveReq /\ save'.saw = template
      BY <1>1, <2>2, <3>1, <3>2 DEF SaveReq
    <3> QED BY <1>1, <3>3 DEF SaveShape
  <2> QED BY <1>2, <2>1, <2>2
<1>4. UNCHANGED <<template, instances, live, llm>>
  BY DEF SaveLooks
<1> QED BY <1>3, <1>4 DEF Shapes, LlmShape

LEMMA SaveResolvesShapes ==
  ASSUME Shapes, SaveResolves
  PROVE  Shapes'
<1>1. save \in SaveReq /\ save.saw \in Template /\ live \in [GatewayNames -> SUBSET ChatIds]
  BY DEF SaveResolves, Shapes, SaveShape
<1>2. SaveShape'
  <2>1. CASE save' = Answered(save, "failed")
    BY <1>1, <2>1, SaveShapeFails
  <2>2. CASE save' # Answered(save, "failed")
    BY <1>1, <2>2, SaveResolvesIs DEF SaveShape
  <2> QED BY <2>1, <2>2
<1>3. UNCHANGED <<template, instances, live, llm>>
  BY DEF SaveResolves
<1> QED BY <1>2, <1>3 DEF Shapes, LlmShape

LEMMA PlatformShape ==
  ASSUME Shapes, save # Unset, save.at = "patch", WithPlatform(save) # Unset
  PROVE  WithPlatform(save) \in Seq(Provider)
<1> DEFINE ps == template.providers
           ss == save.saw.providers
           i == ProviderIndex(ss, save.target)
           models == save.entries[save.target]
           e == [name |-> save.target, models |-> models, ref |-> Unset]
<1>1. save \in SaveReq /\ ps \in Seq(Provider) /\ ss \in Seq(Provider)
  BY DEF Shapes, SaveShape, Template
<1>2. CASE save.target = Unset
  BY <1>1, <1>2 DEF WithPlatform
<1>3. CASE save.target # Unset
  <2>1. save.target \in ProviderNames /\ models \in SUBSET Ids
    BY <1>1, <1>3, SaveFields, CatalogAssumption DEF ProviderNames
  <2>2. e \in Provider
    BY <2>1 DEF Provider
  <2>3. WithPlatform(save) = IF ss = <<>> THEN <<e>> ELSE IF i = 0 THEN Append(ps, e) ELSE IF i > Len(ps) THEN Unset
             ELSE [ps EXCEPT ![i].models = IF ss[i].models = models THEN @ ELSE models,
                             ![i].ref = IF ss[i].ref = Unset THEN @ ELSE Unset]
    BY <1>3 DEF WithPlatform
  <2>4. PICK b, c \in BOOLEAN : b = (ss[i].models # models) /\ c = (ss[i].ref # Unset)
    OBVIOUS
  <2> HIDE DEF e, models
  <2>5. WithPlatform(save) \in {<<e>>, Append(ps, e), Assigned(ps, i, b, models, c, Unset)}
    BY <2>3, <2>4 DEF Assigned
  <2>6. i \in Nat
    BY <1>1, IndexIs
  <2>7. <<e>> \in Seq(Provider) /\ Append(ps, e) \in Seq(Provider)
    BY <1>1, <2>2
  <2> HIDE DEF i, ps
  <2>8. Assigned(ps, i, b, models, c, Unset) \in Seq(Provider)
    BY <1>1, <2>1, <2>6, AssignedShape
  <2> QED BY <2>5, <2>7, <2>8
<1> QED BY <1>2, <1>3

LEMMA SavePatchesShapes ==
  ASSUME Shapes, SavePatches
  PROVE  Shapes'
<1> DEFINE qs == WithPlatform(save)
           default == IF save.moves THEN save.selected ELSE template.defaultModel
           ok == qs # Unset /\ Admits([template EXCEPT !.providers = qs, !.defaultModel = default])
<1>1. save \in SaveReq /\ save # Unset /\ save.at = "patch" /\ template \in Template
  BY DEF SavePatches, Shapes, SaveShape
<1>2. PICK outcome \in {"done", "refused", "lost"} :
         /\ template' = IF ok /\ Took(outcome) THEN Written(qs, default) ELSE template
         /\ save' = IF ok /\ outcome = "done" THEN [save EXCEPT !.at = "instance", !.saw = template']
                    ELSE Answered(save, "failed")
  BY DEF SavePatches
<1>3. UNCHANGED <<instances, live, llm>>
  BY DEF SavePatches
<1>4. template' \in Template
  <2>1. CASE ok /\ Took(outcome)
    <3>1. qs \in Seq(Provider) /\ default \in Refs \cup {Unset}
      BY <1>1, <2>1, PlatformShape, SaveFields DEF Template
    <3> HIDE DEF qs, default
    <3> QED BY <1>1, <1>2, <2>1, <3>1, WrittenIs
  <2> QED BY <1>1, <1>2, <2>1
<1> HIDE DEF ok
<1>5. SaveShape'
  <2>1. CASE save' = Answered(save, "failed")
    BY <1>1, <2>1, SaveShapeFails
  <2>2. CASE save' = [save EXCEPT !.at = "instance", !.saw = template']
    <3>1. PICK t \in Template : t = template'
      BY <1>4
    <3>2. [save EXCEPT !.at = "instance", !.saw = t] \in SaveReq
      BY <1>1 DEF SaveReq
    <3>3. save' \in SaveReq /\ save'.saw = t
      BY <1>1, <2>2, <3>1, <3>2 DEF SaveReq
    <3> QED BY <3>3 DEF SaveShape
  <2> QED BY <1>2, <2>1, <2>2
<1> QED BY <1>3, <1>4, <1>5 DEF Shapes, LlmShape

LEMMA SaveInstanceShapes ==
  ASSUME Shapes, SaveInstance
  PROVE  Shapes'
<1> DEFINE n == NameOf(save)
           now == instances[n]
           w == IF now = Unset THEN [owner |-> save.user, selected |-> save.selected]
                ELSE IF save.exists # Unset /\ save.given THEN [now EXCEPT !.selected = save.selected]
                ELSE now
<1>1. save \in SaveReq /\ save # Unset /\ save.at = "instance" /\ save.saw \in Template
  BY DEF SaveInstance, Shapes, SaveShape
<1>2. /\ instances' = instances \/ instances' = [instances EXCEPT ![n] = w]
      /\ save' = Answered(save, "failed") \/ save' = Answered([save EXCEPT !.exists = w], "ok")
  BY DEF SaveInstance
<1>3. UNCHANGED <<template, live, llm>>
  BY DEF SaveInstance
<1>4. n \in Range(InstanceName) /\ instances \in [Range(InstanceName) -> Instance \cup {Unset}]
  BY <1>1, NameIs DEF Shapes
<1>5. now \in Instance \cup {Unset} /\ save.user \in Callers /\ save.selected \in Refs \cup {Unset}
  BY <1>1, <1>4, SaveFields
<1> HIDE DEF n
<1>6. w \in Instance \cup {Unset}
  <2>1. CASE now = Unset
    BY <1>5, <2>1 DEF Instance
  <2>2. CASE now # Unset
    <3> HIDE DEF now
    <3>1. [now EXCEPT !.selected = save.selected] \in Instance
      BY <1>5, <2>2 DEF Instance
    <3> QED BY <1>5, <2>2, <3>1
  <2> QED BY <2>1, <2>2
<1> HIDE DEF w
<1>7. instances' \in [Range(InstanceName) -> Instance \cup {Unset}]
  BY <1>2, <1>4, <1>6
<1>8. SaveShape'
  <2>1. CASE save' = Answered(save, "failed")
    BY <1>1, <2>1, SaveShapeFails
  <2>2. CASE save' = Answered([save EXCEPT !.exists = w], "ok")
    <3> DEFINE q == [save EXCEPT !.exists = w]
    <3>1. q \in SaveReq /\ q.saw = save.saw
      BY <1>1, <1>6 DEF SaveReq
    <3>2. save' = Answered(q, "ok")
      BY <2>2
    <3> HIDE DEF q
    <3> QED BY <1>1, <3>1, <3>2, SaveAnsweredIs DEF SaveShape
  <2> QED BY <1>2, <2>1, <2>2
<1> QED BY <1>3, <1>7, <1>8 DEF Shapes, LlmShape

-----------------------------------------------------------------------------
(* The requests that set out *)

LEMMA LlmRequestIs ==
  ASSUME NEW from \in {"page", "other"}, NEW kind \in {"post", "put", "delete"}, NEW name \in Externals,
         NEW models \in SUBSET Ids, NEW key \in BOOLEAN, NEW public \in BOOLEAN,
         NEW r, r = LlmRequest(from, kind, name, models, key, public)
  PROVE  r \in LlmReq /\ r.at = "look" /\ r.kind = kind /\ r.key = key /\ r.public = public /\ r.previous = Unset
BY DEF LlmRequest, LlmReq

LEMMA SaveRequestIs ==
  ASSUME NEW from \in {"page", "other"}, NEW user \in Callers, NEW given \in BOOLEAN, NEW selected \in Refs \cup {Unset},
         NEW r, r = SaveRequest(from, user, given, selected)
  PROVE  r \in SaveReq /\ r.at = "look"
BY DEF SaveRequest, SaveReq

\* A request sets out with a key, or for a public endpoint, or for an entry there is.
LlmSentAs(r) ==
  /\ r \in LlmReq /\ r.at = "look" /\ r.previous = Unset
  /\ ~(r.key /\ r.public) /\ (r.kind = "post" => r.key \/ r.public)

LEMMA LlmSentShapes ==
  ASSUME Shapes, LlmSentAs(llm'), UNCHANGED <<template, instances, live, save>>
  PROVE  Shapes'
BY DEF Shapes, LlmShape, SaveShape, LlmSentAs

LEMMA LlmSentInv ==
  ASSUME CatalogInv, llm = Unset, save = Unset, LlmSentAs(llm'), UNCHANGED <<template, secrets, instances, live, save, mishap>>
  PROVE  CatalogInv'
<1>1. CatalogTypes' /\ OneAtATime'
  BY DEF CatalogInv, CatalogTypes, OneAtATime, LlmSentAs
<1>2. LlmSound' /\ SaveSound'
  BY DEF LlmSound, SaveSound, LlmSentAs
<1>3. Resolves(template.providers)' /\ WellFormed(template'.providers)
  BY DEF CatalogInv, Resolves, SelectedRefs
<1>4. KeysThere'
  BY DEF CatalogInv, KeysThere, HasKey, Writing
<1> QED BY <1>1, <1>2, <1>3, <1>4 DEF CatalogInv

SaveSentAs(r) == r \in SaveReq /\ r.at = "look"

LEMMA SaveSentShapes ==
  ASSUME Shapes, SaveSentAs(save'), UNCHANGED <<template, instances, live, llm>>
  PROVE  Shapes'
BY DEF Shapes, LlmShape, SaveShape, SaveSentAs

LEMMA SaveSentInv ==
  ASSUME CatalogInv, llm = Unset, save = Unset, SaveSentAs(save'), UNCHANGED <<template, secrets, instances, live, llm, mishap>>
  PROVE  CatalogInv'
<1>1. CatalogTypes' /\ OneAtATime'
  BY DEF CatalogInv, CatalogTypes, OneAtATime, SaveSentAs
<1>2. LlmSound' /\ SaveSound'
  BY DEF LlmSound, SaveSound, SaveSentAs
<1>3. Resolves(template.providers)' /\ WellFormed(template'.providers)
  BY DEF CatalogInv, Resolves, SelectedRefs
<1>4. KeysThere'
  BY DEF CatalogInv, KeysThere, HasKey, Writing
<1> QED BY <1>1, <1>2, <1>3, <1>4 DEF CatalogInv

LEMMA OthersEditSends ==
  ASSUME OthersEdit
  PROVE  LlmSentAs(llm') /\ llm = Unset /\ Room /\ UNCHANGED <<template, secrets, instances, live, save, scene, mishap>>
<1>1. PICK name \in Externals, models \in ModelLists, key \in BOOLEAN, public \in BOOLEAN :
         /\ ~(key /\ public)
         /\ llm' \in {LlmRequest("other", "put", name, models, key, public)}
                     \cup (IF key # public THEN {LlmRequest("other", "post", name, models, key, public)} ELSE {})
                     \cup {LlmRequest("other", "delete", name, {}, FALSE, FALSE)}
  BY DEF OthersEdit
<1>2. models \in SUBSET Ids /\ {} \in SUBSET Ids
  BY CatalogAssumption
<1>3. CASE llm' = LlmRequest("other", "put", name, models, key, public)
  BY <1>1, <1>2, <1>3, LlmRequestIs DEF LlmSentAs, OthersEdit
<1>4. CASE llm' = LlmRequest("other", "post", name, models, key, public) /\ key # public
  BY <1>1, <1>2, <1>4, LlmRequestIs DEF LlmSentAs, OthersEdit
<1>5. CASE llm' = LlmRequest("other", "delete", name, {}, FALSE, FALSE)
  <2>1. PICK no \in BOOLEAN : no = FALSE
    OBVIOUS
  <2>2. llm' = LlmRequest("other", "delete", name, {}, no, no)
    BY <1>5, <2>1
  <2>3. LlmSentAs(llm')
    BY <1>2, <2>1, <2>2, LlmRequestIs DEF LlmSentAs
  <2> QED BY <2>3 DEF OthersEdit
<1> QED BY <1>1, <1>3, <1>4, <1>5

LEMMA OthersSaveSends ==
  ASSUME OthersSave
  PROVE  SaveSentAs(save') /\ save = Unset /\ Room /\ UNCHANGED <<template, secrets, instances, live, llm, scene, mishap>>
<1>1. \E user \in Callers, given \in BOOLEAN, ref \in Refs \cup {Unset} : save' = SaveRequest("other", user, given, ref)
  BY DEF OthersSave
<1>2. SaveSentAs(save')
  BY <1>1, SaveRequestIs DEF SaveSentAs
<1> QED BY <1>2 DEF OthersSave

LEMMA GatewayChangesIs ==
  ASSUME live \in [GatewayNames -> SUBSET ChatIds], GatewayChanges
  PROVE  live' \in [GatewayNames -> SUBSET ChatIds] /\ UNCHANGED <<template, secrets, instances, llm, save, scene, requests, mishap>>
<1>1. \E g \in GatewayNames, models \in SUBSET ChatIds : live' = [live EXCEPT ![g] = models]
  BY DEF GatewayChanges
<1>2. UNCHANGED <<template, secrets, instances, llm, save, scene, requests, mishap>>
  BY DEF GatewayChanges
<1> QED BY <1>1, <1>2

LEMMA GatewayChangesInv ==
  ASSUME CatalogInv, GatewayChanges
  PROVE  CatalogInv'
<1>1. live' \in [GatewayNames -> SUBSET ChatIds] /\ UNCHANGED <<template, secrets, instances, llm, save, scene, requests, mishap>>
  BY GatewayChangesIs DEF CatalogInv, CatalogTypes
<1>2. CatalogTypes' /\ OneAtATime'
  BY <1>1 DEF CatalogInv, CatalogTypes, OneAtATime
<1>3. SelectedRefs' = SelectedRefs /\ Resolves(template.providers)' /\ WellFormed(template'.providers)
  BY <1>1 DEF CatalogInv, Resolves, SelectedRefs
<1>4. KeysThere' /\ SaveSound'
  BY <1>1 DEF CatalogInv, KeysThere, HasKey, Writing, SaveSound
<1>5. LlmSound'
  <2>1. llm = Unset
    BY DEF GatewayChanges
  <2> QED BY <1>1, <2>1 DEF LlmSound
<1> QED BY <1>2, <1>3, <1>4, <1>5 DEF CatalogInv

-----------------------------------------------------------------------------
(* The page *)

Config ==
  [exists : BOOLEAN, selected : Refs \cup {Unset}, providers : Seq(Provider), entries : [GatewayNames -> SUBSET ChatIds]]
Load == [at : {"idle", "sent"}, config : {Unset}] \cup [at : {"read"}, config : Config]
Form ==
  [name : Externals \cup {Unset}, endpoint : Endpoints \cup {Unset}, models : SUBSET Ids, key : BOOLEAN, public : BOOLEAN]
Fetched == [endpoint : Endpoints \cup {Unset}, public : BOOLEAN, ids : SUBSET Ids]
Fetch == [endpoint : Endpoints \cup {Unset}, public : BOOLEAN, current : BOOLEAN]
Pane ==
  [config : Config, loads : [Causes -> Load], loaded : BOOLEAN, loadError : BOOLEAN, saving : BOOLEAN, llmBusy : BOOLEAN,
   llmForm : Form, editingProvider : Externals \cup {Unset}, llmFetched : Fetched \cup {Unset}, llmFetch : Fetch \cup {Unset}]

\* No key is kept for a public endpoint; a list of ids, and one still to come
\* that will be shown, is that of the endpoint in the form.
AsksWith(asked, form) == asked.endpoint = form.endpoint /\ (form.public => asked.public)
PaneOk(p) ==
  /\ p \in Pane /\ ~(p.llmForm.key /\ p.llmForm.public)
  /\ p.llmFetched # Unset => AsksWith(p.llmFetched, p.llmForm)
  /\ p.llmFetch # Unset /\ p.llmFetch.current => AsksWith(p.llmFetch, p.llmForm)

Dropped(p) == p.llmFetched = Unset /\ (p.llmFetch # Unset => ~p.llmFetch.current)

\* The invariant of the whole: the shapes in every scene, and the catalogue's
\* own where one request is under way at a time.
Inv == Shapes /\ PaneOk(pane) /\ (Alone => CatalogInv)

LEMMA PaneFields ==
  ASSUME NEW p, PaneOk(p)
  PROVE  /\ p \in Pane /\ p.config \in Config /\ p.loads \in [Causes -> Load] /\ p.llmForm \in Form /\ p.llmBusy \in BOOLEAN
         /\ p.editingProvider \in Externals \cup {Unset} /\ p.llmFetched \in Fetched \cup {Unset}
         /\ p.llmFetch \in Fetch \cup {Unset} /\ ~(p.llmForm.key /\ p.llmForm.public)
BY DEF PaneOk, Pane

LEMMA PaneSame ==
  ASSUME NEW p, PaneOk(p), NEW q \in Pane, q.llmForm = p.llmForm, q.llmFetched = p.llmFetched, q.llmFetch = p.llmFetch
  PROVE  PaneOk(q)
BY DEF PaneOk

LEMMA ClearFetchedOk ==
  ASSUME NEW p, PaneOk(p), NEW q, q = ClearFetched(p)
  PROVE  PaneOk(q) /\ Dropped(q) /\ q.llmForm = p.llmForm /\ q.editingProvider = p.editingProvider /\ q.config = p.config
<1>1. p \in Pane /\ p.llmFetch \in Fetch \cup {Unset} /\ ~(p.llmForm.key /\ p.llmForm.public)
  BY PaneFields
<1>2. PICK f : f = IF p.llmFetch = Unset THEN p.llmFetch ELSE [p.llmFetch EXCEPT !.current = FALSE]
  OBVIOUS
<1>3. f \in Fetch \cup {Unset} /\ (f # Unset => ~f.current)
  <2>1. CASE p.llmFetch = Unset
    BY <1>2, <2>1
  <2>2. CASE p.llmFetch # Unset
    <3>1. PICK x \in Fetch : x = p.llmFetch
      BY <1>1, <2>2
    <3>2. [x EXCEPT !.current = FALSE] \in Fetch /\ [x EXCEPT !.current = FALSE].current = FALSE
      BY DEF Fetch
    <3>3. f = [x EXCEPT !.current = FALSE]
      BY <1>2, <2>2, <3>1
    <3> QED BY <3>2, <3>3
  <2> QED BY <2>1, <2>2
<1>4. q = [p EXCEPT !.llmFetched = Unset, !.llmFetch = f]
  BY <1>2 DEF ClearFetched
<1>5. [p EXCEPT !.llmFetched = Unset, !.llmFetch = f] \in Pane
  BY <1>1, <1>3 DEF Pane
<1>6. /\ q.llmFetched = Unset /\ q.llmFetch = f /\ q.llmForm = p.llmForm
      /\ q.editingProvider = p.editingProvider /\ q.config = p.config
  BY <1>1, <1>4 DEF Pane
<1>7. q \in Pane
  BY <1>4, <1>5
<1> QED BY <1>1, <1>3, <1>6, <1>7 DEF PaneOk, Dropped

\* The form is what it was asked for, or nothing is on show or to come.
LEMMA FormSet ==
  ASSUME NEW p, PaneOk(p), NEW f \in Form, ~(f.key /\ f.public), NEW e \in Externals \cup {Unset},
         Dropped(p) \/ (f.endpoint = p.llmForm.endpoint /\ (f.public => p.llmForm.public)),
         NEW q, q = [p EXCEPT !.llmForm = f, !.editingProvider = e]
  PROVE  PaneOk(q)
<1>1. p \in Pane
  BY PaneFields
<1>2. [p EXCEPT !.llmForm = f, !.editingProvider = e] \in Pane
  BY <1>1 DEF Pane
<1>3. q.llmForm = f /\ q.llmFetched = p.llmFetched /\ q.llmFetch = p.llmFetch
  BY <1>1 DEF Pane
<1>4. q \in Pane
  BY <1>2
<1> QED BY <1>3, <1>4 DEF PaneOk, Dropped, AsksWith

LEMMA FormTyped ==
  ASSUME NEW p, PaneOk(p), NEW f \in Form, ~(f.key /\ f.public),
         Dropped(p) \/ (f.endpoint = p.llmForm.endpoint /\ (f.public => p.llmForm.public)),
         NEW q, q = [p EXCEPT !.llmForm = f]
  PROVE  PaneOk(q)
<1>1. p \in Pane
  BY PaneFields
<1>2. [p EXCEPT !.llmForm = f] \in Pane
  BY <1>1 DEF Pane
<1>3. q.llmForm = f /\ q.llmFetched = p.llmFetched /\ q.llmFetch = p.llmFetch
  BY <1>1 DEF Pane
<1>4. q \in Pane
  BY <1>2
<1> QED BY <1>3, <1>4 DEF PaneOk, Dropped, AsksWith

LEMMA ResetOk ==
  ASSUME NEW p, PaneOk(p), NEW q, q = ResetLlmForm(p)
  PROVE  PaneOk(q)
<1> DEFINE c == ClearFetched(p)
<1>1. PaneOk(c) /\ Dropped(c)
  BY ClearFetchedOk
<1>2. EmptyForm \in Form /\ ~(EmptyForm.key /\ EmptyForm.public)
  BY DEF EmptyForm, Form
<1>3. q = [c EXCEPT !.llmForm = EmptyForm, !.editingProvider = Unset]
  BY DEF ResetLlmForm
<1> HIDE DEF c
<1> QED BY <1>1, <1>2, <1>3, FormSet

LEMMA StartEditOk ==
  ASSUME NEW p, PaneOk(p), NEW entry \in Provider, entry.name \in Externals, NEW q, q = StartEditLlm(p, entry)
  PROVE  PaneOk(q)
<1> DEFINE c == ClearFetched(p)
<1>1. PaneOk(c) /\ Dropped(c)
  BY ClearFetchedOk
<1>2. PICK b \in BOOLEAN : b = (entry.ref = Unset)
  OBVIOUS
<1>3. PICK no \in BOOLEAN : no = FALSE
  OBVIOUS
<1> DEFINE f == [name |-> entry.name, endpoint |-> "e", models |-> entry.models, key |-> no, public |-> b]
<1>4. f \in Form /\ ~(f.key /\ f.public)
  BY <1>3 DEF Form, Endpoints, Provider
<1>5. q = [c EXCEPT !.editingProvider = entry.name, !.llmForm = f]
  BY <1>2, <1>3 DEF StartEditLlm
<1>6. q = [c EXCEPT !.llmForm = f, !.editingProvider = entry.name]
  <2>1. c \in Pane
    BY <1>1, PaneFields
  <2> HIDE DEF c, f
  <2> QED BY <1>5, <2>1 DEF Pane
<1> HIDE DEF c, f
<1> QED BY <1>1, <1>4, <1>6, FormSet

LEMMA RowsAre ==
  ASSUME NEW c \in Config, NEW entry \in ExternalRows(c)
  PROVE  entry \in Provider /\ entry.name \in Externals /\ entry \in Range(c.providers)
<1>1. c.providers \in Seq(Provider)
  BY DEF Config
<1>2. entry \in Range(c.providers) /\ entry.name \notin GatewayNames
  BY DEF ExternalRows
<1>3. entry \in Provider
  BY <1>1, <1>2 DEF Range
<1> QED BY <1>2, <1>3 DEF Provider, ProviderNames

LEMMA TouchRowOk ==
  ASSUME NEW p, PaneOk(p), NEW q \in TouchRow(p)
  PROVE  PaneOk(q)
<1>1. p.config \in Config
  BY PaneFields
<1>2. (\E entry \in ExternalRows(p.config) : q = StartEditLlm(p, entry)) \/ q = ResetLlmForm(p)
  BY DEF TouchRow
<1>3. CASE q = ResetLlmForm(p)
  BY <1>3, ResetOk
<1>4. CASE \E entry \in ExternalRows(p.config) : q = StartEditLlm(p, entry)
  <2>1. PICK entry \in ExternalRows(p.config) : q = StartEditLlm(p, entry)
    BY <1>4
  <2>2. entry \in Provider /\ entry.name \in Externals
    BY <1>1, RowsAre
  <2> QED BY <2>1, <2>2, StartEditOk
<1> QED BY <1>2, <1>3, <1>4

LEMMA TouchFieldOk ==
  ASSUME NEW p, PaneOk(p), NEW q \in TouchField(p)
  PROVE  PaneOk(q)
<1> DEFINE c == ClearFetched(p)
           f == p.llmForm
<1>1. f \in Form /\ ~(f.key /\ f.public)
  BY PaneFields
<1>2. PaneOk(c) /\ Dropped(c) /\ c.llmForm = f
  BY ClearFetchedOk
<1>3. \/ \E n \in Externals : q = [p EXCEPT !.llmForm.name = n]
      \/ \E e \in Endpoints : q = [ClearFetched(p) EXCEPT !.llmForm.endpoint = e]
      \/ q = [p EXCEPT !.llmForm.public = FALSE]
      \/ q = [ClearFetched(p) EXCEPT !.llmForm.public = TRUE, !.llmForm.key = FALSE]
      \/ ~p.llmForm.public /\ \E k \in BOOLEAN : q = [ClearFetched(p) EXCEPT !.llmForm.key = k]
      \/ \E ms \in ModelLists : q = [p EXCEPT !.llmForm.models = ms]
  BY DEF TouchField
<1>4. ASSUME NEW n \in Externals, q = [p EXCEPT !.llmForm.name = n] PROVE PaneOk(q)
  <2> DEFINE g == [f EXCEPT !.name = n]
  <2>1. g \in Form /\ ~(g.key /\ g.public) /\ g.endpoint = f.endpoint /\ g.public = f.public
    BY <1>1 DEF Form
  <2>2. q = [p EXCEPT !.llmForm = g]
    BY <1>4
  <2> HIDE DEF g
  <2> QED BY <2>1, <2>2, FormTyped
<1>5. ASSUME NEW e \in Endpoints, q = [ClearFetched(p) EXCEPT !.llmForm.endpoint = e] PROVE PaneOk(q)
  <2> DEFINE g == [f EXCEPT !.endpoint = e]
  <2>1. g \in Form /\ ~(g.key /\ g.public)
    BY <1>1 DEF Form
  <2>2. q = [c EXCEPT !.llmForm = g]
    BY <1>2, <1>5
  <2> HIDE DEF g, c
  <2> QED BY <1>2, <2>1, <2>2, FormTyped
<1>6. ASSUME q = [p EXCEPT !.llmForm.public = FALSE] PROVE PaneOk(q)
  <2> DEFINE g == [f EXCEPT !.public = FALSE]
  <2>1. g \in Form /\ ~(g.key /\ g.public) /\ g.endpoint = f.endpoint /\ ~g.public
    BY <1>1 DEF Form
  <2>2. q = [p EXCEPT !.llmForm = g]
    BY <1>6
  <2> HIDE DEF g
  <2> QED BY <2>1, <2>2, FormTyped
<1>7. ASSUME q = [ClearFetched(p) EXCEPT !.llmForm.public = TRUE, !.llmForm.key = FALSE] PROVE PaneOk(q)
  <2> DEFINE g == [f EXCEPT !.public = TRUE, !.key = FALSE]
  <2>1. g \in Form /\ ~(g.key /\ g.public)
    BY <1>1 DEF Form
  <2>2. q = [c EXCEPT !.llmForm = g]
    <3>1. q = [c EXCEPT !.llmForm.public = TRUE, !.llmForm.key = FALSE] /\ c \in Pane
      BY <1>2, <1>7, PaneFields
    <3> HIDE DEF c
    <3> QED BY <1>2, <3>1 DEF Pane
  <2> HIDE DEF g, c
  <2> QED BY <1>2, <2>1, <2>2, FormTyped
<1>8. ASSUME NEW k \in BOOLEAN, ~p.llmForm.public, q = [ClearFetched(p) EXCEPT !.llmForm.key = k] PROVE PaneOk(q)
  <2> DEFINE g == [f EXCEPT !.key = k]
  <2>1. g \in Form /\ ~(g.key /\ g.public)
    BY <1>1, <1>8 DEF Form
  <2>2. q = [c EXCEPT !.llmForm = g]
    BY <1>2, <1>8
  <2> HIDE DEF g, c
  <2> QED BY <1>2, <2>1, <2>2, FormTyped
<1>9. ASSUME NEW ms \in ModelLists, q = [p EXCEPT !.llmForm.models = ms] PROVE PaneOk(q)
  <2> DEFINE g == [f EXCEPT !.models = ms]
  <2>1. ms \in SUBSET Ids
    BY CatalogAssumption
  <2>2. g \in Form /\ ~(g.key /\ g.public) /\ g.endpoint = f.endpoint /\ g.public = f.public
    BY <1>1, <2>1 DEF Form
  <2>3. q = [p EXCEPT !.llmForm = g]
    BY <1>9
  <2> HIDE DEF g
  <2> QED BY <2>2, <2>3, FormTyped
<1> QED BY <1>3, <1>4, <1>5, <1>6, <1>7, <1>8, <1>9

LEMMA ToggleModelOk ==
  ASSUME NEW p, PaneOk(p), NEW q \in ToggleModel(p)
  PROVE  PaneOk(q)
<1> DEFINE f == p.llmForm
<1>1. f \in Form /\ ~(f.key /\ f.public) /\ p.llmFetched \in Fetched \cup {Unset}
  BY PaneFields
<1>2. p.llmFetched # Unset
  BY DEF ToggleModel
<1>3. PICK id \in p.llmFetched.ids : q = [p EXCEPT !.llmForm.models = IF id \in @ THEN @ \ {id} ELSE @ \cup {id}]
  BY <1>2 DEF ToggleModel
<1>4. id \in Ids
  BY <1>1, <1>2 DEF Fetched
<1>5. PICK ms \in SUBSET Ids : ms = IF id \in f.models THEN f.models \ {id} ELSE f.models \cup {id}
  BY <1>1, <1>4 DEF Form
<1> DEFINE g == [f EXCEPT !.models = ms]
<1>6. g \in Form /\ ~(g.key /\ g.public) /\ g.endpoint = f.endpoint /\ g.public = f.public
  BY <1>1 DEF Form
<1>7. q = [p EXCEPT !.llmForm = g]
  BY <1>3, <1>5
<1> HIDE DEF g
<1> QED BY <1>6, <1>7, FormTyped

LEMMA TouchOk ==
  ASSUME PaneOk(pane), Touch
  PROVE  PaneOk(pane')
<1>1. pane' \in TouchRow(pane) \/ pane' \in TouchField(pane) \/ pane' \in ToggleModel(pane)
  BY DEF Touch
<1> QED BY <1>1, TouchRowOk, TouchFieldOk, ToggleModelOk

-----------------------------------------------------------------------------
(* What the page offers *)

\* The page's entry of a Gateway, and what it keeps of a declared one.
PlatformEntry(c, g) == [name |-> g, models |-> c.entries[g], ref |-> Unset]
Emptied(q) == [q EXCEPT !.models = IF q.name \in GatewayNames THEN {} ELSE @]

LEMMA CatalogProvidersAre ==
  ASSUME NEW c \in Config
  PROVE  /\ CatalogProviders(c) \in Seq(Provider)
         /\ LivePlatformProviders(c) = {} => CatalogProviders(c) = c.providers
         /\ LivePlatformProviders(c) # {} => \A p : p \in Range(CatalogProviders(c)) <=>
              (\E g \in GatewayNames : p = PlatformEntry(c, g)) \/ (\E q \in Range(c.providers) : p = Emptied(q))
<1> DEFINE a == [i \in DOMAIN Gateways |-> [name |-> Gateways[i], models |-> c.entries[Gateways[i]], ref |-> Unset]]
           b == [i \in DOMAIN c.providers |->
                   [c.providers[i] EXCEPT !.models = IF c.providers[i].name \in GatewayNames THEN {} ELSE @]]
<1>1. c.providers \in Seq(Provider) /\ c.entries \in [GatewayNames -> SUBSET ChatIds]
  BY DEF Config
<1>2. CASE LivePlatformProviders(c) = {}
  BY <1>1, <1>2 DEF CatalogProviders
<1>3. CASE LivePlatformProviders(c) # {}
  <2>1. CatalogProviders(c) = a \o b
    BY <1>3 DEF CatalogProviders
  <2>2. Gateways \in Seq(STRING) /\ DOMAIN Gateways = 1 .. Len(Gateways) /\ Len(Gateways) \in Nat
    BY CatalogAssumption
  <2>3. \A i \in DOMAIN Gateways : Gateways[i] \in GatewayNames
    BY <2>2 DEF GatewayNames, Range
  <2>4. \A g \in GatewayNames : c.entries[g] \in SUBSET Ids /\ g \in ProviderNames
    BY <1>1, CatalogAssumption DEF ProviderNames
  <2>5. \A i \in DOMAIN a : a[i] \in Provider
    BY <2>3, <2>4 DEF Provider
  <2>6. a \in Seq(Provider) /\ DOMAIN a = 1 .. Len(Gateways) /\ Len(a) = Len(Gateways)
    <3>1. a \in [1 .. Len(Gateways) -> Provider]
      BY <2>2, <2>5
    <3> HIDE DEF a
    <3> QED BY <2>2, <3>1
  <2>7. ASSUME NEW q \in Provider PROVE Emptied(q) \in Provider
    BY DEF Provider, Emptied
  <2>8. b \in Seq(Provider) /\ DOMAIN b = DOMAIN c.providers
    <3>1. Len(c.providers) \in Nat /\ DOMAIN c.providers = 1 .. Len(c.providers)
      BY <1>1
    <3>2. \A i \in DOMAIN b : b[i] \in Provider
      <4>1. \A i \in DOMAIN b : b[i] = Emptied(c.providers[i]) /\ c.providers[i] \in Provider
        BY <1>1 DEF Emptied
      <4> HIDE DEF b
      <4> QED BY <2>7, <4>1
    <3>3. b \in [1 .. Len(c.providers) -> Provider]
      BY <3>1, <3>2
    <3>4. DOMAIN b = DOMAIN c.providers
      OBVIOUS
    <3> HIDE DEF b
    <3> QED BY <3>1, <3>3, <3>4
  <2>9. \A p : (\E i \in DOMAIN a : p = a[i]) <=> \E g \in GatewayNames : p = PlatformEntry(c, g)
    <3>1. DOMAIN a = DOMAIN Gateways
      OBVIOUS
    <3>2. \A i \in DOMAIN a : a[i] = PlatformEntry(c, Gateways[i])
      BY DEF PlatformEntry
    <3>3. \A g : g \in GatewayNames <=> \E i \in DOMAIN Gateways : g = Gateways[i]
      BY DEF GatewayNames, Range
    <3> HIDE DEF a
    <3> QED BY <3>1, <3>2, <3>3
  <2>10. \A p : (\E i \in DOMAIN b : p = b[i]) <=>
            \E q \in Range(c.providers) : p = Emptied(q)
    <3>1. \A i \in DOMAIN b : b[i] = Emptied(c.providers[i])
      BY DEF Emptied
    <3> HIDE DEF b
    <3> QED BY <2>8, <3>1 DEF Range
  <2> HIDE DEF a, b
  <2>11. a \o b \in Seq(Provider)
    BY <2>6, <2>8
  <2>12. \A p : p \in Range(a \o b) <=> (\E i \in DOMAIN a : p = a[i]) \/ (\E i \in DOMAIN b : p = b[i])
    <3>1. Len(a) \in Nat /\ Len(b) \in Nat /\ DOMAIN a = 1 .. Len(a) /\ DOMAIN b = 1 .. Len(b) /\ DOMAIN (a \o b) = 1 .. Len(a) + Len(b)
      BY <2>6, <2>8
    <3>2. \A i \in DOMAIN a : i \in DOMAIN (a \o b) /\ (a \o b)[i] = a[i]
      BY <2>6, <2>8, <3>1
    <3>3. \A i \in DOMAIN b : i + Len(a) \in DOMAIN (a \o b) /\ (a \o b)[i + Len(a)] = b[i]
      BY <2>6, <2>8, <3>1
    <3>4. \A j \in DOMAIN (a \o b) : j \in DOMAIN a \/ \E i \in DOMAIN b : j = i + Len(a)
      <4> TAKE j \in DOMAIN (a \o b)
      <4>1. CASE j <= Len(a)
        BY <3>1, <4>1
      <4>2. CASE j > Len(a)
        <5> j - Len(a) \in DOMAIN b /\ j = (j - Len(a)) + Len(a)
          BY <3>1, <4>2
        <5> QED OBVIOUS
      <4> QED BY <3>1, <4>1, <4>2
    <3> QED BY <3>2, <3>3, <3>4 DEF Range
  <2>13. \A p : p \in Range(CatalogProviders(c)) <=>
                (\E g \in GatewayNames : p = PlatformEntry(c, g)) \/ (\E q \in Range(c.providers) : p = Emptied(q))
    BY <2>1, <2>9, <2>10, <2>12
  <2> QED BY <1>3, <2>1, <2>11, <2>13
<1> QED BY <1>2, <1>3

\* What is on offer: the chat models of the providers shown.
LEMMA OptionsAre ==
  ASSUME NEW c \in Config, NEW ref
  PROVE  ref \in ModelOptions(c) <=> \E p \in Range(CatalogProviders(c)) : ref \in ChatRefs(p)
<1>1. ref \in ModelOptions(c) <=> \E i \in ModelGroups(c) : ref \in ChatRefs(CatalogProviders(c)[i])
  BY DEF ModelOptions
<1>2. \A i : i \in ModelGroups(c) <=> i \in DOMAIN CatalogProviders(c) /\ ChatRefs(CatalogProviders(c)[i]) # {}
  BY DEF ModelGroups
<1> QED BY <1>1, <1>2 DEF Range

LEMMA ChatRefsAre ==
  ASSUME NEW p \in Provider, NEW ref \in ChatRefs(p)
  PROVE  ref \in Refs /\ ref[1] = p.name /\ ref[2] \in p.models /\ ref[2] \in ChatIds
BY DEF ChatRefs, Refs, Provider

LEMMA ValueIs ==
  ASSUME NEW c \in Config
  PROVE  ModelOptions(c) \subseteq Refs /\ ModelValue(c) \in Refs \cup {Unset}
<1>1. CatalogProviders(c) \in Seq(Provider)
  BY CatalogProvidersAre
<1>2. \A i \in DOMAIN CatalogProviders(c) : CatalogProviders(c)[i] \in Provider
  BY <1>1
<1>3. ModelOptions(c) \subseteq Refs
  BY <1>2, OptionsAre, ChatRefsAre DEF Range
<1>4. CASE c.selected \in ModelOptions(c)
  BY <1>3, <1>4 DEF ModelValue
<1>5. CASE c.selected \notin ModelOptions(c) /\ ModelGroups(c) = {}
  BY <1>3, <1>5 DEF ModelValue
<1>6. CASE c.selected \notin ModelOptions(c) /\ ModelGroups(c) # {}
  <2>1. ModelGroups(c) \subseteq Nat /\ ModelGroups(c) \subseteq DOMAIN CatalogProviders(c)
    BY <1>1 DEF ModelGroups
  <2>2. Min(ModelGroups(c)) \in ModelGroups(c)
    BY <1>6, <2>1, MinIs
  <2> DEFINE p == CatalogProviders(c)[Min(ModelGroups(c))]
  <2>3. p \in Provider /\ ChatRefs(p) # {}
    BY <1>2, <2>1, <2>2 DEF ModelGroups
  <2>4. ModelValue(c) = CHOOSE r \in ChatRefs(p) : TRUE
    BY <1>6 DEF ModelValue
  <2> HIDE DEF p
  <2>5. ModelValue(c) \in ChatRefs(p)
    BY <2>3, <2>4
  <2> QED BY <1>3, <2>3, <2>5, ChatRefsAre
<1> QED BY <1>3, <1>4, <1>5, <1>6

LEMMA ChatRefIs ==
  ASSUME NEW p, NEW ref
  PROVE  /\ ref \in ChatRefs(p) <=> ref \in RefsOf(p) /\ ref[2] \in ChatIds
         /\ ref \in RefsOf(p) <=> ref = <<p.name, ref[2]>> /\ ref[2] \in p.models
BY DEF ChatRefs, RefsOf

LEMMA OfferedTrue ==
  ASSUME template \in Template, live \in [GatewayNames -> SUBSET ChatIds], pane.config \in Config
  PROVE  OfferedIsAccepted
<1> DEFINE c == pane.config
           ps == template.providers
           accepted == {r \in Selectable(template, live) : r[2] \in ChatIds}
<1>1. SUFFICES ASSUME c.providers = ps, c.entries = live
               PROVE  IF Served(live) = {}
                      THEN ModelOptions(c) \ accepted \subseteq GatewayNames \X Ids /\ accepted \subseteq ModelOptions(c)
                      ELSE ModelOptions(c) = accepted
  BY DEF OfferedIsAccepted
<1>2. ps \in Seq(Provider) /\ \A p \in Range(ps) : p \in Provider
  BY DEF Template, Range
<1>3. \A r : r \in accepted <=>
         r[2] \in ChatIds /\ (r \in Served(live) \/ \E p \in Range(ps) : p.name \notin GatewayNames /\ r \in RefsOf(p))
  BY SelectableHas DEF ExternalProviders
<1>4. \A r : r \in Served(live) <=> \E g \in GatewayNames : \E m \in live[g] : r = <<g, m>>
  <2>1. \A g \in GatewayNames : live[g] \subseteq Ids
    BY CatalogAssumption
  <2> QED BY <2>1 DEF Served
<1>5. LivePlatformProviders(c) = {} <=> Served(live) = {}
  BY <1>1, <1>4 DEF LivePlatformProviders
<1> HIDE DEF accepted
<1>6. CASE Served(live) = {}
  <2>1. CatalogProviders(c) = ps
    BY <1>1, <1>5, <1>6, CatalogProvidersAre
  <2>2. \A r : r \in ModelOptions(c) <=> \E p \in Range(ps) : r \in ChatRefs(p)
    BY <2>1, OptionsAre
  <2>3. ASSUME NEW r \in ModelOptions(c), r \notin accepted PROVE r \in GatewayNames \X Ids
    <3>1. PICK p \in Range(ps) : r \in ChatRefs(p)
      BY <2>2, <2>3
    <3>2. r \in RefsOf(p) /\ r[2] \in ChatIds /\ r = <<p.name, r[2]>>
      BY <3>1, ChatRefIs
    <3>3. p.name \in GatewayNames
      BY <1>3, <2>3, <3>2
    <3>4. r[2] \in Ids
      BY <3>2, CatalogAssumption
    <3> QED BY <3>2, <3>3, <3>4
  <2>4. ASSUME NEW r \in accepted PROVE r \in ModelOptions(c)
    BY <1>3, <1>6, <2>2, <2>4, ChatRefIs
  <2> QED BY <1>6, <2>3, <2>4
<1>7. CASE Served(live) # {}
  <2>1. \A p : p \in Range(CatalogProviders(c)) <=>
                (\E g \in GatewayNames : p = PlatformEntry(c, g)) \/ (\E q \in Range(ps) : p = Emptied(q))
    BY <1>1, <1>5, <1>7, CatalogProvidersAre
  <2>2. \A g \in GatewayNames : \A r : r \in ChatRefs(PlatformEntry(c, g)) <=> \E m \in live[g] : r = <<g, m>>
    <3> TAKE g \in GatewayNames
    <3>1. live[g] \subseteq ChatIds
      OBVIOUS
    <3>2. PlatformEntry(c, g).name = g /\ PlatformEntry(c, g).models = live[g]
      BY <1>1 DEF PlatformEntry
    <3> QED BY <3>1, <3>2 DEF ChatRefs
  <2>3. \A q \in Range(ps) : \A r : r \in ChatRefs(Emptied(q)) <=> q.name \notin GatewayNames /\ r \in RefsOf(q) /\ r[2] \in ChatIds
    <3> TAKE q \in Range(ps)
    <3>1. q \in Provider
      BY <1>2
    <3>2. Emptied(q).name = q.name /\ Emptied(q).models = IF q.name \in GatewayNames THEN {} ELSE q.models
      BY <3>1 DEF Emptied, Provider
    <3> QED BY <3>2 DEF ChatRefs, RefsOf
  <2>4. \A r : r \in ModelOptions(c) <=> \/ \E g \in GatewayNames : \E m \in live[g] : r = <<g, m>>
                                         \/ \E q \in Range(ps) : q.name \notin GatewayNames /\ r \in RefsOf(q) /\ r[2] \in ChatIds
    <3>1. \A r : r \in ModelOptions(c) <=> \E p \in Range(CatalogProviders(c)) : r \in ChatRefs(p)
      BY OptionsAre
    <3> QED BY <2>1, <2>2, <2>3, <3>1
  <2>5. \A r : r \in Served(live) => r[2] \in ChatIds
    BY <1>4
  <2>6. \A r : r \in ModelOptions(c) <=> r \in accepted
    BY <1>3, <1>4, <2>4, <2>5
  <2> QED BY <1>7, <2>6, SMTT(30)
<1> QED BY <1>6, <1>7

-----------------------------------------------------------------------------
(* The steps of the page *)

LEMMA MeIs == Me \in Callers /\ InstanceName[Me] = Me /\ Me \in Range(InstanceName)
<1>1. \E u \in Callers : InstanceName[u] = u
  BY CatalogAssumption
<1>2. Me \in Callers /\ InstanceName[Me] = Me
  BY <1>1 DEF Me
<1> QED BY <1>2, CatalogAssumption DEF Range

LEMMA ConfigFromCrIs ==
  ASSUME NEW cr \in Instance \cup {Unset}, NEW t \in Template, NEW catalogs \in [GatewayNames -> SUBSET ChatIds]
  PROVE  ConfigFromCr(cr, t, catalogs) \in Config
<1>1. PICK b \in BOOLEAN : b = (cr # Unset)
  OBVIOUS
<1>2. PICK sel \in Refs \cup {Unset} : sel = IF cr = Unset THEN Unset ELSE cr.selected
  BY DEF Instance
<1>3. ConfigFromCr(cr, t, catalogs) = [exists |-> b, selected |-> sel, providers |-> t.providers, entries |-> catalogs]
  BY <1>1, <1>2 DEF ConfigFromCr
<1>4. t.providers \in Seq(Provider)
  BY DEF Template
<1> QED BY <1>3, <1>4 DEF Config

LEMMA ReadConfigIs ==
  ASSUME Shapes
  PROVE  ReadConfig \in Config
<1> DEFINE cr == instances[InstanceName[Me]]
           r == IF cr # Unset /\ cr.owner # Me THEN Unset ELSE cr
<1>1. r \in Instance \cup {Unset}
  BY MeIs DEF Shapes
<1>2. ReadConfig = ConfigFromCr(r, template, live)
  BY DEF ReadConfig
<1> HIDE DEF r
<1> QED BY <1>1, <1>2, ConfigFromCrIs DEF Shapes

LEMMA ChooseModelOk ==
  ASSUME PaneOk(pane), ChooseModel
  PROVE  PaneOk(pane')
<1>1. pane \in Pane /\ pane.config \in Config
  BY PaneFields
<1>2. PICK ref \in ModelOptions(pane.config) : pane' = [pane EXCEPT !.config.selected = ref]
  BY DEF ChooseModel
<1>3. ref \in Refs
  BY <1>1, ValueIs
<1> DEFINE c == [pane.config EXCEPT !.selected = ref]
<1>4. c \in Config
  BY <1>1, <1>3 DEF Config
<1>5. pane' = [pane EXCEPT !.config = c]
  BY <1>2
<1> HIDE DEF c
<1>6. [pane EXCEPT !.config = c] \in Pane
  BY <1>1, <1>4 DEF Pane
<1>7. pane'.llmForm = pane.llmForm /\ pane'.llmFetched = pane.llmFetched /\ pane'.llmFetch = pane.llmFetch
  BY <1>1, <1>5 DEF Pane
<1>8. pane' \in Pane
  BY <1>5, <1>6
<1> QED BY <1>7, <1>8, PaneSame

\* A load sent, under way or over.
LEMMA LoadSet ==
  ASSUME NEW p, PaneOk(p), NEW c \in Causes, NEW l \in Load, NEW q, q = [p EXCEPT !.loads[c] = l]
  PROVE  PaneOk(q)
<1>1. p \in Pane /\ p.loads \in [Causes -> Load]
  BY PaneFields
<1> DEFINE ls == [p.loads EXCEPT ![c] = l]
<1>2. ls \in [Causes -> Load]
  BY <1>1
<1>3. q = [p EXCEPT !.loads = ls]
  OBVIOUS
<1> HIDE DEF ls
<1>4. [p EXCEPT !.loads = ls] \in Pane
  BY <1>1, <1>2 DEF Pane
<1>5. q.llmForm = p.llmForm /\ q.llmFetched = p.llmFetched /\ q.llmFetch = p.llmFetch
  BY <1>1, <1>3 DEF Pane
<1>6. q \in Pane
  BY <1>3, <1>4
<1> QED BY <1>5, <1>6, PaneSame

LEMMA LoadReadsOk ==
  ASSUME Shapes, PaneOk(pane), LoadReads
  PROVE  PaneOk(pane')
<1>1. PICK c \in Causes : pane' = [pane EXCEPT !.loads[c] = [at |-> "read", config |-> ReadConfig]]
  BY DEF LoadReads
<1>2. [at |-> "read", config |-> ReadConfig] \in Load
  BY ReadConfigIs DEF Load
<1> QED BY <1>1, <1>2, LoadSet

LEMMA RestingLoads == Idle \in Load /\ Sent \in Load
BY DEF Idle, Sent, Load

LEMMA AfterLoadOk ==
  ASSUME NEW p, PaneOk(p), NEW c \in Causes, NEW q, q = AfterLoad(p, c)
  PROVE  PaneOk(q)
<1> DEFINE ls == [p.loads EXCEPT ![c] = Idle]
<1>1. p \in Pane /\ p.loads \in [Causes -> Load] /\ p.llmBusy \in BOOLEAN
  BY PaneFields
<1>2. ls \in [Causes -> Load]
  BY <1>1, RestingLoads
<1>3. PICK b \in BOOLEAN : b = IF c = "llm" THEN FALSE ELSE p.llmBusy
  BY <1>1
<1>4. q = [p EXCEPT !.loads = ls, !.loaded = TRUE, !.llmBusy = b]
  BY <1>3 DEF AfterLoad
<1> HIDE DEF ls
<1>5. [p EXCEPT !.loads = ls, !.loaded = TRUE, !.llmBusy = b] \in Pane
  BY <1>1, <1>2 DEF Pane
<1>6. q.llmForm = p.llmForm /\ q.llmFetched = p.llmFetched /\ q.llmFetch = p.llmFetch
  BY <1>1, <1>4 DEF Pane
<1>7. q \in Pane
  BY <1>4, <1>5
<1> QED BY <1>6, <1>7, PaneSame

LEMMA LoadLandsOk ==
  ASSUME PaneOk(pane), LoadLands
  PROVE  PaneOk(pane')
<1>1. PICK c \in Causes : /\ pane.loads[c].at = "read"
                          /\ pane' = [AfterLoad(pane, c) EXCEPT !.config = pane.loads[c].config, !.loadError = FALSE]
  BY DEF LoadLands
<1> DEFINE a == AfterLoad(pane, c)
<1>2. PaneOk(a)
  BY AfterLoadOk
<1>3. PICK g \in Config : g = pane.loads[c].config
  <2>1. pane.loads[c] \in Load
    BY PaneFields
  <2> QED BY <1>1, <2>1 DEF Load
<1>4. pane' = [a EXCEPT !.config = g, !.loadError = FALSE]
  BY <1>1, <1>3
<1> HIDE DEF a
<1>5. a \in Pane
  BY <1>2, PaneFields
<1>6. [a EXCEPT !.config = g, !.loadError = FALSE] \in Pane
  BY <1>5 DEF Pane
<1>7. pane'.llmForm = a.llmForm /\ pane'.llmFetched = a.llmFetched /\ pane'.llmFetch = a.llmFetch
  BY <1>4, <1>5 DEF Pane
<1>8. pane' \in Pane
  BY <1>4, <1>6
<1> QED BY <1>2, <1>7, <1>8, PaneSame

LEMMA LoadFailsOk ==
  ASSUME PaneOk(pane), LoadFails
  PROVE  PaneOk(pane')
<1>1. PICK c \in Causes : pane' = [AfterLoad(pane, c) EXCEPT !.loadError = TRUE]
  BY DEF LoadFails
<1> DEFINE a == AfterLoad(pane, c)
<1>2. PaneOk(a)
  BY AfterLoadOk
<1>3. pane' = [a EXCEPT !.loadError = TRUE]
  BY <1>1
<1> HIDE DEF a
<1>4. a \in Pane
  BY <1>2, PaneFields
<1>5. [a EXCEPT !.loadError = TRUE] \in Pane
  BY <1>4 DEF Pane
<1>6. pane'.llmForm = a.llmForm /\ pane'.llmFetched = a.llmFetched /\ pane'.llmFetch = a.llmFetch
  BY <1>3, <1>4 DEF Pane
<1>7. pane' \in Pane
  BY <1>3, <1>5
<1> QED BY <1>2, <1>6, <1>7, PaneSame

\* The page is saving, or it is not.
LEMMA SavingSet ==
  ASSUME NEW p, PaneOk(p), NEW b \in BOOLEAN, NEW q, q = [p EXCEPT !.saving = b]
  PROVE  PaneOk(q)
<1>1. p \in Pane
  BY PaneFields
<1>2. [p EXCEPT !.saving = b] \in Pane
  BY <1>1 DEF Pane
<1>3. q.llmForm = p.llmForm /\ q.llmFetched = p.llmFetched /\ q.llmFetch = p.llmFetch
  BY <1>1 DEF Pane
<1>4. q \in Pane
  BY <1>2
<1> QED BY <1>3, <1>4, PaneSame

\* The editor waits for an answer, or it does not.
LEMMA BusySet ==
  ASSUME NEW p, PaneOk(p), NEW b \in BOOLEAN, NEW q, q = [p EXCEPT !.llmBusy = b]
  PROVE  PaneOk(q)
<1>1. p \in Pane
  BY PaneFields
<1>2. [p EXCEPT !.llmBusy = b] \in Pane
  BY <1>1 DEF Pane
<1>3. q.llmForm = p.llmForm /\ q.llmFetched = p.llmFetched /\ q.llmFetch = p.llmFetch
  BY <1>1 DEF Pane
<1>4. q \in Pane
  BY <1>2
<1> QED BY <1>3, <1>4, PaneSame

LEMMA SaveConfigSends ==
  ASSUME PaneOk(pane), SaveConfig
  PROVE  /\ SaveSentAs(save') /\ save = Unset /\ Room /\ PaneOk(pane')
         /\ UNCHANGED <<template, secrets, instances, live, llm, scene, mishap>>
<1>1. PICK yes \in BOOLEAN : yes = TRUE
  OBVIOUS
<1>2. save' = SaveRequest("page", Me, yes, ModelValue(pane.config)) /\ pane' = [pane EXCEPT !.saving = yes]
  BY <1>1 DEF SaveConfig
<1>3. ModelValue(pane.config) \in Refs \cup {Unset}
  BY PaneFields, ValueIs
<1>4. SaveSentAs(save')
  BY <1>2, <1>3, MeIs, SaveRequestIs DEF SaveSentAs
<1>5. PaneOk(pane')
  BY <1>2, SavingSet
<1> QED BY <1>4, <1>5 DEF SaveConfig

LEMMA SaveAnsweredOk ==
  ASSUME Shapes, PaneOk(pane), SaveAnswered
  PROVE  PaneOk(pane')
<1>1. \/ pane' = [pane EXCEPT !.saving = FALSE]
      \/ /\ save.at = "ok" /\ save # Unset
         /\ pane' = [pane EXCEPT !.saving = FALSE, !.loads["save"] = Sent,
                                 !.config = ConfigFromCr(save.exists, save.saw, save.entries)]
  BY DEF SaveAnswered
<1>2. CASE pane' = [pane EXCEPT !.saving = FALSE]
  BY <1>2, SavingSet
<1>3. CASE /\ save.at = "ok" /\ save # Unset
           /\ pane' = [pane EXCEPT !.saving = FALSE, !.loads["save"] = Sent,
                                   !.config = ConfigFromCr(save.exists, save.saw, save.entries)]
  <2>1. save \in SaveReq /\ save.saw \in Template
    BY <1>3 DEF Shapes, SaveShape
  <2>2. save.exists \in Instance \cup {Unset} /\ save.entries \in [GatewayNames -> SUBSET ChatIds]
    BY <2>1, SaveFields
  <2>3. PICK g \in Config : g = ConfigFromCr(save.exists, save.saw, save.entries)
    BY <2>1, <2>2, ConfigFromCrIs
  <2>4. pane \in Pane /\ pane.loads \in [Causes -> Load]
    BY PaneFields
  <2> DEFINE ls == [pane.loads EXCEPT !["save"] = Sent]
  <2>5. ls \in [Causes -> Load]
    BY <2>4, RestingLoads DEF Causes
  <2>6. pane' = [pane EXCEPT !.saving = FALSE, !.loads = ls, !.config = g]
    BY <1>3, <2>3
  <2> HIDE DEF ls
  <2>7. [pane EXCEPT !.saving = FALSE, !.loads = ls, !.config = g] \in Pane
    BY <2>4, <2>5 DEF Pane
  <2>8. pane'.llmForm = pane.llmForm /\ pane'.llmFetched = pane.llmFetched /\ pane'.llmFetch = pane.llmFetch
    BY <2>4, <2>6 DEF Pane
  <2>9. pane' \in Pane
    BY <2>6, <2>7
  <2> QED BY <2>8, <2>9, PaneSame
<1> QED BY <1>1, <1>2, <1>3

LEMMA FetchLlmModelsOk ==
  ASSUME PaneOk(pane), FetchLlmModels
  PROVE  PaneOk(pane')
<1> DEFINE f == [endpoint |-> pane.llmForm.endpoint, public |-> pane.llmForm.public, current |-> TRUE]
<1>1. pane \in Pane /\ pane.llmForm \in Form /\ ~(pane.llmForm.key /\ pane.llmForm.public)
  BY PaneFields
<1>2. f \in Fetch /\ AsksWith(f, pane.llmForm)
  BY <1>1 DEF Fetch, Form, AsksWith
<1>3. pane' = [pane EXCEPT !.llmFetched = Unset, !.llmFetch = f]
  BY DEF FetchLlmModels
<1> HIDE DEF f
<1>4. [pane EXCEPT !.llmFetched = Unset, !.llmFetch = f] \in Pane
  BY <1>1, <1>2 DEF Pane
<1>5. pane'.llmForm = pane.llmForm /\ pane'.llmFetched = Unset /\ pane'.llmFetch = f
  BY <1>1, <1>3 DEF Pane
<1>6. pane' \in Pane
  BY <1>3, <1>4
<1> QED BY <1>1, <1>2, <1>5, <1>6 DEF PaneOk

LEMMA FetchLandsOk ==
  ASSUME PaneOk(pane), FetchLands
  PROVE  PaneOk(pane')
<1>1. PICK ids \in ModelLists \cup {Unset} :
         pane' = [pane EXCEPT !.llmFetch = Unset,
                    !.llmFetched = IF ~pane.llmFetch.current \/ ids = Unset THEN @
                                   ELSE [endpoint |-> pane.llmFetch.endpoint, public |-> pane.llmFetch.public, ids |-> ids]]
  BY DEF FetchLands, FetchAnswers
<1>2. /\ pane \in Pane /\ pane.llmFetched \in Fetched \cup {Unset} /\ pane.llmFetch \in Fetch /\ pane.llmFetch # Unset
      /\ ~(pane.llmForm.key /\ pane.llmForm.public)
  BY PaneFields DEF FetchLands
<1>3. PICK g : g = IF ~pane.llmFetch.current \/ ids = Unset THEN pane.llmFetched
                   ELSE [endpoint |-> pane.llmFetch.endpoint, public |-> pane.llmFetch.public, ids |-> ids]
  OBVIOUS
<1>4. g \in Fetched \cup {Unset} /\ (g # Unset => AsksWith(g, pane.llmForm))
  <2>1. CASE ~pane.llmFetch.current \/ ids = Unset
    BY <1>2, <1>3, <2>1 DEF PaneOk
  <2>2. CASE ~(~pane.llmFetch.current \/ ids = Unset)
    <3>1. ids \in SUBSET Ids
      BY <2>2, CatalogAssumption
    <3>2. g = [endpoint |-> pane.llmFetch.endpoint, public |-> pane.llmFetch.public, ids |-> ids]
      BY <1>3, <2>2
    <3>3. pane.llmFetch.endpoint \in Endpoints \cup {Unset} /\ pane.llmFetch.public \in BOOLEAN
      BY <1>2 DEF Fetch
    <3>4. g \in Fetched
      BY <3>1, <3>2, <3>3 DEF Fetched
    <3>5. AsksWith(pane.llmFetch, pane.llmForm)
      BY <1>2, <2>2 DEF PaneOk
    <3>6. AsksWith(g, pane.llmForm)
      BY <3>2, <3>5 DEF AsksWith
    <3> QED BY <3>4, <3>6
  <2> QED BY <2>1, <2>2
<1>5. pane' = [pane EXCEPT !.llmFetch = Unset, !.llmFetched = g]
  BY <1>1, <1>3
<1>6. [pane EXCEPT !.llmFetch = Unset, !.llmFetched = g] \in Pane
  BY <1>2, <1>4 DEF Pane
<1>7. pane'.llmForm = pane.llmForm /\ pane'.llmFetched = g /\ pane'.llmFetch = Unset
  BY <1>2, <1>5 DEF Pane
<1>8. pane' \in Pane
  BY <1>5, <1>6
<1> QED BY <1>2, <1>4, <1>7, <1>8 DEF PaneOk

\* A new provider comes with a key or is public: only an entry there is can do without.
LEMMA SubmitLlmSends ==
  ASSUME PaneOk(pane), SubmitLlm
  PROVE  /\ LlmSentAs(llm') /\ llm = Unset /\ Room /\ PaneOk(pane')
         /\ UNCHANGED <<template, secrets, instances, live, save, scene, mishap>>
<1> DEFINE f == pane.llmForm
<1>1. f \in Form /\ pane.config \in Config /\ ~(f.key /\ f.public) /\ pane.editingProvider \in Externals \cup {Unset}
  BY PaneFields
<1>2. PICK kind \in {"put", "post"} : kind = IF pane.editingProvider # Unset THEN "put" ELSE "post"
  OBVIOUS
<1>3. /\ llm' = LlmRequest("page", kind, f.name, f.models, f.key, f.public)
      /\ f.name # Unset /\ (f.public \/ f.key \/ WasKeyed(pane)) /\ pane' = [pane EXCEPT !.llmBusy = TRUE]
  BY <1>2 DEF SubmitLlm
<1>4. kind = "post" => ~WasKeyed(pane)
  <2>1. pane.config.providers \in Seq(Provider)
    BY <1>1 DEF Config
  <2>2. \A entry \in Range(pane.config.providers) : entry.name # Unset
    <3>1. \A entry \in Range(pane.config.providers) : entry \in Provider
      BY <2>1 DEF Range
    <3>2. Unset \notin ProviderNames
      BY CatalogAssumption DEF ProviderNames
    <3> QED BY <3>1, <3>2 DEF Provider
  <2> QED BY <1>2, <2>2 DEF WasKeyed
<1>5. f.name \in Externals /\ f.models \in SUBSET Ids /\ f.key \in BOOLEAN /\ f.public \in BOOLEAN
  BY <1>1, <1>3 DEF Form
<1>6. LlmSentAs(llm')
  <2> HIDE DEF f
  <2> QED BY <1>1, <1>3, <1>4, <1>5, LlmRequestIs DEF LlmSentAs
<1>7. PaneOk(pane')
  BY <1>3, BusySet
<1> QED BY <1>6, <1>7 DEF SubmitLlm

LEMMA RemoveLlmSends ==
  ASSUME PaneOk(pane), RemoveLlm
  PROVE  /\ LlmSentAs(llm') /\ llm = Unset /\ Room /\ PaneOk(pane')
         /\ UNCHANGED <<template, secrets, instances, live, save, scene, mishap>>
<1>1. PICK no \in BOOLEAN : no = FALSE
  OBVIOUS
<1>2. PICK entry \in ExternalRows(pane.config) : llm' = LlmRequest("page", "delete", entry.name, {}, no, no)
  BY <1>1 DEF RemoveLlm
<1>3. entry.name \in Externals /\ {} \in SUBSET Ids
  BY PaneFields, RowsAre
<1>4. LlmSentAs(llm')
  BY <1>1, <1>2, <1>3, LlmRequestIs DEF LlmSentAs
<1>5. PaneOk(pane')
  BY BusySet DEF RemoveLlm
<1> QED BY <1>4, <1>5 DEF RemoveLlm

LEMMA FinishedOk ==
  ASSUME NEW p, PaneOk(p), NEW ok \in BOOLEAN, NEW q, q = Finished(p, ok)
  PROVE  PaneOk(q)
<1>1. CASE ok
  <2>1. q = [p EXCEPT !.loads["llm"] = Sent]
    BY <1>1 DEF Finished
  <2>2. "llm" \in Causes
    BY DEF Causes
  <2> QED BY <2>1, <2>2, RestingLoads, LoadSet
<1>2. CASE ~ok
  <2>1. q = [p EXCEPT !.llmBusy = FALSE]
    BY <1>2 DEF Finished
  <2> QED BY <2>1, BusySet
<1> QED BY <1>1, <1>2

\* The page has read the answer: there is no request any more.
LlmOver ==
  /\ llm # Unset /\ llm.at \in {"ok", "failed"} /\ llm' = Unset
  /\ UNCHANGED <<template, secrets, instances, live, save, scene>>
  /\ \E outcome \in {"done", "lost"} : Call(outcome)

LEMMA SubmitAnsweredIs ==
  ASSUME PaneOk(pane), SubmitAnswered
  PROVE  LlmOver /\ PaneOk(pane')
<1>1. LlmOver
  BY DEF SubmitAnswered, LlmOver
<1>2. PICK outcome \in {"done", "lost"} :
         LET ok == llm.at = "ok" /\ outcome = "done"
         IN  pane' = Finished(IF ok THEN ResetLlmForm(pane) ELSE pane, ok)
  BY DEF SubmitAnswered
<1>3. PICK ok \in BOOLEAN : pane' = Finished(IF ok THEN ResetLlmForm(pane) ELSE pane, ok)
  <2>1. (llm.at = "ok" /\ outcome = "done") \in BOOLEAN
    OBVIOUS
  <2> QED BY <1>2, <2>1, Zenon
<1>4. CASE ok
  <2>1. PaneOk(ResetLlmForm(pane))
    BY ResetOk
  <2> QED BY <1>1, <1>3, <1>4, <2>1, FinishedOk
<1>5. CASE ~ok
  BY <1>1, <1>3, <1>5, FinishedOk
<1> QED BY <1>4, <1>5

LEMMA RemoveAnsweredIs ==
  ASSUME PaneOk(pane), RemoveAnswered
  PROVE  LlmOver /\ PaneOk(pane')
<1>1. LlmOver
  BY DEF RemoveAnswered, LlmOver
<1>2. PICK outcome \in {"done", "lost"} :
         LET ok == llm.at = "ok" /\ outcome = "done"
         IN  pane' = Finished(IF ok /\ pane.editingProvider = llm.name THEN ResetLlmForm(pane) ELSE pane, ok)
  BY DEF RemoveAnswered
<1>3. PICK ok \in BOOLEAN, reset \in BOOLEAN : pane' = Finished(IF reset THEN ResetLlmForm(pane) ELSE pane, ok)
  <2>1. (llm.at = "ok" /\ outcome = "done") \in BOOLEAN /\ (llm.at = "ok" /\ outcome = "done" /\ pane.editingProvider = llm.name) \in BOOLEAN
    OBVIOUS
  <2>2. PICK ok \in BOOLEAN : ok = (llm.at = "ok" /\ outcome = "done")
    BY <2>1
  <2>3. PICK reset \in BOOLEAN : reset = (ok /\ pane.editingProvider = llm.name)
    OBVIOUS
  <2>4. pane' = Finished(IF reset THEN ResetLlmForm(pane) ELSE pane, ok)
    BY <1>2, <2>2, <2>3
  <2> QED BY <2>4
<1>4. CASE reset
  <2>1. PaneOk(ResetLlmForm(pane))
    BY ResetOk
  <2> QED BY <1>1, <1>3, <1>4, <2>1, FinishedOk
<1>5. CASE ~reset
  BY <1>1, <1>3, <1>5, FinishedOk
<1> QED BY <1>4, <1>5

LEMMA LlmOverShapes ==
  ASSUME Shapes, LlmOver
  PROVE  Shapes'
BY DEF Shapes, LlmOver, LlmShape, SaveShape

LEMMA LlmOverInv ==
  ASSUME CatalogInv, LlmOver
  PROVE  CatalogInv'
<1>1. PICK outcome \in {"done", "lost"} : Call(outcome)
  BY DEF LlmOver
<1>2. mishap' \in {"none", "refused", "lost"} /\ (mishap' # "lost" => mishap # "lost")
  BY <1>1, CallIs DEF CatalogInv, CatalogTypes
<1>3. llm # Unset /\ llm' = Unset /\ UNCHANGED <<template, secrets, instances, live, save>> /\ ~Writing
  BY DEF LlmOver, Writing
<1>4. LlmSound'
  BY <1>3 DEF LlmSound
<1>5. KeysThere'
  BY <1>2, <1>3 DEF CatalogInv, KeysThere, HasKey
<1>6. template' \in Template /\ "shared" \in secrets' /\ WellFormed(template'.providers) /\ Resolves(template'.providers)
  BY <1>3 DEF CatalogInv, CatalogTypes
<1> QED BY <1>2, <1>3, <1>4, <1>5, <1>6, LlmStep

SaveOver ==
  /\ save # Unset /\ save' = Unset
  /\ UNCHANGED <<template, secrets, instances, live, llm, scene>>
  /\ \E outcome \in {"done", "lost"} : Call(outcome)

LEMMA SaveOverInv ==
  ASSUME CatalogInv, SaveOver
  PROVE  CatalogInv'
<1>1. PICK outcome \in {"done", "lost"} : Call(outcome)
  BY DEF SaveOver
<1>2. mishap' \in {"none", "refused", "lost"} /\ (mishap' # "lost" => mishap # "lost")
  BY <1>1, CallIs DEF CatalogInv, CatalogTypes
<1>3. SaveSound' /\ save' \in SaveReq \cup {Unset}
  BY DEF SaveOver, SaveSound
<1> QED BY <1>2, <1>3, SaveGoesOn DEF SaveOver

LEMMA SaveOverShapes ==
  ASSUME Shapes, SaveOver
  PROVE  Shapes'
BY DEF Shapes, SaveOver, LlmShape, SaveShape

-----------------------------------------------------------------------------
(* The initial catalogue, every step, and what follows *)

LEMMA GatewayOne == Gateways[1] \in GatewayNames /\ Gateways[1] # "x" /\ Gateways[1] # "y"
<1>1. 1 \in DOMAIN Gateways
  BY CatalogAssumption
<1>2. Gateways[1] \in GatewayNames
  BY <1>1 DEF GatewayNames, Range
<1> QED BY <1>2, CatalogAssumption

LEMMA InitialProviders ==
  /\ Keyed \in Provider /\ Borrowing \in Provider /\ Declared \in Provider
  /\ RefForm(Keyed) /\ RefForm(Borrowing) /\ RefForm(Declared)
  /\ Keyed.name = "x" /\ Borrowing.name = "y" /\ Declared.name = Gateways[1]
  /\ Keyed.ref = "x" /\ Borrowing.ref = "shared" /\ Declared.ref = Unset /\ "n" \in Borrowing.models
<1>1. {"x", "y", Gateways[1]} \subseteq ProviderNames /\ {"m", "n", "e"} \subseteq Ids
  BY GatewayOne, CatalogAssumption DEF ProviderNames
<1>2. {"m"} \in SUBSET Ids /\ {"n", "e"} \in SUBSET Ids
  BY <1>1
<1> QED BY <1>1, <1>2 DEF Keyed, Borrowing, Declared, Provider, RefForm

LEMMA PairWellFormed ==
  ASSUME NEW a \in Provider, NEW b \in Provider, RefForm(a), RefForm(b), a.name # b.name, NEW ps, ps = <<a, b>>
  PROVE  WellFormed(ps) /\ Range(ps) = {a, b}
<1>1. ps \in Seq(Provider) /\ DOMAIN ps = {1, 2} /\ ps[1] = a /\ ps[2] = b
  OBVIOUS
<1> QED BY <1>1 DEF WellFormed, Range

LEMMA InitShapes ==
  ASSUME CatalogInit
  PROVE  Shapes /\ CatalogInv
<1>1. PICK used \in BOOLEAN :
         /\ template = [providers |-> IF used THEN <<Declared, Borrowing>> ELSE <<Keyed, Borrowing>>,
                        defaultModel |-> IF used THEN <<Gateways[1], "m">> ELSE Unset, resourceVersion |-> 0]
         /\ secrets = IF used THEN {"shared"} ELSE {"x", "shared"}
         /\ instances = [n \in Range(InstanceName) |->
                            IF used /\ n = "you" THEN [owner |-> n, selected |-> <<"y", "n">>] ELSE Unset]
  BY DEF CatalogInit
<1>2. /\ live = [g \in GatewayNames |-> {}] /\ llm = Unset /\ save = Unset /\ mishap = "none"
  BY DEF CatalogInit
<1> DEFINE first == IF used THEN Declared ELSE Keyed
           ps == <<first, Borrowing>>
<1>3. template.providers = ps /\ template.resourceVersion = 0 /\ template.defaultModel = IF used THEN <<Gateways[1], "m">> ELSE Unset
  BY <1>1
<1>4. first \in Provider /\ RefForm(first) /\ first.name # "y" /\ Borrowing.name = "y"
  BY InitialProviders, GatewayOne
<1>5. WellFormed(ps) /\ Range(ps) = {first, Borrowing}
  <2> HIDE DEF first
  <2> QED BY <1>4, InitialProviders, PairWellFormed
<1>6. <<Gateways[1], "m">> \in Refs /\ <<"y", "n">> \in Refs
  BY GatewayOne, CatalogAssumption DEF Refs, ProviderNames
<1>7. template \in Template
  <2>1. PICK d \in Refs \cup {Unset} : d = IF used THEN <<Gateways[1], "m">> ELSE Unset
    BY <1>6
  <2>2. template = [providers |-> ps, defaultModel |-> d, resourceVersion |-> 0]
    BY <1>1, <2>1
  <2>3. ps \in Seq(Provider)
    BY <1>5 DEF WellFormed
  <2> HIDE DEF ps
  <2> QED BY <2>2, <2>3 DEF Template
<1>8. instances \in [Range(InstanceName) -> Instance \cup {Unset}]
  <2>1. \A n \in Range(InstanceName) : [owner |-> n, selected |-> <<"y", "n">>] \in Instance
    BY <1>6 DEF Instance
  <2> QED BY <1>1, <2>1
<1>9. live \in [GatewayNames -> SUBSET ChatIds]
  BY <1>2
<1>10. Shapes
  BY <1>2, <1>7, <1>8, <1>9 DEF Shapes, LlmShape, SaveShape
<1>11. CatalogTypes /\ OneAtATime /\ LlmSound /\ SaveSound
  BY <1>1, <1>2, <1>7, <1>8, <1>9 DEF CatalogTypes, OneAtATime, LlmSound, SaveSound
<1>12. Resolves(template.providers)
  <2>1. SelectedRefs \subseteq {<<"y", "n">>}
    <3>1. \A n \in DOMAIN instances : instances[n] # Unset => instances[n].selected = <<"y", "n">>
      BY <1>1
    <3> QED BY <3>1 DEF SelectedRefs
  <2>2. Lists(ps, <<"y", "n">>)
    <3>1. Borrowing \in Range(ps)
      BY <1>5
    <3> HIDE DEF ps
    <3> QED BY <3>1, InitialProviders DEF Lists
  <2> QED BY <1>3, <2>1, <2>2 DEF Resolves
<1>13. KeysThere
  <2>1. HasKey(first) /\ HasKey(Borrowing)
    BY <1>1, InitialProviders DEF HasKey
  <2> QED BY <1>3, <1>5, <2>1 DEF KeysThere
<1> QED BY <1>3, <1>5, <1>10, <1>11, <1>12, <1>13 DEF CatalogInv

LEMMA InitPane ==
  ASSUME PaneInit
  PROVE  PaneOk(pane)
<1> DEFINE c == [exists |-> FALSE, selected |-> Unset, providers |-> <<>>, entries |-> [g \in GatewayNames |-> {}]]
           ls == [k \in Causes |-> IF k = "mount" /\ scene \cap {"select", "editor", "rows"} # {} THEN Sent ELSE Idle]
<1>1. pane = [config |-> c, loads |-> ls, loaded |-> FALSE, loadError |-> FALSE, saving |-> FALSE, llmBusy |-> FALSE,
              llmForm |-> EmptyForm, editingProvider |-> Unset, llmFetched |-> Unset, llmFetch |-> Unset]
  BY DEF PaneInit
<1>2. c \in Config
  <2>1. <<>> \in Seq(Provider) /\ [g \in GatewayNames |-> {}] \in [GatewayNames -> SUBSET ChatIds]
    OBVIOUS
  <2> QED BY <2>1 DEF Config
<1>3. ls \in [Causes -> Load]
  BY RestingLoads
<1>4. EmptyForm \in Form /\ ~(EmptyForm.key /\ EmptyForm.public)
  BY DEF EmptyForm, Form
<1> HIDE DEF c, ls
<1>5. pane \in Pane
  BY <1>1, <1>2, <1>3, <1>4 DEF Pane
<1>6. pane.llmForm = EmptyForm /\ pane.llmFetched = Unset /\ pane.llmFetch = Unset
  BY <1>1
<1> QED BY <1>4, <1>5, <1>6 DEF PaneOk

LEMMA CatalogStep ==
  ASSUME Inv, CatalogNext
  PROVE  Shapes' /\ (Alone => CatalogInv') /\ scene' = scene
<1>1. Shapes /\ (Alone => CatalogInv)
  BY DEF Inv
<1>2. CASE LlmLooks
  <2> scene' = scene
    BY <1>2 DEF LlmLooks
  <2> QED BY <1>1, <1>2, LlmLooksShapes, LlmLooksInv
<1>3. CASE LlmGuards
  <2> scene' = scene
    BY <1>3 DEF LlmGuards
  <2> QED BY <1>1, <1>3, LlmGuardsShapes, LlmGuardsInv
<1>4. CASE LlmPatches
  <2> scene' = scene
    BY <1>4 DEF LlmPatches
  <2> QED BY <1>1, <1>4, LlmPatchesShapes, LlmPatchesInv
<1>5. CASE LlmCredential
  <2> scene' = scene
    BY <1>5 DEF LlmCredential
  <2> QED BY <1>1, <1>5, LlmCredentialShapes, LlmCredentialInv
<1>6. CASE LlmUndo
  <2> scene' = scene
    BY <1>6 DEF LlmUndo
  <2> QED BY <1>1, <1>6, LlmUndoShapes, LlmUndoInv
<1>7. CASE SaveLooks
  <2> scene' = scene
    BY <1>7 DEF SaveLooks
  <2> QED BY <1>1, <1>7, SaveLooksShapes, SaveLooksInv
<1>8. CASE SaveResolves
  <2> scene' = scene
    BY <1>8 DEF SaveResolves
  <2> QED BY <1>1, <1>8, SaveResolvesShapes, SaveResolvesInv
<1>9. CASE SavePatches
  <2> scene' = scene
    BY <1>9 DEF SavePatches
  <2> QED BY <1>1, <1>9, SavePatchesShapes, SavePatchesInv
<1>10. CASE SaveInstance
  <2> scene' = scene
    BY <1>10 DEF SaveInstance
  <2> QED BY <1>1, <1>10, SaveInstanceShapes, SaveInstanceInv
<1>11. CASE OthersEdit
  <2>1. /\ LlmSentAs(llm') /\ llm = Unset /\ Room /\ scene' = scene
        /\ UNCHANGED <<template, secrets, instances, live, save, mishap>>
    BY <1>11, OthersEditSends
  <2>2. Alone => save = Unset
    BY <2>1 DEF Room, Alone
  <2>3. Shapes'
    BY <1>1, <2>1, LlmSentShapes
  <2> QED BY <1>1, <2>1, <2>2, <2>3, LlmSentInv
<1>12. CASE OthersSave
  <2>1. /\ SaveSentAs(save') /\ save = Unset /\ Room /\ scene' = scene
        /\ UNCHANGED <<template, secrets, instances, live, llm, mishap>>
    BY <1>12, OthersSaveSends
  <2>2. Alone => llm = Unset
    BY <2>1 DEF Room, Alone
  <2>3. Shapes'
    BY <1>1, <2>1, SaveSentShapes
  <2> QED BY <1>1, <2>1, <2>2, <2>3, SaveSentInv
<1>13. CASE GatewayChanges
  <2>1. live' \in [GatewayNames -> SUBSET ChatIds] /\ UNCHANGED <<template, instances, llm, save, scene>>
    BY <1>1, <1>13, GatewayChangesIs DEF Shapes
  <2>2. Shapes'
    BY <1>1, <2>1 DEF Shapes, LlmShape, SaveShape
  <2> QED BY <1>1, <1>13, <2>1, <2>2, GatewayChangesInv
<1> QED BY <1>2, <1>3, <1>4, <1>5, <1>6, <1>7, <1>8, <1>9, <1>10, <1>11, <1>12, <1>13 DEF CatalogNext, RouteSteps

\* A step that leaves the catalogue and its requests alone.
LEMMA CatalogRests ==
  ASSUME Inv, UNCHANGED <<template, secrets, instances, live, llm, save, scene>>,
         mishap' = mishap \/ Call("refused")
  PROVE  Shapes' /\ (Alone => CatalogInv') /\ scene' = scene
<1>1. Shapes'
  BY DEF Inv, Shapes, LlmShape, SaveShape
<1>2. ASSUME CatalogInv PROVE CatalogInv'
  <2>1. /\ mishap' \in {"none", "refused", "lost"} /\ (mishap' # "lost" => mishap # "lost")
        /\ (mishap # "none" => mishap' # "none") /\ (mishap' = "lost" <=> mishap = "lost")
    BY <1>2 DEF CatalogInv, CatalogTypes, Call, Outcomes
  <2>2. CatalogTypes' /\ OneAtATime' /\ WellFormed(template'.providers) /\ SelectedRefs' = SelectedRefs
    BY <1>2, <2>1 DEF CatalogInv, CatalogTypes, OneAtATime, SelectedRefs
  <2>3. Resolves(template.providers)' /\ KeysThere' /\ SaveSound'
    BY <1>2, <2>1, <2>2 DEF CatalogInv, Resolves, KeysThere, HasKey, Writing, CredentialStep, SaveSound
  <2>4. UndoneProviders(llm)' = UndoneProviders(llm) /\ CredentialStep(llm)' = CredentialStep(llm)
    BY DEF UndoneProviders, CredentialStep
  <2>5. Half(llm) => Half(llm)'
    BY <2>1, <2>2, <2>4 DEF Half, Resolves, HasKey
  <2>6. Found(llm) => Found(llm)'
    BY DEF Found
  <2>7. LlmSound'
    BY <1>2, <2>2, <2>5, <2>6 DEF CatalogInv, LlmSound
  <2> QED BY <2>2, <2>3, <2>7 DEF CatalogInv
<1> QED BY <1>1, <1>2 DEF Inv

LEMMA ConfigStep ==
  ASSUME Inv, ConfigNext
  PROVE  Inv'
<1>1. Shapes /\ PaneOk(pane) /\ (Alone => CatalogInv)
  BY DEF Inv
<1>2. SUFFICES Shapes' /\ PaneOk(pane') /\ (Alone => CatalogInv') /\ scene' = scene
  BY DEF Inv, Alone
<1>3. CASE CatalogNext /\ UNCHANGED paneVars
  <2> pane' = pane
    BY <1>3 DEF paneVars
  <2> QED BY <1>1, <1>3, CatalogStep
<1>4. ASSUME UNCHANGED catalogVars PROVE Shapes' /\ (Alone => CatalogInv') /\ scene' = scene
  BY <1>4, CatalogRests DEF catalogVars
<1>5. CASE ChooseModel
  BY <1>1, <1>4, <1>5, ChooseModelOk DEF ChooseModel
<1>6. CASE LoadReads
  BY <1>1, <1>4, <1>6, LoadReadsOk DEF LoadReads
<1>7. CASE LoadLands
  BY <1>1, <1>4, <1>7, LoadLandsOk DEF LoadLands
<1>8. CASE LoadFails
  <2>1. UNCHANGED <<template, secrets, instances, live, llm, save, scene>> /\ Call("refused")
    BY <1>8 DEF LoadFails
  <2>2. PaneOk(pane')
    BY <1>1, <1>8, LoadFailsOk
  <2> QED BY <2>1, <2>2, CatalogRests
<1>9. CASE Touch
  BY <1>1, <1>4, <1>9, TouchOk DEF Touch
<1>10. CASE FetchLlmModels
  BY <1>1, <1>4, <1>10, FetchLlmModelsOk DEF FetchLlmModels
<1>11. CASE FetchLands
  BY <1>1, <1>4, <1>11, FetchLandsOk DEF FetchLands
<1>12. CASE SaveConfig
  <2>1. /\ SaveSentAs(save') /\ save = Unset /\ Room /\ PaneOk(pane') /\ scene' = scene
        /\ UNCHANGED <<template, secrets, instances, live, llm, mishap>>
    BY <1>1, <1>12, SaveConfigSends
  <2>2. Alone => llm = Unset
    BY <2>1 DEF Room, Alone
  <2>3. Shapes'
    BY <1>1, <2>1, SaveSentShapes
  <2> QED BY <1>1, <2>1, <2>2, <2>3, SaveSentInv
<1>13. CASE SaveAnswered
  <2>1. SaveOver
    BY <1>13 DEF SaveAnswered, SaveOver
  <2>2. PaneOk(pane')
    BY <1>1, <1>13, SaveAnsweredOk
  <2>3. scene' = scene
    BY <2>1 DEF SaveOver
  <2> QED BY <1>1, <2>1, <2>2, <2>3, SaveOverShapes, SaveOverInv
<1>14. CASE SubmitLlm
  <2>1. /\ LlmSentAs(llm') /\ llm = Unset /\ Room /\ PaneOk(pane') /\ scene' = scene
        /\ UNCHANGED <<template, secrets, instances, live, save, mishap>>
    BY <1>1, <1>14, SubmitLlmSends
  <2>2. Alone => save = Unset
    BY <2>1 DEF Room, Alone
  <2>3. Shapes'
    BY <1>1, <2>1, LlmSentShapes
  <2> QED BY <1>1, <2>1, <2>2, <2>3, LlmSentInv
<1>15. CASE RemoveLlm
  <2>1. /\ LlmSentAs(llm') /\ llm = Unset /\ Room /\ PaneOk(pane') /\ scene' = scene
        /\ UNCHANGED <<template, secrets, instances, live, save, mishap>>
    BY <1>1, <1>15, RemoveLlmSends
  <2>2. Alone => save = Unset
    BY <2>1 DEF Room, Alone
  <2>3. Shapes'
    BY <1>1, <2>1, LlmSentShapes
  <2> QED BY <1>1, <2>1, <2>2, <2>3, LlmSentInv
<1>16. CASE SubmitAnswered
  <2>1. LlmOver /\ PaneOk(pane')
    BY <1>1, <1>16, SubmitAnsweredIs
  <2>2. scene' = scene
    BY <2>1 DEF LlmOver
  <2> QED BY <1>1, <2>1, <2>2, LlmOverShapes, LlmOverInv
<1>17. CASE RemoveAnswered
  <2>1. LlmOver /\ PaneOk(pane')
    BY <1>1, <1>17, RemoveAnsweredIs
  <2>2. scene' = scene
    BY <2>1 DEF LlmOver
  <2> QED BY <1>1, <2>1, <2>2, LlmOverShapes, LlmOverInv
<1> QED BY <1>3, <1>5, <1>6, <1>7, <1>8, <1>9, <1>10, <1>11, <1>12, <1>13, <1>14, <1>15, <1>16, <1>17 DEF ConfigNext

\* What FormsSpec's behaviours are made of, as far as the catalogue goes.
formsVars == <<formVars, deployVars, catalogVars, paneVars>>

LEMMA FormsStep ==
  ASSUME [FormsNext]_formsVars
  PROVE  ConfigNext \/ UNCHANGED <<catalogVars, pane>>
BY DEF FormsNext, formsVars, paneVars

\* The invariant is inductive: in every scene what the routes and the page hold
\* has its shape, and where requests take turns (Room) the catalogue is as each of
\* them expects to find it.
THEOREM CatalogInductive == FormsSpec => []Inv
<1>1. FormsInit => Inv
  BY InitShapes, InitPane DEF FormsInit, ConfigInit, Inv
<1>2. Inv /\ [FormsNext]_formsVars => Inv'
  <2> SUFFICES ASSUME Inv, [FormsNext]_formsVars PROVE Inv'
    OBVIOUS
  <2>1. CASE ConfigNext
    BY <2>1, ConfigStep
  <2>2. CASE UNCHANGED <<catalogVars, pane>>
    <3>1. Shapes' /\ (Alone => CatalogInv') /\ scene' = scene
      BY <2>2, CatalogRests DEF catalogVars
    <3>2. PaneOk(pane')
      BY <2>2 DEF Inv
    <3> QED BY <3>1, <3>2 DEF Inv, Alone
  <2> QED BY <2>1, <2>2, FormsStep
<1> QED BY <1>1, <1>2, PTL DEF FormsSpec, formsVars

\* Where requests take turns, whoever selects a model can have its turns answered:
\* an external model that an instance selects is in the catalogue, and an entry's
\* Secret exists, whichever call of a route is refused.
THEOREM SelectionsAnswer == FormsSpec => [](Alone => SelectedCanAnswer)
<1>1. Inv /\ Alone => SelectedCanAnswer
  <2> SUFFICES ASSUME Inv, Alone PROVE SelectedCanAnswer
    OBVIOUS
  <2>1. CatalogInv
    BY DEF Inv
  <2>2. SelectionResolves
    <3>1. SUFFICES ASSUME NEW n \in DOMAIN instances, instances[n] # Unset, Picked(instances[n].selected)
                   PROVE  instances[n].selected \in ListedRefs(template)
      BY DEF SelectionResolves, Picked
    <3>2. instances[n].selected \in SelectedRefs
      BY <3>1 DEF SelectedRefs
    <3>3. Lists(template.providers, instances[n].selected)
      BY <2>1, <3>1, <3>2 DEF CatalogInv, Resolves
    <3>4. instances[n].selected \in Refs
      BY <2>1, <3>1, <3>2, SelectedAreRefs DEF CatalogInv, CatalogTypes, Picked
    <3> QED BY <3>3, <3>4, ListedIs
  <2>3. KeyedHaveKeys
    BY <2>1 DEF CatalogInv, KeysThere, KeyedHaveKeys, AtRest, Writing, HasKey
  <2> QED BY <2>2, <2>3 DEF SelectedCanAnswer
<1> QED BY <1>1, CatalogInductive, PTL

\* In every scene the pickers offer what they should: the assistant's models are
\* what a save takes, and the ids of a provider's form are those of its endpoint.
THEOREM PickersAreTrue == FormsSpec => []PickerIsTrue
<1>1. Inv => PickerIsTrue
  <2> SUFFICES ASSUME Inv PROVE PickerIsTrue
    OBVIOUS
  <2>1. OfferedIsAccepted
    <3>1. template \in Template /\ live \in [GatewayNames -> SUBSET ChatIds] /\ PaneOk(pane)
      BY DEF Inv, Shapes
    <3>2. pane.config \in Config
      BY <3>1, PaneFields
    <3> QED BY <3>1, <3>2, OfferedTrue
  <2>2. FetchedIsTheForms
    BY DEF Inv, PaneOk, AsksWith, FetchedIsTheForms
  <2> QED BY <2>1, <2>2 DEF PickerIsTrue
<1> QED BY <1>1, CatalogInductive, PTL
=============================================================================
