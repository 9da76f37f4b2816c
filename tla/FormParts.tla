------------------------------ MODULE FormParts ------------------------------
(***************************************************************************)
(* What the two create wizards share: the namespaces they offer            *)
(* (lib/namespaces.ts), the ones the platform keeps for itself             *)
(* (app/api/namespaces/route.ts), and the way a route names the first      *)
(* fault of a request.                                                     *)
(***************************************************************************)
EXTENDS Integers, Sequences, FiniteSets, SequencesExt

CONSTANT Absent         \* a field that is left out (a model value)

Blank == ""             \* a box that is left empty

OrAbsent(x) == IF x = Blank THEN Absent ELSE x
If(c, x) == IF c THEN x ELSE Absent

(* A check answers with the code of its fault, or "none"; checks in a row, or one
   per row of a table, with the code of the first that has one. *)
Code(fault, code) == IF fault THEN code ELSE "none"
FirstOf(codes) ==
    LET hits == {i \in DOMAIN codes : codes[i] # "none"}
    IN  IF hits = {} THEN "none" ELSE codes[Min(hits)]

(* The texts of the model that are DNS labels. *)
DnsLabels == {"env", "svc", "taken", "a-name-of-60-characters", "default", "team", "kube-system", "new"}

(* The cluster's namespaces; no namespace is configured, so one is offered. *)
Namespaces == {"default", "team", "kube-system"}
OfferedNamespaces == Namespaces \cap {"default"}
DefaultNamespaceOf ==
    IF "default" \in OfferedNamespaces THEN "default" ELSE CHOOSE n \in OfferedNamespaces \cup {Blank} : TRUE

(* POST /api/namespaces: it is made, or it is there and not the platform's. *)
Managed == {"kube-system"}
RefuseNamespace(n) ==
    FirstOf(<< Code(n \notin DnsLabels, "namespaceNameInvalid"),
               Code(n \in Namespaces /\ n \in Managed, "namespaceManaged") >>)

EffectiveNamespace(d) == IF d.newNamespace THEN d.newNamespaceName ELSE d.namespace

(* The namespaces there are once the wizard's first request has been answered. *)
NamespacesFor(d) == Namespaces \cup (IF d.newNamespace THEN {d.newNamespaceName} ELSE {})

(* The last entry of the select opens a box; the draft keeps the namespace it had. *)
ChangeNamespace(d) ==
    {[d EXCEPT !.newNamespace = TRUE]}
    \cup {[d EXCEPT !.newNamespace = FALSE, !.namespace = n] : n \in OfferedNamespaces}

TypeNamespace(d) ==
    IF ~d.newNamespace THEN {}
    ELSE {[d EXCEPT !.newNamespaceName = n] : n \in {Blank, "Bad_1", "new", "team", "kube-system"}}
=============================================================================
