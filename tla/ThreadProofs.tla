---------------------------- MODULE ThreadProofs ----------------------------
(***************************************************************************)
(* The safety properties of the cards of a conversation and of the fold of *)
(* a turn, for all sets of cards, calls and narrations and all bounds: of  *)
(* the specification Thread runs.                                          *)
(***************************************************************************)
EXTENDS Thread, FiniteSetTheorems, WellFoundedInduction, TLAPS

-----------------------------------------------------------------------------
(* The inductive invariant, in parts *)

Shown == [st : OpenStates \cup SettledStates, err : BOOLEAN]
Bubble == [Cards -> SUBSET Shown]
CardEvent == [type : {"pending", "resolved", "message_done"}, card : Cards \cup {"none"}, outcome : Outcomes]
PendingRead == [before : SUBSET Cards, quiet : BOOLEAN, asked : BOOLEAN, ans : SUBSET Cards, ok : BOOLEAN]
Answer == [what : {"none", "approve", "reject", "answer", "cancel"}, ans : {"none", "ok", "gone", "fail"}, reread : BOOLEAN]

CardTypes ==
  /\ held \in [Cards -> Outcomes \cup {"unborn", "pending"}]
  /\ live \in BOOLEAN
  /\ turns \in Nat /\ turns <= MaxBubbles /\ written \in Nat /\ written <= turns
  /\ link \in [kind : {"none", "own", "attach"}, queue : Seq(CardEvent)]
  /\ thread \in Seq(Bubble)
  /\ own \in {"no", "yes", "settled"}
  /\ reads \subseteq PendingRead /\ IsFiniteSet(reads) /\ Cardinality(reads) <= MaxReads
  /\ clicks \in [Cards -> Answer]

Decisions == {"approved", "rejected", "answered"}
Undecided == {"closed", "expired"}

\* A copy on screen is of a card that was raised, and claims no other decision
\* than the gateway recorded.
CopyTrue(c, x) == held[c] # "unborn" /\ (x.st \in Decisions => held[c] = x.st)
BubbleTrue(b) == \A c \in Cards : \A x \in b[c] : CopyTrue(c, x)
CopiesTrue == \A i \in DOMAIN thread : BubbleTrue(thread[i])

\* So does an event under way.
EventTrue(e) ==
  /\ e.type # "message_done" => e.card \in Cards /\ held[e.card] # "unborn"
  /\ e.type = "resolved" =>
       /\ held[e.card] # "pending" /\ (e.outcome \notin Undecided => held[e.card] = e.outcome)
       /\ e.card \in Questions => e.outcome \in {"answered", "cancelled", "expired"}
EventsTrue == \A k \in DOMAIN link.queue : EventTrue(link.queue[k])

\* A turn that is over waits for nothing.
OverWaitsForNothing == ~live => \A c \in Cards : held[c] # "pending"

\* The stream of the send is the only source of cards while it is held, and what
\* it says before the end of a turn is about that turn.
OwnStream == link.kind = "own" => own = "yes" /\ reads = {}
EndsItsTurn ==
  \A k \in DOMAIN link.queue : link.queue[k].type = "message_done" =>
    /\ link.kind = "own"
    /\ \A i \in DOMAIN thread : \A c \in Cards : thread[i][c] # {} => held[c] # "pending"
    /\ \A m \in DOMAIN link.queue : m < k /\ link.queue[m].type # "message_done" => held[link.queue[m].card] # "pending"

\* A card that was open before a read went out, and is still held, is in the answer.
ReadTrue(r) ==
  /\ \A c \in r.before \cup r.ans : held[c] # "unborn"
  /\ r.asked /\ r.ok => \A c \in r.before : held[c] = "pending" => c \in r.ans
ReadsTrue == \A r \in reads : ReadTrue(r)

\* What the user's answer came to is what the gateway has.
ClickTrue(c, k) ==
  /\ k.ans # "none" => k.what # "none"
  /\ k.what # "none" => held[c] # "unborn"
  /\ k.ans = "ok" /\ ~k.reread => held[c] = OutcomeOf(k.what)
  /\ k.ans = "gone" => held[c] # "pending"
  /\ c \in Approvals => ~k.reread
  /\ c \in Questions => k.what \in {"none", "answer", "cancel"}
ClicksTrue == \A c \in Cards : ClickTrue(c, clicks[c])

CardsInv ==
  /\ CardTypes /\ CopiesTrue /\ EventsTrue /\ OverWaitsForNothing
  /\ OwnStream /\ EndsItsTurn /\ ReadsTrue /\ ClicksTrue

-----------------------------------------------------------------------------
(* Bubbles and threads *)

LEMMA NewBubbleIs == NewBubble \in Bubble /\ \A c \in Cards : NewBubble[c] = {}
BY DEF NewBubble, Bubble

LEMMA NewestIs ==
  ASSUME NEW t \in Seq(Bubble)
  PROVE  Newest(t) \in Bubble /\ (t # <<>> => Len(t) \in DOMAIN t /\ Newest(t) = t[Len(t)])
BY NewBubbleIs DEF Newest

LEMMA OnNewestIs ==
  ASSUME NEW t \in Seq(Bubble), NEW b \in Bubble
  PROVE  /\ OnNewest(t, b) \in Seq(Bubble)
         /\ Len(OnNewest(t, b)) = IF t = <<>> THEN 1 ELSE Len(t)
         /\ \A i \in DOMAIN OnNewest(t, b) : OnNewest(t, b)[i] = IF i = Len(OnNewest(t, b)) THEN b ELSE t[i]
<1>1. CASE t = <<>>
  BY <1>1 DEF OnNewest
<1>2. CASE t # <<>>
  BY <1>2 DEF OnNewest
<1> QED BY <1>1, <1>2

LEMMA NewestTrue ==
  ASSUME thread \in Seq(Bubble), CopiesTrue
  PROVE  BubbleTrue(Newest(thread))
<1>1. CASE thread = <<>>
  BY <1>1, NewBubbleIs DEF Newest, BubbleTrue
<1>2. CASE thread # <<>>
  BY <1>2, NewestIs DEF CopiesTrue
<1> QED BY <1>1, <1>2

\* A card that is held and open in one bubble is open in the other.
Keeps(b, d) == \A c \in Cards : held[c] = "pending" /\ OpenCopies(b, c) # {} => OpenCopies(d, c) # {}

LEMMA OpenCardsAre ==
  ASSUME NEW t
  PROVE  OpenCards(t) = {c \in Cards : \E i \in DOMAIN t : OpenCopies(t[i], c) # {}}
BY DEF OpenCards, Copies, OpenCopies

\* What changes the newest bubble only.
LEMMA OnNewestTrue ==
  ASSUME thread \in Seq(Bubble), CopiesTrue, NEW b \in Bubble, BubbleTrue(b), Keeps(Newest(thread), b)
  PROVE  LET t == OnNewest(thread, b)
         IN  /\ \A i \in DOMAIN t : BubbleTrue(t[i])
             /\ \A c \in OpenCards(thread) : held[c] = "pending" => c \in OpenCards(t)
<1> DEFINE t == OnNewest(thread, b)
<1>1. /\ t \in Seq(Bubble) /\ Len(t) = (IF thread = <<>> THEN 1 ELSE Len(thread))
      /\ \A i \in DOMAIN t : t[i] = IF i = Len(t) THEN b ELSE thread[i]
  BY OnNewestIs
<1> HIDE DEF t
<1>2. ASSUME NEW i \in DOMAIN t PROVE BubbleTrue(t[i])
  <2>1. CASE i = Len(t)
    BY <1>1, <2>1
  <2>2. CASE i # Len(t)
    <3>1. i \in DOMAIN thread /\ t[i] = thread[i]
      BY <1>1, <2>2
    <3> QED BY <3>1 DEF CopiesTrue
  <2> QED BY <2>1, <2>2
<1>3. ASSUME NEW c \in OpenCards(thread), held[c] = "pending" PROVE c \in OpenCards(t)
  <2>1. PICK i \in DOMAIN thread : c \in Cards /\ OpenCopies(thread[i], c) # {}
    BY OpenCardsAre
  <2>2. thread # <<>> /\ Len(t) = Len(thread) /\ i \in DOMAIN t
    BY <1>1, <2>1
  <2>3. CASE i = Len(t)
    <3>1. thread[i] = Newest(thread) /\ t[i] = b
      BY <1>1, <2>2, <2>3, NewestIs
    <3>2. OpenCopies(t[i], c) # {}
      BY <1>3, <2>1, <3>1 DEF Keeps
    <3> QED BY <2>1, <2>2, <3>2, OpenCardsAre
  <2>4. CASE i # Len(t)
    <3>1. t[i] = thread[i]
      BY <1>1, <2>2, <2>4
    <3> QED BY <2>1, <2>2, <3>1, OpenCardsAre
  <2> QED BY <2>3, <2>4
<1> QED BY <1>2, <1>3 DEF t

-----------------------------------------------------------------------------
(* The helpers of the thread *)

LEMMA CardIs == \A st \in OpenStates \cup SettledStates, err \in BOOLEAN : Card(st, err) \in Shown /\ Card(st, err).st = st
BY DEF Card, Shown

LEMMA PendingCard == Card("pending", FALSE) \in Shown /\ Card("pending", FALSE).st = "pending" /\ IsOpen(Card("pending", FALSE))
BY CardIs DEF OpenStates, IsOpen

\* A copy with another state.
LEMMA RestateIs ==
  ASSUME NEW x \in Shown, NEW st \in OpenStates \cup SettledStates
  PROVE  [x EXCEPT !.st = st] \in Shown /\ [x EXCEPT !.st = st].st = st
BY DEF Shown

LEMMA AddApprovalIs ==
  ASSUME NEW b \in Bubble, BubbleTrue(b), NEW c \in Cards, held[c] # "unborn"
  PROVE  LET d == AddApproval(b, c)
         IN  /\ d \in Bubble /\ BubbleTrue(d) /\ Keeps(b, d)
             /\ \A k \in Cards : d[k] # {} => b[k] # {} \/ k = c
<1> DEFINE p == Card("pending", FALSE)
<1>1. p \in Shown /\ p.st = "pending" /\ IsOpen(p)
  BY PendingCard
<1> HIDE DEF p
<1>2. CASE b[c] # {}
  BY <1>2 DEF AddApproval, Keeps
<1>3. CASE b[c] = {}
  <2> DEFINE d == [b EXCEPT ![c] = {p}]
  <2>1. d \in Bubble /\ d[c] = {p} /\ \A k \in Cards : k # c => d[k] = b[k]
    BY <1>1 DEF Bubble
  <2>2. AddApproval(b, c) = d
    BY <1>3 DEF AddApproval, p
  <2> HIDE DEF d
  <2>3. BubbleTrue(d)
    BY <1>1, <2>1 DEF BubbleTrue, CopyTrue, Decisions
  <2>4. Keeps(b, d)
    BY <1>1, <2>1 DEF Keeps, OpenCopies
  <2> QED BY <2>1, <2>2, <2>3, <2>4
<1> QED BY <1>2, <1>3

LEMMA AddQuestionIs ==
  ASSUME NEW b \in Bubble, BubbleTrue(b), NEW c \in Cards, held[c] # "unborn"
  PROVE  LET d == [b EXCEPT ![c] = @ \cup {Card("pending", FALSE)}]
         IN  /\ d \in Bubble /\ BubbleTrue(d) /\ Keeps(b, d)
             /\ \A k \in Cards : d[k] # {} => b[k] # {} \/ k = c
<1> DEFINE p == Card("pending", FALSE)
           d == [b EXCEPT ![c] = @ \cup {p}]
<1>1. p \in Shown /\ p.st = "pending"
  BY PendingCard
<1> HIDE DEF p
<1>2. d \in Bubble /\ d[c] = b[c] \cup {p} /\ \A k \in Cards : k # c => d[k] = b[k]
  BY <1>1 DEF Bubble
<1> HIDE DEF d
<1>3. BubbleTrue(d)
  BY <1>1, <1>2 DEF BubbleTrue, CopyTrue, Decisions
<1>4. Keeps(b, d)
  BY <1>2 DEF Keeps, OpenCopies
<1> QED BY <1>2, <1>3, <1>4 DEF d, p

LEMMA ResolveOutcomeIs ==
  ASSUME NEW c \in Cards, NEW outcome \in Outcomes,
         c \in Questions => outcome \in {"answered", "cancelled", "expired"}
  PROVE  /\ ResolveOutcome(c, outcome) \in SettledStates
         /\ ResolveOutcome(c, outcome) \in Decisions => ResolveOutcome(c, outcome) = outcome /\ outcome \notin Undecided
BY DEF ResolveOutcome, SettledStates, Decisions, Undecided, Cards

LEMMA ResolvedIs ==
  ASSUME NEW b \in Bubble, BubbleTrue(b), NEW c \in Cards, NEW st \in SettledStates,
         held[c] # "unborn", held[c] # "pending", st \in Decisions => held[c] = st
  PROVE  LET d == Patch(b, c, LAMBDA x : [x EXCEPT !.st = st])
         IN  /\ d \in Bubble /\ BubbleTrue(d) /\ Keeps(b, d)
             /\ \A k \in Cards : d[k] # {} => b[k] # {}
<1> DEFINE s == {[x EXCEPT !.st = st] : x \in b[c]}
           d == [b EXCEPT ![c] = s]
<1>1. Patch(b, c, LAMBDA x : [x EXCEPT !.st = st]) = d
  BY DEF Patch
<1>2. b[c] \subseteq Shown
  BY DEF Bubble
<1>3. s \subseteq Shown /\ (\A y \in s : y.st = st) /\ (s # {} => b[c] # {})
  BY <1>2, RestateIs
<1> HIDE DEF s
<1>4. d \in Bubble /\ d[c] = s /\ \A k \in Cards : k # c => d[k] = b[k]
  BY <1>3 DEF Bubble
<1> HIDE DEF d
<1>5. BubbleTrue(d)
  BY <1>3, <1>4 DEF BubbleTrue, CopyTrue
<1>6. Keeps(b, d)
  BY <1>4 DEF Keeps, OpenCopies
<1> QED BY <1>1, <1>3, <1>4, <1>5, <1>6

\* The end of a turn settles what is open, and none of that is held.
LEMMA MessageDoneIs ==
  ASSUME NEW b \in Bubble, BubbleTrue(b), \A c \in Cards : b[c] # {} => held[c] # "pending", NEW e, e.type = "message_done"
  PROVE  ApplyCardEvent(b, e) \in Bubble /\ BubbleTrue(ApplyCardEvent(b, e)) /\ Keeps(b, ApplyCardEvent(b, e))
<1> DEFINE settled(c) == IF c \in Approvals THEN "stopped" ELSE "cancelled"
           Settle(c, x) == IF IsOpen(x) THEN [x EXCEPT !.st = settled(c)] ELSE x
           d == [c \in Cards |-> {Settle(c, x) : x \in b[c]}]
<1>1. ApplyCardEvent(b, e) = d
  BY DEF ApplyCardEvent
<1>2. ASSUME NEW c \in Cards, NEW x \in b[c] PROVE Settle(c, x) \in Shown /\ CopyTrue(c, Settle(c, x))
  <2>1. x \in Shown /\ CopyTrue(c, x)
    BY <1>2 DEF Bubble, BubbleTrue
  <2>2. settled(c) \in SettledStates /\ settled(c) \notin Decisions
    BY DEF SettledStates, Decisions
  <2> HIDE DEF settled
  <2>3. CASE IsOpen(x)
    BY <2>1, <2>2, <2>3, RestateIs DEF CopyTrue
  <2>4. CASE ~IsOpen(x)
    BY <2>1, <2>4
  <2> QED BY <2>3, <2>4
<1> HIDE DEF Settle
<1>3. d \in Bubble
  BY <1>2 DEF Bubble
<1>4. BubbleTrue(d)
  BY <1>2 DEF BubbleTrue
<1>5. Keeps(b, d)
  BY DEF Keeps, OpenCopies
<1> QED BY <1>1, <1>3, <1>4, <1>5

LEMMA ApplyCardEventIs ==
  ASSUME NEW b \in Bubble, BubbleTrue(b), NEW e \in CardEvent, EventTrue(e),
         e.type = "message_done" => \A c \in Cards : b[c] # {} => held[c] # "pending"
  PROVE  LET d == ApplyCardEvent(b, e)
         IN  /\ d \in Bubble /\ BubbleTrue(d) /\ Keeps(b, d)
             /\ e.type # "message_done" => \A k \in Cards : d[k] # {} => b[k] # {} \/ k = e.card
<1>1. CASE e.type = "pending"
  <2>1. e.card \in Cards /\ held[e.card] # "unborn"
    BY <1>1 DEF EventTrue
  <2>2. ApplyCardEvent(b, e) = IF e.card \in Approvals THEN AddApproval(b, e.card)
                               ELSE [b EXCEPT ![e.card] = @ \cup {Card("pending", FALSE)}]
    BY <1>1 DEF ApplyCardEvent
  <2>3. CASE e.card \in Approvals
    BY <2>1, <2>2, <2>3, AddApprovalIs
  <2>4. CASE e.card \notin Approvals
    <3> DEFINE d == [b EXCEPT ![e.card] = @ \cup {Card("pending", FALSE)}]
    <3>1. /\ d \in Bubble /\ BubbleTrue(d) /\ Keeps(b, d)
          /\ \A k \in Cards : d[k] # {} => b[k] # {} \/ k = e.card
      BY <2>1, AddQuestionIs
    <3>2. ApplyCardEvent(b, e) = d
      BY <2>2, <2>4
    <3> HIDE DEF d
    <3> QED BY <3>1, <3>2
  <2> QED BY <2>3, <2>4
<1>2. CASE e.type = "resolved"
  <2>1. /\ e.card \in Cards /\ held[e.card] # "unborn" /\ held[e.card] # "pending" /\ e.outcome \in Outcomes
        /\ e.outcome \notin Undecided => held[e.card] = e.outcome
        /\ e.card \in Questions => e.outcome \in {"answered", "cancelled", "expired"}
    BY <1>2 DEF EventTrue, CardEvent
  <2> DEFINE st == ResolveOutcome(e.card, e.outcome)
  <2>2. ApplyCardEvent(b, e) = Patch(b, e.card, LAMBDA x : [x EXCEPT !.st = st])
    BY <1>2 DEF ApplyCardEvent
  <2>3. st \in SettledStates /\ (st \in Decisions => held[e.card] = st)
    BY <2>1, ResolveOutcomeIs
  <2> HIDE DEF st
  <2> QED BY <2>1, <2>2, <2>3, ResolvedIs
<1>3. CASE e.type = "message_done"
  BY <1>3, MessageDoneIs
<1> QED BY <1>1, <1>2, <1>3 DEF CardEvent

\* Of naturals one is the smallest.
LEMMA Smallest ==
  ASSUME NEW S, S \subseteq Nat, S # {}
  PROVE  \E x \in S : \A y \in S : x <= y
<1> DEFINE R == OpToRel(<, Nat)
<1>1. \E x \in S : \A y \in S : ~(<<y, x>> \in R)
  <2> HIDE DEF R
  <2> IsWellFoundedOn(R, Nat)
    BY NatLessThanWellFounded DEF R
  <2> QED BY WFMin
<1>2. PICK x \in S : \A y \in S : ~(y < x)
  BY <1>1 DEF OpToRel
<1> QED BY <1>2

\* What is carried onto a transcript is open in the thread, and all of it is there.
LEMMA CarryOpenCardsIs ==
  ASSUME thread \in Seq(Bubble), CopiesTrue, NEW n \in Nat, n > 0
  PROVE  LET t == CarryOpenCards(thread, n)
         IN  /\ t \in Seq(Bubble) /\ Len(t) = n
             /\ \A i \in DOMAIN t : BubbleTrue(t[i])
             /\ \A c \in OpenCards(thread) : c \in OpenCards(t)
<1> DEFINE Goes(i) == IF i > n THEN n ELSE i
           From(j, c) == {i \in DOMAIN thread : Goes(i) = j /\ OpenCopies(thread[i], c) # {}}
           Earliest(is) == CHOOSE i \in is : \A k \in is : i <= k
           Carried(j, c) == IF From(j, c) = {} THEN {} ELSE OpenCopies(thread[Earliest(From(j, c))], c)
           t == CarryOpenCards(thread, n)
<1>1. t = [j \in 1 .. n |-> [c \in Cards |-> Carried(j, c)]]
  BY DEF CarryOpenCards
<1>2. ASSUME NEW j \in 1 .. n, NEW c \in Cards, From(j, c) # {} PROVE Earliest(From(j, c)) \in From(j, c)
  <2> DEFINE S == From(j, c)
  <2>1. S \subseteq Nat /\ S # {}
    <3>1. DOMAIN thread \subseteq Nat
      OBVIOUS
    <3> QED BY <1>2, <3>1, Zenon
  <2> HIDE DEF S
  <2>2. \E i \in S : \A k \in S : i <= k
    BY <2>1, Smallest
  <2>3. Earliest(S) \in S
    BY <2>2
  <2> QED BY <2>3 DEF S
<1>3. ASSUME NEW j \in 1 .. n, NEW c \in Cards
      PROVE  /\ Carried(j, c) = {} \/ \E i \in DOMAIN thread : Carried(j, c) = OpenCopies(thread[i], c)
             /\ From(j, c) # {} => Carried(j, c) # {}
  <2>1. CASE From(j, c) = {}
    BY <2>1
  <2>2. CASE From(j, c) # {}
    <3> DEFINE i == Earliest(From(j, c))
    <3>1. i \in From(j, c)
      BY <1>2, <2>2
    <3>2. Carried(j, c) = OpenCopies(thread[i], c)
      BY <2>2
    <3> HIDE DEF i
    <3>3. i \in DOMAIN thread /\ OpenCopies(thread[i], c) # {}
      BY <3>1
    <3> HIDE DEF Carried
    <3> QED BY <3>2, <3>3
  <2> QED BY <2>1, <2>2
<1> HIDE DEF Carried, t
<1>4. ASSUME NEW j \in 1 .. n, NEW c \in Cards
      PROVE  Carried(j, c) \subseteq Shown /\ \A x \in Carried(j, c) : CopyTrue(c, x)
  <2>1. \A i \in DOMAIN thread : thread[i] \in Bubble /\ BubbleTrue(thread[i])
    BY DEF CopiesTrue
  <2>2. \A i \in DOMAIN thread : OpenCopies(thread[i], c) \subseteq thread[i][c]
    BY DEF OpenCopies
  <2> QED BY <1>3, <2>1, <2>2 DEF Bubble, BubbleTrue
<1>5. t \in Seq(Bubble) /\ Len(t) = n /\ \A j \in 1 .. n : \A c \in Cards : t[j][c] = Carried(j, c)
  <2>1. \A j \in 1 .. n : [c \in Cards |-> Carried(j, c)] \in Bubble
    BY <1>4 DEF Bubble
  <2> QED BY <1>1, <2>1
<1>6. ASSUME NEW i \in DOMAIN t PROVE BubbleTrue(t[i])
  <2>1. i \in 1 .. n
    BY <1>5
  <2> QED BY <1>4, <1>5, <2>1 DEF BubbleTrue
<1>7. ASSUME NEW c \in OpenCards(thread) PROVE c \in OpenCards(t)
  <2>1. PICK i \in DOMAIN thread : c \in Cards /\ OpenCopies(thread[i], c) # {}
    BY OpenCardsAre
  <2> DEFINE j == Goes(i)
  <2>2. j \in 1 .. n /\ i \in From(j, c)
    BY <2>1
  <2> HIDE DEF j, From
  <2>3. Carried(j, c) # {}
    BY <1>3, <2>1, <2>2
  <2>4. \A x \in Carried(j, c) : IsOpen(x)
    BY <1>3, <2>1, <2>2 DEF OpenCopies
  <2>5. OpenCopies(t[j], c) # {} /\ j \in DOMAIN t
    BY <1>5, <2>1, <2>2, <2>3, <2>4 DEF OpenCopies
  <2> QED BY <2>1, <2>5, OpenCardsAre
<1> QED BY <1>5, <1>6, <1>7 DEF t


\* What a read's answer does not have is not held, if it was open before.
LEMMA SettleCardsAbsentIs ==
  ASSUME NEW t \in Seq(Bubble), \A i \in DOMAIN t : BubbleTrue(t[i]), NEW pending, NEW before,
         \A c \in Cards : c \in before /\ held[c] = "pending" => c \in pending
  PROVE  LET d == SettleCardsAbsent(t, pending, before)
         IN  /\ d \in Seq(Bubble) /\ Len(d) = Len(t)
             /\ \A i \in DOMAIN d : BubbleTrue(d[i])
             /\ \A c \in OpenCards(t) : held[c] = "pending" => c \in OpenCards(d)
<1> DEFINE Swept(c, x) == c \in before /\ x.st = "pending" /\ c \notin pending
           Left(c, x) == IF Swept(c, x) THEN Gone(x, c) ELSE x
           d == SettleCardsAbsent(t, pending, before)
<1>1. d = [i \in DOMAIN t |-> [c \in Cards |-> {Left(c, x) : x \in t[i][c]}]]
  BY DEF SettleCardsAbsent
<1>2. ASSUME NEW i \in DOMAIN t, NEW c \in Cards, NEW x \in t[i][c] PROVE Left(c, x) \in Shown /\ CopyTrue(c, Left(c, x))
  <2>1. x \in Shown /\ CopyTrue(c, x)
    BY <1>2 DEF Bubble, BubbleTrue
  <2> DEFINE st == IF c \in Approvals THEN "stopped" ELSE "expired"
  <2>2. st \in SettledStates /\ st \notin Decisions
    BY DEF SettledStates, Decisions
  <2>3. Gone(x, c) = [x EXCEPT !.st = st]
    BY DEF Gone
  <2> HIDE DEF st
  <2>4. Gone(x, c) \in Shown /\ CopyTrue(c, Gone(x, c))
    BY <2>1, <2>2, <2>3, RestateIs DEF CopyTrue
  <2> HIDE DEF Swept
  <2> QED BY <2>1, <2>4
<1>3. ASSUME NEW c \in Cards, held[c] = "pending", NEW x PROVE Left(c, x) = x
  BY <1>3
<1> HIDE DEF Left, d
<1>4. ASSUME NEW i \in DOMAIN t PROVE d[i] \in Bubble /\ BubbleTrue(d[i])
  <2>1. d[i] = [c \in Cards |-> {Left(c, x) : x \in t[i][c]}]
    BY <1>1, <1>4
  <2> QED BY <1>2, <1>4, <2>1 DEF Bubble, BubbleTrue
<1>5. d \in Seq(Bubble) /\ Len(d) = Len(t) /\ DOMAIN d = DOMAIN t
  <2>1. d = [i \in DOMAIN t |-> d[i]] /\ DOMAIN d = DOMAIN t
    BY <1>1
  <2> QED BY <1>4, <2>1
<1>6. ASSUME NEW c \in OpenCards(t), held[c] = "pending" PROVE c \in OpenCards(d)
  <2>1. PICK i \in DOMAIN t : c \in Cards /\ OpenCopies(t[i], c) # {}
    BY OpenCardsAre
  <2>2. d[i][c] = t[i][c]
    BY <1>1, <1>3, <1>6, <2>1
  <2> QED BY <1>5, <2>1, <2>2, OpenCardsAre DEF OpenCopies
<1> QED BY <1>4, <1>5, <1>6 DEF d

LEMMA AttachToNewestIs ==
  ASSUME thread \in Seq(Bubble), CopiesTrue, NEW cs, \A c \in Cards : c \in cs => held[c] # "unborn"
  PROVE  LET t == AttachToNewest(thread, cs)
         IN  /\ t \in Seq(Bubble) /\ (Len(t) <= Len(thread) \/ Len(t) = 1)
             /\ \A i \in DOMAIN t : BubbleTrue(t[i])
             /\ \A c \in OpenCards(thread) : held[c] = "pending" => c \in OpenCards(t)
<1> DEFINE p == Card("pending", FALSE)
           b == Newest(thread)
           d == [c \in Cards |-> IF c \in cs /\ b[c] = {} THEN {p} ELSE b[c]]
<1>1. p \in Shown /\ p.st = "pending"
  BY PendingCard
<1> HIDE DEF p
<1>2. b \in Bubble /\ BubbleTrue(b)
  BY NewestIs, NewestTrue
<1> HIDE DEF b
<1>3. d \in Bubble
  BY <1>1, <1>2 DEF Bubble
<1>4. BubbleTrue(d)
  BY <1>1, <1>2 DEF BubbleTrue, CopyTrue, Decisions
<1>5. Keeps(b, d)
  BY DEF Keeps, OpenCopies
<1>6. AttachToNewest(thread, cs) = IF cs = {} THEN thread ELSE OnNewest(thread, d)
  BY DEF AttachToNewest, b, p
<1> HIDE DEF d
<1>7. CASE cs = {}
  BY <1>6, <1>7 DEF CopiesTrue
<1>8. CASE cs # {}
  <2>1. OnNewest(thread, d) \in Seq(Bubble) /\ Len(OnNewest(thread, d)) = IF thread = <<>> THEN 1 ELSE Len(thread)
    BY <1>3, OnNewestIs
  <2>2. /\ \A i \in DOMAIN OnNewest(thread, d) : BubbleTrue(OnNewest(thread, d)[i])
        /\ \A c \in OpenCards(thread) : held[c] = "pending" => c \in OpenCards(OnNewest(thread, d))
    BY <1>3, <1>4, <1>5, OnNewestTrue DEF b
  <2>3. AttachToNewest(thread, cs) = OnNewest(thread, d)
    BY <1>6, <1>8
  <2> QED BY <2>1, <2>2, <2>3
<1> QED BY <1>7, <1>8

\* One card is patched in all bubbles.
PatchOf(t, c) ==
  /\ DOMAIN t = DOMAIN thread /\ t = [i \in DOMAIN thread |-> t[i]]
  /\ \A i \in DOMAIN thread :
       /\ t[i] = [thread[i] EXCEPT ![c] = t[i][c]]
       /\ \A y \in t[i][c] : y \in Shown /\ CopyTrue(c, y) /\ (held[c] = "pending" => IsOpen(y))
       /\ t[i][c] = {} <=> thread[i][c] = {}

LEMMA PatchedIs ==
  ASSUME thread \in Seq(Bubble), CopiesTrue, NEW c \in Cards, NEW t, PatchOf(t, c)
  PROVE  /\ t \in Seq(Bubble) /\ Len(t) = Len(thread)
         /\ \A i \in DOMAIN t : BubbleTrue(t[i])
         /\ \A k \in OpenCards(thread) : held[k] = "pending" => k \in OpenCards(t)
         /\ \A i \in DOMAIN t : \A k \in Cards : t[i][k] # {} => thread[i][k] # {}
<1>0. /\ DOMAIN t = DOMAIN thread /\ t = [i \in DOMAIN thread |-> t[i]]
      /\ \A i \in DOMAIN thread :
            /\ t[i] = [thread[i] EXCEPT ![c] = t[i][c]]
            /\ \A y \in t[i][c] : y \in Shown /\ CopyTrue(c, y) /\ (held[c] = "pending" => IsOpen(y))
            /\ t[i][c] = {} <=> thread[i][c] = {}
  BY DEF PatchOf
<1>1. ASSUME NEW i \in DOMAIN thread
      PROVE  /\ t[i] \in Bubble /\ BubbleTrue(t[i])
             /\ \A k \in Cards : k # c => t[i][k] = thread[i][k]
  <2>1. thread[i] \in Bubble /\ BubbleTrue(thread[i])
    BY <1>1 DEF CopiesTrue
  <2> DEFINE s == t[i][c]
  <2>2. t[i] = [thread[i] EXCEPT ![c] = s] /\ s \subseteq Shown /\ \A y \in s : CopyTrue(c, y)
    BY <1>0, <1>1
  <2> HIDE DEF s
  <2>3. t[i] \in Bubble /\ t[i][c] = s /\ \A k \in Cards : k # c => t[i][k] = thread[i][k]
    BY <2>1, <2>2 DEF Bubble
  <2> QED BY <2>1, <2>2, <2>3 DEF BubbleTrue
<1>2. t \in Seq(Bubble) /\ Len(t) = Len(thread)
  BY <1>0, <1>1
<1>3. ASSUME NEW k \in OpenCards(thread), held[k] = "pending" PROVE k \in OpenCards(t)
  <2>1. PICK i \in DOMAIN thread : k \in Cards /\ OpenCopies(thread[i], k) # {}
    BY OpenCardsAre
  <2>2. OpenCopies(t[i], k) # {}
    <3>1. CASE k = c
      BY <1>0, <1>3, <2>1, <3>1 DEF OpenCopies
    <3>2. CASE k # c
      BY <1>1, <2>1, <3>2 DEF OpenCopies
    <3> QED BY <3>1, <3>2
  <2> QED BY <1>0, <2>1, <2>2, OpenCardsAre
<1>4. \A i \in DOMAIN t : \A k \in Cards : t[i][k] # {} => thread[i][k] # {}
  BY <1>0, <1>1
<1> QED BY <1>0, <1>1, <1>2, <1>3, <1>4

-----------------------------------------------------------------------------
(* What the gateway's records may do *)

\* A record comes to be, is pending, and is decided or closed for good.
HeldMoves ==
  /\ held' \in [Cards -> Outcomes \cup {"unborn", "pending"}]
  /\ \A c \in Cards : /\ held[c] # "unborn" => held'[c] # "unborn"
                      /\ held[c] \notin {"unborn", "pending"} => held'[c] = held[c]

LEMMA OutcomeOfIs ==
  ASSUME NEW k \in Answer, k.what # "none"
  PROVE  OutcomeOf(k.what) \in Outcomes /\ OutcomeOf(k.what) \notin {"unborn", "pending"} \cup Undecided
BY DEF Answer, OutcomeOf, Outcomes, Undecided

LEMMA CopiesStay ==
  ASSUME CopiesTrue, HeldMoves, thread' = thread
  PROVE  CopiesTrue'
BY DEF CopiesTrue, BubbleTrue, CopyTrue, HeldMoves, Decisions

LEMMA EventStays ==
  ASSUME HeldMoves, NEW e \in CardEvent, EventTrue(e)
  PROVE  EventTrue(e)'
BY DEF EventTrue, HeldMoves, CardEvent, Outcomes, Undecided

LEMMA ReadStays ==
  ASSUME HeldMoves, NEW r \in PendingRead, ReadTrue(r)
  PROVE  ReadTrue(r)'
<1>1. r.before \subseteq Cards /\ r.ans \subseteq Cards
  BY DEF PendingRead
<1> QED BY <1>1 DEF ReadTrue, HeldMoves

LEMMA ClickStays ==
  ASSUME HeldMoves, NEW c \in Cards, NEW k \in Answer, ClickTrue(c, k)
  PROVE  ClickTrue(c, k)'
BY OutcomeOfIs DEF ClickTrue, HeldMoves

LEMMA HeldStays ==
  ASSUME CardTypes, held' = held
  PROVE  HeldMoves
BY DEF HeldMoves, CardTypes

LEMMA EmitIs ==
  ASSUME CardTypes, NEW es \in Seq(CardEvent), link' = Emit(es)
  PROVE  /\ link' \in [kind : {"none", "own", "attach"}, queue : Seq(CardEvent)]
         /\ link'.kind = link.kind
         /\ link'.queue = link.queue \/ link'.queue = link.queue \o es
<1>1. CASE link.kind = "none"
  BY <1>1 DEF CardTypes, Emit
<1>2. CASE link.kind # "none"
  <2>1. link' = [link EXCEPT !.queue = link.queue \o es]
    BY <1>2 DEF Emit
  <2>2. link.queue \in Seq(CardEvent)
    BY DEF CardTypes
  <2> DEFINE q == link.queue \o es
  <2>3. q \in Seq(CardEvent)
    BY <2>2
  <2> HIDE DEF q
  <2> QED BY <2>1, <2>3 DEF CardTypes, q
<1> QED BY <1>1, <1>2

\* The gateway moves and tells the stream; the surface, but for the user's
\* answers, is left alone.
LEMMA WorldInv ==
  ASSUME CardsInv, HeldMoves, UNCHANGED <<thread, own, reads>>,
         live' \in BOOLEAN, OverWaitsForNothing',
         turns' \in Nat, turns' <= MaxBubbles, turns <= turns', written' \in Nat, written' <= turns',
         clicks' \in [Cards -> Answer], ClicksTrue',
         NEW es \in Seq(CardEvent), \A k \in DOMAIN es : EventTrue(es[k])',
         \A k \in DOMAIN es : es[k].type = "message_done" => link.kind = "own" /\ \A c \in Cards : held'[c] # "pending",
         link' \in [kind : {"none", "own", "attach"}, queue : Seq(CardEvent)], link'.kind = link.kind,
         link'.queue = link.queue \/ link'.queue = link.queue \o es
  PROVE  CardsInv'
<1>a. CardTypes /\ CopiesTrue /\ EventsTrue /\ OwnStream /\ EndsItsTurn /\ ReadsTrue
  BY DEF CardsInv
<1>b. link.queue \in Seq(CardEvent) /\ link'.queue \in Seq(CardEvent)
  BY <1>a DEF CardTypes
<1>1. CardTypes'
  BY <1>a DEF CardTypes, HeldMoves
<1>2. CopiesTrue'
  BY <1>a, CopiesStay
<1>3. ASSUME NEW k \in DOMAIN link'.queue
      PROVE  \/ k \in DOMAIN link.queue /\ link'.queue[k] = link.queue[k]
             \/ k > Len(link.queue) /\ \E j \in DOMAIN es : link'.queue[k] = es[j]
  <2>1. CASE link'.queue = link.queue
    BY <2>1, <1>3
  <2>2. CASE link'.queue = link.queue \o es
    <3>1. CASE k <= Len(link.queue)
      BY <1>3, <1>b, <2>2, <3>1
    <3>2. CASE k > Len(link.queue)
      <4> DEFINE j == k - Len(link.queue)
      <4>1. j \in DOMAIN es /\ link'.queue[k] = es[j]
        BY <1>3, <1>b, <2>2, <3>2
      <4> QED BY <3>2, <4>1
    <3> QED BY <1>3, <1>b, <3>1, <3>2
  <2> QED BY <2>1, <2>2
<1>4. EventsTrue'
  <2> SUFFICES ASSUME NEW k \in DOMAIN link'.queue, NEW f, f = link'.queue[k] PROVE EventTrue(f)'
    BY DEF EventsTrue, EventTrue
  <2>1. CASE k \in DOMAIN link.queue /\ link'.queue[k] = link.queue[k]
    <3>1. EventTrue(link.queue[k]) /\ link.queue[k] \in CardEvent
      BY <1>a, <1>b, <2>1 DEF EventsTrue
    <3> QED BY <2>1, <3>1, EventStays
  <2>2. CASE \E j \in DOMAIN es : link'.queue[k] = es[j]
    BY <2>2
  <2> QED BY <1>3, <2>1, <2>2
<1>5. OwnStream'
  BY <1>a DEF OwnStream
<1>6. EndsItsTurn'
  <2> SUFFICES ASSUME NEW k \in DOMAIN link'.queue, link'.queue[k].type = "message_done"
               PROVE  /\ link.kind = "own"
                      /\ \A i \in DOMAIN thread : \A c \in Cards : thread[i][c] # {} => held'[c] # "pending"
                      /\ \A m \in DOMAIN link'.queue : m < k /\ link'.queue[m].type # "message_done" => held'[link'.queue[m].card] # "pending"
    BY DEF EndsItsTurn
  <2>1. CASE k \in DOMAIN link.queue /\ link'.queue[k] = link.queue[k]
    <3>1. /\ link.kind = "own"
          /\ \A i \in DOMAIN thread : \A c \in Cards : thread[i][c] # {} => held[c] # "pending"
          /\ \A m \in DOMAIN link.queue : m < k /\ link.queue[m].type # "message_done" => held[link.queue[m].card] # "pending"
      BY <1>a, <2>1 DEF EndsItsTurn
    <3>2. \A i \in DOMAIN thread : \A c \in Cards : thread[i][c] # {} => held[c] # "unborn"
      BY <1>a DEF CopiesTrue, BubbleTrue, CopyTrue
    <3>3. \A i \in DOMAIN thread : \A c \in Cards : thread[i][c] # {} => held'[c] # "pending"
      BY <3>1, <3>2 DEF HeldMoves
    <3>4. ASSUME NEW m \in DOMAIN link'.queue, m < k, link'.queue[m].type # "message_done"
          PROVE  held'[link'.queue[m].card] # "pending"
      <4>1. m \in DOMAIN link.queue /\ link'.queue[m] = link.queue[m]
        BY <1>3, <1>b, <2>1, <3>4
      <4>2. link.queue[m].card \in Cards /\ held[link.queue[m].card] \notin {"unborn", "pending"}
        BY <1>a, <3>1, <3>4, <4>1 DEF EventsTrue, EventTrue
      <4> QED BY <4>1, <4>2 DEF HeldMoves
    <3> QED BY <3>1, <3>3, <3>4
  <2>2. CASE \E j \in DOMAIN es : link'.queue[k] = es[j]
    <3>1. link.kind = "own" /\ \A c \in Cards : held'[c] # "pending"
      BY <2>2
    <3>2. \A m \in DOMAIN link'.queue : link'.queue[m].type # "message_done" => link'.queue[m].card \in Cards
      BY <1>4 DEF EventsTrue, EventTrue
    <3> QED BY <3>1, <3>2
  <2> QED BY <1>3, <2>1, <2>2
<1>7. ReadsTrue'
  BY <1>a, ReadStays DEF ReadsTrue, CardTypes
<1> QED BY <1>1, <1>2, <1>4, <1>5, <1>6, <1>7 DEF CardsInv

-----------------------------------------------------------------------------
(* The gateway *)

LEMMA EventIs ==
  ASSUME NEW type \in {"pending", "resolved", "message_done"}, NEW c \in Cards \cup {"none"}, NEW outcome \in Outcomes
  PROVE  LET e == Event(type, c, outcome)
         IN  e \in CardEvent /\ e.type = type /\ e.card = c /\ e.outcome = outcome
BY DEF Event, CardEvent

LEMMA ClicksStay ==
  ASSUME CardTypes, ClicksTrue, HeldMoves, clicks' = clicks
  PROVE  clicks' \in [Cards -> Answer] /\ ClicksTrue'
<1>1. \A c \in Cards : clicks[c] \in Answer
  BY DEF CardTypes
<1>2. ASSUME NEW c \in Cards PROVE ClickTrue(c, clicks[c])'
  <2>1. ASSUME NEW k, k = clicks[c] PROVE ClickTrue(c, k)'
    BY <1>1, <1>2, <2>1, ClickStays DEF ClicksTrue
  <2> QED BY <2>1 DEF ClickTrue
<1> QED BY <1>2 DEF ClicksTrue, CardTypes

\* One event.
LEMMA OneEvent ==
  ASSUME CardTypes, NEW e \in CardEvent, e.type # "message_done", EventTrue(e)', link' = Emit(<<e>>)
  PROVE  \E es \in Seq(CardEvent) :
           /\ \A k \in DOMAIN es : EventTrue(es[k])'
           /\ \A k \in DOMAIN es : es[k].type # "message_done"
           /\ link' \in [kind : {"none", "own", "attach"}, queue : Seq(CardEvent)] /\ link'.kind = link.kind
           /\ link'.queue = link.queue \/ link'.queue = link.queue \o es
<1> DEFINE es == <<e>>
<1>1. es \in Seq(CardEvent) /\ \A k \in DOMAIN es : es[k] = e
  OBVIOUS
<1>2. link' = Emit(es)
  OBVIOUS
<1> HIDE DEF es
<1>3. /\ link' \in [kind : {"none", "own", "attach"}, queue : Seq(CardEvent)] /\ link'.kind = link.kind
      /\ link'.queue = link.queue \/ link'.queue = link.queue \o es
  BY <1>1, <1>2, EmitIs
<1>4. ASSUME NEW k \in DOMAIN es PROVE EventTrue(es[k])' /\ es[k].type # "message_done"
  BY <1>1, <1>4
<1> QED BY <1>1, <1>3, <1>4

\* The gateway moves without a word, or with one event.
LEMMA QuietInv ==
  ASSUME CardsInv, HeldMoves, UNCHANGED <<thread, own, reads>>,
         live' \in BOOLEAN, OverWaitsForNothing',
         turns' \in Nat, turns' <= MaxBubbles, turns <= turns', written' \in Nat, written' <= turns',
         clicks' \in [Cards -> Answer], ClicksTrue',
         link' = link \/ \E e \in CardEvent : e.type # "message_done" /\ EventTrue(e)' /\ link' = Emit(<<e>>)
  PROVE  CardsInv'
<1>a. CardTypes
  BY DEF CardsInv
<1>1. \E es \in Seq(CardEvent) :
           /\ \A k \in DOMAIN es : EventTrue(es[k])'
           /\ \A k \in DOMAIN es : es[k].type # "message_done"
           /\ link' \in [kind : {"none", "own", "attach"}, queue : Seq(CardEvent)] /\ link'.kind = link.kind
           /\ link'.queue = link.queue \/ link'.queue = link.queue \o es
  <2>1. CASE link' = link
    <3> DEFINE es == <<>>
    <3>1. es \in Seq(CardEvent) /\ DOMAIN es = {}
      OBVIOUS
    <3> HIDE DEF es
    <3> QED BY <1>a, <2>1, <3>1 DEF CardTypes
  <2>2. CASE \E e \in CardEvent : e.type # "message_done" /\ EventTrue(e)' /\ link' = Emit(<<e>>)
    BY <1>a, <2>2, OneEvent
  <2> QED BY <2>1, <2>2
<1> QED BY <1>1, WorldInv

LEMMA RaiseInv ==
  ASSUME CardsInv, Raise
  PROVE  CardsInv'
<1>a. CardTypes /\ ClicksTrue
  BY DEF CardsInv
<1>1. PICK c \in Cards : /\ held[c] = "unborn" /\ held' = [held EXCEPT ![c] = "pending"]
                         /\ link' = Emit(<<Event("pending", c, "closed")>>)
  BY DEF Raise
<1>2. HeldMoves /\ held'[c] = "pending"
  BY <1>a, <1>1 DEF HeldMoves, CardTypes
<1> DEFINE e == Event("pending", c, "closed")
<1>3. e \in CardEvent /\ e.type = "pending" /\ e.card = c
  BY EventIs DEF Outcomes
<1> HIDE DEF e
<1>4. EventTrue(e)' /\ link' = Emit(<<e>>)
  BY <1>1, <1>2, <1>3 DEF EventTrue, e
<1>5. UNCHANGED <<thread, own, reads, clicks, live, turns, written>> /\ live
  BY DEF Raise, surface
<1>6. clicks' \in [Cards -> Answer] /\ ClicksTrue'
  BY <1>a, <1>2, <1>5, ClicksStay
<1>7. OverWaitsForNothing' /\ live' \in BOOLEAN
  BY <1>a, <1>5 DEF OverWaitsForNothing, CardTypes
<1>8. turns' \in Nat /\ turns' <= MaxBubbles /\ turns <= turns' /\ written' \in Nat /\ written' <= turns'
  BY <1>a, <1>5, CardsAssumption DEF CardTypes
<1>9. \E f \in CardEvent : f.type # "message_done" /\ EventTrue(f)' /\ link' = Emit(<<f>>)
  BY <1>3, <1>4
<1> QED BY <1>2, <1>5, <1>6, <1>7, <1>8, <1>9, QuietInv

LEMMA ElsewhereDecidesInv ==
  ASSUME CardsInv, ElsewhereDecides
  PROVE  CardsInv'
<1>a. CardTypes /\ ClicksTrue /\ OverWaitsForNothing
  BY DEF CardsInv
<1>1. PICK c \in Pending, outcome \in {"rejected", "expired"} :
         /\ held' = [held EXCEPT ![c] = outcome] /\ link' = Emit(<<Event("resolved", c, outcome)>>)
         /\ c \in Questions => outcome = "expired"
  BY CardsAssumption DEF ElsewhereDecides, Closed
<1>2. c \in Cards /\ held[c] = "pending" /\ outcome \in Outcomes
  BY DEF Pending, Outcomes
<1>3. HeldMoves /\ held'[c] = outcome
  BY <1>a, <1>1, <1>2 DEF HeldMoves, CardTypes
<1> DEFINE e == Event("resolved", c, outcome)
<1>4. e \in CardEvent /\ e.type = "resolved" /\ e.card = c /\ e.outcome = outcome
  BY <1>2, EventIs
<1> HIDE DEF e
<1>5. EventTrue(e)' /\ link' = Emit(<<e>>)
  BY <1>1, <1>2, <1>3, <1>4 DEF EventTrue, e
<1>6. UNCHANGED <<thread, own, reads, clicks, live, turns, written>>
  BY DEF ElsewhereDecides, surface
<1>7. clicks' \in [Cards -> Answer] /\ ClicksTrue'
  BY <1>a, <1>3, <1>6, ClicksStay
<1>8. OverWaitsForNothing'
  BY <1>a, <1>1, <1>2, <1>6 DEF OverWaitsForNothing, CardTypes
<1>9. turns' \in Nat /\ turns' <= MaxBubbles /\ turns <= turns' /\ written' \in Nat /\ written' <= turns' /\ live' \in BOOLEAN
  BY <1>a, <1>6, CardsAssumption DEF CardTypes
<1>10. \E f \in CardEvent : f.type # "message_done" /\ EventTrue(f)' /\ link' = Emit(<<f>>)
  BY <1>4, <1>5
<1> QED BY <1>3, <1>6, <1>7, <1>8, <1>9, <1>10, QuietInv

LEMMA SetToSeqIs ==
  ASSUME NEW S, IsFiniteSet(S)
  PROVE  SetToSeq(S) \in [1 .. Cardinality(S) -> S] /\ Cardinality(S) \in Nat
<1>1. Cardinality(S) \in Nat /\ \E f \in [1 .. Cardinality(S) -> S] : IsInjective(f)
  <2>1. Cardinality(S) \in Nat
    BY FS_CardinalityType
  <2>2. \E f : f \in Bijection(1 .. Cardinality(S), S)
    BY FS_CardinalityType DEF ExistsBijection
  <2> QED BY <2>1, <2>2 DEF Bijection, Injection, Surjection, IsInjective
<1> QED BY <1>1, Zenon DEF SetToSeq

LEMMA TurnOverInv ==
  ASSUME CardsInv, TurnOver
  PROVE  CardsInv'
<1>a. CardTypes /\ ClicksTrue
  BY DEF CardsInv
<1>1. PICK heard \in SUBSET Pending :
         link' = Emit([i \in 1 .. Cardinality(heard) |-> Event("resolved", SetToSeq(heard)[i], Closed(SetToSeq(heard)[i]))]
                      \o (IF link.kind = "own" THEN <<Event("message_done", "none", "closed")>> ELSE <<>>))
  BY DEF TurnOver
<1>2. held' = [c \in Cards |-> IF held[c] = "pending" THEN Closed(c) ELSE held[c]]
  BY DEF TurnOver
<1>3. HeldMoves /\ (\A c \in Cards : held'[c] # "pending") /\ \A c \in Pending : c \in Cards /\ held'[c] = Closed(c)
  BY <1>a, <1>2 DEF HeldMoves, CardTypes, Pending, Outcomes, Closed
<1>4. IsFiniteSet(heard)
  <2>1. IsFiniteSet(Cards)
    BY CardsAssumption, FS_Union DEF Cards
  <2> QED BY <2>1, FS_Subset DEF Pending
<1>5. SetToSeq(heard) \in [1 .. Cardinality(heard) -> heard] /\ Cardinality(heard) \in Nat
  BY <1>4, SetToSeqIs
<1> DEFINE resolved == [i \in 1 .. Cardinality(heard) |-> Event("resolved", SetToSeq(heard)[i], Closed(SetToSeq(heard)[i]))]
           done == Event("message_done", "none", "closed")
           end == IF link.kind = "own" THEN <<done>> ELSE <<>>
           es == resolved \o end
<1>6. ASSUME NEW k \in 1 .. Cardinality(heard) PROVE resolved[k] \in CardEvent /\ resolved[k].type = "resolved" /\ EventTrue(resolved[k])'
  <2>1. SetToSeq(heard)[k] \in heard
    BY <1>5
  <2> PICK c \in heard : c = SetToSeq(heard)[k]
    BY <2>1
  <2>2. c \in Cards /\ held'[c] \in Undecided /\ held'[c] = Closed(c) /\ (c \in Questions => Closed(c) = "expired")
    BY <1>3, CardsAssumption DEF Closed, Undecided
  <2> DEFINE e == Event("resolved", c, Closed(c))
  <2>3. e \in CardEvent /\ e.type = "resolved" /\ e.card = c /\ e.outcome = Closed(c)
    BY <2>2, EventIs DEF Outcomes, Undecided
  <2>4. resolved[k] = e
    BY <1>6
  <2> HIDE DEF e, resolved
  <2>5. EventTrue(e)'
    BY <2>2, <2>3 DEF EventTrue, Undecided
  <2> QED BY <2>3, <2>4, <2>5
<1>7. resolved \in Seq(CardEvent) /\ Len(resolved) = Cardinality(heard)
  <2>1. resolved \in [1 .. Cardinality(heard) -> CardEvent]
    BY <1>6
  <2> HIDE DEF resolved
  <2> QED BY <1>5, <2>1
<1>8. done \in CardEvent /\ done.type = "message_done" /\ EventTrue(done)'
  <2>1. done \in CardEvent /\ done.type = "message_done"
    BY EventIs DEF Outcomes
  <2> HIDE DEF done
  <2> QED BY <2>1 DEF EventTrue
<1>9. link' = Emit(es)
  BY <1>1
<1> HIDE DEF resolved, done
<1>10. /\ es \in Seq(CardEvent)
       /\ \A k \in DOMAIN es : \/ \E j \in 1 .. Cardinality(heard) : es[k] = resolved[j]
                               \/ link.kind = "own" /\ es[k] = done
  <2>1. end \in Seq(CardEvent) /\ \A k \in DOMAIN end : link.kind = "own" /\ end[k] = done
    BY <1>8
  <2> HIDE DEF end
  <2>2. es \in Seq(CardEvent)
    BY <1>7, <2>1
  <2>3. ASSUME NEW k \in DOMAIN es
        PROVE  (\E j \in 1 .. Cardinality(heard) : es[k] = resolved[j]) \/ \E j \in DOMAIN end : es[k] = end[j]
    <3>1. CASE k <= Len(resolved)
      BY <1>7, <2>1, <2>3, <3>1
    <3>2. CASE k > Len(resolved)
      <4>1. k - Len(resolved) \in DOMAIN end /\ es[k] = end[k - Len(resolved)]
        BY <1>7, <2>1, <2>3, <3>2
      <4> QED BY <4>1
    <3> QED BY <1>7, <2>1, <3>1, <3>2
  <2> QED BY <2>1, <2>2, <2>3
<1> HIDE DEF es
<1> PICK fs : fs = es
  OBVIOUS
<1>11. ASSUME NEW k \in DOMAIN fs
       PROVE  EventTrue(fs[k])' /\ (fs[k].type = "message_done" => link.kind = "own")
  <2>1. ASSUME NEW j \in 1 .. Cardinality(heard), fs[k] = resolved[j] PROVE EventTrue(fs[k])' /\ fs[k].type # "message_done"
    BY <1>6, <2>1
  <2>2. CASE link.kind = "own" /\ fs[k] = done
    BY <1>8, <2>2
  <2> QED BY <1>10, <1>11, <2>1, <2>2
<1>12. /\ link' \in [kind : {"none", "own", "attach"}, queue : Seq(CardEvent)] /\ link'.kind = link.kind
       /\ link'.queue = link.queue \/ link'.queue = link.queue \o fs
  BY <1>a, <1>9, <1>10, EmitIs
<1>13. UNCHANGED <<thread, own, reads, clicks, turns>> /\ live' = FALSE /\ written' = turns
  BY DEF TurnOver, surface
<1>14. clicks' \in [Cards -> Answer] /\ ClicksTrue'
  BY <1>a, <1>3, <1>13, ClicksStay
<1>15. OverWaitsForNothing'
  BY <1>3 DEF OverWaitsForNothing
<1>16. turns' \in Nat /\ turns' <= MaxBubbles /\ turns <= turns' /\ written' \in Nat /\ written' <= turns'
  <2>1. turns \in Nat /\ turns <= MaxBubbles
    BY <1>a DEF CardTypes
  <2>2. turns' = turns /\ written' = turns
    BY <1>13
  <2> QED BY <2>1, <2>2
<1>17. fs \in Seq(CardEvent)
  BY <1>10
<1>18. live' \in BOOLEAN
  BY <1>13
<1>19. \A k \in DOMAIN fs : fs[k].type = "message_done" => link.kind = "own" /\ \A c \in Cards : held'[c] # "pending"
  BY <1>3, <1>11
<1> QED BY <1>3, <1>11, <1>12, <1>13, <1>14, <1>15, <1>16, <1>17, <1>18, <1>19, WorldInv

LEMMA WriteInv ==
  ASSUME CardsInv, Write \/ ElsewhereStarts
  PROVE  CardsInv'
<1>a. CardTypes /\ ClicksTrue /\ OverWaitsForNothing
  BY DEF CardsInv
<1>1. UNCHANGED <<held, link, thread, own, reads, clicks>>
  BY DEF Write, ElsewhereStarts, surface
<1>2. HeldMoves
  BY <1>a, <1>1, HeldStays
<1>3. clicks' \in [Cards -> Answer] /\ ClicksTrue'
  BY <1>a, <1>1, <1>2, ClicksStay
<1>4. CASE Write
  <2>1. live' = live /\ turns' = turns /\ written' = turns
    BY <1>4 DEF Write
  <2>2. OverWaitsForNothing'
    BY <1>a, <1>1, <2>1 DEF OverWaitsForNothing
  <2> QED BY <1>a, <1>1, <1>2, <1>3, <2>1, <2>2, QuietInv DEF CardTypes
<1>5. CASE ElsewhereStarts
  <2>1. live' = TRUE /\ turns' = turns + 1 /\ written' = written /\ turns < MaxBubbles
    BY <1>5 DEF ElsewhereStarts
  <2>2. OverWaitsForNothing' /\ turns' \in Nat /\ turns' <= MaxBubbles /\ turns <= turns' /\ written' \in Nat /\ written' <= turns'
    BY <1>a, <2>1, CardsAssumption DEF OverWaitsForNothing, CardTypes
  <2> QED BY <1>1, <1>2, <1>3, <2>1, <2>2, QuietInv
<1> QED BY <1>4, <1>5

\* The user's answer reaches the gateway, or does not.
LEMMA ClickAnsweredInv ==
  ASSUME CardsInv, ClickAnswered
  PROVE  CardsInv'
<1>a. CardTypes /\ ClicksTrue /\ OverWaitsForNothing
  BY DEF CardsInv
<1>b. UNCHANGED <<live, turns, written, thread, own, reads>>
  BY DEF ClickAnswered
<1>1. PICK c \in Cards, failed \in BOOLEAN, taken \in BOOLEAN :
        /\ clicks[c].what # "none" /\ clicks[c].ans = "none"
        /\ taken => held[c] = "pending" /\ ~clicks[c].reread
        /\ ~failed /\ held[c] = "pending" /\ ~clicks[c].reread => taken
        /\ held' = IF taken THEN [held EXCEPT ![c] = OutcomeOf(clicks[c].what)] ELSE held
        /\ link' = IF taken THEN Emit(<<Event("resolved", c, OutcomeOf(clicks[c].what))>>) ELSE link
        /\ clicks' = [clicks EXCEPT ![c].ans = IF failed THEN "fail" ELSE IF held[c] = "pending" THEN "ok" ELSE "gone"]
  BY Zenon DEF ClickAnswered
<1> PICK k : k = clicks[c]
  OBVIOUS
<1>0. PICK ans : ans = IF failed THEN "fail" ELSE IF held[c] = "pending" THEN "ok" ELSE "gone"
  OBVIOUS
<1> DEFINE out == OutcomeOf(k.what)
           new == [k EXCEPT !.ans = ans]
<1>2. k \in Answer /\ ClickTrue(c, k) /\ k.what # "none" /\ k.ans = "none"
  BY <1>a, <1>1 DEF CardTypes, ClicksTrue
<1>3. out \in Outcomes /\ out \notin {"unborn", "pending"} \cup Undecided
  BY <1>2, OutcomeOfIs
<1>4. clicks' = [clicks EXCEPT ![c] = new]
  BY <1>0, <1>1
<1> HIDE DEF out
<1>5. /\ HeldMoves /\ (taken => held'[c] = out) /\ (~taken => held' = held)
      /\ \A d \in Cards : held'[d] = "pending" => held[d] = "pending"
  BY <1>a, <1>1, <1>3 DEF HeldMoves, CardTypes, out
<1>6. ans \in {"fail", "ok", "gone"} /\ (ans = "ok" => ~failed /\ held[c] = "pending") /\ (ans = "gone" => held[c] # "pending")
  BY <1>0
<1>7. new \in Answer /\ new.ans = ans /\ new.what = k.what /\ new.reread = k.reread
  BY <1>2, <1>6 DEF Answer
<1> HIDE DEF new
<1>8. ClickTrue(c, new)'
  <2>1. /\ new.what # "none" /\ held[c] # "unborn" /\ (c \in Approvals => ~new.reread)
        /\ c \in Questions => new.what \in {"answer", "cancel"}
    BY <1>2, <1>7 DEF ClickTrue
  <2>2. held'[c] # "unborn"
    BY <1>5, <2>1 DEF HeldMoves
  <2>3. new.ans = "ok" /\ ~new.reread => held'[c] = OutcomeOf(new.what)
    BY <1>1, <1>5, <1>6, <1>7 DEF out
  <2>4. new.ans = "gone" => held'[c] # "pending"
    BY <1>5, <1>6, <1>7
  <2> QED BY <2>1, <2>2, <2>3, <2>4 DEF ClickTrue
<1>9. clicks' \in [Cards -> Answer] /\ ClicksTrue'
  <2>1. clicks' \in [Cards -> Answer] /\ clicks'[c] = new /\ \A d \in Cards : d # c => clicks'[d] = clicks[d]
    BY <1>a, <1>4, <1>7 DEF CardTypes
  <2>2. ASSUME NEW d \in Cards PROVE ClickTrue(d, clicks[d])'
    <3>1. ASSUME NEW l, l = clicks'[d] PROVE ClickTrue(d, l)'
      <4>1. CASE d = c
        BY <1>8, <2>1, <3>1, <4>1
      <4>2. CASE d # c
        <5>1. l = clicks[d] /\ l \in Answer /\ ClickTrue(d, l)
          BY <1>a, <2>1, <2>2, <3>1, <4>2 DEF CardTypes, ClicksTrue
        <5> QED BY <1>5, <5>1, ClickStays
      <4> QED BY <4>1, <4>2
    <3> QED BY <3>1 DEF ClickTrue
  <2> QED BY <2>1, <2>2 DEF ClicksTrue
<1>10. OverWaitsForNothing'
  BY <1>a, <1>b, <1>5 DEF OverWaitsForNothing
<1>11. link' = link \/ \E e \in CardEvent : e.type # "message_done" /\ EventTrue(e)' /\ link' = Emit(<<e>>)
  <2>1. CASE ~taken
    BY <1>1, <2>1
  <2>2. CASE taken
    <3> DEFINE e == Event("resolved", c, out)
    <3>1. e \in CardEvent /\ e.type = "resolved" /\ e.card = c /\ e.outcome = out
      BY <1>3, EventIs
    <3>2. link' = Emit(<<e>>)
      BY <1>1, <2>2 DEF out
    <3> HIDE DEF e
    <3>3. c \in Questions => out \in {"answered", "cancelled"}
      BY <1>2 DEF ClickTrue, OutcomeOf, out
    <3>4. EventTrue(e)'
      BY <1>3, <1>5, <2>2, <3>1, <3>3 DEF EventTrue, Undecided
    <3> QED BY <3>1, <3>2, <3>4
  <2> QED BY <2>1, <2>2
<1>12. turns' \in Nat /\ turns' <= MaxBubbles /\ turns <= turns' /\ written' \in Nat /\ written' <= turns' /\ live' \in BOOLEAN
  BY <1>a, <1>b, CardsAssumption DEF CardTypes
<1> QED BY <1>b, <1>5, <1>9, <1>10, <1>11, <1>12, QuietInv

-----------------------------------------------------------------------------
(* The surface *)

\* A card that is open, and whose record is held, stays open.
Kept == \A c \in OpenCards(thread) : held'[c] = "pending" => c \in OpenCards(thread')

\* A refresh adopts a document without an agent turn, and a pass is under way.
Emptied == written = 0 /\ thread' = <<>> /\ reads' # {}

\* The surface moves, and hears nothing it was not told.
LEMMA SurfaceInv ==
  ASSUME CardsInv, held' = held, live' \in BOOLEAN, live => live', written' = written,
         turns' \in Nat, turns' <= MaxBubbles, turns <= turns',
         thread' \in Seq(Bubble), \A i \in DOMAIN thread' : BubbleTrue(thread'[i]),
         own' \in {"no", "yes", "settled"},
         reads' \subseteq PendingRead, IsFiniteSet(reads'), Cardinality(reads') <= MaxReads, \A r \in reads' : ReadTrue(r),
         clicks' \in [Cards -> Answer], \A c \in Cards : ClickTrue(c, clicks'[c]),
         link' \in [kind : {"none", "own", "attach"}, queue : Seq(CardEvent)],
         \A k \in DOMAIN link'.queue : \E j \in DOMAIN link.queue : link'.queue[k] = link.queue[j],
         OwnStream', EndsItsTurn'
  PROVE  CardsInv'
<1>a. CardTypes /\ EventsTrue /\ OverWaitsForNothing
  BY DEF CardsInv
<1>1. written' \in Nat /\ written' <= turns'
  BY <1>a, CardsAssumption DEF CardTypes
<1>2. CardTypes'
  BY <1>a, <1>1 DEF CardTypes
<1>3. CopiesTrue'
  BY DEF CopiesTrue, BubbleTrue, CopyTrue
<1>4. EventsTrue'
  BY <1>a DEF EventsTrue, EventTrue
<1>5. OverWaitsForNothing'
  BY <1>a DEF OverWaitsForNothing
<1>6. ReadsTrue'
  BY DEF ReadsTrue, ReadTrue
<1>7. ClicksTrue'
  BY DEF ClicksTrue, ClickTrue
<1> QED BY <1>2, <1>3, <1>4, <1>5, <1>6, <1>7 DEF CardsInv

\* What an unchanged part of the surface keeps.
LEMMA AsItWas ==
  ASSUME CardsInv
  PROVE  /\ turns \in Nat /\ turns <= MaxBubbles /\ turns <= turns /\ live \in BOOLEAN
         /\ thread \in Seq(Bubble) /\ \A i \in DOMAIN thread : BubbleTrue(thread[i])
         /\ reads \subseteq PendingRead /\ IsFiniteSet(reads) /\ Cardinality(reads) <= MaxReads /\ \A r \in reads : ReadTrue(r)
         /\ clicks \in [Cards -> Answer] /\ \A c \in Cards : ClickTrue(c, clicks[c])
         /\ link \in [kind : {"none", "own", "attach"}, queue : Seq(CardEvent)]
         /\ own \in {"no", "yes", "settled"}
         /\ written \in Nat /\ written <= turns
<1>1. turns \in Nat /\ turns <= turns
  BY DEF CardsInv, CardTypes
<1> QED BY <1>1 DEF CardsInv, CardTypes, CopiesTrue, ReadsTrue, ClicksTrue

\* A stream with nothing on it.
LEMMA EmptyStream ==
  ASSUME NEW kind \in {"none", "own", "attach"}, link' = [kind |-> kind, queue |-> <<>>]
  PROVE  /\ link' \in [kind : {"none", "own", "attach"}, queue : Seq(CardEvent)]
         /\ link'.kind = kind /\ link'.queue = <<>> /\ DOMAIN link'.queue = {}
         /\ \A k \in DOMAIN link'.queue : \E j \in DOMAIN link.queue : link'.queue[k] = link.queue[j]
         /\ EndsItsTurn'
<1>1. link'.kind = kind /\ link'.queue = <<>>
  OBVIOUS
<1>2. DOMAIN link'.queue = {}
  BY <1>1
<1>3. link' \in [kind : {"none", "own", "attach"}, queue : Seq(CardEvent)]
  OBVIOUS
<1> QED BY <1>1, <1>2, <1>3 DEF EndsItsTurn

\* A stream nobody sent on ends no turn.
LEMMA OthersEndNothing ==
  ASSUME CardsInv, link.kind # "own", link' = link
  PROVE  EndsItsTurn' /\ OwnStream'
<1>1. \A k \in DOMAIN link.queue : link.queue[k].type # "message_done"
  BY DEF CardsInv, EndsItsTurn
<1> QED BY <1>1 DEF EndsItsTurn, OwnStream

LEMMA SendTurnInv ==
  ASSUME CardsInv, SendTurn
  PROVE  CardsInv' /\ Kept
<1>1. /\ live' = TRUE /\ turns' = turns + 1 /\ turns < MaxBubbles /\ thread' = Append(thread, NewBubble)
      /\ link' = [kind |-> "own", queue |-> <<>>] /\ own' = "yes" /\ reads' = {}
      /\ UNCHANGED <<held, written, clicks>>
  BY DEF SendTurn
<1>2. turns' \in Nat /\ turns' <= MaxBubbles /\ turns <= turns'
  BY <1>1, AsItWas, CardsAssumption
<1>3. /\ thread' \in Seq(Bubble) /\ Len(thread') = Len(thread) + 1 /\ thread'[Len(thread) + 1] = NewBubble
      /\ \A i \in DOMAIN thread : i \in DOMAIN thread' /\ thread'[i] = thread[i]
      /\ \A i \in DOMAIN thread' : i \in DOMAIN thread \/ i = Len(thread) + 1
  BY <1>1, AsItWas, NewBubbleIs
<1>5. BubbleTrue(NewBubble)
  BY NewBubbleIs DEF BubbleTrue
<1>6. \A i \in DOMAIN thread' : BubbleTrue(thread'[i])
  BY <1>3, <1>5, AsItWas
<1>7. reads' \subseteq PendingRead /\ IsFiniteSet(reads') /\ Cardinality(reads') <= MaxReads /\ \A r \in reads' : ReadTrue(r)
  BY <1>1, FS_EmptySet, CardsAssumption
<1>8. OwnStream'
  BY <1>1 DEF OwnStream
<1>9. Kept
  BY <1>3, OpenCardsAre DEF Kept
<1>10. /\ link' \in [kind : {"none", "own", "attach"}, queue : Seq(CardEvent)]
       /\ \A k \in DOMAIN link'.queue : \E j \in DOMAIN link.queue : link'.queue[k] = link.queue[j]
       /\ EndsItsTurn'
  BY <1>1, EmptyStream
<1>11. /\ live' \in BOOLEAN /\ (live => live') /\ own' \in {"no", "yes", "settled"}
       /\ clicks' \in [Cards -> Answer] /\ \A c \in Cards : ClickTrue(c, clicks'[c])
  BY <1>1, AsItWas
<1> QED BY <1>1, <1>2, <1>3, <1>6, <1>7, <1>8, <1>9, <1>10, <1>11, SurfaceInv

LEMMA DeliverInv ==
  ASSUME CardsInv, Deliver
  PROVE  CardsInv' /\ Kept
<1>a. /\ CopiesTrue /\ EventsTrue /\ OwnStream /\ EndsItsTurn
      /\ thread \in Seq(Bubble) /\ link.queue \in Seq(CardEvent)
  BY AsItWas DEF CardsInv
<1>b. UNCHANGED <<held, live, turns, written, reads, clicks>>
  BY DEF Deliver
<1> DEFINE q == link.queue
<1>1. PICK e : /\ e = Head(q) /\ q # <<>>
               /\ thread' = IF thread = <<>> THEN thread ELSE OnNewest(thread, ApplyCardEvent(Newest(thread), e))
               /\ link' = IF e.type = "message_done" THEN NoLink ELSE [link EXCEPT !.queue = Tail(q)]
               /\ own' = IF e.type = "message_done" THEN "settled" ELSE own
  BY DEF Deliver
<1>2. e \in CardEvent /\ 1 \in DOMAIN q /\ q[1] = e /\ EventTrue(e)
  BY <1>1, <1>a DEF EventsTrue
<1>3. /\ Tail(q) \in Seq(CardEvent)
      /\ \A k \in DOMAIN Tail(q) : k + 1 \in DOMAIN q /\ Tail(q)[k] = q[k + 1]
  BY <1>1, <1>a
<1>4. e.type = "message_done" => \A i \in DOMAIN thread : \A c \in Cards : thread[i][c] # {} => held[c] # "pending"
  BY <1>2, <1>a DEF EndsItsTurn
<1>5. /\ thread' \in Seq(Bubble) /\ Len(thread') = Len(thread)
      /\ (\A i \in DOMAIN thread' : BubbleTrue(thread'[i])) /\ Kept
      /\ e.type # "message_done" => \A i \in DOMAIN thread' : \A c \in Cards : thread'[i][c] # {} => thread[i][c] # {} \/ c = e.card
  <2>1. CASE thread = <<>>
    BY <1>1, <1>a, <1>b, <2>1 DEF Kept
  <2>2. CASE thread # <<>>
    <3> DEFINE b == Newest(thread)
               d == ApplyCardEvent(b, e)
    <3>1. b \in Bubble /\ BubbleTrue(b) /\ Len(thread) \in DOMAIN thread /\ b = thread[Len(thread)]
      BY <1>a, <2>2, NewestIs, NewestTrue
    <3> HIDE DEF b
    <3>2. /\ d \in Bubble /\ BubbleTrue(d) /\ Keeps(b, d)
          /\ e.type # "message_done" => \A c \in Cards : d[c] # {} => b[c] # {} \/ c = e.card
      BY <1>2, <1>4, <3>1, ApplyCardEventIs
    <3>3. thread' = OnNewest(thread, d)
      BY <1>1, <2>2 DEF b
    <3> HIDE DEF d
    <3>4. /\ thread' \in Seq(Bubble) /\ Len(thread') = Len(thread)
          /\ \A i \in DOMAIN thread' : thread'[i] = IF i = Len(thread) THEN d ELSE thread[i]
      <4>1. /\ OnNewest(thread, d) \in Seq(Bubble) /\ Len(OnNewest(thread, d)) = IF thread = <<>> THEN 1 ELSE Len(thread)
            /\ \A i \in DOMAIN OnNewest(thread, d) : OnNewest(thread, d)[i] = IF i = Len(OnNewest(thread, d)) THEN d ELSE thread[i]
        BY <1>a, <3>2, OnNewestIs
      <4> QED BY <2>2, <3>3, <4>1
    <3>5. /\ \A i \in DOMAIN thread' : BubbleTrue(thread'[i])
          /\ \A c \in OpenCards(thread) : held[c] = "pending" => c \in OpenCards(thread')
      BY <1>a, <3>2, <3>3, OnNewestTrue DEF b
    <3>6. Kept
      BY <1>b, <3>5 DEF Kept
    <3> QED BY <3>1, <3>2, <3>4, <3>5, <3>6
  <2> QED BY <2>1, <2>2
<1> HIDE DEF q
<1>6. /\ link' \in [kind : {"none", "own", "attach"}, queue : Seq(CardEvent)]
      /\ \A k \in DOMAIN link'.queue : \E j \in DOMAIN link.queue : link'.queue[k] = link.queue[j]
      /\ OwnStream' /\ EndsItsTurn' /\ own' \in {"no", "yes", "settled"}
  <2>1. CASE e.type = "message_done"
    <3>1. link' = [kind |-> "none", queue |-> <<>>] /\ own' = "settled"
      BY <1>1, <2>1 DEF NoLink
    <3>2. /\ link' \in [kind : {"none", "own", "attach"}, queue : Seq(CardEvent)]
          /\ \A k \in DOMAIN link'.queue : \E j \in DOMAIN link.queue : link'.queue[k] = link.queue[j]
          /\ EndsItsTurn' /\ link'.kind = "none"
      BY <3>1, EmptyStream
    <3> QED BY <3>1, <3>2 DEF OwnStream
  <2>2. CASE e.type # "message_done"
    <3> DEFINE u == Tail(q)
    <3>1. link' = [link EXCEPT !.queue = u] /\ own' = own
      BY <1>1, <2>2
    <3>2. u \in Seq(CardEvent) /\ \A k \in DOMAIN u : k \in Nat /\ k + 1 \in DOMAIN q /\ u[k] = q[k + 1]
      BY <1>3
    <3> HIDE DEF u
    <3>3. link' \in [kind : {"none", "own", "attach"}, queue : Seq(CardEvent)] /\ link'.kind = link.kind /\ link'.queue = u
      BY <3>1, <3>2, AsItWas
    <3>4. \A k \in DOMAIN link'.queue : \E j \in DOMAIN link.queue : link'.queue[k] = link.queue[j]
      BY <3>2, <3>3 DEF q
    <3>5. OwnStream'
      BY <1>a, <1>b, <3>1, <3>3 DEF OwnStream
    <3>6. EndsItsTurn'
      <4> SUFFICES ASSUME NEW k \in DOMAIN u, u[k].type = "message_done"
                   PROVE  /\ link.kind = "own"
                          /\ \A i \in DOMAIN thread' : \A c \in Cards : thread'[i][c] # {} => held[c] # "pending"
                          /\ \A m \in DOMAIN u : m < k /\ u[m].type # "message_done" => held[u[m].card] # "pending"
        BY <1>b, <3>3 DEF EndsItsTurn
      <4>1. k \in Nat /\ k + 1 \in DOMAIN q /\ q[k + 1].type = "message_done"
        BY <3>2
      <4>2. /\ link.kind = "own"
            /\ \A i \in DOMAIN thread : \A c \in Cards : thread[i][c] # {} => held[c] # "pending"
            /\ \A m \in DOMAIN q : m < k + 1 /\ q[m].type # "message_done" => held[q[m].card] # "pending"
        BY <1>a, <4>1 DEF EndsItsTurn, q
      <4>3. held[e.card] # "pending"
        <5>1. 1 < k + 1
          BY <3>2, <1>a DEF q
        <5> QED BY <1>2, <2>2, <4>2, <5>1
      <4>4. \A i \in DOMAIN thread' : i \in DOMAIN thread
        BY <1>5, <1>a
      <4>5. \A i \in DOMAIN thread' : \A c \in Cards : thread'[i][c] # {} => held[c] # "pending"
        BY <1>5, <2>2, <4>2, <4>3, <4>4
      <4>6. ASSUME NEW m \in DOMAIN u, m < k, u[m].type # "message_done" PROVE held[u[m].card] # "pending"
        <5>1. m + 1 \in DOMAIN q /\ m + 1 < k + 1 /\ u[m] = q[m + 1]
          BY <3>2, <4>1, <4>6
        <5> QED BY <4>2, <4>6, <5>1
      <4> QED BY <4>2, <4>5, <4>6
    <3> QED BY <3>1, <3>3, <3>4, <3>5, <3>6, AsItWas
  <2> QED BY <2>1, <2>2
<1>7. /\ live' \in BOOLEAN /\ (live => live') /\ turns' \in Nat /\ turns' <= MaxBubbles /\ turns <= turns'
      /\ reads' \subseteq PendingRead /\ IsFiniteSet(reads') /\ Cardinality(reads') <= MaxReads /\ \A r \in reads' : ReadTrue(r)
      /\ clicks' \in [Cards -> Answer] /\ \A c \in Cards : ClickTrue(c, clicks'[c])
  BY <1>b, <1>5, AsItWas
<1> QED BY <1>b, <1>5, <1>6, <1>7, SurfaceInv

LEMMA LoseStreamInv ==
  ASSUME CardsInv, LoseStream
  PROVE  CardsInv' /\ Kept
<1>1. UNCHANGED <<held, live, turns, written, thread, reads, clicks>> /\ link' = [kind |-> "none", queue |-> <<>>]
  BY DEF LoseStream, NoLink
<1>2. own' \in {"no", "yes", "settled"}
  BY AsItWas DEF LoseStream
<1>3. /\ link' \in [kind : {"none", "own", "attach"}, queue : Seq(CardEvent)] /\ link'.kind = "none"
      /\ \A k \in DOMAIN link'.queue : \E j \in DOMAIN link.queue : link'.queue[k] = link.queue[j]
      /\ EndsItsTurn'
  BY <1>1, EmptyStream
<1>4. OwnStream'
  BY <1>3 DEF OwnStream
<1>5. Kept
  BY <1>1 DEF Kept
<1> QED BY <1>1, <1>2, <1>3, <1>4, <1>5, AsItWas, SurfaceInv

\* A pass that has not been answered says nothing yet.
LEMMA PassIs ==
  ASSUME NEW cs \in SUBSET Cards, \A c \in cs : held[c] # "unborn", NEW quiet \in BOOLEAN
  PROVE  LET r == [before |-> cs, quiet |-> quiet, asked |-> FALSE, ans |-> {}, ok |-> TRUE]
         IN  r \in PendingRead /\ ReadTrue(r)
BY DEF PendingRead, ReadTrue

LEMMA OpenAreBorn ==
  ASSUME NEW t \in Seq(Bubble), \A i \in DOMAIN t : BubbleTrue(t[i])
  PROVE  OpenCards(t) \subseteq Cards /\ \A c \in OpenCards(t) : held[c] # "unborn"
BY OpenCardsAre DEF OpenCopies, BubbleTrue, CopyTrue

\* The thread a tick leaves.
LEMMA TickInv ==
  ASSUME CardsInv, Tick
  PROVE  CardsInv' /\ (Kept \/ Emptied)
<1>a. CardTypes /\ CopiesTrue /\ OwnStream /\ OverWaitsForNothing /\ thread \in Seq(Bubble)
  BY AsItWas DEF CardsInv
<1>b. UNCHANGED <<held, live, turns, written, clicks>> /\ (FollowsTurn \/ FindsNone)
  BY DEF Tick
<1>c. link.kind # "own"
  BY <1>a, <1>b DEF FollowsTurn, FindsNone, OwnStream
<1>1. \/ thread' = thread
      \/ live /\ thread' = CarryOpenCards(thread, written) /\ FollowsTurn
      \/ written > 0 /\ ~live /\ thread' = [i \in 1 .. written |-> NewBubble]
  <2>1. CASE FollowsTurn
    BY <2>1 DEF FollowsTurn
  <2>2. CASE FindsNone
    <3>1. CASE own = "no" /\ following
      <4>1. PICK failed \in {FALSE, lost < MaxLost} : thread' = IF failed \/ written = 0 THEN thread ELSE [i \in 1 .. written |-> NewBubble]
        BY <2>2, <3>1 DEF FindsNone
      <4>2. written = 0 \/ written > 0
        BY AsItWas
      <4>3. ~live
        BY <2>2 DEF FindsNone
      <4> QED BY <4>1, <4>2, <4>3
    <3>2. CASE ~(own = "no" /\ following)
      BY <2>2, <3>2 DEF FindsNone
    <3> QED BY <3>1, <3>2
  <2> QED BY <1>b, <2>1, <2>2
<1>2. /\ thread' \in Seq(Bubble)
      /\ (\A i \in DOMAIN thread' : BubbleTrue(thread'[i])) /\ (Kept \/ Emptied)
  <2>1. CASE thread' = thread
    BY <2>1, AsItWas DEF Kept
  <2>2. CASE written > 0 /\ live /\ thread' = CarryOpenCards(thread, written)
    <3>1. /\ thread' \in Seq(Bubble) /\ Len(thread') = written
          /\ \A i \in DOMAIN thread' : BubbleTrue(thread'[i])
          /\ \A c \in OpenCards(thread) : c \in OpenCards(thread')
      BY <1>a, <2>2, AsItWas, CarryOpenCardsIs
    <3>2. Kept
      BY <3>1 DEF Kept
    <3> QED BY <3>1, <3>2
  <2>3. CASE written > 0 /\ ~live /\ thread' = [i \in 1 .. written |-> NewBubble]
    <3>1. thread' \in Seq(Bubble) /\ Len(thread') = written /\ \A i \in DOMAIN thread' : thread'[i] = NewBubble
      BY <2>3, NewBubbleIs, AsItWas
    <3>2. \A i \in DOMAIN thread' : BubbleTrue(thread'[i])
      BY <3>1, NewBubbleIs DEF BubbleTrue
    <3>3. OpenCards(thread) \subseteq Cards
      BY DEF OpenCards
    <3>4. Kept
      BY <1>a, <1>b, <2>3, <3>3 DEF Kept, OverWaitsForNothing
    <3> QED BY <3>1, <3>2, <3>4
  <2>4. CASE written = 0 /\ thread' = CarryOpenCards(thread, written) /\ FollowsTurn
    <3>1. thread' = <<>>
      BY <2>4 DEF CarryOpenCards
    <3>2. reads' # {}
      <4>1. CASE reads = {}
        <5>1. Cardinality(reads) < MaxReads
          BY <4>1, FS_EmptySet, CardsAssumption
        <5> QED BY <2>4, <5>1 DEF FollowsTurn
      <4>2. CASE reads # {}
        BY <2>4, <4>2 DEF FollowsTurn
      <4> QED BY <4>1, <4>2
    <3>3. thread' \in Seq(Bubble) /\ DOMAIN thread' = {}
      BY <3>1
    <3> QED BY <2>4, <3>1, <3>2, <3>3 DEF Emptied
  <2>5. written = 0 \/ written > 0
    BY AsItWas
  <2> QED BY <1>1, <2>1, <2>2, <2>3, <2>4, <2>5
<1>3. \A quiet \in BOOLEAN : Pass(quiet) \in PendingRead /\ ReadTrue(Pass(quiet))
  <2>1. OpenCards(thread') \subseteq Cards /\ \A c \in OpenCards(thread') : held[c] # "unborn"
    BY <1>2, OpenAreBorn
  <2> QED BY <2>1, PassIs DEF Pass
<1>4. /\ reads' \subseteq PendingRead /\ IsFiniteSet(reads') /\ Cardinality(reads') <= MaxReads
      /\ \A r \in reads' : ReadTrue(r)
  <2>1. CASE reads' = reads
    BY <2>1, AsItWas
  <2>2. CASE reads' = {}
    BY <2>2, FS_EmptySet, CardsAssumption
  <2>3. CASE reads' = {Pass(FALSE)}
    <3>1. IsFiniteSet(reads') /\ Cardinality(reads') = 1
      BY <2>3, FS_Singleton
    <3>2. Cardinality(reads') <= MaxReads
      BY <3>1, CardsAssumption
    <3> QED BY <1>3, <2>3, <3>1, <3>2
  <2>4. CASE Cardinality(reads) < MaxReads /\ reads' = reads \cup {Pass(TRUE)}
    <3> PICK r : r = Pass(TRUE)
      OBVIOUS
    <3>1. r \in PendingRead /\ ReadTrue(r) /\ reads' = reads \cup {r}
      BY <1>3, <2>4
    <3>2. IsFiniteSet(reads') /\ Cardinality(reads) \in Nat /\ (Cardinality(reads') = Cardinality(reads) \/ Cardinality(reads') = Cardinality(reads) + 1)
      BY <3>1, AsItWas, FS_AddElement, FS_CardinalityType
    <3>3. Cardinality(reads') <= MaxReads
      BY <2>4, <3>2, CardsAssumption
    <3> QED BY <3>1, <3>2, <3>3, AsItWas
  <2>5. reads' = reads \/ reads' = {} \/ reads' = {Pass(FALSE)} \/ (Cardinality(reads) < MaxReads /\ reads' = reads \cup {Pass(TRUE)})
    <3>1. CASE FollowsTurn
      BY <3>1 DEF FollowsTurn
    <3>2. CASE FindsNone
      BY <3>2 DEF FindsNone
    <3> QED BY <1>b, <3>1, <3>2
  <2> QED BY <2>1, <2>2, <2>3, <2>4, <2>5
<1>5. own' \in {"no", "yes", "settled"}
  BY <1>b, AsItWas DEF FollowsTurn, FindsNone
<1>6. link' = link \/ \E kind \in {"none", "attach"} : link' = [kind |-> kind, queue |-> <<>>]
  BY <1>b DEF FollowsTurn, FindsNone, NoLink
<1>7. /\ link' \in [kind : {"none", "own", "attach"}, queue : Seq(CardEvent)]
      /\ \A k \in DOMAIN link'.queue : \E j \in DOMAIN link.queue : link'.queue[k] = link.queue[j]
      /\ OwnStream' /\ EndsItsTurn'
  <2>1. CASE link' = link
    BY <1>c, <2>1, AsItWas, OthersEndNothing
  <2>2. ASSUME NEW kind \in {"none", "attach"}, link' = [kind |-> kind, queue |-> <<>>]
        PROVE  /\ link' \in [kind : {"none", "own", "attach"}, queue : Seq(CardEvent)]
               /\ \A k \in DOMAIN link'.queue : \E j \in DOMAIN link.queue : link'.queue[k] = link.queue[j]
               /\ OwnStream' /\ EndsItsTurn'
    <3>1. /\ link' \in [kind : {"none", "own", "attach"}, queue : Seq(CardEvent)] /\ link'.kind = kind
          /\ \A k \in DOMAIN link'.queue : \E j \in DOMAIN link.queue : link'.queue[k] = link.queue[j]
          /\ EndsItsTurn'
      BY <2>2, EmptyStream
    <3> QED BY <3>1 DEF OwnStream
  <2> QED BY <1>6, <2>1, <2>2
<1> QED BY <1>b, <1>2, <1>4, <1>5, <1>7, AsItWas, SurfaceInv

\* A read that is answered.
LEMMA ReadAnsweredInv ==
  ASSUME CardsInv, ReadAnswered
  PROVE  CardsInv' /\ Kept
<1>a. CardTypes /\ OwnStream
  BY DEF CardsInv
<1>b. UNCHANGED <<held, live, turns, written, link, thread, own, clicks>>
  BY DEF ReadAnswered
<1>1. PICK r \in reads, failed \in BOOLEAN :
        ~r.asked /\ reads' = (reads \ {r}) \cup {[r EXCEPT !.asked = TRUE, !.ok = ~failed, !.ans = IF failed THEN {} ELSE Pending]}
  BY Zenon DEF ReadAnswered
<1> DEFINE cs == IF failed THEN {} ELSE Pending
           s == [r EXCEPT !.asked = TRUE, !.ok = ~failed, !.ans = cs]
<1>2. r \in PendingRead /\ ReadTrue(r)
  BY AsItWas
<1>3. cs \subseteq Cards /\ (\A c \in cs : held[c] # "unborn") /\ (~failed => \A c \in Cards : held[c] = "pending" => c \in cs)
  BY DEF Pending
<1>4. reads' = (reads \ {r}) \cup {s}
  BY <1>1
<1> HIDE DEF cs
<1>5. s \in PendingRead /\ s.asked = TRUE /\ s.ok = ~failed /\ s.ans = cs /\ s.before = r.before /\ r.before \subseteq Cards
  BY <1>2, <1>3 DEF PendingRead
<1> HIDE DEF s
<1>6. ReadTrue(s)
  BY <1>2, <1>3, <1>5 DEF ReadTrue
<1>7. IsFiniteSet(reads \ {r}) /\ Cardinality(reads \ {r}) = Cardinality(reads) - 1 /\ Cardinality(reads) \in Nat
  BY AsItWas, FS_RemoveElement, FS_CardinalityType
<1>8. /\ IsFiniteSet(reads')
      /\ Cardinality(reads') = Cardinality(reads \ {r}) \/ Cardinality(reads') = Cardinality(reads \ {r}) + 1
  BY <1>4, <1>7, FS_AddElement
<1>9. Cardinality(reads') <= MaxReads
  BY <1>7, <1>8, AsItWas, CardsAssumption
<1>10. reads' \subseteq PendingRead /\ \A x \in reads' : ReadTrue(x)
  BY <1>4, <1>5, <1>6, AsItWas
<1>11. link.kind # "own"
  BY <1>a DEF OwnStream
<1>12. EndsItsTurn' /\ OwnStream'
  BY <1>b, <1>11, OthersEndNothing
<1>13. Kept
  BY <1>b DEF Kept
<1> QED BY <1>b, <1>8, <1>9, <1>10, <1>12, <1>13, AsItWas, SurfaceInv

LEMMA RestorePendingHitlInv ==
  ASSUME CardsInv, RestorePendingHitl
  PROVE  CardsInv' /\ Kept
<1>a. CardTypes /\ CopiesTrue /\ OwnStream /\ thread \in Seq(Bubble)
  BY AsItWas DEF CardsInv
<1>b. UNCHANGED <<held, live, turns, written, link, own, clicks>>
  BY DEF RestorePendingHitl
<1>1. PICK r \in reads :
        /\ r.asked /\ reads' = reads \ {r}
        /\ thread' = IF r.ok THEN SettleCardsAbsent(AttachToNewest(thread, r.ans), r.ans, r.before)
                     ELSE IF r.quiet THEN thread ELSE Append(thread, NewBubble)
  BY Zenon DEF RestorePendingHitl
<1>2. r \in PendingRead /\ ReadTrue(r)
  BY AsItWas
<1>3. /\ thread' \in Seq(Bubble)
      /\ (\A i \in DOMAIN thread' : BubbleTrue(thread'[i])) /\ Kept
  <2>1. CASE ~r.ok
    <3>1. CASE thread' = thread
      BY <3>1, AsItWas DEF Kept
    <3>2. CASE thread' = Append(thread, NewBubble)
      <4>1. /\ thread' \in Seq(Bubble) /\ thread'[Len(thread) + 1] = NewBubble
            /\ \A i \in DOMAIN thread : i \in DOMAIN thread' /\ thread'[i] = thread[i]
            /\ \A i \in DOMAIN thread' : i \in DOMAIN thread \/ i = Len(thread) + 1
        BY <3>2, AsItWas, NewBubbleIs
      <4>2. BubbleTrue(NewBubble)
        BY NewBubbleIs DEF BubbleTrue
      <4>3. Kept
        BY <4>1, OpenCardsAre DEF Kept
      <4> QED BY <4>1, <4>2, <4>3, AsItWas
    <3> QED BY <1>1, <2>1, <3>1, <3>2
  <2>2. CASE r.ok
    <3> DEFINE t == AttachToNewest(thread, r.ans)
    <3>1. /\ t \in Seq(Bubble) /\ (Len(t) <= Len(thread) \/ Len(t) = 1)
          /\ \A i \in DOMAIN t : BubbleTrue(t[i])
          /\ \A c \in OpenCards(thread) : held[c] = "pending" => c \in OpenCards(t)
      <4>1. \A c \in Cards : c \in r.ans => held[c] # "unborn"
        BY <1>2 DEF ReadTrue
      <4> QED BY <1>a, <4>1, AttachToNewestIs
    <3>2. \A c \in Cards : c \in r.before /\ held[c] = "pending" => c \in r.ans
      BY <1>1, <1>2, <2>2 DEF ReadTrue
    <3>3. thread' = SettleCardsAbsent(t, r.ans, r.before)
      BY <1>1, <2>2
    <3> HIDE DEF t
    <3>4. /\ thread' \in Seq(Bubble) /\ Len(thread') = Len(t)
          /\ \A i \in DOMAIN thread' : BubbleTrue(thread'[i])
          /\ \A c \in OpenCards(t) : held[c] = "pending" => c \in OpenCards(thread')
      BY <3>1, <3>2, <3>3, SettleCardsAbsentIs
    <3>5. Kept
      BY <1>b, <3>1, <3>4 DEF Kept
    <3> QED BY <3>4, <3>5
  <2> QED BY <2>1, <2>2
<1>4. /\ reads' \subseteq PendingRead /\ IsFiniteSet(reads') /\ Cardinality(reads') <= MaxReads
      /\ \A x \in reads' : ReadTrue(x)
  <2>1. IsFiniteSet(reads') /\ Cardinality(reads') = Cardinality(reads) - 1 /\ Cardinality(reads) \in Nat
    BY <1>1, AsItWas, FS_RemoveElement, FS_CardinalityType
  <2>2. Cardinality(reads') <= MaxReads
    BY <2>1, AsItWas, CardsAssumption
  <2> QED BY <1>1, <2>1, <2>2, AsItWas
<1>5. link.kind # "own"
  BY <1>a DEF OwnStream
<1>6. EndsItsTurn' /\ OwnStream'
  BY <1>b, <1>5, OthersEndNothing
<1> QED BY <1>b, <1>3, <1>4, <1>6, AsItWas, SurfaceInv

\* One card is patched, and the user's answer to it changes.
LEMMA PatchInv ==
  ASSUME CardsInv, UNCHANGED <<held, live, turns, written, link, own, reads>>, NEW c \in Cards,
         PatchOf(thread', c), NEW l \in Answer, ClickTrue(c, l), clicks' = [clicks EXCEPT ![c] = l]
  PROVE  CardsInv' /\ Kept
<1>a. CopiesTrue /\ OwnStream /\ EndsItsTurn /\ thread \in Seq(Bubble)
  BY AsItWas DEF CardsInv
<1> PICK t : t = thread'
  OBVIOUS
<1>0. DOMAIN t = DOMAIN thread
  BY DEF PatchOf
<1>1. /\ t \in Seq(Bubble) /\ Len(t) = Len(thread)
      /\ \A i \in DOMAIN t : BubbleTrue(t[i])
      /\ \A k \in OpenCards(thread) : held[k] = "pending" => k \in OpenCards(t)
      /\ \A i \in DOMAIN t : \A k \in Cards : t[i][k] # {} => thread[i][k] # {}
  BY <1>a, PatchedIs
<1>2. clicks' \in [Cards -> Answer] /\ clicks'[c] = l /\ \A d \in Cards : d # c => clicks'[d] = clicks[d]
  BY AsItWas
<1>3. \A d \in Cards : ClickTrue(d, clicks'[d])
  BY <1>2, AsItWas
<1>4. Kept
  BY <1>1 DEF Kept
<1>5. OwnStream'
  BY <1>a DEF OwnStream
<1>6. EndsItsTurn'
  BY <1>a, <1>0, <1>1 DEF EndsItsTurn
<1>7. thread' \in Seq(Bubble) /\ \A i \in DOMAIN thread' : BubbleTrue(thread'[i])
  BY <1>1, AsItWas
<1> QED BY <1>2, <1>3, <1>4, <1>5, <1>6, <1>7, AsItWas, SurfaceInv

LEMMA ClickInv ==
  ASSUME CardsInv, Click
  PROVE  CardsInv' /\ Kept
<1>a. CopiesTrue /\ thread \in Seq(Bubble)
  BY AsItWas DEF CardsInv
<1>b. UNCHANGED <<held, live, turns, written, link, own, reads>>
  BY DEF Click
<1>1. PICK c \in Cards : \E what \in ApprovalCard(c) \cup QuestionCard(c) :
        /\ clicks[c] = NoClick
        /\ clicks' = [clicks EXCEPT ![c] = [NoClick EXCEPT !.what = what]]
        /\ thread' = PatchThread(thread, c, LAMBDA x : Card("busy", FALSE))
  BY DEF Click
<1>2. PICK what \in ApprovalCard(c) \cup QuestionCard(c) :
        /\ clicks' = [clicks EXCEPT ![c] = [NoClick EXCEPT !.what = what]]
        /\ thread' = PatchThread(thread, c, LAMBDA x : Card("busy", FALSE))
  BY <1>1
<1>3. /\ what \in {"approve", "reject", "answer", "cancel"} /\ \E x \in Copies(thread, c) : x.st = "pending"
      /\ c \in Questions => what \in {"answer", "cancel"}
  BY <1>2, CardsAssumption DEF ApprovalCard, QuestionCard
<1>4. held[c] # "unborn"
  BY <1>3, <1>a DEF Copies, CopiesTrue, BubbleTrue, CopyTrue
<1> DEFINE l == [NoClick EXCEPT !.what = what]
<1>5. l \in Answer /\ l.what = what /\ l.ans = "none" /\ l.reread = FALSE /\ clicks' = [clicks EXCEPT ![c] = l]
  BY <1>2, <1>3 DEF NoClick, Answer
<1> HIDE DEF l
<1>6. ClickTrue(c, l)
  BY <1>3, <1>4, <1>5 DEF ClickTrue
<1> DEFINE y == Card("busy", FALSE)
<1>7. y \in Shown /\ CopyTrue(c, y) /\ IsOpen(y)
  BY <1>4, CardIs DEF OpenStates, CopyTrue, Decisions, IsOpen
<1>8. thread' = [i \in DOMAIN thread |-> [thread[i] EXCEPT ![c] = {y : x \in thread[i][c]}]]
  BY <1>2 DEF PatchThread, Patch
<1> HIDE DEF y
<1>9. ASSUME NEW i \in DOMAIN thread
      PROVE  /\ thread'[i] = [thread[i] EXCEPT ![c] = thread'[i][c]]
             /\ \A z \in thread'[i][c] : z \in Shown /\ CopyTrue(c, z) /\ (held[c] = "pending" => IsOpen(z))
             /\ thread'[i][c] = {} <=> thread[i][c] = {}
  <2> DEFINE s == {y : x \in thread[i][c]}
  <2>1. thread'[i] = [thread[i] EXCEPT ![c] = s] /\ thread[i] \in Bubble
    BY <1>8, <1>9, <1>a
  <2>2. (\A z \in s : z = y) /\ (s = {} <=> thread[i][c] = {})
    OBVIOUS
  <2> HIDE DEF s
  <2>3. thread'[i][c] = s
    BY <2>1 DEF Bubble
  <2> QED BY <1>7, <2>1, <2>2, <2>3
<1>10. DOMAIN thread' = DOMAIN thread /\ thread' = [i \in DOMAIN thread |-> thread'[i]]
  BY <1>8
<1>11. PatchOf(thread', c)
  BY <1>9, <1>10, Zenon DEF PatchOf
<1> QED BY <1>b, <1>5, <1>6, <1>11, PatchInv

\* What the gateway's answer makes of a card is true, and takes no held one away.
LandsOn(c, k, x) ==
  IF c \in Approvals THEN DecideApproval(x, k)
  ELSE IF k.reread THEN ReopenOrExpireQuestion(x, k) ELSE SubmitQuestion(x, k)

LEMMA LandsOnIs ==
  ASSUME NEW c \in Cards, NEW k \in Answer, ClickTrue(c, k), k.what # "none", k.ans # "none",
         ~(c \in Questions /\ ~k.reread /\ k.ans = "gone"), NEW x \in Shown, CopyTrue(c, x)
  PROVE  LET y == LandsOn(c, k, x)
         IN  y \in Shown /\ CopyTrue(c, y) /\ (held[c] = "pending" => IsOpen(y))
<1>1. held[c] # "unborn" /\ k.ans \in {"ok", "gone", "fail"} /\ x.err \in BOOLEAN /\ k.reread \in BOOLEAN
  BY DEF ClickTrue, Answer, Shown
<1>2. OutcomeOf(k.what) \in SettledStates /\ OutcomeOf(k.what) # "pending"
  BY DEF OutcomeOf, Answer, SettledStates
<1>3. k.ans = "gone" => held[c] # "pending"
  BY DEF ClickTrue
<1>4. k.ans = "ok" /\ ~k.reread => held[c] = OutcomeOf(k.what)
  BY DEF ClickTrue
<1> DEFINE out == OutcomeOf(k.what)
<1> HIDE DEF out
<1>5. Card("stopped", FALSE) \in Shown /\ CopyTrue(c, Card("stopped", FALSE))
  BY <1>1, CardIs DEF CopyTrue, Decisions, SettledStates
<1>6. Card("expired", FALSE) \in Shown /\ CopyTrue(c, Card("expired", FALSE))
  BY <1>1, CardIs DEF CopyTrue, Decisions, SettledStates
<1>7. Card("pending", TRUE) \in Shown /\ CopyTrue(c, Card("pending", TRUE)) /\ IsOpen(Card("pending", TRUE))
  BY <1>1, CardIs DEF CopyTrue, Decisions, OpenStates, IsOpen
<1>8. ASSUME NEW err \in BOOLEAN, k.ans = "ok", ~k.reread PROVE Card(out, err) \in Shown /\ CopyTrue(c, Card(out, err)) /\ held[c] # "pending"
  BY <1>1, <1>2, <1>4, <1>8, CardIs DEF CopyTrue, out
<1>9. CASE c \in Approvals
  <2>1. ~k.reread
    BY <1>9 DEF ClickTrue
  <2>2. LandsOn(c, k, x) = DecideApproval(x, k)
    BY <1>9 DEF LandsOn
  <2>3. CASE k.ans = "ok"
    <3>1. DecideApproval(x, k) = IF x.st = "busy" THEN Card(out, x.err) ELSE x
      BY <2>3 DEF DecideApproval, out
    <3> QED BY <1>1, <1>8, <2>1, <2>2, <2>3, <3>1
  <2>4. CASE k.ans = "gone"
    <3>1. DecideApproval(x, k) = Card("stopped", FALSE)
      BY <2>4 DEF DecideApproval
    <3> QED BY <1>3, <1>5, <2>2, <2>4, <3>1
  <2>5. CASE k.ans = "fail"
    <3>1. DecideApproval(x, k) = Card("pending", TRUE)
      BY <2>5 DEF DecideApproval
    <3> QED BY <1>7, <2>2, <3>1
  <2> QED BY <1>1, <2>3, <2>4, <2>5
<1>10. CASE c \notin Approvals /\ k.reread
  <2>1. LandsOn(c, k, x) = ReopenOrExpireQuestion(x, k)
    BY <1>10 DEF LandsOn
  <2>2. CASE k.ans = "gone"
    <3>1. ReopenOrExpireQuestion(x, k) = Card("expired", FALSE)
      BY <2>2 DEF ReopenOrExpireQuestion
    <3> QED BY <1>3, <1>6, <2>1, <2>2, <3>1
  <2>3. CASE k.ans # "gone"
    <3>1. ReopenOrExpireQuestion(x, k) = Card("pending", TRUE)
      BY <1>1, <2>3 DEF ReopenOrExpireQuestion
    <3> QED BY <1>7, <2>1, <3>1
  <2> QED BY <2>2, <2>3
<1>11. CASE c \notin Approvals /\ ~k.reread
  <2>1. LandsOn(c, k, x) = SubmitQuestion(x, k)
    BY <1>11 DEF LandsOn
  <2>2. CASE k.ans = "ok"
    <3>1. SubmitQuestion(x, k) = Card(out, FALSE)
      BY <2>2 DEF SubmitQuestion, out
    <3> QED BY <1>8, <1>11, <2>1, <2>2, <3>1
  <2>3. CASE k.ans = "fail"
    <3>1. SubmitQuestion(x, k) = Card("pending", TRUE)
      BY <2>3 DEF SubmitQuestion
    <3> QED BY <1>7, <2>1, <3>1
  <2>4. c \in Questions
    BY <1>11 DEF Cards
  <2> QED BY <1>1, <1>11, <2>2, <2>3, <2>4
<1> QED BY <1>9, <1>10, <1>11

LEMMA ClickLandsInv ==
  ASSUME CardsInv, ClickLands
  PROVE  CardsInv' /\ Kept
<1>a. CopiesTrue /\ thread \in Seq(Bubble)
  BY AsItWas DEF CardsInv
<1>b. UNCHANGED <<held, live, turns, written, link, own, reads>>
  BY DEF ClickLands
<1>1. PICK c \in Cards :
        LET k == clicks[c]
            asks == c \in Questions /\ ~k.reread /\ k.ans = "gone"
        IN  /\ k.what # "none" /\ k.ans # "none"
            /\ thread' = IF asks THEN thread ELSE PatchThread(thread, c, LAMBDA x : LandsOn(c, k, x))
            /\ clicks' = [clicks EXCEPT ![c] = IF asks THEN [k EXCEPT !.ans = "none", !.reread = TRUE] ELSE NoClick]
  BY DEF ClickLands, LandsOn
<1> PICK k : k = clicks[c]
  OBVIOUS
<1>2. k \in Answer /\ ClickTrue(c, k) /\ k.what # "none" /\ k.ans # "none"
  BY <1>1, AsItWas
<1> DEFINE asks == c \in Questions /\ ~k.reread /\ k.ans = "gone"
<1>3. CASE asks
  <2> DEFINE l == [k EXCEPT !.ans = "none", !.reread = TRUE]
  <2>1. thread' = thread /\ clicks' = [clicks EXCEPT ![c] = l]
    BY <1>1, <1>3
  <2>2. l \in Answer /\ l.what = k.what /\ l.ans = "none" /\ l.reread = TRUE
    BY <1>2 DEF Answer
  <2> HIDE DEF l
  <2>3. c \notin Approvals
    BY <1>3, CardsAssumption
  <2>4. ClickTrue(c, l)
    BY <1>2, <2>2, <2>3 DEF ClickTrue
  <2>5. clicks' \in [Cards -> Answer] /\ \A d \in Cards : ClickTrue(d, clicks'[d])
    BY <2>1, <2>2, <2>4, AsItWas
  <2>6. Kept
    BY <2>1 DEF Kept
  <2>7. OwnStream' /\ EndsItsTurn'
    BY <1>b, <2>1 DEF CardsInv, OwnStream, EndsItsTurn
  <2> QED BY <1>b, <2>1, <2>5, <2>6, <2>7, AsItWas, SurfaceInv
<1>4. CASE ~asks
  <2> DEFINE l == NoClick
  <2>1. l \in Answer /\ l.what = "none" /\ l.ans = "none" /\ l.reread = FALSE
    BY DEF NoClick, Answer
  <2>2. clicks' = [clicks EXCEPT ![c] = l]
    BY <1>1, <1>4
  <2> HIDE DEF l
  <2>3. ClickTrue(c, l)
    BY <2>1 DEF ClickTrue
  <2>4. thread' = [i \in DOMAIN thread |-> [thread[i] EXCEPT ![c] = {LandsOn(c, k, x) : x \in thread[i][c]}]]
    <3>1. thread' = PatchThread(thread, c, LAMBDA x : LandsOn(c, k, x))
      BY <1>1, <1>4
    <3> QED BY <3>1 DEF PatchThread, Patch
  <2>5. ASSUME NEW i \in DOMAIN thread
        PROVE  /\ thread'[i] = [thread[i] EXCEPT ![c] = thread'[i][c]]
               /\ \A z \in thread'[i][c] : z \in Shown /\ CopyTrue(c, z) /\ (held[c] = "pending" => IsOpen(z))
               /\ thread'[i][c] = {} <=> thread[i][c] = {}
    <3> DEFINE s == {LandsOn(c, k, x) : x \in thread[i][c]}
    <3>1. thread'[i] = [thread[i] EXCEPT ![c] = s] /\ thread[i] \in Bubble /\ BubbleTrue(thread[i])
      BY <2>4, <2>5, <1>a DEF CopiesTrue
    <3>2. \A x \in thread[i][c] : x \in Shown /\ CopyTrue(c, x)
      BY <3>1 DEF Bubble, BubbleTrue
    <3>3. \A z \in s : z \in Shown /\ CopyTrue(c, z) /\ (held[c] = "pending" => IsOpen(z))
      BY <1>2, <1>4, <3>2, LandsOnIs
    <3>4. s = {} <=> thread[i][c] = {}
      OBVIOUS
    <3> HIDE DEF s
    <3>5. thread'[i][c] = s
      BY <3>1 DEF Bubble
    <3> QED BY <3>1, <3>3, <3>4, <3>5
  <2>6. DOMAIN thread' = DOMAIN thread /\ thread' = [i \in DOMAIN thread |-> thread'[i]]
    BY <2>4
  <2>7. PatchOf(thread', c)
    BY <2>5, <2>6, Zenon DEF PatchOf
  <2> QED BY <1>b, <2>1, <2>2, <2>3, <2>7, PatchInv
<1> QED BY <1>3, <1>4

-----------------------------------------------------------------------------
(* The specification *)

LEMMA CardsStart ==
  ASSUME Init
  PROVE  CardsInv
<1>1. /\ link = [kind |-> "none", queue |-> <<>>] /\ own = "no" /\ clicks = [c \in Cards |-> NoClick]
  BY DEF Init, CardsAtRest, CardsInit, NoLink
<1>2. link \in [kind : {"none", "own", "attach"}, queue : Seq(CardEvent)] /\ link.kind = "none" /\ DOMAIN link.queue = {}
  BY <1>1
<1>3. NoClick \in Answer /\ NoClick.what = "none" /\ NoClick.ans = "none" /\ NoClick.reread = FALSE
  BY DEF NoClick, Answer
<1>4. clicks \in [Cards -> Answer] /\ \A c \in Cards : clicks[c] = NoClick
  BY <1>1, <1>3
<1>5. ClicksTrue
  BY <1>3, <1>4 DEF ClicksTrue, ClickTrue
<1>6. live \in BOOLEAN /\ turns \in Nat /\ turns <= MaxBubbles /\ written \in Nat /\ written <= turns
  <2>1. CASE CardsAtRest
    <3>1. live = FALSE /\ turns = MaxBubbles /\ written = 0
      BY <2>1 DEF CardsAtRest
    <3>2. turns \in Nat /\ turns <= MaxBubbles /\ written \in Nat /\ written <= turns
      <4>1. turns = MaxBubbles /\ written = 0
        BY <3>1
      <4> QED BY <4>1, CardsAssumption
    <3> QED BY <3>1, <3>2
  <2>2. CASE CardsInit
    <3>1. live \in BOOLEAN
      BY <2>2 DEF CardsInit
    <3>2. turns \in {0, 1} /\ written \in 0 .. turns
      BY <2>2 DEF CardsInit
    <3>3. turns \in Nat /\ turns <= MaxBubbles /\ written \in Nat /\ written <= turns
      BY <3>2, CardsAssumption
    <3> QED BY <3>1, <3>3
  <2> QED BY <2>1, <2>2 DEF Init
<1>7. held \in [Cards -> Outcomes \cup {"unborn", "pending"}] /\ (~live => \A c \in Cards : held[c] = "unborn")
  <2>1. CASE CardsAtRest
    BY <2>1 DEF CardsAtRest
  <2>2. CASE CardsInit
    BY <2>2 DEF CardsInit
  <2> QED BY <2>1, <2>2 DEF Init
<1>8. /\ thread \in Seq(Bubble) /\ \A i \in DOMAIN thread : thread[i] = NewBubble
  <2>1. CASE CardsAtRest
    BY <1>6, <2>1 DEF CardsAtRest
  <2>2. CASE CardsInit
    <3>1. thread = [i \in 1 .. written |-> NewBubble]
      BY <2>2 DEF CardsInit
    <3> QED BY <1>6, <3>1, NewBubbleIs
  <2> QED BY <2>1, <2>2 DEF Init
<1>9. CopiesTrue
  BY <1>8, NewBubbleIs DEF CopiesTrue, BubbleTrue
<1>10. reads \subseteq PendingRead /\ IsFiniteSet(reads) /\ Cardinality(reads) <= MaxReads /\ ReadsTrue
  <2>1. CASE CardsAtRest
    <3>1. reads = {}
      BY <2>1 DEF CardsAtRest
    <3> QED BY <3>1, FS_EmptySet, CardsAssumption DEF ReadsTrue
  <2>2. CASE CardsInit
    <3> DEFINE r == [before |-> {}, quiet |-> FALSE, asked |-> FALSE, ans |-> {}, ok |-> TRUE]
    <3>1. reads = {r}
      BY <2>2 DEF CardsInit
    <3>2. r \in PendingRead /\ ReadTrue(r)
      BY PassIs
    <3> HIDE DEF r
    <3>3. IsFiniteSet(reads) /\ Cardinality(reads) = 1
      BY <3>1, FS_Singleton
    <3>4. Cardinality(reads) <= MaxReads
      BY <3>3, CardsAssumption
    <3> QED BY <3>1, <3>2, <3>3, <3>4 DEF ReadsTrue
  <2> QED BY <2>1, <2>2 DEF Init
<1>11. CardTypes
  BY <1>1, <1>2, <1>4, <1>6, <1>7, <1>8, <1>10 DEF CardTypes
<1>12. EventsTrue /\ EndsItsTurn /\ OwnStream
  BY <1>2 DEF EventsTrue, EndsItsTurn, OwnStream
<1>13. OverWaitsForNothing
  BY <1>7 DEF OverWaitsForNothing
<1> QED BY <1>5, <1>9, <1>10, <1>11, <1>12, <1>13 DEF CardsInv

\* Nothing about the cards moves.
LEMMA CardsStutter ==
  ASSUME CardsInv, UNCHANGED cardVars
  PROVE  CardsInv' /\ Kept
<1>1. UNCHANGED <<held, live, turns, written, link, thread, own, reads, clicks>>
  BY DEF cardVars, surface
<1>2. OwnStream' /\ EndsItsTurn'
  BY <1>1 DEF CardsInv, OwnStream, EndsItsTurn
<1>3. Kept
  BY <1>1 DEF Kept
<1> QED BY <1>1, <1>2, <1>3, AsItWas, SurfaceInv

LEMMA CardsSteps ==
  ASSUME CardsInv, [Next]_<<foldVars, cardVars>>
  PROVE  CardsInv' /\ (Kept \/ Emptied)
<1>1. CASE UNCHANGED cardVars
  BY <1>1, CardsStutter
<1>2. CASE CardsNext
  <2>1. CASE Raise \/ ElsewhereDecides \/ TurnOver \/ Write \/ ElsewhereStarts \/ ClickAnswered
    <3>1. CardsInv'
      BY <2>1, RaiseInv, ElsewhereDecidesInv, TurnOverInv, WriteInv, ClickAnsweredInv
    <3>2. thread' = thread
      BY <2>1, Zenon DEF Raise, ElsewhereDecides, TurnOver, Write, ElsewhereStarts, ClickAnswered, surface
    <3> QED BY <3>1, <3>2 DEF Kept
  <2>2. CASE SendTurn
    BY <2>2, SendTurnInv
  <2>3. CASE Deliver
    BY <2>3, DeliverInv
  <2>4. CASE LoseStream
    BY <2>4, LoseStreamInv
  <2>5. CASE Tick
    BY <2>5, TickInv
  <2>6. CASE ReadAnswered
    BY <2>6, ReadAnsweredInv
  <2>7. CASE RestorePendingHitl
    BY <2>7, RestorePendingHitlInv
  <2>8. CASE Click
    BY <2>8, ClickInv
  <2>9. CASE ClickLands
    BY <2>9, ClickLandsInv
  <2> QED BY <1>2, <2>1, <2>2, <2>3, <2>4, <2>5, <2>6, <2>7, <2>8, <2>9 DEF CardsNext
<1> QED BY <1>1, <1>2 DEF Next

(* The cards, the events, the reads and the answers under way stay in the states
   the proofs below rest on, through every handler of the conversation. *)
THEOREM CardsInductive == Spec => []CardsInv
<1>1. Init => CardsInv
  BY CardsStart
<1>2. CardsInv /\ [Next]_<<foldVars, cardVars>> => CardsInv'
  BY CardsSteps
<1> QED BY <1>1, <1>2, PTL DEF Spec

(* A card never claims a decision the gateway did not record, whatever the order
   in which applyAgentEvent, decideApproval, submitQuestion and the pending reads
   of restorePendingHitl come to it. *)
THEOREM CardsRecordTruth == Spec => []RecordsAreTrue
<1>1. CardsInv => RecordsAreTrue
  <2> SUFFICES ASSUME CardsInv PROVE RecordsAreTrue
    OBVIOUS
  <2>1. ASSUME NEW c \in Cards, NEW x \in Copies(thread, c) PROVE x \in Shown /\ CopyTrue(c, x)
    <3>1. PICK i \in DOMAIN thread : x \in thread[i][c]
      BY <2>1 DEF Copies
    <3> QED BY <3>1, AsItWas DEF Bubble, BubbleTrue
  <2>3. CardsTypeOK
    <3>1. held \in [Cards -> Outcomes \cup {"unborn", "pending"}]
      BY DEF CardsInv, CardTypes
    <3> QED BY <2>1, <3>1, AsItWas DEF CardsTypeOK, Shown
  <2> QED BY <2>1, <2>3 DEF RecordsAreTrue, CopyTrue, Decisions
<1> QED BY <1>1, CardsInductive, PTL

(* No sweep of settleCardsAbsent, end of a turn, carried transcript or late answer
   takes the control of a card away that the gateway still holds, but for the one
   refresh of refreshHistoryIfChanged that finds no agent turn to carry it to, and
   that one leaves a pass of restorePendingHitl under way. *)
THEOREM HeldCardsAreKept == Spec => HeldCardKept
<1>1. CardsInv /\ [Next]_<<foldVars, cardVars>>
        => [\A c \in OpenCards(thread) : held'[c] = "pending" =>
              \/ c \in OpenCards(thread')
              \/ written = 0 /\ thread' = <<>> /\ reads' # {}]_cardVars
  BY CardsSteps DEF Kept, Emptied
<1> QED BY <1>1, CardsInductive, PTL DEF Spec, HeldCardKept

-----------------------------------------------------------------------------
(* The fold of a turn: its inductive invariant, in parts *)

TextBlocks == [kind : {"text"}, id : Narrations \cup {NoId}, text : Seq(Nat), superseded : Seq(Seq(Nat))]
ToolBlocks == [kind : {"tool"}, id : Calls, output : Seq(Nat), done : BOOLEAN]
Blocks == TextBlocks \cup ToolBlocks
DocItems == [role : {"text", "toolCall", "toolResult"}, id : Ids \cup Narrations, text : Seq(Nat), chunk : Nat]

FoldTypes ==
  /\ bubble \in [blocks : Seq(Blocks), phase : {"thinking", "streaming", "tools", "done"},
                 card : {"none", "pending", "approved", "stopped"}, afterBlock : Nat]
  /\ doc \in Seq(DocItems) /\ wire \in Nat
  /\ calls \in Seq(Calls) /\ results \in [Calls -> Seq(Nat)] /\ gated \in Ids

\* A call is made once, and is shown finished when it has returned something.
MadeOnce == \A i, j \in DOMAIN calls : calls[i] = calls[j] => i = j
UncalledHasNone == \A c \in Calls : c \notin Range(calls) => results[c] = <<>>
DoneHasResults == \A i \in ToolAt : bubble.blocks[i].done <=> results[bubble.blocks[i].id] # <<>>

\* A card points at the block of the call it was raised for.
CardPoints ==
  bubble.card # "none" =>
    /\ bubble.afterBlock \in DOMAIN bubble.blocks
    /\ bubble.blocks[bubble.afterBlock].kind = "tool" /\ bubble.blocks[bubble.afterBlock].id = gated

\* While the newest item of the history is a call, so is the newest block.
NewestIsTheCall ==
  /\ calls # <<>> => doc # <<>>
  /\ doc # <<>> /\ doc[Len(doc)].role = "toolCall" =>
    /\ bubble.blocks # <<>> /\ calls # <<>>
    /\ Last_(bubble.blocks).kind = "tool" /\ Last_(bubble.blocks).id = calls[Len(calls)]

FoldInv ==
  /\ FoldTypes /\ MadeOnce /\ UncalledHasNone /\ OutputsBelong /\ DoneHasResults
  /\ CardPoints /\ NewestIsTheCall

-----------------------------------------------------------------------------
LEMMA MinIs ==
  ASSUME NEW I, I \subseteq Nat, I # {}
  PROVE  Min(I) \in I /\ \A j \in I : Min(I) <= j
<1> DEFINE R == OpToRel(<, Nat)
<1>1. \E x \in I : \A y \in I : ~(<<y, x>> \in R)
  <2> IsWellFoundedOn(R, Nat)
    BY NatLessThanWellFounded DEF R
  <2> HIDE DEF R
  <2> QED BY WFMin
<1>2. \E x \in I : \A y \in I : x <= y
  <2>1. PICK x \in I : \A y \in I : ~(<<y, x>> \in R)
    BY <1>1
  <2>2. \A y \in I : x <= y
    <3> TAKE y \in I
    <3>1. x \in Nat /\ y \in Nat
      OBVIOUS
    <3>2. y < x => <<y, x>> \in R
      BY <3>1 DEF OpToRel
    <3>3. ~(<<y, x>> \in R)
      BY <2>1
    <3> HIDE DEF R
    <3> QED BY <3>1, <3>2, <3>3
  <2> QED BY <2>2
<1> QED BY <1>2 DEF Min

\* The blocks of cs are those of bs, with other texts in them, and new texts.
OnlyTexts(bs, cs) ==
  /\ cs \in Seq(Blocks) /\ Len(bs) <= Len(cs)
  /\ \A i \in DOMAIN bs : /\ cs[i].kind = bs[i].kind /\ cs[i].id = bs[i].id
                          /\ bs[i].kind = "tool" => cs[i] = bs[i]
  /\ \A i \in DOMAIN cs : i > Len(bs) => cs[i].kind = "text"

LEMMA TextAppended ==
  ASSUME NEW bs \in Seq(Blocks), NEW id \in Narrations \cup {NoId}, NEW text \in Seq(Nat)
  PROVE  OnlyTexts(bs, Append(bs, TextBlock(id, text)))
<1>1. TextBlock(id, text) \in Blocks /\ TextBlock(id, text).kind = "text"
  BY DEF TextBlock, Blocks, TextBlocks
<1> HIDE DEF TextBlock, Blocks
<1> QED BY <1>1 DEF OnlyTexts

LEMMA TextChanged ==
  ASSUME NEW bs \in Seq(Blocks), NEW at \in DOMAIN bs, bs[at].kind = "text", NEW b \in TextBlocks,
         b.id = bs[at].id, NEW cs, cs = [bs EXCEPT ![at] = b]
  PROVE  OnlyTexts(bs, cs)
<1>1. b \in Blocks /\ b.kind = "text"
  BY DEF Blocks, TextBlocks
<1>2. [bs EXCEPT ![at] = b] \in Seq(Blocks)
  BY <1>1
<1> HIDE DEF Blocks
<1> QED BY <1>1, <1>2 DEF OnlyTexts

LEMMA TextBlockIs ==
  ASSUME NEW b \in Blocks, b.kind = "text"
  PROVE  b \in TextBlocks
BY DEF Blocks, TextBlocks, ToolBlocks

LEMMA Retold ==
  ASSUME NEW b \in TextBlocks, NEW u \in Seq(Nat), NEW c, c = [b EXCEPT !.text = u]
  PROVE  c \in TextBlocks /\ c.id = b.id
BY DEF TextBlocks

LEMMA Superseded ==
  ASSUME NEW b \in TextBlocks, NEW u \in Seq(Nat), NEW v \in Seq(Seq(Nat)), NEW c,
         c = [b EXCEPT !.text = u, !.superseded = v]
  PROVE  c \in TextBlocks /\ c.id = b.id
BY DEF TextBlocks

LEMMA TextFields ==
  ASSUME NEW b \in TextBlocks
  PROVE  b.text \in Seq(Nat) /\ b.superseded \in Seq(Seq(Nat))
BY DEF TextBlocks

LEMMA AnswerBlockIs ==
  ASSUME NEW bs \in Seq(Blocks), AnswerBlock(bs) # 0
  PROVE  /\ AnswerBlock(bs) \in DOMAIN bs
         /\ bs[AnswerBlock(bs)] \in TextBlocks /\ bs[AnswerBlock(bs)].kind = "text"
<1>1. AnswerBlock(bs) = Len(bs) /\ bs # <<>> /\ bs[Len(bs)].kind = "text"
  BY DEF AnswerBlock, Last_
<1>2. Len(bs) \in DOMAIN bs /\ bs[Len(bs)] \in Blocks
  BY <1>1
<1> QED BY <1>1, <1>2, TextBlockIs

LEMMA AppendTextIs ==
  ASSUME NEW bs \in Seq(Blocks), NEW chunk \in Nat
  PROVE  OnlyTexts(bs, AppendText(bs, chunk))
<1> DEFINE at == AnswerBlock(bs)
           b == [bs[at] EXCEPT !.text = Append(@, chunk)]
<1>1. CASE at = 0
  <2>1. AppendText(bs, chunk) = Append(bs, TextBlock(NoId, <<chunk>>))
    BY <1>1 DEF AppendText
  <2>2. <<chunk>> \in Seq(Nat)
    OBVIOUS
  <2> QED BY <2>1, <2>2, TextAppended
<1>2. CASE at # 0
  <2>1. AppendText(bs, chunk) = [bs EXCEPT ![at] = b]
    BY <1>2 DEF AppendText
  <2>2. at \in DOMAIN bs /\ bs[at] \in TextBlocks /\ bs[at].kind = "text"
    BY <1>2, AnswerBlockIs
  <2>3. b \in TextBlocks /\ b.id = bs[at].id
    <3> HIDE DEF at
    <3>1. bs[at].text \in Seq(Nat) /\ bs[at].superseded \in Seq(Seq(Nat))
      BY <2>2, TextFields
    <3> DEFINE u == Append(bs[at].text, chunk)
    <3>2. u \in Seq(Nat) /\ b = [bs[at] EXCEPT !.text = u]
      BY <3>1
    <3> HIDE DEF u, b
    <3> QED BY <2>2, <3>1, <3>2, Retold
  <2> HIDE DEF b, at
  <2> QED BY <2>1, <2>2, <2>3, TextChanged
<1> QED BY <1>1, <1>2

LEMMA ReplaceTextIs ==
  ASSUME NEW bs \in Seq(Blocks), NEW text \in Seq(Nat)
  PROVE  OnlyTexts(bs, ReplaceText(bs, text))
<1> DEFINE at == AnswerBlock(bs)
           b == [bs[at] EXCEPT !.text = text,
                               !.superseded = IF bs[at].text \in {<<>>, text} THEN @
                                              ELSE Append(@, bs[at].text)]
<1>1. CASE at = 0
  <2>1. ReplaceText(bs, text) = Append(bs, TextBlock(NoId, text))
    BY <1>1 DEF ReplaceText
  <2> QED BY <2>1, TextAppended
<1>2. CASE at # 0
  <2>2. at \in DOMAIN bs /\ bs[at] \in TextBlocks /\ bs[at].kind = "text"
    BY <1>2, AnswerBlockIs
  <2>1. ReplaceText(bs, text) = [bs EXCEPT ![at] = b]
    BY <1>2, <2>2 DEF ReplaceText
  <2>3. b \in TextBlocks /\ b.id = bs[at].id
    <3> HIDE DEF at
    <3>1. bs[at].text \in Seq(Nat) /\ bs[at].superseded \in Seq(Seq(Nat))
      BY <2>2, TextFields
    <3> DEFINE v == IF bs[at].text \in {<<>>, text} THEN bs[at].superseded
                    ELSE Append(bs[at].superseded, bs[at].text)
    <3>2. v \in Seq(Seq(Nat))
      BY <3>1
    <3>3. b = [bs[at] EXCEPT !.text = text, !.superseded = v]
      BY Zenon
    <3> HIDE DEF v, b
    <3>4. bs[at] \in TextBlocks
      BY <2>2
    <3> DEFINE w == bs[at]
    <3>5. w \in TextBlocks /\ b = [w EXCEPT !.text = text, !.superseded = v]
      BY <3>3, <3>4
    <3> HIDE DEF w
    <3>6. b \in TextBlocks /\ b.id = w.id
      BY <3>2, <3>5, Superseded, ZenonT(30)
    <3> QED BY <3>6 DEF w
  <2> HIDE DEF b, at
  <2> QED BY <2>1, <2>2, <2>3, TextChanged
<1> QED BY <1>1, <1>2

LEMMA NarrateIs ==
  ASSUME NEW bs \in Seq(Blocks), NEW id \in Narrations, NEW text \in Seq(Nat)
  PROVE  OnlyTexts(bs, Narrate(bs, id, text))
<1> DEFINE I == {i \in 1 .. Len(bs) : bs[i].kind = "text" /\ bs[i].id = id}
           at == Min(I)
           b == [bs[at] EXCEPT !.text = text]
<1>0. SelectInSeq(bs, LAMBDA x : x.kind = "text" /\ x.id = id) = IF I # {} THEN Min(I) ELSE 0
  BY DEF SelectInSeq
<1>1. CASE I = {}
  <2>1. Narrate(bs, id, text) = Append(bs, TextBlock(id, text))
    BY <1>0, <1>1 DEF Narrate
  <2> QED BY <2>1, TextAppended
<1>2. CASE I # {}
  <2>1. at \in I
    <3> I \subseteq Nat
      OBVIOUS
    <3> HIDE DEF I
    <3> QED BY <1>2, MinIs
  <2>2. at \in DOMAIN bs /\ bs[at] \in TextBlocks /\ bs[at].kind = "text"
    BY <2>1, TextBlockIs
  <2>3. Narrate(bs, id, text) = [bs EXCEPT ![at] = b]
    <3>1. SelectInSeq(bs, LAMBDA x : x.kind = "text" /\ x.id = id) = at /\ at # 0
      BY <1>0, <1>2, <2>2
    <3> HIDE DEF at, I
    <3> QED BY <3>1 DEF Narrate
  <2>4. b \in TextBlocks /\ b.id = bs[at].id
    <3> HIDE DEF at
    <3>1. bs[at].superseded \in Seq(Seq(Nat)) /\ b = [bs[at] EXCEPT !.text = text]
      BY <2>2, TextFields
    <3> HIDE DEF b
    <3> QED BY <2>2, <3>1, Retold
  <2> HIDE DEF at, b
  <2> QED BY <2>2, <2>3, <2>4, TextChanged
<1> QED BY <1>1, <1>2

-----------------------------------------------------------------------------
(* A result goes to its call *)

LEMMA FirstIs ==
  ASSUME NEW bs, NEW I, I \subseteq 1 .. Len(bs), Len(bs) \in Nat, NEW at, at = (IF I # {} THEN Min(I) ELSE 0)
  PROVE  /\ at = 0 <=> I = {}
         /\ at # 0 => at \in I /\ \A j \in I : at <= j
         /\ at \in Nat
<1>1. I \subseteq Nat
  OBVIOUS
<1>2. I # {} => Min(I) \in I /\ \A j \in I : Min(I) <= j
  BY <1>1, MinIs
<1>3. 0 \notin I
  OBVIOUS
<1>4. CASE I = {}
  BY <1>4
<1>5. CASE I # {}
  <2>1. at = Min(I) /\ at \in I /\ at \in Nat /\ at # 0
    BY <1>1, <1>2, <1>3, <1>5
  <2> QED BY <1>2, <1>5, <2>1
<1> QED BY <1>4, <1>5

\* The first hit of a list of attempts.
LEMMA FirstTry ==
  ASSUME NEW k \in {1, 2}, NEW n \in {2, 4}, NEW ts \in [1 .. n -> Nat], ts \in Seq(Nat), Len(ts) = n,
         \A j \in 1 .. k - 1 : ts[j] = 0, ts[k] # 0
  PROVE  SelectInSeq(ts, LAMBDA i : i # 0) = k
<1> DEFINE I == {i \in 1 .. Len(ts) : ts[i] # 0}
<1>1. SelectInSeq(ts, LAMBDA i : i # 0) = IF I # {} THEN Min(I) ELSE 0
  BY DEF SelectInSeq
<1>2. k \in I /\ \A j \in I : k <= j
  OBVIOUS
<1>3. I \subseteq Nat
  OBVIOUS
<1> HIDE DEF I
<1>4. Min(I) \in I /\ \A j \in I : Min(I) <= j
  BY <1>2, <1>3, MinIs
<1>5. Min(I) = k
  <2> HIDE DEF Min
  <2>1. Min(I) \in Nat
    BY <1>3, <1>4
  <2>3. k \in Nat
    OBVIOUS
  <2>2. Min(I) <= k /\ k <= Min(I)
    BY <1>2, <1>4
  <2> QED BY <2>1, <2>2, <2>3
<1> QED BY <1>1, <1>2, <1>5

\* The block a result belongs to, and the one it is attached to.
Owns(bs, at, id) ==
  /\ at \in DOMAIN bs /\ bs[at].kind = "tool"
  /\ \/ id = bs[at].id
     \/ /\ id = NoId /\ ~bs[at].done
        /\ \A j \in DOMAIN bs : j < at /\ bs[j].kind = "tool" => bs[j].done
  /\ \A j \in DOMAIN bs : bs[j].kind = "tool" /\ bs[j].id = bs[at].id => j = at

Finished(bs, at, out) == [bs EXCEPT ![at].output = Append(@, out), ![at].done = TRUE]

LEMMA ToolFinished ==
  ASSUME NEW b \in ToolBlocks, NEW o \in Seq(Nat), NEW d, d = [b EXCEPT !.output = o, !.done = TRUE]
  PROVE  d \in Blocks /\ d.kind = "tool" /\ d.id = b.id /\ d.output = o /\ d.done = TRUE
<1>1. d \in ToolBlocks
  BY DEF ToolBlocks
<1>2. d.kind = "tool" /\ d.id = b.id /\ d.output = o /\ d.done = TRUE
  BY DEF ToolBlocks
<1> QED BY <1>1, <1>2 DEF Blocks

LEMMA AttachIs ==
  ASSUME NEW bs \in Seq(Blocks), NEW at, NEW id, Owns(bs, at, id), NEW out
  PROVE  AttachToolResult(bs, id, out) = Finished(bs, at, out)
<1> DEFINE I1 == {i \in 1 .. Len(bs) : bs[i].kind = "tool" /\ (bs[i].id = id /\ ~bs[i].done)}
           I2 == {i \in 1 .. Len(bs) : bs[i].kind = "tool" /\ bs[i].id = id}
           I3 == {i \in 1 .. Len(bs) : bs[i].kind = "tool" /\ ~bs[i].done}
           I4 == {i \in 1 .. Len(bs) : bs[i].kind = "tool" /\ bs[i].output = <<>>}
           f1 == IF I1 # {} THEN Min(I1) ELSE 0
           f2 == IF I2 # {} THEN Min(I2) ELSE 0
           f3 == IF I3 # {} THEN Min(I3) ELSE 0
           f4 == IF I4 # {} THEN Min(I4) ELSE 0
           tries == (IF id = NoId THEN <<>> ELSE <<f1, f2>>) \o <<f3, f4>>
           hit == SelectInSeq(tries, LAMBDA i : i # 0)
<1>1. AttachToolResult(bs, id, out) =
        IF hit = 0 THEN bs
        ELSE [bs EXCEPT ![tries[hit]].output = Append(@, out), ![tries[hit]].done = TRUE]
  <2>1. /\ First(bs, LAMBDA b : b.id = id /\ ~b.done) = f1
        /\ First(bs, LAMBDA b : b.id = id) = f2
        /\ First(bs, LAMBDA b : ~b.done) = f3
        /\ First(bs, LAMBDA b : b.output = <<>>) = f4
    BY DEF First, SelectInSeq
  <2> QED BY <2>1 DEF AttachToolResult, First, SelectInSeq
<1>2. Len(bs) \in Nat /\ DOMAIN bs = 1 .. Len(bs)
  OBVIOUS
<1>3. /\ f1 \in Nat /\ f2 \in Nat /\ f3 \in Nat /\ f4 \in Nat
      /\ f1 # 0 => f1 \in I1
      /\ f2 # 0 => f2 \in I2
      /\ (f2 = 0 <=> I2 = {})
      /\ f3 # 0 => f3 \in I3 /\ \A j \in I3 : f3 <= j
      /\ (f3 = 0 <=> I3 = {})
  <2>1. I1 \subseteq 1 .. Len(bs) /\ I2 \subseteq 1 .. Len(bs) /\ I3 \subseteq 1 .. Len(bs) /\ I4 \subseteq 1 .. Len(bs)
    OBVIOUS
  <2> HIDE DEF I1, I2, I3, I4
  <2>2. (f1 = 0 <=> I1 = {}) /\ (f1 # 0 => f1 \in I1 /\ \A j \in I1 : f1 <= j) /\ f1 \in Nat
    BY <1>2, <2>1, FirstIs
  <2>3. (f2 = 0 <=> I2 = {}) /\ (f2 # 0 => f2 \in I2 /\ \A j \in I2 : f2 <= j) /\ f2 \in Nat
    BY <1>2, <2>1, FirstIs
  <2>4. (f3 = 0 <=> I3 = {}) /\ (f3 # 0 => f3 \in I3 /\ \A j \in I3 : f3 <= j) /\ f3 \in Nat
    BY <1>2, <2>1, FirstIs
  <2>5. (f4 = 0 <=> I4 = {}) /\ (f4 # 0 => f4 \in I4 /\ \A j \in I4 : f4 <= j) /\ f4 \in Nat
    BY <1>2, <2>1, FirstIs
  <2> HIDE DEF f1, f2, f3, f4
  <2> QED BY <2>2, <2>3, <2>4, <2>5
<1>4. bs[at].id # NoId
  BY FoldAssumption DEF Owns, Blocks, TextBlocks, ToolBlocks, NoId
<1>5. CASE id = NoId
  <2>1. at \in I3 /\ \A j \in I3 : at <= j
    BY <1>2, <1>4, <1>5 DEF Owns
  <2>2. f3 = at /\ at # 0
    <3>1. I3 \subseteq Nat
      OBVIOUS
    <3> HIDE DEF I3, f3
    <3> QED BY <1>2, <1>3, <2>1, <3>1 DEF Owns
  <2> HIDE DEF f1, f2, f3, f4
  <2>3. tries = <<f3, f4>>
    BY <1>3, <1>5
  <2>4. hit = 1
    <3>1. tries \in [1 .. 2 -> Nat] /\ tries \in Seq(Nat) /\ Len(tries) = 2 /\ tries[1] # 0
      <4> DEFINE ts == <<f3, f4>>
      <4>1. ts \in Seq(Nat) /\ Len(ts) = 2 /\ ts[1] = f3 /\ f3 # 0
        BY <1>3, <2>2
      <4>2. ts \in [1 .. 2 -> Nat]
        BY <4>1
      <4> QED BY <2>3, <4>1, <4>2
    <3>2. \A j \in 1 .. 1 - 1 : tries[j] = 0
      OBVIOUS
    <3> HIDE DEF tries
    <3> QED BY <3>1, <3>2, FirstTry
  <2>5. tries[hit] = at
    BY <2>2, <2>3, <2>4
  <2> HIDE DEF tries, hit
  <2> QED BY <1>1, <2>4, <2>5 DEF Finished
<1>6. CASE id # NoId
  <2>1. at \in I2 /\ \A j \in I2 : j = at
    BY <1>2, <1>6 DEF Owns
  <2>2. I1 \subseteq I2
    OBVIOUS
  <2>3. f2 = at /\ at # 0 /\ f1 \in {0, at}
    <3> HIDE DEF I1, I2, f1, f2
    <3>1. at \in 1 .. Len(bs)
      BY DEF Owns
    <3> QED BY <1>2, <1>3, <2>1, <2>2, <3>1
  <2> HIDE DEF f1, f2, f3, f4
  <2>5. tries \in [1 .. 4 -> Nat] /\ tries \in Seq(Nat) /\ Len(tries) = 4 /\ tries[1] = f1 /\ tries[2] = f2
    <3> DEFINE t1 == <<f1, f2>>
               t2 == <<f3, f4>>
    <3>1. /\ t1 \in Seq(Nat) /\ Len(t1) = 2 /\ t1[1] = f1 /\ t1[2] = f2
          /\ t2 \in Seq(Nat) /\ Len(t2) = 2
      BY <1>3
    <3>2. tries = t1 \o t2
      BY <1>6
    <3> HIDE DEF t1, t2, tries
    <3>3. tries \in Seq(Nat) /\ Len(tries) = 4
      <4>1. t1 \o t2 \in Seq(Nat)
        BY <3>1
      <4>2. Len(t1 \o t2) = Len(t1) + Len(t2)
        <5>1. \A p, q \in Seq(Nat) : Len(p \o q) = Len(p) + Len(q)
          OBVIOUS
        <5> QED BY <3>1, <5>1
      <4> QED BY <3>1, <3>2, <4>1, <4>2
    <3>4. \A j \in 1 .. 2 : tries[j] = t1[j]
      <4>1. \A p, q \in Seq(Nat) : \A j \in 1 .. Len(p) : (p \o q)[j] = p[j]
        OBVIOUS
      <4> QED BY <3>1, <3>2, <4>1
    <3>5. tries[1] = f1 /\ tries[2] = f2
      BY <3>1, <3>4
    <3>6. tries \in [1 .. 4 -> Nat]
      <4>1. \A q \in Seq(Nat) : q \in [1 .. Len(q) -> Nat]
        OBVIOUS
      <4>2. tries \in [1 .. Len(tries) -> Nat]
        BY <3>3, <4>1
      <4> QED BY <3>3, <4>2
    <3> QED BY <3>3, <3>5, <3>6
  <2>6. hit # 0 /\ tries[hit] = at
    <3>1. CASE f1 # 0
      <4>1. \A j \in 1 .. 1 - 1 : tries[j] = 0
        OBVIOUS
      <4> HIDE DEF tries
      <4>2. hit = 1
        BY <2>5, <3>1, <4>1, FirstTry
      <4> QED BY <2>3, <2>5, <3>1, <4>2
    <3>2. CASE f1 = 0
      <4>1. \A j \in 1 .. 2 - 1 : tries[j] = 0
        BY <2>5, <3>2
      <4> HIDE DEF tries
      <4>2. hit = 2
        BY <2>3, <2>5, <4>1, FirstTry
      <4> QED BY <2>3, <2>5, <4>2
    <3> QED BY <3>1, <3>2
  <2> HIDE DEF tries, hit
  <2> QED BY <1>1, <2>6 DEF Finished
<1> QED BY <1>5, <1>6

\* cs is bs after the result has been attached.
IsFinished(bs, cs, at, out) ==
  /\ cs \in Seq(Blocks) /\ Len(cs) = Len(bs) /\ DOMAIN cs = DOMAIN bs
  /\ cs[at].kind = "tool" /\ cs[at].id = bs[at].id
  /\ cs[at].output = Append(bs[at].output, out) /\ cs[at].done = TRUE
  /\ \A i \in DOMAIN bs : i # at => cs[i] = bs[i]

LEMMA Attached ==
  ASSUME NEW bs \in Seq(Blocks), NEW at, NEW id, Owns(bs, at, id), NEW out \in Nat, NEW cs, cs = AttachToolResult(bs, id, out)
  PROVE  IsFinished(bs, cs, at, out)
<1> DEFINE w == bs[at]
           o == Append(w.output, out)
           b == [w EXCEPT !.output = o, !.done = TRUE]
<1>1. at \in DOMAIN bs /\ w \in ToolBlocks
  <2>1. at \in DOMAIN bs /\ w \in Blocks /\ w.kind = "tool"
    BY DEF Owns
  <2> QED BY <2>1 DEF Blocks, TextBlocks, ToolBlocks
<1>2. o \in Seq(Nat)
  <2>1. w.output \in Seq(Nat)
    BY <1>1 DEF ToolBlocks
  <2> HIDE DEF w
  <2> QED BY <2>1
<1>3. b \in Blocks /\ b.kind = "tool" /\ b.id = w.id /\ b.output = o /\ b.done = TRUE
  <2> HIDE DEF w, o
  <2> QED BY <1>1, <1>2, ToolFinished
<1>4. cs = [bs EXCEPT ![at] = b]
  <2>1. cs = Finished(bs, at, out)
    BY AttachIs
  <2>2. Finished(bs, at, out) = [bs EXCEPT ![at] = b]
    BY DEF Finished
  <2> QED BY <2>1, <2>2
<1> HIDE DEF b
<1>5. cs \in Seq(Blocks) /\ Len(cs) = Len(bs) /\ DOMAIN cs = DOMAIN bs /\ cs[at] = b
  BY <1>1, <1>3, <1>4
<1>6. \A i \in DOMAIN bs : i # at => cs[i] = bs[i]
  BY <1>4
<1> QED BY <1>3, <1>5, <1>6 DEF IsFinished

-----------------------------------------------------------------------------
(* The history *)

LEMMA MaxIs ==
  ASSUME NEW n \in Nat, NEW I, I \subseteq 1 .. n, I # {}
  PROVE  Max(I) \in I /\ \A j \in I : j <= Max(I)
<1> DEFINE T == {n - i : i \in I}
<1>1. T \subseteq Nat /\ T # {}
  <2>1. T \subseteq Nat
    OBVIOUS
  <2>2. PICK i \in I : TRUE
    OBVIOUS
  <2>3. n - i \in T
    BY <2>2
  <2> QED BY <2>1, <2>3
<1>2. Min(T) \in T /\ \A j \in T : Min(T) <= j
  <2> HIDE DEF T
  <2> QED BY <1>1, MinIs
<1>3. PICK x \in I : Min(T) = n - x
  BY <1>2
<1>4. \A y \in I : y <= x
  <2> TAKE y \in I
  <2>1. n - x <= n - y
    BY <1>2, <1>3
  <2>2. x \in Nat /\ y \in Nat
    OBVIOUS
  <2> HIDE DEF T
  <2> QED BY <2>1, <2>2
<1> QED BY <1>4 DEF Max

LEMMA WritingIs ==
  ASSUME NEW id, doc \in Seq(DocItems)
  PROVE  /\ Writing(id) = 0 \/ Writing(id) \in DOMAIN doc
         /\ Writing(id) # 0 => /\ doc[Writing(id)].role = "text"
                              /\ \A j \in DOMAIN doc : j > Writing(id) => doc[j].role = "toolResult"
<1> DEFINE I == {i \in 1 .. Len(doc) : doc[i].role # "toolResult"}
           at == IF I # {} THEN Max(I) ELSE 0
<1>1. SelectLastInSeq(doc, LAMBDA it : it.role # "toolResult") = at
  BY DEF SelectLastInSeq
<1>2. Writing(id) = IF at # 0 /\ doc[at].role = "text" /\ doc[at].id = id THEN at ELSE 0
  BY <1>1 DEF Writing
<1>3. Len(doc) \in Nat /\ DOMAIN doc = 1 .. Len(doc)
  OBVIOUS
<1>4. I # {} => Max(I) \in I /\ \A j \in I : j <= Max(I)
  <2>1. I \subseteq 1 .. Len(doc)
    OBVIOUS
  <2> HIDE DEF I
  <2> QED BY <1>3, <2>1, MaxIs
<1>5. CASE I = {}
  BY <1>2, <1>5
<1>6. CASE I # {}
  <2>1. at \in DOMAIN doc /\ \A j \in DOMAIN doc : j > at => doc[j].role = "toolResult"
    <3>1. at = Max(I) /\ at \in I /\ \A j \in I : j <= at
      BY <1>4, <1>6
    <3>2. at \in DOMAIN doc
      BY <1>3, <3>1
    <3>3. ASSUME NEW j \in DOMAIN doc, j > at PROVE doc[j].role = "toolResult"
      <4>1. j \notin I
        <5>1. at \in Nat /\ j \in Nat
          BY <1>3, <3>2
        <5> HIDE DEF I, at
        <5> QED BY <3>1, <3>3, <5>1
      <4> QED BY <1>3, <4>1
    <3> HIDE DEF at
    <3> QED BY <3>2, <3>3
  <2> HIDE DEF at
  <2> QED BY <1>2, <2>1
<1> QED BY <1>5, <1>6

LEMMA WrittenIs ==
  ASSUME NEW id, doc \in Seq(DocItems)
  PROVE  Written(id) \in Seq(Nat)
<1>1. \A i \in DOMAIN doc : doc[i] \in DocItems
  OBVIOUS
<1>2. \A i \in DOMAIN doc : doc[i].text \in Seq(Nat)
  BY <1>1 DEF DocItems
<1> QED BY <1>2, WritingIs DEF Written

LEMMA WriteTextIs ==
  ASSUME NEW id \in Narrations \cup {NoId}, NEW text \in Seq(Nat), doc \in Seq(DocItems), NEW d, d = WriteText(id, text)
  PROVE  d \in Seq(DocItems) /\ d # <<>> /\ d[Len(d)].role # "toolCall"
<1> DEFINE it == [role |-> "text", id |-> id, text |-> text, chunk |-> 0]
<1>1. CASE Writing(id) = 0
  <2>1. d = Append(doc, it)
    BY <1>1 DEF WriteText
  <2>2. it \in DocItems /\ it.role = "text"
    BY DEF DocItems, Ids
  <2> HIDE DEF it
  <2>3. d \in Seq(DocItems) /\ Len(d) = Len(doc) + 1 /\ d[Len(d)] = it
    BY <2>1, <2>2
  <2> QED BY <2>2, <2>3
<1>2. CASE Writing(id) # 0
  <2> DEFINE at == Writing(id)
             new == [doc[at] EXCEPT !.text = text]
  <2>1. at \in DOMAIN doc /\ doc[at].role = "text" /\ \A j \in DOMAIN doc : j > at => doc[j].role = "toolResult"
    BY <1>2, WritingIs
  <2>2. d = [doc EXCEPT ![at] = new]
    BY <1>2 DEF WriteText
  <2>3. doc[at] \in DocItems
    BY <2>1
  <2>4. new \in DocItems /\ new.role = "text"
    <3> HIDE DEF at
    <3> QED BY <2>1, <2>3 DEF DocItems
  <2> HIDE DEF at, new
  <2>5. d \in Seq(DocItems) /\ Len(d) = Len(doc) /\ DOMAIN d = DOMAIN doc
    BY <2>1, <2>2, <2>4
  <2>6. Len(doc) \in DOMAIN doc
    BY <2>1
  <2>7. d[Len(d)].role \in {"text", "toolResult"}
    <3>1. CASE at = Len(doc)
      BY <2>1, <2>2, <2>4, <2>5, <3>1
    <3>2. CASE at # Len(doc)
      <4>1. Len(doc) > at
        BY <2>1, <3>2
      <4> QED BY <2>1, <2>2, <2>5, <2>6, <3>2, <4>1
    <3> QED BY <3>1, <3>2
  <2>8. d # <<>>
    BY <2>1, <2>5
  <2> QED BY <2>5, <2>7, <2>8
<1> QED BY <1>1, <1>2

-----------------------------------------------------------------------------
(* The steps *)

\* What a step does to the bubble: its blocks, phase, card and the card's place.
Becomes(bs, phase, card, after) ==
  bubble' = [bubble EXCEPT !.blocks = bs, !.phase = phase, !.card = card, !.afterBlock = after]

BubbleType == [blocks : Seq(Blocks), phase : {"thinking", "streaming", "tools", "done"},
               card : {"none", "pending", "approved", "stopped"}, afterBlock : Nat]

LEMMA BecomesIs ==
  ASSUME bubble \in BubbleType, NEW bs \in Seq(Blocks),
         NEW phase \in {"thinking", "streaming", "tools", "done"},
         NEW card \in {"none", "pending", "approved", "stopped"}, NEW after \in Nat,
         Becomes(bs, phase, card, after)
  PROVE  /\ bubble' \in BubbleType
         /\ bubble'.blocks = bs /\ bubble'.phase = phase /\ bubble'.card = card /\ bubble'.afterBlock = after
<1>1. /\ bubble'.blocks = bs /\ bubble'.phase = phase /\ bubble'.card = card /\ bubble'.afterBlock = after
  BY DEF Becomes, BubbleType
<1>2. [bubble EXCEPT !.blocks = bs, !.phase = phase, !.card = card, !.afterBlock = after] \in BubbleType
  BY DEF BubbleType
<1> QED BY <1>1, <1>2 DEF Becomes

\* Texts are written: no tool block and no card is touched.
LEMMA TextStep ==
  ASSUME FoldInv, NEW cs, OnlyTexts(bubble.blocks, cs), NEW phase \in {"thinking", "streaming", "tools", "done"},
         Becomes(cs, phase, bubble.card, bubble.afterBlock),
         doc' \in Seq(DocItems), doc' # <<>>, doc'[Len(doc')].role # "toolCall", wire' \in Nat,
         UNCHANGED <<calls, results, gated>>
  PROVE  FoldInv'
<1> DEFINE bs == bubble.blocks
<1>1. bubble \in BubbleType
  BY DEF FoldInv, FoldTypes, BubbleType
<1>2. bs \in Seq(Blocks) /\ bubble.card \in {"none", "pending", "approved", "stopped"} /\ bubble.afterBlock \in Nat
  BY <1>1 DEF BubbleType
<1>3. bubble' \in BubbleType /\ bubble'.blocks = cs /\ bubble'.card = bubble.card /\ bubble'.afterBlock = bubble.afterBlock
  BY <1>1, <1>2, BecomesIs DEF OnlyTexts
<1> HIDE DEF bs
<1>4. OnlyTexts(bs, cs) /\ Len(bs) \in Nat /\ Len(cs) \in Nat /\ DOMAIN bs = 1 .. Len(bs) /\ DOMAIN cs = 1 .. Len(cs)
  BY <1>2 DEF bs, OnlyTexts
<1>5. ToolAt' = ToolAt /\ \A i \in ToolAt : i \in DOMAIN bs /\ cs[i] = bs[i]
  <2>1. ToolAt = {i \in DOMAIN bs : bs[i].kind = "tool"} /\ ToolAt' = {i \in DOMAIN cs : cs[i].kind = "tool"}
    BY <1>3 DEF ToolAt, bs
  <2>2. ASSUME NEW i \in DOMAIN cs, cs[i].kind = "tool" PROVE i \in DOMAIN bs /\ bs[i].kind = "tool"
    BY <1>4, <2>2 DEF OnlyTexts
  <2>3. ASSUME NEW i \in DOMAIN bs, bs[i].kind = "tool" PROVE i \in DOMAIN cs /\ cs[i].kind = "tool" /\ cs[i] = bs[i]
    BY <1>4, <2>3 DEF OnlyTexts
  <2> QED BY <2>1, <2>2, <2>3
<1>6. FoldTypes'
  BY <1>3 DEF FoldInv, FoldTypes, BubbleType
<1>7. MadeOnce' /\ UncalledHasNone'
  BY DEF FoldInv, MadeOnce, UncalledHasNone
<1>8. OutputsBelong'
  BY <1>3, <1>5 DEF FoldInv, OutputsBelong, bs
<1>9. DoneHasResults'
  BY <1>3, <1>5 DEF FoldInv, DoneHasResults, bs
<1>10. CardPoints'
  BY <1>3, <1>4 DEF FoldInv, CardPoints, OnlyTexts, bs
<1>11. NewestIsTheCall'
  BY DEF NewestIsTheCall
<1> QED BY <1>6, <1>7, <1>8, <1>9, <1>10, <1>11 DEF FoldInv

LEMMA DeltaInv ==
  ASSUME FoldInv, Delta
  PROVE  FoldInv'
<1>1. bubble \in BubbleType /\ doc \in Seq(DocItems) /\ wire + 1 \in Nat
  BY DEF FoldInv, FoldTypes, BubbleType
<1> DEFINE cs == AppendText(bubble.blocks, wire + 1)
<1>2. OnlyTexts(bubble.blocks, cs)
  BY <1>1, AppendTextIs DEF BubbleType
<1>3. Becomes(cs, "streaming", bubble.card, bubble.afterBlock)
  BY <1>1 DEF Delta, Send, ApplyAgentEvent, Becomes, BubbleType
<1>4. doc' \in Seq(DocItems) /\ doc' # <<>> /\ doc'[Len(doc')].role # "toolCall"
  <2>1. Append(Written(NoId), wire + 1) \in Seq(Nat)
    BY <1>1, WrittenIs
  <2>2. doc' = WriteText(NoId, Append(Written(NoId), wire + 1)) /\ NoId \in Narrations \cup {NoId}
    BY DEF Delta
  <2> QED BY <1>1, <2>1, <2>2, WriteTextIs
<1>5. wire' \in Nat /\ UNCHANGED <<calls, results, gated>>
  BY <1>1 DEF Delta, Send
<1> HIDE DEF cs
<1> QED BY <1>2, <1>3, <1>4, <1>5, TextStep

LEMMA RewriteInv ==
  ASSUME FoldInv, Rewrite
  PROVE  FoldInv'
<1>1. bubble \in BubbleType /\ doc \in Seq(DocItems) /\ wire + 1 \in Nat
  BY DEF FoldInv, FoldTypes, BubbleType
<1>2. PICK text \in {Written(NoId), <<wire + 1>>} :
          /\ Send([type |-> "text_replace", text |-> text])
          /\ doc' = WriteText(NoId, text)
  BY DEF Rewrite
<1>3. text \in Seq(Nat)
  <2>1. Written(NoId) \in Seq(Nat) /\ <<wire + 1>> \in Seq(Nat)
    BY <1>1, WrittenIs
  <2> QED BY <2>1
<1> DEFINE cs == ReplaceText(bubble.blocks, text)
<1>4. OnlyTexts(bubble.blocks, cs)
  BY <1>1, <1>3, ReplaceTextIs DEF BubbleType
<1>5. Becomes(cs, "streaming", bubble.card, bubble.afterBlock)
  BY <1>1, <1>2 DEF Send, ApplyAgentEvent, Becomes, BubbleType
<1>6. doc' \in Seq(DocItems) /\ doc' # <<>> /\ doc'[Len(doc')].role # "toolCall"
  <2>1. NoId \in Narrations \cup {NoId}
    OBVIOUS
  <2> QED BY <1>1, <1>2, <1>3, <2>1, WriteTextIs
<1>7. wire' \in Nat /\ UNCHANGED <<calls, results, gated>>
  BY <1>1, <1>2 DEF Rewrite, Send
<1> HIDE DEF cs
<1> QED BY <1>4, <1>5, <1>6, <1>7, TextStep

LEMMA NarrationInv ==
  ASSUME FoldInv, Narration
  PROVE  FoldInv'
<1>1. bubble \in BubbleType /\ doc \in Seq(DocItems) /\ wire + 1 \in Nat
  BY DEF FoldInv, FoldTypes, BubbleType
<1>2. PICK n \in Narrations :
          /\ Send([type |-> "narration", id |-> n, text |-> Append(Written(n), wire + 1)])
          /\ doc' = WriteText(n, Append(Written(n), wire + 1))
  BY DEF Narration
<1> DEFINE text == Append(Written(n), wire + 1)
           cs == Narrate(bubble.blocks, n, text)
<1>3. text \in Seq(Nat)
  BY <1>1, WrittenIs
<1> HIDE DEF text
<1>4. OnlyTexts(bubble.blocks, cs)
  BY <1>1, <1>3, NarrateIs DEF BubbleType
<1>5. Becomes(cs, bubble.phase, bubble.card, bubble.afterBlock)
  BY <1>1, <1>2 DEF Send, ApplyAgentEvent, Becomes, BubbleType, text
<1>6. doc' \in Seq(DocItems) /\ doc' # <<>> /\ doc'[Len(doc')].role # "toolCall"
  <2>1. n \in Narrations \cup {NoId} /\ doc' = WriteText(n, text)
    BY <1>2 DEF text
  <2> QED BY <1>1, <1>3, <2>1, WriteTextIs
<1>7. wire' \in Nat /\ UNCHANGED <<calls, results, gated>>
  BY <1>1, <1>2 DEF Narration, Send
<1>8. bubble.phase \in {"thinking", "streaming", "tools", "done"}
  BY <1>1 DEF BubbleType
<1> HIDE DEF cs
<1> QED BY <1>4, <1>5, <1>6, <1>7, <1>8, TextStep

\* The card changes, and the blocks do not.
LEMMA CardStep ==
  ASSUME FoldInv, NEW phase \in {"thinking", "streaming", "tools", "done"},
         NEW card \in {"none", "pending", "approved", "stopped"}, NEW after \in Nat,
         Becomes(bubble.blocks, phase, card, after), gated' \in Ids,
         CardPoints', wire' \in Nat, UNCHANGED <<doc, calls, results>>
  PROVE  FoldInv'
<1>1. bubble \in BubbleType /\ bubble.blocks \in Seq(Blocks)
  BY DEF FoldInv, FoldTypes, BubbleType
<1>2. bubble' \in BubbleType /\ bubble'.blocks = bubble.blocks
  BY <1>1, BecomesIs
<1>3. FoldTypes'
  BY <1>2 DEF FoldInv, FoldTypes, BubbleType
<1>4. MadeOnce' /\ UncalledHasNone'
  BY DEF FoldInv, MadeOnce, UncalledHasNone
<1>5. ToolAt' = ToolAt
  BY <1>2 DEF ToolAt
<1>6. OutputsBelong' /\ DoneHasResults'
  BY <1>2, <1>5 DEF FoldInv, OutputsBelong, DoneHasResults
<1>7. NewestIsTheCall'
  BY <1>2 DEF FoldInv, NewestIsTheCall
<1> QED BY <1>3, <1>4, <1>6, <1>7 DEF FoldInv

LEMMA CallInv ==
  ASSUME FoldInv, Call
  PROVE  FoldInv'
<1>1. bubble \in BubbleType /\ doc \in Seq(DocItems) /\ wire + 1 \in Nat /\ calls \in Seq(Calls) /\ results \in [Calls -> Seq(Nat)]
  BY DEF FoldInv, FoldTypes, BubbleType
<1>2. PICK c \in Calls :
          /\ \A i \in DOMAIN calls : calls[i] # c
          /\ Send([type |-> "tool_call", id |-> c])
          /\ calls' = Append(calls, c)
          /\ doc' = Append(doc, [role |-> "toolCall", id |-> c, text |-> <<>>, chunk |-> 0])
  BY DEF Call
<1> DEFINE bs == bubble.blocks
           new == ToolBlock(c)
           cs == Append(bs, new)
           it == [role |-> "toolCall", id |-> c, text |-> <<>>, chunk |-> 0]
           n == Len(bs) + 1
<1>3. new \in Blocks /\ new.kind = "tool" /\ new.id = c /\ new.output = <<>> /\ new.done = FALSE
  BY DEF ToolBlock, Blocks, ToolBlocks
<1>4. it \in DocItems /\ it.role = "toolCall"
  BY DEF DocItems, Ids
<1>5. Becomes(cs, "tools", bubble.card, bubble.afterBlock)
  BY <1>1, <1>2 DEF Send, ApplyAgentEvent, Becomes, BubbleType
<1>6. bs \in Seq(Blocks) /\ bubble.card \in {"none", "pending", "approved", "stopped"} /\ bubble.afterBlock \in Nat
  BY <1>1 DEF BubbleType
<1> HIDE DEF new, it
<1>7. /\ cs \in Seq(Blocks) /\ Len(cs) = n /\ n \in Nat \ {0} /\ cs[n] = new
      /\ DOMAIN bs = 1 .. Len(bs) /\ DOMAIN cs = 1 .. n /\ Len(bs) \in Nat
      /\ \A i \in DOMAIN bs : cs[i] = bs[i]
  BY <1>3, <1>6
<1> HIDE DEF cs
<1>8. bubble' \in BubbleType /\ bubble'.blocks = cs /\ bubble'.card = bubble.card /\ bubble'.afterBlock = bubble.afterBlock
  BY <1>1, <1>5, <1>6, <1>7, BecomesIs
<1>9. UNCHANGED <<results, gated>> /\ wire' = wire + 1
  BY <1>2 DEF Call, Send
<1>10. /\ calls' \in Seq(Calls) /\ Len(calls') = Len(calls) + 1 /\ calls'[Len(calls) + 1] = c
       /\ \A i \in DOMAIN calls : calls'[i] = calls[i]
       /\ DOMAIN calls = 1 .. Len(calls) /\ DOMAIN calls' = 1 .. (Len(calls) + 1) /\ Len(calls) \in Nat
  BY <1>1, <1>2
<1>11. doc' \in Seq(DocItems) /\ doc' # <<>> /\ doc'[Len(doc')].role = "toolCall"
  <2>1. doc' = Append(doc, it)
    BY <1>2 DEF it
  <2>2. doc' \in Seq(DocItems) /\ Len(doc') = Len(doc) + 1 /\ doc'[Len(doc')] = it
    BY <1>1, <1>4, <2>1
  <2> QED BY <1>1, <1>4, <2>2
<1> USE <1>7, <1>10
<1>12. FoldTypes'
  BY <1>1, <1>8, <1>9, <1>11 DEF FoldInv, FoldTypes, BubbleType
<1>13. MadeOnce'
  <2> SUFFICES ASSUME NEW i \in DOMAIN calls', NEW j \in DOMAIN calls', calls'[i] = calls'[j] PROVE i = j
    BY DEF MadeOnce
  <2>1. \A k \in DOMAIN calls' : k \in DOMAIN calls \/ k = Len(calls) + 1
    OBVIOUS
  <2> QED BY <1>2, <2>1 DEF FoldInv, MadeOnce
<1>14. Range(calls') = Range(calls) \cup {c} /\ c \notin Range(calls)
  <2>1. \A k \in DOMAIN calls' : k \in DOMAIN calls \/ k = Len(calls) + 1
    OBVIOUS
  <2>2. DOMAIN calls \subseteq DOMAIN calls' /\ Len(calls) + 1 \in DOMAIN calls'
    OBVIOUS
  <2> QED BY <1>2, <2>1, <2>2 DEF Range
<1>15. UncalledHasNone'
  BY <1>9, <1>14 DEF FoldInv, UncalledHasNone
<1>16. ToolAt' = ToolAt \cup {n} /\ n \notin ToolAt /\ \A i \in ToolAt : i \in DOMAIN bs /\ i < n
  <2>1. ToolAt = {i \in DOMAIN bs : bs[i].kind = "tool"} /\ ToolAt' = {i \in DOMAIN cs : cs[i].kind = "tool"}
    BY <1>8 DEF ToolAt
  <2>2. \A i \in DOMAIN cs : i \in DOMAIN bs \/ i = n
    OBVIOUS
  <2>3. n \notin DOMAIN bs /\ n \in DOMAIN cs /\ DOMAIN bs \subseteq DOMAIN cs
    OBVIOUS
  <2>4. \A i \in DOMAIN bs : i < n
    OBVIOUS
  <2> HIDE DEF bs, n
  <2> QED BY <1>3, <2>1, <2>2, <2>3, <2>4
<1>17. OutputsBelong'
  <2>1. \A i \in ToolAt : cs[i] = bs[i] /\ bs[i].id \in Range(calls)
    BY <1>16 DEF FoldInv, OutputsBelong
  <2>2. {cs[i].id : i \in ToolAt'} = Range(calls')
    <3>1. {bs[i].id : i \in ToolAt} = Range(calls)
      BY DEF FoldInv, OutputsBelong
    <3> HIDE DEF bs, n
    <3> QED BY <1>3, <1>14, <1>16, <2>1, <3>1
  <2>3. ASSUME NEW i \in ToolAt', NEW j \in ToolAt', i < j
        PROVE  \E k, l \in DOMAIN calls' : k < l /\ calls'[k] = cs[i].id /\ calls'[l] = cs[j].id
    <3>1. i \in ToolAt
      <4>1. \A q \in ToolAt \cup {n} : ~(n < q)
        BY <1>16
      <4>2. i # n
        BY <1>16, <2>3, <4>1
      <4> HIDE DEF n
      <4> QED BY <1>16, <4>2
    <3>2. CASE j \in ToolAt
      <4>1. PICK k, l \in DOMAIN calls : k < l /\ calls[k] = bs[i].id /\ calls[l] = bs[j].id
        BY <2>3, <3>1, <3>2 DEF FoldInv, OutputsBelong
      <4>2. k \in DOMAIN calls' /\ l \in DOMAIN calls'
        OBVIOUS
      <4> QED BY <2>1, <3>1, <3>2, <4>1, <4>2
    <3>3. CASE j = n
      <4>1. PICK k \in DOMAIN calls : calls[k] = bs[i].id
        BY <2>1, <3>1 DEF Range
      <4>2. k \in DOMAIN calls' /\ Len(calls) + 1 \in DOMAIN calls' /\ k < Len(calls) + 1
        OBVIOUS
      <4>3. calls'[k] = cs[i].id /\ calls'[Len(calls) + 1] = cs[j].id
        BY <1>3, <2>1, <3>1, <3>3, <4>1
      <4> QED BY <4>2, <4>3
    <3> QED BY <1>16, <3>2, <3>3
  <2>4. ASSUME NEW i \in ToolAt' PROVE cs[i].output = results'[cs[i].id]
    <3>1. results[c] = <<>>
      BY <1>14 DEF FoldInv, UncalledHasNone
    <3> QED BY <1>3, <1>9, <1>16, <2>1, <3>1 DEF FoldInv, OutputsBelong
  <2> HIDE DEF bs, n
  <2> QED BY <1>8, <2>2, <2>3, <2>4 DEF OutputsBelong
<1>18. DoneHasResults'
  <2>1. results[c] = <<>>
    BY <1>14 DEF FoldInv, UncalledHasNone
  <2> QED BY <1>3, <1>8, <1>9, <1>16, <2>1 DEF FoldInv, DoneHasResults
<1>19. CardPoints'
  BY <1>8, <1>9 DEF FoldInv, CardPoints
<1>20. NewestIsTheCall'
  <2>1. cs # <<>> /\ Last_(cs) = new
    BY DEF Last_
  <2>2. calls' # <<>> /\ calls'[Len(calls')] = c
    OBVIOUS
  <2> QED BY <1>3, <1>8, <1>11, <2>1, <2>2 DEF NewestIsTheCall
<1> QED BY <1>12, <1>13, <1>15, <1>17, <1>18, <1>19, <1>20 DEF FoldInv

\* The result of a call belongs to the block of that call.
LEMMA ResultOwns ==
  ASSUME FoldInv, NEW k \in DOMAIN calls, NEW named \in BOOLEAN,
         ~named => results[calls[k]] = <<>> /\ \A j \in 1 .. k - 1 : results[calls[j]] # <<>>,
         NEW id, id = IF named THEN calls[k] ELSE NoId
  PROVE  \E at \in ToolAt : /\ bubble.blocks[at].id = calls[k] /\ Owns(bubble.blocks, at, id)
                            /\ \A j \in ToolAt : bubble.blocks[j].id = calls[k] => j = at
<1>1. bubble \in BubbleType /\ calls \in Seq(Calls) /\ results \in [Calls -> Seq(Nat)]
  BY DEF FoldInv, FoldTypes, BubbleType
<1> DEFINE c == calls[k]
           bs == bubble.blocks
<1>2. bs \in Seq(Blocks)
  BY <1>1 DEF BubbleType
<1>3. PICK at \in ToolAt : bs[at].id = c
  <2>1. c \in Range(calls)
    BY DEF Range
  <2> QED BY <2>1 DEF FoldInv, OutputsBelong
<1>4. at \in DOMAIN bs /\ bs[at].kind = "tool" /\ at \in Nat
  BY <1>2 DEF ToolAt
<1>5. \A j \in ToolAt : bs[j].id = c => j = at
  <2> SUFFICES ASSUME NEW j \in ToolAt, bs[j].id = c, j # at PROVE FALSE
    OBVIOUS
  <2>1. j < at \/ at < j
    BY <1>2, <1>4 DEF ToolAt
  <2>2. PICK p, q \in DOMAIN calls : p < q /\ calls[p] = c /\ calls[q] = c
    BY <1>3, <2>1 DEF FoldInv, OutputsBelong
  <2>3. p = q
    BY <2>2 DEF FoldInv, MadeOnce
  <2> QED BY <1>1, <2>2, <2>3
<1>6. Owns(bs, at, id)
  <2>1. \/ id = bs[at].id
        \/ /\ id = NoId /\ ~bs[at].done
           /\ \A j \in DOMAIN bs : j < at /\ bs[j].kind = "tool" => bs[j].done
    <3>1. CASE named
      <4>1. id = c
        BY <3>1, Zenon
      <4> HIDE DEF bs, c
      <4> QED BY <1>3, <4>1
    <3>2. CASE ~named
      <4>1. ~bs[at].done
        BY <1>3, <3>2 DEF FoldInv, DoneHasResults
      <4>2. ASSUME NEW j \in DOMAIN bs, j < at, bs[j].kind = "tool" PROVE bs[j].done
        <5>1. j \in ToolAt
          BY <4>2 DEF ToolAt
        <5>2. PICK p, q \in DOMAIN calls : p < q /\ calls[p] = bs[j].id /\ calls[q] = c
          BY <1>3, <4>2, <5>1 DEF FoldInv, OutputsBelong
        <5>3. q = k
          BY <5>2 DEF FoldInv, MadeOnce
        <5>4. p \in 1 .. k - 1
          BY <1>1, <5>2, <5>3
        <5>5. results[bs[j].id] # <<>>
          BY <3>2, <5>2, <5>4
        <5> QED BY <5>1, <5>5 DEF FoldInv, DoneHasResults
      <4> QED BY <3>2, <4>1, <4>2
    <3> QED BY <3>1, <3>2
  <2>2. \A j \in DOMAIN bs : bs[j].kind = "tool" /\ bs[j].id = bs[at].id => j = at
    BY <1>3, <1>5 DEF ToolAt
  <2> HIDE DEF bs
  <2> QED BY <1>4, <2>1, <2>2 DEF Owns
<1> QED BY <1>3, <1>5, <1>6

LEMMA ResultInv ==
  ASSUME FoldInv, Result
  PROVE  FoldInv'
<1>1. bubble \in BubbleType /\ doc \in Seq(DocItems) /\ wire + 1 \in Nat /\ calls \in Seq(Calls) /\ results \in [Calls -> Seq(Nat)]
  BY DEF FoldInv, FoldTypes, BubbleType
<1>2. PICK k \in DOMAIN calls, named \in BOOLEAN :
          LET c == calls[k]
              id == IF named THEN c ELSE NoId
          IN  /\ ~named => results[c] = <<>> /\ \A j \in 1 .. k - 1 : results[calls[j]] # <<>>
              /\ Send([type |-> "tool_result", id |-> id, chunk |-> wire + 1])
              /\ results' = [results EXCEPT ![c] = Append(@, wire + 1)]
              /\ doc' = Append(doc, [role |-> "toolResult", id |-> id, text |-> <<>>, chunk |-> wire + 1])
  BY DEF Result
<1> DEFINE c == calls[k]
           id == IF named THEN c ELSE NoId
           bs == bubble.blocks
           out == wire + 1
           cs == AttachToolResult(bs, id, out)
           it == [role |-> "toolResult", id |-> id, text |-> <<>>, chunk |-> out]
<1>3. /\ ~named => results[c] = <<>> /\ \A j \in 1 .. k - 1 : results[calls[j]] # <<>>
      /\ Send([type |-> "tool_result", id |-> id, chunk |-> out])
      /\ results' = [results EXCEPT ![c] = Append(@, out)]
      /\ doc' = Append(doc, it)
  BY <1>2
<1>4. c \in Calls /\ id \in Ids /\ it \in DocItems /\ it.role = "toolResult"
  BY <1>1 DEF Ids, DocItems
<1>5. bs \in Seq(Blocks) /\ bubble.card \in {"none", "pending", "approved", "stopped"} /\ bubble.afterBlock \in Nat
  BY <1>1 DEF BubbleType
<1>6. PICK at \in ToolAt : bs[at].id = c /\ Owns(bs, at, id) /\ \A j \in ToolAt : bs[j].id = c => j = at
  <2>1. PICK i : i = id
    OBVIOUS
  <2>2. \E at \in ToolAt : bs[at].id = c /\ Owns(bs, at, i) /\ \A j \in ToolAt : bs[j].id = c => j = at
    BY <1>3, <2>1, ResultOwns
  <2> QED BY <2>1, <2>2
<1>7. at \in DOMAIN bs /\ bs[at].kind = "tool" /\ at \in Nat
  BY <1>5 DEF ToolAt
<1>8. \A j \in ToolAt : bs[j].id = c => j = at
  BY <1>6
<1>9. Owns(bs, at, id)
  BY <1>6
<1>11. Becomes(cs, "tools", bubble.card, bubble.afterBlock)
  BY <1>1, <1>3 DEF Send, ApplyAgentEvent, Becomes, BubbleType
<1>13. /\ cs \in Seq(Blocks) /\ Len(cs) = Len(bs) /\ DOMAIN cs = DOMAIN bs
       /\ cs[at].kind = "tool" /\ cs[at].id = c
       /\ cs[at].output = Append(bs[at].output, out) /\ cs[at].done = TRUE
       /\ \A i \in DOMAIN bs : i # at => cs[i] = bs[i]
  <2>1. cs = AttachToolResult(bs, id, out) /\ bs \in Seq(Blocks) /\ out \in Nat
    BY <1>1, <1>5
  <2> HIDE DEF bs, out, id, cs, c
  <2>2. IsFinished(bs, cs, at, out)
    BY <1>9, <2>1, Attached
  <2> QED BY <1>6, <2>2 DEF IsFinished
<1> HIDE DEF cs
<1>15. bubble' \in BubbleType /\ bubble'.blocks = cs /\ bubble'.card = bubble.card /\ bubble'.afterBlock = bubble.afterBlock
  BY <1>1, <1>5, <1>11, <1>13, BecomesIs, SMTT(30)
<1>16. /\ results' \in [Calls -> Seq(Nat)] /\ results'[c] = Append(results[c], out) /\ results'[c] # <<>>
       /\ \A d \in Calls : d # c => results'[d] = results[d]
  <2> HIDE DEF c
  <2>0. results[c] \in Seq(Nat) /\ out \in Nat
    BY <1>1, <1>4
  <2>1. Append(results[c], out) \in Seq(Nat) /\ Append(results[c], out) # <<>>
    <3> HIDE DEF out
    <3> QED BY <2>0
  <2> QED BY <1>1, <1>3, <1>4, <2>1
<1>17. doc' \in Seq(DocItems) /\ doc' # <<>> /\ doc'[Len(doc')].role = "toolResult"
  <2> HIDE DEF it
  <2>1. doc' \in Seq(DocItems) /\ Len(doc') = Len(doc) + 1 /\ doc'[Len(doc')] = it
    BY <1>1, <1>3, <1>4
  <2> QED BY <1>1, <1>4, <2>1
<1>18. UNCHANGED <<calls, gated>> /\ wire' = wire + 1
  BY <1>3 DEF Result, Send
<1> HIDE DEF out, it, id
<1>19. FoldTypes'
  BY <1>1, <1>15, <1>16, <1>17, <1>18 DEF FoldInv, FoldTypes, BubbleType
<1>20. MadeOnce'
  BY <1>18 DEF FoldInv, MadeOnce
<1>21. UncalledHasNone'
  <2>1. c \in Range(calls)
    BY DEF Range
  <2> HIDE DEF c
  <2> QED BY <1>16, <1>18, <2>1 DEF FoldInv, UncalledHasNone
<1>22. /\ ToolAt' = ToolAt
       /\ \A i \in ToolAt : /\ i \in DOMAIN bs /\ cs[i].id = bs[i].id /\ bs[i].id \in Calls
                            /\ i # at => cs[i] = bs[i] /\ bs[i].id # c
  <2>1. ToolAt = {i \in DOMAIN bs : bs[i].kind = "tool"} /\ ToolAt' = {i \in DOMAIN cs : cs[i].kind = "tool"}
    BY <1>15 DEF ToolAt
  <2>2. \A i \in DOMAIN bs : cs[i].kind = bs[i].kind
    BY <1>7, <1>13
  <2>3. \A i \in ToolAt : bs[i].id \in Calls
    <3>1. \A x \in Range(calls) : x \in Calls
      BY <1>1 DEF Range
    <3> QED BY <3>1 DEF FoldInv, OutputsBelong
  <2> HIDE DEF bs, c
  <2> QED BY <1>6, <1>8, <1>13, <2>1, <2>2, <2>3
<1>23. OutputsBelong'
  <2>1. {cs[i].id : i \in ToolAt'} = Range(calls')
    <3>1. {bs[i].id : i \in ToolAt} = Range(calls)
      BY DEF FoldInv, OutputsBelong
    <3> HIDE DEF bs, c
    <3> QED BY <1>18, <1>22, <3>1
  <2>2. \A i, j \in ToolAt' : i < j =>
          \E p, q \in DOMAIN calls' : p < q /\ calls'[p] = cs[i].id /\ calls'[q] = cs[j].id
    <3>1. \A i, j \in ToolAt : i < j =>
            \E p, q \in DOMAIN calls : p < q /\ calls[p] = bs[i].id /\ calls[q] = bs[j].id
      BY DEF FoldInv, OutputsBelong
    <3> HIDE DEF bs, c
    <3> QED BY <1>18, <1>22, <3>1
  <2>3. \A i \in ToolAt' : cs[i].output = results'[cs[i].id]
    <3>1. \A i \in ToolAt : bs[i].output = results[bs[i].id]
      BY DEF FoldInv, OutputsBelong
    <3> HIDE DEF bs, c
    <3>2. cs[at].output = results'[cs[at].id]
      BY <1>6, <1>13, <1>16, <3>1
    <3>3. \A i \in ToolAt : i # at => cs[i].output = results'[cs[i].id]
      BY <1>16, <1>22, <3>1
    <3> QED BY <1>22, <3>2, <3>3
  <2> QED BY <1>15, <2>1, <2>2, <2>3 DEF OutputsBelong
<1>24. DoneHasResults'
  <2>1. \A i \in ToolAt' : cs[i].done <=> results'[cs[i].id] # <<>>
    <3>1. \A i \in ToolAt : bs[i].done <=> results[bs[i].id] # <<>>
      BY DEF FoldInv, DoneHasResults
    <3> HIDE DEF bs, c
    <3>2. cs[at].done <=> results'[cs[at].id] # <<>>
      BY <1>13, <1>16
    <3>3. \A i \in ToolAt : i # at => (cs[i].done <=> results'[cs[i].id] # <<>>)
      BY <1>16, <1>22, <3>1, SMTT(30)
    <3> QED BY <1>22, <3>2, <3>3
  <2> QED BY <1>15, <2>1 DEF DoneHasResults
<1>25. CardPoints'
  <2>1. \A i \in DOMAIN bs : cs[i].kind = bs[i].kind /\ cs[i].id = bs[i].id
    <3> HIDE DEF bs, c
    <3> QED BY <1>6, <1>7, <1>13
  <2> QED BY <1>13, <1>15, <1>18, <2>1 DEF FoldInv, CardPoints
<1>26. NewestIsTheCall'
  BY <1>17 DEF NewestIsTheCall
<1> QED BY <1>19, <1>20, <1>21, <1>23, <1>24, <1>25, <1>26 DEF FoldInv

LEMMA HoldInv ==
  ASSUME FoldInv, Hold
  PROVE  FoldInv'
<1>1. bubble \in BubbleType /\ calls \in Seq(Calls) /\ doc \in Seq(DocItems) /\ wire \in Nat
  BY DEF FoldInv, FoldTypes, BubbleType
<1> DEFINE n == Len(bubble.blocks)
<1>2. Becomes(bubble.blocks, "tools", "pending", n)
  BY <1>1 DEF Hold, Send, ApplyAgentEvent, Becomes, BubbleType
<1>3. bubble.blocks \in Seq(Blocks) /\ n \in Nat
  BY <1>1 DEF BubbleType
<1>4. gated' = calls[Len(calls)] /\ calls # <<>> /\ doc[Len(doc)].role = "toolCall"
  BY DEF Hold
<1>5. bubble'.blocks = bubble.blocks /\ bubble'.afterBlock = n
  BY <1>1, <1>2, <1>3, BecomesIs
<1>6. doc # <<>>
  BY <1>4 DEF FoldInv, NewestIsTheCall
<1>7. CardPoints'
  <2>1. bubble.blocks # <<>> /\ bubble.blocks[n].kind = "tool" /\ bubble.blocks[n].id = calls[Len(calls)]
    BY <1>4, <1>6 DEF FoldInv, NewestIsTheCall, Last_
  <2>2. n \in DOMAIN bubble.blocks
    BY <1>3, <2>1
  <2> HIDE DEF n
  <2> QED BY <1>4, <1>5, <2>1, <2>2 DEF CardPoints
<1>8. gated' \in Ids
  BY <1>1, <1>4 DEF Ids
<1>9. wire' \in Nat /\ UNCHANGED <<doc, calls, results>>
  BY <1>1 DEF Hold, Send
<1> HIDE DEF n
<1> QED BY <1>2, <1>3, <1>7, <1>8, <1>9, CardStep

LEMMA ReleaseInv ==
  ASSUME FoldInv, Release
  PROVE  FoldInv'
<1>1. bubble \in BubbleType /\ wire \in Nat /\ gated \in Ids
  BY DEF FoldInv, FoldTypes, BubbleType
<1>2. Becomes(bubble.blocks, bubble.phase, "approved", bubble.afterBlock)
  BY <1>1 DEF Release, Send, ApplyAgentEvent, Becomes, BubbleType
<1>3. bubble.blocks \in Seq(Blocks) /\ bubble.afterBlock \in Nat /\ bubble.phase \in {"thinking", "streaming", "tools", "done"}
  BY <1>1 DEF BubbleType
<1>4. bubble'.blocks = bubble.blocks /\ bubble'.afterBlock = bubble.afterBlock
  BY <1>1, <1>2, <1>3, BecomesIs
<1>5. wire' \in Nat /\ gated' = gated /\ UNCHANGED <<doc, calls, results>>
  BY <1>1 DEF Release, Send
<1>6. CardPoints'
  BY <1>4, <1>5 DEF FoldInv, CardPoints, Release, Parked
<1> QED BY <1>1, <1>2, <1>3, <1>5, <1>6, CardStep

LEMMA DoneInv ==
  ASSUME FoldInv, Done
  PROVE  FoldInv'
<1>1. bubble \in BubbleType /\ wire \in Nat /\ gated \in Ids
  BY DEF FoldInv, FoldTypes, BubbleType
<1> DEFINE card == IF bubble.card = "pending" THEN "stopped" ELSE bubble.card
<1>2. Becomes(bubble.blocks, "done", card, bubble.afterBlock)
  BY <1>1 DEF Done, Send, ApplyAgentEvent, Becomes, BubbleType
<1>3. /\ bubble.blocks \in Seq(Blocks) /\ bubble.afterBlock \in Nat
      /\ card \in {"none", "pending", "approved", "stopped"} /\ (card # "none" => bubble.card # "none")
  BY <1>1 DEF BubbleType
<1> HIDE DEF card
<1>4. bubble'.blocks = bubble.blocks /\ bubble'.afterBlock = bubble.afterBlock /\ bubble'.card = card
  BY <1>1, <1>2, <1>3, BecomesIs
<1>5. wire' \in Nat /\ gated' = gated /\ UNCHANGED <<doc, calls, results>>
  BY <1>1 DEF Done, Send
<1>6. CardPoints'
  BY <1>3, <1>4, <1>5 DEF FoldInv, CardPoints
<1> QED BY <1>1, <1>2, <1>3, <1>5, <1>6, CardStep

-----------------------------------------------------------------------------
LEMMA FoldStart ==
  ASSUME Init
  PROVE  FoldInv
<1>1. /\ bubble = NewAgentMsg \/ bubble = [NewAgentMsg EXCEPT !.phase = "done"]
      /\ doc = <<>> /\ wire = 0 /\ calls = <<>> /\ results = [c \in Calls |-> <<>>] /\ gated = NoId
  BY DEF Init, FoldInit, FoldAtRest
<1>2. bubble \in BubbleType /\ bubble.blocks = <<>> /\ bubble.card = "none"
  <2>1. CASE bubble = NewAgentMsg
    BY <2>1 DEF NewAgentMsg, BubbleType
  <2>2. CASE bubble = [NewAgentMsg EXCEPT !.phase = "done"]
    <3>1. bubble = [blocks |-> <<>>, phase |-> "done", card |-> "none", afterBlock |-> 0]
      BY <2>2 DEF NewAgentMsg
    <3> QED BY <3>1 DEF BubbleType
  <2> QED BY <1>1, <2>1, <2>2
<1>3. ToolAt = {} /\ Range(calls) = {}
  BY <1>1, <1>2 DEF ToolAt, Range
<1>4. FoldTypes
  BY <1>1, <1>2 DEF FoldTypes, BubbleType, Ids
<1>5. MadeOnce /\ UncalledHasNone /\ OutputsBelong /\ DoneHasResults
  BY <1>1, <1>2, <1>3 DEF MadeOnce, UncalledHasNone, OutputsBelong, DoneHasResults
<1>6. CardPoints /\ NewestIsTheCall
  BY <1>1, <1>2 DEF CardPoints, NewestIsTheCall
<1> QED BY <1>4, <1>5, <1>6 DEF FoldInv

LEMMA FoldSteps ==
  ASSUME FoldInv, [Next]_<<foldVars, cardVars>>
  PROVE  FoldInv'
<1>1. CASE FoldNext
  BY <1>1, DeltaInv, RewriteInv, NarrationInv, CallInv, ResultInv, HoldInv, ReleaseInv, DoneInv DEF FoldNext
<1>2. CASE UNCHANGED foldVars
  BY <1>2 DEF foldVars, FoldInv, FoldTypes, MadeOnce, UncalledHasNone, OutputsBelong, DoneHasResults,
              CardPoints, NewestIsTheCall, ToolAt
<1> QED BY <1>1, <1>2 DEF Next

(* The turn on screen, for all calls and narrations and turns of any length: the
   fold of its events keeps FoldInv, the tool blocks being the calls in order. *)
THEOREM FoldInductive == Spec => []FoldInv
<1>1. Init => FoldInv
  BY FoldStart
<1>2. FoldInv /\ [Next]_<<foldVars, cardVars>> => FoldInv'
  BY FoldSteps
<1> QED BY <1>1, <1>2, PTL DEF Spec

(* applyAgentEvent keeps every output with the call it is the output of, the
   status line with the calls that are out, and the record of a decision beside
   the call it was about. *)
THEOREM TurnOnScreenIsTheRuntimes == Spec => []TurnIsTheRuntimes
<1>1. FoldInv => TurnIsTheRuntimes
  <2> SUFFICES ASSUME FoldInv PROVE TurnIsTheRuntimes
    OBVIOUS
  <2>1. bubble \in BubbleType
    BY DEF FoldInv, FoldTypes, BubbleType
  <2>2. StatusMatchesCalls
    <3> SUFFICES ASSUME bubble.phase = "tools"
                 PROVE  TurnStatus(bubble) = "tools" <=> \E i \in DOMAIN calls : results[calls[i]] = <<>>
      BY DEF StatusMatchesCalls
    <3>1. TurnStatus(bubble) = "tools" <=> \E i \in ToolAt : ~bubble.blocks[i].done
      BY DEF TurnStatus, ToolAt
    <3>2. (\E i \in ToolAt : ~bubble.blocks[i].done) <=> \E i \in ToolAt : results[bubble.blocks[i].id] = <<>>
      BY DEF FoldInv, DoneHasResults
    <3>3. (\E i \in ToolAt : results[bubble.blocks[i].id] = <<>>) <=> \E c \in Range(calls) : results[c] = <<>>
      BY DEF FoldInv, OutputsBelong
    <3>4. (\E c \in Range(calls) : results[c] = <<>>) <=> \E i \in DOMAIN calls : results[calls[i]] = <<>>
      BY DEF Range
    <3> QED BY <3>1, <3>2, <3>3, <3>4
  <2>3. CardBesideItsCall
    <3> SUFFICES ASSUME bubble.card \in {"approved", "stopped"} PROVE bubble.blocks[SlotOf(bubble)].id = gated
      BY DEF CardBesideItsCall
    <3>1. bubble.afterBlock \in DOMAIN bubble.blocks /\ bubble.blocks[bubble.afterBlock].id = gated
      BY DEF FoldInv, CardPoints
    <3>2. ~(bubble.afterBlock > Len(bubble.blocks))
      BY <2>1, <3>1 DEF BubbleType
    <3> QED BY <3>1, <3>2 DEF SlotOf
  <2> QED BY <2>2, <2>3 DEF FoldInv, TurnIsTheRuntimes
<1> QED BY <1>1, FoldInductive, PTL

-----------------------------------------------------------------------------
(* What the two folds compute, one item at a time *)

\* A set of numbers with zero and the successor of each of its own is all of them.
LEMMA Counting ==
  ASSUME NEW T, 0 \in T, \A n \in Nat : n \in T => n + 1 \in T
  PROVE  \A n \in Nat : n \in T
<1> DEFINE I == {n \in Nat : n \notin T}
<1> SUFFICES ASSUME I # {} PROVE FALSE
  OBVIOUS
<1>1. I \subseteq Nat
  OBVIOUS
<1>2. Min(I) \in I /\ \A j \in I : Min(I) <= j
  <2> HIDE DEF I
  <2> QED BY <1>1, MinIs
<1>3. PICK x \in I : \A j \in I : x <= j
  BY <1>2
<1>4. x \in Nat /\ x # 0 /\ x \notin T
  OBVIOUS
<1>5. x - 1 \in Nat /\ ~(x <= x - 1)
  BY <1>4
<1>6. x - 1 \notin I
  BY <1>3, <1>5
<1>7. x - 1 + 1 \in T
  BY <1>5, <1>6
<1> QED BY <1>4, <1>7

\* The blocks of a turn with adjacent texts made one, which is what a reload shows.
JoinText(acc, text) ==
  IF acc # <<>> /\ Last_(acc).kind = "text" THEN [acc EXCEPT ![Len(acc)].text = @ \o text]
  ELSE Append(acc, TextBlock(NoId, text))
JoinStep(acc, b) == IF b.kind = "tool" THEN Append(acc, b) ELSE JoinText(acc, b.text)
Joined(bs) == FoldLeft(JoinStep, <<>>, bs)

\* The three folds: of a turn onto its shape, of a turn joined, of the history onto the turn.
Folds == {"shape", "join", "history"}
FoldStep(which, acc, x) ==
  IF which = "shape" THEN ShapeStep(acc, x) ELSE IF which = "join" THEN JoinStep(acc, x) ELSE HistoryItem(acc, x)
FoldOf(which, s) ==
  IF which = "shape" THEN Shape(s) ELSE IF which = "join" THEN Joined(s) ELSE HistoryToMsgs(s)

\* The function FoldLeft is defined by, and the one of prefixes we reason with.
Iterates(which, s, f) ==
  f = [S \in SUBSET DOMAIN s |-> IF S = {} THEN <<>> ELSE FoldStep(which, f[S \ {Max(S)}], s[Max(S)])]
Chain(which, s, F) ==
  F[0] = <<>> /\ \A n \in DOMAIN s : F[n] = FoldStep(which, F[n - 1], s[n])

LEMMA FoldIs ==
  ASSUME NEW which \in Folds, NEW s, NEW f, Iterates(which, s, f)
  PROVE  \E g : Iterates(which, s, g) /\ FoldOf(which, s) = g[DOMAIN s]
<1>1. FoldOf("shape", s) = (CHOOSE g : Iterates("shape", s, g))[DOMAIN s]
  BY Zenon DEF FoldOf, Shape, FoldLeft, MapThenFoldSet, Iterates, FoldStep
<1>2. FoldOf("join", s) = (CHOOSE g : Iterates("join", s, g))[DOMAIN s]
  BY Zenon DEF FoldOf, Joined, FoldLeft, MapThenFoldSet, Iterates, FoldStep
<1>3. FoldOf("history", s) = (CHOOSE g : Iterates("history", s, g))[DOMAIN s]
  BY Zenon DEF FoldOf, HistoryToMsgs, FoldLeft, MapThenFoldSet, Iterates, FoldStep
<1> QED BY <1>1, <1>2, <1>3 DEF Folds

LEMMA Topmost ==
  ASSUME NEW m \in Nat, NEW S \in SUBSET (1 .. m), S # {}
  PROVE  /\ Max(S) \in S /\ Max(S) \in 1 .. m /\ S \ {Max(S)} \in SUBSET (1 .. m)
         /\ Cardinality(S) \in Nat /\ Cardinality(S) # 0
         /\ Cardinality(S \ {Max(S)}) = Cardinality(S) - 1
<1>1. Max(S) \in S
  BY MaxIs
<1>2. IsFiniteSet(S)
  <2>1. 1 \in Int /\ m \in Int
    OBVIOUS
  <2>2. IsFiniteSet(1 .. m)
    BY <2>1, FS_Interval
  <2> QED BY <2>2, FS_Subset
<1>3. Cardinality(S \ {Max(S)}) = Cardinality(S) - 1
  BY <1>1, <1>2, FS_RemoveElement
<1>4. Cardinality(S) \in Nat /\ Cardinality(S) # 0
  BY <1>2, FS_CardinalityType, FS_EmptySet
<1> QED BY <1>1, <1>3, <1>4

LEMMA IteratesExists ==
  ASSUME NEW which, NEW s, NEW m \in Nat, DOMAIN s = 1 .. m
  PROVE  \E f : Iterates(which, s, f)
<1> DEFINE D == SUBSET (1 .. m)
<1> DEFINE Value(f, S) == IF S = {} THEN <<>> ELSE FoldStep(which, f[S \ {Max(S)}], s[Max(S)])
<1> DEFINE Upto(n) == {S \in D : Cardinality(S) <= n}
<1> DEFINE T == {n \in Nat : \E f : \A S \in Upto(n) : f[S] = Value(f, S)}
<1>1. 0 \in T
  <2> DEFINE f == [S \in D |-> <<>>]
  <2>1. ASSUME NEW S \in Upto(0) PROVE S = {}
    <3> SUFFICES ASSUME S # {} PROVE FALSE
      OBVIOUS
    <3>1. Cardinality(S) \in Nat /\ Cardinality(S) # 0
      BY Topmost
    <3> QED BY <3>1
  <2>2. \A S \in Upto(0) : f[S] = Value(f, S)
    BY <2>1
  <2> HIDE DEF f
  <2> QED BY <2>2
<1>2. ASSUME NEW n \in Nat, n \in T PROVE n + 1 \in T
  <2>1. PICK f : \A S \in Upto(n) : f[S] = Value(f, S)
    BY <1>2
  <2> DEFINE g == [S \in D |-> Value(f, S)]
  <2>2. ASSUME NEW S \in Upto(n + 1) PROVE g[S] = Value(g, S)
    <3>1. CASE S = {}
      BY <3>1
    <3>2. CASE S # {}
      <4> DEFINE r == S \ {Max(S)}
      <4>1. r \in D /\ Cardinality(S) \in Nat /\ Cardinality(r) = Cardinality(S) - 1
        BY <3>2, Topmost
      <4>2. r \in Upto(n)
        BY <4>1
      <4>3. f[r] = g[r]
        BY <2>1, <4>1, <4>2
      <4> QED BY <3>2, <4>3
    <3> QED BY <3>1, <3>2
  <2>3. \E h : \A S \in Upto(n + 1) : h[S] = Value(h, S)
    <3> HIDE DEF g, Value, Upto
    <3> QED BY <2>2
  <2>4. n + 1 \in Nat
    OBVIOUS
  <2> HIDE DEF Upto, Value
  <2> QED BY <2>3, <2>4
<1>3. m \in T
  <2> HIDE DEF T
  <2> QED BY <1>1, <1>2, Counting
<1>4. PICK f : \A S \in Upto(m) : f[S] = Value(f, S)
  BY <1>3
<1>5. \A S \in D : S \in Upto(m)
  <2> SUFFICES ASSUME NEW S \in D PROVE Cardinality(S) <= m
    OBVIOUS
  <2>1. IsFiniteSet(1 .. m) /\ Cardinality(1 .. m) = m
    BY FS_Interval
  <2>2. Cardinality(S) <= Cardinality(1 .. m)
    BY <2>1, FS_Subset
  <2> QED BY <2>1, <2>2
<1> DEFINE h == [S \in D |-> f[S]]
<1>6. ASSUME NEW S \in D PROVE h[S] = Value(h, S)
  <2>1. f[S] = Value(f, S)
    BY <1>4, <1>5
  <2>2. S # {} => S \ {Max(S)} \in D
    BY Topmost
  <2> QED BY <2>1, <2>2
<1>7. h = [S \in D |-> Value(h, S)]
  BY <1>6
<1> HIDE DEF h
<1> QED BY <1>7 DEF Iterates

LEMMA ChainExists ==
  ASSUME NEW which \in Folds, NEW s, NEW m \in Nat, DOMAIN s = 1 .. m
  PROVE  \E F : Chain(which, s, F) /\ FoldOf(which, s) = F[m]
<1>1. PICK f : Iterates(which, s, f) /\ FoldOf(which, s) = f[1 .. m]
  BY IteratesExists, FoldIs
<1> DEFINE F == [n \in 0 .. m |-> f[1 .. n]]
<1>2. \A S \in SUBSET (1 .. m) : f[S] = IF S = {} THEN <<>> ELSE FoldStep(which, f[S \ {Max(S)}], s[Max(S)])
  BY <1>1 DEF Iterates
<1>3. F[0] = <<>>
  <2>1. 1 .. 0 = {} /\ {} \in SUBSET (1 .. m)
    OBVIOUS
  <2>2. f[{}] = <<>>
    BY <1>2, <2>1
  <2>3. 0 \in 0 .. m /\ F[0] = f[1 .. 0]
    OBVIOUS
  <2> HIDE DEF F
  <2> QED BY <2>1, <2>2, <2>3
<1>4. ASSUME NEW n \in 1 .. m PROVE F[n] = FoldStep(which, F[n - 1], s[n])
  <2>1. 1 .. n \in SUBSET (1 .. m) /\ 1 .. n # {} /\ n \in 1 .. n /\ n - 1 \in 0 .. m /\ n \in 0 .. m
    <3>1. n \in Nat /\ 1 <= n /\ n <= m
      OBVIOUS
    <3>2. n \in 1 .. n /\ n - 1 \in 0 .. m /\ n \in 0 .. m
      BY <3>1
    <3>3. \A k \in 1 .. n : k \in 1 .. m
      BY <3>1
    <3> QED BY <3>2, <3>3
  <2>2. Max(1 .. n) = n
    <3>1. Max(1 .. n) \in 1 .. n /\ n <= Max(1 .. n)
      BY <2>1, MaxIs
    <3> QED BY <3>1
  <2>3. (1 .. n) \ {n} = 1 .. n - 1
    OBVIOUS
  <2>4. f[1 .. n] = FoldStep(which, f[1 .. n - 1], s[n])
    BY <1>2, <2>1, <2>2, <2>3
  <2> QED BY <2>1, <2>4
<1>5. F[m] = f[1 .. m]
  OBVIOUS
<1> HIDE DEF F
<1> QED BY <1>1, <1>3, <1>4, <1>5 DEF Chain

\* Whatever is computed item by item is what the fold computes.
LEMMA ChainIsFold ==
  ASSUME NEW which \in Folds, NEW s, NEW m \in Nat, DOMAIN s = 1 .. m, NEW G, Chain(which, s, G)
  PROVE  FoldOf(which, s) = G[m]
<1>1. PICK F : Chain(which, s, F) /\ FoldOf(which, s) = F[m]
  BY ChainExists
<1> DEFINE T == {n \in Nat : n <= m => F[n] = G[n]}
<1>2. 0 \in T
  BY <1>1 DEF Chain
<1>3. ASSUME NEW n \in Nat, n \in T PROVE n + 1 \in T
  <2> SUFFICES ASSUME n + 1 <= m PROVE F[n + 1] = G[n + 1]
    OBVIOUS
  <2>1. n + 1 \in DOMAIN s /\ n + 1 - 1 = n /\ F[n] = G[n]
    BY <1>3
  <2>2. PICK k : k = n + 1
    OBVIOUS
  <2>3. F[k] = FoldStep(which, F[k - 1], s[k]) /\ G[k] = FoldStep(which, G[k - 1], s[k])
    BY <1>1, <2>1, <2>2 DEF Chain
  <2>4. k - 1 = n
    BY <2>2
  <2> QED BY <2>1, <2>2, <2>3, <2>4
<1>4. m \in T
  <2> HIDE DEF T
  <2> QED BY <1>2, <1>3, Counting
<1> QED BY <1>1, <1>4

LEMMA FoldAppend ==
  ASSUME NEW which \in Folds, NEW A, NEW s \in Seq(A), NEW x \in A
  PROVE  FoldOf(which, Append(s, x)) = FoldStep(which, FoldOf(which, s), x)
<1>1. PICK m \in Nat : m = Len(s) /\ DOMAIN s = 1 .. m
  OBVIOUS
<1>2. PICK t : t = Append(s, x)
  OBVIOUS
<1>3. DOMAIN t = 1 .. m + 1 /\ t[m + 1] = x /\ \A n \in 1 .. m : t[n] = s[n]
  BY <1>1, <1>2
<1>4. PICK F : Chain(which, s, F) /\ FoldOf(which, s) = F[m]
  BY <1>1, ChainExists
<1> DEFINE G == [n \in 0 .. m + 1 |-> IF n = m + 1 THEN FoldStep(which, F[m], x) ELSE F[n]]
<1>5. /\ G[0] = F[0] /\ G[m + 1] = FoldStep(which, F[m], x) /\ G[m] = F[m]
      /\ \A n \in 1 .. m : G[n] = F[n] /\ G[n - 1] = F[n - 1]
  OBVIOUS
<1> HIDE DEF G
<1>6. Chain(which, t, G)
  <2>1. ASSUME NEW n \in DOMAIN t PROVE G[n] = FoldStep(which, G[n - 1], t[n])
    <3>1. CASE n = m + 1
      <4>1. n - 1 = m
        BY <3>1
      <4> QED BY <1>3, <1>5, <3>1, <4>1
    <3>2. CASE n # m + 1
      <4>1. n \in 1 .. m
        BY <1>3, <3>2
      <4> QED BY <1>1, <1>3, <1>4, <1>5, <4>1 DEF Chain
    <3> QED BY <3>1, <3>2
  <2> QED BY <1>4, <1>5, <2>1 DEF Chain
<1>7. m + 1 \in Nat
  OBVIOUS
<1>8. FoldOf(which, t) = G[m + 1]
  BY <1>3, <1>6, <1>7, ChainIsFold
<1> QED BY <1>2, <1>4, <1>5, <1>8

LEMMA FoldEmpty ==
  ASSUME NEW which \in Folds
  PROVE  FoldOf(which, <<>>) = <<>>
<1>1. DOMAIN <<>> = 1 .. 0 /\ 0 \in Nat
  OBVIOUS
<1>2. PICK F : Chain(which, <<>>, F) /\ FoldOf(which, <<>>) = F[0]
  BY <1>1, ChainExists
<1> QED BY <1>2 DEF Chain

-----------------------------------------------------------------------------
(* A turn joined *)

\* What joining one block onto the others does.
LEMMA JoinTextIs ==
  ASSUME NEW acc \in Seq(Blocks), NEW text \in Seq(Nat), NEW r, r = JoinText(acc, text)
  PROVE  /\ r \in Seq(Blocks) /\ r # <<>> /\ Last_(r).kind = "text" /\ Last_(r) \in TextBlocks
         /\ Len(r) >= Len(acc)
         /\ \A j \in DOMAIN acc : acc[j].kind = "tool" => r[j] = acc[j]
         /\ \A j \in DOMAIN r : r[j].kind = "tool" => j \in DOMAIN acc /\ acc[j].kind = "tool"
<1>1. Len(acc) \in Nat /\ DOMAIN acc = 1 .. Len(acc)
  OBVIOUS
<1>2. CASE acc # <<>> /\ Last_(acc).kind = "text"
  <2> DEFINE at == Len(acc)
             w == acc[at]
             b == [w EXCEPT !.text = w.text \o text]
  <2>1. at \in DOMAIN acc /\ w \in TextBlocks /\ w.kind = "text"
    <3>1. at \in DOMAIN acc /\ w \in Blocks /\ w.kind = "text"
      BY <1>1, <1>2 DEF Last_
    <3> QED BY <3>1, TextBlockIs
  <2>2. r = [acc EXCEPT ![at] = b]
    BY <1>2, <2>1 DEF JoinText
  <2>3. b \in TextBlocks
    <3>1. w.text \in Seq(Nat)
      BY <2>1, TextFields
    <3> HIDE DEF w
    <3>2. w.text \o text \in Seq(Nat)
      BY <3>1
    <3> QED BY <2>1, <3>2, Retold
  <2>4. b \in Blocks /\ b.kind = "text"
    BY <2>3 DEF Blocks, TextBlocks
  <2> HIDE DEF b
  <2>5. r \in Seq(Blocks) /\ Len(r) = Len(acc) /\ DOMAIN r = DOMAIN acc /\ r[at] = b /\ \A j \in DOMAIN acc : j # at => r[j] = acc[j]
    BY <2>1, <2>2, <2>4
  <2>6. r # <<>> /\ Last_(r) = b
    BY <1>1, <2>1, <2>5 DEF Last_
  <2>7. \A j \in DOMAIN acc : acc[j].kind = "tool" => j # at
    BY <2>1
  <2>8. \A j \in DOMAIN r : r[j].kind = "tool" => j # at
    BY <2>4, <2>5
  <2>9. Len(r) >= Len(acc)
    BY <1>1, <2>5
  <2> HIDE DEF at, w
  <2> QED BY <2>3, <2>4, <2>5, <2>6, <2>7, <2>8, <2>9
<1>3. CASE ~(acc # <<>> /\ Last_(acc).kind = "text")
  <2> DEFINE b == TextBlock(NoId, text)
  <2>1. r = Append(acc, b)
    BY <1>3 DEF JoinText
  <2>2. b \in TextBlocks /\ b \in Blocks /\ b.kind = "text"
    BY DEF TextBlock, Blocks, TextBlocks
  <2> HIDE DEF b
  <2>3. r \in Seq(Blocks) /\ Len(r) = Len(acc) + 1 /\ DOMAIN r = 1 .. Len(acc) + 1 /\ r[Len(acc) + 1] = b /\ \A j \in DOMAIN acc : r[j] = acc[j]
    BY <2>1, <2>2
  <2>4. r # <<>> /\ Last_(r) = b
    BY <1>1, <2>3 DEF Last_
  <2>5. \A j \in DOMAIN r : r[j].kind = "tool" => j \in DOMAIN acc
    BY <1>1, <2>2, <2>3
  <2> QED BY <1>1, <2>2, <2>3, <2>4, <2>5
<1> QED BY <1>2, <1>3

LEMMA BlockKinds ==
  ASSUME NEW b \in Blocks
  PROVE  /\ b.kind \in {"text", "tool"}
         /\ b.kind = "text" => b \in TextBlocks /\ b.text \in Seq(Nat)
         /\ b.kind = "tool" => b \in ToolBlocks /\ b.id \in Calls /\ b.id # NoId /\ b.output \in Seq(Nat)
BY FoldAssumption DEF Blocks, TextBlocks, ToolBlocks, NoId

\* r is acc with the block b joined to it.
JoinedOn(acc, b, r) ==
  /\ r \in Seq(Blocks) /\ Len(r) >= Len(acc)
  /\ \A j \in DOMAIN acc : acc[j].kind = "tool" => r[j] = acc[j]
  /\ \A j \in DOMAIN r : r[j].kind = "tool" => (j \in DOMAIN acc /\ r[j] = acc[j]) \/ (j > Len(acc) /\ r[j] = b)

LEMMA JoinStepIs ==
  ASSUME NEW acc \in Seq(Blocks), NEW b \in Blocks, NEW r, r = JoinStep(acc, b)
  PROVE  JoinedOn(acc, b, r)
<1>1. CASE b.kind = "tool"
  <2>1. r = Append(acc, b)
    BY <1>1 DEF JoinStep
  <2> QED BY <2>1 DEF JoinedOn
<1>2. CASE b.kind = "text"
  <2>1. r = JoinText(acc, b.text) /\ b.text \in Seq(Nat)
    BY <1>2, BlockKinds DEF JoinStep
  <2> QED BY <2>1, JoinTextIs DEF JoinedOn
<1> QED BY <1>1, <1>2, BlockKinds

\* A finished call is joined as it was.
LEMMA JoinFinished ==
  ASSUME NEW acc \in Seq(Blocks), NEW b \in Blocks, NEW p \in DOMAIN acc, acc[p].kind = "tool", NEW d \in Blocks, d.kind = "tool"
  PROVE  JoinStep([acc EXCEPT ![p] = d], b) = [JoinStep(acc, b) EXCEPT ![p] = d]
<1> DEFINE fin == [acc EXCEPT ![p] = d]
<1>1. /\ fin \in Seq(Blocks) /\ Len(fin) = Len(acc) /\ DOMAIN fin = DOMAIN acc /\ fin[p] = d
      /\ \A j \in DOMAIN acc : j # p => fin[j] = acc[j]
      /\ Len(acc) \in Nat /\ DOMAIN acc = 1 .. Len(acc) /\ acc # <<>> /\ fin # <<>>
  OBVIOUS
<1>2. ASSUME NEW x \in Blocks PROVE Append(fin, x) = [Append(acc, x) EXCEPT ![p] = d]
  <2> DEFINE u == Append(acc, x)
             v == Append(fin, x)
             n == Len(acc) + 1
  <2> HIDE DEF fin
  <2>1. u \in Seq(Blocks) /\ DOMAIN u = 1 .. n /\ u[n] = x /\ \A j \in 1 .. Len(acc) : u[j] = acc[j]
    BY <1>1
  <2>2. v \in Seq(Blocks) /\ DOMAIN v = 1 .. n /\ v[n] = x /\ \A j \in 1 .. Len(acc) : v[j] = fin[j]
    BY <1>1
  <2>3. n \in Nat /\ p # n /\ p \in 1 .. n /\ \A j \in 1 .. n : j \in 1 .. Len(acc) \/ j = n
    BY <1>1
  <2> HIDE DEF u, v, n
  <2>4. \A j \in 1 .. n : v[j] = IF j = p THEN d ELSE u[j]
    BY <1>1, <2>1, <2>2, <2>3
  <2>5. v = [j \in 1 .. n |-> v[j]]
    BY <2>2
  <2>7. [u EXCEPT ![p] = d] = [j \in 1 .. n |-> IF j = p THEN d ELSE u[j]]
    BY <2>1
  <2>6. v = [u EXCEPT ![p] = d]
    BY <2>4, <2>5, <2>7
  <2> QED BY <2>6 DEF u, v
<1>3. CASE b.kind = "tool"
  BY <1>2, <1>3 DEF JoinStep
<1>4. CASE b.kind = "text"
  <2>1. b.text \in Seq(Nat) /\ JoinStep(fin, b) = JoinText(fin, b.text) /\ JoinStep(acc, b) = JoinText(acc, b.text)
    BY <1>4, BlockKinds DEF JoinStep
  <2>2. Last_(fin).kind = Last_(acc).kind
    <3> HIDE DEF fin
    <3> QED BY <1>1 DEF Last_
  <2>3. CASE Last_(acc).kind = "text"
    <3> DEFINE at == Len(acc)
               w == [acc[at] EXCEPT !.text = acc[at].text \o b.text]
    <3>1. at # p /\ at \in DOMAIN acc /\ fin[at] = acc[at]
      BY <1>1, <2>3 DEF Last_
    <3>2. JoinText(acc, b.text) = [acc EXCEPT ![at] = w]
      BY <1>1, <2>3, <3>1 DEF JoinText
    <3>3. JoinText(fin, b.text) = [fin EXCEPT ![at] = w]
      <4> HIDE DEF fin
      <4> QED BY <1>1, <2>2, <2>3, <3>1 DEF JoinText
    <3> HIDE DEF at, w
    <3>4. [fin EXCEPT ![at] = w] = [[acc EXCEPT ![at] = w] EXCEPT ![p] = d]
      BY <3>1
    <3> QED BY <2>1, <3>2, <3>3, <3>4
  <2>4. CASE Last_(acc).kind # "text"
    <3>1. JoinText(acc, b.text) = Append(acc, TextBlock(NoId, b.text)) /\ JoinText(fin, b.text) = Append(fin, TextBlock(NoId, b.text))
      BY <2>2, <2>4 DEF JoinText
    <3>2. TextBlock(NoId, b.text) \in Blocks
      BY <2>1 DEF TextBlock, Blocks, TextBlocks
    <3> QED BY <1>2, <2>1, <3>1, <3>2
  <2> QED BY <2>3, <2>4
<1> QED BY <1>3, <1>4, BlockKinds

\* A call's block after one more result.
Fin(w, out) == [w EXCEPT !.output = Append(w.output, out), !.done = TRUE]

LEMMA FinIs ==
  ASSUME NEW w \in Blocks, w.kind = "tool", NEW out \in Nat
  PROVE  Fin(w, out) \in Blocks /\ Fin(w, out).kind = "tool" /\ Fin(w, out).id = w.id
<1>1. w \in ToolBlocks /\ w.output \in Seq(Nat)
  BY BlockKinds
<1>2. PICK o : o = Append(w.output, out)
  OBVIOUS
<1>3. o \in Seq(Nat)
  BY <1>1, <1>2
<1>4. PICK d : d = Fin(w, out)
  OBVIOUS
<1>5. d = [w EXCEPT !.output = o, !.done = TRUE]
  BY <1>2, <1>4 DEF Fin
<1>6. d \in Blocks /\ d.kind = "tool" /\ d.id = w.id
  <2> DEFINE e == [w EXCEPT !.output = o, !.done = TRUE]
  <2>1. e \in Blocks /\ e.kind = "tool" /\ e.id = w.id
    BY <1>1, <1>3 DEF ToolBlocks, Blocks
  <2> QED BY <1>5, <2>1
<1> QED BY <1>4, <1>6

LEMMA FinishedIs ==
  ASSUME NEW bs \in Seq(Blocks), NEW at \in DOMAIN bs, NEW out
  PROVE  Finished(bs, at, out) = [bs EXCEPT ![at] = Fin(bs[at], out)]
BY DEF Finished, Fin

\* Where a turn joined has the calls of the turn.
CallsBefore(acc, bs, n) == \A j \in DOMAIN acc : acc[j].kind = "tool" => \E i \in DOMAIN bs : i <= n /\ acc[j] = bs[i]

CallsAround(acc, bs, at, p) ==
  \A j \in DOMAIN acc : acc[j].kind = "tool" =>
     \/ j < p /\ \E i \in DOMAIN bs : i < at /\ acc[j] = bs[i]
     \/ j = p
     \/ j > p /\ \E i \in DOMAIN bs : i > at /\ acc[j] = bs[i]

LEMMA JoinAttach ==
  ASSUME NEW bs \in Seq(Blocks), NEW at, NEW id, Owns(bs, at, id), NEW out \in Nat
  PROVE  AttachToolResult(Joined(bs), id, out) = Joined([bs EXCEPT ![at] = Fin(bs[at], out)])
<1>1. PICK m \in Nat : m = Len(bs) /\ DOMAIN bs = 1 .. m
  OBVIOUS
<1>2. at \in 1 .. m /\ at \in Nat /\ at >= 1 /\ at <= m /\ bs[at] \in Blocks /\ bs[at].kind = "tool"
  BY <1>1 DEF Owns
<1>3. PICK d : d = Fin(bs[at], out)
  OBVIOUS
<1>4. d \in Blocks /\ d.kind = "tool" /\ d.id = bs[at].id
  BY <1>2, <1>3, FinIs
<1>5. PICK cs : cs = [bs EXCEPT ![at] = d]
  OBVIOUS
<1>6. /\ cs \in Seq(Blocks) /\ DOMAIN cs = 1 .. m /\ cs[at] = d /\ \A i \in 1 .. m : i # at => cs[i] = bs[i]
      /\ \A i \in 1 .. m : bs[i] \in Blocks /\ cs[i] \in Blocks
  BY <1>1, <1>2, <1>4, <1>5
<1>7. PICK F : Chain("join", bs, F) /\ Joined(bs) = F[m]
  BY <1>1, ChainExists DEF Folds, FoldOf
<1>8. PICK G : Chain("join", cs, G) /\ Joined(cs) = G[m]
  BY <1>6, ChainExists DEF Folds, FoldOf
<1>9. /\ F[0] = <<>> /\ G[0] = <<>>
      /\ \A n \in 1 .. m : F[n] = JoinStep(F[n - 1], bs[n]) /\ G[n] = JoinStep(G[n - 1], cs[n])
  BY <1>1, <1>6, <1>7, <1>8 DEF Chain, FoldStep
<1> DEFINE A == {n \in Nat : n < at => F[n] \in Seq(Blocks) /\ G[n] = F[n] /\ CallsBefore(F[n], bs, n)}
<1>10. 0 \in A
  <2>1. CallsBefore(<<>>, bs, 0)
    BY DEF CallsBefore
  <2>2. <<>> \in Seq(Blocks)
    OBVIOUS
  <2>3. F[0] \in Seq(Blocks) /\ G[0] = F[0] /\ CallsBefore(F[0], bs, 0)
    BY <1>9, <2>1, <2>2
  <2> QED BY <2>3
<1>11. ASSUME NEW n \in Nat, n \in A PROVE n + 1 \in A
  <2> SUFFICES ASSUME n + 1 < at PROVE F[n + 1] \in Seq(Blocks) /\ G[n + 1] = F[n + 1] /\ CallsBefore(F[n + 1], bs, n + 1)
    OBVIOUS
  <2>1. F[n] \in Seq(Blocks) /\ G[n] = F[n] /\ CallsBefore(F[n], bs, n)
    BY <1>2, <1>11
  <2>2. PICK k : k = n + 1
    OBVIOUS
  <2>3. k \in 1 .. m /\ k # at /\ k - 1 = n /\ k \in Nat /\ n <= k
    BY <1>2, <2>2
  <2>4. F[k] = JoinStep(F[n], bs[k]) /\ G[k] = JoinStep(F[n], bs[k])
    BY <1>6, <1>9, <2>1, <2>3
  <2>5. PICK acc \in Seq(Blocks) : acc = F[n]
    BY <2>1
  <2>10. PICK r : r = F[k]
    OBVIOUS
  <2>8. PICK b \in Blocks : b = bs[k]
    BY <1>6, <2>3
  <2>9. r = JoinStep(acc, b)
    BY <2>4, <2>5, <2>8, <2>10
  <2>6. /\ r \in Seq(Blocks)
        /\ \A j \in DOMAIN r : r[j].kind = "tool" => (j \in DOMAIN acc /\ r[j] = acc[j]) \/ (j > Len(acc) /\ r[j] = bs[k])
    <3>1. JoinedOn(acc, b, r)
      BY <2>9, JoinStepIs
    <3> QED BY <2>8, <3>1 DEF JoinedOn
  <2>7. CallsBefore(r, bs, k)
    <3> SUFFICES ASSUME NEW j \in DOMAIN r, r[j].kind = "tool" PROVE \E i \in DOMAIN bs : i <= k /\ r[j] = bs[i]
      BY DEF CallsBefore
    <3>1. CASE r[j] = bs[k]
      BY <1>1, <2>3, <3>1
    <3>2. CASE j \in DOMAIN acc /\ r[j] = acc[j]
      <4>1. PICK i \in DOMAIN bs : i <= n /\ acc[j] = bs[i]
        BY <2>1, <2>5, <3>2 DEF CallsBefore
      <4>2. i <= k
        BY <1>1, <2>2, <4>1
      <4> QED BY <3>2, <4>1, <4>2
    <3> QED BY <2>6, <3>1, <3>2
  <2> QED BY <2>2, <2>4, <2>6, <2>7, <2>10
<1>12. \A n \in Nat : n \in A
  <2> HIDE DEF A
  <2> QED BY <1>10, <1>11, Counting
<1>13. PICK acc \in Seq(Blocks) : acc = F[at - 1] /\ acc = G[at - 1] /\ CallsBefore(acc, bs, at - 1)
  <2>1. at - 1 \in Nat /\ at - 1 < at
    BY <1>2
  <2>2. at - 1 \in A
    BY <1>12, <2>1
  <2> QED BY <2>1, <2>2
<1> HIDE DEF A
<1>14. PICK p \in Nat : p = Len(acc) + 1
  BY <1>13
<1> DEFINE K(n) == /\ F[n] \in Seq(Blocks) /\ p \in DOMAIN F[n] /\ F[n][p] = bs[at]
                   /\ G[n] = [F[n] EXCEPT ![p] = d] /\ CallsAround(F[n], bs, at, p)
<1> DEFINE B == {n \in Nat : at + n <= m => K(at + n)}
<1>15. 0 \in B
  <2>1. F[at] = Append(acc, bs[at]) /\ G[at] = Append(acc, d)
    BY <1>2, <1>4, <1>6, <1>9, <1>13 DEF JoinStep
  <2>2. PICK u, v : u = F[at] /\ v = G[at]
    OBVIOUS
  <2>3. /\ u \in Seq(Blocks) /\ DOMAIN u = 1 .. p /\ u[p] = bs[at] /\ \A j \in 1 .. Len(acc) : u[j] = acc[j]
        /\ v \in Seq(Blocks) /\ DOMAIN v = 1 .. p /\ v[p] = d /\ \A j \in 1 .. Len(acc) : v[j] = acc[j]
    BY <1>2, <1>4, <1>14, <2>1, <2>2
  <2>4. \A j \in 1 .. p : j = p \/ (j \in 1 .. Len(acc) /\ j \in DOMAIN acc /\ j < p)
    BY <1>13, <1>14
  <2>5. v = [u EXCEPT ![p] = d]
    <3>1. \A j \in 1 .. p : v[j] = IF j = p THEN d ELSE u[j]
      BY <2>3, <2>4
    <3>2. v = [j \in 1 .. p |-> v[j]]
      BY <2>3
    <3>3. [u EXCEPT ![p] = d] = [j \in 1 .. p |-> IF j = p THEN d ELSE u[j]]
      BY <2>3
    <3> QED BY <3>1, <3>2, <3>3
  <2>6. CallsAround(u, bs, at, p)
    <3> SUFFICES ASSUME NEW j \in DOMAIN u, u[j].kind = "tool", j # p PROVE j < p /\ \E i \in DOMAIN bs : i < at /\ u[j] = bs[i]
      BY DEF CallsAround
    <3>1. j \in DOMAIN acc /\ j < p /\ u[j] = acc[j]
      BY <2>3, <2>4
    <3>2. PICK i \in DOMAIN bs : i <= at - 1 /\ acc[j] = bs[i]
      BY <1>13, <3>1 DEF CallsBefore
    <3>3. i < at
      BY <1>1, <1>2, <3>2
    <3> QED BY <3>1, <3>2, <3>3
  <2>7. p \in DOMAIN u
    BY <1>14, <2>3
  <2>8. K(at)
    BY <2>2, <2>3, <2>5, <2>6, <2>7
  <2>9. at + 0 = at
    BY <1>2
  <2> HIDE DEF K
  <2> QED BY <2>8, <2>9
<1>16. ASSUME NEW n \in Nat, n \in B PROVE n + 1 \in B
  <2> SUFFICES ASSUME at + (n + 1) <= m PROVE K(at + (n + 1))
    OBVIOUS
  <2>1. PICK q : q = at + n
    OBVIOUS
  <2>2. PICK k : k = at + (n + 1)
    OBVIOUS
  <2>3. k \in 1 .. m /\ k # at /\ k - 1 = q /\ k > at /\ q <= m
    BY <1>2, <2>1, <2>2
  <2>4. K(q)
    <3> HIDE DEF K
    <3> QED BY <1>16, <2>1, <2>3
  <2>5. PICK old \in Seq(Blocks) : old = F[q]
    BY <2>4
  <2>6. PICK r : r = F[k]
    OBVIOUS
  <2>7. p \in DOMAIN old /\ old[p] = bs[at] /\ G[q] = [old EXCEPT ![p] = d] /\ CallsAround(old, bs, at, p)
    BY <2>4, <2>5
  <2>8. r = JoinStep(old, bs[k]) /\ G[k] = JoinStep([old EXCEPT ![p] = d], bs[k]) /\ bs[k] \in Blocks
    BY <1>6, <1>9, <2>3, <2>5, <2>6, <2>7
  <2>14. PICK b \in Blocks : b = bs[k]
    BY <2>8
  <2>15. r = JoinStep(old, b) /\ G[k] = JoinStep([old EXCEPT ![p] = d], b) /\ old[p].kind = "tool"
    BY <1>2, <2>7, <2>8, <2>14
  <2>9. G[k] = [r EXCEPT ![p] = d]
    BY <1>4, <2>5, <2>7, <2>14, <2>15, JoinFinished, SMTT(30)
  <2>10. /\ r \in Seq(Blocks) /\ Len(r) >= Len(old) /\ r[p] = old[p]
         /\ \A j \in DOMAIN r : r[j].kind = "tool" => (j \in DOMAIN old /\ r[j] = old[j]) \/ (j > Len(old) /\ r[j] = bs[k])
    <3>1. JoinedOn(old, b, r)
      BY <2>15, JoinStepIs
    <3> QED BY <2>7, <2>14, <2>15, <3>1 DEF JoinedOn
  <2>11. p \in DOMAIN r /\ p <= Len(old) /\ \A j \in DOMAIN r : j > Len(old) => j > p
    BY <2>7, <2>10
  <2>12. CallsAround(r, bs, at, p)
    <3> SUFFICES ASSUME NEW j \in DOMAIN r, r[j].kind = "tool", j # p
                 PROVE  \/ j < p /\ \E i \in DOMAIN bs : i < at /\ r[j] = bs[i]
                        \/ j > p /\ \E i \in DOMAIN bs : i > at /\ r[j] = bs[i]
      BY DEF CallsAround
    <3>1. CASE j \in DOMAIN old /\ r[j] = old[j]
      BY <2>7, <3>1 DEF CallsAround
    <3>2. CASE j > Len(old) /\ r[j] = bs[k]
      BY <1>1, <2>3, <2>11, <3>2
    <3> QED BY <2>10, <3>1, <3>2
  <2>13. K(k)
    BY <2>6, <2>7, <2>9, <2>10, <2>11, <2>12
  <2> HIDE DEF K
  <2> QED BY <2>2, <2>13
<1>17. K(m)
  <2>1. m - at \in Nat /\ at + (m - at) = m /\ m <= m
    BY <1>2
  <2>2. m - at \in B
    <3> HIDE DEF B
    <3> QED BY <1>15, <1>16, <2>1, Counting
  <2> HIDE DEF K
  <2> QED BY <2>1, <2>2
<1>18. PICK J \in Seq(Blocks) : J = Joined(bs)
  BY <1>7, <1>17
<1>19. p \in DOMAIN J /\ J[p] = bs[at] /\ Joined(cs) = [J EXCEPT ![p] = d] /\ CallsAround(J, bs, at, p)
  BY <1>7, <1>8, <1>17, <1>18
<1> HIDE DEF K, B
<1>20. Owns(J, p, id)
  <2>1. \/ id = J[p].id
        \/ /\ id = NoId /\ ~J[p].done
           /\ \A j \in DOMAIN J : j < p /\ J[j].kind = "tool" => J[j].done
    <3>1. CASE id = bs[at].id
      BY <1>19, <3>1
    <3>2. CASE id # bs[at].id
      <4>1. id = NoId /\ ~bs[at].done /\ \A j \in DOMAIN bs : j < at /\ bs[j].kind = "tool" => bs[j].done
        BY <3>2 DEF Owns
      <4>2. ASSUME NEW j \in DOMAIN J, j < p, J[j].kind = "tool" PROVE J[j].done
        <5>1. PICK i \in DOMAIN bs : i < at /\ J[j] = bs[i]
          BY <1>14, <1>19, <4>2 DEF CallsAround
        <5> QED BY <4>1, <4>2, <5>1
      <4> QED BY <1>19, <4>1, <4>2
    <3> QED BY <3>1, <3>2
  <2>2. ASSUME NEW j \in DOMAIN J, J[j].kind = "tool", J[j].id = J[p].id PROVE j = p
    <3> SUFFICES ASSUME j # p PROVE FALSE
      OBVIOUS
    <3>1. PICK i \in DOMAIN bs : i # at /\ J[j] = bs[i]
      BY <1>1, <1>2, <1>19, <2>2 DEF CallsAround
    <3>2. bs[i].kind = "tool" /\ bs[i].id = bs[at].id
      BY <1>19, <2>2, <3>1
    <3> QED BY <3>1, <3>2 DEF Owns
  <2> QED BY <1>2, <1>19, <2>1, <2>2 DEF Owns
<1>21. AttachToolResult(J, id, out) = [J EXCEPT ![p] = d]
  <2>1. AttachToolResult(J, id, out) = Finished(J, p, out)
    BY <1>20, AttachIs
  <2>2. Finished(J, p, out) = [J EXCEPT ![p] = Fin(J[p], out)]
    BY <1>19, FinishedIs
  <2> QED BY <1>3, <1>19, <2>1, <2>2
<1> QED BY <1>3, <1>5, <1>18, <1>19, <1>21

-----------------------------------------------------------------------------
(* Joining loses nothing of the shape *)

\* f is s without its last item, in the place of which another can stand.
IsFront(A, s, f) ==
  s = Append(f, s[Len(s)]) /\ \A b \in A : [s EXCEPT ![Len(s)] = b] = Append(f, b)

LEMMA LastApart ==
  ASSUME NEW A, NEW s \in Seq(A), s # <<>>
  PROVE  \E f \in Seq(A) : IsFront(A, s, f)
<1>1. PICK n \in Nat : n = Len(s) /\ n >= 1 /\ DOMAIN s = 1 .. n
  OBVIOUS
<1>2. PICK k \in Nat : k = n - 1
  BY <1>1
<1> DEFINE f == [i \in 1 .. k |-> s[i]]
<1>3. f \in Seq(A) /\ Len(f) = k
  <2>1. \A i \in 1 .. k : s[i] \in A
    BY <1>1, <1>2
  <2> QED BY <2>1
<1>4. \A i \in 1 .. k : f[i] = s[i]
  OBVIOUS
<1> HIDE DEF f
<1>5. ASSUME NEW b \in A PROVE [s EXCEPT ![n] = b] = Append(f, b)
  <2> DEFINE t == Append(f, b)
  <2>1. t \in Seq(A) /\ DOMAIN t = 1 .. n /\ t[n] = b /\ \A i \in 1 .. k : t[i] = s[i]
    BY <1>1, <1>2, <1>3, <1>4
  <2> HIDE DEF t
  <2>2. \A i \in 1 .. n : i = n \/ i \in 1 .. k
    BY <1>1, <1>2
  <2>3. \A i \in 1 .. n : t[i] = IF i = n THEN b ELSE s[i]
    BY <2>1, <2>2
  <2>4. t = [i \in 1 .. n |-> t[i]]
    BY <2>1
  <2>5. [s EXCEPT ![n] = b] = [i \in 1 .. n |-> IF i = n THEN b ELSE s[i]]
    BY <1>1
  <2>6. t = [s EXCEPT ![n] = b]
    BY <2>3, <2>4, <2>5
  <2> QED BY <2>6 DEF t
<1>6. s[n] \in A /\ [s EXCEPT ![n] = s[n]] = s
  BY <1>1
<1>7. s = Append(f, s[n])
  BY <1>5, <1>6
<1> QED BY <1>1, <1>3, <1>5, <1>7 DEF IsFront

Entries == [tool : Ids, said : Seq(Nat)]

\* A text onto the shape of what was there.
ShapeText(acc, text) ==
  IF acc # <<>> /\ acc[Len(acc)].tool = NoId THEN [acc EXCEPT ![Len(acc)].said = @ \o text]
  ELSE Append(acc, [tool |-> NoId, said |-> text])

LEMMA ShapeStepIs ==
  ASSUME NEW acc, NEW b \in Blocks
  PROVE  /\ b.kind = "text" => ShapeStep(acc, b) = ShapeText(acc, b.text)
         /\ b.kind = "tool" => ShapeStep(acc, b) = Append(acc, [tool |-> b.id, said |-> b.output])
BY DEF ShapeStep, ShapeText

\* What is said in two is said in one.
LEMMA SaidTwice ==
  ASSUME NEW f, NEW x \in Entries, x.tool = NoId, NEW v \in Seq(Nat), NEW s, s = Append(f, x), f \in Seq(Entries)
  PROVE  ShapeText(s, v) = Append(f, [tool |-> NoId, said |-> x.said \o v])
<1>1. s \in Seq(Entries) /\ s # <<>> /\ s[Len(s)] = x /\ Len(s) \in DOMAIN s
  OBVIOUS
<1> DEFINE y == [x EXCEPT !.said = x.said \o v]
<1>2. ShapeText(s, v) = [s EXCEPT ![Len(s)] = y]
  BY <1>1 DEF ShapeText
<1>3. x.said \in Seq(Nat)
  BY DEF Entries
<1>4. x.said \o v \in Seq(Nat)
  BY <1>3
<1>5. y = [tool |-> NoId, said |-> x.said \o v] /\ y \in Entries
  <2>1. PICK z \in Seq(Nat) : z = x.said \o v
    BY <1>4
  <2>2. [x EXCEPT !.said = z] = [tool |-> NoId, said |-> z] /\ [x EXCEPT !.said = z] \in Entries
    BY DEF Entries
  <2> QED BY <2>1, <2>2
<1> HIDE DEF y
<1>6. [s EXCEPT ![Len(s)] = y] = Append(f, y)
  <2> DEFINE t == Append(f, y)
             n == Len(f) + 1
  <2>1. n \in Nat /\ s \in Seq(Entries) /\ DOMAIN s = 1 .. n /\ Len(s) = n /\ \A i \in 1 .. Len(f) : s[i] = f[i]
    OBVIOUS
  <2>2. t \in Seq(Entries) /\ DOMAIN t = 1 .. n /\ t[n] = y /\ \A i \in 1 .. Len(f) : t[i] = f[i]
    BY <1>5
  <2>3. \A i \in 1 .. n : i = n \/ i \in 1 .. Len(f)
    OBVIOUS
  <2> HIDE DEF t, n
  <2>4. \A i \in 1 .. n : t[i] = IF i = n THEN y ELSE s[i]
    BY <2>1, <2>2, <2>3
  <2>5. t = [i \in 1 .. n |-> t[i]]
    BY <2>2
  <2>6. [s EXCEPT ![n] = y] = [i \in 1 .. n |-> IF i = n THEN y ELSE s[i]]
    BY <2>1
  <2>7. t = [s EXCEPT ![n] = y]
    BY <2>4, <2>5, <2>6
  <2> QED BY <2>1, <2>7 DEF t
<1> QED BY <1>2, <1>5, <1>6

\* c is p and then q.
IsConcat(p, q, c) ==
  /\ c \in Seq(Nat) /\ DOMAIN c = 1 .. Len(p) + Len(q) /\ Len(c) = Len(p) + Len(q)
  /\ \A i \in 1 .. Len(p) + Len(q) : c[i] = IF i <= Len(p) THEN p[i] ELSE q[i - Len(p)]

LEMMA ConcatIs ==
  ASSUME NEW p \in Seq(Nat), NEW q \in Seq(Nat), NEW c, c = p \o q
  PROVE  IsConcat(p, q, c)
BY DEF IsConcat

LEMMA Associative ==
  ASSUME NEW p \in Seq(Nat), NEW q \in Seq(Nat), NEW r \in Seq(Nat)
  PROVE  (p \o q) \o r = p \o (q \o r)
<1>1. PICK pq : pq = p \o q
  OBVIOUS
<1>2. PICK qr : qr = q \o r
  OBVIOUS
<1>3. /\ pq \in Seq(Nat) /\ Len(pq) = Len(p) + Len(q)
      /\ \A i \in 1 .. Len(p) + Len(q) : pq[i] = IF i <= Len(p) THEN p[i] ELSE q[i - Len(p)]
  BY <1>1, ConcatIs DEF IsConcat
<1>4. /\ qr \in Seq(Nat) /\ Len(qr) = Len(q) + Len(r)
      /\ \A i \in 1 .. Len(q) + Len(r) : qr[i] = IF i <= Len(q) THEN q[i] ELSE r[i - Len(q)]
  BY <1>2, ConcatIs DEF IsConcat
<1>5. PICK a : a = pq \o r
  OBVIOUS
<1>6. PICK b : b = p \o qr
  OBVIOUS
<1>7. PICK n \in Nat : n = Len(p) + Len(q) + Len(r)
  OBVIOUS
<1>11. Len(p) \in Nat /\ Len(q) \in Nat /\ Len(r) \in Nat
  OBVIOUS
<1>12. /\ a \in Seq(Nat) /\ DOMAIN a = 1 .. n
       /\ \A i \in 1 .. n : a[i] = IF i <= Len(p) + Len(q) THEN pq[i] ELSE r[i - (Len(p) + Len(q))]
  <2>1. /\ a \in Seq(Nat) /\ DOMAIN a = 1 .. Len(pq) + Len(r)
        /\ \A i \in 1 .. Len(pq) + Len(r) : a[i] = IF i <= Len(pq) THEN pq[i] ELSE r[i - Len(pq)]
    <3>1. IsConcat(pq, r, a)
      <4>1. pq \in Seq(Nat)
        BY <1>3
      <4> QED BY <1>5, <4>1, ConcatIs
    <3> QED BY <3>1 DEF IsConcat
  <2> QED BY <1>3, <1>7, <2>1
<1>13. /\ b \in Seq(Nat) /\ DOMAIN b = 1 .. n
       /\ \A i \in 1 .. n : b[i] = IF i <= Len(p) THEN p[i] ELSE qr[i - Len(p)]
  <2>1. /\ b \in Seq(Nat) /\ DOMAIN b = 1 .. Len(p) + Len(qr)
        /\ \A i \in 1 .. Len(p) + Len(qr) : b[i] = IF i <= Len(p) THEN p[i] ELSE qr[i - Len(p)]
    <3>1. IsConcat(p, qr, b)
      <4>1. qr \in Seq(Nat)
        BY <1>4
      <4> QED BY <1>6, <4>1, ConcatIs
    <3> QED BY <3>1 DEF IsConcat
  <2>2. Len(p) + Len(qr) = n
    BY <1>4, <1>7, <1>11
  <2> QED BY <2>1, <2>2
<1>8. ASSUME NEW i \in 1 .. n PROVE a[i] = b[i]
  <2>1. CASE i <= Len(p)
    <3>1. i \in 1 .. Len(p) + Len(q) /\ i <= Len(p) + Len(q)
      BY <1>7, <1>11, <2>1
    <3> QED BY <1>3, <1>12, <1>13, <2>1, <3>1
  <2>2. CASE ~(i <= Len(p)) /\ i <= Len(p) + Len(q)
    <3>1. i \in 1 .. Len(p) + Len(q) /\ i - Len(p) \in 1 .. Len(q) + Len(r) /\ i - Len(p) <= Len(q)
      BY <1>7, <1>11, <2>2
    <3> QED BY <1>3, <1>4, <1>12, <1>13, <2>2, <3>1
  <2>3. CASE ~(i <= Len(p)) /\ ~(i <= Len(p) + Len(q))
    <3>1. i - Len(p) \in 1 .. Len(q) + Len(r) /\ ~(i - Len(p) <= Len(q)) /\ (i - Len(p)) - Len(q) = i - (Len(p) + Len(q))
      BY <1>7, <1>11, <2>3
    <3> QED BY <1>4, <1>12, <1>13, <2>3, <3>1
  <2> QED BY <2>1, <2>2, <2>3
<1>9. a = [i \in 1 .. n |-> a[i]] /\ b = [i \in 1 .. n |-> b[i]]
  BY <1>12, <1>13
<1>10. a = b
  BY <1>8, <1>9
<1> QED BY <1>1, <1>2, <1>5, <1>6, <1>10

LEMMA SaidTogether ==
  ASSUME NEW acc \in Seq(Entries), NEW u \in Seq(Nat), NEW v \in Seq(Nat)
  PROVE  ShapeText(ShapeText(acc, u), v) = ShapeText(acc, u \o v)
<1>1. CASE acc # <<>> /\ acc[Len(acc)].tool = NoId
  <2>1. PICK f \in Seq(Entries) : acc = Append(f, acc[Len(acc)])
    BY <1>1, LastApart DEF IsFront
  <2>2. PICK x \in Entries : x = acc[Len(acc)]
    BY <1>1
  <2>3. x.tool = NoId /\ x.said \in Seq(Nat) /\ acc = Append(f, x)
    BY <1>1, <2>1, <2>2 DEF Entries
  <2>4. PICK xu : xu = x.said \o u
    OBVIOUS
  <2>5. PICK uv : uv = u \o v
    OBVIOUS
  <2>6. xu \in Seq(Nat) /\ uv \in Seq(Nat)
    BY <2>3, <2>4, <2>5
  <2>7. xu \o v = x.said \o uv
    <3>1. PICK w \in Seq(Nat) : w = x.said
      BY <2>3
    <3>2. (w \o u) \o v = w \o (u \o v)
      BY Associative
    <3> QED BY <2>4, <2>5, <3>1, <3>2
  <2>8. PICK y : y = [tool |-> NoId, said |-> xu]
    OBVIOUS
  <2>9. y \in Entries /\ y.tool = NoId /\ y.said = xu
    BY <2>6, <2>8 DEF Entries, Ids
  <2>10. ShapeText(acc, u) = Append(f, y)
    BY <2>1, <2>3, <2>4, <2>8, SaidTwice
  <2>11. ShapeText(ShapeText(acc, u), v) = Append(f, [tool |-> NoId, said |-> xu \o v])
    BY <2>1, <2>9, <2>10, SaidTwice
  <2>12. ShapeText(acc, uv) = Append(f, [tool |-> NoId, said |-> x.said \o uv])
    BY <2>1, <2>3, <2>6, SaidTwice
  <2> QED BY <2>5, <2>7, <2>11, <2>12
<1>2. CASE ~(acc # <<>> /\ acc[Len(acc)].tool = NoId)
  <2>1. PICK y : y = [tool |-> NoId, said |-> u]
    OBVIOUS
  <2>2. y \in Entries /\ y.tool = NoId /\ y.said = u
    BY <2>1 DEF Entries, Ids
  <2>3. ShapeText(acc, u) = Append(acc, y)
    BY <1>2, <2>1 DEF ShapeText
  <2>4. ShapeText(ShapeText(acc, u), v) = Append(acc, [tool |-> NoId, said |-> u \o v])
    BY <2>2, <2>3, SaidTwice
  <2>5. ShapeText(acc, u \o v) = Append(acc, [tool |-> NoId, said |-> u \o v])
    BY <1>2 DEF ShapeText
  <2> QED BY <2>4, <2>5
<1> QED BY <1>1, <1>2

LEMMA ShapeStepTyped ==
  ASSUME NEW acc \in Seq(Entries), NEW b \in Blocks
  PROVE  ShapeStep(acc, b) \in Seq(Entries)
<1>1. CASE b.kind = "tool"
  <2>1. [tool |-> b.id, said |-> b.output] \in Entries
    BY <1>1, BlockKinds DEF Entries, Ids
  <2> QED BY <1>1, <2>1, ShapeStepIs
<1>2. CASE b.kind = "text"
  <2>1. PICK u \in Seq(Nat) : u = b.text
    BY <1>2, BlockKinds
  <2>2. ShapeStep(acc, b) = ShapeText(acc, u)
    BY <1>2, <2>1, ShapeStepIs
  <2>3. CASE acc # <<>> /\ acc[Len(acc)].tool = NoId
    <3>1. PICK f \in Seq(Entries) : acc = Append(f, acc[Len(acc)])
      BY <2>3, LastApart DEF IsFront
    <3>2. PICK x \in Entries : x = acc[Len(acc)]
      BY <2>3
    <3>3. x.tool = NoId /\ x.said \in Seq(Nat) /\ acc = Append(f, x)
      BY <2>3, <3>1, <3>2 DEF Entries
    <3>4. PICK y : y = [tool |-> NoId, said |-> x.said \o u]
      OBVIOUS
    <3>5. x.said \o u \in Seq(Nat)
      BY <3>3
    <3>6. y \in Entries
      BY <3>4, <3>5 DEF Entries, Ids
    <3>7. ShapeText(acc, u) = Append(f, y)
      BY <3>1, <3>3, <3>4, SaidTwice
    <3> QED BY <2>2, <3>1, <3>6, <3>7
  <2>4. CASE ~(acc # <<>> /\ acc[Len(acc)].tool = NoId)
    <3>1. [tool |-> NoId, said |-> u] \in Entries
      BY DEF Entries, Ids
    <3>2. ShapeText(acc, u) = Append(acc, [tool |-> NoId, said |-> u])
      BY <2>4 DEF ShapeText
    <3> QED BY <2>2, <3>1, <3>2
  <2> QED BY <2>3, <2>4
<1> QED BY <1>1, <1>2, BlockKinds

LEMMA ShapeTyped ==
  ASSUME NEW bs \in Seq(Blocks)
  PROVE  Shape(bs) \in Seq(Entries)
<1>1. PICK m \in Nat : m = Len(bs) /\ DOMAIN bs = 1 .. m
  OBVIOUS
<1>2. PICK F : Chain("shape", bs, F) /\ Shape(bs) = F[m]
  BY <1>1, ChainExists DEF Folds, FoldOf
<1>3. F[0] = <<>> /\ \A n \in 1 .. m : F[n] = ShapeStep(F[n - 1], bs[n])
  BY <1>1, <1>2 DEF Chain, FoldStep
<1> DEFINE T == {n \in Nat : n <= m => F[n] \in Seq(Entries)}
<1>4. 0 \in T
  <2>1. <<>> \in Seq(Entries)
    OBVIOUS
  <2> QED BY <1>3, <2>1
<1>5. ASSUME NEW n \in Nat, n \in T PROVE n + 1 \in T
  <2> SUFFICES ASSUME n + 1 <= m PROVE F[n + 1] \in Seq(Entries)
    OBVIOUS
  <2>1. PICK k : k = n + 1
    OBVIOUS
  <2>2. k \in 1 .. m /\ k - 1 = n /\ F[n] \in Seq(Entries) /\ bs[k] \in Blocks
    BY <1>1, <1>5, <2>1
  <2>3. F[k] = ShapeStep(F[n], bs[k])
    BY <1>3, <2>2
  <2> QED BY <2>1, <2>2, <2>3, ShapeStepTyped
<1>6. m \in T
  <2> HIDE DEF T
  <2> QED BY <1>4, <1>5, Counting
<1> QED BY <1>2, <1>6

LEMMA JoinedTyped ==
  ASSUME NEW bs \in Seq(Blocks), NEW m \in Nat, DOMAIN bs = 1 .. m, NEW F, Chain("join", bs, F)
  PROVE  \A n \in 0 .. m : F[n] \in Seq(Blocks)
<1>3. F[0] = <<>> /\ \A n \in 1 .. m : F[n] = JoinStep(F[n - 1], bs[n])
  BY DEF Chain, FoldStep
<1> DEFINE T == {n \in Nat : n <= m => F[n] \in Seq(Blocks)}
<1>4. 0 \in T
  <2>1. <<>> \in Seq(Blocks)
    OBVIOUS
  <2> QED BY <1>3, <2>1
<1>5. ASSUME NEW n \in Nat, n \in T PROVE n + 1 \in T
  <2> SUFFICES ASSUME n + 1 <= m PROVE F[n + 1] \in Seq(Blocks)
    OBVIOUS
  <2>1. PICK k : k = n + 1
    OBVIOUS
  <2>2. k \in 1 .. m /\ k - 1 = n /\ F[n] \in Seq(Blocks) /\ bs[k] \in Blocks
    BY <1>5, <2>1
  <2>3. F[k] = JoinStep(F[n], bs[k])
    BY <1>3, <2>2
  <2>4. JoinedOn(F[n], bs[k], F[k])
    BY <2>2, <2>3, JoinStepIs
  <2> QED BY <2>1, <2>4 DEF JoinedOn
<1>6. \A n \in Nat : n \in T
  <2> HIDE DEF T
  <2> QED BY <1>4, <1>5, Counting
<1> QED BY <1>6

LEMMA ShapeJoin ==
  ASSUME NEW acc \in Seq(Blocks), NEW b \in Blocks
  PROVE  Shape(JoinStep(acc, b)) = ShapeStep(Shape(acc), b)
<1>0. ASSUME NEW f \in Seq(Blocks), NEW x \in Blocks PROVE Shape(Append(f, x)) = ShapeStep(Shape(f), x)
  BY FoldAppend DEF Folds, FoldOf, FoldStep
<1>1. CASE b.kind = "tool"
  BY <1>0, <1>1 DEF JoinStep
<1>2. CASE b.kind = "text"
  <2>1. PICK v \in Seq(Nat) : v = b.text
    BY <1>2, BlockKinds
  <2>2. JoinStep(acc, b) = JoinText(acc, v) /\ \A s : ShapeStep(s, b) = ShapeText(s, v)
    BY <1>2, <2>1, ShapeStepIs DEF JoinStep
  <2>3. CASE acc # <<>> /\ Last_(acc).kind = "text"
    <3>1. PICK w \in Blocks : w = acc[Len(acc)]
      BY <2>3
    <3>2. w \in TextBlocks /\ w.text \in Seq(Nat) /\ w.kind = "text"
      BY <2>3, <3>1, BlockKinds DEF Last_
    <3>3. PICK u \in Seq(Nat) : u = w.text
      BY <3>2
    <3> DEFINE x == [w EXCEPT !.text = u \o v]
    <3>4. u \o v \in Seq(Nat)
      OBVIOUS
    <3>5. x \in TextBlocks /\ x.text = u \o v
      BY <3>2, <3>4 DEF TextBlocks
    <3>6. x \in Blocks /\ x.kind = "text"
      BY <3>5 DEF Blocks, TextBlocks
    <3>7. PICK f \in Seq(Blocks) : acc = Append(f, w) /\ \A c \in Blocks : [acc EXCEPT ![Len(acc)] = c] = Append(f, c)
      BY <2>3, <3>1, LastApart DEF IsFront
    <3>8. JoinText(acc, v) = [acc EXCEPT ![Len(acc)] = x]
      BY <2>3, <3>1, <3>3 DEF JoinText
    <3> HIDE DEF x
    <3>9. JoinText(acc, v) = Append(f, x)
      BY <3>6, <3>7, <3>8
    <3>10. Shape(Append(f, x)) = ShapeText(Shape(f), u \o v)
      <4>1. Shape(Append(f, x)) = ShapeStep(Shape(f), x)
        BY <1>0, <3>6
      <4>2. PICK sf : sf = Shape(f)
        OBVIOUS
      <4>3. ShapeStep(sf, x) = ShapeText(sf, x.text)
        BY <3>6, ShapeStepIs
      <4> QED BY <3>5, <4>1, <4>2, <4>3
    <3>11. Shape(acc) = ShapeText(Shape(f), u)
      BY <1>0, <3>2, <3>3, <3>7, ShapeStepIs
    <3>12. Shape(f) \in Seq(Entries)
      BY ShapeTyped
    <3>13. ShapeText(ShapeText(Shape(f), u), v) = ShapeText(Shape(f), u \o v)
      BY <3>12, SaidTogether
    <3> QED BY <2>2, <3>9, <3>10, <3>11, <3>13
  <2>4. CASE ~(acc # <<>> /\ Last_(acc).kind = "text")
    <3>1. PICK x : x = TextBlock(NoId, v)
      OBVIOUS
    <3>2. x \in Blocks /\ x.kind = "text" /\ x.text = v
      BY <3>1 DEF TextBlock, Blocks, TextBlocks
    <3>3. JoinText(acc, v) = Append(acc, x)
      BY <2>4, <3>1 DEF JoinText
    <3>4. Shape(Append(acc, x)) = ShapeText(Shape(acc), v)
      BY <1>0, <3>2, ShapeStepIs
    <3> QED BY <2>2, <3>3, <3>4
  <2> QED BY <2>3, <2>4
<1> QED BY <1>1, <1>2, BlockKinds

LEMMA ShapeJoined ==
  ASSUME NEW bs \in Seq(Blocks)
  PROVE  Shape(Joined(bs)) = Shape(bs)
<1>1. PICK m \in Nat : m = Len(bs) /\ DOMAIN bs = 1 .. m
  OBVIOUS
<1>2. PICK F : Chain("join", bs, F) /\ Joined(bs) = F[m]
  BY <1>1, ChainExists DEF Folds, FoldOf
<1>3. F[0] = <<>> /\ \A n \in 1 .. m : F[n] = JoinStep(F[n - 1], bs[n])
  BY <1>1, <1>2 DEF Chain, FoldStep
<1>4. \A n \in 0 .. m : F[n] \in Seq(Blocks)
  BY <1>1, <1>2, JoinedTyped
<1> DEFINE G == [n \in 0 .. m |-> Shape(F[n])]
<1>5. G[0] = <<>>
  <2>1. Shape(<<>>) = <<>>
    BY FoldEmpty DEF Folds, FoldOf
  <2> QED BY <1>3, <2>1
<1>6. ASSUME NEW n \in 1 .. m PROVE G[n] = ShapeStep(G[n - 1], bs[n])
  <2>1. n - 1 \in 0 .. m /\ n \in 0 .. m /\ bs[n] \in Blocks
    BY <1>1
  <2>2. Shape(F[n]) = ShapeStep(Shape(F[n - 1]), bs[n])
    BY <1>3, <1>4, <2>1, ShapeJoin
  <2> QED BY <2>1, <2>2
<1>7. G[m] = Shape(F[m])
  OBVIOUS
<1> HIDE DEF G
<1>8. Chain("shape", bs, G)
  BY <1>1, <1>5, <1>6 DEF Chain, FoldStep
<1>9. Shape(bs) = G[m]
  BY <1>1, <1>8, ChainIsFold DEF Folds, FoldOf
<1> QED BY <1>2, <1>7, <1>9

-----------------------------------------------------------------------------
(* The history tells the turn on screen *)

\* l is the last item of the history that is no result; 0 when there is none.
IsLastSaid(d, l) ==
  \/ l = 0 /\ \A j \in DOMAIN d : d[j].role = "toolResult"
  \/ l \in DOMAIN d /\ d[l].role # "toolResult" /\ \A j \in DOMAIN d : j > l => d[j].role = "toolResult"

SaysText(d, l) == l # 0 /\ d[l].role = "text"
EndsInText(bs) == bs # <<>> /\ Last_(bs).kind = "text"

\* The history and the turn with another text in the place of the one they end in.
Retell(d, l, t) == IF SaysText(d, l) THEN [d EXCEPT ![l].text = t] ELSE d
RetellBlock(bs, t) == IF EndsInText(bs) THEN [bs EXCEPT ![Len(bs)] = TextBlock(NoId, t)] ELSE bs

SameEnd(d, bs, l) ==
  /\ SaysText(d, l) <=> EndsInText(bs)
  /\ SaysText(d, l) => d[l].id = Last_(bs).id /\ d[l].text = Last_(bs).text

\* Every text on screen is an item of the history, and of the last only one is.
Narrated(d, bs, l) ==
  \A i \in DOMAIN bs : bs[i].kind = "text" =>
    \E j \in DOMAIN d : d[j].role = "text" /\ d[j].id = bs[i].id /\ (i < Len(bs) => j # l)

\* Whatever the text they end in becomes, a reload shows the turn joined: later results do not depend on it.
SameTelling(d, bs, l) == \A t \in Seq(Nat) : HistoryToMsgs(Retell(d, l, t)) = Joined(RetellBlock(bs, t))

RestoredAs(d, bs, l) == IsLastSaid(d, l) /\ SameEnd(d, bs, l) /\ Narrated(d, bs, l) /\ SameTelling(d, bs, l)

LEMMA ItemIs ==
  ASSUME NEW d \in Seq(DocItems), NEW l, IsLastSaid(d, l)
  PROVE  /\ l # 0 => l \in DOMAIN d /\ d[l] \in DocItems /\ d[l].text \in Seq(Nat)
         /\ l \in Nat /\ l <= Len(d)
<1>1. l # 0 => l \in DOMAIN d
  BY DEF IsLastSaid
<1>2. \A i \in DOMAIN d : d[i] \in DocItems
  OBVIOUS
<1>3. \A x \in DocItems : x.text \in Seq(Nat)
  BY DEF DocItems
<1>4. l \in Nat /\ l <= Len(d)
  BY <1>1
<1> QED BY <1>1, <1>2, <1>3, <1>4

LEMMA LastIs ==
  ASSUME NEW bs \in Seq(Blocks), EndsInText(bs)
  PROVE  Len(bs) \in DOMAIN bs /\ Last_(bs) = bs[Len(bs)] /\ Last_(bs) \in TextBlocks /\ Last_(bs).text \in Seq(Nat)
<1>1. Len(bs) \in DOMAIN bs /\ bs[Len(bs)] \in Blocks /\ bs[Len(bs)].kind = "text" /\ Last_(bs) = bs[Len(bs)]
  BY DEF EndsInText, Last_
<1> QED BY <1>1, BlockKinds

LEMMA NewText ==
  ASSUME NEW id \in Narrations \cup {NoId}, NEW t \in Seq(Nat)
  PROVE  /\ TextBlock(id, t) \in TextBlocks /\ TextBlock(id, t) \in Blocks /\ TextBlock(id, t).kind = "text"
         /\ TextBlock(id, t).id = id /\ TextBlock(id, t).text = t
BY DEF TextBlock, Blocks, TextBlocks

LEMMA JoinAppend ==
  ASSUME NEW f \in Seq(Blocks), NEW b \in Blocks
  PROVE  /\ b.kind = "text" => Joined(Append(f, b)) = JoinText(Joined(f), b.text)
         /\ b.kind = "tool" => Joined(Append(f, b)) = Append(Joined(f), b)
<1>1. Joined(Append(f, b)) = JoinStep(Joined(f), b)
  BY FoldAppend DEF Folds, FoldOf, FoldStep
<1> QED BY <1>1 DEF JoinStep

LEMMA TellAppend ==
  ASSUME NEW d \in Seq(DocItems), NEW it \in DocItems
  PROVE  /\ it.role = "text" => HistoryToMsgs(Append(d, it)) = JoinText(HistoryToMsgs(d), it.text)
         /\ it.role = "toolCall" => HistoryToMsgs(Append(d, it)) = Append(HistoryToMsgs(d), ToolBlock(it.id))
         /\ it.role = "toolResult" => HistoryToMsgs(Append(d, it)) = AttachToolResult(HistoryToMsgs(d), it.id, it.chunk)
<1>1. HistoryToMsgs(Append(d, it)) = HistoryItem(HistoryToMsgs(d), it)
  BY FoldAppend DEF Folds, FoldOf, FoldStep
<1> QED BY <1>1 DEF HistoryItem, JoinText

\* As it stands, the history tells the turn joined.
LEMMA RestoredNow ==
  ASSUME NEW d \in Seq(DocItems), NEW bs \in Seq(Blocks), NEW l, RestoredAs(d, bs, l)
  PROVE  HistoryToMsgs(d) = Joined(bs)
<1>1. CASE SaysText(d, l)
  <2>1. EndsInText(bs) /\ d[l].text = Last_(bs).text
    BY <1>1 DEF RestoredAs, SameEnd
  <2>2. PICK t \in Seq(Nat) : t = d[l].text
    BY <1>1, ItemIs DEF RestoredAs, SaysText
  <2>3. HistoryToMsgs(Retell(d, l, t)) = Joined(RetellBlock(bs, t))
    BY DEF RestoredAs, SameTelling
  <2>4. Retell(d, l, t) = d
    <3>1. l \in DOMAIN d /\ d[l] \in DocItems
      BY <1>1, ItemIs DEF RestoredAs, SaysText
    <3>2. [d[l] EXCEPT !.text = t] = d[l]
      BY <2>2, <3>1 DEF DocItems
    <3>3. Retell(d, l, t) = [d EXCEPT ![l] = [d[l] EXCEPT !.text = t]]
      BY <1>1 DEF Retell
    <3> QED BY <3>1, <3>2, <3>3
  <2>5. Joined(RetellBlock(bs, t)) = Joined(bs)
    <3>1. Last_(bs) \in TextBlocks /\ Last_(bs) = bs[Len(bs)] /\ Last_(bs).text = t
      BY <2>1, <2>2, LastIs
    <3>2. PICK b \in Blocks : b = Last_(bs) /\ b.kind = "text" /\ b.text = t
      BY <3>1 DEF Blocks, TextBlocks
    <3>3. PICK f \in Seq(Blocks) : bs = Append(f, b) /\ \A c \in Blocks : [bs EXCEPT ![Len(bs)] = c] = Append(f, c)
      <4>1. bs # <<>>
        BY <2>1 DEF EndsInText
      <4>2. PICK f \in Seq(Blocks) : bs = Append(f, bs[Len(bs)]) /\ \A c \in Blocks : [bs EXCEPT ![Len(bs)] = c] = Append(f, c)
        <5>1. PICK f \in Seq(Blocks) : IsFront(Blocks, bs, f)
          BY <4>1, LastApart
        <5> QED BY <5>1 DEF IsFront
      <4> QED BY <3>1, <3>2, <4>2
    <3>4. PICK c \in Blocks : c = TextBlock(NoId, t) /\ c.kind = "text" /\ c.text = t
      <4>1. NoId \in Narrations \cup {NoId}
        OBVIOUS
      <4>2. TextBlock(NoId, t) \in Blocks /\ TextBlock(NoId, t).kind = "text" /\ TextBlock(NoId, t).text = t
        BY <4>1, NewText
      <4> QED BY <4>2
    <3>5. RetellBlock(bs, t) = Append(f, c)
      BY <2>1, <3>3, <3>4 DEF RetellBlock
    <3> QED BY <3>2, <3>3, <3>4, <3>5, JoinAppend
  <2> QED BY <2>3, <2>4, <2>5
<1>2. CASE ~SaysText(d, l)
  <2>1. <<>> \in Seq(Nat) /\ Retell(d, l, <<>>) = d /\ RetellBlock(bs, <<>>) = bs
    BY <1>2 DEF RestoredAs, SameEnd, Retell, RetellBlock
  <2> QED BY <2>1 DEF RestoredAs, SameTelling
<1> QED BY <1>1, <1>2

\* The turn says or calls something new.
LEMMA SaidAnew ==
  ASSUME NEW d \in Seq(DocItems), NEW bs \in Seq(Blocks), NEW l, RestoredAs(d, bs, l),
         NEW it \in DocItems, it.role # "toolResult", NEW b \in Blocks,
         \/ it.role = "text" /\ b.kind = "text" /\ b.id = it.id /\ b.text = it.text
         \/ it.role = "toolCall" /\ b = ToolBlock(it.id) /\ b.kind = "tool"
  PROVE  RestoredAs(Append(d, it), Append(bs, b), Len(d) + 1)
<1>1. PICK e : e = Append(d, it)
  OBVIOUS
<1>2. PICK cs : cs = Append(bs, b)
  OBVIOUS
<1>3. PICK k \in Nat : k = Len(d) + 1 /\ k # 0
  OBVIOUS
<1>4. PICK n \in Nat : n = Len(bs) + 1 /\ n # 0
  OBVIOUS
<1>5. /\ e \in Seq(DocItems) /\ DOMAIN e = 1 .. k /\ Len(e) = k /\ e[k] = it /\ \A j \in DOMAIN d : e[j] = d[j]
      /\ DOMAIN d = 1 .. Len(d) /\ Len(d) \in Nat /\ k \in DOMAIN e
  BY <1>1, <1>3
<1>6. /\ cs \in Seq(Blocks) /\ DOMAIN cs = 1 .. n /\ Len(cs) = n /\ cs[n] = b /\ \A i \in DOMAIN bs : cs[i] = bs[i]
      /\ DOMAIN bs = 1 .. Len(bs) /\ Len(bs) \in Nat /\ cs # <<>> /\ Last_(cs) = b
  BY <1>2, <1>4 DEF Last_
<1>7. IsLastSaid(e, k)
  BY <1>5 DEF IsLastSaid
<1>8. SameEnd(e, cs, k)
  BY <1>3, <1>5, <1>6 DEF SameEnd, SaysText, EndsInText
<1>9. Narrated(e, cs, k)
  <2> SUFFICES ASSUME NEW i \in DOMAIN cs, cs[i].kind = "text"
               PROVE  \E j \in DOMAIN e : e[j].role = "text" /\ e[j].id = cs[i].id /\ (i < Len(cs) => j # k)
    BY DEF Narrated
  <2>1. CASE i \in DOMAIN bs
    <3>1. PICK j \in DOMAIN d : d[j].role = "text" /\ d[j].id = bs[i].id
      BY <1>6, <2>1 DEF RestoredAs, Narrated
    <3>2. j \in DOMAIN e /\ j # k /\ e[j] = d[j]
      BY <1>3, <1>5, <3>1
    <3> QED BY <1>6, <2>1, <3>1, <3>2
  <2>2. CASE i \notin DOMAIN bs
    <3>1. i = n
      BY <1>4, <1>6, <2>2
    <3> QED BY <1>4, <1>5, <1>6, <3>1
  <2> QED BY <2>1, <2>2
<1>10. HistoryToMsgs(d) = Joined(bs)
  BY RestoredNow
<1>11. SameTelling(e, cs, k)
  <2> SUFFICES ASSUME NEW t \in Seq(Nat) PROVE HistoryToMsgs(Retell(e, k, t)) = Joined(RetellBlock(cs, t))
    BY DEF SameTelling
  <2>1. CASE it.role = "text"
    <3> DEFINE x == [it EXCEPT !.text = t]
    <3>1. x \in DocItems /\ x.role = "text" /\ x.text = t
      BY <2>1 DEF DocItems
    <3>2. [e EXCEPT ![k].text = t] = [e EXCEPT ![k] = x]
      BY <1>5
    <3> HIDE DEF x
    <3>3. Retell(e, k, t) = Append(d, x)
      <4>1. Retell(e, k, t) = [e EXCEPT ![k] = x]
        BY <1>3, <1>5, <2>1, <3>2 DEF Retell, SaysText
      <4>2. PICK g : g = Append(d, x)
        OBVIOUS
      <4>3. g \in Seq(DocItems) /\ DOMAIN g = 1 .. k /\ g[k] = x /\ \A j \in DOMAIN d : g[j] = d[j]
        BY <1>3, <3>1, <4>2
      <4>4. \A j \in 1 .. k : j = k \/ j \in DOMAIN d
        BY <1>3, <1>5
      <4>5. \A j \in 1 .. k : g[j] = IF j = k THEN x ELSE e[j]
        BY <1>5, <4>3, <4>4
      <4>6. g = [j \in 1 .. k |-> g[j]]
        BY <4>3
      <4>7. [e EXCEPT ![k] = x] = [j \in 1 .. k |-> IF j = k THEN x ELSE e[j]]
        BY <1>5
      <4> QED BY <4>1, <4>2, <4>5, <4>6, <4>7
    <3>4. PICK c \in Blocks : c = TextBlock(NoId, t) /\ c.kind = "text" /\ c.text = t
      <4>1. NoId \in Narrations \cup {NoId}
        OBVIOUS
      <4>2. TextBlock(NoId, t) \in Blocks /\ TextBlock(NoId, t).kind = "text" /\ TextBlock(NoId, t).text = t
        BY <4>1, NewText
      <4> QED BY <4>2
    <3>5. RetellBlock(cs, t) = Append(bs, c)
      <4>1. RetellBlock(cs, t) = [cs EXCEPT ![n] = c]
        BY <1>6, <2>1, <3>4 DEF RetellBlock, EndsInText
      <4>2. PICK g : g = Append(bs, c)
        OBVIOUS
      <4>3. g \in Seq(Blocks) /\ DOMAIN g = 1 .. n /\ g[n] = c /\ \A j \in DOMAIN bs : g[j] = bs[j]
        BY <1>4, <4>2
      <4>4. \A j \in 1 .. n : j = n \/ j \in DOMAIN bs
        BY <1>4, <1>6
      <4>5. \A j \in 1 .. n : g[j] = IF j = n THEN c ELSE cs[j]
        BY <1>6, <4>3, <4>4
      <4>6. g = [j \in 1 .. n |-> g[j]]
        BY <4>3
      <4>7. [cs EXCEPT ![n] = c] = [j \in 1 .. n |-> IF j = n THEN c ELSE cs[j]]
        BY <1>6
      <4> QED BY <4>1, <4>2, <4>5, <4>6, <4>7
    <3>6. HistoryToMsgs(Append(d, x)) = JoinText(HistoryToMsgs(d), t)
      BY <3>1, TellAppend
    <3>7. Joined(Append(bs, c)) = JoinText(Joined(bs), t)
      BY <3>4, JoinAppend
    <3> QED BY <1>10, <3>3, <3>5, <3>6, <3>7
  <2>2. CASE it.role = "toolCall"
    <3>1. Retell(e, k, t) = Append(d, it) /\ RetellBlock(cs, t) = Append(bs, b)
      BY <1>1, <1>2, <1>5, <1>6, <2>2 DEF Retell, SaysText, RetellBlock, EndsInText
    <3>2. HistoryToMsgs(Append(d, it)) = Append(HistoryToMsgs(d), b)
      BY <2>2, TellAppend
    <3>3. Joined(Append(bs, b)) = Append(Joined(bs), b)
      BY <2>2, JoinAppend
    <3> QED BY <1>10, <3>1, <3>2, <3>3
  <2> QED BY <2>1, <2>2
<1> QED BY <1>1, <1>2, <1>3, <1>7, <1>8, <1>9, <1>11 DEF RestoredAs

\* The text the turn ends in is told anew.
LEMMA SaidAgain ==
  ASSUME NEW d \in Seq(DocItems), NEW bs \in Seq(Blocks), NEW l, RestoredAs(d, bs, l), SaysText(d, l),
         NEW u \in Seq(Nat), NEW b \in TextBlocks, b.id = Last_(bs).id, b.text = u,
         NEW e, e = [d EXCEPT ![l].text = u], NEW cs, cs = [bs EXCEPT ![Len(bs)] = b]
  PROVE  RestoredAs(e, cs, l)
<1>1. /\ l # 0 /\ l \in DOMAIN d /\ d[l] \in DocItems /\ d[l].role = "text" /\ IsLastSaid(d, l)
      /\ EndsInText(bs) /\ d[l].id = Last_(bs).id
  BY ItemIs DEF RestoredAs, SaysText, SameEnd
<1>2. PICK n \in Nat : n = Len(bs) /\ n \in DOMAIN bs /\ DOMAIN bs = 1 .. n /\ bs[n] = Last_(bs) /\ bs[n].kind = "text"
  BY <1>1, LastIs, SMTT(30) DEF EndsInText
<1>3. b \in Blocks /\ b.kind = "text"
  BY DEF Blocks, TextBlocks
<1>4. PICK x : x = [d[l] EXCEPT !.text = u]
  OBVIOUS
<1>5. x \in DocItems /\ x.role = "text" /\ x.id = d[l].id /\ x.text = u
  BY <1>1, <1>4 DEF DocItems
<1>6. e = [d EXCEPT ![l].text = u]
  OBVIOUS
<1>7. e = [d EXCEPT ![l] = x]
  BY <1>4, <1>6
<1>8. e \in Seq(DocItems) /\ DOMAIN e = DOMAIN d /\ e[l] = x /\ \A j \in DOMAIN d : j # l => e[j] = d[j]
  <2>1. PICK g : g = [d EXCEPT ![l] = x]
    OBVIOUS
  <2>2. g \in Seq(DocItems) /\ DOMAIN g = DOMAIN d
    BY <1>1, <1>5, <2>1
  <2>3. g[l] = x /\ \A j \in DOMAIN d : j # l => g[j] = d[j]
    BY <1>1, <2>1
  <2> QED BY <1>7, <2>1, <2>2, <2>3
<1>9. cs = [bs EXCEPT ![n] = b]
  BY <1>2
<1>10. /\ cs \in Seq(Blocks) /\ DOMAIN cs = DOMAIN bs /\ Len(cs) = n /\ cs[n] = b
       /\ \A i \in DOMAIN bs : i # n => cs[i] = bs[i]
  BY <1>2, <1>3, <1>9
<1>11. cs # <<>> /\ Last_(cs) = b /\ EndsInText(cs)
  BY <1>2, <1>3, <1>10 DEF Last_, EndsInText
<1>12. IsLastSaid(e, l)
  BY <1>1, <1>5, <1>8 DEF IsLastSaid
<1>13. SaysText(e, l)
  BY <1>1, <1>5, <1>8 DEF SaysText
<1>14. SameEnd(e, cs, l)
  BY <1>1, <1>5, <1>8, <1>11, <1>13 DEF SameEnd
<1>15. Narrated(e, cs, l)
  <2> SUFFICES ASSUME NEW i \in DOMAIN cs, cs[i].kind = "text"
               PROVE  \E j \in DOMAIN e : e[j].role = "text" /\ e[j].id = cs[i].id /\ (i < Len(cs) => j # l)
    BY DEF Narrated
  <2>1. CASE i = n
    <3>1. ~(i < Len(cs))
      BY <1>2, <1>10, <2>1
    <3> QED BY <1>1, <1>5, <1>8, <1>10, <2>1, <3>1
  <2>2. CASE i # n
    <3>1. i \in DOMAIN bs /\ cs[i] = bs[i] /\ i < Len(bs) /\ i < Len(cs)
      BY <1>2, <1>10, <2>2
    <3>2. PICK j \in DOMAIN d : d[j].role = "text" /\ d[j].id = bs[i].id /\ j # l
      BY <3>1 DEF RestoredAs, Narrated
    <3> QED BY <1>8, <3>1, <3>2
  <2> QED BY <2>1, <2>2
<1>16. SameTelling(e, cs, l)
  <2> SUFFICES ASSUME NEW t \in Seq(Nat) PROVE HistoryToMsgs(Retell(e, l, t)) = Joined(RetellBlock(cs, t))
    BY DEF SameTelling
  <2>1. PICK y : y = [d[l] EXCEPT !.text = t]
    OBVIOUS
  <2>2. [x EXCEPT !.text = t] = y
    BY <1>1, <1>4, <2>1 DEF DocItems
  <2>3. Retell(e, l, t) = [e EXCEPT ![l] = y]
    BY <1>8, <1>13, <2>2 DEF Retell
  <2>4. Retell(d, l, t) = [d EXCEPT ![l] = y]
    BY <2>1 DEF Retell
  <2>5. [e EXCEPT ![l] = y] = [d EXCEPT ![l] = y]
    BY <1>1, <1>7
  <2>6. PICK c : c = TextBlock(NoId, t)
    OBVIOUS
  <2>7. RetellBlock(cs, t) = [cs EXCEPT ![n] = c] /\ RetellBlock(bs, t) = [bs EXCEPT ![n] = c]
    BY <1>1, <1>2, <1>10, <1>11, <2>6 DEF RetellBlock
  <2>8. [cs EXCEPT ![n] = c] = [bs EXCEPT ![n] = c]
    BY <1>2, <1>9
  <2>9. HistoryToMsgs(Retell(d, l, t)) = Joined(RetellBlock(bs, t))
    BY DEF RestoredAs, SameTelling
  <2> QED BY <2>3, <2>4, <2>5, <2>7, <2>8, <2>9
<1> QED BY <1>2, <1>6, <1>9, <1>12, <1>14, <1>15, <1>16 DEF RestoredAs

\* attachToolResult finishes the same call whether the texts around it are joined or not.
Attaches(bs, at, id, out) == AttachToolResult(Joined(bs), id, out) = Joined([bs EXCEPT ![at] = Fin(bs[at], out)])

LEMMA Attaching ==
  ASSUME NEW bs \in Seq(Blocks), NEW at, NEW id, NEW out \in Nat, Owns(bs, at, id)
  PROVE  Attaches(bs, at, id, out)
BY JoinAttach DEF Attaches

\* A call returns: the history attaches the result where the stream did.
LEMMA Returned ==
  ASSUME NEW d \in Seq(DocItems), NEW bs \in Seq(Blocks), NEW l, RestoredAs(d, bs, l),
         NEW it \in DocItems, it.role = "toolResult", NEW at, Owns(bs, at, it.id)
  PROVE  RestoredAs(Append(d, it), [bs EXCEPT ![at] = Fin(bs[at], it.chunk)], l)
<1>1. PICK id : id = it.id
  OBVIOUS
<1>2. PICK out \in Nat : out = it.chunk
  BY DEF DocItems
<1>3. PICK n \in Nat : n = Len(bs) /\ DOMAIN bs = 1 .. n
  OBVIOUS
<1>4. at \in 1 .. n /\ bs[at] \in Blocks /\ bs[at].kind = "tool" /\ bs # <<>> /\ n \in 1 .. n
  BY <1>3 DEF Owns
<1>5. PICK f : f = Fin(bs[at], out)
  OBVIOUS
<1>6. f \in Blocks /\ f.kind = "tool" /\ f.id = bs[at].id
  BY <1>4, <1>5, FinIs
<1>7. PICK cs : cs = [bs EXCEPT ![at] = f]
  OBVIOUS
<1>8. /\ cs \in Seq(Blocks) /\ DOMAIN cs = 1 .. n /\ Len(cs) = n /\ cs[at] = f /\ \A i \in 1 .. n : i # at => cs[i] = bs[i]
      /\ cs # <<>>
  BY <1>3, <1>4, <1>6, <1>7
<1>9. PICK e : e = Append(d, it)
  OBVIOUS
<1>10. PICK k \in Nat : k = Len(d) + 1
  OBVIOUS
<1>11. /\ e \in Seq(DocItems) /\ DOMAIN e = 1 .. k /\ e[k] = it /\ \A j \in DOMAIN d : e[j] = d[j]
       /\ DOMAIN d = 1 .. Len(d) /\ Len(d) \in Nat /\ \A j \in 1 .. k : j = k \/ j \in DOMAIN d
  BY <1>9, <1>10
<1>12. IsLastSaid(d, l) /\ (l # 0 => l \in DOMAIN d /\ l # k /\ e[l] = d[l] /\ l \in DOMAIN e)
  BY <1>10, <1>11, ItemIs DEF RestoredAs
<1>13. IsLastSaid(e, l)
  BY <1>11, <1>12 DEF IsLastSaid
<1>14. SaysText(e, l) <=> SaysText(d, l)
  BY <1>12 DEF SaysText
<1>15. /\ EndsInText(cs) <=> EndsInText(bs)
       /\ EndsInText(bs) => Last_(cs) = Last_(bs) /\ at # n
  <2>1. Last_(cs) = cs[n] /\ Last_(bs) = bs[n]
    BY <1>3, <1>8 DEF Last_
  <2> QED BY <1>4, <1>6, <1>8, <2>1 DEF EndsInText
<1>16. SameEnd(e, cs, l)
  BY <1>12, <1>14, <1>15 DEF RestoredAs, SameEnd, SaysText
<1>17. Narrated(e, cs, l)
  <2> SUFFICES ASSUME NEW i \in DOMAIN cs, cs[i].kind = "text"
               PROVE  \E j \in DOMAIN e : e[j].role = "text" /\ e[j].id = cs[i].id /\ (i < Len(cs) => j # l)
    BY DEF Narrated
  <2>1. i \in DOMAIN bs /\ cs[i] = bs[i]
    BY <1>3, <1>6, <1>8
  <2>2. PICK j \in DOMAIN d : d[j].role = "text" /\ d[j].id = bs[i].id /\ (i < Len(bs) => j # l)
    BY <2>1 DEF RestoredAs, Narrated
  <2>3. j \in DOMAIN e /\ e[j] = d[j]
    BY <1>10, <1>11
  <2> QED BY <1>3, <1>8, <2>1, <2>2, <2>3
<1>18. SameTelling(e, cs, l)
  <2> SUFFICES ASSUME NEW t \in Seq(Nat) PROVE HistoryToMsgs(Retell(e, l, t)) = Joined(RetellBlock(cs, t))
    BY DEF SameTelling
  <2>1. PICK rd : rd = Retell(d, l, t)
    OBVIOUS
  <2>2. PICK rb : rb = RetellBlock(bs, t)
    OBVIOUS
  <2>3. rd \in Seq(DocItems) /\ Retell(e, l, t) = Append(rd, it)
    <3>1. CASE SaysText(d, l)
      <4>1. PICK x : x = [d[l] EXCEPT !.text = t]
        OBVIOUS
      <4>2. l \in DOMAIN d /\ d[l] \in DocItems
        BY <1>12, <3>1 DEF SaysText
      <4>3. x \in DocItems
        BY <4>1, <4>2 DEF DocItems
      <4>4. rd = [d EXCEPT ![l] = x]
        BY <2>1, <3>1, <4>1 DEF Retell
      <4>5. Retell(e, l, t) = [e EXCEPT ![l] = x]
        BY <1>12, <1>14, <3>1, <4>1, <4>2 DEF Retell, SaysText
      <4>6. rd \in Seq(DocItems) /\ Len(rd) = Len(d) /\ DOMAIN rd = DOMAIN d /\ rd[l] = x /\ \A j \in DOMAIN d : j # l => rd[j] = d[j]
        BY <4>2, <4>3, <4>4
      <4>7. PICK g : g = Append(rd, it)
        OBVIOUS
      <4>8. g \in Seq(DocItems) /\ DOMAIN g = 1 .. k /\ g[k] = it /\ \A j \in DOMAIN d : g[j] = rd[j]
        BY <1>10, <4>6, <4>7
      <4>9. \A j \in 1 .. k : g[j] = IF j = l THEN x ELSE e[j]
        BY <1>11, <1>12, <3>1, <4>6, <4>8 DEF SaysText
      <4>10. g = [j \in 1 .. k |-> g[j]]
        BY <4>8
      <4>11. [e EXCEPT ![l] = x] = [j \in 1 .. k |-> IF j = l THEN x ELSE e[j]]
        BY <1>11
      <4> QED BY <4>5, <4>6, <4>7, <4>9, <4>10, <4>11
    <3>2. CASE ~SaysText(d, l)
      BY <1>9, <1>14, <2>1, <3>2 DEF Retell
    <3> QED BY <3>1, <3>2
  <2>4. /\ rb \in Seq(Blocks) /\ DOMAIN rb = 1 .. n /\ Len(rb) = n /\ rb[at] = bs[at]
        /\ \A i \in 1 .. n : bs[i].kind = "tool" \/ rb[i].kind = "tool" => rb[i] = bs[i]
    <3>1. CASE EndsInText(bs)
      <4>1. PICK c \in Blocks : c = TextBlock(NoId, t) /\ c.kind = "text"
        <5>1. NoId \in Narrations \cup {NoId}
          OBVIOUS
        <5>2. TextBlock(NoId, t) \in Blocks /\ TextBlock(NoId, t).kind = "text"
          BY <5>1, NewText, ZenonT(30)
        <5> QED BY <5>2
      <4>2. rb = [bs EXCEPT ![n] = c]
        BY <1>3, <2>2, <3>1, <4>1 DEF RetellBlock
      <4>3. bs[n].kind = "text"
        BY <1>3, <3>1 DEF EndsInText, Last_
      <4>4. rb \in Seq(Blocks) /\ DOMAIN rb = 1 .. n /\ Len(rb) = n /\ rb[n] = c /\ \A i \in 1 .. n : i # n => rb[i] = bs[i]
        BY <1>3, <1>4, <4>2
      <4> QED BY <1>4, <1>15, <3>1, <4>1, <4>3, <4>4
    <3>2. CASE ~EndsInText(bs)
      BY <1>3, <2>2, <3>2 DEF RetellBlock
    <3> QED BY <3>1, <3>2
  <2>5. Owns(rb, at, id)
    BY <1>1, <1>3, <1>4, <2>4 DEF Owns
  <2>6. AttachToolResult(Joined(rb), id, out) = Joined([rb EXCEPT ![at] = f])
    <3>1. rb \in Seq(Blocks) /\ out \in Nat
      BY <2>4
    <3>2. Attaches(rb, at, id, out)
      BY <2>5, <3>1, Attaching
    <3> QED BY <1>5, <2>4, <3>2 DEF Attaches
  <2>7. [rb EXCEPT ![at] = f] = RetellBlock(cs, t)
    <3>1. CASE EndsInText(bs)
      <4>1. PICK c : c = TextBlock(NoId, t)
        OBVIOUS
      <4>2. rb = [bs EXCEPT ![n] = c] /\ RetellBlock(cs, t) = [cs EXCEPT ![n] = c]
        BY <1>3, <1>8, <1>15, <2>2, <3>1, <4>1 DEF RetellBlock
      <4>3. at # n
        BY <1>15, <3>1
      <4> QED BY <1>3, <1>4, <1>7, <4>2, <4>3
    <3>2. CASE ~EndsInText(bs)
      BY <1>7, <1>15, <2>2, <3>2 DEF RetellBlock
    <3> QED BY <3>1, <3>2
  <2>8. HistoryToMsgs(rd) = Joined(rb)
    BY <2>1, <2>2 DEF RestoredAs, SameTelling
  <2>9. HistoryToMsgs(Append(rd, it)) = AttachToolResult(HistoryToMsgs(rd), id, out)
    BY <1>1, <1>2, <2>3, TellAppend
  <2> QED BY <2>3, <2>6, <2>7, <2>8, <2>9
<1> QED BY <1>2, <1>5, <1>7, <1>9, <1>13, <1>16, <1>17, <1>18 DEF RestoredAs

\* The text the runtime is writing is the text the turn ends in.
LEMMA WritingFrom ==
  ASSUME NEW id, doc \in Seq(DocItems), NEW l, IsLastSaid(doc, l)
  PROVE  Writing(id) = IF SaysText(doc, l) /\ doc[l].id = id THEN l ELSE 0
<1> DEFINE I == {i \in 1 .. Len(doc) : doc[i].role # "toolResult"}
           at == IF I # {} THEN Max(I) ELSE 0
<1>1. SelectLastInSeq(doc, LAMBDA it : it.role # "toolResult") = at
  BY DEF SelectLastInSeq
<1>2. Writing(id) = IF at # 0 /\ doc[at].role = "text" /\ doc[at].id = id THEN at ELSE 0
  BY <1>1 DEF Writing
<1>3. Len(doc) \in Nat /\ DOMAIN doc = 1 .. Len(doc)
  OBVIOUS
<1>4. I # {} => Max(I) \in I /\ \A j \in I : j <= Max(I)
  <2>1. I \subseteq 1 .. Len(doc)
    OBVIOUS
  <2> HIDE DEF I
  <2> QED BY <1>3, <2>1, MaxIs
<1>5. at = l
  <2>1. CASE l = 0
    <3>1. I = {}
      BY <1>3, <2>1 DEF IsLastSaid
    <3> QED BY <2>1, <3>1
  <2>2. CASE l # 0
    <3>1. l \in I /\ \A j \in I : ~(j > l)
      BY <1>3, <2>2 DEF IsLastSaid
    <3>2. at = Max(I) /\ at \in I /\ l <= at
      BY <1>4, <3>1
    <3>3. at \in Nat /\ l \in Nat
      <4>1. I \subseteq Nat
        BY <1>3
      <4> HIDE DEF I, at
      <4> QED BY <3>1, <3>2, <4>1
    <3> HIDE DEF I, at
    <3> QED BY <3>1, <3>2, <3>3
  <2> QED BY <2>1, <2>2
<1> HIDE DEF at, I
<1> QED BY <1>2, <1>5 DEF SaysText

\* The turn goes on with the text it ends in.
LEMMA Continues ==
  ASSUME NEW id, doc \in Seq(DocItems), NEW bs \in Seq(Blocks), NEW l, RestoredAs(doc, bs, l), Writing(id) # 0
  PROVE  /\ Writing(id) = l /\ SaysText(doc, l) /\ EndsInText(bs)
         /\ Last_(bs).id = id /\ Last_(bs).text = Written(id)
<1>1. Writing(id) = l /\ SaysText(doc, l) /\ doc[l].id = id
  BY WritingFrom DEF RestoredAs
<1> QED BY <1>1 DEF RestoredAs, SameEnd, Written

LEMMA GoesOn ==
  ASSUME NEW id, doc \in Seq(DocItems), NEW bs \in Seq(Blocks), NEW l, RestoredAs(doc, bs, l), Writing(id) # 0,
         NEW u \in Seq(Nat), NEW b \in TextBlocks, b.id = id, b.text = u
  PROVE  RestoredAs(WriteText(id, u), [bs EXCEPT ![Len(bs)] = b], l)
<1>1. /\ Writing(id) = l /\ SaysText(doc, l) /\ EndsInText(bs)
      /\ Last_(bs).id = id
  BY Continues
<1>2. WriteText(id, u) = [doc EXCEPT ![l].text = u]
  BY <1>1 DEF WriteText
<1>3. PICK e : e = [doc EXCEPT ![l].text = u]
  OBVIOUS
<1>4. PICK cs : cs = [bs EXCEPT ![Len(bs)] = b]
  OBVIOUS
<1>5. b.id = Last_(bs).id
  BY <1>1
<1>6. RestoredAs(e, cs, l)
  BY <1>1, <1>3, <1>4, <1>5, SaidAgain
<1> QED BY <1>2, <1>3, <1>4, <1>6

\* The turn begins a text.
LEMMA Begins ==
  ASSUME NEW id \in Narrations \cup {NoId}, doc \in Seq(DocItems), NEW bs \in Seq(Blocks), NEW l, RestoredAs(doc, bs, l),
         Writing(id) = 0, NEW u \in Seq(Nat)
  PROVE  RestoredAs(WriteText(id, u), Append(bs, TextBlock(id, u)), Len(doc) + 1)
<1>1. PICK it : it = [role |-> "text", id |-> id, text |-> u, chunk |-> 0]
  OBVIOUS
<1>2. it \in DocItems /\ it.role = "text" /\ it.id = id /\ it.text = u
  BY <1>1 DEF DocItems, Ids
<1>3. WriteText(id, u) = Append(doc, it)
  BY <1>1 DEF WriteText
<1>4. PICK b \in Blocks : b = TextBlock(id, u) /\ b.kind = "text" /\ b.id = id /\ b.text = u
  <2>1. PICK b : b = TextBlock(id, u)
    OBVIOUS
  <2>2. b \in Blocks /\ b.kind = "text" /\ b.id = id /\ b.text = u
    BY <2>1, NewText
  <2> QED BY <2>1, <2>2
<1>5. RestoredAs(Append(doc, it), Append(bs, b), Len(doc) + 1)
  BY <1>2, <1>4, SaidAnew
<1> QED BY <1>3, <1>4, <1>5

\* AppendText and ReplaceText go on with the text the runtime is writing as its answer.
LEMMA Answers ==
  ASSUME doc \in Seq(DocItems), NEW bs \in Seq(Blocks), NEW l, RestoredAs(doc, bs, l)
  PROVE  AnswerBlock(bs) = IF Writing(NoId) = 0 THEN 0 ELSE Len(bs)
<1>1. Writing(NoId) = IF SaysText(doc, l) /\ doc[l].id = NoId THEN l ELSE 0
  BY WritingFrom DEF RestoredAs
<1>2. SaysText(doc, l) => l # 0
  BY DEF SaysText
<1>3. /\ SaysText(doc, l) <=> EndsInText(bs)
      /\ SaysText(doc, l) => doc[l].id = Last_(bs).id
  BY DEF RestoredAs, SameEnd
<1> QED BY <1>1, <1>2, <1>3 DEF AnswerBlock, EndsInText

-----------------------------------------------------------------------------
Restored == \E l : RestoredAs(doc, bubble.blocks, l)

LEMMA DeltaRestored ==
  ASSUME FoldInv, Restored, Delta
  PROVE  Restored'
<1>1. bubble \in BubbleType /\ doc \in Seq(DocItems) /\ wire + 1 \in Nat
  BY DEF FoldInv, FoldTypes, BubbleType
<1>2. PICK l : RestoredAs(doc, bubble.blocks, l)
  BY DEF Restored
<1>3. PICK bs \in Seq(Blocks) : bs = bubble.blocks
  BY <1>1 DEF BubbleType
<1>4. PICK chunk \in Nat : chunk = wire + 1
  BY <1>1
<1>5. bubble'.blocks = AppendText(bs, chunk)
  BY <1>1, <1>3, <1>4 DEF Delta, Send, ApplyAgentEvent, BubbleType
<1>6. PICK u \in Seq(Nat) : u = Append(Written(NoId), chunk)
  <2>1. PICK t \in Seq(Nat) : t = Written(NoId)
    BY <1>1, WrittenIs
  <2>2. Append(t, chunk) \in Seq(Nat)
    OBVIOUS
  <2> QED BY <2>1, <2>2
<1>7. doc' = WriteText(NoId, u)
  BY <1>4, <1>6 DEF Delta
<1>8. RestoredAs(doc, bs, l) /\ NoId \in Narrations \cup {NoId}
  BY <1>2, <1>3
<1>9. AnswerBlock(bs) = IF Writing(NoId) = 0 THEN 0 ELSE Len(bs)
  BY <1>1, <1>8, Answers
<1>10. CASE Writing(NoId) = 0
  <2>1. Written(NoId) = <<>>
    BY <1>10 DEF Written
  <2>2. u = <<chunk>>
    BY <1>6, <2>1
  <2>3. bubble'.blocks = Append(bs, TextBlock(NoId, u))
    BY <1>5, <1>9, <1>10, <2>2 DEF AppendText
  <2>4. RestoredAs(WriteText(NoId, u), Append(bs, TextBlock(NoId, u)), Len(doc) + 1)
    BY <1>1, <1>8, <1>10, Begins
  <2> QED BY <1>7, <2>3, <2>4 DEF Restored
<1>11. CASE Writing(NoId) # 0
  <2>1. EndsInText(bs) /\ Last_(bs).id = NoId /\ Last_(bs).text = Written(NoId)
    BY <1>1, <1>8, <1>11, Continues
  <2>2. PICK n \in Nat : n = Len(bs) /\ n # 0 /\ n \in DOMAIN bs /\ bs[n] = Last_(bs) /\ bs[n] \in TextBlocks
    BY <2>1, LastIs
  <2>3. PICK w \in TextBlocks : w = bs[n] /\ w.id = NoId /\ w.text = Written(NoId)
    BY <2>1, <2>2
  <2>4. PICK b : b = [w EXCEPT !.text = u]
    OBVIOUS
  <2>5. b \in TextBlocks /\ b.id = NoId /\ b.text = u
    BY <2>3, <2>4 DEF TextBlocks
  <2>6. AppendText(bs, chunk) = [bs EXCEPT ![n] = b]
    <3>1. AppendText(bs, chunk) = [bs EXCEPT ![n].text = Append(bs[n].text, chunk)]
      BY <1>9, <1>11, <2>2 DEF AppendText
    <3> QED BY <1>6, <2>2, <2>3, <2>4, <3>1
  <2>7. RestoredAs(WriteText(NoId, u), [bs EXCEPT ![Len(bs)] = b], l)
    BY <1>1, <1>8, <1>11, <2>5, GoesOn
  <2> QED BY <1>5, <1>7, <2>2, <2>6, <2>7 DEF Restored
<1> QED BY <1>10, <1>11

LEMMA RewriteRestored ==
  ASSUME FoldInv, Restored, Rewrite
  PROVE  Restored'
<1>1. bubble \in BubbleType /\ doc \in Seq(DocItems) /\ wire + 1 \in Nat
  BY DEF FoldInv, FoldTypes, BubbleType
<1>2. PICK l : RestoredAs(doc, bubble.blocks, l)
  BY DEF Restored
<1>3. PICK bs \in Seq(Blocks) : bs = bubble.blocks
  BY <1>1 DEF BubbleType
<1>4. PICK u \in {Written(NoId), <<wire + 1>>} :
          /\ Send([type |-> "text_replace", text |-> u])
          /\ doc' = WriteText(NoId, u)
  BY DEF Rewrite
<1>5. u \in Seq(Nat)
  <2>1. Written(NoId) \in Seq(Nat) /\ <<wire + 1>> \in Seq(Nat)
    BY <1>1, WrittenIs
  <2> QED BY <2>1
<1>6. bubble'.blocks = ReplaceText(bs, u)
  BY <1>1, <1>3, <1>4 DEF Send, ApplyAgentEvent, BubbleType
<1>7. RestoredAs(doc, bs, l)
  BY <1>2, <1>3
<1>8. Writing(NoId) # 0
  BY DEF Rewrite, Written
<1>9. AnswerBlock(bs) = Len(bs)
  BY <1>1, <1>7, <1>8, Answers
<1>10. EndsInText(bs) /\ Last_(bs).id = NoId
  BY <1>1, <1>7, <1>8, Continues
<1>11. PICK n \in Nat : n = Len(bs) /\ n # 0 /\ n \in DOMAIN bs /\ bs[n] = Last_(bs) /\ bs[n] \in TextBlocks
  BY <1>10, LastIs
<1>12. PICK w \in TextBlocks : w = bs[n] /\ w.id = NoId
  BY <1>10, <1>11
<1>13. w.text \in Seq(Nat) /\ w.superseded \in Seq(Seq(Nat))
  BY TextFields
<1>14. PICK v \in Seq(Seq(Nat)) : v = IF w.text \in {<<>>, u} THEN w.superseded ELSE Append(w.superseded, w.text)
  <2>1. PICK x : x = w.superseded /\ x \in Seq(Seq(Nat))
    BY <1>13
  <2>2. PICK y : y = w.text /\ y \in Seq(Nat)
    BY <1>13
  <2>3. Append(x, y) \in Seq(Seq(Nat))
    BY <2>1, <2>2
  <2> QED BY <2>1, <2>2, <2>3
<1>15. PICK b : b = [w EXCEPT !.text = u, !.superseded = v]
  OBVIOUS
<1>16. b \in TextBlocks /\ b.id = NoId /\ b.text = u
  BY <1>5, <1>12, <1>15 DEF TextBlocks
<1>17. ReplaceText(bs, u) = [bs EXCEPT ![n] = b]
  <2>1. ReplaceText(bs, u) = [bs EXCEPT ![n].text = u, ![n].superseded = IF bs[n].text \in {<<>>, u} THEN @
                                                                        ELSE Append(@, bs[n].text)]
    BY <1>9, <1>11 DEF ReplaceText
  <2> QED BY <1>11, <1>12, <1>14, <1>15, <2>1
<1>18. RestoredAs(WriteText(NoId, u), [bs EXCEPT ![Len(bs)] = b], l)
  BY <1>1, <1>5, <1>7, <1>8, <1>16, GoesOn
<1> QED BY <1>4, <1>6, <1>11, <1>17, <1>18 DEF Restored

LEMMA NarrationRestored ==
  ASSUME FoldInv, Restored, Narration
  PROVE  Restored'
<1>1. bubble \in BubbleType /\ doc \in Seq(DocItems) /\ wire + 1 \in Nat
  BY DEF FoldInv, FoldTypes, BubbleType
<1>2. PICK l : RestoredAs(doc, bubble.blocks, l)
  BY DEF Restored
<1>3. PICK bs \in Seq(Blocks) : bs = bubble.blocks
  BY <1>1 DEF BubbleType
<1>4. PICK id \in Narrations :
          /\ \A i \in DOMAIN doc : doc[i].role = "text" /\ doc[i].id = id => i = Writing(id)
          /\ Send([type |-> "narration", id |-> id, text |-> Append(Written(id), wire + 1)])
          /\ doc' = WriteText(id, Append(Written(id), wire + 1))
  BY DEF Narration
<1>5. PICK u \in Seq(Nat) : u = Append(Written(id), wire + 1)
  <2>1. PICK t \in Seq(Nat) : t = Written(id)
    BY <1>1, WrittenIs
  <2>2. PICK chunk \in Nat : chunk = wire + 1
    BY <1>1
  <2>3. Append(t, chunk) \in Seq(Nat)
    OBVIOUS
  <2> QED BY <2>1, <2>2, <2>3
<1>6. Send([type |-> "narration", id |-> id, text |-> u]) /\ doc' = WriteText(id, u)
  BY <1>4, <1>5
<1>7. bubble'.blocks = Narrate(bs, id, u)
  BY <1>1, <1>3, <1>6 DEF Send, ApplyAgentEvent, BubbleType
<1>8. RestoredAs(doc, bs, l) /\ id \in Narrations \cup {NoId}
  BY <1>2, <1>3
<1>9. PICK n \in Nat : n = Len(bs) /\ DOMAIN bs = 1 .. n
  OBVIOUS
<1> DEFINE I == {i \in 1 .. Len(bs) : bs[i].kind = "text" /\ bs[i].id = id}
<1>10. SelectInSeq(bs, LAMBDA x : x.kind = "text" /\ x.id = id) = IF I # {} THEN Min(I) ELSE 0
  BY DEF SelectInSeq
<1>11. ASSUME NEW i \in I PROVE /\ Writing(id) # 0
                               /\ i = n
  <2>1. i \in 1 .. n /\ bs[i].kind = "text" /\ bs[i].id = id
    BY <1>9
  <2>2. PICK j \in DOMAIN doc : doc[j].role = "text" /\ doc[j].id = id /\ (i < n => j # l)
    BY <1>8, <1>9, <2>1 DEF RestoredAs, Narrated
  <2>3. j = Writing(id) /\ j # 0
    BY <1>1, <1>4, <2>2
  <2>4. Writing(id) = l
    BY <1>1, <1>8, <2>3, Continues
  <2> QED BY <2>1, <2>2, <2>3, <2>4
<1>12. CASE Writing(id) = 0
  <2>1. I = {}
    BY <1>11, <1>12
  <2>2. Narrate(bs, id, u) = Append(bs, TextBlock(id, u))
    BY <1>10, <2>1 DEF Narrate
  <2>3. RestoredAs(WriteText(id, u), Append(bs, TextBlock(id, u)), Len(doc) + 1)
    BY <1>1, <1>8, <1>12, Begins
  <2> QED BY <1>6, <1>7, <2>2, <2>3 DEF Restored
<1>13. CASE Writing(id) # 0
  <2>1. EndsInText(bs) /\ Last_(bs).id = id
    BY <1>1, <1>8, <1>13, Continues
  <2>2. n # 0 /\ n \in DOMAIN bs /\ bs[n] = Last_(bs) /\ bs[n] \in TextBlocks /\ bs[n].kind = "text" /\ bs[n].id = id
    BY <1>9, <2>1, LastIs DEF EndsInText
  <2>3. n \in I
    BY <1>9, <2>2
  <2>4. Min(I) = n
    <3>1. I \subseteq Nat /\ I # {}
      BY <2>3
    <3>2. Min(I) \in I
      <4> HIDE DEF I
      <4> QED BY <3>1, MinIs
    <3> QED BY <1>11, <3>2
  <2>5. PICK at : at = SelectInSeq(bs, LAMBDA x : x.kind = "text" /\ x.id = id)
    OBVIOUS
  <2>6. at = n
    BY <1>10, <2>3, <2>4, <2>5
  <2>7. PICK w \in TextBlocks : w = bs[n] /\ w.id = id
    BY <2>2
  <2>8. PICK b : b = [w EXCEPT !.text = u]
    OBVIOUS
  <2>9. b \in TextBlocks /\ b.id = id /\ b.text = u
    BY <2>7, <2>8 DEF TextBlocks
  <2> HIDE DEF I
  <2>10. Narrate(bs, id, u) = [bs EXCEPT ![n] = b]
    <3>1. Narrate(bs, id, u) = [bs EXCEPT ![n].text = u]
      BY <2>2, <2>5, <2>6 DEF Narrate
    <3> QED BY <2>2, <2>7, <2>8, <3>1
  <2>11. RestoredAs(WriteText(id, u), [bs EXCEPT ![Len(bs)] = b], l)
    BY <1>1, <1>8, <1>13, <2>9, GoesOn
  <2> QED BY <1>6, <1>7, <1>9, <2>10, <2>11 DEF Restored
<1> QED BY <1>12, <1>13

LEMMA CallRestored ==
  ASSUME FoldInv, Restored, Call
  PROVE  Restored'
<1>1. bubble \in BubbleType /\ doc \in Seq(DocItems)
  BY DEF FoldInv, FoldTypes, BubbleType
<1>2. PICK l : RestoredAs(doc, bubble.blocks, l)
  BY DEF Restored
<1>3. PICK bs \in Seq(Blocks) : bs = bubble.blocks
  BY <1>1 DEF BubbleType
<1>4. PICK c \in Calls :
          /\ Send([type |-> "tool_call", id |-> c])
          /\ doc' = Append(doc, [role |-> "toolCall", id |-> c, text |-> <<>>, chunk |-> 0])
  BY DEF Call
<1>5. PICK it : it = [role |-> "toolCall", id |-> c, text |-> <<>>, chunk |-> 0]
  OBVIOUS
<1>6. it \in DocItems /\ it.role = "toolCall" /\ it.id = c /\ it.role # "toolResult"
  BY <1>5 DEF DocItems, Ids
<1>7. PICK b \in Blocks : b = ToolBlock(c) /\ b.kind = "tool"
  <2>1. ToolBlock(c) \in Blocks /\ ToolBlock(c).kind = "tool"
    BY DEF ToolBlock, Blocks, ToolBlocks
  <2> QED BY <2>1
<1>8. bubble'.blocks = Append(bs, b)
  BY <1>1, <1>3, <1>4, <1>7 DEF Send, ApplyAgentEvent, BubbleType
<1>9. RestoredAs(doc, bs, l) /\ b = ToolBlock(it.id)
  BY <1>2, <1>3, <1>6, <1>7
<1>10. RestoredAs(Append(doc, it), Append(bs, b), Len(doc) + 1)
  BY <1>1, <1>6, <1>7, <1>9, SaidAnew
<1> QED BY <1>4, <1>5, <1>8, <1>10 DEF Restored

LEMMA ResultRestored ==
  ASSUME FoldInv, Restored, Result
  PROVE  Restored'
<1>1. bubble \in BubbleType /\ doc \in Seq(DocItems) /\ wire + 1 \in Nat /\ calls \in Seq(Calls)
  BY DEF FoldInv, FoldTypes, BubbleType
<1>2. PICK k \in DOMAIN calls, named \in BOOLEAN :
          LET c == calls[k]
              id == IF named THEN c ELSE NoId
          IN  /\ ~named => results[c] = <<>> /\ \A j \in 1 .. k - 1 : results[calls[j]] # <<>>
              /\ Send([type |-> "tool_result", id |-> id, chunk |-> wire + 1])
              /\ doc' = Append(doc, [role |-> "toolResult", id |-> id, text |-> <<>>, chunk |-> wire + 1])
  BY DEF Result
<1>3. PICK id : id = IF named THEN calls[k] ELSE NoId
  OBVIOUS
<1>4. PICK out \in Nat : out = wire + 1
  BY <1>1
<1>5. /\ ~named => results[calls[k]] = <<>> /\ \A j \in 1 .. k - 1 : results[calls[j]] # <<>>
      /\ Send([type |-> "tool_result", id |-> id, chunk |-> out])
      /\ doc' = Append(doc, [role |-> "toolResult", id |-> id, text |-> <<>>, chunk |-> out])
  BY <1>2, <1>3, <1>4
<1>6. PICK it : it = [role |-> "toolResult", id |-> id, text |-> <<>>, chunk |-> out]
  OBVIOUS
<1>7. it \in DocItems /\ it.role = "toolResult" /\ it.id = id /\ it.chunk = out
  <2>1. calls[k] \in Calls
    BY <1>1
  <2>2. id \in Ids
    BY <1>3, <2>1 DEF Ids
  <2> QED BY <1>6, <2>2 DEF DocItems
<1>8. PICK bs \in Seq(Blocks) : bs = bubble.blocks
  BY <1>1 DEF BubbleType
<1>9. PICK at : Owns(bs, at, it.id)
  <2>1. \E at \in ToolAt : Owns(bubble.blocks, at, id)
    BY <1>3, <1>5, ResultOwns
  <2> QED BY <1>7, <1>8, <2>1
<1>10. bubble'.blocks = AttachToolResult(bs, id, out)
  BY <1>1, <1>5, <1>8 DEF Send, ApplyAgentEvent, BubbleType
<1>11. AttachToolResult(bs, id, out) = Finished(bs, at, out)
  BY <1>7, <1>9, AttachIs
<1>12. at \in DOMAIN bs
  BY <1>9 DEF Owns
<1>13. Finished(bs, at, out) = [bs EXCEPT ![at] = Fin(bs[at], out)]
  BY <1>12, FinishedIs
<1>14. PICK l : RestoredAs(doc, bs, l)
  BY <1>8 DEF Restored
<1>15. RestoredAs(Append(doc, it), [bs EXCEPT ![at] = Fin(bs[at], it.chunk)], l)
  BY <1>1, <1>7, <1>9, <1>14, Returned
<1> QED BY <1>5, <1>6, <1>7, <1>10, <1>11, <1>13, <1>15 DEF Restored

LEMMA RestoredStart ==
  ASSUME Init
  PROVE  Restored
<1>1. doc = <<>> /\ bubble.blocks = <<>>
  BY DEF Init, FoldInit, FoldAtRest, NewAgentMsg
<1>2. PICK e : e = <<>>
  OBVIOUS
<1>3. HistoryToMsgs(e) = <<>> /\ Joined(e) = <<>>
  BY <1>2, FoldEmpty DEF Folds, FoldOf
<1>4. IsLastSaid(e, 0) /\ ~SaysText(e, 0) /\ ~EndsInText(e)
  BY <1>2 DEF IsLastSaid, SaysText, EndsInText
<1>5. SameEnd(e, e, 0) /\ Narrated(e, e, 0)
  BY <1>2, <1>4 DEF SameEnd, Narrated
<1>6. SameTelling(e, e, 0)
  BY <1>3, <1>4 DEF SameTelling, Retell, RetellBlock
<1>7. RestoredAs(e, e, 0)
  BY <1>4, <1>5, <1>6 DEF RestoredAs
<1> QED BY <1>1, <1>2, <1>7 DEF Restored

LEMMA RestoredSteps ==
  ASSUME FoldInv, Restored, [Next]_<<foldVars, cardVars>>
  PROVE  Restored'
<1>1. bubble \in BubbleType
  BY DEF FoldInv, FoldTypes, BubbleType
<1>2. CASE Hold \/ Release \/ Done
  <2>1. bubble'.blocks = bubble.blocks /\ doc' = doc
    BY <1>1, <1>2 DEF Hold, Release, Done, Send, ApplyAgentEvent, BubbleType
  <2> QED BY <2>1 DEF Restored
<1>3. CASE UNCHANGED foldVars
  BY <1>3 DEF foldVars, Restored
<1>4. CASE FoldNext
  BY <1>2, <1>4, DeltaRestored, RewriteRestored, NarrationRestored, CallRestored, ResultRestored DEF FoldNext
<1> QED BY <1>3, <1>4 DEF Next

(* historyToMsgs restores the turn that applyAgentEvent built, at every moment of
   a turn of any length: the same texts on the same side of the same calls, and
   every output with the call it was streamed to. *)
THEOREM TurnIsRestored == Spec => []RestoredAsStreamed
<1>1. Init => Restored
  BY RestoredStart
<1>2. FoldInv /\ Restored /\ [Next]_<<foldVars, cardVars>> => Restored'
  BY RestoredSteps
<1>3. FoldInv /\ Restored => RestoredAsStreamed
  <2> SUFFICES ASSUME FoldInv, Restored PROVE RestoredAsStreamed
    OBVIOUS
  <2>1. doc \in Seq(DocItems) /\ bubble.blocks \in Seq(Blocks)
    BY DEF FoldInv, FoldTypes
  <2>2. PICK l : RestoredAs(doc, bubble.blocks, l)
    BY DEF Restored
  <2>3. HistoryToMsgs(doc) = Joined(bubble.blocks)
    BY <2>1, <2>2, RestoredNow
  <2>4. Shape(Joined(bubble.blocks)) = Shape(bubble.blocks)
    BY <2>1, ShapeJoined
  <2> QED BY <2>3, <2>4 DEF RestoredAsStreamed
<1> QED BY <1>1, <1>2, <1>3, FoldInductive, PTL DEF Spec
=============================================================================
