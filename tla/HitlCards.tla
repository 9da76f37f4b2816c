------------------------------ MODULE HitlCards ------------------------------
(***************************************************************************)
(* The human-in-the-loop cards of the conversation: a turn is parked on    *)
(* approvals and questions the gateway holds, and a surface shows a card   *)
(* for each.  Cards reach it by the stream of the turn it started, by the  *)
(* stream it re-attaches, and by reading what is pending; they leave it by *)
(* events, by such a read, by the end of the turn, or by the user's own    *)
(* answer, which can fail or come too late                                 *)
(* (lib/cubepilot/agentThread.ts, and the handlers of ChatPane.tsx that    *)
(* FloatingChat.tsx repeats).                                              *)
(***************************************************************************)
EXTENDS Naturals, Sequences, SequencesExt, FiniteSets

CONSTANTS Approvals, Questions,   \* the cards the turns can raise
          MaxHeld,                \* bound: cards raised
          MaxBubbles,             \* bound: turns
          MaxReads,               \* bound: passes over the pending cards at once
          MaxLost,                \* bound: failed requests and lost streams
          MaxWindows              \* bound: decisions made in another window

(* A card is of one kind, and a turn raises finitely many.  The bounds allow the
   turn a page is opened on, and the pass over its cards. *)
ASSUME CardsAssumption ==
    /\ IsFiniteSet(Approvals) /\ IsFiniteSet(Questions) /\ Approvals \cap Questions = {}
    /\ MaxBubbles \in Nat \ {0} /\ MaxReads \in Nat \ {0}

VARIABLES held,      \* the gateway's record of each card
          live,      \* is a turn running?
          turns,     \* turns so far
          written,   \* agent messages in the history document
          link,      \* the stream this surface holds, and what it carries
          thread,    \* the agent bubbles on screen, with their cards
          own,       \* a turn this surface started (ownTurnRef)
          following, \* followingRef
          reads,     \* passes of restorePendingHitl under way
          clicks,    \* the user's answers under way
          told,      \* the thread says that something could not be read
          lost,      \* faults so far
          elsewhere  \* decisions of other windows so far

surface == <<thread, own, following, reads, clicks, told>>
cardVars == <<held, live, turns, written, link, surface, lost, elsewhere>>

Cards == Approvals \cup Questions
Outcomes == {"approved", "rejected", "answered", "cancelled", "expired", "closed"}

(* A card on screen: the state, and whether an error is written on it. *)
OpenStates == {"pending", "busy"}          \* busy: deciding, submitting
SettledStates == {"approved", "rejected", "stopped", "answered", "cancelled", "expired"}
Card(st, err) == [st |-> st, err |-> err]

(* A bubble has copies of each card: the states they are in. *)
NewBubble == [c \in Cards |-> {}]

Copies(t, c) == UNION {t[i][c] : i \in DOMAIN t}
IsOpen(x) == x.st \in OpenStates
OpenCards(t) == {c \in Cards : \E x \in Copies(t, c) : IsOpen(x)}

Born == {c \in Cards : held[c] # "unborn"}
Pending == {c \in Cards : held[c] = "pending"}

-----------------------------------------------------------------------------
(* The fold of a card event, and the helpers of the thread *)

AddApproval(b, c) == IF b[c] = {} THEN [b EXCEPT ![c] = {Card("pending", FALSE)}] ELSE b

Patch(b, c, Fn(_)) == [b EXCEPT ![c] = {Fn(x) : x \in @}]
PatchThread(t, c, Fn(_)) == [i \in DOMAIN t |-> Patch(t[i], c, Fn)]

(* An approval nobody decided was stopped; a question is answered unless the
   event says otherwise. *)
ResolveOutcome(c, outcome) ==
    IF c \in Approvals THEN (IF outcome \in {"approved", "rejected"} THEN outcome ELSE "stopped")
    ELSE IF outcome \in {"cancelled", "expired"} THEN outcome ELSE "answered"

(* question_pending does not look for the card it adds. *)
ApplyCardEvent(b, e) ==
    CASE e.type = "pending" ->
            IF e.card \in Approvals THEN AddApproval(b, e.card)
            ELSE [b EXCEPT ![e.card] = @ \cup {Card("pending", FALSE)}]
      [] e.type = "resolved" ->
            Patch(b, e.card, LAMBDA x : [x EXCEPT !.st = ResolveOutcome(e.card, e.outcome)])
      [] e.type = "message_done" ->
            [c \in Cards |-> {IF IsOpen(x) THEN [x EXCEPT !.st = IF c \in Approvals THEN "stopped" ELSE "cancelled"] ELSE x
                              : x \in b[c]}]

OnNewest(t, b) == IF t = <<>> THEN <<b>> ELSE [t EXCEPT ![Len(t)] = b]
Newest(t) == IF t = <<>> THEN NewBubble ELSE t[Len(t)]

OpenCopies(b, c) == {x \in b[c] : IsOpen(x)}

(* The open cards a thread has, onto the n bubbles of a transcript that has
   none: turn by turn, and the newest takes what is not written yet.  A bubble
   that has a card takes no more copies of it. *)
CarryOpenCards(prev, n) ==
    LET Goes(i) == IF i > n THEN n ELSE i
        From(j, c) == {i \in DOMAIN prev : Goes(i) = j /\ OpenCopies(prev[i], c) # {}}
        Earliest(is) == CHOOSE i \in is : \A k \in is : i <= k
    IN  [j \in 1 .. n |-> [c \in Cards |-> IF From(j, c) = {} THEN {} ELSE OpenCopies(prev[Earliest(From(j, c))], c)]]

Gone(x, c) == [x EXCEPT !.st = IF c \in Approvals THEN "stopped" ELSE "expired"]

(* Mutant: the sweep takes every card the answer does not have. *)
SettleCardsAbsent_All(t, pending, before) ==
    [i \in DOMAIN t |-> [c \in Cards |->
        {IF x.st = "pending" /\ c \notin pending THEN Gone(x, c) ELSE x : x \in t[i][c]}]]

(* The cards that were open before the read went out and are not in its answer
   are settled; one the user is answering is left alone. *)
SettleCardsAbsent(t, pending, before) ==
    [i \in DOMAIN t |-> [c \in Cards |->
        {IF c \in before /\ x.st = "pending" /\ c \notin pending THEN Gone(x, c) ELSE x : x \in t[i][c]}]]

(* Mutant: a card with no bubble to go to is dropped. *)
AttachToNewest_NeedsBubble(t, cs) ==
    IF t = <<>> THEN t
    ELSE OnNewest(t, [c \in Cards |-> IF c \in cs /\ Newest(t)[c] = {}
                                      THEN {Card("pending", FALSE)} ELSE Newest(t)[c]])

(* A card of a pending read goes to the newest bubble, unless that has it. *)
AttachToNewest(t, cs) ==
    LET b == Newest(t)
    IN  IF cs = {} THEN t
        ELSE OnNewest(t, [c \in Cards |-> IF c \in cs /\ b[c] = {} THEN {Card("pending", FALSE)} ELSE b[c]])

-----------------------------------------------------------------------------
(* The gateway: external, as the handlers here use it *)

NoLink == [kind |-> "none", queue |-> <<>>]
Event(type, c, outcome) == [type |-> type, card |-> c, outcome |-> outcome]
Closed(c) == IF c \in Approvals THEN "closed" ELSE "expired"   \* a record nobody decided
Emit(es) == IF link.kind = "none" THEN link ELSE [link EXCEPT !.queue = @ \o es]

Raise ==
    /\ live
    /\ \E c \in Cards :
          /\ held[c] = "unborn" /\ Cardinality(Born) < MaxHeld
          /\ held' = [held EXCEPT ![c] = "pending"]
          /\ link' = Emit(<<Event("pending", c, "closed")>>)
    /\ UNCHANGED <<live, turns, written, surface, lost, elsewhere>>

(* Another window decides, or the gateway's own deadline closes the record. *)
ElsewhereDecides ==
    /\ elsewhere < MaxWindows /\ elsewhere' = elsewhere + 1
    /\ \E c \in Pending :
          LET outcome == IF c \in Approvals THEN "rejected" ELSE Closed(c)
          IN  /\ held' = [held EXCEPT ![c] = outcome]
              /\ link' = Emit(<<Event("resolved", c, outcome)>>)
    /\ UNCHANGED <<live, turns, written, surface, lost>>

(* The turn ends, and the history has it.  What it was parked on is closed; the
   events that say so race the close of the stream. *)
TurnOver ==
    /\ live /\ live' = FALSE /\ written' = turns
    /\ held' = [c \in Cards |-> IF held[c] = "pending" THEN Closed(c) ELSE held[c]]
    /\ \E heard \in SUBSET Pending :
          link' = Emit([i \in 1 .. Cardinality(heard) |->
                           Event("resolved", SetToSeq(heard)[i], Closed(SetToSeq(heard)[i]))]
                       \o (IF link.kind = "own" THEN <<Event("message_done", "none", "closed")>> ELSE <<>>))
    /\ UNCHANGED <<turns, surface, lost, elsewhere>>

Write ==
    /\ live /\ written < turns /\ written' = turns
    /\ UNCHANGED <<held, live, turns, link, surface, lost, elsewhere>>

ElsewhereStarts ==
    /\ ~live /\ turns < MaxBubbles
    /\ live' = TRUE /\ turns' = turns + 1
    /\ UNCHANGED <<held, written, link, surface, lost, elsewhere>>

-----------------------------------------------------------------------------
(* The surface *)

Pass(quiet) == [before |-> OpenCards(thread'), quiet |-> quiet,
                asked |-> FALSE, ans |-> {}, ok |-> TRUE]

(* A send: its bubble is the newest, and what was read for the view before it
   is not rendered any more. *)
SendTurn ==
    /\ ~live /\ turns < MaxBubbles /\ link.kind # "own" /\ own # "yes"
    /\ live' = TRUE /\ turns' = turns + 1
    /\ link' = [kind |-> "own", queue |-> <<>>]
    /\ thread' = Append(thread, NewBubble)
    /\ own' = "yes" /\ following' = FALSE /\ reads' = {}
    /\ UNCHANGED <<held, written, clicks, told, lost, elsewhere>>

(* handleAgentEvent, applyAttachedEvent: the events of the stream go to the
   newest bubble, which a send has made its own. *)
Deliver ==
    /\ link.queue # <<>>
    /\ LET e == Head(link.queue)
       IN  /\ thread' = IF thread = <<>> THEN thread ELSE OnNewest(thread, ApplyCardEvent(Newest(thread), e))
           /\ link' = IF e.type = "message_done" THEN NoLink ELSE [link EXCEPT !.queue = Tail(@)]
           /\ own' = IF e.type = "message_done" THEN "settled" ELSE own
    /\ UNCHANGED <<held, live, turns, written, following, reads, clicks, told, lost, elsewhere>>

(* The stream dies before its terminal event: nothing is settled, and the loop
   takes the turn over. *)
LoseStream ==
    /\ link.kind # "none" /\ lost < MaxLost
    /\ lost' = lost + 1 /\ link' = NoLink
    /\ own' = IF own = "yes" THEN "no" ELSE own
    /\ following' = (following \/ own = "yes")
    /\ UNCHANGED <<held, live, turns, written, thread, reads, clicks, told, elsewhere>>

Awaited == \E r \in reads : ~r.quiet

(* A tick that finds a turn running elsewhere: the transcript as far as it has
   changed, the stream if nobody holds it, and one more pass.  A document that
   holds no more than the prompt is not an empty one, and has no bubble to carry
   a card to. *)
FollowsTurn ==
    /\ live /\ own = "no" /\ following' = TRUE
    /\ \E changed \in BOOLEAN :
          thread' = IF changed THEN CarryOpenCards(thread, written) ELSE thread
    /\ \E free \in BOOLEAN :
          link' = IF free /\ link.kind = "none" THEN [kind |-> "attach", queue |-> <<>>] ELSE link
    /\ reads' = IF Cardinality(reads) < MaxReads THEN reads \cup {Pass(TRUE)} ELSE reads
    /\ UNCHANGED <<own, told, lost>>

(* A tick that finds none: what is being read is about a settled turn.  The end
   of a turn that was followed is adopted, and the transcript has no cards. *)
FindsNone ==
    /\ ~live /\ own # "yes"
    /\ own' = "no" /\ following' = FALSE
    /\ IF own = "no" /\ following
       THEN /\ link' = NoLink
            /\ \E failed \in {FALSE, lost < MaxLost} :
                  /\ thread' = IF failed \/ written = 0 THEN thread ELSE [i \in 1 .. written |-> NewBubble]
                  /\ told' = (told \/ failed)
                  /\ lost' = IF failed THEN lost + 1 ELSE lost
            /\ reads' = {Pass(FALSE)}
       ELSE /\ reads' = {}
            /\ UNCHANGED <<link, thread, told, lost>>

Tick ==
    /\ ~Awaited
    /\ FollowsTurn \/ FindsNone
    /\ UNCHANGED <<held, live, turns, written, clicks, elsewhere>>

(* A pass reads the approvals, then the questions; the two kinds have nothing in
   common, and are one read here. *)
ReadAnswered ==
    /\ \E r \in reads, failed \in {FALSE, lost < MaxLost} :
          /\ ~r.asked
          /\ lost' = IF failed THEN lost + 1 ELSE lost
          /\ reads' = (reads \ {r}) \cup
                 {[r EXCEPT !.asked = TRUE, !.ok = ~failed,
                            !.ans = IF failed THEN {} ELSE Pending]}
    /\ UNCHANGED <<held, live, turns, written, link, thread, own, following, clicks, told, elsewhere>>

(* A read that failed is reported in a bubble of its own, but for the loop's. *)
RestorePendingHitl ==
    /\ \E r \in reads :
          /\ r.asked
          /\ thread' = IF r.ok THEN SettleCardsAbsent(AttachToNewest(thread, r.ans), r.ans, r.before)
                       ELSE IF r.quiet THEN thread ELSE Append(thread, NewBubble)
          /\ told' = (told \/ ~(r.ok \/ r.quiet))
          /\ reads' = reads \ {r}
    /\ UNCHANGED <<held, live, turns, written, link, own, following, clicks, lost, elsewhere>>

(* The controls a card offers: one that is being answered has none. *)
ApprovalCard(c) ==
    IF c \in Approvals /\ \E x \in Copies(thread, c) : x.st = "pending"
    THEN {"approve", "reject"} ELSE {}
QuestionCard(c) ==
    IF c \in Questions /\ \E x \in Copies(thread, c) : x.st = "pending"
    THEN {"answer", "cancel"} ELSE {}

OutcomeOf(what) ==
    CASE what \in {"approve"} -> "approved" [] what = "reject" -> "rejected"
      [] what = "answer" -> "answered" [] what = "cancel" -> "cancelled"

NoClick == [what |-> "none", ans |-> "none", reread |-> FALSE]

(* decideApproval, submitQuestion: the card looks answered at once. *)
Click ==
    /\ \E c \in Cards : \E what \in ApprovalCard(c) \cup QuestionCard(c) :
          /\ clicks[c] = NoClick
          /\ clicks' = [clicks EXCEPT ![c] = [NoClick EXCEPT !.what = what]]
          /\ thread' = PatchThread(thread, c, LAMBDA x : Card("busy", FALSE))
    /\ UNCHANGED <<held, live, turns, written, link, own, following, reads, told, lost, elsewhere>>

(* The gateway takes the answer if the record is still there; the request can
   fail on its way there or back.  A reread is answered with what it holds. *)
ClickAnswered ==
    /\ \E c \in Cards, failed \in {FALSE, lost < MaxLost} :
          LET k == clicks[c]
              takes == held[c] = "pending" /\ ~k.reread
          IN  /\ k.what # "none" /\ k.ans = "none"
              /\ lost' = IF failed THEN lost + 1 ELSE lost
              /\ \E taken \in {takes, takes /\ ~failed} :
                    /\ held' = IF taken THEN [held EXCEPT ![c] = OutcomeOf(k.what)] ELSE held
                    /\ link' = IF taken THEN Emit(<<Event("resolved", c, OutcomeOf(k.what))>>) ELSE link
              /\ clicks' = [clicks EXCEPT ![c].ans =
                     IF failed THEN "fail" ELSE IF held[c] = "pending" THEN "ok" ELSE "gone"]
    /\ UNCHANGED <<live, turns, written, thread, own, following, reads, told, elsewhere>>

(* Mutant: a refused decision is shown as the one the user made. *)
DecideApproval_Optimistic(x, k) == Card(OutcomeOf(k.what), FALSE)

(* What the answer of the gateway makes of the card: gone is not a rejection,
   and a failed request leaves the card open with the reason on it. *)
DecideApproval(x, k) ==
    CASE k.ans = "ok" -> IF x.st = "busy" THEN Card(OutcomeOf(k.what), x.err) ELSE x
      [] k.ans = "gone" -> Card("stopped", FALSE)
      [] k.ans = "fail" -> Card("pending", TRUE)

SubmitQuestion(x, k) ==
    CASE k.ans = "ok" -> Card(OutcomeOf(k.what), FALSE)
      [] k.ans = "fail" -> Card("pending", TRUE)

(* A refused answer: only what the gateway still holds is asked again. *)
ReopenOrExpireQuestion(x, k) ==
    CASE k.ans \in {"ok", "fail"} -> Card("pending", TRUE)
      [] k.ans = "gone" -> Card("expired", FALSE)

ClickLands ==
    /\ \E c \in Cards :
          LET k == clicks[c]
              asks == c \in Questions /\ ~k.reread /\ k.ans = "gone"
          IN  /\ k.what # "none" /\ k.ans # "none"
              /\ thread' = IF asks THEN thread
                           ELSE PatchThread(thread, c, LAMBDA x :
                                    IF c \in Approvals THEN DecideApproval(x, k)
                                    ELSE IF k.reread THEN ReopenOrExpireQuestion(x, k) ELSE SubmitQuestion(x, k))
              /\ clicks' = [clicks EXCEPT ![c] =
                     IF asks THEN [k EXCEPT !.ans = "none", !.reread = TRUE] ELSE NoClick]
    /\ UNCHANGED <<held, live, turns, written, link, own, following, reads, told, lost, elsewhere>>

-----------------------------------------------------------------------------
(* The page is opened, on a session that may be in the middle of a turn. *)
CardsInit ==
    /\ live \in BOOLEAN /\ turns = (IF live THEN 1 ELSE 0) /\ written \in 0 .. turns
    /\ held \in [Cards -> IF live THEN {"unborn", "pending"} ELSE {"unborn"}]
    /\ Cardinality(Born) <= MaxHeld
    /\ link = NoLink /\ thread = [i \in 1 .. written |-> NewBubble]
    /\ own = "no" /\ following = live /\ told = FALSE
    /\ reads = {[before |-> {}, quiet |-> FALSE, asked |-> FALSE, ans |-> {}, ok |-> TRUE]}
    /\ clicks = [c \in Cards |-> NoClick]
    /\ lost = 0 /\ elsewhere = 0

CardsNext ==
    \/ Raise \/ ElsewhereDecides \/ TurnOver \/ Write \/ ElsewhereStarts
    \/ SendTurn \/ Deliver \/ LoseStream \/ Tick
    \/ ReadAnswered \/ RestorePendingHitl \/ Click \/ ClickAnswered \/ ClickLands

(* The stream delivers, the loop ticks, requests are answered and land.  Nobody
   has to click, to decide elsewhere, or to end a turn. *)
CardsFairness ==
    /\ WF_cardVars(Deliver) /\ WF_cardVars(Tick)
    /\ WF_cardVars(ReadAnswered) /\ WF_cardVars(RestorePendingHitl)
    /\ WF_cardVars(ClickAnswered) /\ WF_cardVars(ClickLands)

-----------------------------------------------------------------------------
(* The thread and its cards stay well typed: a card on screen is in one of the
   states the components know. *)
CardsTypeOK ==
    /\ held \in [Cards -> Outcomes \cup {"unborn", "pending"}]
    /\ \A c \in Cards : Copies(thread, c) \subseteq [st : OpenStates \cup SettledStates, err : BOOLEAN]
    /\ own \in {"no", "yes", "settled"} /\ Cardinality(reads) <= MaxReads

(* A card on screen is in a state the components know, and never claims a
   decision that was not made: what it records as approved, rejected or answered
   is what the gateway recorded. *)
RecordsAreTrue ==
    /\ CardsTypeOK
    /\ \A c \in Cards : \A x \in Copies(thread, c) :
        x.st \in {"approved", "rejected", "answered"} => held[c] = x.st

(* No read, event or late answer takes away the control of a card the gateway
   still holds: an answer cannot speak for a card that came after it.  The one
   step that does is a refresh that adopts a document without any agent turn:
   carryOpenCards has nothing to carry the cards to.  Then nothing is left on
   screen that could be taken for the turn, and a pass over what is pending is
   under way, which brings them back. *)
HeldCardKept ==
    [][\A c \in OpenCards(thread) : held'[c] = "pending" =>
         \/ c \in OpenCards(thread')
         \/ written = 0 /\ thread' = <<>> /\ reads' # {}]_cardVars

(* A card the gateway holds is offered on a surface that is not driving the turn
   itself, whatever streams were lost. *)
HeldCardOffered ==
    \A c \in Cards : (held[c] = "pending" /\ own = "no") ~> (held[c] # "pending" \/ c \in OpenCards(thread))

(* A control for a card whose record is gone. *)
Dead(c) == held[c] # "pending" /\ \E x \in Newest(thread)[c] : IsOpen(x) /\ ~x.err

(* On a surface that follows or drives the newest turn, a card of it whose
   record is gone does not stay a live control, unless the surface says why: the
   user's own request failed, or the cards could not be read. *)
GoneCardRetired ==
    \A c \in Cards : (Dead(c) /\ (following \/ own = "yes")) ~> (~Dead(c) \/ told)

(* The controls on screen follow the gateway in the end, although cards are only
   pushed to the stream of the send: restorePendingHitl brings what is held and
   settleCardsAbsent retires what is gone. *)
CardsFollowTheGateway == HeldCardOffered /\ GoneCardRetired
=============================================================================
