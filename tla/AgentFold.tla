------------------------------ MODULE AgentFold ------------------------------
(***************************************************************************)
(* lib/cubepilot/agentThread.ts: one agent turn is an ordered list of      *)
(* text and tool blocks.  The stream's events are folded onto it as they   *)
(* arrive; after a reload the same turn is folded from the runtime's       *)
(* history document.                                                       *)
(*                                                                         *)
(* A text is the sequence of the chunks it is made of, and a tool's output *)
(* the sequence of the results it was given.                               *)
(***************************************************************************)
EXTENDS Naturals, Sequences, SequencesExt, FiniteSets

CONSTANTS Calls,        \* tool calls a turn can make
          Narrations,   \* ids of narration blocks
          MaxWire       \* bound: events of a turn

(* NoId stands for the id that is not there, and no call or narration has it. *)
ASSUME FoldAssumption == "none" \notin Calls \cup Narrations

VARIABLES bubble,       \* the turn on screen: blocks, phase, the approval card
          doc,          \* what the runtime has written of the turn
          wire,         \* events sent so far
          calls,        \* the calls made, in order
          results,      \* the results each call has returned
          gated         \* the call the approval was raised for, or NoId

foldVars == <<bubble, doc, wire, calls, results, gated>>

NoId == "none"
Ids == Calls \cup {NoId}

TextBlock(id, text) == [kind |-> "text", id |-> id, text |-> text, superseded |-> <<>>]
ToolBlock(c) == [kind |-> "tool", id |-> c, output |-> <<>>, done |-> FALSE]

NewAgentMsg == [blocks |-> <<>>, phase |-> "thinking", card |-> "none", afterBlock |-> 0]

-----------------------------------------------------------------------------
(* Folding *)

Last_(bs) == bs[Len(bs)]

(* The index of the block a streamed answer continues, or 0: the last one, and
   never a narration. *)
AnswerBlock(bs) ==
    IF bs # <<>> /\ Last_(bs).kind = "text" /\ Last_(bs).id = NoId THEN Len(bs) ELSE 0

AppendText(bs, chunk) ==
    LET at == AnswerBlock(bs)
    IN  IF at = 0 THEN Append(bs, TextBlock(NoId, <<chunk>>))
        ELSE [bs EXCEPT ![at].text = Append(@, chunk)]

(* A snapshot of the whole answer.  What it displaces is kept, once. *)
ReplaceText(bs, text) ==
    LET at == AnswerBlock(bs)
    IN  IF at = 0 THEN Append(bs, TextBlock(NoId, text))
        ELSE [bs EXCEPT ![at].text = text,
                        ![at].superseded = IF bs[at].text \in {<<>>, text} THEN @
                                           ELSE Append(@, bs[at].text)]

(* Mutant: a snapshot is appended like an increment. *)
Narrate_Appends(bs, id, text) ==
    LET at == SelectInSeq(bs, LAMBDA b : b.kind = "text" /\ b.id = id)
    IN  IF at = 0 THEN Append(bs, TextBlock(id, text)) ELSE [bs EXCEPT ![at].text = @ \o text]

(* The whole text of one narration block: replaced, or a new step. *)
Narrate(bs, id, text) ==
    LET at == SelectInSeq(bs, LAMBDA b : b.kind = "text" /\ b.id = id)
    IN  IF at = 0 THEN Append(bs, TextBlock(id, text)) ELSE [bs EXCEPT ![at].text = text]

First(bs, Test(_)) == SelectInSeq(bs, LAMBDA b : b.kind = "tool" /\ Test(b))

(* The call a result belongs to: the one it names, else the oldest that has not
   finished, else the oldest with no output; a result of nothing is dropped. *)
AttachToolResult(bs, c, out) ==
    LET Named(b) == b.id = c
        tries == (IF c = NoId THEN <<>>
                  ELSE <<First(bs, LAMBDA b : Named(b) /\ ~b.done), First(bs, Named)>>)
                 \o <<First(bs, LAMBDA b : ~b.done), First(bs, LAMBDA b : b.output = <<>>)>>
        hit == SelectInSeq(tries, LAMBDA i : i # 0)
    IN  IF hit = 0 THEN bs
        ELSE [bs EXCEPT ![tries[hit]].output = Append(@, out), ![tries[hit]].done = TRUE]

(* The events that change the blocks.  Everything the turn says moves its
   phase, and message_done settles the card nobody decided. *)
ApplyAgentEvent(m, e) ==
    CASE e.type = "message_delta" ->
            [m EXCEPT !.blocks = AppendText(@, e.chunk), !.phase = "streaming"]
      [] e.type = "text_replace" ->
            [m EXCEPT !.blocks = ReplaceText(@, e.text), !.phase = "streaming"]
      [] e.type = "narration" -> [m EXCEPT !.blocks = Narrate(@, e.id, e.text)]
      [] e.type = "tool_call" -> [m EXCEPT !.blocks = Append(@, ToolBlock(e.id)), !.phase = "tools"]
      [] e.type = "tool_result" ->
            [m EXCEPT !.blocks = AttachToolResult(@, e.id, e.chunk), !.phase = "tools"]
      [] e.type = "approval_pending" ->
            [m EXCEPT !.card = "pending", !.afterBlock = Len(m.blocks), !.phase = "tools"]
      [] e.type = "approval_resolved" -> [m EXCEPT !.card = "approved"]
      [] e.type = "message_done" ->
            [m EXCEPT !.phase = "done", !.card = IF @ = "pending" THEN "stopped" ELSE @]

(* One item of the history document onto the turn: adjacent texts are one
   block, and a result is keyed on the role of its message. *)
HistoryItem(bs, it) ==
    CASE it.role = "toolResult" -> AttachToolResult(bs, it.id, it.chunk)
      [] it.role = "toolCall" -> Append(bs, ToolBlock(it.id))
      [] it.role = "text" ->
            IF bs # <<>> /\ Last_(bs).kind = "text" THEN [bs EXCEPT ![Len(bs)].text = @ \o it.text]
            ELSE Append(bs, TextBlock(NoId, it.text))

HistoryToMsgs(d) == FoldLeft(HistoryItem, <<>>, d)

(* Mutant: what was decided goes below everything the turn did. *)
SlotOf_Bottom(m) == Len(m.blocks)

(* The slot of a settled card: after the block it was raised after, within the
   blocks there are.  (A card restored without a block has fallbackSlot, after the
   last call: not modelled, the cards here were raised on the stream.) *)
SlotOf(m) == IF m.afterBlock > Len(m.blocks) THEN Len(m.blocks) ELSE m.afterBlock

(* What the collapsed header of the newest turn says is still running. *)
TurnStatus(m) ==
    IF m.phase # "tools" THEN m.phase
    ELSE IF \E i \in DOMAIN m.blocks : m.blocks[i].kind = "tool" /\ ~m.blocks[i].done THEN "tools"
    ELSE "collating"

-----------------------------------------------------------------------------
(* A turn of the runtime, and what it writes into the history: texts as they
   end up, calls, and results in the order they came. *)

FoldInit ==
    /\ bubble = NewAgentMsg /\ doc = <<>> /\ wire = 0
    /\ calls = <<>> /\ results = [c \in Calls |-> <<>>] /\ gated = NoId

Send(e) ==
    /\ bubble.phase # "done" /\ wire < MaxWire
    /\ wire' = wire + 1
    /\ bubble' = ApplyAgentEvent(bubble, e)

Parked == bubble.card = "pending"

(* The agent speaks when its calls have returned. *)
Speaks == ~Parked /\ \A i \in DOMAIN calls : results[calls[i]] # <<>>

(* The text the turn is writing under id, if its last item is one. *)
Writing(id) ==
    LET at == SelectLastInSeq(doc, LAMBDA it : it.role # "toolResult")
    IN  IF at # 0 /\ doc[at].role = "text" /\ doc[at].id = id THEN at ELSE 0

Written(id) == IF Writing(id) = 0 THEN <<>> ELSE doc[Writing(id)].text

WriteText(id, text) ==
    IF Writing(id) # 0 THEN [doc EXCEPT ![Writing(id)].text = text]
    ELSE Append(doc, [role |-> "text", id |-> id, text |-> text, chunk |-> 0])

Delta ==
    /\ Speaks
    /\ Send([type |-> "message_delta", chunk |-> wire + 1])
    /\ doc' = WriteText(NoId, Append(Written(NoId), wire + 1))
    /\ UNCHANGED <<calls, results, gated>>

(* The gateway rewrites the answer so far, or repeats it as it is.  It is assumed
   not to rewrite an answer that a call has interrupted, so that there is a block
   to rewrite: replaceText would begin another one. *)
Rewrite ==
    /\ Speaks /\ Written(NoId) # <<>>
    /\ \E text \in {Written(NoId), <<wire + 1>>} :
          /\ Send([type |-> "text_replace", text |-> text])
          /\ doc' = WriteText(NoId, text)
    /\ UNCHANGED <<calls, results, gated>>

(* A narration grows by snapshots until the turn goes on. *)
Narration ==
    /\ Speaks
    /\ \E n \in Narrations :
          /\ \A i \in DOMAIN doc : doc[i].role = "text" /\ doc[i].id = n => i = Writing(n)
          /\ Send([type |-> "narration", id |-> n, text |-> Append(Written(n), wire + 1)])
          /\ doc' = WriteText(n, Append(Written(n), wire + 1))
    /\ UNCHANGED <<calls, results, gated>>

Call ==
    /\ ~Parked
    /\ \E c \in Calls :
          /\ \A i \in DOMAIN calls : calls[i] # c
          /\ Send([type |-> "tool_call", id |-> c])
          /\ calls' = Append(calls, c)
          /\ doc' = Append(doc, [role |-> "toolCall", id |-> c, text |-> <<>>, chunk |-> 0])
    /\ UNCHANGED <<results, gated>>

(* A result names its call, and then comes in any order and more than once; or
   it names none, and then calls are answered in the order they were made. *)
Result ==
    /\ \E i \in DOMAIN calls, named \in BOOLEAN :
          LET c == calls[i]
              id == IF named THEN c ELSE NoId
          IN  /\ c # gated \/ ~Parked
              /\ ~named => results[c] = <<>> /\ \A j \in 1 .. i - 1 : results[calls[j]] # <<>>
              /\ Send([type |-> "tool_result", id |-> id, chunk |-> wire + 1])
              /\ results' = [results EXCEPT ![c] = Append(@, wire + 1)]
              /\ doc' = Append(doc, [role |-> "toolResult", id |-> id, text |-> <<>>, chunk |-> wire + 1])
    /\ UNCHANGED <<calls, gated>>

(* The write the newest call wants is held for a decision, and one at a time.
   (Two writes held at once, after both were called, have one slot: below the
   second.  README, known weaknesses.) *)
Hold ==
    /\ bubble.card = "none" /\ calls # <<>> /\ results[calls[Len(calls)]] = <<>>
    /\ doc[Len(doc)].role = "toolCall"
    /\ Send([type |-> "approval_pending"])
    /\ gated' = calls[Len(calls)]
    /\ UNCHANGED <<doc, calls, results>>

Release ==
    /\ Parked
    /\ Send([type |-> "approval_resolved"])
    /\ UNCHANGED <<doc, calls, results, gated>>

Done ==
    /\ Send([type |-> "message_done"])
    /\ UNCHANGED <<doc, calls, results, gated>>

FoldNext == Delta \/ Rewrite \/ Narration \/ Call \/ Result \/ Hold \/ Release \/ Done

-----------------------------------------------------------------------------
ToolAt == {i \in DOMAIN bubble.blocks : bubble.blocks[i].kind = "tool"}

(* The tool blocks on screen are the calls that were made, in the order they
   were made, and every output is the output of that call: however the results
   were named, ordered and repeated, none is lost or goes to another call. *)
OutputsBelong ==
    /\ {bubble.blocks[i].id : i \in ToolAt} = Range(calls)
    /\ \A i, j \in ToolAt : i < j =>
          \E k, l \in DOMAIN calls :
             k < l /\ calls[k] = bubble.blocks[i].id /\ calls[l] = bubble.blocks[j].id
    /\ \A i \in ToolAt : bubble.blocks[i].output = results[bubble.blocks[i].id]

(* The text between two tools, with the boundaries of its blocks left out. *)
ShapeStep(acc, b) ==
    IF b.kind = "tool" THEN Append(acc, [tool |-> b.id, said |-> b.output])
    ELSE IF acc # <<>> /\ acc[Len(acc)].tool = NoId THEN [acc EXCEPT ![Len(acc)].said = @ \o b.text]
    ELSE Append(acc, [tool |-> NoId, said |-> b.text])

Shape(bs) == FoldLeft(ShapeStep, <<>>, bs)

(* A reload at any moment shows the turn as the stream did: the same texts on
   the same side of the same calls, with the same outputs. *)
RestoredAsStreamed == Shape(HistoryToMsgs(doc)) = Shape(bubble.blocks)

(* A settled approval is the record beside the call it gated, whatever the turn
   went on to say. *)
CardBesideItsCall ==
    bubble.card \in {"approved", "stopped"} /\ gated # NoId
        => bubble.blocks[SlotOf(bubble)].id = gated

(* "Running tools" is said exactly while a call is out. *)
StatusMatchesCalls ==
    bubble.phase = "tools" /\ ~Parked
        => (TurnStatus(bubble) = "tools" <=> \E i \in DOMAIN calls : results[calls[i]] = <<>>)

(* What is on screen is the turn the runtime ran: applyAgentEvent keeps every
   output with its call, the status line with the calls that are out, and a
   settled card beside the call it was raised for. *)
TurnIsTheRuntimes == OutputsBelong /\ StatusMatchesCalls /\ CardBesideItsCall
=============================================================================
