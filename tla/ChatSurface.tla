---------------------------- MODULE ChatSurface ----------------------------
(***************************************************************************)
(* What the two surfaces of the CubePilot conversation share: the chat tab *)
(* (components/cubepilot/ChatPane.tsx) and the floating panel              *)
(* (components/cubepilot/FloatingChat.tsx) drive ONE session of the agent  *)
(* runtime with the same code.  `me` is the surface under study; every     *)
(* other window, and the other surface, is "elsewhere".                    *)
(*                                                                         *)
(* A handler runs to its next await in one step.  What waits is a record   *)
(* of me.ops: which handler (op), where (pc), whether the generation it    *)
(* captured still holds (cur for genRef, fcur for followGenRef, rcur for   *)
(* the history read it waits for), and the answer the server gave (ans,    *)
(* val), which lands in a later step: answers can overtake each other.     *)
(***************************************************************************)
EXTENDS Naturals, FiniteSets

CONSTANTS MaxTurns,     \* bound: turns the session runs
          MaxFaults,    \* bound: failed requests, lost or stalled links
          MaxEvents,    \* bound: turns and faults together
          MaxOps        \* bound: handlers that wait at once

ASSUME BoundsAssumption ==
    MaxTurns \in Nat /\ MaxFaults \in Nat /\ MaxEvents \in Nat /\ MaxOps \in Nat \ {0}

VARIABLES me,           \* the mounted surface: React state, refs, what waits
          srv,          \* the agent runtime's session
          faults        \* faults so far

vars == <<me, srv, faults>>

(* A transcript is a number: 0 is empty, 2n-1 holds a part of turn n, and 2n
   the whole of it.  msgs is what the thread shows, with the greeting and the
   bubble the open stream writes to apart. *)
Docs == 0 .. 2 * MaxTurns

Ops == {"restore", "await", "clear", "reload", "tick", "send", "stop", "stopOwn", "check", "model"}
Pcs == {"meta", "hist", "greet", "greetEnd", "check", "armed", "turn", "refresh",
        "abort", "delete", "landed", "chat"}
OpRecords ==
    [op : Ops, n : 1 .. MaxOps + 2, pc : Pcs, cur : BOOLEAN, fcur : BOOLEAN, rcur : BOOLEAN,
     ans : {"none", "ok", "fail"}, val : Docs, had : BOOLEAN, arg : BOOLEAN]

StreamRecords ==
    [pc : {"none", "post", "open", "drain"}, turn : 0 .. MaxTurns, dead : BOOLEAN, cur : BOOLEAN]
NoStream == [pc |-> "none", turn |-> 0, dead |-> FALSE, cur |-> FALSE]

Surfaces ==
    [surface : {"pane", "floating"}, shown : {"agent", "model", "none"},
     msgs : Docs, greet : BOOLEAN, bubble : BOOLEAN,
     notice : {"none", "active", "unavailable"},
     sending : BOOLEAN, stoppingElsewhere : BOOLEAN, runningElsewhere : BOOLEAN,
     turnCheckFailed : BOOLEAN, ownTurn : BOOLEAN, following : BOOLEAN, ownTurnSettled : BOOLEAN,
     quiet : BOOLEAN, seeded : BOOLEAN, lastHistory : Docs, awaitingInstance : BOOLEAN,
     loaded : BOOLEAN, agentReady : BOOLEAN, strm : StreamRecords, ops : SUBSET OpRecords]

Sessions == [turn : 0 .. MaxTurns, active : BOOLEAN, doc : Docs, instance : BOOLEAN]

MayStart == srv.turn < MaxTurns /\ srv.turn + faults < MaxEvents
MayFail == faults < MaxFaults /\ srv.turn + faults < MaxEvents

Mounted(surface) ==
    [surface |-> surface, shown |-> "none", msgs |-> 0, greet |-> FALSE, bubble |-> FALSE,
     notice |-> "none", sending |-> FALSE, stoppingElsewhere |-> FALSE, runningElsewhere |-> FALSE,
     turnCheckFailed |-> FALSE, ownTurn |-> FALSE, following |-> FALSE, ownTurnSettled |-> FALSE,
     quiet |-> TRUE, seeded |-> FALSE, lastHistory |-> 0, awaitingInstance |-> FALSE,
     loaded |-> FALSE, agentReady |-> FALSE, strm |-> NoStream, ops |-> {}]

-----------------------------------------------------------------------------
(* Waiting handlers *)

Pane(c) == c.surface = "pane"

Op(op, pc, arg) ==
    [op |-> op, n |-> 1, pc |-> pc, cur |-> TRUE, fcur |-> TRUE, rcur |-> TRUE,
     ans |-> "none", val |-> 0, had |-> FALSE, arg |-> arg]

(* Two handlers of one kind are told apart by a number. *)
FreeNumber(os, op) ==
    CHOOSE n \in 1 .. MaxOps + 2 :
        /\ \A o \in os : ~(o.op = op /\ o.n = n)
        /\ \A k \in 1 .. n - 1 : \E o \in os : o.op = op /\ o.n = k

Add(c, o) == [c EXCEPT !.ops = @ \cup {[o EXCEPT !.n = FreeNumber(c.ops, o.op)]}]
Drop(c, o) == [c EXCEPT !.ops = @ \ {o}]
Put(c, o, p) == [c EXCEPT !.ops = (@ \ {o}) \cup {p}]

(* At p the handler has sent a request, with the generation it captured. *)
At(o, pc) == [o EXCEPT !.pc = pc, !.ans = "none", !.val = 0, !.rcur = TRUE]

(* genRef.current++: what waits was started for an older generation.  A
   handler that only checks the generation when its answer lands is over. *)
Outlives(c, o) ==
    \/ o.op = "tick"
    \/ o.pc \in {"greet", "greetEnd", "delete", "abort"}
    \/ o.pc = "hist" /\ Pane(c)
    \/ o.pc = "meta" /\ o.op \in {"clear", "await"}

Bump(c) ==
    [c EXCEPT !.ops = {[o EXCEPT !.cur = FALSE, !.rcur = FALSE] : o \in {p \in @ : Outlives(c, p)}},
              !.strm.cur = FALSE]

-----------------------------------------------------------------------------
(* The follow loop's timer, and the send's stream *)

(* The tick whose timer handle turnPollRef holds is cleared. *)
StopTurnPolling(c) ==
    [c EXCEPT !.ops = {o \in @ : ~(o.op = "tick" /\ o.pc = "armed" /\ o.arg)}]

(* turnPollRef.current = setTimeout(tick): the handle replaces the last one. *)
Arm(c) ==
    Add([c EXCEPT !.ops = {[o EXCEPT !.arg = @ /\ o.op # "tick"] : o \in @}], Op("tick", "armed", TRUE))

Rearm(c, o) == IF o.fcur THEN Arm(Drop(c, o)) ELSE Drop(c, o)

(* The floating panel's stopFollowing bumps followGenRef: a tick in flight has
   no successor, and one waiting for /turn does nothing more. *)
StopFollowing(c) ==
    [c EXCEPT !.ops = {[o EXCEPT !.fcur = @ /\ o.op # "tick"] :
                           o \in {p \in @ : ~(p.op = "tick" /\ p.pc \in {"armed", "turn"})}}]

StartFollowing(c) == Arm(IF Pane(c) THEN StopTurnPolling(c) ELSE StopFollowing(c))

(* sendCtlRef.current?.abort(): sendAgent returns, and its finally releases
   the composer when the generation is still the send's. *)
AbortSend(c) ==
    IF c.strm.pc = "none" THEN c
    ELSE [c EXCEPT !.strm = NoStream, !.bubble = FALSE, !.sending = @ /\ ~c.strm.cur]

(* What this surface was doing for the conversation it leaves is retired.  An
   abort still on its way is from here on one that comes from elsewhere, and a
   history read stays out for whoever joins it. *)
Retired(c) ==
    LET b == AbortSend(Bump(c))
    IN  [b EXCEPT !.ops = {[o EXCEPT !.fcur = FALSE] :
                              o \in {p \in @ : p.pc # "abort" /\ (p.op = "tick" => p.pc = "hist")}},
                  !.ownTurn = FALSE, !.following = FALSE, !.lastHistory = 0,
                  !.runningElsewhere = FALSE, !.turnCheckFailed = FALSE,
                  !.stoppingElsewhere = FALSE]

(* Mutant: `sending` is left to the finally of the handlers just cancelled. *)
CancelInflight_KeepsSending(c) == Retired(c)

CancelInflight(c) == [Retired(c) EXCEPT !.sending = FALSE]

-----------------------------------------------------------------------------
(* The history read *)

(* The thread becomes the document d: the bubble a stream was given is gone. *)
Replace(c, d) == [c EXCEPT !.msgs = d, !.greet = FALSE, !.bubble = FALSE]

Greet(c) == [c EXCEPT !.msgs = 0, !.greet = TRUE, !.bubble = FALSE]

(* The pane keeps one read in flight per session, and a second caller joins
   it; the floating panel's callers read on their own. *)
LoadAgentHistory(c, o) ==
    LET out == {p \in c.ops \ {o} : p.pc = "hist"}
        h == At(o, "hist")
    IN  IF Pane(c) /\ out # {}
        THEN LET p == CHOOSE q \in out : TRUE
             IN  Put(c, o, [h EXCEPT !.rcur = p.rcur, !.ans = p.ans, !.val = p.val])
        ELSE Put(c, o, h)

(* Mutant: a handed-over thread is replaced by the first read like any other. *)
AdoptsRestoredThread_IgnoresSeed(d, seeded) == d > 0

AdoptsRestoredThread(d, seeded) == d > 0 /\ ~seeded

(* What the read does to the thread when it lands: an overtaken read renders
   nothing, and an empty document is taken note of but never replaces what is on
   screen.  (That there is no document, a 404, is not told from an empty one: a
   document is never written again as it once was.) *)
ReadAgentHistory(c, o) ==
    IF ~o.rcur THEN c
    ELSE IF o.ans = "fail" THEN [c EXCEPT !.notice = "unavailable"]
    ELSE LET r == [c EXCEPT !.lastHistory = o.val]
         IN  IF AdoptsRestoredThread(o.val, Pane(c) /\ c.seeded) THEN Replace(r, o.val) ELSE r

(* Everyone who waited for the read goes on in the same turn of the event
   loop: they are "landed", and nothing else happens before they are done. *)
HistoryLands(o) ==
    /\ o.pc = "hist" /\ o.ans # "none"
    /\ me' = LET readers == IF Pane(me) THEN {p \in me.ops : p.pc = "hist"} ELSE {o}
             IN  [ReadAgentHistory(me, o) EXCEPT
                     !.ops = (@ \ readers) \cup
                         {[p EXCEPT !.pc = "landed", !.had = o.ans = "fail" \/ o.val > 0] : p \in readers}]
    /\ UNCHANGED <<srv, faults>>

(* Mutant: the tick trusts what it read before the fetch, and renders. *)
RefreshLands_NoOwnTurnCheck(c, o) ==
    IF o.ans = "ok" /\ o.rcur /\ o.val > 0 /\ o.val # c.lastHistory
    THEN Replace([c EXCEPT !.lastHistory = o.val], o.val)
    ELSE c

RefreshLands(c, o) ==
    IF o.ans = "ok" /\ o.rcur /\ ~c.ownTurn /\ o.val > 0 /\ o.val # c.lastHistory
    THEN Replace([c EXCEPT !.lastHistory = o.val], o.val)
    ELSE c

RefreshHistoryIfChanged(o) ==
    /\ o.pc = "refresh" /\ o.ans # "none"
    /\ me' = Rearm(RefreshLands(me, o), o)
    /\ UNCHANGED <<srv, faults>>

(* Give up on the stream, and take the runtime's copy. *)
AdoptServerState(c, o) ==
    LET a == AbortSend(c)
    IN  LoadAgentHistory([a EXCEPT !.following = FALSE, !.runningElsewhere = FALSE, !.notice = "none"], o)

-----------------------------------------------------------------------------
(* The follow loop *)

(* Mutant: the loop waits for the terminal event of a stream gone silent. *)
OwnTurnTick_TrustsLink(c, o) ==
    IF o.val = 0 /\ c.ownTurnSettled
    THEN Rearm(AbortSend([c EXCEPT !.ownTurn = FALSE, !.ownTurnSettled = FALSE]), o)
    ELSE Rearm(c, o)

(* A turn this surface started: its stream is the state, and the loop only
   asks whether the run is over. *)
OwnTurnTick(c, o) ==
    CASE o.val = 1 -> Rearm(c, o)
      [] o.val = 0 /\ c.ownTurnSettled ->
            Rearm(AbortSend([c EXCEPT !.ownTurn = FALSE, !.ownTurnSettled = FALSE]), o)
      [] o.val = 0 /\ ~c.ownTurnSettled /\ c.quiet -> AdoptServerState([c EXCEPT !.ownTurn = FALSE], o)
      [] OTHER -> Rearm(c, o)

(* Mutant: the loop stops following when the turn it watched has ended,
   without the terminal read. *)
FollowTick_NoTerminalRead(c, o) ==
    IF o.val = 1
    THEN Put([c EXCEPT !.runningElsewhere = TRUE, !.following = TRUE], o, At(o, "refresh"))
    ELSE Rearm([c EXCEPT !.runningElsewhere = FALSE, !.following = FALSE], o)

FollowTick(c, o) ==
    IF o.val = 1
    THEN Put([c EXCEPT !.runningElsewhere = TRUE, !.following = TRUE], o, At(o, "refresh"))
    ELSE IF c.following THEN AdoptServerState(c, o)
    ELSE Rearm([c EXCEPT !.runningElsewhere = FALSE], o)

TickLands(o) ==
    /\ o.pc = "turn" /\ o.ans # "none"
    /\ me' = IF o.ans = "fail" THEN Rearm(me, o)
             ELSE IF me.ownTurn THEN OwnTurnTick(me, o) ELSE FollowTick(me, o)
    /\ UNCHANGED <<srv, faults>>

(* The answer of /turn on (re)select, on open, on retry, on a lost stream.  A
   check that failed is never "nothing is running". *)
CheckTurnElsewhere(c, o) ==
    [c EXCEPT !.runningElsewhere = o.ans = "ok" /\ o.val = 1, !.turnCheckFailed = o.ans = "fail"]

CheckLands(o) ==
    /\ o.op = "check" /\ o.pc = "check" /\ o.ans # "none"
    /\ me' = Drop(CheckTurnElsewhere(me, o), o)
    /\ UNCHANGED <<srv, faults>>

(* The tail of a restore: a turn found running is followed to its end. *)
RestoreEnds(c, o) ==
    LET k == CheckTurnElsewhere(c, o)
    IN  StartFollowing(Drop(IF k.runningElsewhere THEN [k EXCEPT !.notice = "active", !.following = TRUE]
                            ELSE k, o))

RestoreCheckLands(o) ==
    /\ o.op \in {"restore", "await", "clear"} /\ o.pc = "check" /\ o.ans # "none"
    /\ me' = RestoreEnds(me, o)
    /\ UNCHANGED <<srv, faults>>

RetryTurnCheck ==
    /\ me.shown = "agent" /\ me.turnCheckFailed
    /\ me' = Add([me EXCEPT !.turnCheckFailed = FALSE], Op("check", "check", FALSE))
    /\ UNCHANGED <<srv, faults>>

DismissTurnCheck ==
    /\ me.shown = "agent" /\ me.turnCheckFailed
    /\ me' = [me EXCEPT !.turnCheckFailed = FALSE]
    /\ UNCHANGED <<srv, faults>>

-----------------------------------------------------------------------------
(* Sending, stopping, and the turn's stream *)

(* From here the surface drives a turn: the bubble is in the thread, the POST
   is out, and the loop must leave the transcript alone. *)
StartTurn(c) ==
    [c EXCEPT !.runningElsewhere = FALSE, !.turnCheckFailed = FALSE, !.ownTurn = TRUE,
              !.following = FALSE, !.bubble = TRUE, !.ownTurnSettled = FALSE,
              !.strm = [pc |-> "post", turn |-> 0, dead |-> FALSE, cur |-> TRUE]]

MaySend == me.shown = "agent" /\ me.agentReady /\ ~me.sending /\ ~me.stoppingElsewhere

(* A turn known to be running, or not known to be over, is stopped first. *)
SendMessage ==
    /\ MaySend
    /\ LET c == [Bump(me) EXCEPT !.sending = TRUE]
       IN  me' = IF me.runningElsewhere \/ me.turnCheckFailed
                 THEN Add(c, Op("send", "abort", me.runningElsewhere))
                 ELSE StartTurn(c)
    /\ UNCHANGED <<srv, faults>>

(* The stop-first step of a send has its answer.  arg is what the send knew
   when it started: a refusal on a confirmed turn keeps the message back. *)
StopFirstLands(o, stopped(_)) ==
    /\ o.op = "send" /\ o.pc = "abort" /\ o.ans # "none"
    /\ me' = IF ~o.cur THEN Drop(me, o)
             ELSE IF o.ans = "ok" THEN LoadAgentHistory(stopped([me EXCEPT !.runningElsewhere = FALSE]), o)
             ELSE IF o.arg THEN [Drop(me, o) EXCEPT !.sending = FALSE]
             ELSE StartTurn(Drop(me, o))
    /\ UNCHANGED <<srv, faults>>

(* The Stop for a turn this surface does not stream. *)
StopElsewhere ==
    /\ me.shown = "agent" /\ me.runningElsewhere /\ ~me.turnCheckFailed
    /\ ~me.sending /\ ~me.stoppingElsewhere
    /\ me' = Add([me EXCEPT !.stoppingElsewhere = TRUE], Op("stop", "abort", FALSE))
    /\ UNCHANGED <<srv, faults>>

StopLands(o, stopped(_)) ==
    /\ o.op = "stop" /\ o.pc = "abort" /\ o.ans # "none"
    /\ me' = IF ~o.cur THEN Drop(me, o)
             ELSE LET c == [me EXCEPT !.stoppingElsewhere = FALSE]
                  IN  IF o.ans = "fail" THEN Drop(c, o)
                      ELSE LoadAgentHistory(Bump(stopped([c EXCEPT !.runningElsewhere = FALSE])),
                                            [o EXCEPT !.cur = FALSE, !.rcur = FALSE])
    /\ UNCHANGED <<srv, faults>>

(* The Stop for the turn this surface streams: the answer is not acted on. *)
StopOwn ==
    /\ me.shown = "agent" /\ me.sending /\ ~me.stoppingElsewhere
    /\ ~\E o \in me.ops : o.op = "stopOwn"
    /\ me' = Add(me, Op("stopOwn", "abort", FALSE))
    /\ UNCHANGED <<srv, faults>>

StopOwnLands(o) ==
    /\ o.op = "stopOwn" /\ o.ans # "none"
    /\ me' = Drop(me, o)
    /\ UNCHANGED <<srv, faults>>

(* The handlers that are over, or go on to send, when their read has landed. *)
Resumes(o) ==
    /\ o.pc = "landed"
    /\ \/ /\ o.op = "tick"
          /\ me' = Rearm(me, o)
       \/ /\ o.op = "send"
          /\ me' = IF o.cur THEN StartTurn(Drop(me, o)) ELSE Drop(me, o)
       \/ /\ o.op \in {"stop", "reload"}
          /\ me' = Drop(me, o)
    /\ UNCHANGED <<srv, faults>>

StreamOver(c) == [c EXCEPT !.strm = NoStream, !.bubble = FALSE, !.sending = @ /\ ~c.strm.cur]

(* The POST is accepted: the run registers and the response opens. *)
PostAccepted ==
    /\ me.strm.pc = "post" /\ ~srv.active /\ MayStart
    /\ srv' = [srv EXCEPT !.turn = @ + 1, !.active = TRUE]
    /\ me' = [me EXCEPT !.strm.pc = "open", !.strm.turn = srv.turn + 1, !.quiet = FALSE]
    /\ UNCHANGED faults

(* 409 while a turn runs, or a failed request: the bubble carries the error. *)
PostRefused ==
    /\ me.strm.pc = "post"
    /\ \/ (srv.active \/ ~MayStart) /\ UNCHANGED faults
       \/ MayFail /\ faults' = faults + 1
    /\ me' = StreamOver(me)
    /\ UNCHANGED srv

(* Bytes arrive: output of the turn, or a ping.  They go to the bubble. *)
StreamCarries ==
    /\ me.strm.pc = "open" /\ ~me.strm.dead /\ srv.active /\ srv.turn = me.strm.turn
    /\ me' = IF ~me.strm.cur THEN StreamOver(me)
             ELSE [me EXCEPT !.quiet = FALSE, !.msgs = IF me.bubble THEN 2 * me.strm.turn - 1 ELSE @]
    /\ UNCHANGED <<srv, faults>>

(* message_done: the turn is complete in this thread, and the runtime is assumed to
   have taken it off the session's run before it says so. *)
MessageDone ==
    /\ me.strm.pc = "open" /\ ~me.strm.dead /\ ~(srv.active /\ srv.turn = me.strm.turn)
    /\ me' = IF ~me.strm.cur THEN StreamOver(me)
             ELSE [me EXCEPT !.quiet = FALSE, !.ownTurnSettled = TRUE, !.strm.pc = "drain",
                             !.msgs = IF me.bubble THEN 2 * me.strm.turn ELSE @]
    /\ UNCHANGED <<srv, faults>>

StreamCloses ==
    /\ me.strm.pc = "drain" /\ ~me.strm.dead
    /\ me' = StreamOver(me)
    /\ UNCHANGED <<srv, faults>>

(* The connection dies under the reader.  Before the terminal event that hands
   the turn to the loop, and asks whether the run is still going. *)
StreamLost ==
    /\ me.strm.pc \in {"open", "drain"} /\ ~me.strm.dead /\ MayFail
    /\ faults' = faults + 1
    /\ me' = LET c == StreamOver(me)
             IN  IF me.strm.pc = "open" /\ me.strm.cur
                 THEN Add([c EXCEPT !.ownTurn = FALSE, !.following = TRUE], Op("check", "check", FALSE))
                 ELSE c
    /\ UNCHANGED srv

(* The link is half open: the read never returns. *)
LinkStalls ==
    /\ me.strm.pc \in {"open", "drain"} /\ ~me.strm.dead /\ MayFail
    /\ faults' = faults + 1
    /\ me' = [me EXCEPT !.strm.dead = TRUE]
    /\ UNCHANGED srv

(* STREAM_SILENCE_MS have passed since the stream last carried anything. *)
Silence ==
    /\ ~me.quiet
    /\ me' = [me EXCEPT !.quiet = TRUE]
    /\ UNCHANGED <<srv, faults>>

-----------------------------------------------------------------------------
(* The runtime behind /api/cubepilot/pilot: one session, one turn at a time.
   A turn is written into the history as it goes, and is whole when it ends. *)

Stopped(s) == [s EXCEPT !.active = FALSE, !.doc = IF s.active THEN 2 * s.turn ELSE @]
Cleared(s) == [s EXCEPT !.active = FALSE, !.doc = 0]

(* The server answers a waiting request with what is true now, or the request
   fails: before or after it took effect.  The timer of an armed tick fires and
   its /turn is answered in one step: nothing looks at a tick between the two. *)
Answer(o) ==
    /\ o.ans = "none" /\ o.pc \in {"hist", "refresh", "check", "armed", "abort", "delete"}
    /\ LET joint == IF Pane(me) /\ o.pc = "hist" THEN {p \in me.ops : p.pc = "hist"} ELSE {o}
           Answered(a, v) ==
               [me EXCEPT !.ops = (@ \ joint) \cup
                   {[p EXCEPT !.ans = a, !.val = v, !.pc = IF @ = "armed" THEN "turn" ELSE @] : p \in joint}]
           val == IF o.pc \in {"hist", "refresh"} THEN srv.doc
                  ELSE IF o.pc \in {"check", "armed"} /\ srv.active THEN 1 ELSE 0
           done == IF o.pc = "abort" THEN Stopped(srv) ELSE IF o.pc = "delete" THEN Cleared(srv) ELSE srv
       IN  \/ /\ me' = Answered("ok", val)
              /\ srv' = done
              /\ UNCHANGED faults
           \/ /\ MayFail
              /\ faults' = faults + 1
              /\ me' = Answered("fail", 0)
              /\ srv' \in {srv, done}

TurnEnds ==
    /\ srv.active
    /\ srv' = Stopped(srv)
    /\ UNCHANGED <<me, faults>>

WriteHistory ==
    /\ srv.active /\ srv.doc < 2 * srv.turn - 1
    /\ srv' = [srv EXCEPT !.doc = 2 * srv.turn - 1]
    /\ UNCHANGED <<me, faults>>

(* Another window, or a POST this surface has walked away from. *)
ElsewhereStarts ==
    /\ ~srv.active /\ MayStart /\ srv.instance
    /\ srv' = [srv EXCEPT !.turn = @ + 1, !.active = TRUE]
    /\ UNCHANGED <<me, faults>>

InstanceReady ==
    /\ ~srv.instance
    /\ srv' = [srv EXCEPT !.instance = TRUE]
    /\ UNCHANGED <<me, faults>>
=============================================================================
