---------------------------- MODULE FloatingChat ----------------------------
(***************************************************************************)
(* The floating panel (components/cubepilot/FloatingChat.tsx): the same    *)
(* conversation on every page but the chat tab.  Closing it stops the      *)
(* loop and leaves a stream alone.                                         *)
(***************************************************************************)
EXTENDS ChatSurface

Floating == me.surface = "floating"

(* An open that found no instance is owed the history, nothing else. *)
FloatAwaitingInstance(before, c) ==
    IF /\ c.shown = "agent" /\ c.agentReady /\ c.awaitingInstance
       /\ ~(before.shown = "agent" /\ before.agentReady)
    THEN LET r == Add([c EXCEPT !.awaitingInstance = FALSE], Op("reload", "meta", FALSE))
         IN  LoadAgentHistory(r, CHOOSE o \in r.ops : o.op = "reload" /\ o.pc = "meta")
    ELSE c

(* openPanel and refreshSession up to the meta read. *)
OpenPanel ==
    /\ Floating /\ me.shown = "none"
    /\ me' = FloatAwaitingInstance(me,
                Add([me EXCEPT !.shown = "agent", !.loaded = TRUE], Op("restore", "meta", ~me.loaded)))
    /\ UNCHANGED <<srv, faults>>

ClosePanel ==
    /\ Floating /\ me.shown = "agent"
    /\ me' = StopFollowing([me EXCEPT !.shown = "none"])
    /\ UNCHANGED <<srv, faults>>

FloatRefreshAgentStatus ==
    /\ Floating /\ me.shown = "agent" /\ ~me.agentReady /\ srv.instance
    /\ me' = FloatAwaitingInstance(me, [me EXCEPT !.agentReady = TRUE])
    /\ UNCHANGED <<srv, faults>>

(* refreshSession after the meta read: a turn this panel streams is the state,
   and its history is not read. *)
FloatMetaLands(o) ==
    /\ Floating /\ o.pc = "meta"
    /\ \E found \in {srv.instance} \cup (IF MayFail THEN {FALSE} ELSE {}) :
          /\ faults' = IF found = srv.instance THEN faults ELSE faults + 1
          /\ LET c == [me EXCEPT !.agentReady = @ \/ found, !.awaitingInstance = ~found]
             IN  me' = FloatAwaitingInstance(me,
                     IF c.ownTurn THEN Put(c, o, [o EXCEPT !.pc = "landed", !.had = TRUE])
                     ELSE LoadAgentHistory(c, o))
    /\ UNCHANGED srv

(* ... nor does it ask whether the turn it streams runs elsewhere. *)
AskOrFollow(c, o) ==
    IF c.ownTurn THEN StartFollowing(Drop(c, o)) ELSE Put(c, o, At(o, "check"))

RefreshSession(o) ==
    /\ Floating /\ o.op = "restore" /\ o.pc = "landed"
    /\ me' = IF ~o.cur THEN Drop(me, o)
             ELSE IF ~o.had /\ o.arg THEN Put(me, o, At(o, "greet"))
             ELSE AskOrFollow(me, o)
    /\ UNCHANGED <<srv, faults>>

FloatGreets(o) ==
    /\ Floating /\ o.pc = "greet"
    /\ me' = IF o.cur THEN AskOrFollow(Greet(me), o) ELSE Drop(Greet(me), o)
    /\ UNCHANGED <<srv, faults>>

(* Mutant: the panel drops the timer after a stop, as the pane does. *)
Watched_OnlyStops(c) == StopTurnPolling(c)

(* The panel is still open, so the loop is restarted. *)
Watched(c) == StartFollowing(c)

FloatStopFirstLands(o) == Floating /\ StopFirstLands(o, Watched)
FloatStopLands(o) == Floating /\ StopLands(o, Watched)
=============================================================================
