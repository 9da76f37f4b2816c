------------------------------ MODULE ChatPane ------------------------------
(***************************************************************************)
(* The chat tab (components/cubepilot/ChatPane.tsx): one object is on      *)
(* screen, the agent or a model, and selecting another one retires what    *)
(* the pane was doing for the last.                                        *)
(***************************************************************************)
EXTENDS ChatSurface

(* An effect owes a restore to a selection that found no instance.  It runs
   when the agent comes on screen or its instance becomes Ready. *)
AwaitingInstance(before, c) ==
    IF /\ c.shown = "agent" /\ c.agentReady /\ c.awaitingInstance
       /\ ~(before.shown = "agent" /\ before.agentReady)
    THEN Add([c EXCEPT !.awaitingInstance = FALSE], Op("await", "meta", FALSE))
    ELSE c

(* selectAgent(seed): the handed-over thread is painted as it is. *)
SelectAgent(c, seed) ==
    LET s == [CancelInflight(c) EXCEPT !.shown = "agent", !.seeded = seed > 0, !.msgs = seed,
                                       !.greet = FALSE, !.notice = "none"]
    IN  AwaitingInstance(c, Add(s, Op("restore", "meta", FALSE)))

PaneSelectAgent ==
    /\ Pane(me)
    /\ me' = SelectAgent(me, 0)
    /\ UNCHANGED <<srv, faults>>

PaneSelectModel ==
    /\ Pane(me) /\ me.shown = "agent"
    /\ me' = [CancelInflight(me) EXCEPT !.shown = "model", !.msgs = 0, !.greet = FALSE]
    /\ UNCHANGED <<srv, faults>>

(* clearChat: the model side's transcript is local. *)
PaneClearChat ==
    /\ Pane(me) /\ me.shown = "model"
    /\ me' = [CancelInflight(me) EXCEPT !.msgs = 0, !.greet = FALSE]
    /\ UNCHANGED <<srv, faults>>

(* The poll that runs until the instance is Ready. *)
PaneRefreshAgentStatus ==
    /\ Pane(me) /\ me.shown = "agent" /\ ~me.agentReady /\ srv.instance
    /\ me' = AwaitingInstance(me, [me EXCEPT !.agentReady = TRUE])
    /\ UNCHANGED <<srv, faults>>

(* The meta read has landed; one that failed reads as "no instance".  Only
   selectAgent checks its generation here.  (An instance is found when it exists,
   is Ready and has a model: the three are one flag.) *)
PaneMetaLands(o) ==
    /\ Pane(me) /\ o.pc = "meta"
    /\ \E found \in {srv.instance} \cup (IF MayFail THEN {FALSE} ELSE {}) :
          /\ faults' = IF found = srv.instance THEN faults ELSE faults + 1
          /\ LET c == [me EXCEPT !.agentReady = @ \/ found]
                 p == [o EXCEPT !.cur = TRUE]
             IN  me' = AwaitingInstance(me,
                     IF o.op = "restore"
                     THEN IF found THEN LoadAgentHistory([c EXCEPT !.awaitingInstance = FALSE], o)
                          ELSE Put([c EXCEPT !.awaitingInstance = TRUE], o, At(o, "greetEnd"))
                     ELSE LoadAgentHistory(Put(c, o, p), p))
    /\ UNCHANGED srv

(* restoreAgentSession after its history read: nothing under the key is a
   conversation that has not started, which is greeted. *)
RestoreAgentSession(c, o) ==
    IF ~o.cur THEN Drop(c, o)
    ELSE IF ~o.had /\ ~c.seeded THEN Put(c, o, At(o, "greet"))
    ELSE Put([c EXCEPT !.seeded = FALSE], o, At(o, "check"))

PaneRestores(o) ==
    /\ Pane(me) /\ o.op \in {"restore", "await", "clear"} /\ o.pc = "landed"
    /\ me' = RestoreAgentSession(me, o)
    /\ UNCHANGED <<srv, faults>>

(* The confirm policy has been read, and the greeting is set: the generation
   is not checked between the two. *)
PaneGreets(o) ==
    /\ Pane(me) /\ o.pc \in {"greet", "greetEnd"}
    /\ LET c == [Greet(me) EXCEPT !.seeded = @ /\ o.pc = "greetEnd"]
       IN  me' = IF o.pc = "greetEnd" \/ ~o.cur THEN Drop(c, o) ELSE Put(c, o, At(o, "check"))
    /\ UNCHANGED <<srv, faults>>

(* clearAgentSession: the session is deleted at the server, then the pane does
   what a fresh page does. *)
ClearAgentSession ==
    /\ Pane(me) /\ me.shown = "agent"
    /\ ~\E o \in me.ops : o.op = "clear"
    /\ me' = Add(me, Op("clear", "delete", FALSE))
    /\ UNCHANGED <<srv, faults>>

ClearLands(o) ==
    /\ o.op = "clear" /\ o.pc = "delete" /\ o.ans # "none"
    /\ me' = IF o.ans = "fail" THEN Drop(me, o)
             ELSE LET c == CancelInflight(Drop(me, o)) IN Add(c, Op("clear", "meta", FALSE))
    /\ UNCHANGED <<srv, faults>>

(* A message to the selected model, and the end of its answer. *)
SendToModel ==
    /\ me.shown = "model" /\ ~me.sending /\ ~me.stoppingElsewhere
    /\ me' = Add([Bump(me) EXCEPT !.sending = TRUE], Op("model", "chat", FALSE))
    /\ UNCHANGED <<srv, faults>>

ModelAnswered(o) ==
    /\ o.op = "model"
    /\ me' = [Drop(me, o) EXCEPT !.sending = @ /\ ~o.cur]
    /\ UNCHANGED <<srv, faults>>

(* After a stop has landed the pane drops the loop's timer. *)
PaneStopFirstLands(o) == Pane(me) /\ StopFirstLands(o, StopTurnPolling)
PaneStopLands(o) == Pane(me) /\ StopLands(o, StopTurnPolling)

(* The pane is left: nothing it waits for is rendered any more. *)
PaneLeave ==
    /\ Pane(me)
    /\ me' = Mounted("floating")
    /\ UNCHANGED <<srv, faults>>
=============================================================================
