------------------------------ MODULE ChatShell ------------------------------
(***************************************************************************)
(* The shell mounts one surface of the conversation at a time              *)
(* (components/shell/AppShell.tsx), and expanding the floating panel hands *)
(* its thread to the chat tab (components/cubepilot/agentHandoff.ts).      *)
(* A tab of the assistant's page stays mounted while another is looked at; *)
(* leaving it here means leaving the page.                                 *)
(***************************************************************************)
EXTENDS ChatPane, FloatingChat

CONSTANTS Visited,      \* where the visit goes: "floating", "pane", "closed"
          Past,         \* turns the session has run before it
          Provisioned   \* is the agent's instance up when it starts?

ASSUME VisitAssumption == Past \in 0 .. MaxTurns /\ Provisioned \subseteq BOOLEAN

Init ==
    /\ srv \in [turn : {Past}, active : {FALSE}, doc : {2 * Past}, instance : Provisioned]
    /\ me = IF "floating" \in Visited THEN Mounted("floating") ELSE SelectAgent(Mounted("pane"), 0)
    /\ faults = 0

(* expandToPane: the panel unmounts, and the pane it opens takes the offer.  A
   thread with nothing in it is not offered. *)
ExpandToPane ==
    /\ Floating /\ me.shown = "agent" /\ "pane" \in Visited
    /\ me' = SelectAgent(Mounted("pane"), me.msgs)
    /\ UNCHANGED <<srv, faults>>

(* Nothing else happens while handlers that waited for one read go on. *)
Settled == \A o \in me.ops : o.pc # "landed"

Lands(o) ==
    \/ Settled /\ \/ HistoryLands(o) \/ RefreshHistoryIfChanged(o) \/ TickLands(o) \/ CheckLands(o)
                  \/ RestoreCheckLands(o) \/ StopOwnLands(o)
                  \/ PaneMetaLands(o) \/ PaneGreets(o) \/ ClearLands(o) \/ ModelAnswered(o)
                  \/ PaneStopFirstLands(o) \/ PaneStopLands(o)
                  \/ FloatMetaLands(o) \/ FloatGreets(o) \/ FloatStopFirstLands(o) \/ FloatStopLands(o)
    \/ Resumes(o) \/ PaneRestores(o) \/ RefreshSession(o)

Answers(k, n) == Settled /\ \E o \in me.ops : o.op = k /\ o.n = n /\ Answer(o)
Continues(k, n) == \E o \in me.ops : o.op = k /\ o.n = n /\ Lands(o)

User ==
    \/ SendMessage \/ StopElsewhere \/ StopOwn \/ RetryTurnCheck \/ DismissTurnCheck
    \/ PaneSelectAgent \/ PaneSelectModel \/ PaneClearChat \/ ClearAgentSession \/ SendToModel \/ PaneLeave
    \/ OpenPanel \/ ("closed" \in Visited /\ ClosePanel) \/ ExpandToPane

Delivers == StreamCarries \/ MessageDone \/ StreamCloses \/ PostAccepted \/ PostRefused

Statuses == PaneRefreshAgentStatus \/ FloatRefreshAgentStatus

Steps ==
    \/ \E k \in Ops, n \in 1 .. MaxOps : Answers(k, n) \/ Continues(k, n)
    \/ Settled /\ (User \/ Delivers \/ StreamLost \/ LinkStalls \/ Silence \/ Statuses
                   \/ TurnEnds \/ WriteHistory \/ ElsewhereStarts \/ InstanceReady)

Next == Steps /\ Cardinality(me'.ops) <= MaxOps

(* Timers fire, requests are answered, what is answered lands, a healthy link
   delivers, a turn ends.  Nobody has to click, and no fault has to happen. *)
Fairness ==
    /\ \A k \in {"tick", "send", "stop"}, n \in 1 .. MaxOps : WF_vars(Answers(k, n)) /\ WF_vars(Continues(k, n))
    /\ WF_vars(\E o \in me.ops : o.pc = "landed" /\ Lands(o))
    /\ WF_vars(Settled /\ (PostAccepted \/ PostRefused))
    /\ WF_vars(Settled /\ (MessageDone \/ StreamCloses))
    /\ WF_vars(Settled /\ Silence) /\ WF_vars(Settled /\ TurnEnds)

Spec == Init /\ [][Next]_vars /\ Fairness

-----------------------------------------------------------------------------
(* The surface and the runtime's session stay well typed: in particular no
   thread counts more messages than were ever written. *)
TypeOK == me \in Surfaces /\ srv \in Sessions /\ faults \in 0 .. MaxFaults

(* A disabled composer always has somebody who will release it: `sending`
   belongs to a send, a stream or a model chat of this generation, and
   `stoppingElsewhere` to a stop of this generation. *)
ControlsNeverStuck ==
    /\ me.sending => \/ \E o \in me.ops : o.op \in {"send", "model"} /\ o.cur
                     \/ me.strm.pc # "none" /\ me.strm.cur
    /\ me.stoppingElsewhere => \E o \in me.ops : o.op = "stop" /\ o.pc = "abort" /\ o.cur

(* While the stream of the pane's turn is open, no read of a selection, of a
   send's stop or of the follow loop takes the bubble it writes to out of the
   thread.  (A late greeting, and a restore that captures its generation only
   after its meta read, do; with two faults, a failed turn check and a failed
   stop, the loop's terminal read does too.) *)
ReadsKeepTheBubble ==
    [][Pane(me) /\ me.bubble /\ me'.strm.pc # "none" /\ ~me'.greet
          /\ (\A o \in me.ops : o.op \notin {"await", "clear"}) => me'.bubble]_vars

(* A thread handed over by the floating panel can be ahead of the runtime's
   document: until its restore is over no read takes a part of it away. *)
SeedOutlivesRestore ==
    [][me.seeded /\ me'.seeded /\ me.shown = "agent" /\ me'.shown = "agent" /\ ~me'.greet
          => me'.msgs >= me.msgs]_vars

(* The ticks that will schedule a successor. *)
Loops == {o \in me.ops : o.op = "tick" /\ o.fcur}

(* The floating panel's loop is a chain: there are never two, and it lives on
   through sends, stops and lost streams for as long as the panel is open. *)
OpenPanelIsWatched ==
    [][Floating /\ Loops # {} /\ me'.surface = "floating" /\ me'.shown = "agent"
          => Cardinality(Loops') = 1]_vars

(* A turn the panel's loop follows, and has yet to ask about, is shown to its
   end, or the panel says that it could not read it, or the user takes over with
   a turn of their own. *)
FollowedToTheEnd ==
    \A n \in 1 .. MaxTurns :
        (Floating /\ me.shown = "agent" /\ me.following /\ srv.turn = n
            /\ \E o \in Loops : o.pc = "armed")
            ~> (me.msgs = 2 * n \/ me.notice = "unavailable" \/ srv.turn > n \/ me.ownTurn
                \/ me.shown # "agent" \/ Pane(me))

(* The composer of an open panel that is watched is always released, whatever
   happens to the stream. *)
ComposerReleased ==
    (Floating /\ me.sending /\ Loops # {}) ~> (~me.sending \/ me.shown # "agent" \/ Pane(me))
=============================================================================
