--------------------------- MODULE ChatShellProofs ---------------------------
(***************************************************************************)
(* The safety properties of the conversation's two surfaces, for every     *)
(* number of turns, of faults and of handlers that wait at once, and every *)
(* route of the visit: of the specification ChatShell runs.                *)
(*                                                                         *)
(* A step is one expression over the surface, built from a dozen operators *)
(* (Bump, Arm, CancelInflight, LoadAgentHistory...).  For each of them     *)
(* there is a lemma on the fields it touches (...Is), one on what it       *)
(* preserves (...Well, ...Rest), and each action's lemma (...Inv) chains   *)
(* those.                                                                  *)
(***************************************************************************)
EXTENDS ChatShell, FiniteSetTheorems, TLAPS

-----------------------------------------------------------------------------
(* A waiting handler, and what one change of it leaves alone *)

LEMMA DocsFacts == 0 \in Docs /\ Docs \subseteq Nat /\ MaxTurns \in Nat /\ MaxOps \in Nat /\ MaxOps >= 1
BY BoundsAssumption DEF Docs

LEMMA OpFacts ==
  ASSUME NEW o \in OpRecords
  PROVE  /\ o.op \in Ops /\ o.n \in 1 .. MaxOps + 2 /\ o.pc \in Pcs /\ o.cur \in BOOLEAN /\ o.fcur \in BOOLEAN
         /\ o.rcur \in BOOLEAN /\ o.ans \in {"none", "ok", "fail"} /\ o.val \in Docs
         /\ o.had \in BOOLEAN /\ o.arg \in BOOLEAN
BY DEF OpRecords

\* A handler that has just sent its first request is of this generation.
LEMMA OpIs ==
  ASSUME NEW k \in Ops, NEW pc \in Pcs, NEW a \in BOOLEAN
  PROVE  /\ Op(k, pc, a) \in OpRecords
         /\ Op(k, pc, a).op = k /\ Op(k, pc, a).pc = pc /\ Op(k, pc, a).cur /\ Op(k, pc, a).fcur /\ Op(k, pc, a).val = 0
BY DocsFacts DEF Op, OpRecords

SameOp(o, p) == p.op = o.op /\ p.n = o.n /\ p.fcur = o.fcur

\* Its next request: the same handler, with no answer yet.
LEMMA AtIs ==
  ASSUME NEW o \in OpRecords, NEW pc \in Pcs
  PROVE  At(o, pc) \in OpRecords /\ SameOp(o, At(o, pc)) /\ At(o, pc).pc = pc /\ At(o, pc).cur = o.cur /\ At(o, pc).val = 0
BY DocsFacts DEF At, OpRecords, SameOp

\* A handler of an older generation.
LEMMA StaleIs ==
  ASSUME NEW o \in OpRecords, NEW p, p = [o EXCEPT !.cur = FALSE, !.rcur = FALSE]
  PROVE  p \in OpRecords /\ SameOp(o, p) /\ p.pc = o.pc /\ ~p.cur /\ p.val = o.val
BY DEF OpRecords, SameOp

LEMMA NumberedIs ==
  ASSUME NEW o \in OpRecords, NEW n \in 1 .. MaxOps + 2
  PROVE  /\ [o EXCEPT !.n = n] \in OpRecords
         /\ [o EXCEPT !.n = n].op = o.op /\ [o EXCEPT !.n = n].pc = o.pc /\ [o EXCEPT !.n = n].cur = o.cur
         /\ [o EXCEPT !.n = n].fcur = o.fcur /\ [o EXCEPT !.n = n].val = o.val
BY DEF OpRecords

\* A tick loses its timer handle to the next one.
LEMMA HandleIs ==
  ASSUME NEW o \in OpRecords, NEW p, p = [o EXCEPT !.arg = @ /\ o.op # "tick"]
  PROVE  p \in OpRecords /\ SameOp(o, p) /\ p.pc = o.pc /\ p.cur = o.cur /\ p.val = o.val
<1>1. PICK b \in BOOLEAN : b = (o.arg /\ o.op # "tick")
  OBVIOUS
<1>2. p = [o EXCEPT !.arg = b]
  BY <1>1
<1> HIDE <1>1
<1> QED BY <1>2 DEF OpRecords, SameOp

\* A tick loses its successor.
LEMMA UnfollowedIs ==
  ASSUME NEW o \in OpRecords, NEW p, p = [o EXCEPT !.fcur = @ /\ o.op # "tick"]
  PROVE  /\ p \in OpRecords /\ p.op = o.op /\ p.n = o.n /\ p.pc = o.pc /\ p.cur = o.cur /\ p.val = o.val
         /\ p.op = "tick" => ~p.fcur
<1>1. PICK b \in BOOLEAN : b = (o.fcur /\ o.op # "tick")
  OBVIOUS
<1>2. p = [o EXCEPT !.fcur = b] /\ (o.op = "tick" => b = FALSE)
  BY <1>1
<1> HIDE <1>1
<1> QED BY <1>2 DEF OpRecords

LEMMA LeftIs ==
  ASSUME NEW o \in OpRecords, NEW p, p = [o EXCEPT !.fcur = FALSE]
  PROVE  p \in OpRecords /\ p.op = o.op /\ p.n = o.n /\ p.pc = o.pc /\ p.cur = o.cur /\ p.val = o.val /\ ~p.fcur
BY DEF OpRecords

-----------------------------------------------------------------------------
(* Handlers that wait: how many, and their numbers *)

Room(S, k) == IsFiniteSet(S) /\ Cardinality(S) \in Nat /\ Cardinality(S) <= k

\* A map, a subset, one more and a swap of what waits.
LEMMA RoomImage ==
  ASSUME NEW S, NEW k \in Nat, Room(S, k), NEW f, DOMAIN f = S
  PROVE  Room({f[x] : x \in S}, k)
<1> DEFINE T == {f[x] : x \in S}
           g == [x \in S |-> f[x]]
<1>1. g \in Surjection(S, T)
  BY DEF Surjection
<1>2. IsFiniteSet(T) /\ Cardinality(T) <= Cardinality(S)
  <2> HIDE DEF T, g
  <2> QED BY <1>1, FS_Surjection DEF Room
<1>3. Cardinality(T) \in Nat
  BY <1>2, FS_CardinalityType
<1> HIDE DEF T
<1>4. QED
  BY <1>2, <1>3 DEF Room, T

LEMMA RoomSubset ==
  ASSUME NEW S, NEW k \in Nat, Room(S, k), NEW T, T \subseteq S
  PROVE  Room(T, k)
<1>1. IsFiniteSet(T) /\ Cardinality(T) <= Cardinality(S)
  BY FS_Subset DEF Room
<1>2. Cardinality(T) \in Nat
  BY <1>1, FS_CardinalityType
<1> QED BY <1>1, <1>2 DEF Room

LEMMA RoomAdd ==
  ASSUME NEW S, NEW k \in Nat, Room(S, k), NEW x
  PROVE  Room(S \cup {x}, k + 1)
BY FS_AddElement DEF Room

LEMMA RoomSwap ==
  ASSUME NEW S, NEW k \in Nat, Room(S, k), NEW x, NEW y, x \in S
  PROVE  Room((S \ {x}) \cup {y}, k)
<1>1. IsFiniteSet(S \ {x}) /\ Cardinality(S \ {x}) = Cardinality(S) - 1
  BY FS_RemoveElement DEF Room
<1>2. Cardinality(S \ {x}) \in Nat
  BY <1>1, FS_CardinalityType
<1>3. /\ IsFiniteSet((S \ {x}) \cup {y})
      /\ Cardinality((S \ {x}) \cup {y}) = Cardinality(S \ {x}) \/ Cardinality((S \ {x}) \cup {y}) = Cardinality(S \ {x}) + 1
  BY <1>1, FS_AddElement
<1> QED BY <1>1, <1>2, <1>3 DEF Room

\* Of naturals one is the smallest.
LEMMA Smallest ==
  ASSUME NEW S, S \subseteq Nat, S # {}
  PROVE  \E x \in S : \A y \in S : x <= y
<1> DEFINE R == OpToRel(<, Nat)
<1>1. \E x \in S : \A y \in S : ~(<<y, x>> \in R)
  <2> HIDE DEF R
  <2> IsWellFoundedOn(R, Nat)
    BY NatLessThanWellFounded DEF R
  <2> QED BY WFMin
<1>2. PICK x \in S : \A y \in S : ~(y < x)
  BY <1>1 DEF OpToRel
<1> QED BY <1>2

\* There is always a number for one more handler.
LEMMA FreeNumberIs ==
  ASSUME NEW os, os \subseteq OpRecords, Room(os, MaxOps + 1), NEW op
  PROVE  FreeNumber(os, op) \in 1 .. MaxOps + 2
<1> USE DocsFacts
<1> DEFINE taken == {os1.n : os1 \in {x \in os : x.op = op}}
           all == 1 .. MaxOps + 2
<1>1. taken \subseteq all /\ Room(taken, MaxOps + 1)
  <2>1. taken \subseteq all
    BY OpFacts
  <2>2. Room({x \in os : x.op = op}, MaxOps + 1)
    BY RoomSubset
  <2> DEFINE f == [x \in {y \in os : y.op = op} |-> x.n]
             S == {y \in os : y.op = op}
  <2>3. DOMAIN f = S /\ taken = {f[x] : x \in S}
    OBVIOUS
  <2>4. Room({f[x] : x \in S}, MaxOps + 1)
    <3> HIDE DEF f
    <3> QED BY <2>2, <2>3, RoomImage
  <2> QED BY <2>1, <2>3, <2>4
<1>2. \E n \in all : n \notin taken
  <2> SUFFICES ASSUME all = taken PROVE FALSE
    BY <1>1
  <2>0. Cardinality(all) = Cardinality(taken)
    BY Zenon
  <2>1. PICK m \in Int : m = MaxOps + 2 /\ ~(1 > m)
    OBVIOUS
  <2>2. Cardinality(1 .. m) = (IF 1 > m THEN 0 ELSE m - 1 + 1)
    BY FS_Interval
  <2>3. Cardinality(all) = MaxOps + 2
    BY <2>1, <2>2
  <2>4. Cardinality(taken) \in Nat /\ Cardinality(taken) <= MaxOps + 1
    BY <1>1 DEF Room
  <2> QED BY <2>0, <2>3, <2>4
<1>3. PICK n \in all \ taken : \A k \in all \ taken : n <= k
  <2>1. all \subseteq Nat
    OBVIOUS
  <2> HIDE DEF all, taken
  <2>2. all \ taken # {} /\ all \ taken \subseteq Nat
    BY <1>2, <2>1
  <2> QED BY <2>2, Smallest
<1>4. \A o \in os : ~(o.op = op /\ o.n = n)
  BY <1>3
<1>5. \A k \in 1 .. n - 1 : \E o \in os : o.op = op /\ o.n = k
  <2> SUFFICES ASSUME NEW k \in 1 .. n - 1 PROVE k \in taken
    OBVIOUS
  <2> QED BY <1>3
<1> HIDE DEF taken
<1>6. \E m \in 1 .. MaxOps + 2 :
        /\ \A o \in os : ~(o.op = op /\ o.n = m)
        /\ \A k \in 1 .. m - 1 : \E o \in os : o.op = op /\ o.n = k
  BY <1>4, <1>5
<1> QED BY <1>6, Zenon DEF FreeNumber

-----------------------------------------------------------------------------
(* The operators on the surface: types, what waits afterwards, and the fields
   the invariants speak of *)

Same(c, d) ==
  /\ d.surface = c.surface /\ d.seeded = c.seeded /\ d.msgs = c.msgs
  /\ d.sending = c.sending /\ d.stoppingElsewhere = c.stoppingElsewhere /\ d.strm = c.strm

LEMMA FieldFacts ==
  ASSUME NEW c \in Surfaces
  PROVE  /\ c.surface \in {"pane", "floating"} /\ c.msgs \in Docs /\ c.lastHistory \in Docs
         /\ c.ops \subseteq OpRecords /\ c.strm \in StreamRecords
         /\ c.sending \in BOOLEAN /\ c.stoppingElsewhere \in BOOLEAN /\ c.seeded \in BOOLEAN /\ c.ownTurn \in BOOLEAN
BY DEF Surfaces

LEMMA StreamFacts ==
  /\ NoStream \in StreamRecords /\ NoStream.pc = "none"
  /\ [pc |-> "post", turn |-> 0, dead |-> FALSE, cur |-> TRUE] \in StreamRecords
  /\ \A s \in StreamRecords : s.pc \in {"none", "post", "open", "drain"} /\ s.turn \in 0 .. MaxTurns /\ s.cur \in BOOLEAN
BY DocsFacts DEF StreamRecords, NoStream

LEMMA DropIs ==
  ASSUME NEW c \in Surfaces, NEW o
  PROVE  Drop(c, o) \in Surfaces /\ Same(c, Drop(c, o)) /\ Drop(c, o).ops = c.ops \ {o}
BY DEF Drop, Surfaces, Same

LEMMA PutIs ==
  ASSUME NEW c \in Surfaces, NEW o, NEW p \in OpRecords
  PROVE  Put(c, o, p) \in Surfaces /\ Same(c, Put(c, o, p)) /\ Put(c, o, p).ops = (c.ops \ {o}) \cup {p}
BY DEF Put, Surfaces, Same

LEMMA AddIs ==
  ASSUME NEW c \in Surfaces, Room(c.ops, MaxOps + 1), NEW o \in OpRecords
  PROVE  /\ Add(c, o) \in Surfaces /\ Same(c, Add(c, o))
         /\ \E n \in 1 .. MaxOps + 2 : Add(c, o).ops = c.ops \cup {[o EXCEPT !.n = n]}
<1>1. PICK n \in 1 .. MaxOps + 2 : n = FreeNumber(c.ops, o.op)
  BY FreeNumberIs, FieldFacts
<1>2. [o EXCEPT !.n = n] \in OpRecords
  BY NumberedIs
<1>3. PICK p \in OpRecords : p = [o EXCEPT !.n = n]
  BY <1>2
<1>4. Add(c, o) = [c EXCEPT !.ops = @ \cup {p}]
  BY <1>1, <1>3, Zenon DEF Add
<1>5. Add(c, o) \in Surfaces /\ Same(c, Add(c, o)) /\ Add(c, o).ops = c.ops \cup {p}
  BY <1>4 DEF Surfaces, Same
<1> QED BY <1>3, <1>5

\* What is set aside besides the ops.
LEMMA BumpIs ==
  ASSUME NEW c \in Surfaces
  PROVE  /\ Bump(c) \in Surfaces
         /\ Bump(c).ops = {[o EXCEPT !.cur = FALSE, !.rcur = FALSE] : o \in {p \in c.ops : Outlives(c, p)}}
         /\ Bump(c).surface = c.surface /\ Bump(c).seeded = c.seeded /\ Bump(c).msgs = c.msgs
         /\ Bump(c).sending = c.sending /\ Bump(c).stoppingElsewhere = c.stoppingElsewhere
         /\ Bump(c).strm.pc = c.strm.pc /\ Bump(c).strm.turn = c.strm.turn
<1> DEFINE S == {[o EXCEPT !.cur = FALSE, !.rcur = FALSE] : o \in {p \in c.ops : Outlives(c, p)}}
           s == [c.strm EXCEPT !.cur = FALSE]
<1>1. S \subseteq OpRecords
  BY FieldFacts, StaleIs
<1>2. s \in StreamRecords /\ s.pc = c.strm.pc /\ s.turn = c.strm.turn
  BY FieldFacts DEF StreamRecords
<1>3. Bump(c) = [c EXCEPT !.ops = S, !.strm = s]
  BY DEF Bump, Surfaces
<1> HIDE DEF S, s
<1>a. [c EXCEPT !.ops = S, !.strm = s] \in Surfaces
  BY <1>1, <1>2 DEF Surfaces
<1>b. Bump(c) \in Surfaces
  BY <1>3, <1>a
<1>4. /\ Bump(c).ops = S /\ Bump(c).strm = s
      /\ Bump(c).surface = c.surface /\ Bump(c).seeded = c.seeded /\ Bump(c).msgs = c.msgs
      /\ Bump(c).sending = c.sending /\ Bump(c).stoppingElsewhere = c.stoppingElsewhere
  BY <1>3 DEF Surfaces
<1> QED BY <1>2, <1>4, <1>b DEF S

LEMMA StopTurnPollingIs ==
  ASSUME NEW c \in Surfaces
  PROVE  /\ StopTurnPolling(c) \in Surfaces /\ Same(c, StopTurnPolling(c))
         /\ StopTurnPolling(c).ops = {o \in c.ops : ~(o.op = "tick" /\ o.pc = "armed" /\ o.arg)}
BY DEF StopTurnPolling, Surfaces, Same

LEMMA StopFollowingIs ==
  ASSUME NEW c \in Surfaces
  PROVE  /\ StopFollowing(c) \in Surfaces /\ Same(c, StopFollowing(c))
         /\ StopFollowing(c).ops = {[o EXCEPT !.fcur = @ /\ o.op # "tick"] :
                                       o \in {p \in c.ops : ~(p.op = "tick" /\ p.pc \in {"armed", "turn"})}}
<1> DEFINE S == {[o EXCEPT !.fcur = @ /\ o.op # "tick"] :
                    o \in {p \in c.ops : ~(p.op = "tick" /\ p.pc \in {"armed", "turn"})}}
<1>1. S \subseteq OpRecords
  BY FieldFacts, UnfollowedIs
<1>2. StopFollowing(c) = [c EXCEPT !.ops = S]
  BY DEF StopFollowing
<1> HIDE DEF S
<1>3. StopFollowing(c) \in Surfaces /\ Same(c, StopFollowing(c)) /\ StopFollowing(c).ops = S
  BY <1>1, <1>2 DEF Surfaces, Same
<1> QED BY <1>3 DEF S

\* An aborted stream releases `sending` when it was what held it.
LEMMA AbortSendIs ==
  ASSUME NEW c \in Surfaces
  PROVE  LET d == AbortSend(c)
         IN  /\ d \in Surfaces /\ d.ops = c.ops /\ d.surface = c.surface /\ d.seeded = c.seeded /\ d.msgs = c.msgs
             /\ d.stoppingElsewhere = c.stoppingElsewhere /\ d.strm.pc = "none"
             /\ d.sending => c.sending /\ ~(c.strm.pc # "none" /\ c.strm.cur)
<1> DEFINE d == AbortSend(c)
<1>1. CASE c.strm.pc = "none"
  BY <1>1 DEF AbortSend
<1>2. CASE c.strm.pc # "none"
  <2>1. PICK b \in BOOLEAN : b = (c.sending /\ ~c.strm.cur)
    OBVIOUS
  <2>2. d = [c EXCEPT !.strm = NoStream, !.bubble = FALSE, !.sending = b]
    BY <1>2, <2>1 DEF AbortSend
  <2>3. b => c.sending /\ ~c.strm.cur
    BY <2>1, Zenon
  <2> HIDE <2>1 DEF d
  <2>4. /\ d \in Surfaces /\ d.ops = c.ops /\ d.surface = c.surface /\ d.seeded = c.seeded /\ d.msgs = c.msgs
        /\ d.stoppingElsewhere = c.stoppingElsewhere /\ d.strm = NoStream /\ d.sending = b
    BY <2>2, StreamFacts DEF Surfaces
  <2> QED BY <2>3, <2>4, StreamFacts DEF d
<1> QED BY <1>1, <1>2

\* What is left of a surface that leaves its conversation.
LEMMA CancelInflightIs ==
  ASSUME NEW c \in Surfaces
  PROVE  LET d == CancelInflight(c)
         IN  /\ d \in Surfaces
             /\ d.ops = {[o EXCEPT !.fcur = FALSE] :
                            o \in {p \in Bump(c).ops : p.pc # "abort" /\ (p.op = "tick" => p.pc = "hist")}}
             /\ d.surface = c.surface /\ d.seeded = c.seeded /\ d.msgs = c.msgs
             /\ ~d.sending /\ ~d.stoppingElsewhere /\ d.strm.pc = "none"
<1> DEFINE b == AbortSend(Bump(c))
           S == {[o EXCEPT !.fcur = FALSE] : o \in {p \in b.ops : p.pc # "abort" /\ (p.op = "tick" => p.pc = "hist")}}
           r == Retired(c)
           d == CancelInflight(c)
<1>1. /\ b \in Surfaces /\ b.ops = Bump(c).ops /\ b.surface = c.surface /\ b.seeded = c.seeded /\ b.msgs = c.msgs
      /\ b.strm.pc = "none"
  <2> DEFINE a == Bump(c)
  <2>1. a \in Surfaces /\ a.surface = c.surface /\ a.seeded = c.seeded /\ a.msgs = c.msgs
    BY BumpIs
  <2> HIDE DEF a
  <2>2. LET e == AbortSend(a)
        IN  /\ e \in Surfaces /\ e.ops = a.ops /\ e.surface = a.surface /\ e.seeded = a.seeded /\ e.msgs = a.msgs
            /\ e.strm.pc = "none"
    BY <2>1, AbortSendIs
  <2> QED BY <2>1, <2>2 DEF a
<1>2. r = [b EXCEPT !.ops = S, !.ownTurn = FALSE, !.following = FALSE, !.lastHistory = 0,
                    !.runningElsewhere = FALSE, !.turnCheckFailed = FALSE, !.stoppingElsewhere = FALSE]
  BY DEF Retired
<1>3. d = [r EXCEPT !.sending = FALSE]
  BY DEF CancelInflight
<1> HIDE DEF b
<1>4. S \subseteq OpRecords
  BY <1>1, FieldFacts, LeftIs
<1> HIDE DEF S, r, d
<1>5. /\ r \in Surfaces /\ r.ops = S /\ r.surface = b.surface /\ r.seeded = b.seeded /\ r.msgs = b.msgs
      /\ ~r.stoppingElsewhere /\ r.strm = b.strm
  <2>1. 0 \in Docs
    BY DocsFacts
  <2>2. r \in Surfaces
    <3>1. [b EXCEPT !.ops = S, !.ownTurn = FALSE, !.following = FALSE, !.lastHistory = 0] \in Surfaces
      <4>1. b \in Surfaces
        BY <1>1
      <4> QED BY <1>4, <2>1, <4>1 DEF Surfaces
    <3>2. PICK a \in Surfaces : a = [b EXCEPT !.ops = S, !.ownTurn = FALSE, !.following = FALSE, !.lastHistory = 0]
      BY <3>1
    <3>3. [a EXCEPT !.runningElsewhere = FALSE, !.turnCheckFailed = FALSE, !.stoppingElsewhere = FALSE] \in Surfaces
      <4>1. a \in Surfaces
        BY <3>2
      <4> HIDE <3>2
      <4> QED BY <4>1 DEF Surfaces
    <3>4. r = [a EXCEPT !.runningElsewhere = FALSE, !.turnCheckFailed = FALSE, !.stoppingElsewhere = FALSE]
      BY <1>1, <1>2, <3>2 DEF Surfaces
    <3> QED BY <3>3, <3>4
  <2>3. /\ r.ops = S /\ r.surface = b.surface /\ r.seeded = b.seeded /\ r.msgs = b.msgs
        /\ r.stoppingElsewhere = FALSE /\ r.strm = b.strm
    BY <1>1, <1>2 DEF Surfaces
  <2> QED BY <2>2, <2>3
<1>6. /\ d \in Surfaces /\ d.ops = r.ops /\ d.surface = r.surface /\ d.seeded = r.seeded /\ d.msgs = r.msgs
      /\ ~d.stoppingElsewhere /\ d.strm = r.strm /\ ~d.sending
  BY <1>3, <1>5 DEF Surfaces
<1> QED BY <1>1, <1>5, <1>6 DEF S, d

LEMMA ArmIs ==
  ASSUME NEW c \in Surfaces, Room(c.ops, MaxOps + 1)
  PROVE  /\ Arm(c) \in Surfaces /\ Same(c, Arm(c))
         /\ \E n \in 1 .. MaxOps + 2 :
               Arm(c).ops = {[o EXCEPT !.arg = @ /\ o.op # "tick"] : o \in c.ops}
                               \cup {[Op("tick", "armed", TRUE) EXCEPT !.n = n]}
<1> DEFINE S == {[o EXCEPT !.arg = @ /\ o.op # "tick"] : o \in c.ops}
           b == [c EXCEPT !.ops = S]
<1>1. S \subseteq OpRecords
  BY FieldFacts, HandleIs
<1>2. Room(S, MaxOps + 1)
  <2> DEFINE f == [o \in c.ops |-> [o EXCEPT !.arg = @ /\ o.op # "tick"]]
             T == c.ops
  <2>1. DOMAIN f = T /\ S = {f[x] : x \in T}
    OBVIOUS
  <2>2. Room({f[x] : x \in T}, MaxOps + 1)
    <3> HIDE DEF f
    <3> QED BY <2>1, RoomImage, DocsFacts
  <2> QED BY <2>1, <2>2
<1>3. Arm(c) = Add(b, Op("tick", "armed", TRUE))
  BY DEF Arm
<1> HIDE DEF S
<1>4. b \in Surfaces /\ Same(c, b) /\ b.ops = S
  BY <1>1 DEF Surfaces, Same
<1> HIDE DEF b
<1>5. Op("tick", "armed", TRUE) \in OpRecords
  <2>1. "tick" \in Ops /\ "armed" \in Pcs
    BY DEF Ops, Pcs
  <2> QED BY <2>1, OpIs
<1>6. /\ Arm(c) \in Surfaces /\ Same(b, Arm(c))
      /\ \E n \in 1 .. MaxOps + 2 : Arm(c).ops = S \cup {[Op("tick", "armed", TRUE) EXCEPT !.n = n]}
  <2> DEFINE t == Op("tick", "armed", TRUE)
  <2> HIDE DEF t
  <2>1. /\ Add(b, t) \in Surfaces /\ Same(b, Add(b, t))
        /\ \E n \in 1 .. MaxOps + 2 : Add(b, t).ops = b.ops \cup {[t EXCEPT !.n = n]}
    BY <1>2, <1>4, <1>5, AddIs DEF t
  <2> QED BY <1>3, <1>4, <2>1 DEF t
<1> QED BY <1>4, <1>6 DEF S, Same

LEMMA StartTurnIs ==
  ASSUME NEW c \in Surfaces
  PROVE  LET d == StartTurn(c)
         IN  /\ d \in Surfaces /\ d.ops = c.ops /\ d.surface = c.surface /\ d.seeded = c.seeded /\ d.msgs = c.msgs
             /\ d.sending = c.sending /\ d.stoppingElsewhere = c.stoppingElsewhere
             /\ d.strm.pc = "post" /\ d.strm.cur
<1> DEFINE s == [pc |-> "post", turn |-> 0, dead |-> FALSE, cur |-> TRUE]
<1>1. s \in StreamRecords /\ s.pc = "post" /\ s.cur
  BY StreamFacts
<1>2. StartTurn(c) = [c EXCEPT !.runningElsewhere = FALSE, !.turnCheckFailed = FALSE, !.ownTurn = TRUE,
                               !.following = FALSE, !.bubble = TRUE, !.ownTurnSettled = FALSE, !.strm = s]
  BY DEF StartTurn
<1> HIDE DEF s
<1>3. StartTurn(c) \in Surfaces
  <2>1. [c EXCEPT !.runningElsewhere = FALSE, !.turnCheckFailed = FALSE, !.ownTurn = TRUE, !.following = FALSE,
                  !.bubble = TRUE, !.ownTurnSettled = FALSE, !.strm = s] \in Surfaces
    <3>1. s \in StreamRecords
      BY <1>1
    <3> QED BY <3>1, ZenonT(30) DEF Surfaces
  <2> QED BY <1>2, <2>1
<1>4. /\ StartTurn(c).ops = c.ops /\ StartTurn(c).surface = c.surface /\ StartTurn(c).seeded = c.seeded
      /\ StartTurn(c).msgs = c.msgs /\ StartTurn(c).sending = c.sending
      /\ StartTurn(c).stoppingElsewhere = c.stoppingElsewhere /\ StartTurn(c).strm = s
  BY <1>2 DEF Surfaces
<1> QED BY <1>1, <1>3, <1>4

LEMMA ReplaceIs ==
  ASSUME NEW c \in Surfaces, NEW v \in Docs
  PROVE  LET d == Replace(c, v)
         IN  /\ d \in Surfaces /\ d.ops = c.ops /\ d.surface = c.surface /\ d.seeded = c.seeded /\ d.msgs = v
             /\ d.sending = c.sending /\ d.stoppingElsewhere = c.stoppingElsewhere /\ d.strm = c.strm
BY DEF Replace, Surfaces

LEMMA GreetIs ==
  ASSUME NEW c \in Surfaces
  PROVE  LET d == Greet(c)
         IN  /\ d \in Surfaces /\ d.ops = c.ops /\ d.surface = c.surface /\ d.seeded = c.seeded /\ d.msgs = 0 /\ d.greet
             /\ d.sending = c.sending /\ d.stoppingElsewhere = c.stoppingElsewhere /\ d.strm = c.strm
BY DocsFacts DEF Greet, Surfaces

LEMMA StreamOverIs ==
  ASSUME NEW c \in Surfaces
  PROVE  LET d == StreamOver(c)
         IN  /\ d \in Surfaces /\ d.ops = c.ops /\ d.surface = c.surface /\ d.seeded = c.seeded /\ d.msgs = c.msgs
             /\ d.stoppingElsewhere = c.stoppingElsewhere /\ d.strm.pc = "none"
             /\ d.sending => c.sending /\ ~c.strm.cur
<1> DEFINE d == StreamOver(c)
<1>1. PICK b \in BOOLEAN : b = (c.sending /\ ~c.strm.cur)
  OBVIOUS
<1>2. d = [c EXCEPT !.strm = NoStream, !.bubble = FALSE, !.sending = b]
  BY <1>1 DEF StreamOver
<1>3. b => c.sending /\ ~c.strm.cur
  BY <1>1, Zenon
<1> HIDE <1>1 DEF d
<1>4. /\ d \in Surfaces /\ d.ops = c.ops /\ d.surface = c.surface /\ d.seeded = c.seeded /\ d.msgs = c.msgs
      /\ d.stoppingElsewhere = c.stoppingElsewhere /\ d.strm = NoStream /\ d.sending = b
  BY <1>2, StreamFacts DEF Surfaces
<1> QED BY <1>3, <1>4, StreamFacts DEF d

LEMMA CheckTurnElsewhereIs ==
  ASSUME NEW c \in Surfaces, NEW o \in OpRecords
  PROVE  /\ CheckTurnElsewhere(c, o) \in Surfaces /\ Same(c, CheckTurnElsewhere(c, o))
         /\ CheckTurnElsewhere(c, o).ops = c.ops
<1>1. PICK a \in BOOLEAN, b \in BOOLEAN : a = (o.ans = "ok" /\ o.val = 1) /\ b = (o.ans = "fail")
  OBVIOUS
<1>2. CheckTurnElsewhere(c, o) = [c EXCEPT !.runningElsewhere = a, !.turnCheckFailed = b]
  BY <1>1 DEF CheckTurnElsewhere
<1>3. a \in BOOLEAN /\ b \in BOOLEAN
  BY <1>1
<1> HIDE <1>1
<1>4. [c EXCEPT !.runningElsewhere = a, !.turnCheckFailed = b] \in Surfaces
  BY <1>3 DEF Surfaces
<1>5. Same(c, CheckTurnElsewhere(c, o)) /\ CheckTurnElsewhere(c, o).ops = c.ops
  BY <1>2 DEF Surfaces, Same
<1> QED BY <1>2, <1>4, <1>5

-----------------------------------------------------------------------------
(* The inductive invariant *)

\* Where a handler of each kind can wait.
Place(o) ==
  /\ o.op \in {"send", "stop"} => o.pc \in {"abort", "hist", "landed"}
  /\ o.op = "stopOwn" => o.pc = "abort"
  /\ o.op = "tick" => o.pc \in {"armed", "turn", "refresh", "hist", "landed"}
  /\ o.op = "check" => o.pc = "check"
  /\ o.op = "model" => o.pc = "chat"
  /\ o.op = "reload" => o.pc \in {"meta", "hist", "landed"}
  /\ o.op \in {"restore", "await"} => o.pc \in {"meta", "hist", "landed", "greet", "greetEnd", "check"}
  /\ o.op = "clear" => o.pc \in {"delete", "meta", "hist", "landed", "greet", "greetEnd", "check"}

SendHeld(o) == o.op \in {"send", "model"} /\ o.cur
StopHeld(o) == o.op = "stop" /\ o.pc = "abort" /\ o.cur
Looping(o) == o.op = "tick" /\ o.fcur

Places(c) == \A o \in c.ops : Place(o)

\* The composer's `sending` has its send, its model chat or its stream.
Held(c) == c.sending => (\E o \in c.ops : SendHeld(o)) \/ (c.strm.pc # "none" /\ c.strm.cur)

\* `stoppingElsewhere` has its stop, a stop of this generation has it, and
\* the two busy states exclude each other.
Stopping(c) ==
  /\ c.stoppingElsewhere => \E o \in c.ops : StopHeld(o)
  /\ \A o \in c.ops : StopHeld(o) => c.stoppingElsewhere
  /\ \A x, y \in c.ops : StopHeld(x) /\ StopHeld(y) => x = y
  /\ ~(c.sending /\ c.stoppingElsewhere)

\* The floating panel has one loop, and never clears the session.
Chain(c) ==
  c.surface = "floating" =>
    /\ \A x, y \in c.ops : Looping(x) /\ Looping(y) => x = y
    /\ \A o \in c.ops : o.op # "clear"

\* A handed-over thread is a pane's, which follows nothing before its restore is
\* over, and a stream only carries turns that are not in it.
Seeds(c) ==
  c.seeded =>
    /\ c.surface = "pane"
    /\ \A o \in c.ops : o.op # "tick" /\ ~(o.op \in {"restore", "await", "clear"} /\ o.pc = "check")
    /\ c.strm.pc = "open" => c.msgs <= 2 * c.strm.turn - 1

\* Nothing on screen or on its way to it is ahead of the t turns there were.
Behind(c, t) ==
  /\ c.msgs <= 2 * t
  /\ \A o \in c.ops : o.val <= 2 * t
  /\ c.strm.pc = "open" => c.strm.turn >= 1 /\ c.strm.turn <= t

Rest(c, t) == Places(c) /\ Stopping(c) /\ Chain(c) /\ Seeds(c) /\ Behind(c, t)

Session(s) == s \in Sessions /\ s.doc <= 2 * s.turn /\ (s.active => s.turn >= 1)

Inv ==
  /\ me \in Surfaces /\ Room(me.ops, MaxOps) /\ Rest(me, srv.turn) /\ Held(me)
  /\ Session(srv) /\ faults \in 0 .. MaxFaults

\* A loop is there to go on.
HasLoop(c) == \E o \in c.ops : Looping(o)

\* The parts of the invariant only speak of some fields.
LEMMA SameRest ==
  ASSUME NEW c \in Surfaces, NEW d \in Surfaces, Same(c, d), d.ops = c.ops, NEW t \in Nat
  PROVE  (Rest(c, t) => Rest(d, t)) /\ (Held(c) => Held(d)) /\ (HasLoop(c) => HasLoop(d))
BY DEF Same, Rest, Places, Stopping, Chain, Seeds, Behind, Held, HasLoop

LEMMA Numbers ==
  ASSUME NEW c \in Surfaces
  PROVE  c.msgs \in Nat /\ c.strm.turn \in Nat /\ \A o \in c.ops : o.val \in Nat
<1>1. c.msgs \in Nat
  BY FieldFacts, DocsFacts
<1>2. c.strm.turn \in Nat
  <2>1. c.strm.turn \in 0 .. MaxTurns
    BY FieldFacts, StreamFacts
  <2> QED BY <2>1
<1>3. \A o \in c.ops : o.val \in Nat
  BY FieldFacts, OpFacts, DocsFacts
<1> QED BY <1>1, <1>2, <1>3

\* The runtime may have gone on.
LEMMA LaterRest ==
  ASSUME NEW c \in Surfaces, NEW t \in Nat, NEW u \in Nat, t <= u, Rest(c, t)
  PROVE  Rest(c, u)
<1>1. Behind(c, u)
  BY Numbers DEF Rest, Behind
<1> QED BY <1>1 DEF Rest

\* What waits is taken away from.
LEMMA FewerRest ==
  ASSUME NEW c \in Surfaces, NEW d \in Surfaces, Same(c, d), d.ops \subseteq c.ops, NEW t \in Nat,
         \A o \in c.ops \ d.ops : ~StopHeld(o), Rest(c, t)
  PROVE  Rest(d, t)
<1>1. Places(d) /\ Chain(d) /\ Seeds(d)
  BY DEF Same, Rest, Places, Chain, Seeds
<1>2. Stopping(d)
  BY DEF Same, Rest, Stopping
<1>3. Behind(d, t)
  BY DEF Same, Rest, Behind
<1> QED BY <1>1, <1>2, <1>3 DEF Rest

LEMMA DropRest ==
  ASSUME NEW c \in Surfaces, NEW o, ~StopHeld(o), NEW t \in Nat, Rest(c, t)
  PROVE  /\ Rest(Drop(c, o), t)
         /\ Held(c) /\ ~SendHeld(o) => Held(Drop(c, o))
         /\ HasLoop(c) /\ ~Looping(o) => HasLoop(Drop(c, o))
<1>1. Rest(Drop(c, o), t)
  BY DropIs, FewerRest
<1>2. Held(c) /\ ~SendHeld(o) => Held(Drop(c, o))
  BY DropIs DEF Held, Same
<1>3. HasLoop(c) /\ ~Looping(o) => HasLoop(Drop(c, o))
  BY DropIs DEF HasLoop
<1> QED BY <1>1, <1>2, <1>3

\* One handler goes on to its next await.
GoesOn(c, o, p, t) ==
  /\ p \in OpRecords /\ p.op = o.op /\ p.fcur = o.fcur /\ Place(p) /\ p.val <= 2 * t
  /\ ~StopHeld(o) /\ ~StopHeld(p) /\ (SendHeld(o) => SendHeld(p))
  /\ c.seeded => ~(p.op \in {"restore", "await", "clear"} /\ p.pc = "check")

LEMMA PutRest ==
  ASSUME NEW c \in Surfaces, NEW o \in c.ops, NEW p, NEW t \in Nat, GoesOn(c, o, p, t), Rest(c, t)
  PROVE  /\ Rest(Put(c, o, p), t)
         /\ Held(c) => Held(Put(c, o, p))
         /\ HasLoop(c) => HasLoop(Put(c, o, p))
<1> DEFINE d == Put(c, o, p)
<1>1. d \in Surfaces /\ Same(c, d) /\ d.ops = (c.ops \ {o}) \cup {p}
  BY PutIs DEF GoesOn
<1> HIDE DEF d
<1>2. Places(d) /\ Seeds(d)
  BY <1>1 DEF Same, Rest, Places, Seeds, GoesOn
<1>3. Chain(d)
  BY <1>1 DEF Same, Rest, Chain, GoesOn, Looping
<1>4. Stopping(d)
  BY <1>1 DEF Same, Rest, Stopping, GoesOn
<1>5. Behind(d, t)
  BY <1>1 DEF Same, Rest, Behind, GoesOn
<1>6. Held(c) => Held(d)
  BY <1>1 DEF Same, Held, GoesOn
<1>7. HasLoop(c) => HasLoop(d)
  BY <1>1 DEF HasLoop, GoesOn, Looping
<1> QED BY <1>2, <1>3, <1>4, <1>5, <1>6, <1>7 DEF Rest, d

\* One handler more.
Joins(c, o) ==
  /\ o \in OpRecords /\ o.op # "tick" /\ Place(o) /\ o.val = 0 /\ ~StopHeld(o)
  /\ c.seeded => ~(o.op \in {"restore", "await", "clear"} /\ o.pc = "check")
  /\ c.surface = "floating" => o.op # "clear"

LEMMA AddRest ==
  ASSUME NEW c \in Surfaces, Room(c.ops, MaxOps + 1), NEW o, Joins(c, o), NEW t \in Nat, Rest(c, t)
  PROVE  /\ Rest(Add(c, o), t)
         /\ Held(c) \/ SendHeld(o) => Held(Add(c, o))
         /\ HasLoop(c) => HasLoop(Add(c, o))
         /\ \A k \in Nat : Room(c.ops, k) => Room(Add(c, o).ops, k + 1)
<1> DEFINE d == Add(c, o)
<1>1. PICK n \in 1 .. MaxOps + 2 : d \in Surfaces /\ Same(c, d) /\ d.ops = c.ops \cup {[o EXCEPT !.n = n]}
  BY AddIs DEF Joins
<1>2. PICK p \in OpRecords : p = [o EXCEPT !.n = n] /\ p.op = o.op /\ p.pc = o.pc /\ p.cur = o.cur /\ p.val = o.val
  BY NumberedIs DEF Joins
<1>a. d.ops = c.ops \cup {p}
  BY <1>1, <1>2
<1>b. d \in Surfaces /\ Same(c, d) /\ p \in OpRecords /\ p.op = o.op /\ p.pc = o.pc /\ p.cur = o.cur /\ p.val = o.val
  BY <1>1, <1>2
<1>c. Joins(c, o) /\ Place(p) /\ ~StopHeld(p) /\ (SendHeld(o) => SendHeld(p))
  BY <1>b DEF Joins, Place, StopHeld, SendHeld
<1>8. \A k \in Nat : Room(c.ops, k) => Room(d.ops, k + 1)
  BY <1>a, RoomAdd
<1> HIDE <1>1, <1>2 DEF d
<1>3. Places(d) /\ Seeds(d)
  BY <1>a, <1>b, <1>c DEF Same, Rest, Places, Seeds, Joins
<1>4. Chain(d)
  BY <1>a, <1>b, <1>c DEF Same, Rest, Chain, Joins, Looping
<1>5. Stopping(d)
  BY <1>a, <1>b, <1>c DEF Same, Rest, Stopping
<1>6. Behind(d, t)
  BY <1>a, <1>b, <1>c DEF Same, Rest, Behind, Joins
<1>7. (Held(c) \/ SendHeld(o) => Held(d)) /\ (HasLoop(c) => HasLoop(d))
  BY <1>a, <1>b, <1>c DEF Same, Held, HasLoop
<1> QED BY <1>3, <1>4, <1>5, <1>6, <1>7, <1>8 DEF Rest, d

\* What outlives a generation is stale.
LEMMA BumpOps ==
  ASSUME NEW c \in Surfaces
  PROVE  \A p \in Bump(c).ops : p \in OpRecords /\ ~p.cur /\ \E o \in c.ops : p.op = o.op /\ p.pc = o.pc /\ p.val = o.val
<1> DEFINE S == {p \in c.ops : Outlives(c, p)}
           f == [o \in S |-> [o EXCEPT !.cur = FALSE, !.rcur = FALSE]]
<1>1. S \subseteq c.ops /\ Bump(c).ops = {f[x] : x \in S}
  BY BumpIs
<1>2. \A o \in S : f[o] \in OpRecords /\ f[o].op = o.op /\ f[o].pc = o.pc /\ f[o].val = o.val /\ ~f[o].cur
  <2> SUFFICES ASSUME NEW o \in S
               PROVE  f[o] \in OpRecords /\ f[o].op = o.op /\ f[o].pc = o.pc /\ f[o].val = o.val /\ ~f[o].cur
    OBVIOUS
  <2>1. f[o] = [o EXCEPT !.cur = FALSE, !.rcur = FALSE] /\ o \in OpRecords
    BY FieldFacts
  <2> HIDE DEF f
  <2> QED BY <2>1, StaleIs DEF SameOp
<1> HIDE DEF f, S
<1> QED BY <1>1, <1>2

LEMMA BumpRoom ==
  ASSUME NEW c \in Surfaces, NEW k \in Nat, Room(c.ops, k)
  PROVE  Room(Bump(c).ops, k)
<1> DEFINE S == {p \in c.ops : Outlives(c, p)}
           f == [o \in S |-> [o EXCEPT !.cur = FALSE, !.rcur = FALSE]]
<1>1. S \subseteq c.ops /\ DOMAIN f = S /\ Bump(c).ops = {f[x] : x \in S}
  BY BumpIs
<1> HIDE DEF f, S
<1>2. Room(S, k)
  BY <1>1, RoomSubset
<1> QED BY <1>1, <1>2, RoomImage

\* A new generation: nobody waits for `sending` any more, and no loop is lost.
LEMMA BumpRest ==
  ASSUME NEW c \in Surfaces, NEW t \in Nat, Places(c), Chain(c), Seeds(c), Behind(c, t), ~c.stoppingElsewhere
  PROVE  /\ Rest(Bump(c), t)
         /\ ~c.sending => Held(Bump(c))
         /\ HasLoop(c) => HasLoop(Bump(c))
         /\ \A k \in Nat : Room(c.ops, k) => Room(Bump(c).ops, k)
<1> DEFINE d == Bump(c)
           S == {p \in c.ops : Outlives(c, p)}
           f == [o \in S |-> [o EXCEPT !.cur = FALSE, !.rcur = FALSE]]
<1>1. DOMAIN f = S /\ d.ops = {f[x] : x \in S}
  BY BumpIs
<1>2. /\ d \in Surfaces /\ d.surface = c.surface /\ d.seeded = c.seeded /\ d.msgs = c.msgs /\ d.sending = c.sending
      /\ d.stoppingElsewhere = c.stoppingElsewhere /\ d.strm.pc = c.strm.pc /\ d.strm.turn = c.strm.turn
  BY BumpIs
<1>3. \A o \in S : /\ f[o].op = o.op /\ f[o].pc = o.pc /\ f[o].val = o.val /\ f[o].fcur = o.fcur /\ ~f[o].cur
  <2> SUFFICES ASSUME NEW o \in S
               PROVE  f[o].op = o.op /\ f[o].pc = o.pc /\ f[o].val = o.val /\ f[o].fcur = o.fcur /\ ~f[o].cur
    OBVIOUS
  <2>1. f[o] = [o EXCEPT !.cur = FALSE, !.rcur = FALSE] /\ o \in OpRecords
    BY FieldFacts
  <2> HIDE DEF f
  <2> QED BY <2>1, StaleIs DEF SameOp
<1>4. S \subseteq c.ops /\ \A o \in c.ops : o.op = "tick" => o \in S
  BY DEF Outlives
<1>5. ASSUME NEW k \in Nat, Room(c.ops, k) PROVE Room(d.ops, k)
  BY <1>5, BumpRoom
<1> HIDE DEF d, f, S
<1>6. Places(d)
  BY <1>1, <1>3, <1>4 DEF Places, Place
<1>7. Stopping(d)
  BY <1>1, <1>2, <1>3, <1>4 DEF Stopping, StopHeld
<1>8. Chain(d)
  <2>1. \A p \in d.ops : Looping(p) => \E o \in S : p = f[o] /\ Looping(o)
    BY <1>1, <1>3 DEF Looping
  <2>2. \A p \in d.ops : p.op = "clear" => \E o \in S : o.op = "clear"
    BY <1>1, <1>3
  <2> QED BY <1>2, <1>4, <2>1, <2>2 DEF Chain
<1>9. Seeds(d)
  BY <1>1, <1>2, <1>3, <1>4 DEF Seeds
<1>10. Behind(d, t)
  BY <1>1, <1>2, <1>3, <1>4 DEF Behind
<1>11. (~c.sending => Held(d)) /\ (HasLoop(c) => HasLoop(d))
  BY <1>1, <1>2, <1>3, <1>4 DEF Held, HasLoop, Looping
<1> QED BY <1>5, <1>6, <1>7, <1>8, <1>9, <1>10, <1>11 DEF Rest, d

LEMMA StopTurnPollingRest ==
  ASSUME NEW c \in Surfaces, NEW t \in Nat, Rest(c, t)
  PROVE  /\ Rest(StopTurnPolling(c), t)
         /\ Held(c) => Held(StopTurnPolling(c))
         /\ \A k \in Nat : Room(c.ops, k) => Room(StopTurnPolling(c).ops, k)
<1> DEFINE d == StopTurnPolling(c)
<1>1. /\ d \in Surfaces /\ Same(c, d) /\ d.ops \subseteq c.ops
      /\ \A o \in c.ops : o \notin d.ops => o.op = "tick"
  BY StopTurnPollingIs
<1> HIDE DEF d
<1>2. Rest(d, t)
  BY <1>1, FewerRest DEF StopHeld
<1>3. Held(c) => Held(d)
  BY <1>1 DEF Held, Same, SendHeld
<1>4. \A k \in Nat : Room(c.ops, k) => Room(d.ops, k)
  BY <1>1, RoomSubset
<1> QED BY <1>2, <1>3, <1>4 DEF d

\* Nobody loops after StopFollowing.
LEMMA StopFollowingRest ==
  ASSUME NEW c \in Surfaces, NEW t \in Nat, Rest(c, t)
  PROVE  /\ Rest(StopFollowing(c), t) /\ ~HasLoop(StopFollowing(c))
         /\ Held(c) => Held(StopFollowing(c))
         /\ \A k \in Nat : Room(c.ops, k) => Room(StopFollowing(c).ops, k)
<1> DEFINE d == StopFollowing(c)
           S == {p \in c.ops : ~(p.op = "tick" /\ p.pc \in {"armed", "turn"})}
           f == [o \in S |-> [o EXCEPT !.fcur = @ /\ o.op # "tick"]]
<1>1. /\ d \in Surfaces /\ Same(c, d) /\ DOMAIN f = S /\ d.ops = {f[x] : x \in S}
  BY StopFollowingIs
<1>2. \A o \in S : /\ f[o] \in OpRecords /\ f[o].op = o.op /\ f[o].pc = o.pc /\ f[o].cur = o.cur /\ f[o].val = o.val
                   /\ ~Looping(f[o])
  <2> SUFFICES ASSUME NEW o \in S
               PROVE  /\ f[o] \in OpRecords /\ f[o].op = o.op /\ f[o].pc = o.pc /\ f[o].cur = o.cur /\ f[o].val = o.val
                      /\ ~Looping(f[o])
    OBVIOUS
  <2>1. f[o] = [o EXCEPT !.fcur = @ /\ o.op # "tick"] /\ o \in OpRecords
    BY FieldFacts
  <2> HIDE DEF f
  <2> QED BY <2>1, UnfollowedIs DEF Looping
<1>3. S \subseteq c.ops /\ \A o \in c.ops : o \notin S => o.op = "tick"
  OBVIOUS
<1>4. ASSUME NEW k \in Nat, Room(c.ops, k) PROVE Room(d.ops, k)
  <2> HIDE DEF d, f, S
  <2>1. Room(S, k)
    BY <1>3, <1>4, RoomSubset
  <2> QED BY <1>1, <2>1, RoomImage
<1> HIDE DEF d, f, S
<1>5. Places(d) /\ ~HasLoop(d)
  BY <1>1, <1>2, <1>3 DEF Rest, Places, Place, HasLoop
<1>6. Stopping(d)
  <2>1. \A p \in d.ops : StopHeld(p) => \E o \in S : p = f[o] /\ StopHeld(o)
    BY <1>1, <1>2 DEF StopHeld
  <2>2. \A o \in c.ops : StopHeld(o) => f[o] \in d.ops /\ StopHeld(f[o])
    BY <1>1, <1>2, <1>3 DEF StopHeld
  <2> QED BY <1>1, <1>3, <2>1, <2>2 DEF Rest, Stopping, Same
<1>7. Chain(d)
  BY <1>1, <1>2, <1>3 DEF Rest, Chain, Same
<1>8. Seeds(d)
  BY <1>1, <1>2, <1>3 DEF Rest, Seeds, Same
<1>9. Behind(d, t)
  BY <1>1, <1>2, <1>3 DEF Rest, Behind, Same
<1>10. Held(c) => Held(d)
  BY <1>1, <1>2, <1>3 DEF Held, SendHeld, Same
<1> QED BY <1>4, <1>5, <1>6, <1>7, <1>8, <1>9, <1>10 DEF Rest, d

\* What holds of a surface between two steps, with at most k handlers waiting
\* and t turns run.
Well(c, k, t) == c \in Surfaces /\ Room(c.ops, k) /\ Rest(c, t) /\ Held(c)

\* The thread is as it was, and so is the loop.
Keeps(c, d) ==
  /\ d.surface = c.surface /\ d.seeded = c.seeded /\ d.msgs = c.msgs
  /\ HasLoop(c) => HasLoop(d)

\* A surface that leaves its conversation owes nobody anything.
LEMMA CancelInflightWell ==
  ASSUME NEW c \in Surfaces, NEW k \in Nat, NEW t \in Nat, Room(c.ops, k), Rest(c, t)
  PROVE  Well(CancelInflight(c), k, t)
<1> DEFINE d == CancelInflight(c)
           B == Bump(c).ops
           S == {p \in B : p.pc # "abort" /\ (p.op = "tick" => p.pc = "hist")}
           f == [o \in S |-> [o EXCEPT !.fcur = FALSE]]
<1>1. /\ d \in Surfaces /\ DOMAIN f = S /\ d.ops = {f[x] : x \in S}
      /\ d.surface = c.surface /\ d.seeded = c.seeded /\ d.msgs = c.msgs
      /\ ~d.sending /\ ~d.stoppingElsewhere /\ d.strm.pc = "none"
  BY CancelInflightIs
<1>2. \A p \in B : p \in OpRecords /\ ~p.cur /\ \E o \in c.ops : p.op = o.op /\ p.pc = o.pc /\ p.val = o.val
  BY BumpOps
<1>3. Room(B, k)
  BY BumpRoom
<1> HIDE DEF B
<1>4. \A o \in S : f[o].op = o.op /\ f[o].pc = o.pc /\ f[o].val = o.val /\ ~f[o].fcur /\ f[o].pc # "abort"
  <2> SUFFICES ASSUME NEW o \in S
               PROVE  f[o].op = o.op /\ f[o].pc = o.pc /\ f[o].val = o.val /\ ~f[o].fcur /\ f[o].pc # "abort"
    OBVIOUS
  <2>1. f[o] = [o EXCEPT !.fcur = FALSE] /\ o \in OpRecords /\ o.pc # "abort"
    BY <1>2
  <2> HIDE DEF f
  <2> QED BY <2>1, LeftIs
<1>5. S \subseteq B
  OBVIOUS
<1> HIDE DEF S, f, d
<1>6. Room(d.ops, k)
  <2>1. Room(S, k)
    BY <1>3, <1>5, RoomSubset
  <2> QED BY <1>1, <2>1, RoomImage
<1>7. \A p \in d.ops : /\ ~StopHeld(p) /\ ~Looping(p)
                       /\ \E o \in c.ops : p.op = o.op /\ p.pc = o.pc /\ p.val = o.val
  BY <1>1, <1>2, <1>4, <1>5 DEF StopHeld, Looping
<1>8. Places(d)
  BY <1>7 DEF Rest, Places, Place
<1>9. Stopping(d) /\ Held(d)
  BY <1>1, <1>7 DEF Stopping, Held
<1>10. Chain(d)
  BY <1>1, <1>7 DEF Rest, Chain
<1>11. Seeds(d)
  BY <1>1, <1>7 DEF Rest, Seeds
<1>12. Behind(d, t)
  BY <1>1, <1>7 DEF Rest, Behind
<1> QED BY <1>1, <1>6, <1>8, <1>9, <1>10, <1>11, <1>12 DEF Rest, Well, d

\* The timer is armed: the panel has no loop besides.
LEMMA ArmWell ==
  ASSUME NEW c, NEW k \in Nat, NEW t \in Nat, Well(c, k, t), k <= MaxOps + 1,
         ~c.seeded, c.surface = "floating" => ~HasLoop(c)
  PROVE  Well(Arm(c), k + 1, t) /\ Keeps(c, Arm(c)) /\ HasLoop(Arm(c))
<1> DEFINE d == Arm(c)
           f == [o \in c.ops |-> [o EXCEPT !.arg = @ /\ o.op # "tick"]]
           S == {f[x] : x \in c.ops}
<1>0. c \in Surfaces /\ Room(c.ops, k) /\ Room(c.ops, MaxOps + 1) /\ Rest(c, t) /\ Held(c)
  BY DocsFacts DEF Well, Room
<1>1. PICK n \in 1 .. MaxOps + 2 : d.ops = S \cup {[Op("tick", "armed", TRUE) EXCEPT !.n = n]}
  <2>1. S = {[o EXCEPT !.arg = @ /\ o.op # "tick"] : o \in c.ops}
    OBVIOUS
  <2>2. \E n \in 1 .. MaxOps + 2 :
          d.ops = {[o EXCEPT !.arg = @ /\ o.op # "tick"] : o \in c.ops} \cup {[Op("tick", "armed", TRUE) EXCEPT !.n = n]}
    BY <1>0, ArmIs
  <2> HIDE DEF S, d
  <2> QED BY <2>1, <2>2, Zenon
<1>2. d \in Surfaces /\ Same(c, d) /\ DOMAIN f = c.ops
  BY <1>0, ArmIs
<1>3. PICK p \in OpRecords : /\ p = [Op("tick", "armed", TRUE) EXCEPT !.n = n]
                             /\ p.op = "tick" /\ p.pc = "armed" /\ p.fcur /\ p.val = 0
  <2>1. "tick" \in Ops /\ "armed" \in Pcs
    BY DEF Ops, Pcs
  <2> DEFINE a == Op("tick", "armed", TRUE)
  <2>2. a \in OpRecords /\ a.op = "tick" /\ a.pc = "armed" /\ a.fcur = TRUE /\ a.val = 0
    BY <2>1, OpIs
  <2> HIDE DEF a
  <2>3. /\ [a EXCEPT !.n = n] \in OpRecords /\ [a EXCEPT !.n = n].op = a.op /\ [a EXCEPT !.n = n].pc = a.pc
        /\ [a EXCEPT !.n = n].fcur = a.fcur /\ [a EXCEPT !.n = n].val = a.val
    BY <2>2, NumberedIs
  <2> QED BY <2>2, <2>3 DEF a
<1>4. \A o \in c.ops : f[o].op = o.op /\ f[o].pc = o.pc /\ f[o].cur = o.cur /\ f[o].fcur = o.fcur /\ f[o].val = o.val
  <2> SUFFICES ASSUME NEW o \in c.ops
               PROVE  /\ f[o].op = o.op /\ f[o].pc = o.pc /\ f[o].cur = o.cur /\ f[o].fcur = o.fcur /\ f[o].val = o.val
    OBVIOUS
  <2>1. f[o] = [o EXCEPT !.arg = @ /\ o.op # "tick"] /\ o \in OpRecords
    BY <1>0, FieldFacts
  <2> HIDE DEF f
  <2> QED BY <2>1, HandleIs DEF SameOp
<1>5. d.ops = S \cup {p}
  BY <1>1, <1>3
<1> HIDE DEF f, d
<1>6. Room(d.ops, k + 1)
  <2>1. Room(S, k)
    BY <1>0, <1>2, RoomImage
  <2> HIDE DEF S
  <2> QED BY <1>5, <2>1, RoomAdd
<1> HIDE <1>1, <1>3
<1>7. p.op = "tick" /\ p.pc = "armed" /\ p.fcur /\ p.val = 0
  BY <1>3
<1>8. Places(d)
  BY <1>0, <1>4, <1>5, <1>7 DEF Rest, Places, Place
<1>9. Stopping(d)
  <2>1. \A q \in d.ops : StopHeld(q) => \E o \in c.ops : q = f[o] /\ StopHeld(o)
    BY <1>4, <1>5, <1>7 DEF StopHeld
  <2>2. \A o \in c.ops : StopHeld(o) => f[o] \in d.ops /\ StopHeld(f[o])
    BY <1>4, <1>5 DEF StopHeld
  <2> QED BY <1>0, <1>2, <2>1, <2>2 DEF Rest, Stopping, Same
<1>10. Chain(d)
  <2>1. c.surface = "floating" => \A q \in d.ops : Looping(q) => q = p
    BY <1>4, <1>5 DEF Looping, HasLoop
  <2>2. \A q \in d.ops : q.op = "clear" => \E o \in c.ops : o.op = "clear"
    BY <1>4, <1>5, <1>7
  <2> QED BY <1>0, <1>2, <2>1, <2>2 DEF Rest, Chain, Same
<1>11. Seeds(d)
  BY <1>2 DEF Seeds, Same
<1>12. Behind(d, t)
  BY <1>0, <1>2, <1>4, <1>5, <1>7 DEF Rest, Behind, Same
<1>13. Held(d)
  BY <1>0, <1>2, <1>4, <1>5 DEF Held, SendHeld, Same
<1>14. HasLoop(d) /\ Keeps(c, d)
  BY <1>2, <1>5, <1>7 DEF HasLoop, Looping, Keeps, Same
<1> QED BY <1>2, <1>6, <1>8, <1>9, <1>10, <1>11, <1>12, <1>13, <1>14 DEF Rest, Well, d

\* The loop's tick is over, and has a successor when it is the chain's.
LEMMA RearmWell ==
  ASSUME NEW c, NEW k \in Nat, NEW t \in Nat, Well(c, k, t), k <= MaxOps + 1, NEW o \in c.ops, o.op = "tick"
  PROVE  Well(Rearm(c, o), k + 1, t) /\ Keeps(c, Rearm(c, o))
<1> DEFINE d == Drop(c, o)
<1>0. c \in Surfaces /\ Room(c.ops, k) /\ Rest(c, t) /\ Held(c) /\ ~c.seeded
  BY DEF Well, Rest, Seeds
<1>1. ~StopHeld(o) /\ ~SendHeld(o)
  BY DEF StopHeld, SendHeld
<1>2. d \in Surfaces /\ Same(c, d) /\ d.ops = c.ops \ {o} /\ Rest(d, t) /\ Held(d) /\ (HasLoop(c) /\ ~Looping(o) => HasLoop(d))
  BY <1>0, <1>1, DropIs, DropRest
<1>3. Room(d.ops, k)
  BY <1>0, <1>2, RoomSubset
<1>4. Well(d, k, t) /\ ~d.seeded
  BY <1>0, <1>2, <1>3 DEF Well, Same
<1> HIDE DEF d
<1>5. CASE o.fcur
  <2>1. d.surface = "floating" => ~HasLoop(d)
    BY <1>0, <1>2, <1>5 DEF Rest, Chain, HasLoop, Looping, Same
  <2>2. Well(Arm(d), k + 1, t) /\ Keeps(d, Arm(d)) /\ HasLoop(Arm(d))
    BY <1>4, <2>1, ArmWell
  <2>3. Rearm(c, o) = Arm(d)
    BY <1>5 DEF Rearm, d
  <2> QED BY <1>2, <2>2, <2>3 DEF Keeps, Same
<1>6. CASE ~o.fcur
  <2>1. Rearm(c, o) = d
    BY <1>6 DEF Rearm, d
  <2>2. Keeps(c, d)
    BY <1>2, <1>6 DEF Keeps, Same, Looping
  <2>3. Room(d.ops, k + 1)
    BY <1>3 DEF Room
  <2> QED BY <1>4, <2>1, <2>2, <2>3 DEF Well
<1> QED BY <1>5, <1>6

\* The loop is (re)started, and is the only one of the panel.
LEMMA StartFollowingWell ==
  ASSUME NEW c, NEW k \in Nat, NEW t \in Nat, Well(c, k, t), k <= MaxOps + 1, ~c.seeded
  PROVE  /\ Well(StartFollowing(c), k + 1, t) /\ HasLoop(StartFollowing(c))
         /\ StartFollowing(c).surface = c.surface /\ ~StartFollowing(c).seeded /\ StartFollowing(c).msgs = c.msgs
         /\ StartFollowing(c).sending = c.sending /\ StartFollowing(c).stoppingElsewhere = c.stoppingElsewhere
<1> DEFINE b == IF Pane(c) THEN StopTurnPolling(c) ELSE StopFollowing(c)
<1>0. c \in Surfaces /\ Room(c.ops, k) /\ Rest(c, t) /\ Held(c)
  BY DEF Well
<1>1. Well(b, k, t) /\ Same(c, b) /\ (c.surface = "floating" => ~HasLoop(b))
  <2>1. CASE Pane(c)
    BY <1>0, <2>1, StopTurnPollingIs, StopTurnPollingRest DEF Well, Pane
  <2>2. CASE ~Pane(c)
    BY <1>0, <2>2, StopFollowingIs, StopFollowingRest DEF Well
  <2> QED BY <2>1, <2>2
<1>2. StartFollowing(c) = Arm(b)
  BY DEF StartFollowing
<1> HIDE DEF b
<1>3. ~b.seeded /\ (b.surface = "floating" => ~HasLoop(b)) /\ b.surface = c.surface /\ b.msgs = c.msgs
      /\ b.sending = c.sending /\ b.stoppingElsewhere = c.stoppingElsewhere /\ b \in Surfaces /\ Room(b.ops, MaxOps + 1)
  BY <1>1, DocsFacts DEF Same, Well, Room
<1>4. Well(Arm(b), k + 1, t) /\ Keeps(b, Arm(b)) /\ HasLoop(Arm(b))
  BY <1>1, <1>3, ArmWell
<1>5. Same(b, Arm(b))
  BY <1>3, ArmIs
<1> QED BY <1>2, <1>3, <1>4, <1>5 DEF Keeps, Same

\* A stream that ends takes the `sending` it held with it.
LEMMA AbortSendWell ==
  ASSUME NEW c, NEW k \in Nat, NEW t \in Nat, Well(c, k, t)
  PROVE  Well(AbortSend(c), k, t) /\ Keeps(c, AbortSend(c)) /\ AbortSend(c).ops = c.ops
<1> DEFINE d == AbortSend(c)
<1>0. c \in Surfaces /\ Room(c.ops, k) /\ Rest(c, t) /\ Held(c)
  BY DEF Well
<1>1. /\ d \in Surfaces /\ d.ops = c.ops /\ d.surface = c.surface /\ d.seeded = c.seeded /\ d.msgs = c.msgs
      /\ d.stoppingElsewhere = c.stoppingElsewhere /\ d.strm.pc = "none"
      /\ d.sending => c.sending /\ ~(c.strm.pc # "none" /\ c.strm.cur)
  BY <1>0, AbortSendIs
<1> HIDE DEF d
<1>2. Rest(d, t)
  BY <1>0, <1>1 DEF Rest, Places, Stopping, Chain, Seeds, Behind
<1>3. Held(d) /\ Keeps(c, d)
  BY <1>0, <1>1 DEF Held, Keeps, HasLoop
<1> QED BY <1>0, <1>1, <1>2, <1>3 DEF Well, d

LEMMA StreamOverWell ==
  ASSUME NEW c, NEW k \in Nat, NEW t \in Nat, Well(c, k, t)
  PROVE  Well(StreamOver(c), k, t) /\ Keeps(c, StreamOver(c)) /\ StreamOver(c).ops = c.ops
<1> DEFINE d == StreamOver(c)
<1>0. c \in Surfaces /\ Room(c.ops, k) /\ Rest(c, t) /\ Held(c)
  BY DEF Well
<1>1. /\ d \in Surfaces /\ d.ops = c.ops /\ d.surface = c.surface /\ d.seeded = c.seeded /\ d.msgs = c.msgs
      /\ d.stoppingElsewhere = c.stoppingElsewhere /\ d.strm.pc = "none"
      /\ d.sending => c.sending /\ ~c.strm.cur
  BY <1>0, StreamOverIs
<1> HIDE DEF d
<1>2. Rest(d, t)
  BY <1>0, <1>1 DEF Rest, Places, Stopping, Chain, Seeds, Behind
<1>3. Held(d) /\ Keeps(c, d)
  BY <1>0, <1>1 DEF Held, Keeps, HasLoop
<1> QED BY <1>0, <1>1, <1>2, <1>3 DEF Well, d

\* The stream of a turn of its own is what `sending` is for from here on.
LEMMA StartTurnWell ==
  ASSUME NEW c \in Surfaces, NEW k \in Nat, NEW t \in Nat, Room(c.ops, k), Rest(c, t)
  PROVE  Well(StartTurn(c), k, t) /\ Keeps(c, StartTurn(c))
<1> DEFINE d == StartTurn(c)
<1>1. /\ d \in Surfaces /\ d.ops = c.ops /\ d.surface = c.surface /\ d.seeded = c.seeded /\ d.msgs = c.msgs
      /\ d.sending = c.sending /\ d.stoppingElsewhere = c.stoppingElsewhere
      /\ d.strm.pc = "post" /\ d.strm.cur
  BY StartTurnIs
<1> HIDE DEF d
<1>2. Rest(d, t)
  BY <1>1 DEF Rest, Places, Stopping, Chain, Seeds, Behind
<1>3. Held(d) /\ Keeps(c, d)
  BY <1>1 DEF Held, Keeps, HasLoop
<1> QED BY <1>1, <1>2, <1>3 DEF Well, d

\* A thread that was not handed over is replaced.
LEMMA ReplaceWell ==
  ASSUME NEW c, NEW k \in Nat, NEW t \in Nat, Well(c, k, t), NEW v \in Docs, v <= 2 * t, ~c.seeded
  PROVE  /\ Well(Replace(c, v), k, t) /\ Replace(c, v).ops = c.ops
         /\ Replace(c, v).surface = c.surface /\ ~Replace(c, v).seeded
<1> DEFINE d == Replace(c, v)
<1>0. c \in Surfaces /\ Room(c.ops, k) /\ Rest(c, t) /\ Held(c)
  BY DEF Well
<1>1. /\ d \in Surfaces /\ d.ops = c.ops /\ d.surface = c.surface /\ d.seeded = c.seeded /\ d.msgs = v
      /\ d.sending = c.sending /\ d.stoppingElsewhere = c.stoppingElsewhere /\ d.strm = c.strm
  BY <1>0, ReplaceIs
<1> HIDE DEF d
<1>2. Rest(d, t)
  BY <1>0, <1>1 DEF Rest, Places, Stopping, Chain, Seeds, Behind
<1>3. Held(d)
  BY <1>0, <1>1 DEF Held
<1> QED BY <1>0, <1>1, <1>2, <1>3 DEF Well, d

LEMMA GreetWell ==
  ASSUME NEW c, NEW k \in Nat, NEW t \in Nat, Well(c, k, t)
  PROVE  /\ Well(Greet(c), k, t) /\ Greet(c).ops = c.ops /\ Greet(c).greet
         /\ Greet(c).surface = c.surface /\ Greet(c).seeded = c.seeded
<1> DEFINE d == Greet(c)
<1>0. c \in Surfaces /\ Room(c.ops, k) /\ Rest(c, t) /\ Held(c)
  BY DEF Well
<1>1. /\ d \in Surfaces /\ d.ops = c.ops /\ d.surface = c.surface /\ d.seeded = c.seeded /\ d.msgs = 0 /\ d.greet
      /\ d.sending = c.sending /\ d.stoppingElsewhere = c.stoppingElsewhere /\ d.strm = c.strm
  BY <1>0, GreetIs
<1> HIDE DEF d
<1>2. Rest(d, t)
  <2>1. Seeds(d)
    <3>1. c.strm.turn \in Nat /\ (c.strm.pc = "open" => c.strm.turn >= 1)
      BY <1>0, Numbers DEF Rest, Behind
    <3> QED BY <1>0, <1>1, <3>1 DEF Rest, Seeds
  <2> QED BY <1>0, <1>1, <2>1 DEF Rest, Places, Stopping, Chain, Behind
<1>3. Held(d)
  BY <1>0, <1>1 DEF Held
<1> QED BY <1>0, <1>1, <1>2, <1>3 DEF Well, d

-----------------------------------------------------------------------------
(* The history read *)

\* The handler o waits for a read: its own, or the one it joins.
LEMMA LoadAgentHistoryIs ==
  ASSUME NEW c \in Surfaces, NEW t \in Nat, Rest(c, t), NEW o \in OpRecords
  PROVE  \E p \in OpRecords : /\ LoadAgentHistory(c, o) = Put(c, o, p)
                              /\ p.op = o.op /\ p.fcur = o.fcur /\ p.cur = o.cur /\ p.pc = "hist" /\ p.val <= 2 * t
<1> DEFINE out == {p \in c.ops \ {o} : p.pc = "hist"}
           h == At(o, "hist")
<1>1. h \in OpRecords /\ h.op = o.op /\ h.fcur = o.fcur /\ h.cur = o.cur /\ h.pc = "hist" /\ h.val = 0
  <2>1. "hist" \in Pcs
    BY DEF Pcs
  <2> QED BY <2>1, AtIs DEF SameOp
<1>2. CASE Pane(c) /\ out # {}
  <2> DEFINE q == CHOOSE x \in out : TRUE
             p == [h EXCEPT !.rcur = q.rcur, !.ans = q.ans, !.val = q.val]
  <2>1. q \in out
    BY <1>2
  <2>2. LoadAgentHistory(c, o) = Put(c, o, p)
    BY <1>2, Zenon DEF LoadAgentHistory
  <2>3. q \in OpRecords /\ q.val <= 2 * t
    BY <2>1, FieldFacts DEF Rest, Behind
  <2>5. p = [h EXCEPT !.rcur = q.rcur, !.ans = q.ans, !.val = q.val]
    OBVIOUS
  <2> HIDE DEF q, h, p
  <2>4. p \in OpRecords /\ p.op = h.op /\ p.fcur = h.fcur /\ p.pc = h.pc /\ p.cur = h.cur /\ p.val = q.val
    <3>1. h \in OpRecords /\ q \in OpRecords
      BY <1>1, <2>3
    <3>2. p \in OpRecords /\ SameOp(h, p) /\ p.pc = h.pc /\ p.cur = h.cur /\ p.val = q.val
      BY <2>5, <3>1 DEF OpRecords, SameOp
    <3> QED BY <3>2 DEF SameOp
  <2> QED BY <1>1, <2>2, <2>3, <2>4
<1>3. CASE ~(Pane(c) /\ out # {})
  <2>1. LoadAgentHistory(c, o) = Put(c, o, h)
    BY <1>3, Zenon DEF LoadAgentHistory
  <2>2. h.val <= 2 * t
    BY <1>1
  <2> HIDE DEF h
  <2> QED BY <1>1, <2>1, <2>2
<1> QED BY <1>2, <1>3

Reads == {"restore", "await", "clear", "reload", "tick", "send", "stop"}

LEMMA LoadAgentHistoryWell ==
  ASSUME NEW c, NEW k \in Nat, NEW t \in Nat, Well(c, k, t), NEW o \in c.ops, o.op \in Reads, ~StopHeld(o)
  PROVE  Well(LoadAgentHistory(c, o), k, t) /\ Keeps(c, LoadAgentHistory(c, o))
<1>0. c \in Surfaces /\ Room(c.ops, k) /\ Rest(c, t) /\ Held(c) /\ o \in OpRecords
  BY FieldFacts DEF Well
<1>1. PICK p \in OpRecords : /\ LoadAgentHistory(c, o) = Put(c, o, p)
                             /\ p.op = o.op /\ p.fcur = o.fcur /\ p.cur = o.cur /\ p.pc = "hist" /\ p.val <= 2 * t
  BY <1>0, LoadAgentHistoryIs
<1>2. GoesOn(c, o, p, t)
  BY <1>0, <1>1 DEF GoesOn, Place, StopHeld, SendHeld, Reads
<1>3. Rest(Put(c, o, p), t) /\ Held(Put(c, o, p)) /\ (HasLoop(c) => HasLoop(Put(c, o, p)))
  BY <1>0, <1>2, PutRest
<1>4. Put(c, o, p) \in Surfaces /\ Same(c, Put(c, o, p)) /\ Put(c, o, p).ops = (c.ops \ {o}) \cup {p}
  BY <1>0, PutIs
<1>5. Room(Put(c, o, p).ops, k)
  <2>1. Room((c.ops \ {o}) \cup {p}, k)
    BY <1>0, RoomSwap
  <2> QED BY <1>4, <2>1
<1> QED BY <1>1, <1>3, <1>4, <1>5 DEF Well, Keeps, Same

\* A send or a stop reads the history, whatever became of its record.
LEMMA StoppedReads ==
  ASSUME NEW c, NEW k \in Nat, NEW t \in Nat, Well(c, k, t), NEW o \in OpRecords, o.op \in {"send", "stop"}, ~StopHeld(o)
  PROVE  Well(LoadAgentHistory(c, o), k + 1, t) /\ Keeps(c, LoadAgentHistory(c, o))
<1>0. c \in Surfaces /\ Room(c.ops, k) /\ Rest(c, t) /\ Held(c)
  BY DEF Well
<1>1. PICK p \in OpRecords : /\ LoadAgentHistory(c, o) = Put(c, o, p)
                             /\ p.op = o.op /\ p.fcur = o.fcur /\ p.cur = o.cur /\ p.pc = "hist" /\ p.val <= 2 * t
  BY <1>0, LoadAgentHistoryIs
<1> DEFINE d == Put(c, o, p)
<1>2. d \in Surfaces /\ Same(c, d) /\ d.ops = (c.ops \ {o}) \cup {p}
  BY <1>0, PutIs
<1>3. Room(d.ops, k + 1)
  <2>1. Room(c.ops \ {o}, k)
    BY <1>0, RoomSubset
  <2>2. Room((c.ops \ {o}) \cup {p}, k + 1)
    BY <2>1, RoomAdd
  <2> QED BY <1>2, <2>2
<1> HIDE DEF d
<1>4. Places(d) /\ Seeds(d)
  BY <1>0, <1>1, <1>2 DEF Same, Rest, Places, Place, Seeds
<1>5. Chain(d)
  BY <1>0, <1>1, <1>2 DEF Same, Rest, Chain, Looping
<1>6. Stopping(d)
  BY <1>0, <1>1, <1>2 DEF Same, Rest, Stopping, StopHeld
<1>7. Behind(d, t)
  BY <1>0, <1>1, <1>2 DEF Same, Rest, Behind
<1>8. Held(d)
  BY <1>0, <1>1, <1>2 DEF Same, Held, SendHeld
<1>9. Keeps(c, d)
  BY <1>1, <1>2 DEF Same, Keeps, HasLoop, Looping
<1> QED BY <1>1, <1>2, <1>3, <1>4, <1>5, <1>6, <1>7, <1>8, <1>9 DEF Rest, Well, d

\* Fields the invariant does not speak of.
LEMMA SameWell ==
  ASSUME NEW c, NEW k \in Nat, NEW t \in Nat, Well(c, k, t), NEW d \in Surfaces, Same(c, d), d.ops = c.ops
  PROVE  Well(d, k, t) /\ Keeps(c, d)
BY SameRest DEF Well, Keeps, Same

\* What a read that lands does to the thread: one that was handed over stays.
LEMMA ReadAgentHistoryWell ==
  ASSUME NEW c, NEW k \in Nat, NEW t \in Nat, Well(c, k, t), NEW o \in c.ops
  PROVE  LET d == ReadAgentHistory(c, o)
         IN  /\ Well(d, k, t) /\ d.ops = c.ops /\ d.surface = c.surface /\ d.seeded = c.seeded
             /\ c.seeded => d.msgs = c.msgs
<1> DEFINE d == ReadAgentHistory(c, o)
<1>0. c \in Surfaces /\ o.val \in Docs /\ o.val <= 2 * t /\ (c.seeded => Pane(c))
  BY FieldFacts, OpFacts DEF Well, Rest, Behind, Seeds, Pane
<1>1. CASE d = c
  BY <1>1
<1>2. CASE d = [c EXCEPT !.notice = "unavailable"]
  <2>1. [c EXCEPT !.notice = "unavailable"] \in Surfaces
    BY <1>0 DEF Surfaces
  <2>2. Same(c, [c EXCEPT !.notice = "unavailable"]) /\ [c EXCEPT !.notice = "unavailable"].ops = c.ops
    BY <1>0 DEF Same, Surfaces
  <2> HIDE DEF d
  <2> QED BY <1>2, <2>1, <2>2, SameWell DEF Same, d
<1> DEFINE r == [c EXCEPT !.lastHistory = o.val]
<1>3. r \in Surfaces /\ Same(c, r) /\ r.ops = c.ops
  BY <1>0 DEF Same, Surfaces
<1>4. Well(r, k, t)
  <2> HIDE DEF r
  <2> QED BY <1>3, SameWell
<1>5. CASE d = r
  <2> HIDE DEF r, d
  <2> QED BY <1>3, <1>4, <1>5 DEF Same, d
<1>6. CASE ~c.seeded /\ d = Replace(r, o.val)
  <2> HIDE DEF r, d
  <2>1. ~r.seeded
    BY <1>3, <1>6 DEF Same
  <2>2. Well(d, k, t) /\ d.ops = r.ops /\ d.surface = r.surface /\ ~d.seeded
    BY <1>0, <1>4, <1>6, <2>1, ReplaceWell
  <2>3. c.seeded \in BOOLEAN /\ d.seeded \in BOOLEAN
    BY <1>0, <2>2, FieldFacts DEF Well
  <2> QED BY <1>3, <1>6, <2>2, <2>3 DEF Same, d
<1>7. \/ d = c \/ d = [c EXCEPT !.notice = "unavailable"] \/ d = r
      \/ ~c.seeded /\ d = Replace(r, o.val)
  <2>1. CASE Pane(c) /\ c.seeded
    BY <2>1 DEF ReadAgentHistory, AdoptsRestoredThread
  <2>2. CASE ~(Pane(c) /\ c.seeded)
    BY <1>0, <2>2 DEF ReadAgentHistory
  <2> QED BY <2>1, <2>2
<1> QED BY <1>1, <1>2, <1>5, <1>6, <1>7

\* The tick gives up on the stream and reads the history.
LEMMA AdoptServerStateWell ==
  ASSUME NEW c, NEW k \in Nat, NEW t \in Nat, Well(c, k, t), NEW o \in c.ops, o.op = "tick"
  PROVE  Well(AdoptServerState(c, o), k, t) /\ Keeps(c, AdoptServerState(c, o))
<1> DEFINE a == AbortSend(c)
           b == [a EXCEPT !.following = FALSE, !.runningElsewhere = FALSE, !.notice = "none"]
<1>1. Well(a, k, t) /\ Keeps(c, a) /\ a.ops = c.ops
  BY AbortSendWell
<1>2. AdoptServerState(c, o) = LoadAgentHistory(b, o)
  BY DEF AdoptServerState
<1> HIDE DEF a
<1>3. b \in Surfaces /\ Same(a, b) /\ b.ops = a.ops
  <2>1. a \in Surfaces
    BY <1>1 DEF Well
  <2>2. b \in Surfaces
    BY <2>1 DEF Surfaces
  <2>3. Same(a, b) /\ b.ops = a.ops
    BY <2>1 DEF Same, Surfaces
  <2> QED BY <2>2, <2>3
<1> HIDE DEF b
<1>4. Well(b, k, t) /\ Keeps(a, b)
  BY <1>1, <1>3, SameWell
<1>5. o \in b.ops /\ o.op \in Reads /\ ~StopHeld(o)
  BY <1>1, <1>3 DEF Reads, StopHeld
<1>6. Well(LoadAgentHistory(b, o), k, t) /\ Keeps(b, LoadAgentHistory(b, o))
  BY <1>4, <1>5, LoadAgentHistoryWell
<1> QED BY <1>1, <1>2, <1>4, <1>6 DEF Keeps

-----------------------------------------------------------------------------
(* Steps *)

\* Some handlers move, and none is added or lost.
Moves(c, o, p, t) ==
  /\ p.op = o.op /\ p.fcur = o.fcur /\ (StopHeld(p) <=> StopHeld(o)) /\ (SendHeld(o) => SendHeld(p))
  /\ Place(p) /\ p.val <= 2 * t /\ (p.pc = "check" => o.pc = "check")

\* Answers and landings move several handlers in one step.
LEMMA MapWell ==
  ASSUME NEW c, NEW k \in Nat, NEW t \in Nat, Well(c, k, t), NEW d \in Surfaces, Same(c, d),
         NEW f, DOMAIN f = c.ops, d.ops = {f[x] : x \in c.ops}, \A o \in c.ops : Moves(c, o, f[o], t)
  PROVE  Well(d, k, t) /\ Keeps(c, d)
<1>0. c \in Surfaces /\ Room(c.ops, k) /\ Rest(c, t) /\ Held(c)
  BY DEF Well
<1>1. Room(d.ops, k)
  BY <1>0, RoomImage
<1>2. Places(d)
  BY DEF Places, Moves
<1>3. Stopping(d)
  <2>1. \A p \in d.ops : StopHeld(p) => \E o \in c.ops : p = f[o] /\ StopHeld(o)
    BY DEF Moves
  <2>2. \A o \in c.ops : StopHeld(o) => f[o] \in d.ops /\ StopHeld(f[o])
    BY DEF Moves
  <2> QED BY <1>0, <2>1, <2>2 DEF Rest, Stopping, Same
<1>4. Chain(d)
  <2>1. \A p \in d.ops : Looping(p) => \E o \in c.ops : p = f[o] /\ Looping(o)
    BY DEF Moves, Looping
  <2>2. \A p \in d.ops : p.op = "clear" => \E o \in c.ops : o.op = "clear"
    BY DEF Moves
  <2> QED BY <1>0, <2>1, <2>2 DEF Rest, Chain, Same
<1>5. Seeds(d)
  <2>1. \A p \in d.ops : \E o \in c.ops : p.op = o.op /\ (p.pc = "check" => o.pc = "check")
    BY DEF Moves
  <2> QED BY <1>0, <2>1 DEF Rest, Seeds, Same
<1>6. Behind(d, t)
  <2>1. \A p \in d.ops : p.val <= 2 * t
    BY DEF Moves
  <2> QED BY <1>0, <2>1 DEF Rest, Behind, Same
<1>7. Held(d)
  <2>1. \A o \in c.ops : SendHeld(o) => f[o] \in d.ops /\ SendHeld(f[o])
    BY DEF Moves
  <2> QED BY <1>0, <2>1 DEF Held, Same
<1>8. Keeps(c, d)
  <2>1. \A o \in c.ops : Looping(o) => f[o] \in d.ops /\ Looping(f[o])
    BY DEF Moves, Looping
  <2> QED BY <2>1 DEF Keeps, HasLoop, Same
<1> QED BY <1>1, <1>2, <1>3, <1>4, <1>5, <1>6, <1>7, <1>8 DEF Rest, Well

\* The panel's loop goes on while the panel is open.
LoopStep(c, d) ==
  c.surface = "floating" /\ HasLoop(c) /\ d.surface = "floating" /\ d.shown = "agent" => HasLoop(d)

\* A handed-over thread is not cut.
SeedStep(c, d) ==
  c.seeded /\ d.seeded /\ c.shown = "agent" /\ d.shown = "agent" /\ ~d.greet => d.msgs >= c.msgs

\* What a step leaves: Next then asks for MaxOps.
After ==
  /\ Well(me', MaxOps + 2, srv'.turn) /\ Session(srv') /\ faults' \in 0 .. MaxFaults
  /\ LoopStep(me, me') /\ SeedStep(me, me')

\* A step that keeps the thread and the loop.
LEMMA KeepsStep ==
  ASSUME NEW c \in Surfaces, NEW d, Keeps(c, d)
  PROVE  LoopStep(c, d) /\ SeedStep(c, d)
<1>1. c.msgs \in Nat
  BY Numbers
<1> QED BY <1>1 DEF Keeps, LoopStep, SeedStep

LEMMA WellMore ==
  ASSUME NEW c, NEW k \in Nat, NEW m \in Nat, k <= m, NEW t, Well(c, k, t)
  PROVE  Well(c, m, t)
BY DEF Well, Room

\* What the lemmas below take from the invariant.
LEMMA InvWell ==
  ASSUME Inv
  PROVE  /\ Well(me, MaxOps, srv.turn) /\ me \in Surfaces /\ srv.turn \in Nat /\ Session(srv) /\ faults \in 0 .. MaxFaults
         /\ \A o \in me.ops : o \in OpRecords /\ Place(o) /\ o.val <= 2 * srv.turn
         /\ MaxOps \in Nat /\ MaxOps + 1 \in Nat /\ MaxOps + 2 \in Nat
<1>1. Well(me, MaxOps, srv.turn) /\ me \in Surfaces /\ Session(srv) /\ faults \in 0 .. MaxFaults
  BY DEF Inv, Well
<1>2. srv.turn \in Nat
  BY <1>1 DEF Session, Sessions
<1>3. \A o \in me.ops : o \in OpRecords /\ Place(o) /\ o.val <= 2 * srv.turn
  BY <1>1, FieldFacts DEF Well, Rest, Places, Behind
<1> QED BY <1>1, <1>2, <1>3, DocsFacts

LEMMA MeStep ==
  ASSUME Inv, UNCHANGED <<srv, faults>>, NEW k \in Nat, k <= MaxOps + 2, Well(me', k, srv.turn),
         LoopStep(me, me'), SeedStep(me, me')
  PROVE  After
<1>1. Well(me', MaxOps + 2, srv.turn)
  BY InvWell, WellMore
<1> QED BY <1>1, InvWell DEF After

LEMMA HistoryLandsInv ==
  ASSUME Inv, NEW o \in me.ops, HistoryLands(o)
  PROVE  After
<1> DEFINE t == srv.turn
           r == ReadAgentHistory(me, o)
           readers == IF Pane(me) THEN {p \in me.ops : p.pc = "hist"} ELSE {o}
           S == (r.ops \ readers) \cup {[p EXCEPT !.pc = "landed", !.had = o.ans = "fail" \/ o.val > 0] : p \in readers}
<1>0. Well(me, MaxOps, t) /\ me \in Surfaces /\ MaxOps \in Nat /\ t \in Nat
  BY InvWell
<1>1. /\ Well(r, MaxOps, t) /\ r.ops = me.ops /\ r.surface = me.surface /\ r.seeded = me.seeded
      /\ me.seeded => r.msgs = me.msgs
  BY <1>0, ReadAgentHistoryWell
<1>2. UNCHANGED <<srv, faults>> /\ o.pc = "hist" /\ me' = [r EXCEPT !.ops = S]
  BY DEF HistoryLands
<1>3. readers \subseteq me.ops /\ \A p \in readers : p.pc = "hist"
  BY <1>2
<1>4. PICK had \in BOOLEAN : had = (o.ans = "fail" \/ o.val > 0)
  OBVIOUS
<1> DEFINE f == [x \in r.ops |-> IF x \in readers THEN [x EXCEPT !.pc = "landed", !.had = had] ELSE x]
<1>5. S = {f[x] : x \in r.ops} /\ DOMAIN f = r.ops
  BY <1>1, <1>3, <1>4
<1>6. \A x \in r.ops : f[x] \in OpRecords /\ Moves(r, x, f[x], t)
  <2> SUFFICES ASSUME NEW x \in r.ops PROVE f[x] \in OpRecords /\ Moves(r, x, f[x], t)
    OBVIOUS
  <2>1. x \in OpRecords /\ Place(x) /\ x.val <= 2 * t
    BY <1>1, InvWell
  <2>2. CASE x \in readers
    <3>1. x.pc = "hist" /\ f[x] = [x EXCEPT !.pc = "landed", !.had = had]
      BY <1>3, <2>2
    <3> HIDE DEF f, readers
    <3>2. /\ f[x] \in OpRecords /\ f[x].op = x.op /\ f[x].fcur = x.fcur /\ f[x].cur = x.cur
          /\ f[x].pc = "landed" /\ f[x].val = x.val
      <4>1. had \in BOOLEAN
        BY <1>4
      <4> HIDE <1>4
      <4> QED BY <2>1, <3>1, <4>1 DEF OpRecords, Pcs
    <3>3. Place(f[x])
      BY <2>1, <3>1, <3>2 DEF Place
    <3> QED BY <2>1, <3>1, <3>2, <3>3 DEF Moves, StopHeld, SendHeld
  <2>3. CASE x \notin readers
    <3>1. f[x] = x
      BY <2>3
    <3> QED BY <2>1, <3>1 DEF Moves
  <2> QED BY <2>2, <2>3
<1> HIDE DEF S, f, r, readers
<1>7. S \subseteq OpRecords
  BY <1>5, <1>6
<1>8. [r EXCEPT !.ops = S] \in Surfaces /\ Same(r, [r EXCEPT !.ops = S]) /\ [r EXCEPT !.ops = S].ops = S
  BY <1>1, <1>7 DEF Well, Surfaces, Same
<1>9. me' \in Surfaces /\ Same(r, me') /\ me'.ops = {f[x] : x \in r.ops}
  BY <1>2, <1>5, <1>8
<1>10. Well(me', MaxOps, t) /\ Keeps(r, me')
  BY <1>0, <1>1, <1>5, <1>6, <1>9, MapWell
<1>11. LoopStep(me, me')
  BY <1>1, <1>10 DEF LoopStep, Keeps, HasLoop
<1>12. SeedStep(me, me')
  BY <1>0, <1>1, <1>10, Numbers DEF SeedStep, Keeps
<1> QED BY <1>0, <1>2, <1>10, <1>11, <1>12, MeStep

\* A handler that holds nothing is over, goes on, or starts.
LEMMA DropWell ==
  ASSUME NEW c, NEW k \in Nat, NEW t \in Nat, Well(c, k, t), NEW o, ~StopHeld(o), ~SendHeld(o), ~Looping(o)
  PROVE  Well(Drop(c, o), k, t) /\ Keeps(c, Drop(c, o))
<1>0. c \in Surfaces /\ Room(c.ops, k) /\ Rest(c, t) /\ Held(c)
  BY DEF Well
<1>1. Drop(c, o) \in Surfaces /\ Same(c, Drop(c, o)) /\ Drop(c, o).ops \subseteq c.ops
  BY <1>0, DropIs
<1>2. Rest(Drop(c, o), t) /\ Held(Drop(c, o)) /\ (HasLoop(c) => HasLoop(Drop(c, o)))
  BY <1>0, DropRest
<1>3. Room(Drop(c, o).ops, k)
  BY <1>0, <1>1, RoomSubset
<1> QED BY <1>1, <1>2, <1>3 DEF Well, Keeps, Same

LEMMA PutWell ==
  ASSUME NEW c, NEW k \in Nat, NEW t \in Nat, Well(c, k, t), NEW o \in c.ops, NEW p, GoesOn(c, o, p, t)
  PROVE  Well(Put(c, o, p), k, t) /\ Keeps(c, Put(c, o, p))
<1>0. c \in Surfaces /\ Room(c.ops, k) /\ Rest(c, t) /\ Held(c) /\ p \in OpRecords
  BY DEF Well, GoesOn
<1>1. Put(c, o, p) \in Surfaces /\ Same(c, Put(c, o, p)) /\ Put(c, o, p).ops = (c.ops \ {o}) \cup {p}
  BY <1>0, PutIs
<1>2. Rest(Put(c, o, p), t) /\ Held(Put(c, o, p)) /\ (HasLoop(c) => HasLoop(Put(c, o, p)))
  BY <1>0, PutRest
<1>3. Room((c.ops \ {o}) \cup {p}, k)
  BY <1>0, RoomSwap
<1> QED BY <1>1, <1>2, <1>3 DEF Well, Keeps, Same

LEMMA AddWell ==
  ASSUME NEW c, NEW k \in Nat, NEW t \in Nat, Well(c, k, t), k <= MaxOps + 1, NEW o, Joins(c, o)
  PROVE  Well(Add(c, o), k + 1, t) /\ Keeps(c, Add(c, o)) /\ Same(c, Add(c, o))
<1>0. c \in Surfaces /\ Room(c.ops, k) /\ Room(c.ops, MaxOps + 1) /\ Rest(c, t) /\ Held(c) /\ o \in OpRecords
  BY DocsFacts DEF Well, Joins, Room
<1>1. Add(c, o) \in Surfaces /\ Same(c, Add(c, o))
  BY <1>0, AddIs
<1>2. Rest(Add(c, o), t) /\ Held(Add(c, o)) /\ (HasLoop(c) => HasLoop(Add(c, o))) /\ Room(Add(c, o).ops, k + 1)
  BY <1>0, AddRest
<1> QED BY <1>1, <1>2 DEF Well, Keeps, Same

\* One lemma per action from here on: it leaves After.
LEMMA RefreshHistoryInv ==
  ASSUME Inv, NEW o \in me.ops, RefreshHistoryIfChanged(o)
  PROVE  After
<1> DEFINE t == srv.turn
           l == [me EXCEPT !.lastHistory = o.val]
           r == RefreshLands(me, o)
<1>0. Well(me, MaxOps, t) /\ me \in Surfaces /\ MaxOps \in Nat /\ t \in Nat /\ Place(o) /\ o \in OpRecords /\ o.val <= 2 * t
  BY InvWell
<1>1. UNCHANGED <<srv, faults>> /\ o.pc = "refresh" /\ me' = Rearm(r, o)
  BY DEF RefreshHistoryIfChanged
<1>2. o.op = "tick"
  BY <1>0, <1>1, OpFacts DEF Place, Ops
<1>3. ~me.seeded
  BY <1>0, <1>2 DEF Well, Rest, Seeds
<1>4. l \in Surfaces /\ Same(me, l) /\ l.ops = me.ops
  <2>1. o.val \in Docs
    BY <1>0, OpFacts
  <2> QED BY <1>0, <2>1 DEF Surfaces, Same
<1>5. r = me \/ r = Replace(l, o.val)
  BY DEF RefreshLands
<1> HIDE DEF l, r
<1>6. Well(r, MaxOps, t) /\ r.ops = me.ops /\ r.surface = me.surface /\ ~r.seeded
  <2>1. Well(l, MaxOps, t) /\ ~l.seeded /\ l.surface = me.surface
    BY <1>0, <1>3, <1>4, SameWell DEF Same
  <2>2. o.val \in Docs
    BY <1>0, OpFacts
  <2>3. /\ Well(Replace(l, o.val), MaxOps, t) /\ Replace(l, o.val).ops = l.ops
        /\ Replace(l, o.val).surface = l.surface /\ ~Replace(l, o.val).seeded
    BY <1>0, <2>1, <2>2, ReplaceWell
  <2> QED BY <1>0, <1>3, <1>4, <1>5, <2>1, <2>3
<1>7. Well(me', MaxOps + 1, t) /\ Keeps(r, me')
  BY <1>0, <1>1, <1>2, <1>6, RearmWell
<1>8. LoopStep(me, me') /\ SeedStep(me, me')
  BY <1>3, <1>6, <1>7 DEF LoopStep, SeedStep, Keeps, HasLoop
<1> QED BY <1>0, <1>1, <1>7, <1>8, InvWell, MeStep

\* What the loop's tick does with its answer.
LEMMA TicksWell ==
  ASSUME NEW c, NEW k \in Nat, NEW t \in Nat, Well(c, k, t), k <= MaxOps + 1, NEW o \in c.ops, o.op = "tick"
  PROVE  /\ Well(OwnTurnTick(c, o), k + 1, t) /\ Keeps(c, OwnTurnTick(c, o))
         /\ Well(FollowTick(c, o), k + 1, t) /\ Keeps(c, FollowTick(c, o))
<1>0. c \in Surfaces /\ Room(c.ops, k) /\ Rest(c, t) /\ Held(c) /\ o \in OpRecords /\ k + 1 \in Nat /\ k <= k + 1
  BY FieldFacts DEF Well
<1>1. Well(Rearm(c, o), k + 1, t) /\ Keeps(c, Rearm(c, o))
  BY RearmWell
<1>2. Well(OwnTurnTick(c, o), k + 1, t) /\ Keeps(c, OwnTurnTick(c, o))
  <2> DEFINE b == [c EXCEPT !.ownTurn = FALSE, !.ownTurnSettled = FALSE]
             a == [c EXCEPT !.ownTurn = FALSE]
  <2>1. b \in Surfaces /\ Same(c, b) /\ b.ops = c.ops
    BY <1>0 DEF Surfaces, Same
  <2>2. a \in Surfaces /\ Same(c, a) /\ a.ops = c.ops
    BY <1>0 DEF Surfaces, Same
  <2>3. \/ OwnTurnTick(c, o) = Rearm(c, o) \/ OwnTurnTick(c, o) = Rearm(AbortSend(b), o)
        \/ OwnTurnTick(c, o) = AdoptServerState(a, o)
    <3>1. CASE o.val = 1
      BY <3>1 DEF OwnTurnTick
    <3>2. CASE o.val = 0 /\ c.ownTurnSettled
      BY <3>2 DEF OwnTurnTick
    <3>3. CASE o.val = 0 /\ ~c.ownTurnSettled /\ c.quiet
      BY <3>3 DEF OwnTurnTick
    <3>4. CASE ~(o.val = 1) /\ ~(o.val = 0 /\ c.ownTurnSettled) /\ ~(o.val = 0 /\ ~c.ownTurnSettled /\ c.quiet)
      BY <3>4 DEF OwnTurnTick
    <3> QED BY <3>1, <3>2, <3>3, <3>4
  <2> HIDE DEF a, b
  <2>4. Well(b, k, t) /\ Keeps(c, b) /\ Well(a, k, t) /\ Keeps(c, a)
    BY <2>1, <2>2, SameWell
  <2>5. Well(AbortSend(b), k, t) /\ Keeps(b, AbortSend(b)) /\ AbortSend(b).ops = b.ops
    BY <2>4, AbortSendWell
  <2>6. Well(Rearm(AbortSend(b), o), k + 1, t) /\ Keeps(AbortSend(b), Rearm(AbortSend(b), o))
    BY <2>1, <2>5, RearmWell
  <2>7. Well(AdoptServerState(a, o), k, t) /\ Keeps(a, AdoptServerState(a, o))
    BY <2>2, <2>4, AdoptServerStateWell
  <2>8. Well(AdoptServerState(a, o), k + 1, t)
    BY <1>0, <2>7, WellMore
  <2> QED BY <1>1, <2>3, <2>4, <2>5, <2>6, <2>7, <2>8 DEF Keeps
<1>3. Well(FollowTick(c, o), k + 1, t) /\ Keeps(c, FollowTick(c, o))
  <2> DEFINE b == [c EXCEPT !.runningElsewhere = TRUE, !.following = TRUE]
             a == [c EXCEPT !.runningElsewhere = FALSE]
             p == At(o, "refresh")
  <2>1. b \in Surfaces /\ Same(c, b) /\ b.ops = c.ops
    BY <1>0 DEF Surfaces, Same
  <2>2. a \in Surfaces /\ Same(c, a) /\ a.ops = c.ops
    BY <1>0 DEF Surfaces, Same
  <2>3. FollowTick(c, o) = Put(b, o, p) \/ FollowTick(c, o) = AdoptServerState(c, o) \/ FollowTick(c, o) = Rearm(a, o)
    BY DEF FollowTick
  <2>4. p \in OpRecords /\ p.op = o.op /\ p.fcur = o.fcur /\ p.cur = o.cur /\ p.pc = "refresh" /\ p.val = 0
    <3>1. "refresh" \in Pcs
      BY DEF Pcs
    <3> QED BY <1>0, <3>1, AtIs DEF SameOp
  <2> HIDE DEF a, b, p
  <2>5. Well(b, k, t) /\ Keeps(c, b) /\ Well(a, k, t) /\ Keeps(c, a)
    BY <2>1, <2>2, SameWell
  <2>6. Well(Rearm(a, o), k + 1, t) /\ Keeps(a, Rearm(a, o))
    BY <2>2, <2>5, RearmWell
  <2>7. Well(AdoptServerState(c, o), k, t) /\ Keeps(c, AdoptServerState(c, o))
    BY AdoptServerStateWell
  <2>8. Well(AdoptServerState(c, o), k + 1, t)
    BY <1>0, <2>7, WellMore
  <2>9. GoesOn(b, o, p, t)
    BY <2>4 DEF GoesOn, Place, StopHeld, SendHeld
  <2>10. Well(Put(b, o, p), k, t) /\ Keeps(b, Put(b, o, p))
    BY <2>1, <2>5, <2>9, PutWell
  <2>11. Well(Put(b, o, p), k + 1, t)
    BY <1>0, <2>10, WellMore
  <2> QED BY <2>3, <2>5, <2>6, <2>7, <2>8, <2>10, <2>11 DEF Keeps
<1> QED BY <1>2, <1>3

LEMMA TickLandsInv ==
  ASSUME Inv, NEW o \in me.ops, TickLands(o)
  PROVE  After
<1> DEFINE t == srv.turn
<1>0. /\ Well(me, MaxOps, t) /\ me \in Surfaces /\ MaxOps \in Nat /\ t \in Nat /\ Place(o) /\ o \in OpRecords
      /\ MaxOps + 1 \in Nat
  BY InvWell
<1>1. UNCHANGED <<srv, faults>> /\ o.pc = "turn" /\ (me' = Rearm(me, o) \/ me' = OwnTurnTick(me, o) \/ me' = FollowTick(me, o))
  BY DEF TickLands
<1>2. o.op = "tick"
  BY <1>0, <1>1, OpFacts DEF Place, Ops
<1>3. Well(me', MaxOps + 1, t) /\ Keeps(me, me')
  <2>0. MaxOps <= MaxOps + 1
    BY <1>0
  <2>1. Well(Rearm(me, o), MaxOps + 1, t) /\ Keeps(me, Rearm(me, o))
    BY <1>0, <1>2, <2>0, RearmWell
  <2>2. /\ Well(OwnTurnTick(me, o), MaxOps + 1, t) /\ Keeps(me, OwnTurnTick(me, o))
        /\ Well(FollowTick(me, o), MaxOps + 1, t) /\ Keeps(me, FollowTick(me, o))
    BY <1>0, <1>2, <2>0, TicksWell
  <2>3. CASE me' = Rearm(me, o)
    BY <2>1, <2>3
  <2>4. CASE me' = OwnTurnTick(me, o)
    BY <2>2, <2>4
  <2>5. CASE me' = FollowTick(me, o)
    BY <2>2, <2>5
  <2> QED BY <1>1, <2>3, <2>4, <2>5
<1>4. LoopStep(me, me') /\ SeedStep(me, me')
  BY <1>0, <1>3, KeepsStep
<1> QED BY <1>0, <1>1, <1>3, <1>4, MeStep

LEMMA CheckLandsInv ==
  ASSUME Inv, NEW o \in me.ops, CheckLands(o)
  PROVE  After
<1> DEFINE t == srv.turn
           c == CheckTurnElsewhere(me, o)
<1>0. /\ Well(me, MaxOps, t) /\ me \in Surfaces /\ MaxOps \in Nat /\ t \in Nat /\ o \in OpRecords
  BY InvWell
<1>1. UNCHANGED <<srv, faults>> /\ o.op = "check" /\ me' = Drop(c, o)
  BY DEF CheckLands
<1>2. c \in Surfaces /\ Same(me, c) /\ c.ops = me.ops
  BY <1>0, CheckTurnElsewhereIs
<1> HIDE DEF c
<1>3. Well(c, MaxOps, t) /\ Keeps(me, c)
  BY <1>0, <1>2, SameWell
<1>4. Well(me', MaxOps, t) /\ Keeps(c, me')
  <2>1. ~StopHeld(o) /\ ~SendHeld(o) /\ ~Looping(o)
    BY <1>1 DEF StopHeld, SendHeld, Looping
  <2> QED BY <1>0, <1>1, <1>3, <2>1, DropWell
<1>5. LoopStep(me, me') /\ SeedStep(me, me')
  <2>1. Keeps(me, me')
    BY <1>3, <1>4 DEF Keeps
  <2> QED BY <1>0, <2>1, KeepsStep
<1> QED BY <1>0, <1>1, <1>4, <1>5, MeStep

LEMMA RestoreCheckLandsInv ==
  ASSUME Inv, NEW o \in me.ops, RestoreCheckLands(o)
  PROVE  After
<1> DEFINE t == srv.turn
           c == CheckTurnElsewhere(me, o)
           e == [c EXCEPT !.notice = "active", !.following = TRUE]
           b == IF c.runningElsewhere THEN e ELSE c
           d == Drop(b, o)
<1>0. /\ Well(me, MaxOps, t) /\ me \in Surfaces /\ MaxOps \in Nat /\ t \in Nat /\ o \in OpRecords /\ MaxOps + 1 \in Nat
  BY InvWell
<1>1. /\ UNCHANGED <<srv, faults>> /\ o.op \in {"restore", "await", "clear"} /\ o.pc = "check"
      /\ me' = StartFollowing(d)
  BY Zenon DEF RestoreCheckLands, RestoreEnds
<1>2. c \in Surfaces /\ Same(me, c) /\ c.ops = me.ops
  BY <1>0, CheckTurnElsewhereIs
<1> HIDE DEF c
<1>3. e \in Surfaces /\ Same(c, e) /\ e.ops = c.ops
  BY <1>2 DEF Surfaces, Same
<1> HIDE DEF e
<1>4. b \in Surfaces /\ Same(me, b) /\ b.ops = me.ops
  BY <1>2, <1>3 DEF Same
<1> HIDE DEF b
<1>5. Well(b, MaxOps, t) /\ Keeps(me, b)
  BY <1>0, <1>4, SameWell
<1>6. ~me.seeded /\ ~b.seeded
  BY <1>0, <1>1, <1>4 DEF Well, Rest, Seeds, Same
<1>7. Well(d, MaxOps, t) /\ Keeps(b, d)
  <2>1. ~StopHeld(o) /\ ~SendHeld(o) /\ ~Looping(o)
    BY <1>1 DEF StopHeld, SendHeld, Looping
  <2> QED BY <1>0, <1>5, <2>1, DropWell
<1> HIDE DEF d
<1>8. Well(me', MaxOps + 1, t) /\ HasLoop(me')
  BY <1>0, <1>1, <1>6, <1>7, StartFollowingWell DEF Keeps
<1>9. LoopStep(me, me') /\ SeedStep(me, me')
  BY <1>6, <1>8 DEF LoopStep, SeedStep
<1> QED BY <1>0, <1>1, <1>8, <1>9, MeStep

\* A step that keeps the thread and the loop, and costs no fault.
LEMMA KeepsAfter ==
  ASSUME Inv, UNCHANGED <<srv, faults>>, NEW k \in Nat, k <= MaxOps + 2, Well(me', k, srv.turn), Keeps(me, me')
  PROVE  After
<1>1. LoopStep(me, me') /\ SeedStep(me, me')
  BY InvWell, KeepsStep
<1> QED BY <1>1, MeStep

\* A handler starts, and waits at pc.
LEMMA OpJoins ==
  ASSUME NEW c \in Surfaces, NEW k \in Ops, NEW pc \in Pcs, NEW a \in BOOLEAN,
         k \in {"check", "stopOwn", "send", "model", "await", "restore", "reload", "clear"},
         pc = (IF k = "check" THEN "check" ELSE IF k \in {"stopOwn", "send"} THEN "abort"
               ELSE IF k = "model" THEN "chat" ELSE IF k = "clear" /\ pc = "delete" THEN "delete" ELSE "meta"),
         k = "clear" => Pane(c)
  PROVE  Joins(c, Op(k, pc, a)) /\ (k \in {"send", "model"} => SendHeld(Op(k, pc, a)))
<1> DEFINE o == Op(k, pc, a)
<1>1. o \in OpRecords /\ o.op = k /\ o.pc = pc /\ o.cur /\ o.val = 0
  BY OpIs
<1> HIDE DEF o
<1>2. Place(o)
  BY <1>1 DEF Place
<1>3. Joins(c, o)
  BY <1>1, <1>2 DEF Joins, StopHeld, Pane
<1> QED BY <1>1, <1>3 DEF o, SendHeld

LEMMA RetryTurnCheckInv ==
  ASSUME Inv, RetryTurnCheck
  PROVE  After
<1> DEFINE t == srv.turn
           c == [me EXCEPT !.turnCheckFailed = FALSE]
           p == Op("check", "check", FALSE)
<1>0. Well(me, MaxOps, t) /\ me \in Surfaces /\ MaxOps \in Nat /\ t \in Nat /\ MaxOps + 1 \in Nat
  BY InvWell
<1>1. UNCHANGED <<srv, faults>> /\ me' = Add(c, p)
  BY DEF RetryTurnCheck
<1>2. c \in Surfaces /\ Same(me, c) /\ c.ops = me.ops
  BY <1>0 DEF Surfaces, Same
<1> HIDE DEF c
<1>3. Well(c, MaxOps, t) /\ Keeps(me, c)
  BY <1>0, <1>2, SameWell
<1>4. Joins(c, p)
  BY <1>2, OpJoins DEF Ops, Pcs
<1> HIDE DEF p
<1>5. Well(me', MaxOps + 1, t) /\ Keeps(c, me')
  BY <1>0, <1>1, <1>3, <1>4, AddWell
<1>6. Keeps(me, me')
  BY <1>3, <1>5 DEF Keeps
<1> QED BY <1>0, <1>1, <1>5, <1>6, KeepsAfter

LEMMA DismissTurnCheckInv ==
  ASSUME Inv, DismissTurnCheck
  PROVE  After
<1> DEFINE c == [me EXCEPT !.turnCheckFailed = FALSE]
<1>0. Well(me, MaxOps, srv.turn) /\ me \in Surfaces /\ MaxOps \in Nat /\ srv.turn \in Nat
  BY InvWell
<1>1. UNCHANGED <<srv, faults>> /\ me' = c
  BY DEF DismissTurnCheck
<1>2. c \in Surfaces /\ Same(me, c) /\ c.ops = me.ops
  BY <1>0 DEF Surfaces, Same
<1> HIDE DEF c
<1>3. Well(me', MaxOps, srv.turn) /\ Keeps(me, me')
  BY <1>0, <1>1, <1>2, SameWell
<1> QED BY <1>0, <1>1, <1>3, KeepsAfter

LEMMA StopOwnInv ==
  ASSUME Inv, StopOwn
  PROVE  After
<1> DEFINE p == Op("stopOwn", "abort", FALSE)
<1>0. Well(me, MaxOps, srv.turn) /\ me \in Surfaces /\ MaxOps \in Nat /\ srv.turn \in Nat /\ MaxOps + 1 \in Nat
  BY InvWell
<1>1. UNCHANGED <<srv, faults>> /\ me' = Add(me, p)
  BY DEF StopOwn
<1>2. Joins(me, p)
  BY <1>0, OpJoins DEF Ops, Pcs
<1> HIDE DEF p
<1>3. Well(me', MaxOps + 1, srv.turn) /\ Keeps(me, me')
  BY <1>0, <1>1, <1>2, AddWell
<1> QED BY <1>0, <1>1, <1>3, KeepsAfter

\* A handler that holds nothing is over.
LEMMA DroppedInv ==
  ASSUME Inv, UNCHANGED <<srv, faults>>, NEW o, me' = Drop(me, o), ~StopHeld(o), ~SendHeld(o), ~Looping(o)
  PROVE  After
<1>0. Well(me, MaxOps, srv.turn) /\ MaxOps \in Nat /\ srv.turn \in Nat
  BY InvWell
<1>1. Well(me', MaxOps, srv.turn) /\ Keeps(me, me')
  BY <1>0, DropWell
<1> QED BY <1>0, <1>1, KeepsAfter

LEMMA StopOwnLandsInv ==
  ASSUME Inv, NEW o \in me.ops, StopOwnLands(o)
  PROVE  After
BY DroppedInv DEF StopOwnLands, StopHeld, SendHeld, Looping

-----------------------------------------------------------------------------
(* Sending and stopping *)

\* A send starts a generation of its own.
LEMMA SendingIs ==
  ASSUME Inv, ~me.sending, ~me.stoppingElsewhere
  PROVE  LET c == [Bump(me) EXCEPT !.sending = TRUE]
         IN  c \in Surfaces /\ Room(c.ops, MaxOps) /\ Rest(c, srv.turn) /\ Keeps(me, c)
<1> DEFINE b == Bump(me)
           c == [b EXCEPT !.sending = TRUE]
           t == srv.turn
<1>0. me \in Surfaces /\ MaxOps \in Nat /\ t \in Nat /\ Room(me.ops, MaxOps) /\ Rest(me, t)
  BY InvWell DEF Well
<1>1. /\ b \in Surfaces /\ b.surface = me.surface /\ b.seeded = me.seeded /\ b.msgs = me.msgs
      /\ b.stoppingElsewhere = me.stoppingElsewhere
  BY <1>0, BumpIs
<1>2. Rest(b, t) /\ (HasLoop(me) => HasLoop(b)) /\ Room(b.ops, MaxOps)
  BY <1>0, BumpRest DEF Rest
<1> HIDE DEF b
<1>3. /\ c \in Surfaces /\ c.ops = b.ops /\ c.surface = b.surface /\ c.seeded = b.seeded /\ c.msgs = b.msgs
      /\ c.stoppingElsewhere = b.stoppingElsewhere /\ c.strm = b.strm
  BY <1>1 DEF Surfaces
<1> HIDE DEF c
<1>4. Rest(c, t)
  BY <1>1, <1>2, <1>3 DEF Rest, Places, Stopping, Chain, Seeds, Behind
<1>5. Keeps(me, c)
  BY <1>1, <1>2, <1>3 DEF Keeps, HasLoop
<1> QED BY <1>2, <1>3, <1>4, <1>5 DEF b, c

\* The send is what `sending` is for.
LEMMA AddSendWell ==
  ASSUME NEW c \in Surfaces, NEW t \in Nat, Room(c.ops, MaxOps), Rest(c, t), NEW o, Joins(c, o), SendHeld(o)
  PROVE  Well(Add(c, o), MaxOps + 1, t) /\ Keeps(c, Add(c, o))
<1>0. Room(c.ops, MaxOps + 1) /\ o \in OpRecords /\ MaxOps \in Nat
  BY DocsFacts DEF Room, Joins
<1>1. Add(c, o) \in Surfaces /\ Same(c, Add(c, o))
  BY <1>0, AddIs
<1>2. Rest(Add(c, o), t) /\ Held(Add(c, o)) /\ (HasLoop(c) => HasLoop(Add(c, o))) /\ Room(Add(c, o).ops, MaxOps + 1)
  BY <1>0, AddRest
<1> QED BY <1>1, <1>2 DEF Well, Keeps, Same

LEMMA SendMessageInv ==
  ASSUME Inv, SendMessage
  PROVE  After
<1> DEFINE t == srv.turn
           c == [Bump(me) EXCEPT !.sending = TRUE]
           p == Op("send", "abort", me.runningElsewhere)
<1>0. me \in Surfaces /\ MaxOps \in Nat /\ t \in Nat /\ MaxOps + 1 \in Nat /\ me.runningElsewhere \in BOOLEAN
  BY InvWell DEF Surfaces
<1>1. UNCHANGED <<srv, faults>> /\ (me' = Add(c, p) \/ me' = StartTurn(c)) /\ ~me.sending /\ ~me.stoppingElsewhere
  BY DEF SendMessage, MaySend
<1>2. c \in Surfaces /\ Room(c.ops, MaxOps) /\ Rest(c, srv.turn) /\ Keeps(me, c)
  BY <1>1, SendingIs
<1> HIDE DEF c
<1>3. Joins(c, p) /\ SendHeld(p)
  BY <1>0, <1>2, OpJoins DEF Ops, Pcs
<1> HIDE DEF p
<1>4. Well(Add(c, p), MaxOps + 1, t) /\ Keeps(c, Add(c, p))
  BY <1>0, <1>2, <1>3, AddSendWell
<1>5. Well(StartTurn(c), MaxOps, t) /\ Keeps(c, StartTurn(c))
  BY <1>0, <1>2, StartTurnWell
<1>6. Well(StartTurn(c), MaxOps + 1, t)
  BY <1>0, <1>5, WellMore
<1>7. Well(me', MaxOps + 1, t) /\ Keeps(me, me')
  BY <1>1, <1>2, <1>4, <1>5, <1>6 DEF Keeps
<1> QED BY <1>0, <1>1, <1>7, KeepsAfter

LEMMA SendToModelInv ==
  ASSUME Inv, SendToModel
  PROVE  After
<1> DEFINE t == srv.turn
           c == [Bump(me) EXCEPT !.sending = TRUE]
           p == Op("model", "chat", FALSE)
<1>0. MaxOps \in Nat /\ t \in Nat /\ MaxOps + 1 \in Nat
  BY InvWell
<1>1. UNCHANGED <<srv, faults>> /\ me' = Add(c, p) /\ ~me.sending /\ ~me.stoppingElsewhere
  BY DEF SendToModel
<1>2. c \in Surfaces /\ Room(c.ops, MaxOps) /\ Rest(c, srv.turn) /\ Keeps(me, c)
  BY <1>1, SendingIs
<1> HIDE DEF c
<1>3. Joins(c, p) /\ SendHeld(p)
  BY <1>0, <1>2, OpJoins DEF Ops, Pcs
<1> HIDE DEF p
<1>4. Well(me', MaxOps + 1, t) /\ Keeps(c, me')
  BY <1>0, <1>1, <1>2, <1>3, AddSendWell
<1>5. Keeps(me, me')
  BY <1>2, <1>4 DEF Keeps
<1> QED BY <1>0, <1>1, <1>4, <1>5, KeepsAfter

\* The composer is released.
LEMMA ReleasedWell ==
  ASSUME NEW c \in Surfaces, NEW k \in Nat, NEW t \in Nat, Room(c.ops, k), Rest(c, t)
  PROVE  Well([c EXCEPT !.sending = FALSE], k, t) /\ Keeps(c, [c EXCEPT !.sending = FALSE])
<1> DEFINE d == [c EXCEPT !.sending = FALSE]
<1>1. /\ d \in Surfaces /\ d.ops = c.ops /\ d.surface = c.surface /\ d.seeded = c.seeded /\ d.msgs = c.msgs
      /\ d.stoppingElsewhere = c.stoppingElsewhere /\ d.strm = c.strm /\ ~d.sending
  BY DEF Surfaces
<1> HIDE DEF d
<1>2. Rest(d, t)
  BY <1>1 DEF Rest, Places, Stopping, Chain, Seeds, Behind
<1>3. Held(d) /\ Keeps(c, d)
  BY <1>1 DEF Held, Keeps, HasLoop
<1> QED BY <1>1, <1>2, <1>3 DEF Well, d

LEMMA ModelAnsweredInv ==
  ASSUME Inv, NEW o \in me.ops, ModelAnswered(o)
  PROVE  After
<1> DEFINE t == srv.turn
           c == Drop(me, o)
<1>0. Well(me, MaxOps, t) /\ me \in Surfaces /\ MaxOps \in Nat /\ t \in Nat /\ o \in OpRecords
  BY InvWell
<1>1. UNCHANGED <<srv, faults>> /\ o.op = "model" /\ me' = [c EXCEPT !.sending = @ /\ ~o.cur]
  BY DEF ModelAnswered
<1>2. ~StopHeld(o) /\ ~Looping(o) /\ Rest(me, t) /\ Room(me.ops, MaxOps) /\ c.ops \subseteq me.ops /\ c \in Surfaces /\ Same(me, c)
  BY <1>0, <1>1, DropIs DEF StopHeld, Looping, Well
<1>3. CASE o.cur
  <2>1. me' = [c EXCEPT !.sending = FALSE]
    BY <1>1, <1>3
  <2>2. Rest(c, t) /\ (HasLoop(me) => HasLoop(c))
    BY <1>0, <1>2, DropRest
  <2>3. Room(c.ops, MaxOps)
    BY <1>0, <1>2, RoomSubset
  <2> HIDE DEF c
  <2>4. Well(me', MaxOps, t) /\ Keeps(c, me')
    BY <1>0, <1>2, <2>1, <2>2, <2>3, ReleasedWell
  <2>5. Keeps(me, me')
    BY <1>2, <2>2, <2>4 DEF Keeps, Same
  <2> QED BY <1>0, <1>1, <2>4, <2>5, KeepsAfter
<1>4. CASE ~o.cur
  <2>1. ~SendHeld(o)
    BY <1>4 DEF SendHeld
  <2>2. me' = c
    <3>1. c.sending \in BOOLEAN
      BY <1>2, FieldFacts
    <3>2. me' = [c EXCEPT !.sending = c.sending]
      BY <1>1, <1>4, <3>1
    <3> HIDE DEF c
    <3> QED BY <1>2, <3>2 DEF Surfaces
  <2> QED BY <1>1, <1>2, <2>1, <2>2, DroppedInv
<1> QED BY <1>3, <1>4

\* Somebody else's turn is stopped: the stop is the one `stoppingElsewhere` is for.
LEMMA StopElsewhereInv ==
  ASSUME Inv, StopElsewhere
  PROVE  After
<1> DEFINE t == srv.turn
           c == [me EXCEPT !.stoppingElsewhere = TRUE]
           o == Op("stop", "abort", FALSE)
<1>0. /\ me \in Surfaces /\ MaxOps \in Nat /\ t \in Nat /\ MaxOps + 1 \in Nat
      /\ Room(me.ops, MaxOps) /\ Room(me.ops, MaxOps + 1) /\ Rest(me, t) /\ Held(me)
  BY InvWell DEF Well, Room
<1>1. UNCHANGED <<srv, faults>> /\ me' = Add(c, o) /\ ~me.sending /\ ~me.stoppingElsewhere
  BY DEF StopElsewhere
<1>2. /\ c \in Surfaces /\ c.ops = me.ops /\ c.surface = me.surface /\ c.seeded = me.seeded /\ c.msgs = me.msgs
      /\ c.stoppingElsewhere /\ c.strm = me.strm /\ c.sending = me.sending
  BY <1>0 DEF Surfaces
<1>3. o \in OpRecords /\ o.op = "stop" /\ o.pc = "abort" /\ o.cur = TRUE /\ o.val = 0
  <2>1. "stop" \in Ops /\ "abort" \in Pcs
    BY DEF Ops, Pcs
  <2> QED BY <2>1, OpIs
<1> HIDE DEF c, o
<1>4. PICK n \in 1 .. MaxOps + 2 : me' \in Surfaces /\ Same(c, me') /\ me'.ops = c.ops \cup {[o EXCEPT !.n = n]}
  BY <1>0, <1>1, <1>2, <1>3, AddIs
<1>a. /\ [o EXCEPT !.n = n] \in OpRecords /\ [o EXCEPT !.n = n].op = o.op /\ [o EXCEPT !.n = n].pc = o.pc
      /\ [o EXCEPT !.n = n].cur = o.cur /\ [o EXCEPT !.n = n].val = o.val
  BY <1>3, NumberedIs
<1>5. PICK p \in OpRecords : p = [o EXCEPT !.n = n] /\ p.op = "stop" /\ p.pc = "abort" /\ p.cur /\ p.val = 0
  BY <1>3, <1>a
<1>6. /\ me'.ops = me.ops \cup {p} /\ p.op = "stop" /\ p.pc = "abort" /\ p.cur /\ p.val = 0
      /\ me' \in Surfaces /\ Same(c, me')
  BY <1>2, <1>4, <1>5
<1>7. Room(me'.ops, MaxOps + 1)
  <2>1. Room(me.ops \cup {p}, MaxOps + 1)
    BY <1>0, RoomAdd
  <2> QED BY <1>6, <2>1
<1> HIDE <1>4, <1>5
<1>8. Places(me') /\ Seeds(me')
  BY <1>0, <1>2, <1>6 DEF Same, Rest, Places, Place, Seeds
<1>9. Chain(me')
  BY <1>0, <1>2, <1>6 DEF Same, Rest, Chain, Looping
<1>10. Stopping(me')
  <2>1. \A x \in me'.ops : StopHeld(x) <=> x = p
    BY <1>0, <1>1, <1>6 DEF Rest, Stopping, StopHeld
  <2> QED BY <1>1, <1>2, <1>6, <2>1 DEF Stopping, Same
<1>11. Behind(me', t)
  BY <1>0, <1>2, <1>6 DEF Same, Rest, Behind
<1>12. Held(me') /\ Keeps(me, me')
  BY <1>0, <1>2, <1>6 DEF Same, Held, Keeps, HasLoop
<1>13. Well(me', MaxOps + 1, t)
  BY <1>6, <1>7, <1>8, <1>9, <1>10, <1>11, <1>12 DEF Well, Rest
<1> QED BY <1>0, <1>1, <1>12, <1>13, KeepsAfter

\* What the loop does about a stop: the pane drops its timer, the panel restarts it.
LEMMA StoppedWell ==
  ASSUME NEW c, NEW k \in Nat, NEW t \in Nat, Well(c, k, t), k <= MaxOps + 1
  PROVE  /\ Well(StopTurnPolling(c), k + 1, t) /\ Same(c, StopTurnPolling(c))
         /\ c.surface = "floating" => /\ Well(Watched(c), k + 1, t) /\ HasLoop(Watched(c))
                                      /\ Same(c, Watched(c))
<1>0. c \in Surfaces /\ Room(c.ops, k) /\ Rest(c, t) /\ Held(c)
  BY DEF Well
<1>1. Well(StopTurnPolling(c), k, t) /\ Same(c, StopTurnPolling(c))
  BY <1>0, StopTurnPollingIs, StopTurnPollingRest DEF Well
<1>2. Well(StopTurnPolling(c), k + 1, t)
  BY <1>1, WellMore
<1>3. ASSUME c.surface = "floating"
      PROVE  Well(Watched(c), k + 1, t) /\ HasLoop(Watched(c)) /\ Same(c, Watched(c))
  <2>1. ~c.seeded
    BY <1>0, <1>3 DEF Rest, Seeds
  <2>2. Well(StartFollowing(c), k + 1, t) /\ HasLoop(StartFollowing(c))
    BY <2>1, StartFollowingWell
  <2>3. Same(c, StartFollowing(c))
    <3>1. StopFollowing(c) \in Surfaces /\ Same(c, StopFollowing(c)) /\ Room(StopFollowing(c).ops, k)
      BY <1>0, StopFollowingIs, StopFollowingRest
    <3>2. Room(StopFollowing(c).ops, MaxOps + 1)
      BY <3>1, DocsFacts DEF Room
    <3>3. Same(StopFollowing(c), Arm(StopFollowing(c)))
      BY <3>1, <3>2, ArmIs
    <3>4. StartFollowing(c) = Arm(StopFollowing(c))
      BY <1>3 DEF StartFollowing, Pane
    <3> QED BY <3>1, <3>3, <3>4 DEF Same
  <2> QED BY <2>2, <2>3 DEF Watched
<1> QED BY <1>1, <1>2, <1>3

\* It depends on what waits, and on which surface it is.
LEMMA StoppedOps ==
  ASSUME NEW c \in Surfaces, NEW d \in Surfaces, d.ops = c.ops, d.surface = "floating", c.surface = "floating"
  PROVE  Watched(d).ops = Watched(c).ops
<1> DEFINE x == StopFollowing(c)
           y == StopFollowing(d)
<1>1. x \in Surfaces /\ y \in Surfaces /\ y.ops = x.ops
  BY StopFollowingIs
<1>2. Watched(c) = Arm(x) /\ Watched(d) = Arm(y)
  BY DEF Watched, StartFollowing, Pane
<1> HIDE DEF x, y
<1>3. Arm(y).ops = Arm(x).ops
  <2> DEFINE S == {[o EXCEPT !.arg = @ /\ o.op # "tick"] : o \in x.ops}
             a == [x EXCEPT !.ops = S]
             b == [y EXCEPT !.ops = S]
             p == Op("tick", "armed", TRUE)
  <2>1. Arm(x) = Add(a, p) /\ Arm(y) = Add(b, p)
    BY <1>1 DEF Arm
  <2> HIDE DEF S, p
  <2>2. a.ops = S /\ b.ops = S
    BY <1>1 DEF Surfaces
  <2>3. DOMAIN a = DOMAIN x /\ DOMAIN b = DOMAIN y /\ "ops" \in DOMAIN x /\ "ops" \in DOMAIN y
    BY <1>1 DEF Surfaces
  <2> HIDE DEF a, b
  <2>4. Add(a, p).ops = S \cup {[p EXCEPT !.n = FreeNumber(S, p.op)]}
    BY <2>2, <2>3 DEF Add
  <2>5. Add(b, p).ops = S \cup {[p EXCEPT !.n = FreeNumber(S, p.op)]}
    BY <2>2, <2>3 DEF Add
  <2> QED BY <2>1, <2>4, <2>5
<1> QED BY <1>2, <1>3

\* The stop-first step of a send lands, with s the surface after a stop that
\* was granted.
LEMMA StopFirstInv ==
  ASSUME Inv, NEW o \in me.ops, o.op = "send", o.pc = "abort", UNCHANGED <<srv, faults>>,
         NEW s, Well(s, MaxOps + 1, srv.turn), Keeps(me, s) \/ (Pane(me) /\ Same(me, s)),
         \/ ~o.cur /\ me' = Drop(me, o)
         \/ me' = LoadAgentHistory(s, o)
         \/ me' = [Drop(me, o) EXCEPT !.sending = FALSE]
         \/ me' = StartTurn(Drop(me, o))
  PROVE  After
<1> DEFINE t == srv.turn
           c == Drop(me, o)
<1>0. Well(me, MaxOps, t) /\ me \in Surfaces /\ MaxOps \in Nat /\ t \in Nat /\ o \in OpRecords /\ MaxOps + 1 \in Nat /\ MaxOps + 2 \in Nat
  BY InvWell
<1>1. ~StopHeld(o) /\ ~Looping(o)
  BY DEF StopHeld, Looping
<1>2. /\ c \in Surfaces /\ Same(me, c) /\ Rest(c, t) /\ Room(c.ops, MaxOps) /\ Keeps(me, c)
  <2>1. c \in Surfaces /\ Same(me, c) /\ c.ops \subseteq me.ops /\ Rest(me, t) /\ Room(me.ops, MaxOps)
    BY <1>0, DropIs DEF Well
  <2>2. Rest(c, t) /\ (HasLoop(me) => HasLoop(c))
    BY <1>0, <1>1, <2>1, DropRest
  <2>3. Room(c.ops, MaxOps)
    BY <1>0, <2>1, RoomSubset
  <2> QED BY <2>1, <2>2, <2>3 DEF Keeps, Same
<1>3. CASE ~o.cur /\ me' = Drop(me, o)
  BY <1>1, <1>3, DroppedInv DEF SendHeld
<1>4. CASE me' = LoadAgentHistory(s, o)
  <2>1. Well(me', (MaxOps + 1) + 1, t) /\ Keeps(s, me')
    BY <1>0, <1>1, <1>4, StoppedReads
  <2>2. Well(me', MaxOps + 2, t)
    BY <1>0, <2>1, WellMore
  <2>3. LoopStep(me, me') /\ SeedStep(me, me')
    <3>1. me.msgs \in Nat
      BY <1>0, Numbers
    <3> QED BY <2>1, <3>1 DEF Keeps, LoopStep, SeedStep, Pane, Same
  <2> QED BY <1>0, <2>2, <2>3, MeStep
<1> HIDE DEF c
<1>5. CASE me' = [Drop(me, o) EXCEPT !.sending = FALSE]
  <2>1. Well(me', MaxOps, t) /\ Keeps(c, me')
    BY <1>0, <1>2, <1>5, ReleasedWell DEF c
  <2>2. Keeps(me, me')
    BY <1>2, <2>1 DEF Keeps
  <2> QED BY <1>0, <2>1, <2>2, KeepsAfter
<1>6. CASE me' = StartTurn(Drop(me, o))
  <2>1. Well(me', MaxOps, t) /\ Keeps(c, me')
    BY <1>0, <1>2, <1>6, StartTurnWell DEF c
  <2>2. Keeps(me, me')
    BY <1>2, <2>1 DEF Keeps
  <2> QED BY <1>0, <2>1, <2>2, KeepsAfter
<1> QED BY <1>3, <1>4, <1>5, <1>6

\* Both surfaces stop the turn before they send.
LEMMA StopFirstLandsInv ==
  ASSUME Inv, NEW o \in me.ops, PaneStopFirstLands(o) \/ FloatStopFirstLands(o)
  PROVE  After
<1> DEFINE t == srv.turn
           c == [me EXCEPT !.runningElsewhere = FALSE]
<1>0. Well(me, MaxOps, t) /\ me \in Surfaces /\ MaxOps \in Nat /\ t \in Nat
  BY InvWell
<1>1. c \in Surfaces /\ Same(me, c) /\ c.ops = me.ops
  BY <1>0 DEF Surfaces, Same
<1>4. CASE PaneStopFirstLands(o)
  <2>1. /\ o.op = "send" /\ o.pc = "abort" /\ UNCHANGED <<srv, faults>> /\ Pane(me)
        /\ \/ ~o.cur /\ me' = Drop(me, o)
           \/ me' = LoadAgentHistory(StopTurnPolling(c), o)
           \/ me' = [Drop(me, o) EXCEPT !.sending = FALSE]
           \/ me' = StartTurn(Drop(me, o))
    BY <1>4, Zenon DEF PaneStopFirstLands, StopFirstLands
  <2> HIDE DEF c
  <2>2. Well(c, MaxOps, t)
    BY <1>0, <1>1, SameWell
  <2>3. Well(StopTurnPolling(c), MaxOps + 1, t) /\ Same(c, StopTurnPolling(c))
    BY <1>0, <2>2, StoppedWell
  <2>4. Same(me, StopTurnPolling(c))
    BY <1>1, <2>3 DEF Same
  <2> QED BY <2>1, <2>3, <2>4, StopFirstInv
<1>5. CASE FloatStopFirstLands(o)
  <2>1. /\ o.op = "send" /\ o.pc = "abort" /\ UNCHANGED <<srv, faults>> /\ me.surface = "floating"
        /\ \/ ~o.cur /\ me' = Drop(me, o)
           \/ me' = LoadAgentHistory(Watched(c), o)
           \/ me' = [Drop(me, o) EXCEPT !.sending = FALSE]
           \/ me' = StartTurn(Drop(me, o))
    BY <1>5, Zenon DEF FloatStopFirstLands, StopFirstLands, Floating
  <2> HIDE DEF c
  <2>2. Well(c, MaxOps, t)
    BY <1>0, <1>1, SameWell
  <2>3. Well(Watched(c), MaxOps + 1, t) /\ Same(c, Watched(c)) /\ HasLoop(Watched(c))
    BY <1>0, <1>1, <2>1, <2>2, StoppedWell DEF Same
  <2>4. Keeps(me, Watched(c))
    BY <1>1, <2>3 DEF Same, Keeps
  <2> QED BY <2>1, <2>3, <2>4, StopFirstInv
<1> QED BY <1>4, <1>5

\* A stop that was refused is over, and one that was granted reads the history
\* in a new generation.  x is the surface after the loop's part, had the stop
\* still been waiting.
LEMMA StopDone ==
  ASSUME Inv, NEW o \in me.ops, StopHeld(o), UNCHANGED <<srv, faults>>,
         NEW x, Well(x, MaxOps + 1, srv.turn), Same(me, x), Pane(me) \/ HasLoop(x),
         NEW y \in Surfaces, y.ops = x.ops, y.surface = x.surface, y.seeded = x.seeded, y.msgs = x.msgs,
         y.strm = x.strm, y.sending = x.sending, ~y.stoppingElsewhere,
         me' = LoadAgentHistory(Bump(y), [o EXCEPT !.cur = FALSE, !.rcur = FALSE])
  PROVE  After
<1> DEFINE t == srv.turn
           b == Bump(y)
           p == [o EXCEPT !.cur = FALSE, !.rcur = FALSE]
<1>0. /\ me \in Surfaces /\ MaxOps \in Nat /\ t \in Nat /\ MaxOps + 1 \in Nat /\ MaxOps + 2 \in Nat
      /\ o \in OpRecords /\ Rest(me, t)
  BY InvWell DEF Well
<1>1. ~me.sending
  BY <1>0 DEF Rest, Stopping
<1>2. Places(y) /\ Chain(y) /\ Seeds(y) /\ Behind(y, t) /\ ~y.sending /\ Room(y.ops, MaxOps + 1)
  BY <1>1 DEF Well, Rest, Places, Chain, Seeds, Behind, Same
<1>3. Rest(b, t) /\ Held(b) /\ (HasLoop(y) => HasLoop(b)) /\ Room(b.ops, MaxOps + 1)
  BY <1>0, <1>2, BumpRest
<1>4. b \in Surfaces /\ b.surface = me.surface /\ b.seeded = me.seeded /\ b.msgs = me.msgs
  BY BumpIs DEF Same
<1>5. p \in OpRecords /\ p.op = "stop" /\ ~p.cur
  BY <1>0, StaleIs DEF SameOp, StopHeld
<1> HIDE DEF b, p
<1>6. ~StopHeld(p)
  BY <1>5 DEF StopHeld
<1>7. Well(b, MaxOps + 1, t)
  BY <1>3, <1>4 DEF Well
<1>8. Well(LoadAgentHistory(b, p), (MaxOps + 1) + 1, t) /\ Keeps(b, LoadAgentHistory(b, p))
  BY <1>0, <1>5, <1>6, <1>7, StoppedReads
<1>9. me' = LoadAgentHistory(b, p)
  BY DEF b, p
<1>10. Well(me', MaxOps + 2, t)
  BY <1>0, <1>8, <1>9, WellMore
<1>11. LoopStep(me, me') /\ SeedStep(me, me')
  <2>1. me.msgs \in Nat
    BY <1>0, Numbers
  <2>2. Pane(me) \/ HasLoop(me')
    BY <1>3, <1>8, <1>9 DEF Keeps, HasLoop
  <2> QED BY <1>4, <1>8, <1>9, <2>1, <2>2 DEF Keeps, LoopStep, SeedStep, Pane
<1> QED BY <1>0, <1>10, <1>11, MeStep

\* The Stop was refused: its button is back.
LEMMA StopRefused ==
  ASSUME Inv, NEW o \in me.ops, StopHeld(o), UNCHANGED <<srv, faults>>,
         me' = Drop([me EXCEPT !.stoppingElsewhere = FALSE], o)
  PROVE  After
<1> DEFINE t == srv.turn
           c == [me EXCEPT !.stoppingElsewhere = FALSE]
<1>0. /\ me \in Surfaces /\ MaxOps \in Nat /\ t \in Nat /\ Room(me.ops, MaxOps) /\ Rest(me, t) /\ Held(me)
  BY InvWell DEF Well
<1>1. /\ c \in Surfaces /\ c.ops = me.ops /\ c.surface = me.surface /\ c.seeded = me.seeded /\ c.msgs = me.msgs
      /\ ~c.stoppingElsewhere /\ c.strm = me.strm /\ c.sending = me.sending
  BY <1>0 DEF Surfaces
<1> HIDE DEF c
<1>2. me' \in Surfaces /\ Same(c, me') /\ me'.ops = me.ops \ {o}
  BY <1>1, DropIs DEF c
<1>3. Room(me'.ops, MaxOps)
  BY <1>0, <1>2, RoomSubset
<1>4. Stopping(me')
  BY <1>0, <1>1, <1>2 DEF Rest, Stopping, Same
<1>5. Places(me') /\ Chain(me') /\ Seeds(me') /\ Behind(me', t)
  BY <1>0, <1>1, <1>2 DEF Rest, Places, Chain, Seeds, Behind, Same
<1>6. Held(me') /\ Keeps(me, me')
  BY <1>0, <1>1, <1>2 DEF Held, Keeps, HasLoop, Same, SendHeld, StopHeld, Looping
<1>7. Well(me', MaxOps, t)
  BY <1>2, <1>3, <1>4, <1>5, <1>6 DEF Well, Rest
<1>8. MaxOps <= MaxOps + 2
  BY <1>0
<1> QED BY <1>0, <1>6, <1>7, <1>8, KeepsAfter, Zenon

\* Both surfaces stop a turn they do not stream.
LEMMA StopLandsInv ==
  ASSUME Inv, NEW o \in me.ops, PaneStopLands(o) \/ FloatStopLands(o)
  PROVE  After
<1> DEFINE t == srv.turn
           c == [me EXCEPT !.stoppingElsewhere = FALSE]
           e == [c EXCEPT !.runningElsewhere = FALSE]
           m == [me EXCEPT !.runningElsewhere = FALSE]
           p == [o EXCEPT !.cur = FALSE, !.rcur = FALSE]
<1>0. Well(me, MaxOps, t) /\ me \in Surfaces /\ MaxOps \in Nat /\ t \in Nat
  BY InvWell
<1>1. /\ o.op = "stop" /\ o.pc = "abort" /\ UNCHANGED <<srv, faults>>
      /\ \/ ~o.cur /\ me' = Drop(me, o)
         \/ o.cur /\ me' = Drop(c, o)
         \/ o.cur /\ Pane(me) /\ me' = LoadAgentHistory(Bump(StopTurnPolling(e)), p)
         \/ o.cur /\ me.surface = "floating" /\ me' = LoadAgentHistory(Bump(Watched(e)), p)
  <2>1. CASE PaneStopLands(o)
    BY <2>1, Zenon DEF PaneStopLands, StopLands
  <2>2. CASE FloatStopLands(o)
    BY <2>2, Zenon DEF FloatStopLands, StopLands, Floating
  <2> QED BY <2>1, <2>2
<1>2. m \in Surfaces /\ Same(me, m) /\ m.ops = me.ops
  BY <1>0 DEF Surfaces, Same
<1>3. /\ e \in Surfaces /\ e.ops = me.ops /\ e.surface = me.surface /\ e.seeded = me.seeded /\ e.msgs = me.msgs
      /\ ~e.stoppingElsewhere /\ e.strm = me.strm /\ e.sending = me.sending
  <2>1. /\ c \in Surfaces /\ c.ops = me.ops /\ c.surface = me.surface /\ c.seeded = me.seeded /\ c.msgs = me.msgs
        /\ ~c.stoppingElsewhere /\ c.strm = me.strm /\ c.sending = me.sending
    BY <1>0 DEF Surfaces
  <2> HIDE DEF c
  <2> QED BY <2>1 DEF Surfaces
<1>4. CASE ~o.cur /\ me' = Drop(me, o)
  BY <1>1, <1>4, DroppedInv DEF StopHeld, SendHeld, Looping
<1>5. CASE o.cur /\ me' = Drop(c, o)
  BY <1>1, <1>5, StopRefused DEF StopHeld
<1> HIDE DEF e, m
<1>6. Well(m, MaxOps, t)
  BY <1>0, <1>2, SameWell
<1>7. /\ Well(StopTurnPolling(m), MaxOps + 1, t) /\ Same(m, StopTurnPolling(m))
      /\ me.surface = "floating" => Well(Watched(m), MaxOps + 1, t) /\ HasLoop(Watched(m)) /\ Same(m, Watched(m))
  BY <1>0, <1>2, <1>6, StoppedWell DEF Same
<1>8. CASE o.cur /\ Pane(me) /\ me' = LoadAgentHistory(Bump(StopTurnPolling(e)), p)
  <2> DEFINE x == StopTurnPolling(m)
             y == StopTurnPolling(e)
  <2>1. y \in Surfaces /\ Same(e, y) /\ y.ops = x.ops
    BY <1>2, <1>3, StopTurnPollingIs
  <2>2. Well(x, MaxOps + 1, t) /\ Same(me, x)
    BY <1>2, <1>7 DEF Same
  <2> HIDE DEF x, y
  <2>3. /\ y \in Surfaces /\ y.ops = x.ops /\ y.surface = x.surface /\ y.seeded = x.seeded /\ y.msgs = x.msgs
        /\ y.strm = x.strm /\ y.sending = x.sending /\ ~y.stoppingElsewhere
    BY <1>3, <2>1, <2>2 DEF Same
  <2>4. StopHeld(o) /\ Pane(me) /\ me' = LoadAgentHistory(Bump(y), p)
    BY <1>1, <1>8 DEF StopHeld, y
  <2> QED BY <1>1, <2>2, <2>3, <2>4, StopDone
<1>9. CASE o.cur /\ me.surface = "floating" /\ me' = LoadAgentHistory(Bump(Watched(e)), p)
  <2> DEFINE x == Watched(m)
             y == Watched(e)
  <2>1. y.ops = x.ops
    BY <1>2, <1>3, <1>9, StoppedOps DEF Same
  <2>2. y \in Surfaces /\ Same(e, y)
    <3>1. StopFollowing(e) \in Surfaces /\ Same(e, StopFollowing(e)) /\ StopFollowing(e).ops = StopFollowing(m).ops
      BY <1>2, <1>3, StopFollowingIs
    <3>2. Room(StopFollowing(m).ops, MaxOps)
      BY <1>0, <1>2, <1>6, StopFollowingRest DEF Well
    <3>3. Room(StopFollowing(e).ops, MaxOps + 1)
      BY <1>0, <3>1, <3>2 DEF Room
    <3>4. Arm(StopFollowing(e)) \in Surfaces /\ Same(StopFollowing(e), Arm(StopFollowing(e)))
      BY <3>1, <3>3, ArmIs
    <3>5. y = Arm(StopFollowing(e))
      BY <1>3, <1>9 DEF Watched, StartFollowing, Pane
    <3> QED BY <3>1, <3>4, <3>5 DEF Same
  <2>3. Well(x, MaxOps + 1, t) /\ Same(me, x) /\ HasLoop(x)
    BY <1>2, <1>7, <1>9 DEF Same
  <2> HIDE DEF x, y
  <2>4. /\ y \in Surfaces /\ y.ops = x.ops /\ y.surface = x.surface /\ y.seeded = x.seeded /\ y.msgs = x.msgs
        /\ y.strm = x.strm /\ y.sending = x.sending /\ ~y.stoppingElsewhere
    BY <1>3, <2>1, <2>2, <2>3 DEF Same
  <2>5. StopHeld(o) /\ me' = LoadAgentHistory(Bump(y), p)
    BY <1>1, <1>9 DEF StopHeld, y
  <2> QED BY <1>1, <2>3, <2>4, <2>5, StopDone
<1> QED BY <1>1, <1>4, <1>5, <1>8, <1>9

LEMMA ResumesInv ==
  ASSUME Inv, NEW o \in me.ops, Resumes(o)
  PROVE  After
<1> DEFINE t == srv.turn
<1>0. Well(me, MaxOps, t) /\ me \in Surfaces /\ MaxOps \in Nat /\ t \in Nat /\ MaxOps + 1 \in Nat
  BY InvWell
<1>1. /\ o.pc = "landed" /\ UNCHANGED <<srv, faults>>
      /\ \/ o.op = "tick" /\ me' = Rearm(me, o)
         \/ o.op = "send" /\ o.cur /\ me' = StartTurn(Drop(me, o))
         \/ o.op = "send" /\ ~o.cur /\ me' = Drop(me, o)
         \/ o.op \in {"stop", "reload"} /\ me' = Drop(me, o)
  BY DEF Resumes
<1>2. CASE o.op = "tick" /\ me' = Rearm(me, o)
  <2>1. Well(me', MaxOps + 1, t) /\ Keeps(me, me')
    BY <1>0, <1>2, RearmWell
  <2> QED BY <1>0, <1>1, <2>1, KeepsAfter
<1>3. CASE o.op = "send" /\ o.cur /\ me' = StartTurn(Drop(me, o))
  <2> DEFINE c == Drop(me, o)
  <2>1. c \in Surfaces /\ Same(me, c) /\ c.ops \subseteq me.ops /\ Rest(me, t) /\ Room(me.ops, MaxOps)
    BY <1>0, DropIs DEF Well
  <2>2. Rest(c, t) /\ (HasLoop(me) => HasLoop(c))
    BY <1>0, <1>3, <2>1, DropRest DEF StopHeld, Looping
  <2>3. Room(c.ops, MaxOps)
    BY <1>0, <2>1, RoomSubset
  <2> HIDE DEF c
  <2>4. Well(StartTurn(c), MaxOps, t) /\ Keeps(c, StartTurn(c))
    BY <1>0, <2>1, <2>2, <2>3, StartTurnWell
  <2>5. me' = StartTurn(c)
    BY <1>3 DEF c
  <2>6. Well(me', MaxOps, t) /\ Keeps(me, me')
    BY <2>1, <2>2, <2>4, <2>5 DEF Keeps, Same
  <2> QED BY <1>0, <1>1, <2>6, KeepsAfter
<1>4. CASE o.op = "send" /\ ~o.cur /\ me' = Drop(me, o)
  BY <1>1, <1>4, DroppedInv DEF StopHeld, SendHeld, Looping
<1>5. CASE o.op \in {"stop", "reload"} /\ me' = Drop(me, o)
  BY <1>1, <1>5, DroppedInv DEF StopHeld, SendHeld, Looping
<1> QED BY <1>1, <1>2, <1>3, <1>4, <1>5

-----------------------------------------------------------------------------
(* The turn's stream *)

LEMMA StreamIs ==
  ASSUME NEW c \in Surfaces
  PROVE  /\ c.strm.pc \in {"none", "post", "open", "drain"} /\ c.strm.turn \in 0 .. MaxTurns /\ c.strm.turn \in Nat
         /\ c.strm.cur \in BOOLEAN
<1>1. c.strm.turn \in 0 .. MaxTurns /\ c.strm.pc \in {"none", "post", "open", "drain"} /\ c.strm.cur \in BOOLEAN
  BY FieldFacts, StreamFacts
<1> QED BY <1>1, DocsFacts

LEMMA PostAcceptedInv ==
  ASSUME Inv, PostAccepted
  PROVE  After
<1> DEFINE t == srv.turn
           s == [me.strm EXCEPT !.pc = "open", !.turn = t + 1]
<1>0. Well(me, MaxOps, t) /\ me \in Surfaces /\ MaxOps \in Nat /\ t \in Nat /\ srv \in Sessions /\ MaxOps + 2 \in Nat
  BY InvWell DEF Session
<1>1. /\ srv' = [srv EXCEPT !.turn = @ + 1, !.active = TRUE] /\ faults' = faults /\ t < MaxTurns
      /\ me' = [me EXCEPT !.strm.pc = "open", !.strm.turn = t + 1, !.quiet = FALSE]
  BY DEF PostAccepted, MayStart
<1>2. srv'.turn = t + 1 /\ Session(srv')
  <2>1. t + 1 \in 0 .. MaxTurns /\ srv.doc \in Nat /\ srv.doc <= 2 * t
    BY <1>0, <1>1, DocsFacts, InvWell DEF Sessions, Session
  <2>2. srv' = [srv EXCEPT !.turn = t + 1, !.active = TRUE]
    BY <1>1
  <2>3. [srv EXCEPT !.turn = t + 1, !.active = TRUE] \in Sessions
    BY <1>0, <2>1 DEF Sessions
  <2>4. srv'.turn = t + 1 /\ srv'.doc = srv.doc
    BY <1>0, <2>2 DEF Sessions
  <2> QED BY <1>0, <2>1, <2>2, <2>3, <2>4 DEF Session
<1>3. s \in StreamRecords /\ s.pc = "open" /\ s.turn = t + 1 /\ s.cur = me.strm.cur
  <2>1. t + 1 \in 0 .. MaxTurns
    BY <1>0, <1>1, DocsFacts
  <2>2. me.strm \in StreamRecords
    BY <1>0, FieldFacts
  <2> QED BY <2>1, <2>2 DEF StreamRecords
<1>4. me' = [me EXCEPT !.strm = s, !.quiet = FALSE]
  BY <1>0, <1>1 DEF Surfaces
<1> HIDE DEF s
<1>5. /\ me' \in Surfaces /\ me'.ops = me.ops /\ me'.surface = me.surface /\ me'.seeded = me.seeded
      /\ me'.msgs = me.msgs /\ me'.stoppingElsewhere = me.stoppingElsewhere /\ me'.sending = me.sending /\ me'.strm = s
  BY <1>0, <1>3, <1>4 DEF Surfaces
<1>6. Rest(me, t) /\ Room(me.ops, MaxOps) /\ Held(me) /\ me.msgs \in Nat /\ (\A o \in me.ops : o.val \in Nat)
  BY <1>0, Numbers DEF Well
<1>7. Places(me') /\ Stopping(me') /\ Chain(me')
  BY <1>5, <1>6 DEF Rest, Places, Stopping, Chain
<1>8. Seeds(me') /\ Behind(me', t + 1)
  <2>1. me.msgs <= 2 * t /\ \A o \in me.ops : o.val <= 2 * t
    BY <1>6 DEF Rest, Behind
  <2>2. Behind(me', t + 1)
    BY <1>0, <1>3, <1>5, <1>6, <2>1 DEF Behind
  <2>3. me'.msgs <= 2 * me'.strm.turn - 1
    BY <1>0, <1>3, <1>5, <1>6, <2>1
  <2>4. Seeds(me')
    BY <1>5, <1>6, <2>3 DEF Rest, Seeds
  <2> QED BY <2>2, <2>4
<1>9. Held(me') /\ Keeps(me, me')
  <2>1. me.strm.pc = "post"
    BY DEF PostAccepted
  <2> QED BY <1>3, <1>5, <1>6, <2>1 DEF Held, Keeps, HasLoop
<1>10. Well(me', MaxOps, t + 1)
  BY <1>5, <1>6, <1>7, <1>8, <1>9 DEF Well, Rest
<1>11. Well(me', MaxOps + 2, t + 1)
  BY <1>0, <1>10, WellMore
<1>12. LoopStep(me, me') /\ SeedStep(me, me')
  BY <1>0, <1>9, KeepsStep
<1> QED BY <1>1, <1>2, <1>11, <1>12, InvWell DEF After

\* A fault is counted within its bound.
LEMMA FaultsIs ==
  ASSUME Inv, MayFail
  PROVE  faults + 1 \in 0 .. MaxFaults
BY InvWell, BoundsAssumption DEF MayFail

\* A step of the surface that may have cost a fault.
LEMMA FaultStep ==
  ASSUME Inv, srv' = srv, faults' = faults \/ (MayFail /\ faults' = faults + 1),
         NEW k \in Nat, k <= MaxOps + 2, Well(me', k, srv.turn), LoopStep(me, me'), SeedStep(me, me')
  PROVE  After
<1>1. Well(me', MaxOps + 2, srv.turn)
  BY InvWell, WellMore
<1>2. faults' \in 0 .. MaxFaults
  BY InvWell, FaultsIs
<1> QED BY <1>1, <1>2, InvWell DEF After

LEMMA PostRefusedInv ==
  ASSUME Inv, PostRefused
  PROVE  After
<1>0. Well(me, MaxOps, srv.turn) /\ me \in Surfaces /\ MaxOps \in Nat /\ srv.turn \in Nat
  BY InvWell
<1>1. srv' = srv /\ me' = StreamOver(me) /\ (faults' = faults \/ (MayFail /\ faults' = faults + 1))
  BY DEF PostRefused
<1>2. Well(me', MaxOps, srv.turn) /\ Keeps(me, me')
  BY <1>0, <1>1, StreamOverWell
<1>3. LoopStep(me, me') /\ SeedStep(me, me')
  BY <1>0, <1>2, KeepsStep
<1> QED BY <1>0, <1>1, <1>2, <1>3, FaultStep

LEMMA StreamClosesInv ==
  ASSUME Inv, StreamCloses
  PROVE  After
<1>0. Well(me, MaxOps, srv.turn) /\ me \in Surfaces /\ MaxOps \in Nat /\ srv.turn \in Nat
  BY InvWell
<1>1. UNCHANGED <<srv, faults>> /\ me' = StreamOver(me)
  BY DEF StreamCloses
<1>2. Well(me', MaxOps, srv.turn) /\ Keeps(me, me')
  BY <1>0, <1>1, StreamOverWell
<1> QED BY <1>0, <1>1, <1>2, KeepsAfter

\* The stream writes its turn's messages into the thread.
LEMMA StreamWrites ==
  ASSUME Inv, UNCHANGED <<srv, faults>>, me.strm.pc = "open", me.strm.cur, me' \in Surfaces,
         me'.ops = me.ops, me'.surface = me.surface, me'.seeded = me.seeded, me'.sending = me.sending,
         me'.stoppingElsewhere = me.stoppingElsewhere, me'.strm.turn = me.strm.turn, me'.strm.cur = me.strm.cur,
         \/ me'.strm.pc = "open" /\ me'.msgs \in {me.msgs, 2 * me.strm.turn - 1}
         \/ me'.strm.pc = "drain" /\ me'.msgs \in {me.msgs, 2 * me.strm.turn}
  PROVE  After
<1> DEFINE t == srv.turn
<1>0. /\ Well(me, MaxOps, t) /\ me \in Surfaces /\ MaxOps \in Nat /\ t \in Nat
      /\ Room(me.ops, MaxOps) /\ Rest(me, t) /\ Held(me) /\ me.msgs \in Nat /\ me.strm.turn \in Nat
  BY InvWell, Numbers DEF Well
<1>1. me.strm.turn >= 1 /\ me.strm.turn <= t /\ me.msgs <= 2 * t /\ (me.seeded => me.msgs <= 2 * me.strm.turn - 1)
  BY <1>0 DEF Rest, Behind, Seeds
<1>2. Places(me') /\ Stopping(me') /\ Chain(me')
  BY <1>0 DEF Rest, Places, Stopping, Chain
<1>3. Behind(me', t)
  <2>1. me'.msgs <= 2 * t
    BY <1>0, <1>1
  <2>2. \A o \in me'.ops : o.val <= 2 * t
    BY <1>0 DEF Rest, Behind
  <2> QED BY <1>1, <2>1, <2>2 DEF Behind
<1>4. Seeds(me')
  <2>1. me'.seeded /\ me'.strm.pc = "open" => me'.msgs <= 2 * me'.strm.turn - 1
    BY <1>0, <1>1
  <2> QED BY <1>0, <2>1 DEF Rest, Seeds
<1>5. Held(me')
  BY DEF Held
<1>6. Well(me', MaxOps, t)
  BY <1>0, <1>2, <1>3, <1>4, <1>5 DEF Well, Rest
<1>7. LoopStep(me, me')
  BY DEF LoopStep, HasLoop
<1>8. SeedStep(me, me')
  <2>1. me.seeded => me'.msgs >= me.msgs
    BY <1>0, <1>1
  <2> QED BY <2>1 DEF SeedStep
<1> QED BY <1>0, <1>6, <1>7, <1>8, MeStep

LEMMA StreamCarriesInv ==
  ASSUME Inv, StreamCarries
  PROVE  After
<1>0. /\ Well(me, MaxOps, srv.turn) /\ me \in Surfaces /\ MaxOps \in Nat /\ srv.turn \in Nat /\ MaxTurns \in Nat
      /\ me.strm \in StreamRecords /\ me.strm.turn \in 0 .. MaxTurns
  BY InvWell, StreamIs, FieldFacts, DocsFacts
<1>1. UNCHANGED <<srv, faults>> /\ me.strm.pc = "open"
  BY DEF StreamCarries
<1>2. CASE ~me.strm.cur
  <2>1. me' = StreamOver(me)
    BY <1>2 DEF StreamCarries
  <2>2. Well(me', MaxOps, srv.turn) /\ Keeps(me, me')
    BY <1>0, <2>1, StreamOverWell
  <2> QED BY <1>0, <1>1, <2>2, KeepsAfter
<1>3. CASE me.strm.cur
  <2> DEFINE m == IF me.bubble THEN 2 * me.strm.turn - 1 ELSE me.msgs
  <2>1. me' = [me EXCEPT !.quiet = FALSE, !.msgs = m]
    BY <1>3 DEF StreamCarries
  <2>2. me.strm.turn >= 1
    BY <1>0, <1>1 DEF Well, Rest, Behind
  <2>3. m \in Docs /\ m \in {me.msgs, 2 * me.strm.turn - 1}
    <3>1. 2 * me.strm.turn - 1 \in Docs
      BY <1>0, <2>2 DEF Docs
    <3> QED BY <1>0, <3>1, FieldFacts
  <2> HIDE DEF m
  <2>4. /\ me' \in Surfaces /\ me'.ops = me.ops /\ me'.surface = me.surface /\ me'.seeded = me.seeded
        /\ me'.msgs = m /\ me'.stoppingElsewhere = me.stoppingElsewhere /\ me'.sending = me.sending /\ me'.strm = me.strm
    BY <1>0, <2>1, <2>3 DEF Surfaces
  <2> QED BY <1>1, <1>3, <2>3, <2>4, StreamWrites
<1> QED BY <1>2, <1>3

LEMMA MessageDoneInv ==
  ASSUME Inv, MessageDone
  PROVE  After
<1>0. /\ Well(me, MaxOps, srv.turn) /\ me \in Surfaces /\ MaxOps \in Nat /\ srv.turn \in Nat /\ MaxTurns \in Nat
      /\ me.strm \in StreamRecords /\ me.strm.turn \in 0 .. MaxTurns
  BY InvWell, StreamIs, FieldFacts, DocsFacts
<1>1. UNCHANGED <<srv, faults>> /\ me.strm.pc = "open"
  BY DEF MessageDone
<1>2. CASE ~me.strm.cur
  <2>1. me' = StreamOver(me)
    BY <1>2 DEF MessageDone
  <2>2. Well(me', MaxOps, srv.turn) /\ Keeps(me, me')
    BY <1>0, <2>1, StreamOverWell
  <2> QED BY <1>0, <1>1, <2>2, KeepsAfter
<1>3. CASE me.strm.cur
  <2> DEFINE m == IF me.bubble THEN 2 * me.strm.turn ELSE me.msgs
             s == [me.strm EXCEPT !.pc = "drain"]
  <2>1. me' = [me EXCEPT !.quiet = FALSE, !.ownTurnSettled = TRUE, !.strm.pc = "drain", !.msgs = m]
    BY <1>3 DEF MessageDone
  <2>2. s \in StreamRecords /\ s.pc = "drain" /\ s.turn = me.strm.turn /\ s.cur = me.strm.cur
    BY <1>0 DEF StreamRecords
  <2>3. m \in Docs /\ m \in {me.msgs, 2 * me.strm.turn}
    <3>1. 2 * me.strm.turn \in Docs
      BY <1>0 DEF Docs
    <3> QED BY <1>0, <3>1, FieldFacts
  <2>a. me' = [me EXCEPT !.quiet = FALSE, !.ownTurnSettled = TRUE, !.strm = s, !.msgs = m]
    BY <1>0, <2>1 DEF Surfaces
  <2> HIDE DEF m, s
  <2>b. [me EXCEPT !.quiet = FALSE, !.ownTurnSettled = TRUE, !.strm = s, !.msgs = m] \in Surfaces
    BY <1>0, <2>2, <2>3 DEF Surfaces
  <2>4. /\ me'.ops = me.ops /\ me'.surface = me.surface /\ me'.seeded = me.seeded
        /\ me'.msgs = m /\ me'.stoppingElsewhere = me.stoppingElsewhere /\ me'.sending = me.sending /\ me'.strm = s
    BY <1>0, <2>a DEF Surfaces
  <2> QED BY <1>1, <1>3, <2>2, <2>3, <2>4, <2>a, <2>b, StreamWrites
<1> QED BY <1>2, <1>3

LEMMA StreamLostInv ==
  ASSUME Inv, StreamLost
  PROVE  After
<1> DEFINE t == srv.turn
           c == StreamOver(me)
           d == [c EXCEPT !.ownTurn = FALSE, !.following = TRUE]
           p == Op("check", "check", FALSE)
<1>0. Well(me, MaxOps, t) /\ me \in Surfaces /\ MaxOps \in Nat /\ t \in Nat /\ MaxOps + 1 \in Nat
  BY InvWell
<1>1. srv' = srv /\ (me' = c \/ me' = Add(d, p)) /\ MayFail /\ faults' = faults + 1
  BY Zenon DEF StreamLost
<1>2. Well(c, MaxOps, t) /\ Keeps(me, c)
  BY <1>0, StreamOverWell
<1> HIDE DEF c
<1>3. d \in Surfaces /\ Same(c, d) /\ d.ops = c.ops
  BY <1>2 DEF Well, Surfaces, Same
<1> HIDE DEF d
<1>4. Well(d, MaxOps, t) /\ Keeps(c, d)
  BY <1>0, <1>2, <1>3, SameWell
<1>5. Joins(d, p)
  BY <1>3, OpJoins DEF Ops, Pcs
<1> HIDE DEF p
<1>6. Well(Add(d, p), MaxOps + 1, t) /\ Keeps(d, Add(d, p))
  BY <1>0, <1>4, <1>5, AddWell
<1>7. Well(c, MaxOps + 1, t)
  BY <1>0, <1>2, WellMore
<1>8. Well(me', MaxOps + 1, t) /\ Keeps(me, me')
  BY <1>1, <1>2, <1>4, <1>6, <1>7 DEF Keeps
<1>9. LoopStep(me, me') /\ SeedStep(me, me')
  BY <1>0, <1>8, KeepsStep
<1> QED BY <1>0, <1>1, <1>8, <1>9, FaultStep

LEMMA LinkStallsInv ==
  ASSUME Inv, LinkStalls
  PROVE  After
<1> DEFINE t == srv.turn
           s == [me.strm EXCEPT !.dead = TRUE]
<1>0. Well(me, MaxOps, t) /\ me \in Surfaces /\ MaxOps \in Nat /\ t \in Nat /\ me.strm \in StreamRecords
  BY InvWell, FieldFacts
<1>1. srv' = srv /\ me' = [me EXCEPT !.strm.dead = TRUE] /\ MayFail /\ faults' = faults + 1
  BY DEF LinkStalls
<1>2. s \in StreamRecords /\ s.pc = me.strm.pc /\ s.turn = me.strm.turn /\ s.cur = me.strm.cur
  BY <1>0 DEF StreamRecords
<1>3. me' = [me EXCEPT !.strm = s]
  BY <1>0, <1>1 DEF Surfaces
<1> HIDE DEF s
<1>4. /\ me' \in Surfaces /\ me'.ops = me.ops /\ me'.surface = me.surface /\ me'.seeded = me.seeded
      /\ me'.msgs = me.msgs /\ me'.stoppingElsewhere = me.stoppingElsewhere /\ me'.sending = me.sending /\ me'.strm = s
  BY <1>0, <1>2, <1>3 DEF Surfaces
<1>5. Rest(me', t) /\ Held(me') /\ Room(me'.ops, MaxOps) /\ Keeps(me, me')
  BY <1>0, <1>2, <1>4 DEF Well, Rest, Places, Stopping, Chain, Seeds, Behind, Held, Keeps, HasLoop
<1>6. Well(me', MaxOps, t)
  BY <1>4, <1>5 DEF Well
<1>7. LoopStep(me, me') /\ SeedStep(me, me')
  BY <1>0, <1>5, KeepsStep
<1>8. srv' = srv /\ MayFail /\ faults' = faults + 1
  BY <1>1
<1> QED BY <1>0, <1>6, <1>7, <1>8, FaultStep

LEMMA SilenceInv ==
  ASSUME Inv, Silence
  PROVE  After
<1>0. Well(me, MaxOps, srv.turn) /\ me \in Surfaces /\ MaxOps \in Nat /\ srv.turn \in Nat
  BY InvWell
<1>1. UNCHANGED <<srv, faults>> /\ me' = [me EXCEPT !.quiet = TRUE]
  BY DEF Silence
<1>2. me' \in Surfaces /\ Same(me, me') /\ me'.ops = me.ops
  BY <1>0, <1>1 DEF Surfaces, Same
<1>3. Well(me', MaxOps, srv.turn) /\ Keeps(me, me')
  BY <1>0, <1>2, SameWell
<1>4. UNCHANGED <<srv, faults>>
  BY <1>1
<1> QED BY <1>0, <1>3, <1>4, KeepsAfter

-----------------------------------------------------------------------------
(* The runtime *)

\* A turn that is stopped is written, and a session that is cleared is empty.
LEMMA StoppedSession ==
  ASSUME NEW s, Session(s)
  PROVE  /\ Session(Stopped(s)) /\ Stopped(s).turn = s.turn
         /\ Session(Cleared(s)) /\ Cleared(s).turn = s.turn
<1>a. s \in Sessions /\ MaxTurns \in Nat /\ Docs \subseteq Nat
  BY DocsFacts DEF Session
<1>b. s.turn \in 0 .. MaxTurns /\ s.doc \in Docs
  BY <1>a DEF Sessions
<1>0. s \in Sessions /\ s.turn \in Nat /\ s.doc \in Nat /\ s.turn <= MaxTurns /\ MaxTurns \in Nat
  <2>1. s.turn \in Nat /\ s.turn <= MaxTurns
    BY <1>a, <1>b
  <2>2. s.doc \in Nat
    BY <1>a, <1>b, Zenon
  <2> QED BY <1>a, <2>1, <2>2
<1>1. Session(Stopped(s)) /\ Stopped(s).turn = s.turn
  <2> DEFINE v == IF s.active THEN 2 * s.turn ELSE s.doc
  <2>1. v \in Docs /\ v <= 2 * s.turn
    BY <1>0 DEF Docs, Session, Sessions
  <2>2. Stopped(s) = [s EXCEPT !.active = FALSE, !.doc = v]
    BY <1>0 DEF Stopped
  <2> HIDE DEF v
  <2>3. Stopped(s) \in Sessions /\ Stopped(s).turn = s.turn /\ Stopped(s).doc = v /\ ~Stopped(s).active
    BY <1>0, <2>1, <2>2 DEF Sessions
  <2> QED BY <2>1, <2>3 DEF Session
<1>2. Session(Cleared(s)) /\ Cleared(s).turn = s.turn
  <2>1. Cleared(s) \in Sessions /\ Cleared(s).turn = s.turn /\ Cleared(s).doc = 0 /\ ~Cleared(s).active
    BY <1>0, DocsFacts DEF Sessions, Cleared
  <2> QED BY <1>0, <2>1 DEF Session
<1> QED BY <1>1, <1>2

\* Only the session moves.
LEMMA ServerStep ==
  ASSUME Inv, UNCHANGED <<me, faults>>, Session(srv'), srv'.turn >= srv.turn
  PROVE  After
<1>0. /\ Well(me, MaxOps, srv.turn) /\ me \in Surfaces /\ MaxOps \in Nat /\ MaxOps + 2 \in Nat /\ srv.turn \in Nat
      /\ srv'.turn \in Nat
  BY InvWell DEF Session, Sessions
<1>1. Well(me, MaxOps, srv'.turn)
  BY <1>0, LaterRest DEF Well
<1>2. Well(me, MaxOps + 2, srv'.turn)
  BY <1>0, <1>1, WellMore
<1>3. Keeps(me, me)
  BY DEF Keeps
<1>4. LoopStep(me, me) /\ SeedStep(me, me)
  BY <1>0, <1>3, KeepsStep
<1> QED BY <1>2, <1>4, InvWell DEF After

LEMMA TurnEndsInv ==
  ASSUME Inv, TurnEnds
  PROVE  After
<1>1. UNCHANGED <<me, faults>> /\ srv' = Stopped(srv)
  BY DEF TurnEnds
<1>2. Session(srv') /\ srv'.turn = srv.turn /\ srv.turn \in Nat
  BY <1>1, InvWell, StoppedSession
<1> QED BY <1>1, <1>2, ServerStep

LEMMA WriteHistoryInv ==
  ASSUME Inv, WriteHistory
  PROVE  After
<1>0. srv \in Sessions /\ srv.turn \in Nat /\ srv.turn <= MaxTurns /\ MaxTurns \in Nat /\ Session(srv) /\ srv.active
  BY InvWell, DocsFacts DEF Session, Sessions, WriteHistory
<1>1. UNCHANGED <<me, faults>> /\ srv' = [srv EXCEPT !.doc = 2 * srv.turn - 1]
  BY DEF WriteHistory
<1>2. srv.turn >= 1
  BY <1>0 DEF Session
<1>3. 2 * srv.turn - 1 \in Docs
  BY <1>0, <1>2 DEF Docs
<1>4. srv' \in Sessions /\ srv'.turn = srv.turn /\ srv'.doc = 2 * srv.turn - 1 /\ srv'.active = srv.active
  BY <1>0, <1>1, <1>3 DEF Sessions
<1>5. Session(srv') /\ srv'.turn >= srv.turn
  BY <1>0, <1>2, <1>4 DEF Session
<1>6. UNCHANGED <<me, faults>>
  BY <1>1
<1> QED BY <1>5, <1>6, ServerStep

LEMMA ElsewhereStartsInv ==
  ASSUME Inv, ElsewhereStarts
  PROVE  After
<1>0. /\ srv \in Sessions /\ srv.turn \in Nat /\ srv.turn < MaxTurns /\ MaxTurns \in Nat /\ Session(srv)
      /\ srv.doc \in Nat /\ srv.doc <= 2 * srv.turn
  BY InvWell, DocsFacts DEF Session, Sessions, ElsewhereStarts, MayStart
<1>1. UNCHANGED <<me, faults>> /\ srv' = [srv EXCEPT !.turn = srv.turn + 1, !.active = TRUE]
  BY DEF ElsewhereStarts
<1>2. srv.turn + 1 \in 0 .. MaxTurns
  BY <1>0
<1>3. srv' \in Sessions /\ srv'.turn = srv.turn + 1 /\ srv'.doc = srv.doc
  BY <1>0, <1>1, <1>2 DEF Sessions
<1>4. Session(srv') /\ srv'.turn >= srv.turn
  BY <1>0, <1>3 DEF Session
<1>5. UNCHANGED <<me, faults>>
  BY <1>1
<1> QED BY <1>4, <1>5, ServerStep

LEMMA InstanceReadyInv ==
  ASSUME Inv, InstanceReady
  PROVE  After
<1>0. srv \in Sessions /\ srv.turn \in Nat /\ Session(srv)
  BY InvWell DEF Session
<1>1. UNCHANGED <<me, faults>> /\ srv' = [srv EXCEPT !.instance = TRUE]
  BY DEF InstanceReady
<1>2. srv' \in Sessions /\ srv'.turn = srv.turn /\ srv'.doc = srv.doc /\ srv'.active = srv.active
  BY <1>0, <1>1 DEF Sessions
<1>3. Session(srv') /\ srv'.turn >= srv.turn
  BY <1>0, <1>2 DEF Session
<1>4. UNCHANGED <<me, faults>>
  BY <1>1
<1> QED BY <1>3, <1>4, ServerStep

\* The requests of `joint` are answered with a and v.
LEMMA AnsweredWell ==
  ASSUME Inv, NEW joint, joint \subseteq me.ops,
         \A p \in joint : p.pc \in {"hist", "refresh", "check", "armed", "abort", "delete"},
         NEW a \in {"ok", "fail"}, NEW v \in Docs, v <= 2 * srv.turn,
         me' = [me EXCEPT !.ops = (@ \ joint) \cup
                  {[p EXCEPT !.ans = a, !.val = v, !.pc = IF @ = "armed" THEN "turn" ELSE @] : p \in joint}]
  PROVE  Well(me', MaxOps, srv.turn) /\ Keeps(me, me')
<1> DEFINE t == srv.turn
           S == (me.ops \ joint) \cup
                  {[p EXCEPT !.ans = a, !.val = v, !.pc = IF @ = "armed" THEN "turn" ELSE @] : p \in joint}
           f == [x \in me.ops |->
                  IF x \in joint THEN [x EXCEPT !.ans = a, !.val = v, !.pc = IF @ = "armed" THEN "turn" ELSE @] ELSE x]
<1>0. Well(me, MaxOps, t) /\ me \in Surfaces /\ MaxOps \in Nat /\ t \in Nat
  BY InvWell
<1>1. S = {f[x] : x \in me.ops} /\ DOMAIN f = me.ops /\ me' = [me EXCEPT !.ops = S]
  OBVIOUS
<1>2. \A x \in me.ops : f[x] \in OpRecords /\ Moves(me, x, f[x], t)
  <2> SUFFICES ASSUME NEW x \in me.ops PROVE f[x] \in OpRecords /\ Moves(me, x, f[x], t)
    OBVIOUS
  <2>1. x \in OpRecords /\ Place(x) /\ x.val <= 2 * t
    BY InvWell
  <2>2. CASE x \in joint
    <3> DEFINE q == [x EXCEPT !.ans = a, !.val = v, !.pc = IF @ = "armed" THEN "turn" ELSE @]
    <3>1. f[x] = q /\ x.pc \in {"hist", "refresh", "check", "armed", "abort", "delete"}
      BY <2>2
    <3>2. q \in OpRecords /\ SameOp(x, q) /\ q.pc = (IF x.pc = "armed" THEN "turn" ELSE x.pc) /\ q.cur = x.cur /\ q.val = v
      BY <2>1 DEF OpRecords, SameOp, Pcs
    <3> HIDE DEF q, f
    <3>3. Place(q)
      BY <2>1, <3>1, <3>2 DEF Place, SameOp
    <3>4. Moves(me, x, q, t)
      BY <3>1, <3>2, <3>3 DEF Moves, StopHeld, SendHeld, SameOp
    <3> QED BY <3>1, <3>2, <3>4
  <2>3. CASE x \notin joint
    <3>1. f[x] = x
      BY <2>3
    <3> QED BY <2>1, <3>1 DEF Moves
  <2> QED BY <2>2, <2>3
<1> HIDE DEF S, f
<1>3. S \subseteq OpRecords
  <2> SUFFICES ASSUME NEW z \in S PROVE z \in OpRecords
    OBVIOUS
  <2>1. PICK x \in me.ops : z = f[x]
    BY <1>1
  <2> QED BY <1>2, <2>1
<1>4. [me EXCEPT !.ops = S] \in Surfaces /\ Same(me, [me EXCEPT !.ops = S]) /\ [me EXCEPT !.ops = S].ops = S
  BY <1>0, <1>3 DEF Surfaces, Same
<1> DEFINE d == [me EXCEPT !.ops = S]
<1>5. me' = d
  BY <1>1
<1>6. d \in Surfaces /\ Same(me, d) /\ d.ops = {f[x] : x \in me.ops}
  BY <1>1, <1>4
<1> HIDE DEF d
<1>7. Well(d, MaxOps, t) /\ Keeps(me, d)
  BY <1>0, <1>1, <1>2, <1>6, MapWell
<1> QED BY <1>5, <1>7

LEMMA AnswerInv ==
  ASSUME Inv, NEW o \in me.ops, Answer(o)
  PROVE  After
<1> DEFINE t == srv.turn
           joint == IF Pane(me) /\ o.pc = "hist" THEN {p \in me.ops : p.pc = "hist"} ELSE {o}
           val == IF o.pc \in {"hist", "refresh"} THEN srv.doc
                  ELSE IF o.pc \in {"check", "armed"} /\ srv.active THEN 1 ELSE 0
           done == IF o.pc = "abort" THEN Stopped(srv) ELSE IF o.pc = "delete" THEN Cleared(srv) ELSE srv
           Answered(a, v) ==
               [me EXCEPT !.ops = (@ \ joint) \cup
                   {[p EXCEPT !.ans = a, !.val = v, !.pc = IF @ = "armed" THEN "turn" ELSE @] : p \in joint}]
<1>0. /\ Well(me, MaxOps, t) /\ me \in Surfaces /\ MaxOps \in Nat /\ MaxOps + 2 \in Nat /\ t \in Nat
      /\ Session(srv) /\ srv \in Sessions /\ MaxTurns \in Nat /\ t <= MaxTurns
  BY InvWell, DocsFacts DEF Session, Sessions
<1>1. /\ o.pc \in {"hist", "refresh", "check", "armed", "abort", "delete"}
      /\ \/ me' = Answered("ok", val) /\ srv' = done /\ faults' = faults
         \/ MayFail /\ faults' = faults + 1 /\ me' = Answered("fail", 0) /\ srv' \in {srv, done}
  BY Zenon DEF Answer
<1>2. joint \subseteq me.ops /\ \A p \in joint : p.pc \in {"hist", "refresh", "check", "armed", "abort", "delete"}
  BY <1>1
<1>3. Session(done) /\ done.turn = t
  BY <1>0, StoppedSession
<1>4. val \in Docs /\ val <= 2 * t
  <2>1. srv.doc \in Docs /\ srv.doc <= 2 * t /\ (srv.active => t >= 1)
    BY <1>0 DEF Session, Sessions
  <2> QED BY <1>0, <2>1 DEF Docs
<1>5. 0 \in Docs /\ 0 <= 2 * t
  BY <1>0, DocsFacts
<1> HIDE DEF joint, val, done
<1>6. Well(me', MaxOps, t) /\ Keeps(me, me')
  <2>1. CASE me' = Answered("ok", val)
    BY <1>2, <1>4, <2>1, AnsweredWell
  <2>2. CASE me' = Answered("fail", 0)
    BY <1>2, <1>5, <2>2, AnsweredWell
  <2> QED BY <1>1, <2>1, <2>2
<1>7. Session(srv') /\ srv'.turn = t /\ faults' \in 0 .. MaxFaults
  BY <1>0, <1>1, <1>3, InvWell, FaultsIs
<1>8. Well(me', MaxOps + 2, t)
  BY <1>0, <1>6, WellMore
<1>9. LoopStep(me, me') /\ SeedStep(me, me')
  BY <1>0, <1>6, KeepsStep
<1> QED BY <1>7, <1>8, <1>9 DEF After

-----------------------------------------------------------------------------
(* The chat tab *)

\* The effect that owes a restore to a selection without an instance.
LEMMA AwaitingInstanceWell ==
  ASSUME NEW b, NEW c, NEW k \in Nat, NEW t \in Nat, Well(c, k, t), k <= MaxOps + 1
  PROVE  LET d == AwaitingInstance(b, c)
         IN  Well(d, k + 1, t) /\ Keeps(c, d) /\ d.seeded = c.seeded
<1> DEFINE e == [c EXCEPT !.awaitingInstance = FALSE]
           p == Op("await", "meta", FALSE)
           d == AwaitingInstance(b, c)
<1>0. c \in Surfaces /\ k + 1 \in Nat /\ k <= k + 1 /\ Keeps(c, c)
  BY DEF Well, Keeps
<1>1. d = c \/ d = Add(e, p)
  BY DEF AwaitingInstance
<1>2. e \in Surfaces /\ Same(c, e) /\ e.ops = c.ops
  BY <1>0 DEF Surfaces, Same
<1> HIDE DEF e, d
<1>3. Well(e, k, t) /\ Keeps(c, e)
  BY <1>2, SameWell
<1>4. Joins(e, p)
  BY <1>2, OpJoins DEF Ops, Pcs
<1> HIDE DEF p
<1>5. Well(Add(e, p), k + 1, t) /\ Keeps(e, Add(e, p))
  BY <1>3, <1>4, AddWell
<1>6. Well(c, k + 1, t)
  BY <1>0, WellMore
<1>7. Well(d, k + 1, t) /\ Keeps(c, d)
  BY <1>0, <1>1, <1>3, <1>5, <1>6 DEF Keeps
<1> QED BY <1>7 DEF Keeps, d

\* A surface that has just been mounted.
LEMMA MountedIs ==
  ASSUME NEW s \in {"pane", "floating"}, NEW t \in Nat
  PROVE  Well(Mounted(s), 0, t) /\ Mounted(s).surface = s /\ Mounted(s).ops = {} /\ ~Mounted(s).seeded
<1> DEFINE c == Mounted(s)
<1>1. c \in Surfaces
  BY DocsFacts, StreamFacts DEF Mounted, Surfaces
<1>2. /\ c.surface = s /\ c.ops = {} /\ ~c.seeded /\ c.msgs = 0 /\ ~c.sending /\ ~c.stoppingElsewhere /\ c.strm.pc = "none"
  BY StreamFacts DEF Mounted
<1> HIDE DEF c
<1>3. Room(c.ops, 0)
  BY <1>2, FS_EmptySet DEF Room
<1>4. Rest(c, t) /\ Held(c)
  BY <1>2 DEF Rest, Places, Stopping, Chain, Seeds, Behind, Held
<1> QED BY <1>1, <1>2, <1>3, <1>4 DEF Well, c

Selected(c, seed) ==
  [CancelInflight(c) EXCEPT !.shown = "agent", !.seeded = seed > 0, !.msgs = seed, !.greet = FALSE, !.notice = "none"]

\* A selection retires what waited and paints the seed; only a surface that has
\* just been mounted is given one.
LEMMA SelectedWell ==
  ASSUME NEW c, NEW k \in Nat, NEW t \in Nat, Well(c, k, t), k <= MaxOps, Pane(c),
         NEW seed \in Docs, seed <= 2 * t, seed > 0 => c.ops = {}
  PROVE  LET s == Selected(c, seed)
             a == Add(s, Op("restore", "meta", FALSE))
         IN  Well(a, k + 1, t) /\ s \in Surfaces /\ Same(s, a) /\ s.surface = "pane" /\ (s.seeded <=> seed > 0)
<1> DEFINE b == CancelInflight(c)
           s == [b EXCEPT !.shown = "agent", !.seeded = seed > 0, !.msgs = seed, !.greet = FALSE, !.notice = "none"]
           p == Op("restore", "meta", FALSE)
<1>0. c \in Surfaces /\ Room(c.ops, k) /\ Rest(c, t) /\ MaxOps \in Nat /\ k <= MaxOps + 1
  BY DocsFacts DEF Well
<1>1. Well(b, k, t)
  BY <1>0, CancelInflightWell
<1>2. b \in Surfaces /\ b.surface = "pane" /\ ~b.sending /\ ~b.stoppingElsewhere /\ b.strm.pc = "none"
  BY <1>0, CancelInflightIs DEF Pane
<1>3. seed > 0 => b.ops = {}
  <2>1. c.ops = {} => Bump(c).ops = {}
    BY <1>0, BumpIs
  <2>2. Bump(c).ops = {} => b.ops = {}
    BY <1>0, CancelInflightIs
  <2> HIDE DEF b
  <2> QED BY <2>1, <2>2
<1> HIDE DEF b
<1>4. PICK g \in BOOLEAN : g = (seed > 0)
  <2>1. seed \in Nat
    BY DocsFacts
  <2>2. (seed > 0) \in BOOLEAN
    BY <2>1
  <2> QED BY <2>2, Zenon
<1>5. s = [b EXCEPT !.shown = "agent", !.seeded = g, !.msgs = seed, !.greet = FALSE, !.notice = "none"]
  BY <1>4
<1>6. g <=> seed > 0
  BY <1>4
<1>7. g \in BOOLEAN
  BY <1>4
<1> HIDE <1>4 DEF s
<1>8. [b EXCEPT !.shown = "agent", !.seeded = g, !.msgs = seed, !.greet = FALSE, !.notice = "none"] \in Surfaces
  BY <1>2, <1>7 DEF Surfaces
<1>9. /\ s.ops = b.ops /\ s.surface = "pane" /\ s.seeded = g /\ s.msgs = seed /\ s.sending = b.sending
      /\ s.stoppingElsewhere = b.stoppingElsewhere /\ s.strm = b.strm
  BY <1>2, <1>5 DEF Surfaces
<1>10. s \in Surfaces
  BY <1>5, <1>8
<1>11. Rest(s, t)
  <2>1. Places(s) /\ Stopping(s) /\ Chain(s)
    BY <1>1, <1>2, <1>9 DEF Well, Rest, Places, Stopping, Chain
  <2>2. Seeds(s)
    BY <1>2, <1>3, <1>6, <1>9 DEF Seeds
  <2>3. Behind(s, t)
    BY <1>1, <1>2, <1>9 DEF Well, Rest, Behind
  <2> QED BY <2>1, <2>2, <2>3 DEF Rest
<1>12. Well(s, k, t)
  BY <1>1, <1>2, <1>9, <1>10, <1>11 DEF Well, Held
<1>13. Joins(s, p)
  BY <1>10, OpJoins DEF Ops, Pcs
<1>14. Well(Add(s, p), k + 1, t) /\ Same(s, Add(s, p))
  BY <1>0, <1>12, <1>13, AddWell
<1>15. s = Selected(c, seed)
  BY DEF s, b, Selected
<1> QED BY <1>6, <1>9, <1>10, <1>14, <1>15 DEF p

LEMMA SelectAgentWell ==
  ASSUME NEW c, NEW k \in Nat, NEW t \in Nat, Well(c, k, t), k <= MaxOps, Pane(c),
         NEW seed \in Docs, seed <= 2 * t, seed > 0 => c.ops = {}
  PROVE  /\ Well(SelectAgent(c, seed), k + 2, t) /\ SelectAgent(c, seed).surface = "pane"
         /\ SelectAgent(c, seed).seeded => seed > 0
<1> DEFINE s == Selected(c, seed)
           a == Add(s, Op("restore", "meta", FALSE))
<1>1. Well(a, k + 1, t) /\ Same(s, a) /\ s.surface = "pane" /\ (s.seeded => seed > 0)
  BY SelectedWell
<1>2. SelectAgent(c, seed) = AwaitingInstance(c, a)
  BY DEF SelectAgent, Selected
<1>3. a.surface = "pane" /\ (a.seeded => seed > 0)
  BY <1>1 DEF Same
<1> HIDE DEF a
<1>4. k + 1 \in Nat /\ k + 1 <= MaxOps + 1 /\ (k + 1) + 1 = k + 2
  BY DocsFacts
<1> DEFINE d == AwaitingInstance(c, a)
<1>5. Well(d, (k + 1) + 1, t) /\ Keeps(a, d)
  BY <1>1, <1>4, AwaitingInstanceWell
<1> HIDE DEF d
<1> QED BY <1>2, <1>3, <1>4, <1>5 DEF Keeps, d

LEMMA PaneSelectAgentInv ==
  ASSUME Inv, PaneSelectAgent
  PROVE  After
<1> DEFINE t == srv.turn
<1>0. Well(me, MaxOps, t) /\ MaxOps \in Nat /\ MaxOps + 2 \in Nat /\ t \in Nat /\ 0 \in Docs /\ MaxOps <= MaxOps
  BY InvWell, DocsFacts
<1>1. UNCHANGED <<srv, faults>> /\ Pane(me) /\ me' = SelectAgent(me, 0)
  BY DEF PaneSelectAgent
<1>2. Well(me', MaxOps + 2, t) /\ me'.surface = "pane" /\ ~me'.seeded
  BY <1>0, <1>1, SelectAgentWell
<1>3. LoopStep(me, me') /\ SeedStep(me, me')
  BY <1>2 DEF LoopStep, SeedStep
<1>4. UNCHANGED <<srv, faults>>
  BY <1>1
<1> QED BY <1>0, <1>2, <1>3, <1>4, MeStep

LEMMA ExpandToPaneInv ==
  ASSUME Inv, ExpandToPane
  PROVE  After
<1> DEFINE t == srv.turn
           c == Mounted("pane")
<1>0. Well(me, MaxOps, t) /\ MaxOps \in Nat /\ MaxOps + 2 \in Nat /\ t \in Nat /\ me \in Surfaces
  BY InvWell
<1>1. UNCHANGED <<srv, faults>> /\ me.surface = "floating" /\ me' = SelectAgent(c, me.msgs)
  BY DEF ExpandToPane, Floating
<1>2. me.msgs \in Docs /\ me.msgs <= 2 * t /\ ~me.seeded
  BY <1>0, <1>1, FieldFacts DEF Well, Rest, Behind, Seeds
<1>3. Well(c, 0, t) /\ c.surface = "pane" /\ c.ops = {}
  BY <1>0, MountedIs
<1> HIDE DEF c
<1>4. Well(me', 0 + 2, t) /\ me'.surface = "pane"
  BY <1>0, <1>1, <1>2, <1>3, SelectAgentWell DEF Pane
<1>5. LoopStep(me, me') /\ SeedStep(me, me')
  BY <1>2, <1>4 DEF LoopStep, SeedStep
<1>6. UNCHANGED <<srv, faults>>
  BY <1>1
<1> QED BY <1>0, <1>4, <1>5, <1>6, MeStep

LEMMA PaneLeaveInv ==
  ASSUME Inv, PaneLeave
  PROVE  After
<1> DEFINE t == srv.turn
<1>0. MaxOps \in Nat /\ t \in Nat
  BY InvWell
<1>1. UNCHANGED <<srv, faults>> /\ me.surface = "pane" /\ me' = Mounted("floating")
  BY DEF PaneLeave, Pane
<1>2. Well(me', 0, t) /\ ~me'.seeded
  BY <1>0, <1>1, MountedIs
<1>3. LoopStep(me, me') /\ SeedStep(me, me')
  BY <1>1, <1>2 DEF LoopStep, SeedStep
<1>4. UNCHANGED <<srv, faults>>
  BY <1>1
<1> QED BY <1>0, <1>2, <1>3, <1>4, MeStep

\* The thread of the model that was selected or cleared is empty.
LEMMA EmptiedWell ==
  ASSUME Inv, NEW d \in Surfaces,
         LET b == CancelInflight(me)
         IN  /\ d.ops = b.ops /\ d.surface = b.surface /\ d.seeded = b.seeded /\ d.sending = b.sending
             /\ d.stoppingElsewhere = b.stoppingElsewhere /\ d.strm = b.strm /\ d.msgs = 0
  PROVE  Well(d, MaxOps, srv.turn) /\ d.surface = me.surface
<1> DEFINE b == CancelInflight(me)
           t == srv.turn
<1>0. me \in Surfaces /\ Room(me.ops, MaxOps) /\ Rest(me, t) /\ MaxOps \in Nat /\ t \in Nat
  BY InvWell DEF Well
<1>1. Well(b, MaxOps, t)
  BY <1>0, CancelInflightWell
<1>2. b \in Surfaces /\ b.surface = me.surface /\ ~b.sending /\ ~b.stoppingElsewhere /\ b.strm.pc = "none"
  BY <1>0, CancelInflightIs
<1> HIDE DEF b
<1>3. /\ d.ops = b.ops /\ d.surface = b.surface /\ d.seeded = b.seeded /\ d.sending = b.sending
      /\ d.stoppingElsewhere = b.stoppingElsewhere /\ d.strm = b.strm /\ d.msgs = 0
  BY DEF b
<1>4. Rest(d, t) /\ Held(d)
  BY <1>0, <1>1, <1>2, <1>3 DEF Well, Rest, Places, Stopping, Chain, Seeds, Behind, Held
<1> QED BY <1>1, <1>2, <1>3, <1>4 DEF Well

LEMMA PaneSelectModelInv ==
  ASSUME Inv, PaneSelectModel
  PROVE  After
<1> DEFINE t == srv.turn
           b == CancelInflight(me)
<1>0. MaxOps \in Nat /\ t \in Nat /\ me \in Surfaces /\ 0 \in Docs
  BY InvWell, DocsFacts
<1>1. UNCHANGED <<srv, faults>> /\ me.surface = "pane" /\ me' = [b EXCEPT !.shown = "model", !.msgs = 0, !.greet = FALSE]
  BY DEF PaneSelectModel, Pane
<1>2. b \in Surfaces
  BY <1>0, CancelInflightIs
<1> HIDE DEF b
<1>3. /\ me' \in Surfaces /\ me'.ops = b.ops /\ me'.surface = b.surface /\ me'.seeded = b.seeded /\ me'.sending = b.sending
      /\ me'.stoppingElsewhere = b.stoppingElsewhere /\ me'.strm = b.strm /\ me'.msgs = 0 /\ me'.shown = "model"
  <2>1. [b EXCEPT !.shown = "model", !.msgs = 0, !.greet = FALSE] \in Surfaces
    BY <1>0, <1>2 DEF Surfaces
  <2>2. me' \in Surfaces
    BY <1>1, <2>1
  <2>3. /\ me'.ops = b.ops /\ me'.surface = b.surface /\ me'.seeded = b.seeded /\ me'.sending = b.sending
        /\ me'.stoppingElsewhere = b.stoppingElsewhere /\ me'.strm = b.strm /\ me'.msgs = 0 /\ me'.shown = "model"
    BY <1>1, <1>2 DEF Surfaces
  <2> QED BY <2>2, <2>3
<1>4. Well(me', MaxOps, t) /\ me'.surface = me.surface
  BY <1>3, EmptiedWell DEF b
<1>5. LoopStep(me, me') /\ SeedStep(me, me')
  BY <1>1, <1>3 DEF LoopStep, SeedStep
<1>6. UNCHANGED <<srv, faults>>
  BY <1>1
<1> QED BY <1>0, <1>4, <1>5, <1>6, MeStep

LEMMA PaneClearChatInv ==
  ASSUME Inv, PaneClearChat
  PROVE  After
<1> DEFINE t == srv.turn
           b == CancelInflight(me)
<1>0. MaxOps \in Nat /\ t \in Nat /\ me \in Surfaces /\ 0 \in Docs
  BY InvWell, DocsFacts
<1>1. /\ UNCHANGED <<srv, faults>> /\ me.surface = "pane" /\ me.shown = "model"
      /\ me' = [b EXCEPT !.msgs = 0, !.greet = FALSE]
  BY DEF PaneClearChat, Pane
<1>2. b \in Surfaces
  BY <1>0, CancelInflightIs
<1> HIDE DEF b
<1>3. /\ me' \in Surfaces /\ me'.ops = b.ops /\ me'.surface = b.surface /\ me'.seeded = b.seeded /\ me'.sending = b.sending
      /\ me'.stoppingElsewhere = b.stoppingElsewhere /\ me'.strm = b.strm /\ me'.msgs = 0
  <2>1. [b EXCEPT !.msgs = 0, !.greet = FALSE] \in Surfaces
    BY <1>0, <1>2 DEF Surfaces
  <2>2. me' \in Surfaces
    BY <1>1, <2>1
  <2>3. /\ me'.ops = b.ops /\ me'.surface = b.surface /\ me'.seeded = b.seeded /\ me'.sending = b.sending
        /\ me'.stoppingElsewhere = b.stoppingElsewhere /\ me'.strm = b.strm /\ me'.msgs = 0
    BY <1>1, <1>2 DEF Surfaces
  <2> QED BY <2>2, <2>3
<1>4. Well(me', MaxOps, t) /\ me'.surface = me.surface
  BY <1>3, EmptiedWell DEF b
<1>5. LoopStep(me, me') /\ SeedStep(me, me')
  BY <1>1, <1>4 DEF LoopStep, SeedStep
<1>6. UNCHANGED <<srv, faults>>
  BY <1>1
<1> QED BY <1>0, <1>4, <1>5, <1>6, MeStep

LEMMA PaneRefreshAgentStatusInv ==
  ASSUME Inv, PaneRefreshAgentStatus
  PROVE  After
<1> DEFINE t == srv.turn
           c == [me EXCEPT !.agentReady = TRUE]
           d == AwaitingInstance(me, c)
<1>0. Well(me, MaxOps, t) /\ me \in Surfaces /\ MaxOps \in Nat /\ MaxOps + 1 \in Nat /\ t \in Nat
  BY InvWell
<1>1. UNCHANGED <<srv, faults>> /\ me' = d
  BY DEF PaneRefreshAgentStatus
<1>2. c \in Surfaces /\ Same(me, c) /\ c.ops = me.ops
  BY <1>0 DEF Surfaces, Same
<1> HIDE DEF c
<1>3. Well(c, MaxOps, t) /\ Keeps(me, c)
  BY <1>0, <1>2, SameWell
<1>4. Well(d, MaxOps + 1, t) /\ Keeps(c, d)
  BY <1>0, <1>3, AwaitingInstanceWell
<1> HIDE DEF d
<1>5. Well(me', MaxOps + 1, t) /\ Keeps(me, me')
  BY <1>1, <1>3, <1>4 DEF Keeps
<1> QED BY <1>0, <1>1, <1>5, KeepsAfter

\* The answer of the meta read, and what it cost.
LEMMA MetaIs ==
  ASSUME Inv, NEW found \in {srv.instance} \cup (IF MayFail THEN {FALSE} ELSE {}),
         faults' = IF found = srv.instance THEN faults ELSE faults + 1
  PROVE  found \in BOOLEAN /\ (faults' = faults \/ (MayFail /\ faults' = faults + 1))
<1>1. srv.instance \in BOOLEAN
  BY InvWell DEF Session, Sessions
<1> QED BY <1>1

LEMMA PaneMetaLandsInv ==
  ASSUME Inv, NEW o \in me.ops, PaneMetaLands(o)
  PROVE  After
<1> DEFINE t == srv.turn
           p == [o EXCEPT !.cur = TRUE]
           C(f) == [me EXCEPT !.agentReady = @ \/ f]
           Y(f) == [C(f) EXCEPT !.awaitingInstance = FALSE]
           N(f) == [C(f) EXCEPT !.awaitingInstance = TRUE]
<1>0. /\ Well(me, MaxOps, t) /\ me \in Surfaces /\ MaxOps \in Nat /\ MaxOps + 1 \in Nat /\ t \in Nat
      /\ o \in OpRecords /\ Place(o) /\ o.val <= 2 * t
  BY InvWell
<1>1. PICK found \in {srv.instance} \cup (IF MayFail THEN {FALSE} ELSE {}) :
        /\ faults' = IF found = srv.instance THEN faults ELSE faults + 1
        /\ me' = AwaitingInstance(me,
                     IF o.op = "restore"
                     THEN IF found THEN LoadAgentHistory(Y(found), o) ELSE Put(N(found), o, At(o, "greetEnd"))
                     ELSE LoadAgentHistory(Put(C(found), o, p), p))
  BY Zenon DEF PaneMetaLands
<1>2. found \in BOOLEAN /\ (faults' = faults \/ (MayFail /\ faults' = faults + 1))
  BY <1>1, MetaIs
<1>3. o.pc = "meta" /\ srv' = srv
  BY DEF PaneMetaLands
<1>4. o.op \in {"restore", "await", "clear", "reload"}
  BY <1>0, <1>3, OpFacts DEF Place, Ops
<1> DEFINE c == C(found)
           y == Y(found)
           n == N(found)
<1>5. c \in Surfaces /\ Same(me, c) /\ c.ops = me.ops
  <2>1. PICK b \in BOOLEAN : b = (me.agentReady \/ found)
    OBVIOUS
  <2>2. c = [me EXCEPT !.agentReady = b]
    BY <2>1
  <2> HIDE <2>1 DEF c
  <2> QED BY <1>0, <2>2 DEF Surfaces, Same
<1> HIDE DEF C
<1>6. y \in Surfaces /\ Same(c, y) /\ y.ops = c.ops /\ n \in Surfaces /\ Same(c, n) /\ n.ops = c.ops
  <2> HIDE DEF c
  <2>1. y = [c EXCEPT !.awaitingInstance = FALSE] /\ n = [c EXCEPT !.awaitingInstance = TRUE]
    BY DEF c
  <2> HIDE DEF y, n
  <2> QED BY <1>5, <2>1 DEF Surfaces, Same
<1> DEFINE g == At(o, "greetEnd")
           x == IF o.op = "restore"
                THEN IF found THEN LoadAgentHistory(y, o) ELSE Put(n, o, g)
                ELSE LoadAgentHistory(Put(c, o, p), p)
           d == AwaitingInstance(me, x)
<1>7. me' = d
  BY <1>1
<1> HIDE DEF c, y, n
<1>8. Well(c, MaxOps, t) /\ Keeps(me, c)
  BY <1>0, <1>5, SameWell
<1>9. Well(y, MaxOps, t) /\ Keeps(c, y) /\ Well(n, MaxOps, t) /\ Keeps(c, n) /\ y.ops = me.ops /\ n.ops = me.ops /\ c.ops = me.ops
  BY <1>0, <1>5, <1>6, <1>8, SameWell
<1>10. ~StopHeld(o) /\ ~SendHeld(o) /\ ~Looping(o) /\ o.op \in Reads
  BY <1>4 DEF StopHeld, SendHeld, Looping, Reads
<1>11. Well(LoadAgentHistory(y, o), MaxOps, t) /\ Keeps(y, LoadAgentHistory(y, o))
  BY <1>0, <1>9, <1>10, LoadAgentHistoryWell
<1>12. ASSUME o.op = "restore" PROVE Well(Put(n, o, g), MaxOps, t) /\ Keeps(n, Put(n, o, g))
  <2>1. g \in OpRecords /\ SameOp(o, g) /\ g.pc = "greetEnd" /\ g.val = 0
    <3>1. "greetEnd" \in Pcs
      BY DEF Pcs
    <3> QED BY <1>0, <3>1, AtIs
  <2> HIDE DEF g
  <2>2. GoesOn(n, o, g, t)
    BY <1>0, <1>10, <1>12, <2>1 DEF GoesOn, Place, SameOp, StopHeld
  <2> QED BY <1>0, <1>9, <2>2, PutWell
<1>13. Well(LoadAgentHistory(Put(c, o, p), p), MaxOps, t) /\ Keeps(c, LoadAgentHistory(Put(c, o, p), p))
  <2>1. p \in OpRecords /\ SameOp(o, p) /\ p.pc = "meta" /\ p.val = o.val
    BY <1>0, <1>3 DEF OpRecords, SameOp
  <2> HIDE DEF p
  <2>2. Place(p)
    BY <1>0, <1>3, <2>1 DEF Place, SameOp
  <2>3. GoesOn(c, o, p, t)
    BY <1>0, <1>10, <2>1, <2>2 DEF GoesOn, SameOp, StopHeld
  <2>4. Well(Put(c, o, p), MaxOps, t) /\ Keeps(c, Put(c, o, p))
    BY <1>0, <1>8, <1>9, <2>3, PutWell
  <2>5. p \in Put(c, o, p).ops /\ p.op \in Reads /\ ~StopHeld(p)
    BY <1>5, <1>10, <2>1, PutIs DEF SameOp, StopHeld
  <2>6. Well(LoadAgentHistory(Put(c, o, p), p), MaxOps, t) /\ Keeps(Put(c, o, p), LoadAgentHistory(Put(c, o, p), p))
    BY <1>0, <2>4, <2>5, LoadAgentHistoryWell
  <2> QED BY <2>4, <2>6 DEF Keeps
<1>14. Well(x, MaxOps, t) /\ Keeps(me, x)
  <2>1. CASE o.op = "restore" /\ found
    <3>1. x = LoadAgentHistory(y, o)
      BY <2>1
    <3> HIDE DEF x
    <3> QED BY <1>8, <1>9, <1>11, <3>1 DEF Keeps
  <2>2. CASE o.op = "restore" /\ ~found
    <3>1. x = Put(n, o, g)
      BY <2>2
    <3> HIDE DEF x, g
    <3> QED BY <1>8, <1>9, <1>12, <2>2, <3>1 DEF Keeps
  <2>3. CASE o.op # "restore"
    <3>1. x = LoadAgentHistory(Put(c, o, p), p)
      BY <2>3
    <3> HIDE DEF x, p
    <3> QED BY <1>8, <1>13, <3>1 DEF Keeps
  <2> QED BY <2>1, <2>2, <2>3
<1> HIDE DEF x
<1>15. Well(d, MaxOps + 1, t) /\ Keeps(x, d)
  BY <1>0, <1>14, AwaitingInstanceWell
<1> HIDE DEF d
<1>16. Well(me', MaxOps + 1, t) /\ Keeps(me, me')
  BY <1>7, <1>14, <1>15 DEF Keeps
<1>17. LoopStep(me, me') /\ SeedStep(me, me')
  BY <1>0, <1>16, KeepsStep
<1> QED BY <1>0, <1>2, <1>3, <1>16, <1>17, FaultStep

\* A thread that is no longer held as handed over.
LEMMA UnseededWell ==
  ASSUME NEW c, NEW k \in Nat, NEW t \in Nat, Well(c, k, t), NEW d \in Surfaces, d.ops = c.ops,
         d.surface = c.surface, d.msgs = c.msgs, d.sending = c.sending, d.stoppingElsewhere = c.stoppingElsewhere,
         d.strm = c.strm, d.seeded => c.seeded
  PROVE  Well(d, k, t)
BY DEF Well, Rest, Places, Stopping, Chain, Seeds, Behind, Held

\* A restore goes on to greet, or to ask whether a turn runs.
LEMMA AtGoesOn ==
  ASSUME NEW c, NEW t \in Nat, NEW o \in OpRecords, o.op \in {"restore", "await", "clear"},
         NEW pc \in {"greet", "check"}, pc = "check" => ~c.seeded
  PROVE  GoesOn(c, o, At(o, pc), t)
<1> DEFINE p == At(o, pc)
<1>1. p \in OpRecords /\ SameOp(o, p) /\ p.pc = pc /\ p.cur = o.cur /\ p.val = 0
  <2>1. pc \in Pcs
    BY DEF Pcs
  <2> QED BY <2>1, AtIs
<1> HIDE DEF p
<1>2. Place(p)
  BY <1>1 DEF Place, SameOp
<1> QED BY <1>1, <1>2 DEF GoesOn, SameOp, StopHeld, SendHeld, p

LEMMA PaneRestoresInv ==
  ASSUME Inv, NEW o \in me.ops, PaneRestores(o)
  PROVE  After
<1> DEFINE t == srv.turn
           c == [me EXCEPT !.seeded = FALSE]
<1>0. Well(me, MaxOps, t) /\ me \in Surfaces /\ MaxOps \in Nat /\ t \in Nat /\ o \in OpRecords
  BY InvWell
<1>1. /\ UNCHANGED <<srv, faults>> /\ me.surface = "pane" /\ o.op \in {"restore", "await", "clear"}
      /\ \/ me' = Drop(me, o) \/ me' = Put(me, o, At(o, "greet")) \/ me' = Put(c, o, At(o, "check"))
  BY DEF PaneRestores, RestoreAgentSession, Pane
<1>2. CASE me' = Drop(me, o)
  BY <1>1, <1>2, DroppedInv DEF StopHeld, SendHeld, Looping
<1>3. CASE me' = Put(me, o, At(o, "greet"))
  <2>1. GoesOn(me, o, At(o, "greet"), t)
    BY <1>0, <1>1, AtGoesOn
  <2>2. Well(me', MaxOps, t) /\ Keeps(me, me')
    BY <1>0, <1>3, <2>1, PutWell
  <2> QED BY <1>0, <1>1, <2>2, KeepsAfter
<1>4. CASE me' = Put(c, o, At(o, "check"))
  <2>1. /\ c \in Surfaces /\ c.ops = me.ops /\ c.surface = me.surface /\ c.msgs = me.msgs /\ c.sending = me.sending
        /\ c.stoppingElsewhere = me.stoppingElsewhere /\ c.strm = me.strm /\ ~c.seeded
    BY <1>0 DEF Surfaces
  <2> HIDE DEF c
  <2>2. Well(c, MaxOps, t)
    BY <1>0, <2>1, UnseededWell
  <2>3. GoesOn(c, o, At(o, "check"), t)
    BY <1>0, <1>1, <2>1, AtGoesOn
  <2>4. Well(me', MaxOps, t) /\ Keeps(c, me')
    BY <1>0, <1>4, <2>1, <2>2, <2>3, PutWell
  <2>5. LoopStep(me, me') /\ SeedStep(me, me')
    BY <1>1, <2>1, <2>4 DEF LoopStep, SeedStep, Keeps
  <2> QED BY <1>0, <1>1, <2>4, <2>5, MeStep
<1> QED BY <1>1, <1>2, <1>3, <1>4

LEMMA PaneGreetsInv ==
  ASSUME Inv, NEW o \in me.ops, PaneGreets(o)
  PROVE  After
<1> DEFINE t == srv.turn
           g == Greet(me)
           c == [g EXCEPT !.seeded = @ /\ o.pc = "greetEnd"]
<1>0. Well(me, MaxOps, t) /\ me \in Surfaces /\ MaxOps \in Nat /\ t \in Nat /\ o \in OpRecords /\ Place(o)
  BY InvWell
<1>1. /\ UNCHANGED <<srv, faults>> /\ me.surface = "pane" /\ o.pc \in {"greet", "greetEnd"}
      /\ \/ me' = Drop(c, o) \/ (o.pc = "greet" /\ me' = Put(c, o, At(o, "check")))
  BY DEF PaneGreets, Pane
<1>2. o.op \in {"restore", "await", "clear"}
  BY <1>0, <1>1, OpFacts DEF Place, Ops
<1>3. Well(g, MaxOps, t) /\ g.ops = me.ops /\ g.greet /\ g.surface = me.surface /\ g.seeded = me.seeded
  BY <1>0, GreetWell
<1>a. g \in Surfaces
  BY <1>0, GreetIs
<1> HIDE DEF g
<1>4. /\ c \in Surfaces /\ c.ops = g.ops /\ c.surface = g.surface /\ c.msgs = g.msgs /\ c.sending = g.sending
      /\ c.stoppingElsewhere = g.stoppingElsewhere /\ c.strm = g.strm /\ c.greet = g.greet
      /\ (c.seeded => g.seeded) /\ (o.pc = "greet" => ~c.seeded)
  <2>1. PICK b \in BOOLEAN : b = (g.seeded /\ o.pc = "greetEnd")
    OBVIOUS
  <2>2. c = [g EXCEPT !.seeded = b]
    BY <2>1
  <2>3. (b => g.seeded) /\ (o.pc = "greet" => ~b)
    BY <2>1
  <2> HIDE <2>1 DEF c
  <2>4. /\ c \in Surfaces /\ c.ops = g.ops /\ c.surface = g.surface /\ c.msgs = g.msgs /\ c.sending = g.sending
        /\ c.stoppingElsewhere = g.stoppingElsewhere /\ c.strm = g.strm /\ c.greet = g.greet /\ c.seeded = b
    BY <1>a, <2>2 DEF Surfaces
  <2> QED BY <2>3, <2>4
<1> HIDE DEF c
<1>5. Well(c, MaxOps, t)
  BY <1>0, <1>3, <1>4, UnseededWell
<1>6. Well(me', MaxOps, t)
  <2>1. CASE me' = Drop(c, o)
    BY <1>0, <1>2, <1>5, <2>1, DropWell DEF StopHeld, SendHeld, Looping
  <2>2. CASE o.pc = "greet" /\ me' = Put(c, o, At(o, "check"))
    <3>1. GoesOn(c, o, At(o, "check"), t)
      BY <1>0, <1>2, <1>4, <2>2, AtGoesOn
    <3> QED BY <1>0, <1>3, <1>4, <1>5, <2>2, <3>1, PutWell
  <2> QED BY <1>1, <2>1, <2>2
<1>7. me'.greet
  <2>1. me'.greet = c.greet
    BY <1>1, <1>4 DEF Drop, Put, Surfaces
  <2> QED BY <1>3, <1>4, <2>1
<1>8. LoopStep(me, me') /\ SeedStep(me, me')
  BY <1>1, <1>7 DEF LoopStep, SeedStep
<1> QED BY <1>0, <1>1, <1>6, <1>8, MeStep

LEMMA ClearAgentSessionInv ==
  ASSUME Inv, ClearAgentSession
  PROVE  After
<1> DEFINE p == Op("clear", "delete", FALSE)
<1>0. Well(me, MaxOps, srv.turn) /\ me \in Surfaces /\ MaxOps \in Nat /\ srv.turn \in Nat /\ MaxOps + 1 \in Nat
  BY InvWell
<1>1. UNCHANGED <<srv, faults>> /\ me' = Add(me, p) /\ Pane(me)
  BY DEF ClearAgentSession
<1>2. Joins(me, p)
  BY <1>0, <1>1, OpJoins DEF Ops, Pcs
<1> HIDE DEF p
<1>3. Well(me', MaxOps + 1, srv.turn) /\ Keeps(me, me')
  BY <1>0, <1>1, <1>2, AddWell
<1> QED BY <1>0, <1>1, <1>3, KeepsAfter

LEMMA ClearLandsInv ==
  ASSUME Inv, NEW o \in me.ops, ClearLands(o)
  PROVE  After
<1> DEFINE t == srv.turn
           d == Drop(me, o)
           c == CancelInflight(d)
           p == Op("clear", "meta", FALSE)
<1>0. Well(me, MaxOps, t) /\ me \in Surfaces /\ MaxOps \in Nat /\ MaxOps + 1 \in Nat /\ t \in Nat
  BY InvWell
<1>1. UNCHANGED <<srv, faults>> /\ o.op = "clear" /\ (me' = Drop(me, o) \/ me' = Add(c, p))
  BY DEF ClearLands
<1>2. ~StopHeld(o) /\ ~SendHeld(o) /\ ~Looping(o)
  BY <1>1 DEF StopHeld, SendHeld, Looping
<1>3. CASE me' = Drop(me, o)
  BY <1>1, <1>2, <1>3, DroppedInv
<1>4. CASE me' = Add(c, p)
  <2>1. me.surface = "pane"
    BY <1>0, <1>1, FieldFacts DEF Well, Rest, Chain
  <2>2. Well(d, MaxOps, t) /\ Keeps(me, d)
    BY <1>0, <1>2, DropWell
  <2> HIDE DEF d
  <2>3. Well(c, MaxOps, t)
    BY <1>0, <2>2, CancelInflightWell DEF Well
  <2>4. c \in Surfaces /\ c.surface = d.surface /\ c.seeded = d.seeded /\ c.msgs = d.msgs
    BY <2>2, CancelInflightIs DEF Well
  <2> HIDE DEF c
  <2>5. Joins(c, p)
    BY <2>1, <2>2, <2>4, OpJoins DEF Ops, Pcs, Pane, Keeps
  <2> HIDE DEF p
  <2>6. Well(me', MaxOps + 1, t) /\ Keeps(c, me')
    BY <1>0, <1>4, <2>3, <2>5, AddWell
  <2>7. LoopStep(me, me') /\ SeedStep(me, me')
    <3>1. me.msgs \in Nat
      BY <1>0, Numbers
    <3> QED BY <2>1, <2>2, <2>4, <2>6, <3>1 DEF LoopStep, SeedStep, Keeps
  <2> QED BY <1>0, <1>1, <2>6, <2>7, MeStep
<1> QED BY <1>1, <1>3, <1>4

-----------------------------------------------------------------------------
(* The floating panel *)

\* The panel reads the history it owes when the instance is up.
LEMMA FloatAwaitingInstanceWell ==
  ASSUME NEW b, NEW c, NEW k \in Nat, NEW t \in Nat, Well(c, k, t), k <= MaxOps + 1
  PROVE  LET d == FloatAwaitingInstance(b, c)
         IN  Well(d, k + 1, t) /\ Keeps(c, d)
<1> DEFINE e == [c EXCEPT !.awaitingInstance = FALSE]
           p == Op("reload", "meta", FALSE)
           r == Add(e, p)
           q == CHOOSE o \in r.ops : o.op = "reload" /\ o.pc = "meta"
           d == FloatAwaitingInstance(b, c)
<1>0. c \in Surfaces /\ k + 1 \in Nat /\ k <= k + 1 /\ Keeps(c, c)
  BY DEF Well, Keeps
<1>1. d = c \/ d = LoadAgentHistory(r, q)
  BY Zenon DEF FloatAwaitingInstance
<1>2. e \in Surfaces /\ Same(c, e) /\ e.ops = c.ops
  BY <1>0 DEF Surfaces, Same
<1> HIDE DEF e, d
<1>3. Well(e, k, t) /\ Keeps(c, e)
  BY <1>2, SameWell
<1>4. Joins(e, p)
  BY <1>2, OpJoins DEF Ops, Pcs
<1>5. p \in OpRecords /\ p.op = "reload" /\ p.pc = "meta"
  <2>1. "reload" \in Ops /\ "meta" \in Pcs
    BY DEF Ops, Pcs
  <2> QED BY <2>1, OpIs
<1> HIDE DEF p
<1>6. Well(r, k + 1, t) /\ Keeps(e, r)
  BY <1>3, <1>4, AddWell
<1>7. q \in r.ops /\ q.op = "reload"
  <2>1. Room(e.ops, MaxOps + 1)
    BY <1>3, DocsFacts DEF Well, Room
  <2>2. PICK n \in 1 .. MaxOps + 2 : r.ops = e.ops \cup {[p EXCEPT !.n = n]}
    BY <1>2, <1>5, <2>1, AddIs
  <2>3. [p EXCEPT !.n = n].op = "reload" /\ [p EXCEPT !.n = n].pc = "meta"
    BY <1>5, NumberedIs
  <2> HIDE DEF r
  <2>4. \E o \in r.ops : o.op = "reload" /\ o.pc = "meta"
    BY <2>2, <2>3
  <2> QED BY <2>4, Zenon
<1> HIDE DEF q, r
<1>8. Well(LoadAgentHistory(r, q), k + 1, t) /\ Keeps(r, LoadAgentHistory(r, q))
  BY <1>0, <1>6, <1>7, LoadAgentHistoryWell DEF Reads, StopHeld
<1>9. Well(c, k + 1, t)
  BY <1>0, WellMore
<1>10. Well(d, k + 1, t) /\ Keeps(c, d)
  BY <1>0, <1>1, <1>3, <1>6, <1>8, <1>9 DEF Keeps
<1> QED BY <1>10 DEF d

LEMMA OpenPanelInv ==
  ASSUME Inv, OpenPanel
  PROVE  After
<1> DEFINE t == srv.turn
           c == [me EXCEPT !.shown = "agent", !.loaded = TRUE]
           p == Op("restore", "meta", ~me.loaded)
           a == Add(c, p)
           d == FloatAwaitingInstance(me, a)
<1>0. /\ Well(me, MaxOps, t) /\ me \in Surfaces /\ MaxOps \in Nat /\ MaxOps + 1 \in Nat /\ MaxOps + 2 \in Nat /\ t \in Nat
      /\ MaxOps + 1 <= MaxOps + 1 /\ (MaxOps + 1) + 1 = MaxOps + 2
  BY InvWell
<1>1. UNCHANGED <<srv, faults>> /\ me' = d
  BY DEF OpenPanel
<1>2. c \in Surfaces /\ Same(me, c) /\ c.ops = me.ops
  BY <1>0 DEF Surfaces, Same
<1> HIDE DEF c
<1>3. Well(c, MaxOps, t) /\ Keeps(me, c)
  BY <1>0, <1>2, SameWell
<1>4. Joins(c, p)
  <2>1. (~me.loaded) \in BOOLEAN
    OBVIOUS
  <2> QED BY <1>2, <2>1, OpJoins DEF Ops, Pcs
<1> HIDE DEF p
<1>5. Well(a, MaxOps + 1, t) /\ Keeps(c, a)
  BY <1>0, <1>3, <1>4, AddWell
<1> HIDE DEF a
<1>6. Well(d, (MaxOps + 1) + 1, t) /\ Keeps(a, d)
  BY <1>0, <1>5, FloatAwaitingInstanceWell
<1> HIDE DEF d
<1>7. Well(me', MaxOps + 2, t) /\ Keeps(me, me')
  BY <1>0, <1>1, <1>3, <1>5, <1>6 DEF Keeps
<1> QED BY <1>0, <1>1, <1>7, KeepsAfter

LEMMA ClosePanelInv ==
  ASSUME Inv, ClosePanel
  PROVE  After
<1> DEFINE t == srv.turn
           c == [me EXCEPT !.shown = "none"]
<1>0. Well(me, MaxOps, t) /\ me \in Surfaces /\ MaxOps \in Nat /\ t \in Nat
  BY InvWell
<1>1. UNCHANGED <<srv, faults>> /\ me' = StopFollowing(c)
  BY DEF ClosePanel
<1>2. c \in Surfaces /\ Same(me, c) /\ c.ops = me.ops /\ c.shown = "none"
  BY <1>0 DEF Surfaces, Same
<1> HIDE DEF c
<1>3. Well(c, MaxOps, t)
  BY <1>0, <1>2, SameWell
<1>4. Well(me', MaxOps, t)
  BY <1>0, <1>1, <1>2, <1>3, StopFollowingIs, StopFollowingRest DEF Well
<1>5. me'.shown = "none"
  BY <1>1, <1>2 DEF StopFollowing, Surfaces
<1>6. LoopStep(me, me') /\ SeedStep(me, me')
  BY <1>5 DEF LoopStep, SeedStep
<1> QED BY <1>0, <1>1, <1>4, <1>6, MeStep

LEMMA FloatRefreshAgentStatusInv ==
  ASSUME Inv, FloatRefreshAgentStatus
  PROVE  After
<1> DEFINE t == srv.turn
           c == [me EXCEPT !.agentReady = TRUE]
           d == FloatAwaitingInstance(me, c)
<1>0. Well(me, MaxOps, t) /\ me \in Surfaces /\ MaxOps \in Nat /\ MaxOps + 1 \in Nat /\ t \in Nat
  BY InvWell
<1>1. UNCHANGED <<srv, faults>> /\ me' = d
  BY DEF FloatRefreshAgentStatus
<1>2. c \in Surfaces /\ Same(me, c) /\ c.ops = me.ops
  BY <1>0 DEF Surfaces, Same
<1> HIDE DEF c
<1>3. Well(c, MaxOps, t) /\ Keeps(me, c)
  BY <1>0, <1>2, SameWell
<1>4. Well(d, MaxOps + 1, t) /\ Keeps(c, d)
  BY <1>0, <1>3, FloatAwaitingInstanceWell
<1> HIDE DEF d
<1>5. Well(me', MaxOps + 1, t) /\ Keeps(me, me')
  BY <1>1, <1>3, <1>4 DEF Keeps
<1> QED BY <1>0, <1>1, <1>5, KeepsAfter

LEMMA FloatMetaLandsInv ==
  ASSUME Inv, NEW o \in me.ops, FloatMetaLands(o)
  PROVE  After
<1> DEFINE t == srv.turn
           p == [o EXCEPT !.pc = "landed", !.had = TRUE]
           C(f) == [me EXCEPT !.agentReady = @ \/ f, !.awaitingInstance = ~f]
<1>0. /\ Well(me, MaxOps, t) /\ me \in Surfaces /\ MaxOps \in Nat /\ MaxOps + 1 \in Nat /\ t \in Nat
      /\ o \in OpRecords /\ Place(o) /\ o.val <= 2 * t
  BY InvWell
<1>1. PICK found \in {srv.instance} \cup (IF MayFail THEN {FALSE} ELSE {}) :
        /\ faults' = IF found = srv.instance THEN faults ELSE faults + 1
        /\ me' = FloatAwaitingInstance(me,
                     IF C(found).ownTurn THEN Put(C(found), o, p) ELSE LoadAgentHistory(C(found), o))
  BY Zenon DEF FloatMetaLands
<1>2. found \in BOOLEAN /\ (faults' = faults \/ (MayFail /\ faults' = faults + 1))
  BY <1>1, MetaIs
<1>3. o.pc = "meta" /\ srv' = srv
  BY DEF FloatMetaLands
<1>4. o.op \in {"restore", "await", "clear", "reload"}
  BY <1>0, <1>3, OpFacts DEF Place, Ops
<1> DEFINE c == C(found)
           x == IF c.ownTurn THEN Put(c, o, p) ELSE LoadAgentHistory(c, o)
           d == FloatAwaitingInstance(me, x)
<1>5. me' = d
  BY <1>1
<1>6. c \in Surfaces /\ Same(me, c) /\ c.ops = me.ops
  <2>1. PICK b \in BOOLEAN, n \in BOOLEAN : b = (me.agentReady \/ found) /\ n = (~found)
    OBVIOUS
  <2>2. c = [me EXCEPT !.agentReady = b, !.awaitingInstance = n]
    BY <2>1
  <2> HIDE <2>1 DEF c
  <2>3. [me EXCEPT !.agentReady = b, !.awaitingInstance = n] \in Surfaces
    BY <1>0 DEF Surfaces
  <2>4. c \in Surfaces
    BY <2>2, <2>3
  <2>5. Same(me, c) /\ c.ops = me.ops
    BY <1>0, <2>2 DEF Surfaces, Same
  <2> QED BY <2>4, <2>5
<1> HIDE DEF C, c
<1>7. Well(c, MaxOps, t) /\ Keeps(me, c)
  BY <1>0, <1>6, SameWell
<1>8. ~StopHeld(o) /\ ~SendHeld(o) /\ ~Looping(o) /\ o.op \in Reads
  BY <1>4 DEF StopHeld, SendHeld, Looping, Reads
<1>9. Well(LoadAgentHistory(c, o), MaxOps, t) /\ Keeps(c, LoadAgentHistory(c, o))
  BY <1>0, <1>6, <1>7, <1>8, LoadAgentHistoryWell
<1>10. Well(Put(c, o, p), MaxOps, t) /\ Keeps(c, Put(c, o, p))
  <2>1. p \in OpRecords /\ SameOp(o, p) /\ p.pc = "landed" /\ p.val = o.val
    BY <1>0 DEF OpRecords, SameOp, Pcs
  <2> HIDE DEF p
  <2>2. Place(p)
    BY <1>4, <2>1 DEF Place, SameOp
  <2>3. GoesOn(c, o, p, t)
    BY <1>0, <1>8, <2>1, <2>2 DEF GoesOn, SameOp, StopHeld
  <2> QED BY <1>0, <1>6, <1>7, <2>3, PutWell
<1> HIDE DEF p
<1>11. Well(x, MaxOps, t) /\ Keeps(me, x)
  <2>1. x = Put(c, o, p) \/ x = LoadAgentHistory(c, o)
    OBVIOUS
  <2> HIDE DEF x
  <2> QED BY <1>7, <1>9, <1>10, <2>1 DEF Keeps
<1> HIDE DEF x
<1>12. Well(d, MaxOps + 1, t) /\ Keeps(x, d)
  BY <1>0, <1>11, FloatAwaitingInstanceWell
<1> HIDE DEF d
<1>13. Well(me', MaxOps + 1, t) /\ Keeps(me, me')
  BY <1>5, <1>11, <1>12 DEF Keeps
<1>14. LoopStep(me, me') /\ SeedStep(me, me')
  BY <1>0, <1>13, KeepsStep
<1> QED BY <1>0, <1>2, <1>3, <1>13, <1>14, FaultStep

\* The panel holds no thread that was handed over.
LEMMA AskOrFollowWell ==
  ASSUME NEW c, NEW k \in Nat, NEW t \in Nat, Well(c, k, t), k <= MaxOps + 1, c.surface = "floating",
         NEW o \in c.ops, o.op \in {"restore", "await", "clear"}
  PROVE  LET d == AskOrFollow(c, o)
         IN  Well(d, k + 1, t) /\ d.surface = "floating" /\ ~d.seeded /\ (HasLoop(c) => HasLoop(d))
<1> DEFINE e == Drop(c, o)
           p == Put(c, o, At(o, "check"))
           d == AskOrFollow(c, o)
<1>0. c \in Surfaces /\ o \in OpRecords /\ ~c.seeded /\ k + 1 \in Nat /\ k <= k + 1
  BY FieldFacts DEF Well, Rest, Seeds
<1>1. d = StartFollowing(e) \/ d = p
  BY DEF AskOrFollow
<1>2. Well(e, k, t) /\ Keeps(c, e)
  BY DropWell DEF StopHeld, SendHeld, Looping
<1>3. GoesOn(c, o, At(o, "check"), t)
  BY <1>0, AtGoesOn
<1>4. Well(p, k, t) /\ Keeps(c, p)
  BY <1>3, PutWell
<1> HIDE DEF e, d, p
<1>5. Well(p, k + 1, t)
  BY <1>0, <1>4, WellMore
<1>6. ~e.seeded /\ e.surface = "floating"
  BY <1>0, <1>2 DEF Keeps
<1>7. /\ Well(StartFollowing(e), k + 1, t) /\ HasLoop(StartFollowing(e)) /\ ~StartFollowing(e).seeded
      /\ StartFollowing(e).surface = e.surface
  BY <1>2, <1>6, StartFollowingWell
<1>8. Well(d, k + 1, t) /\ d.surface = "floating" /\ ~d.seeded /\ (HasLoop(c) => HasLoop(d))
  BY <1>0, <1>1, <1>4, <1>5, <1>6, <1>7 DEF Keeps
<1> QED BY <1>8 DEF d

LEMMA RefreshSessionInv ==
  ASSUME Inv, NEW o \in me.ops, RefreshSession(o)
  PROVE  After
<1> DEFINE t == srv.turn
           d == AskOrFollow(me, o)
<1>0. Well(me, MaxOps, t) /\ me \in Surfaces /\ MaxOps \in Nat /\ MaxOps + 1 \in Nat /\ t \in Nat /\ o \in OpRecords
  BY InvWell
<1>1. /\ UNCHANGED <<srv, faults>> /\ me.surface = "floating" /\ o.op = "restore"
      /\ \/ me' = Drop(me, o) \/ me' = Put(me, o, At(o, "greet")) \/ me' = d
  BY DEF RefreshSession, Floating
<1>2. CASE me' = Drop(me, o)
  BY <1>1, <1>2, DroppedInv DEF StopHeld, SendHeld, Looping
<1>3. CASE me' = Put(me, o, At(o, "greet"))
  <2>1. GoesOn(me, o, At(o, "greet"), t)
    BY <1>0, <1>1, AtGoesOn
  <2>2. Well(me', MaxOps, t) /\ Keeps(me, me')
    BY <1>0, <1>3, <2>1, PutWell
  <2> QED BY <1>0, <1>1, <2>2, KeepsAfter
<1>4. CASE me' = d
  <2>1. Well(d, MaxOps + 1, t) /\ ~d.seeded /\ (HasLoop(me) => HasLoop(d))
    BY <1>0, <1>1, AskOrFollowWell
  <2> HIDE DEF d
  <2>2. LoopStep(me, me') /\ SeedStep(me, me')
    BY <1>4, <2>1 DEF LoopStep, SeedStep
  <2> QED BY <1>0, <1>1, <1>4, <2>1, <2>2, MeStep
<1> QED BY <1>1, <1>2, <1>3, <1>4

LEMMA FloatGreetsInv ==
  ASSUME Inv, NEW o \in me.ops, FloatGreets(o)
  PROVE  After
<1> DEFINE t == srv.turn
           g == Greet(me)
           d == AskOrFollow(g, o)
           e == Drop(g, o)
<1>0. /\ Well(me, MaxOps, t) /\ me \in Surfaces /\ MaxOps \in Nat /\ MaxOps + 1 \in Nat /\ MaxOps <= MaxOps + 1 /\ t \in Nat
      /\ o \in OpRecords /\ Place(o)
  BY InvWell
<1>1. UNCHANGED <<srv, faults>> /\ me.surface = "floating" /\ o.pc = "greet" /\ (me' = d \/ me' = e)
  BY DEF FloatGreets, Floating
<1>2. o.op \in {"restore", "await", "clear"}
  BY <1>0, <1>1, OpFacts DEF Place, Ops
<1>3. Well(g, MaxOps, t) /\ g.ops = me.ops /\ g.surface = me.surface /\ g.seeded = me.seeded
  BY <1>0, GreetWell
<1>4. ~me.seeded
  BY <1>0, <1>1 DEF Well, Rest, Seeds
<1> HIDE DEF g
<1>5. HasLoop(me) => HasLoop(g)
  BY <1>3 DEF HasLoop
<1>6. Well(d, MaxOps + 1, t) /\ ~d.seeded /\ (HasLoop(g) => HasLoop(d))
  BY <1>0, <1>1, <1>2, <1>3, AskOrFollowWell
<1>7. Well(e, MaxOps, t) /\ Keeps(g, e)
  BY <1>0, <1>2, <1>3, DropWell DEF StopHeld, SendHeld, Looping
<1> HIDE DEF d, e
<1>8. Well(e, MaxOps + 1, t)
  BY <1>0, <1>7, WellMore
<1>9. Well(me', MaxOps + 1, t)
  BY <1>1, <1>6, <1>8
<1>10. LoopStep(me, me') /\ SeedStep(me, me')
  BY <1>1, <1>4, <1>5, <1>6, <1>7 DEF LoopStep, SeedStep, Keeps
<1> QED BY <1>0, <1>1, <1>9, <1>10, MeStep

-----------------------------------------------------------------------------
(* The invariant *)

\* The visit starts in the invariant.
LEMMA InitInv ==
  ASSUME Init
  PROVE  Inv
<1>0. MaxOps \in Nat /\ MaxOps >= 1 /\ MaxTurns \in Nat /\ MaxFaults \in Nat /\ 0 \in Docs /\ Past \in 0 .. MaxTurns
  BY DocsFacts, BoundsAssumption, VisitAssumption
<1>1. Session(srv) /\ srv.turn = Past
  <2>1. srv \in [turn : {Past}, active : {FALSE}, doc : {2 * Past}, instance : Provisioned]
    BY DEF Init
  <2>2. srv.turn = Past /\ srv.active = FALSE /\ srv.doc = 2 * Past
    BY <2>1
  <2>3. 2 * Past \in Docs
    BY <1>0 DEF Docs
  <2>4. srv \in Sessions
    BY <1>0, <2>1, <2>3, VisitAssumption DEF Sessions
  <2> QED BY <1>0, <2>2, <2>4 DEF Session
<1>2. faults \in 0 .. MaxFaults
  BY <1>0 DEF Init
<1>3. Past \in Nat /\ 0 <= 2 * Past
  BY <1>0
<1>4. Well(me, MaxOps, Past)
  <2>1. CASE "floating" \in Visited
    <3>1. me = Mounted("floating")
      BY <2>1 DEF Init
    <3>2. Well(Mounted("floating"), 0, Past)
      BY <1>3, MountedIs
    <3> QED BY <1>0, <3>1, <3>2, WellMore
  <2>2. CASE "floating" \notin Visited
    <3> DEFINE c == Mounted("pane")
               s == Selected(c, 0)
               a == Add(s, Op("restore", "meta", FALSE))
    <3>1. me = AwaitingInstance(c, a)
      BY <2>2 DEF Init, SelectAgent, Selected
    <3>2. Well(c, 0, Past) /\ c.surface = "pane" /\ c.ops = {}
      BY <1>3, MountedIs
    <3>3. ~s.awaitingInstance
      <4>1. Bump(c).awaitingInstance = FALSE /\ Bump(c) \in Surfaces
        <5>1. c \in Surfaces
          BY <3>2 DEF Well
        <5>2. c.awaitingInstance = FALSE
          BY DEF Mounted
        <5> HIDE DEF c
        <5>3. Bump(c).awaitingInstance = c.awaitingInstance
          BY <5>1 DEF Bump, Surfaces
        <5> QED BY <5>1, <5>2, <5>3, BumpIs
      <4> DEFINE b == Bump(c)
                 e == AbortSend(b)
      <4> HIDE DEF b
      <4>2. e.awaitingInstance = FALSE /\ e \in Surfaces
        <5>1. e \in Surfaces
          BY <4>1, AbortSendIs DEF b
        <5>2. e.awaitingInstance = b.awaitingInstance
          BY <4>1 DEF AbortSend, Surfaces, b
        <5> QED BY <4>1, <5>1, <5>2 DEF b
      <4> HIDE DEF e
      <4> DEFINE r == Retired(c)
      <4>3. r.awaitingInstance = FALSE /\ DOMAIN r = DOMAIN e
        <5> DEFINE S == {[o EXCEPT !.fcur = FALSE] :
                              o \in {p \in e.ops : p.pc # "abort" /\ (p.op = "tick" => p.pc = "hist")}}
        <5>1. r = [e EXCEPT !.ops = S, !.ownTurn = FALSE, !.following = FALSE, !.lastHistory = 0,
                            !.runningElsewhere = FALSE, !.turnCheckFailed = FALSE, !.stoppingElsewhere = FALSE]
          BY DEF Retired, e, b
        <5> HIDE DEF S, r
        <5> QED BY <4>2, <5>1 DEF Surfaces
      <4>4. s = [[r EXCEPT !.sending = FALSE] EXCEPT !.shown = "agent", !.seeded = 0 > 0, !.msgs = 0,
                                                     !.greet = FALSE, !.notice = "none"]
        BY DEF Selected, CancelInflight
      <4>5. "awaitingInstance" \in DOMAIN r
        BY <4>2, <4>3 DEF Surfaces
      <4> HIDE DEF r, s
      <4> QED BY <4>3, <4>4, <4>5
    <3>4. Well(a, 0 + 1, Past) /\ s \in Surfaces
      <4> HIDE DEF c
      <4>1. 0 \in Nat /\ 0 <= MaxOps /\ Pane(c)
        BY <1>0, <3>2 DEF Pane
      <4> QED BY <1>0, <1>3, <3>2, <4>1, SelectedWell
    <3>5. ~a.awaitingInstance
      <4> HIDE DEF s
      <4> QED BY <3>3, <3>4 DEF Add, Surfaces
    <3> HIDE DEF a, c
    <3>6. me = a
      BY <3>1, <3>5 DEF AwaitingInstance
    <3>7. Well(me, 1, Past)
      BY <3>4, <3>6
    <3> QED BY <1>0, <3>7, WellMore
  <2> QED BY <2>1, <2>2
<1> QED BY <1>1, <1>2, <1>4 DEF Inv, Well

\* One lemma for every handler, click, delivery and change of the session.
LEMMA LandsInv ==
  ASSUME Inv, NEW o \in me.ops, Lands(o)
  PROVE  After
BY HistoryLandsInv, RefreshHistoryInv, TickLandsInv, CheckLandsInv, RestoreCheckLandsInv, StopOwnLandsInv,
   PaneMetaLandsInv, PaneGreetsInv, ClearLandsInv, ModelAnsweredInv, StopFirstLandsInv, StopLandsInv,
   FloatMetaLandsInv, FloatGreetsInv, ResumesInv, PaneRestoresInv, RefreshSessionInv
   DEF Lands

LEMMA UserInv ==
  ASSUME Inv, User
  PROVE  After
BY SendMessageInv, StopElsewhereInv, StopOwnInv, RetryTurnCheckInv, DismissTurnCheckInv, PaneSelectAgentInv,
   PaneSelectModelInv, PaneClearChatInv, ClearAgentSessionInv, SendToModelInv, PaneLeaveInv, OpenPanelInv,
   ClosePanelInv, ExpandToPaneInv
   DEF User

LEMMA StepsInv ==
  ASSUME Inv, Steps
  PROVE  After
<1>1. ASSUME NEW o \in me.ops, Answer(o) PROVE After
  BY <1>1, AnswerInv
<1>2. ASSUME NEW o \in me.ops, Lands(o) PROVE After
  BY <1>2, LandsInv
<1>3. ASSUME NEW k, NEW n, Answers(k, n) \/ Continues(k, n) PROVE After
  BY <1>1, <1>2, <1>3 DEF Answers, Continues
<1>4. ASSUME Delivers \/ StreamLost \/ LinkStalls \/ Silence \/ Statuses PROVE After
  BY <1>4, StreamCarriesInv, MessageDoneInv, StreamClosesInv, PostAcceptedInv, PostRefusedInv, StreamLostInv,
     LinkStallsInv, SilenceInv, PaneRefreshAgentStatusInv, FloatRefreshAgentStatusInv
     DEF Delivers, Statuses
<1>5. ASSUME TurnEnds \/ WriteHistory \/ ElsewhereStarts \/ InstanceReady PROVE After
  BY <1>5, TurnEndsInv, WriteHistoryInv, ElsewhereStartsInv, InstanceReadyInv
<1> QED BY <1>3, <1>4, <1>5, UserInv DEF Steps

\* The invariant is inductive, and every step keeps the loop and the thread.
LEMMA NextInv ==
  ASSUME Inv, [Next]_vars
  PROVE  Inv' /\ LoopStep(me, me') /\ SeedStep(me, me')
<1>1. CASE Next
  <2>1. After /\ Cardinality(me'.ops) <= MaxOps
    BY <1>1, StepsInv DEF Next
  <2>2. /\ me' \in Surfaces /\ Room(me'.ops, MaxOps + 2) /\ Rest(me', srv'.turn) /\ Held(me')
        /\ Session(srv') /\ faults' \in 0 .. MaxFaults /\ LoopStep(me, me') /\ SeedStep(me, me')
    BY <2>1 DEF After, Well
  <2>3. Room(me'.ops, MaxOps)
    BY <2>1, <2>2 DEF Room
  <2> QED BY <2>2, <2>3 DEF Inv
<1>2. CASE UNCHANGED vars
  <2>1. me' = me /\ srv' = srv /\ faults' = faults
    BY <1>2 DEF vars
  <2>2. Inv'
    BY <2>1 DEF Inv
  <2>3. Keeps(me, me')
    BY <2>1 DEF Keeps
  <2> QED BY <2>2, <2>3, InvWell, KeepsStep
<1> QED BY <1>1, <1>2

\* The surface and the session are well typed in every behaviour.
THEOREM TypeCorrect == Spec => []TypeOK
<1>1. Inv => TypeOK
  BY DEF Inv, TypeOK, Session
<1> QED BY <1>1, InitInv, NextInv, PTL DEF Spec

\* A disabled composer always has somebody who will release it, on either
\* surface, whatever handlers, stops, streams and lost answers cross.
THEOREM ControlsAreReleased == Spec => []ControlsNeverStuck
<1>1. Inv => ControlsNeverStuck
  BY DEF Inv, Rest, Held, Stopping, SendHeld, StopHeld, ControlsNeverStuck
<1> QED BY <1>1, InitInv, NextInv, PTL DEF Spec

\* A thread the floating panel handed over to the chat tab loses nothing to a
\* read that lands before its restore is over.
THEOREM HandoverIsKept == Spec => SeedOutlivesRestore
<1>1. ASSUME Inv, [Next]_vars
      PROVE  [me.seeded /\ me'.seeded /\ me.shown = "agent" /\ me'.shown = "agent" /\ ~me'.greet
                => me'.msgs >= me.msgs]_vars
  BY <1>1, NextInv DEF SeedStep
<1> QED BY <1>1, InitInv, NextInv, PTL DEF Spec, SeedOutlivesRestore

\* The floating panel's follow loop goes on, and is alone, for as long as the
\* panel is open.
THEOREM PanelIsWatched == Spec => OpenPanelIsWatched
<1>1. ASSUME Inv, [Next]_vars
      PROVE  [Floating /\ Loops # {} /\ me'.surface = "floating" /\ me'.shown = "agent" => Cardinality(Loops') = 1]_vars
  <2> SUFFICES ASSUME Floating, Loops # {}, me'.surface = "floating", me'.shown = "agent"
               PROVE  Cardinality(Loops') = 1
    OBVIOUS
  <2>1. HasLoop(me) /\ me.surface = "floating"
    BY DEF Loops, Floating, HasLoop, Looping
  <2>2. HasLoop(me') /\ Rest(me', srv'.turn)
    BY <1>1, <2>1, NextInv DEF LoopStep, Inv
  <2>3. PICK o \in me'.ops : Looping(o)
    BY <2>2 DEF HasLoop
  <2>4. \A p \in me'.ops : Looping(p) => p = o
    BY <2>2, <2>3 DEF Rest, Chain
  <2>5. Loops' = {o}
    BY <2>3, <2>4 DEF Loops, Looping
  <2> QED BY <2>5, FS_Singleton
<1> QED BY <1>1, InitInv, NextInv, PTL DEF Spec, OpenPanelIsWatched
=============================================================================
