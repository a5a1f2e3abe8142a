------------------------------ MODULE BotProofs ------------------------------
(* Theorems of BotController, for any seats, caps and bounds.  The argument   *)
(* about moves and forced ends is one invariant each: what the last look saw  *)
(* still holds, or something is noted to have crossed it.                     *)
EXTENDS BotController, TLAPS

Why == {"unread", "refused", "unannounced", "restarted"}
TickOK == tick \in Tick /\ pending \in BOOLEAN /\ stalled \subseteq Why
Known  == {"unknown", "none", "bot"}

-----------------------------------------------------------------------------
(* Calling and ending a tick                                                 *)

LEMMA IdleTyped == IdleTick \in Tick /\ IdleGive.seat \in Team \X Actor
  BY SeatsAssumption, BoundsAssumption
  DEF IdleTick, Tick, Op, NoOp, Team, Actor, IdleGive

LEMMA BeginTyped ==
  ASSUME Begin PROVE TickOK'
<1>1. [IdleTick EXCEPT !.at = "roster"] \in Tick /\ [IdleTick EXCEPT !.at = "read"] \in Tick
  BY IdleTyped DEF Tick
<1>2. tick' \in Tick
  BY <1>1 DEF Begin
<1> QED BY <1>2 DEF Begin, TickOK

LEMMA TickRoomTyped ==
  ASSUME TickOK, cache' \in Known, TickRoom PROVE TickOK'
<1>1. CASE cache' = "none"
  BY <1>1 DEF TickRoom, TickOK
<1>2. CASE cache' # "none" /\ tick.at # "idle"
  BY <1>2 DEF TickRoom, TickOK
<1>3. CASE cache' # "none" /\ tick.at = "idle"
  BY <1>3, BeginTyped DEF TickRoom
<1> QED BY <1>1, <1>2, <1>3

LEMMA FinishTyped ==
  ASSUME TypeOK, NEW failed \in BOOLEAN, NEW why \in SUBSET Why, NEW more \in BOOLEAN,
         Finish(failed, why, more)
  PROVE  /\ TickOK'
         /\ streak' \in 0 .. MaxReArms /\ armed' \in BOOLEAN
         /\ giving' \in [at : {"idle", "look", "end"}, seat : Team \X Actor]
<1> USE DEF Finish
<1>1. CASE (pending \/ more) /\ cache' = "none"
  BY <1>1, IdleTyped DEF TypeOK, TickOK, Why
<1>2. CASE (pending \/ more) /\ cache' # "none"
  BY <1>2, BeginTyped DEF TypeOK
<1>3. CASE ~(pending \/ more)
  <2>1. TickOK'
    BY <1>3, IdleTyped DEF TypeOK, TickOK, Why
  <2>2. 0 \in 0 .. MaxReArms /\ streak \in 0 .. MaxReArms /\ armed \in BOOLEAN
        /\ giving \in [at : {"idle", "look", "end"}, seat : Team \X Actor]
    BY BoundsAssumption DEF TypeOK
  <2>3. CASE failed
    <3>1. [IdleGive EXCEPT !.at = "look"] \in [at : {"idle", "look", "end"}, seat : Team \X Actor]
      BY IdleTyped DEF IdleGive
    <3>2. CASE streak + 1 > MaxReArms
      BY <1>3, <2>1, <2>2, <2>3, <3>1, <3>2 DEF ScheduleReArm
    <3>3. CASE ~(streak + 1 > MaxReArms)
      <4>1. streak + 1 \in 0 .. MaxReArms
        BY <2>2, <3>3, BoundsAssumption
      <4> QED BY <1>3, <2>1, <2>2, <2>3, <3>3, <4>1 DEF ScheduleReArm
    <3> QED BY <3>2, <3>3
  <2>4. CASE ~failed
    BY <1>3, <2>1, <2>2, <2>4
  <2> QED BY <2>3, <2>4
<1> QED BY <1>1, <1>2, <1>3

LEMMA ResultsTyped ==
  ASSUME TypeOK, NEW op \in Op, NEW g \in Results(op), NEW me, Write(g, me)
  PROVE  game' \in Game /\ game'.number = game.number /\ crossed' \subseteq {"tick", "giveUp", "note"}
<1>1. g \in Game /\ g.number = game.number
  <2>1. game \in Game
    BY DEF TypeOK
  <2>2. NextTurn(game) \in Game /\ NextTurn(game).number = game.number
    BY <2>1 DEF NextTurn, Game, Other, Team, Actor
  <2>3. [game EXCEPT !.role = "clicker"] \in Game /\ [game EXCEPT !.live = FALSE] \in Game
    BY <2>1 DEF Game, Actor
  <2>4. /\ [game EXCEPT !.role = "clicker"].number = game.number
        /\ [game EXCEPT !.live = FALSE].number = game.number
    BY <2>1 DEF Game
  <2>5. g \in {[game EXCEPT !.role = "clicker"], game, NextTurn(game), [game EXCEPT !.live = FALSE]}
    BY DEF Results, Op
  <2> QED BY <2>1, <2>2, <2>3, <2>4, <2>5
<1>2. [g EXCEPT !.parity = 1 - @] \in Game /\ [g EXCEPT !.parity = 1 - @].number = g.number
  BY <1>1 DEF Game
<1>3. game' = [g EXCEPT !.parity = 1 - @]
  BY DEF Write
<1>4. crossed' \subseteq {"tick", "giveUp", "note"}
  BY DEF Write, Cross, TypeOK
<1> QED BY <1>1, <1>2, <1>3, <1>4

-----------------------------------------------------------------------------
(* Types                                                                     *)

LEMMA InitTyped == Init => TypeOK
<1> SUFFICES ASSUME Init PROVE TypeOK
  OBVIOUS
<1>1. game \in Game
  BY BoundsAssumption DEF Init, Game, Team, Actor
<1>2. tick \in Tick /\ giving \in [at : {"idle", "look", "end"}, seat : Team \X Actor]
      /\ adding \in [at : {"idle", "list", "nudge"}, seat : Team \X Actor]
  BY IdleTyped DEF Init, IdleGive, IdleAdd
<1>3. 0 \in 0 .. MaxReArms /\ 0 \in 0 .. MaxRequests
  BY BoundsAssumption
<1> QED BY <1>1, <1>2, <1>3 DEF Init, TypeOK

LEMMA TickStepTyped ==
  ASSUME TypeOK, TickStep PROVE TypeOK'
<1> USE DEF Why
<1>g. \A t \in Tick : Go(t) =>
         /\ TickOK' /\ streak' \in 0 .. MaxReArms /\ armed' \in BOOLEAN
         /\ giving' \in [at : {"idle", "look", "end"}, seat : Team \X Actor]
  BY DEF Go, TypeOK, TickOK
<1>1. CASE Roster
  <2>1. [tick EXCEPT !.at = "note", !.bot = bots # {}] \in Tick
    BY DEF TypeOK, Tick
  <2>2. TickOK' /\ streak' \in 0 .. MaxReArms /\ armed' \in BOOLEAN
        /\ giving' \in [at : {"idle", "look", "end"}, seat : Team \X Actor]
    BY <1>1, <1>g, <2>1, FinishTyped DEF Roster
  <2> QED BY <1>1, <2>2 DEF Roster, TypeOK, TickOK, room
<1>2. CASE Note
  <2>1. [tick EXCEPT !.at = "read"] \in Tick
    BY DEF TypeOK, Tick
  <2>2. TickOK' /\ streak' \in 0 .. MaxReArms /\ armed' \in BOOLEAN
        /\ giving' \in [at : {"idle", "look", "end"}, seat : Team \X Actor]
    BY <1>2, <1>g, <2>1, FinishTyped DEF Note
  <2>3. cache' \in {"unknown", "none", "bot"}
    BY <1>2 DEF Note, TypeOK
  <2> QED BY <1>2, <2>2, <2>3 DEF Note, TypeOK, TickOK, room
<1>3. CASE Read
  <2>1. [tick EXCEPT !.at = "seat", !.number = game.number, !.seat = Seat] \in Tick
    BY DEF TypeOK, Tick, Game, Seat
  <2>2. TickOK' /\ streak' \in 0 .. MaxReArms /\ armed' \in BOOLEAN
        /\ giving' \in [at : {"idle", "look", "end"}, seat : Team \X Actor]
    BY <1>3, <1>g, <2>1, FinishTyped DEF Read
  <2> QED BY <1>3, <2>2 DEF Read, TypeOK, TickOK, room
<1>4. CASE FindSeat
  <2>1. ASSUME NEW kind \in {"clue", "reveal", "endTurn"}
        PROVE  [tick EXCEPT !.at = "check", !.op = [kind |-> kind, team |-> tick.seat[1],
                                                    number |-> tick.number]] \in Tick
    <3>1. tick.seat[1] \in Team /\ tick.number \in 0 .. MaxGames
      BY DEF TypeOK, Tick
    <3>2. [kind |-> kind, team |-> tick.seat[1], number |-> tick.number] \in Op
      BY <3>1 DEF Op
    <3> QED BY <3>2 DEF TypeOK, Tick
  <2>2. TickOK' /\ streak' \in 0 .. MaxReArms /\ armed' \in BOOLEAN
        /\ giving' \in [at : {"idle", "look", "end"}, seat : Team \X Actor]
    <3>1. CASE Finish(FALSE, {}, FALSE) \/ Finish(TRUE, {}, FALSE)
      BY <3>1, FinishTyped
    <3>2. CASE \E kind \in {"clue", "reveal", "endTurn"} :
                 Go([tick EXCEPT !.at = "check", !.op = [kind |-> kind, team |-> tick.seat[1],
                                                         number |-> tick.number]])
      BY <3>2, <2>1, <1>g
    <3> QED BY <1>4, <3>1, <3>2 DEF FindSeat
  <2> QED BY <1>4, <2>2 DEF FindSeat, TypeOK, TickOK, room
<1>5. CASE Check
  <2>1. [tick EXCEPT !.at = "apply"] \in Tick
    BY DEF TypeOK, Tick
  <2>2. TickOK' /\ streak' \in 0 .. MaxReArms /\ armed' \in BOOLEAN
        /\ giving' \in [at : {"idle", "look", "end"}, seat : Team \X Actor]
    BY <1>5, <1>g, <2>1, FinishTyped DEF Check
  <2> QED BY <1>5, <2>2 DEF Check, TypeOK, TickOK, room
<1>6. CASE Move
  <2>1. tick.op \in Op
    BY DEF TypeOK, Tick
  <2>2. game' \in Game /\ crossed' \subseteq {"tick", "giveUp", "note"}
    BY <1>6, <2>1, ResultsTyped DEF Move
  <2>3. CASE tick.done + 1 < MaxActions /\ cache # "none"
    <3>1. tick.done + 1 \in 0 .. MaxActions - 1
      BY <2>3, BoundsAssumption DEF TypeOK, Tick
    <3>2. [IdleTick EXCEPT !.at = "read", !.done = tick.done + 1] \in Tick
      BY <3>1, IdleTyped DEF Tick
    <3>3. /\ tick' \in Tick /\ pending' = TRUE /\ streak' = 0 /\ armed' = FALSE
          /\ UNCHANGED <<giving, stalled>>
      BY <1>6, <2>3, <3>2 DEF Move
    <3>4. streak' \in 0 .. MaxReArms
      BY <3>3, BoundsAssumption
    <3> QED BY <1>6, <2>2, <3>3, <3>4 DEF Move, TypeOK
  <2>4. CASE ~(tick.done + 1 < MaxActions /\ cache # "none")
    <3>1. TickOK' /\ streak' \in 0 .. MaxReArms /\ armed' \in BOOLEAN
          /\ giving' \in [at : {"idle", "look", "end"}, seat : Team \X Actor]
      BY <1>6, <2>4, FinishTyped DEF Move
    <3> QED BY <1>6, <2>2, <3>1 DEF Move, TypeOK, TickOK
  <2> QED BY <2>3, <2>4
<1>7. CASE MoveThenFail
  <2>1. tick.op \in Op
    BY DEF TypeOK, Tick
  <2>2. game' \in Game /\ crossed' \subseteq {"tick", "giveUp", "note"}
    BY <1>7, <2>1, ResultsTyped DEF MoveThenFail
  <2>3. TickOK' /\ streak' \in 0 .. MaxReArms /\ armed' \in BOOLEAN
        /\ giving' \in [at : {"idle", "look", "end"}, seat : Team \X Actor]
    BY <1>7, FinishTyped DEF MoveThenFail
  <2> QED BY <1>7, <2>2, <2>3 DEF MoveThenFail, TypeOK, TickOK
<1>8. CASE MoveFails
  <2>1. late' \subseteq Op
    <3>1. tick.op \in Op
      BY DEF TypeOK, Tick
    <3> QED BY <1>8, <3>1 DEF MoveFails, TypeOK
  <2>2. TickOK' /\ streak' \in 0 .. MaxReArms /\ armed' \in BOOLEAN
        /\ giving' \in [at : {"idle", "look", "end"}, seat : Team \X Actor]
    BY <1>8, FinishTyped DEF MoveFails
  <2> QED BY <1>8, <2>1, <2>2 DEF MoveFails, TypeOK, TickOK, room
<1> QED BY <1>1, <1>2, <1>3, <1>4, <1>5, <1>6, <1>7, <1>8 DEF TickStep

LEMMA GiveUpTyped ==
  ASSUME TypeOK, GiveUpStep PROVE TypeOK'
<1> USE DEF Why
<1>1. CASE GiveUpLook
  <2>1. giving' \in [at : {"idle", "look", "end"}, seat : Team \X Actor] /\ stalled' \subseteq Why
    <3>1. [at |-> "end", seat |-> Seat] \in [at : {"idle", "look", "end"}, seat : Team \X Actor]
      BY DEF TypeOK, Game, Seat
    <3>2. IdleGive \in [at : {"idle", "look", "end"}, seat : Team \X Actor]
      BY IdleTyped DEF IdleGive
    <3>3. \/ giving' \in {IdleGive, [at |-> "end", seat |-> Seat]} /\ UNCHANGED stalled
          \/ giving' = IdleGive /\ stalled' = stalled \cup {}
          \/ giving' = IdleGive /\ stalled' = stalled \cup {"refused"}
      BY <1>1 DEF GiveUpLook, EndGiving
    <3> QED BY <3>1, <3>2, <3>3 DEF TypeOK
  <2> QED BY <1>1, <2>1 DEF GiveUpLook, TypeOK, room
<1>2. CASE ForceEndTurn
  <2>1. NextTurn(game) \in Game
    BY DEF TypeOK, Game, NextTurn, Other, Team, Actor
  <2>2. [NextTurn(game) EXCEPT !.parity = 1 - @] \in Game
    BY <2>1 DEF Game
  <2>3. game' \in Game
    BY <1>2, <2>2 DEF ForceEndTurn, Write
  <2>4. crossed' \subseteq {"tick", "giveUp", "note"}
    BY <1>2 DEF ForceEndTurn, Write, Cross, TypeOK
  <2>5. TickOK'
    BY <1>2, TickRoomTyped DEF ForceEndTurn, TypeOK, TickOK, Known
  <2>6. giving' \in [at : {"idle", "look", "end"}, seat : Team \X Actor]
    BY <1>2, IdleTyped DEF ForceEndTurn, IdleGive
  <2> QED BY <1>2, <2>3, <2>4, <2>5, <2>6 DEF ForceEndTurn, TypeOK, TickOK
<1>3. CASE GiveUpFails
  <2>1. giving' \in [at : {"idle", "look", "end"}, seat : Team \X Actor] /\ stalled' \subseteq Why
    BY <1>3, IdleTyped DEF GiveUpFails, EndGiving, IdleGive, TypeOK
  <2> QED BY <1>3, <2>1 DEF GiveUpFails, TypeOK, room
<1> QED BY <1>1, <1>2, <1>3 DEF GiveUpStep

LEMMA ReArmTyped ==
  ASSUME TypeOK, ReArmFires PROVE TypeOK'
<1>1. TickOK'
  BY TickRoomTyped DEF ReArmFires, TypeOK, TickOK, Known, Why
<1> QED BY <1>1 DEF ReArmFires, TypeOK, TickOK, Why, room

LEMMA LateTyped ==
  ASSUME TypeOK, LateLands PROVE TypeOK'
<1>1. PICK op \in late : LateLands!(op)
  BY DEF LateLands
<1>2. op \in Op
  BY DEF TypeOK
<1>3. CASE \E g \in Results(op) : Write(g, "other") /\ owed' = TRUE /\ UNCHANGED <<tick, pending, stalled>>
  <2>1. game' \in Game /\ crossed' \subseteq {"tick", "giveUp", "note"}
    BY <1>2, <1>3, ResultsTyped
  <2> QED BY <1>1, <1>3, <2>1 DEF TypeOK
<1>4. CASE UNCHANGED <<game, tick, pending, stalled, owed, crossed>>
  BY <1>1, <1>4 DEF TypeOK
<1> QED BY <1>1, <1>3, <1>4

LEMMA PeopleTyped ==
  ASSUME TypeOK, PeopleMove PROVE TypeOK'
<1>1. PICK kind \in {"clue", "reveal", "endTurn"} :
        \E g \in Results([kind |-> kind, team |-> game.team, number |-> game.number]) :
           Write(g, "other")
  BY DEF PeopleMove
<1>2. [kind |-> kind, team |-> game.team, number |-> game.number] \in Op
  BY DEF TypeOK, Game, Op
<1>3. game' \in Game /\ crossed' \subseteq {"tick", "giveUp", "note"}
  BY <1>1, <1>2, ResultsTyped
<1> QED BY <1>3 DEF PeopleMove, TypeOK, driver

LEMMA HostTyped ==
  ASSUME TypeOK, HostMoves PROVE TypeOK'
<1>1. PICK g \in Game : Write(g, "other")
  <2>1. \A p \in BOOLEAN : [game EXCEPT !.paused = p] \in Game
    BY DEF TypeOK, Game
  <2>2. [game EXCEPT !.live = FALSE] \in Game
    BY DEF TypeOK, Game
  <2>3. ASSUME game.number < MaxGames, NEW t \in Team
        PROVE  [game EXCEPT !.number = @ + 1, !.live = TRUE, !.paused = FALSE,
                            !.team = t, !.role = "spymaster"] \in Game
    <3>1. game.number + 1 \in 0 .. MaxGames
      BY <2>3, BoundsAssumption DEF TypeOK, Game
    <3> QED BY <3>1 DEF TypeOK, Game, Actor
  <2> QED BY <2>1, <2>2, <2>3 DEF HostMoves
<1>2. [g EXCEPT !.parity = 1 - @] \in Game
  BY DEF Game
<1>3. game' \in Game
  BY <1>1, <1>2 DEF Write
<1>4. crossed' \subseteq {"tick", "giveUp", "note"}
  BY <1>1 DEF Write, Cross, TypeOK
<1>5. asked' \in 0 .. MaxRequests
  <2>1. Asks
    BY DEF HostMoves
  <2> QED BY <2>1, BoundsAssumption DEF Asks, TypeOK
<1> QED BY <1>3, <1>4, <1>5 DEF HostMoves, TypeOK, driver

LEMMA NotifyTyped ==
  ASSUME TypeOK, Notify PROVE TypeOK'
<1>1. TickOK'
  BY TickRoomTyped DEF Notify, TypeOK, TickOK, Known, Why
<1> QED BY <1>1 DEF Notify, TypeOK, TickOK, Why, room

LEMMA AddTyped ==
  ASSUME TypeOK, NEW s \in BotSeat, AddBot(s) PROVE TypeOK'
<1>1. asked' \in 0 .. MaxRequests
  BY BoundsAssumption DEF AddBot, Asks, TypeOK
<1>2. adding' \in [at : {"idle", "list", "nudge"}, seat : Team \X Actor]
  BY SeatsAssumption DEF AddBot
<1> QED BY <1>1, <1>2 DEF AddBot, TypeOK, driver

LEMMA ListTyped ==
  ASSUME TypeOK, ListBot PROVE TypeOK'
<1>1. adding' \in [at : {"idle", "list", "nudge"}, seat : Team \X Actor]
  BY IdleTyped DEF ListBot, TypeOK, IdleAdd, IdleGive
<1> QED BY <1>1 DEF ListBot, TypeOK, driver

LEMMA NudgeTyped ==
  ASSUME TypeOK, Nudge PROVE TypeOK'
<1>1. TickOK'
  BY TickRoomTyped DEF Nudge, TypeOK, TickOK, Known, Why
<1>2. adding' \in [at : {"idle", "list", "nudge"}, seat : Team \X Actor]
  BY IdleTyped DEF Nudge, IdleAdd, IdleGive
<1> QED BY <1>1, <1>2 DEF Nudge, TypeOK, TickOK, Why

LEMMA RemoveTyped ==
  ASSUME TypeOK, NEW s \in BotSeat, RemoveBot(s) PROVE TypeOK'
<1>1. asked' \in 0 .. MaxRequests
  BY BoundsAssumption DEF RemoveBot, Asks, TypeOK
<1>2. TickOK'
  <2>1. \A mine \in BOOLEAN : [tick EXCEPT !.gone = @ \/ mine] \in Tick
    BY DEF TypeOK, Tick
  <2>2. CASE Begin
    BY <2>2, BeginTyped
  <2>3. CASE ~Begin
    BY <2>1, <2>3 DEF RemoveBot, TypeOK, TickOK, Why
  <2> QED BY <2>2, <2>3
<1>3. crossed' \subseteq {"tick", "giveUp", "note"}
  BY DEF RemoveBot
<1> QED BY <1>1, <1>2, <1>3 DEF RemoveBot, TypeOK, TickOK, Why

LEMMA RestartTyped ==
  ASSUME TypeOK, Restart PROVE TypeOK'
<1>1. asked' \in 0 .. MaxRequests
  BY BoundsAssumption DEF Restart, Asks, TypeOK
<1>2. tick' \in Tick /\ giving' \in [at : {"idle", "look", "end"}, seat : Team \X Actor]
  BY IdleTyped DEF Restart, IdleGive
<1>3. streak' \in 0 .. MaxReArms
  BY BoundsAssumption DEF Restart
<1> QED BY <1>1, <1>2, <1>3 DEF Restart, TypeOK, room

LEMMA NextTyped == TypeOK /\ [Next]_vars => TypeOK'
<1> SUFFICES ASSUME TypeOK, [Next]_vars PROVE TypeOK'
  OBVIOUS
<1>1. CASE UNCHANGED vars
  BY <1>1 DEF vars, room, driver, TypeOK
<1> QED BY <1>1, TickStepTyped, ReArmTyped, GiveUpTyped, LateTyped, PeopleTyped, HostTyped,
          NotifyTyped, AddTyped, ListTyped, NudgeTyped, RemoveTyped, RestartTyped DEF Next

(* What the handlers keep has its type; the streak of failures stays within   *)
(* MAX_REARM_ATTEMPTS, so a bot that always fails is given up on.             *)
THEOREM TypeIsRight == Spec => []TypeOK
<1> QED BY InitTyped, NextTyped, PTL DEF Spec

-----------------------------------------------------------------------------
(* What the last look saw                                                    *)

Looked == tick.at = "apply" => "tick" \in crossed \/ (~tick.gone /\ game.number = tick.number)
Sought == giving.at = "end" => "giveUp" \in crossed \/ Seat \in Seated

LEMMA WriteMarks ==
  ASSUME NEW g, NEW me, Write(g, me)
  PROVE  /\ tick.at = "apply" /\ me # "tick" => "tick" \in crossed'
         /\ giving.at = "end" /\ me # "giveUp" => "giveUp" \in crossed'
         /\ "note" \in crossed /\ me # "note" => "note" \in crossed'
  BY DEF Write, Cross

LEMMA BeginsUnread ==
  ASSUME Begin PROVE tick'.at \in {"roster", "read"} /\ tick'.gone = FALSE
  BY DEF Begin, IdleTick

LEMMA FinishLeaves ==
  ASSUME TypeOK, NEW failed \in BOOLEAN, NEW why, NEW more \in BOOLEAN, Finish(failed, why, more)
  PROVE  tick'.at \in {"idle", "roster", "read"} /\ giving' \in {giving, [IdleGive EXCEPT !.at = "look"]}
<1>1. tick'.at \in {"idle", "roster", "read"}
  <2>1. CASE (pending \/ more) /\ cache' = "none"
    BY <2>1 DEF Finish, IdleTick
  <2>2. CASE (pending \/ more) /\ cache' # "none"
    BY <2>2, BeginsUnread DEF Finish
  <2>3. CASE ~(pending \/ more)
    BY <2>3 DEF Finish, IdleTick, TypeOK
  <2> QED BY <2>1, <2>2, <2>3
<1>2. giving' \in {giving, [IdleGive EXCEPT !.at = "look"]}
  BY DEF Finish, ScheduleReArm
<1> QED BY <1>1, <1>2

LEMMA TickRoomLeaves ==
  ASSUME TickRoom PROVE tick' = tick \/ tick'.at \in {"roster", "read"}
  BY BeginsUnread DEF TickRoom

LEMMA LookedKept == TypeOK /\ Looked /\ [Next]_vars => Looked'
<1> SUFFICES ASSUME TypeOK, Looked, [Next]_vars PROVE Looked'
  OBVIOUS
<1> USE DEF Looked
<1>1. CASE Roster \/ Note \/ Read \/ FindSeat
  <2>1. tick'.at # "apply"
    BY ZenonT(40), <1>1, FinishLeaves DEF Roster, Note, Read, FindSeat, Go, TypeOK, Tick
  <2> QED BY <2>1
<1>2. CASE Check
  <2>1. CASE Finish(FALSE, {}, FALSE) \/ Finish(FALSE, {"unread"}, FALSE)
    BY <2>1, FinishLeaves
  <2>2. CASE MayStillAct /\ Go([tick EXCEPT !.at = "apply"])
    BY <1>2, <2>2 DEF Check, Go, MayStillAct, TypeOK, Tick, room
  <2> QED BY <1>2, <2>1, <2>2 DEF Check
<1>3. CASE Move \/ MoveThenFail
  <2>1. tick'.at # "apply"
    BY <1>3, FinishLeaves DEF Move, MoveThenFail, IdleTick
  <2> QED BY <2>1
<1>4. CASE MoveFails
  BY <1>4, FinishLeaves DEF MoveFails
<1>5. CASE ReArmFires \/ Notify
  BY <1>5, TickRoomLeaves DEF ReArmFires, Notify, room
<1>6. CASE GiveUpLook \/ GiveUpFails
  BY <1>6 DEF GiveUpLook, GiveUpFails, room
<1>7. CASE ForceEndTurn
  BY <1>7, TickRoomLeaves, WriteMarks DEF ForceEndTurn
<1>8. CASE LateLands
  BY <1>8, WriteMarks DEF LateLands
<1>9. CASE PeopleMove
  BY <1>9, WriteMarks DEF PeopleMove, driver
<1>10. CASE HostMoves
  <2>1. \E g : Write(g, "other")
    BY <1>10 DEF HostMoves
  <2>2. UNCHANGED tick
    BY <1>10 DEF HostMoves, driver
  <2> QED BY <2>1, <2>2, WriteMarks
<1>11. CASE \E s \in BotSeat : AddBot(s)
  BY <1>11 DEF AddBot, driver
<1>12. CASE \E s \in BotSeat : RemoveBot(s)
  <2>1. PICK s \in BotSeat : RemoveBot(s)
    BY <1>12
  <2>2. tick.at = "apply" => "tick" \in crossed'
    BY <2>1 DEF RemoveBot
  <2>3. tick.at # "apply" => tick'.at # "apply"
    BY <2>1, BeginsUnread DEF RemoveBot, TypeOK, Tick
  <2> QED BY <2>2, <2>3
<1>13. CASE ListBot
  BY <1>13 DEF ListBot, driver
<1>14. CASE Nudge
  BY <1>14, TickRoomLeaves DEF Nudge
<1>15. CASE Restart
  BY <1>15 DEF Restart, IdleTick
<1>16. CASE UNCHANGED vars
  BY <1>16 DEF vars, room, driver
<1> QED BY <1>1, <1>2, <1>3, <1>4, <1>5, <1>6, <1>7, <1>8, <1>9, <1>10, <1>11, <1>12, <1>13,
          <1>14, <1>15, <1>16 DEF Next, TickStep, GiveUpStep

(* N21 of the code: a move decided in one game never lands in another, and    *)
(* none is made for a bot that is gone, but for what changes between the look *)
(* of botMayStillAct and the operation.                                       *)
THEOREM MovesStayInTheirGame == Spec => MovesInItsGame
<1>1. Init => Looked
  BY DEF Init, Looked, IdleTick
<1>2. TypeOK /\ Looked /\ [Next]_vars =>
        [(Move \/ MoveThenFail) =>
           "tick" \in crossed \/ (~tick.gone /\ game.number = tick.number)]_vars
  BY DEF Looked, Move, MoveThenFail
<1> QED BY <1>1, <1>2, LookedKept, InitTyped, NextTyped, PTL DEF Spec, MovesInItsGame

LEMMA SoughtKept == TypeOK /\ Sought /\ [Next]_vars => Sought'
<1> SUFFICES ASSUME TypeOK, Sought, [Next]_vars, giving'.at = "end"
             PROVE  "giveUp" \in crossed' \/ Seat' \in Seated'
  BY DEF Sought
<1>a. "giveUp" \in crossed \/ Seat \in Seated \/ giving.at # "end"
  BY DEF Sought
<1>b. ASSUME UNCHANGED <<game, bots, adding, giving>>, "giveUp" \in crossed => "giveUp" \in crossed'
      PROVE  "giveUp" \in crossed' \/ Seat' \in Seated'
  BY <1>a, <1>b DEF Seat, Seated
<1>c. ASSUME UNCHANGED giving, NEW g, NEW me, me # "giveUp", Write(g, me)
      PROVE  "giveUp" \in crossed'
  BY <1>c, WriteMarks
<1>d. [IdleGive EXCEPT !.at = "look"].at # "end"
  BY DEF IdleGive
<1>1. CASE Roster
  BY <1>1, <1>b, <1>d, FinishLeaves DEF Roster, Go, room
<1>2. CASE Note
  BY <1>2, <1>b, <1>d, FinishLeaves DEF Note, Go, room
<1>3. CASE Read
  BY <1>3, <1>b, <1>d, FinishLeaves DEF Read, Go, room
<1>4. CASE FindSeat
  BY <1>4, <1>b, <1>d, FinishLeaves DEF FindSeat, Go, room
<1>5. CASE Check
  BY <1>5, <1>b, <1>d, FinishLeaves DEF Check, Go, room
<1>6. CASE Move
  <2>1. \E g : Write(g, "tick")
    BY <1>6 DEF Move
  <2>2. UNCHANGED giving
    BY <1>6, <1>d, FinishLeaves DEF Move
  <2> QED BY <2>1, <2>2, <1>c
<1>7. CASE MoveThenFail
  <2>1. \E g : Write(g, "tick")
    BY <1>7 DEF MoveThenFail
  <2>2. UNCHANGED giving
    BY <1>7, <1>d, FinishLeaves DEF MoveThenFail
  <2> QED BY <2>1, <2>2, <1>c
<1>8. CASE MoveFails
  BY <1>8, <1>b, <1>d, FinishLeaves DEF MoveFails, room
<1>9. CASE ReArmFires \/ Notify
  BY <1>9, <1>b DEF ReArmFires, Notify, room
<1>10. CASE GiveUpLook
  BY <1>10 DEF GiveUpLook, EndGiving, IdleGive, Stuck, Seat, Seated, room
<1>11. CASE ForceEndTurn \/ GiveUpFails
  BY <1>11 DEF ForceEndTurn, GiveUpFails, EndGiving, IdleGive
<1>12. CASE LateLands
  <2>1. CASE \E g : Write(g, "other")
    BY <1>12, <2>1, <1>c DEF LateLands
  <2>2. CASE UNCHANGED <<game, crossed>>
    BY <1>12, <2>2, <1>b DEF LateLands
  <2> QED BY <1>12, <2>1, <2>2 DEF LateLands
<1>13. CASE PeopleMove
  <2>1. UNCHANGED giving /\ \E g : Write(g, "other")
    BY <1>13 DEF PeopleMove, driver
  <2> QED BY <2>1, <1>c
<1>14. CASE HostMoves
  <2>1. \E g : Write(g, "other")
    BY <1>14 DEF HostMoves
  <2>2. UNCHANGED giving
    BY <1>14 DEF HostMoves, driver
  <2> QED BY <2>1, <2>2, <1>c
<1>15. CASE \E s \in BotSeat : AddBot(s)
  <2>1. UNCHANGED <<game, giving, crossed>>
    BY <1>15 DEF AddBot, driver
  <2>2. Seated \subseteq Seated'
    BY <1>15 DEF AddBot, Seated
  <2> QED BY <2>1, <2>2, <1>a DEF Seat
<1>16. CASE \E s \in BotSeat : RemoveBot(s)
  <2>1. PICK s \in BotSeat : RemoveBot(s)
    BY <1>16
  <2> QED BY <2>1 DEF RemoveBot
<1>17. CASE ListBot
  <2>1. UNCHANGED <<game, giving>> /\ ("giveUp" \in crossed => "giveUp" \in crossed')
    BY <1>17 DEF ListBot, driver
  <2>2. Seated \subseteq Seated'
    <3>1. adding.at = "list" /\ Seated = bots \ {adding.seat}
      BY <1>17 DEF ListBot, Seated
    <3>2. adding'.at # "list" /\ bots' \in {bots, bots \ {adding.seat}}
      BY <1>17 DEF ListBot, IdleAdd, TypeOK
    <3> QED BY <3>1, <3>2 DEF Seated
  <2> QED BY <2>1, <2>2, <1>a DEF Seat
<1>18. CASE Nudge
  <2>1. UNCHANGED <<game, giving, crossed>> /\ Seated \subseteq Seated'
    BY <1>18 DEF Nudge, Seated, IdleAdd
  <2> QED BY <2>1, <1>a DEF Seat
<1>19. CASE Restart
  BY <1>19 DEF Restart, IdleGive
<1>20. CASE UNCHANGED vars
  BY <1>20, <1>b DEF vars, room, driver
<1> QED BY <1>1, <1>2, <1>3, <1>4, <1>5, <1>6, <1>7, <1>8, <1>9, <1>10, <1>11, <1>12, <1>13,
          <1>14, <1>15, <1>16, <1>17, <1>18, <1>19, <1>20 DEF Next, TickStep, GiveUpStep

(* N22 of the code: giving up ends the turn of a seat that a bot holds, and    *)
(* leaves a person's turn alone, but for what changes after the seat was       *)
(* looked at.                                                                  *)
THEOREM ForcedEndsAreBots == Spec => ForcedEndIsABots
<1>1. Init => Sought
  BY DEF Init, Sought, IdleGive
<1>2. TypeOK /\ Sought /\ [Next]_vars =>
        [ForceEndTurn => "giveUp" \in crossed \/ Seat \in Seated]_vars
  BY DEF Sought, ForceEndTurn
<1> QED BY <1>1, <1>2, SoughtKept, InitTyped, NextTyped, PTL DEF Spec, ForcedEndIsABots

-----------------------------------------------------------------------------
(* The cache of rooms without bots                                           *)

\* A roster without bots that is about to be noted still tells the truth.
NoteIsTrue ==
  tick.at = "note" /\ ~tick.bot /\ cache = "unknown" => Seated = {} \/ "note" \in crossed
Botless == BotlessIsTrue /\ NoteIsTrue

LEMMA BotlessKept == TypeOK /\ Botless /\ [Next]_vars => Botless'
<1> SUFFICES ASSUME TypeOK, Botless, [Next]_vars PROVE Botless'
  OBVIOUS
<1> USE DEF Botless, BotlessIsTrue, NoteIsTrue
<1>a. ASSUME UNCHANGED <<bots, adding, cache>>, "note" \in crossed => "note" \in crossed',
             tick' = tick \/ tick'.at # "note"
      PROVE  Botless'
  BY <1>a DEF Seated
<1>1. CASE Roster
  <2>1. UNCHANGED <<bots, adding, cache, crossed>>
    BY <1>1 DEF Roster, room
  <2>2. CASE Go([tick EXCEPT !.at = "note", !.bot = bots # {}])
    <3>1. tick'.bot = (bots # {})
      BY <2>2 DEF Go, TypeOK, Tick
    <3> QED BY <2>1, <3>1 DEF Seated
  <2>3. CASE Finish(TRUE, {}, FALSE)
    BY <2>1, <2>3, <1>a, FinishLeaves
  <2> QED BY <1>1, <2>2, <2>3 DEF Roster
<1>2. CASE Note
  <2>1. UNCHANGED <<bots, adding, crossed>> /\ tick.at = "note"
    BY <1>2 DEF Note, room
  <2>2. tick'.at # "note"
    BY <1>2, FinishLeaves DEF Note, Go, TypeOK, Tick
  <2>3. cache' = "none" => Seated = {} \/ "note" \in crossed
    BY <1>2 DEF Note, TypeOK
  <2> QED BY <2>1, <2>2, <2>3 DEF Seated
<1>3. CASE Read
  BY <1>3, <1>a, FinishLeaves DEF Read, Go, room, TypeOK, Tick
<1>4. CASE FindSeat
  BY <1>4, <1>a, FinishLeaves DEF FindSeat, Go, room, TypeOK, Tick
<1>5. CASE Check
  BY <1>5, <1>a, FinishLeaves DEF Check, Go, room, TypeOK, Tick
<1>6. CASE Move \/ MoveThenFail
  <2>1. tick'.at # "note"
    BY <1>6, FinishLeaves DEF Move, MoveThenFail, IdleTick
  <2>2. \E g : Write(g, "tick")
    BY <1>6 DEF Move, MoveThenFail
  <2>3. UNCHANGED <<bots, adding, cache>>
    BY <1>6 DEF Move, MoveThenFail
  <2> QED BY <2>1, <2>2, <2>3, <1>a, WriteMarks
<1>7. CASE MoveFails
  BY <1>7, <1>a, FinishLeaves DEF MoveFails, room
<1>8. CASE ReArmFires \/ Notify
  BY <1>8, <1>a, TickRoomLeaves DEF ReArmFires, Notify, room
<1>9. CASE GiveUpLook \/ GiveUpFails
  BY <1>9, <1>a DEF GiveUpLook, GiveUpFails, room
<1>10. CASE ForceEndTurn
  BY <1>10, <1>a, TickRoomLeaves, WriteMarks DEF ForceEndTurn
<1>11. CASE LateLands
  BY <1>11, <1>a, WriteMarks DEF LateLands
<1>12. CASE PeopleMove
  BY <1>12, <1>a, WriteMarks DEF PeopleMove, driver
<1>13. CASE HostMoves
  <2>1. \E g : Write(g, "other")
    BY <1>13 DEF HostMoves
  <2>2. UNCHANGED <<bots, adding, cache, tick>>
    BY <1>13 DEF HostMoves, driver
  <2> QED BY <2>1, <2>2, <1>a, WriteMarks
<1>14. CASE (\E s \in BotSeat : AddBot(s)) \/ Nudge
  <2>1. UNCHANGED <<cache, crossed>> /\ (tick' = tick \/ tick'.at # "note")
    BY <1>14, TickRoomLeaves DEF AddBot, Nudge, driver
  <2>2. Seated = {} => Seated' = {}
    <3>1. ASSUME NEW s \in BotSeat, AddBot(s) PROVE Seated = {} => Seated' = {}
      BY <3>1 DEF AddBot, Seated
    <3>2. Nudge => Seated' = Seated
      BY DEF Nudge, Seated, IdleAdd
    <3> QED BY <1>14, <3>1, <3>2
  <2> QED BY <2>1, <2>2
<1>15. CASE ListBot
  <2>1. CASE cache' = "bot"
    BY <2>1
  <2>2. CASE cache' # "bot"
    <3>1. UNCHANGED <<cache, crossed, tick>>
      BY <1>15, <2>2 DEF ListBot, driver
    <3>2. Seated = {} => Seated' = {}
      BY <1>15, <2>2 DEF ListBot, Seated, IdleAdd
    <3> QED BY <3>1, <3>2
  <2> QED BY <2>1, <2>2
<1>16. CASE \E s \in BotSeat : RemoveBot(s)
  <2>1. PICK s \in BotSeat : RemoveBot(s)
    BY <1>16
  <2>2. cache' = "unknown"
    BY <2>1 DEF RemoveBot
  <2>3. tick'.at = "note" => "note" \in crossed'
    BY <2>1, BeginsUnread DEF RemoveBot, TypeOK, Tick
  <2> QED BY <2>2, <2>3
<1>17. CASE Restart
  BY <1>17 DEF Restart, IdleTick
<1>18. CASE UNCHANGED vars
  BY <1>18, <1>a DEF vars, room, driver
<1> QED BY <1>1, <1>2, <1>3, <1>4, <1>5, <1>6, <1>7, <1>8, <1>9, <1>10, <1>11, <1>12, <1>13,
          <1>14, <1>15, <1>16, <1>17, <1>18 DEF Next, TickStep, GiveUpStep

(* The fast path of E3 skips no room that has a bot, but for a roster read     *)
(* before an add that a removal made the cache forget again.                   *)
THEOREM BotlessRoomsHaveNone == Spec => []BotlessIsTrue
<1>1. Init => Botless
  BY DEF Init, Botless, BotlessIsTrue, NoteIsTrue, Seated, IdleTick
<1>2. Botless => BotlessIsTrue
  BY DEF Botless
<1> QED BY <1>1, <1>2, BotlessKept, InitTyped, NextTyped, PTL DEF Spec
=============================================================================
