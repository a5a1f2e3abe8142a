---------------------------- MODULE BotController ----------------------------
(* The driver of the bots of one room, in one process: game mutations call    *)
(* tickRoom, which plays for the seat that is to act as long as a bot holds    *)
(* it, retries what fails, and at last ends the turn by force.  Each step is   *)
(* what runs between two awaits.  People move when no bot holds the seat, and  *)
(* the host pauses, forfeits, starts games, adds and removes bots at any time. *)
EXTENDS Naturals, FiniteSets

CONSTANTS
  BotSeat,      \* the seats, <<team, role>>, that the host gives to bots
  MaxReArms,    \* MAX_REARM_ATTEMPTS
  MaxActions,   \* MAX_ACTIONS_PER_TICK
  MaxGames,     \* bound: the games of the room
  MaxRequests   \* bound: the host's requests and the restarts

Team  == {"red", "blue"}
Actor == {"spymaster", "clicker"}
Other(t) == IF t = "red" THEN "blue" ELSE "red"

ASSUME SeatsAssumption == BotSeat \subseteq Team \X Actor
ASSUME BoundsAssumption ==
  MaxReArms \in Nat /\ MaxActions \in Nat \ {0} /\ MaxGames \in Nat /\ MaxRequests \in Nat

\* role tells whether a clue is given; parity is stateVersion % 2.
Game == [number : 0 .. MaxGames, live : BOOLEAN, paused : BOOLEAN,
         team : Team, role : Actor, parity : 0 .. 1]
\* An operation under way, decided on in game number.
Op   == [kind : {"clue", "reveal", "endTurn"}, team : Team, number : 0 .. MaxGames]
NoOp == [kind |-> "endTurn", team |-> "red", number |-> 0]

VARIABLES
  game,      \* room:<code>:game
  bots,      \* the seats whose bot has a record
  adding,    \* addBot under bot-manage: its next step and the seat
  cache,     \* botRoomCache: is there a bot in the room?
  tick,      \* the tick under way (inFlight): its next step, what it read
  pending,   \* pending: a mutation came while a tick was under way
  streak,    \* failureStreak
  armed,     \* reArmTimers: a retry is scheduled
  giving,    \* giveUpAndForceEndTurn
  late,      \* an operation whose caller has stopped waiting
  owed,      \* a mutation is stored and not yet notified; the reveal lock is held
  asked,     \* the host's requests and restarts so far
  crossed,   \* history: the game or the seats changed after the last look
  stalled    \* history: why nothing is scheduled since the last tick

room   == <<game, bots, adding>>
driver == <<tick, pending, streak, armed, giving, stalled>>
vars   == <<room, cache, driver, late, owed, asked, crossed>>

IdleTick == [at |-> "idle", number |-> 0, seat |-> <<"red", "spymaster">>,
             gone |-> FALSE, bot |-> FALSE, done |-> 0, op |-> NoOp]
IdleGive == [at |-> "idle", seat |-> <<"red", "spymaster">>]
IdleAdd  == [at |-> "idle", seat |-> <<"red", "spymaster">>]

Init ==
  /\ game = [number |-> 0, live |-> FALSE, paused |-> FALSE, team |-> "red",
             role |-> "spymaster", parity |-> 0]
  /\ bots = {} /\ adding = IdleAdd /\ cache = "unknown"
  /\ tick = IdleTick /\ pending = FALSE /\ streak = 0 /\ armed = FALSE
  /\ giving = IdleGive /\ late = {} /\ owed = FALSE /\ asked = 0
  /\ crossed = {} /\ stalled = {}

-----------------------------------------------------------------------------
(* The game                                                                  *)

Playing == game.live /\ ~game.paused
Seat    == <<game.team, game.role>>
\* Bots that getTeamMembers shows: their team set has them.
Seated  == IF adding.at = "list" THEN bots \ {adding.seat} ELSE bots

\* What the Lua scripts ask of an operation: the game it was meant for is not asked.
Lands(op) ==
  /\ Playing /\ game.team = op.team
  /\ op.kind = "clue" => game.role = "spymaster"
  /\ op.kind = "reveal" => game.role = "clicker"

NextTurn(g) == [g EXCEPT !.team = Other(@), !.role = "spymaster"]
Results(op) ==
  CASE op.kind = "clue"    -> {[game EXCEPT !.role = "clicker"]}
    [] op.kind = "reveal"  -> {game, NextTurn(game), [game EXCEPT !.live = FALSE]}
    [] op.kind = "endTurn" -> {NextTurn(game)}

\* Who looked before and has not acted yet acts on something else: all but me.
Cross(me) ==
  crossed' = (crossed \ {me}) \cup
             {w \in {"tick", "giveUp"} \ {me} : \/ w = "tick" /\ tick.at = "apply"
                                                \/ w = "giveUp" /\ giving.at = "end"}

\* A write under the reveal lock.
Write(g, me) == ~owed /\ game' = [g EXCEPT !.parity = 1 - @] /\ Cross(me)

Asks == asked < MaxRequests /\ asked' = asked + 1

-----------------------------------------------------------------------------
(* tickRoom, called and ended                                                *)

\* inFlight is taken and the marker dropped.
Begin ==
  /\ tick' = [IdleTick EXCEPT !.at = IF cache' = "unknown" THEN "roster" ELSE "read"]
  /\ pending' = FALSE /\ stalled' = {}

\* Mutant: what comes while a tick is under way is dropped.
Mut_TickRoom ==
  IF cache' = "none" \/ tick.at # "idle" THEN UNCHANGED <<tick, pending, stalled>> ELSE Begin

TickRoom ==
  CASE cache' = "none" -> UNCHANGED <<tick, pending, stalled>>
    [] cache' # "none" /\ tick.at # "idle" -> pending' = TRUE /\ UNCHANGED <<tick, stalled>>
    [] OTHER -> Begin

\* The room gets its retry, or a forced end and a fresh streak.  A give-up is
\* over long before another streak runs out.
ScheduleReArm ==
  IF streak + 1 > MaxReArms
    THEN /\ streak' = 0 /\ armed' = FALSE
         /\ giving.at = "idle" /\ giving' = [IdleGive EXCEPT !.at = "look"]
    ELSE streak' = streak + 1 /\ armed' = TRUE /\ UNCHANGED giving

\* The end of a tick; more: a notification was its own doing.
Finish(failed, why, more) ==
  IF pending \/ more
    THEN /\ IF cache' = "none" THEN tick' = IdleTick /\ pending' = FALSE /\ UNCHANGED stalled
                               ELSE Begin
         /\ UNCHANGED <<streak, armed, giving>>
    ELSE /\ tick' = IdleTick /\ stalled' = stalled \cup why
         /\ IF failed THEN ScheduleReArm
                      ELSE streak' = 0 /\ armed' = FALSE /\ UNCHANGED giving
         /\ UNCHANGED pending

Go(t) == tick' = t /\ UNCHANGED <<pending, streak, armed, giving, stalled>>

-----------------------------------------------------------------------------
(* The steps of a tick                                                       *)

\* roomHasBot, for a room the cache knows nothing of.
Roster ==
  /\ tick.at = "roster"
  /\ UNCHANGED <<room, cache, late, owed, asked, crossed>>
  /\ \/ Go([tick EXCEPT !.at = "note", !.bot = bots # {}])
     \/ Finish(TRUE, {}, FALSE)

Note ==
  /\ tick.at = "note"
  /\ cache' = IF cache # "unknown" THEN cache ELSE IF tick.bot THEN "bot" ELSE "none"
  /\ IF cache' = "none" THEN Finish(FALSE, {}, FALSE) ELSE Go([tick EXCEPT !.at = "read"])
  /\ UNCHANGED <<room, late, owed, asked, crossed>>

Read ==
  /\ tick.at = "read"
  /\ UNCHANGED <<room, cache, late, owed, asked, crossed>>
  /\ \/ IF Playing THEN Go([tick EXCEPT !.at = "seat", !.number = game.number, !.seat = Seat])
                   ELSE Finish(FALSE, {}, FALSE)
     \/ Finish(TRUE, {}, FALSE)

\* The roster of the team that was to act; a bot that is there decides.
FindSeat ==
  /\ tick.at = "seat"
  /\ UNCHANGED <<room, cache, late, owed, asked, crossed>>
  /\ \/ IF tick.seat \in Seated
          THEN \E kind \in IF tick.seat[2] = "spymaster" THEN {"clue"} ELSE {"reveal", "endTurn"} :
                 Go([tick EXCEPT !.at = "check", !.op = [kind |-> kind, team |-> tick.seat[1],
                                                         number |-> tick.number]])
          ELSE Finish(FALSE, {}, FALSE)
     \/ Finish(TRUE, {}, FALSE)

\* Mutant: a game that is not the one the bot decided in will do.
Mut_MayStillAct == ~tick.gone /\ Playing

\* botMayStillAct: the same bot, and the same game.
MayStillAct == ~tick.gone /\ Playing /\ game.number = tick.number

\* A read that fails here is taken for a lost seat: the tick ends cleanly.
Check ==
  /\ tick.at = "check"
  /\ UNCHANGED <<room, cache, late, owed, asked>>
  /\ \/ IF MayStillAct THEN Go([tick EXCEPT !.at = "apply"]) ELSE Finish(FALSE, {}, FALSE)
     \/ Finish(FALSE, {"unread"}, FALSE)
  /\ crossed' = crossed \ {"tick"}

\* The move is stored and notified, and the tick goes on.
Move ==
  /\ tick.at = "apply" /\ Lands(tick.op)
  /\ UNCHANGED <<bots, adding, cache, late, owed, asked>>
  /\ \E g \in Results(tick.op) : Write(g, "tick")
  /\ IF tick.done + 1 < MaxActions /\ cache # "none"
       THEN /\ tick' = [IdleTick EXCEPT !.at = "read", !.done = tick.done + 1]
            /\ pending' = TRUE /\ streak' = 0 /\ armed' = FALSE /\ UNCHANGED <<giving, stalled>>
       ELSE Finish(FALSE, {}, cache # "none")

\* The move is stored and notified; a broadcast or the timer fails after it.
MoveThenFail ==
  /\ tick.at = "apply" /\ Lands(tick.op)
  /\ UNCHANGED <<bots, adding, cache, late, owed, asked>>
  /\ \E g \in Results(tick.op) : Write(g, "tick")
  /\ Finish(TRUE, {}, cache # "none")

\* The move is refused, or the lock cannot be had, or nobody waits any longer
\* for an operation that goes on.
MoveFails ==
  /\ tick.at = "apply"
  /\ UNCHANGED <<room, cache, owed, asked>>
  /\ late' \in {late} \cup (IF late = {} THEN {{tick.op}} ELSE {})
  /\ Finish(TRUE, {}, FALSE)
  /\ crossed' = crossed \ {"tick"}

TickStep == Roster \/ Note \/ Read \/ FindSeat \/ Check \/ Move \/ MoveThenFail \/ MoveFails

ReArmFires ==
  /\ armed
  /\ armed' = FALSE
  /\ UNCHANGED <<room, cache, streak, giving, late, owed, asked, crossed>>
  /\ TickRoom

-----------------------------------------------------------------------------
(* giveUpAndForceEndTurn                                                     *)

EndGiving(why) == giving' = IdleGive /\ stalled' = stalled \cup why

\* Mutant: whoever holds the seat.
Mut_Stuck == Playing

\* A bot still holds the seat that is to act.
Stuck == Playing /\ Seat \in Seated

GiveUpLook ==
  /\ giving.at = "look"
  /\ \/ IF Stuck THEN giving' = [at |-> "end", seat |-> Seat] /\ UNCHANGED stalled
                 ELSE EndGiving({})
     \/ EndGiving({"refused"})
  /\ crossed' = crossed \ {"giveUp"}
  /\ UNCHANGED <<room, cache, tick, pending, streak, armed, late, owed, asked>>

ForceEndTurn ==
  /\ giving.at = "end"
  /\ Lands([kind |-> "endTurn", team |-> giving.seat[1], number |-> game.number])
  /\ giving' = IdleGive
  /\ Write(NextTurn(game), "giveUp")
  /\ UNCHANGED <<bots, adding, cache, streak, armed, late, owed, asked>>
  /\ TickRoom

\* Its failure is logged and nothing else.
GiveUpFails ==
  /\ giving.at = "end"
  /\ EndGiving({"refused"})
  /\ crossed' = crossed \ {"giveUp"}
  /\ UNCHANGED <<room, cache, tick, pending, streak, armed, late, owed, asked>>

GiveUpStep == GiveUpLook \/ ForceEndTurn \/ GiveUpFails

-----------------------------------------------------------------------------
(* What the room and the process do                                          *)

\* An operation nobody waits for lands, or is lost.
LateLands ==
  \E op \in late :
    /\ late' = {}
    /\ UNCHANGED <<bots, adding, cache, streak, armed, giving, asked>>
    /\ \/ /\ Lands(op) /\ \E g \in Results(op) : Write(g, "other")
          /\ owed' = TRUE
          /\ UNCHANGED <<tick, pending, stalled>>
       \/ UNCHANGED <<game, tick, pending, stalled, owed, crossed>>

\* People move when no bot holds the seat; a team's clicker may end the turn.
PeopleMove ==
  /\ Seat \notin bots
  /\ \E kind \in {"clue", "reveal", "endTurn"} :
       LET op == [kind |-> kind, team |-> game.team, number |-> game.number] IN
       /\ Lands(op) /\ (kind = "endTurn" => game.role = "clicker")
       /\ \E g \in Results(op) : Write(g, "other")
  /\ owed' = TRUE
  /\ UNCHANGED <<bots, adding, cache, driver, late, asked>>

\* The host pauses, resumes, forfeits or abandons, and starts games.
HostMoves ==
  /\ Asks
  /\ \/ game.live /\ \E p \in BOOLEAN : p # game.paused /\ Write([game EXCEPT !.paused = p], "other")
     \/ Playing /\ Write([game EXCEPT !.live = FALSE], "other")
     \/ /\ ~game.live /\ game.number < MaxGames
        /\ \E t \in Team : Write([game EXCEPT !.number = @ + 1, !.live = TRUE, !.paused = FALSE,
                                              !.team = t, !.role = "spymaster"], "other")
  /\ owed' = TRUE
  /\ UNCHANGED <<bots, adding, cache, driver, late>>

\* notifyGameMutation.
Notify ==
  /\ owed
  /\ owed' = FALSE
  /\ UNCHANGED <<room, cache, streak, armed, giving, late, asked, crossed>>
  /\ TickRoom

\* bot:add: the record, the team set, and a nudge if a game is live.
AddBot(s) ==
  /\ Asks /\ adding.at = "idle" /\ s \notin bots
  /\ bots' = bots \cup {s} /\ adding' = [at |-> "list", seat |-> s]
  /\ UNCHANGED <<game, cache, driver, late, owed, crossed>>

ListBot ==
  /\ adding.at = "list"
  /\ \/ /\ adding' = [adding EXCEPT !.at = "nudge"] /\ cache' = "bot"
        /\ crossed' = crossed \ {"note"} /\ UNCHANGED bots
     \/ adding' = IdleAdd /\ bots' = bots \ {adding.seat} /\ UNCHANGED <<cache, crossed>>
  /\ UNCHANGED <<game, driver, late, owed, asked>>

Nudge ==
  /\ adding.at = "nudge"
  /\ adding' = IdleAdd
  /\ UNCHANGED <<game, bots, cache, streak, armed, giving, late, owed, asked, crossed>>
  /\ \/ IF game.live THEN TickRoom ELSE UNCHANGED <<tick, pending, stalled>>
     \/ stalled' = stalled \cup {"unannounced"} /\ UNCHANGED <<tick, pending>>

\* bot:remove with its nudge, or an eviction without one.
RemoveBot(s) ==
  /\ Asks /\ adding.at # "list" /\ s \in bots
  /\ bots' = bots \ {s} /\ cache' = "unknown"
  /\ crossed' = {w \in {"tick", "giveUp", "note"} :
                   CASE w = "note" -> tick.at = "note"
                     [] w = "tick" -> "tick" \in crossed \/ tick.at = "apply"
                     [] w = "giveUp" -> "giveUp" \in crossed \/ giving.at = "end"}
  /\ UNCHANGED <<game, adding, streak, armed, giving, late, owed>>
  /\ LET mine == tick.at \in {"check", "apply"} /\ tick.seat = s IN
     \/ tick' = [tick EXCEPT !.gone = @ \/ mine] /\ UNCHANGED <<pending, stalled>>
     \/ /\ Playing
        /\ IF tick.at = "idle" THEN Begin
             ELSE tick' = [tick EXCEPT !.gone = @ \/ mine] /\ pending' = TRUE /\ UNCHANGED stalled

\* The process is restarted: what it kept is lost.  No bot is half added.
Restart ==
  /\ Asks /\ adding.at = "idle"
  /\ cache' = "unknown" /\ tick' = IdleTick /\ pending' = FALSE /\ streak' = 0
  /\ armed' = FALSE /\ giving' = IdleGive /\ late' = {} /\ owed' = FALSE
  /\ crossed' = {} /\ stalled' = {"restarted"}
  /\ UNCHANGED room

Next ==
  \/ TickStep \/ ReArmFires \/ GiveUpStep
  \/ LateLands \/ PeopleMove \/ HostMoves \/ Notify
  \/ \E s \in BotSeat : AddBot(s) \/ RemoveBot(s)
  \/ ListBot \/ Nudge \/ Restart

Spec == Init /\ [][Next]_vars

\* Awaits end, timeouts run out, microtasks run: nothing the process has under
\* way is left there.  The host and the people owe nothing.
FairSpec ==
  /\ Spec
  /\ WF_vars(TickStep) /\ WF_vars(ReArmFires) /\ WF_vars(GiveUpStep)
  /\ WF_vars(Notify) /\ WF_vars(ListBot) /\ WF_vars(Nudge)

-----------------------------------------------------------------------------
(* Properties                                                                *)

Tick == [at : {"idle", "roster", "note", "read", "seat", "check", "apply"},
         number : 0 .. MaxGames, seat : Team \X Actor, gone : BOOLEAN, bot : BOOLEAN,
         done : 0 .. MaxActions - 1, op : Op]

\* Types; the streak stays within its cap.
TypeOK ==
  /\ game \in Game /\ bots \subseteq BotSeat
  /\ adding \in [at : {"idle", "list", "nudge"}, seat : Team \X Actor]
  /\ cache \in {"unknown", "none", "bot"}
  /\ tick \in Tick /\ pending \in BOOLEAN /\ streak \in 0 .. MaxReArms /\ armed \in BOOLEAN
  /\ giving \in [at : {"idle", "look", "end"}, seat : Team \X Actor]
  /\ late \subseteq Op /\ owed \in BOOLEAN /\ asked \in 0 .. MaxRequests
  /\ crossed \subseteq {"tick", "giveUp", "note"}
  /\ stalled \subseteq {"unread", "refused", "unannounced", "restarted"}

\* A bot's move lands in the game it was decided in, by a bot that still has its
\* record (botMayStillAct), but for what changed after that last look.
MovesInItsGame ==
  [][(Move \/ MoveThenFail) =>
       "tick" \in crossed \/ (~tick.gone /\ game.number = tick.number)]_vars

\* A forced end falls on a turn a bot was to act in, never on a person's, but
\* for what changed after the look at the seat.
ForcedEndIsABots ==
  [][ForceEndTurn => "giveUp" \in crossed \/ Seat \in Seated]_vars

\* The room is taken for one without bots only while none is listed, but for a
\* roster that was read before a bot was added and another one removed.
BotlessIsTrue == cache = "none" => Seated = {} \/ "note" \in crossed

\* A bot whose turn it is brings it on, however often its moves fail, unless a
\* read before the move or the forced end failed, its arrival was not announced
\* or the process was restarted.
BotsPlayOn ==
  \A p \in 0 .. 1 :
    (Playing /\ Seat \in Seated /\ game.parity = p)
      ~> (~Playing \/ Seat \notin Seated \/ game.parity # p \/ stalled # {}
          \/ "note" \in crossed)
=============================================================================
