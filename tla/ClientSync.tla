----------------------------- MODULE ClientSync -----------------------------
(* One client's copy of the game: what the server commits, what it          *)
(* announces later or never, the snapshot of a join or a resync, and a link *)
(* that drops.                                                              *)
EXTENDS Naturals, FiniteSets, Sequences

CONSTANTS
  Card, NoCard,
  MaxGames, MaxMoves, MaxMutes, MaxDrops, MaxAsks   \* bounds of the instance

ASSUME BoundsAssumption ==
  /\ MaxGames \in Nat \ {0}
  /\ MaxMoves \in Nat /\ MaxMutes \in Nat /\ MaxDrops \in Nat /\ MaxAsks \in Nat

VARIABLES
  game,       \* the stored game
  owed,       \* what handlers have committed and not announced yet
  count,      \* bound: how many commits, silent commits, drops and resyncs so far
  link,       \* whether the socket is connected
  mode,       \* what the page shows: "joining", "in", "rejoining" or "out"
  view,       \* the page's copy of the game
  member,     \* the socket is in the socket.io room
  job,        \* the room:join under way: "none", "asked", "read" or "entered"
  resync,     \* a room:resync is under way
  snap,       \* the game the request under way read first
  channel,    \* what the server has sent and the page has not seen
  causes      \* history: why the page may differ from the game

server == <<game, owed>>
page   == <<mode, view>>
socket == <<link, member, job, resync, snap>>
vars   == <<server, page, socket, count, channel, causes>>

Turn   == {"red", "blue"}
Other(t) == IF t = "red" THEN "blue" ELSE "red"
Games  == [number : 0 .. MaxGames, revealed : SUBSET Card, turn : Turn,
           clue : BOOLEAN, over : BOOLEAN, paused : BOOLEAN]
NoGame == [number |-> 0, revealed |-> {}, turn |-> "red",
           clue |-> FALSE, over |-> FALSE, paused |-> FALSE]

\* Announced before the next move can be committed: the emit follows the lock's
\* release. The others wait for a timer, a finalization or the roles first.
Prompt == {"cardRevealed", "clueGiven", "turnEnded", "abandoned"}
Slow   == {"gameStarted", "gameOver", "gamePaused", "gameResumed"}
Reply  == {"roomJoined", "roomResynced", "refused"}
Message(kinds) == [kind : kinds, card : Card \cup {NoCard}, was : Games, then : Games]

TypeOK ==
  /\ game \in Games /\ view \in Games
  /\ owed \subseteq Message(Prompt \cup Slow)
  /\ Cardinality({a \in owed : a.kind \in Prompt}) <= 1
  /\ channel \in Seq(Message(Prompt \cup Slow \cup Reply))
  /\ count \in [moves : 0 .. MaxMoves, mutes : 0 .. MaxMutes,
                drops : 0 .. MaxDrops, asks : 0 .. MaxAsks]
  /\ link \in BOOLEAN /\ member \in BOOLEAN /\ resync \in BOOLEAN
  /\ mode \in {"joining", "in", "rejoining", "out"}
  /\ job \in {"none", "asked", "read", "entered"}
  /\ snap \in Games
  /\ causes \subseteq {"stale", "overtaken", "unannounced", "leftover"}
  /\ (member \/ resync \/ job # "none" \/ channel # <<>>) => link
  /\ (job # "none") => (mode \in {"joining", "rejoining"})

\* A page that has just sent room:join, in a room with no game yet or with one;
\* nothing resets gamePaused, so it may remember the pause of a room it left.
Init ==
  /\ game \in {NoGame, [NoGame EXCEPT !.number = 1]}
  /\ owed = {} /\ channel = <<>>
  /\ count = [moves |-> 0, mutes |-> 0, drops |-> 0, asks |-> 0]
  /\ link = TRUE /\ member = FALSE /\ resync = FALSE
  /\ mode = "joining" /\ job = "asked"
  /\ view \in {NoGame, [NoGame EXCEPT !.paused = TRUE]} /\ snap = NoGame
  /\ causes = IF view.paused THEN {"leftover"} ELSE {}

-----------------------------------------------------------------------------
(* The server commits a change of the game; the announcement is owed, or    *)
(* never made when the handler had given up on the change by then. A page   *)
(* that has left is followed no further.                                    *)
Commit(kind, card, g) ==
  /\ mode # "out"
  /\ \A a \in owed : a.kind \notin Prompt
  /\ count.moves < MaxMoves
  /\ game' = g
  /\ \/ /\ owed' = owed \cup {[kind |-> kind, card |-> card, was |-> game, then |-> g]}
        /\ count' = [count EXCEPT !.moves = @ + 1]
        /\ UNCHANGED causes
     \/ /\ count.mutes < MaxMutes
        /\ count' = [count EXCEPT !.moves = @ + 1, !.mutes = @ + 1]
        /\ causes' = causes \cup {"unannounced"}
        /\ UNCHANGED owed
  /\ UNCHANGED <<page, socket, channel>>

Playing == game.number > 0 /\ ~game.over /\ ~game.paused

Clue == Playing /\ ~game.clue /\ Commit("clueGiven", NoCard, [game EXCEPT !.clue = TRUE])

\* A reveal leaves the turn, passes it and takes the clue, or ends the game.
Reveal(c) ==
  /\ Playing /\ game.clue /\ c \notin game.revealed
  /\ LET shown == [game EXCEPT !.revealed = @ \cup {c}]
     IN  \/ Commit("cardRevealed", c, shown)
         \/ Commit("cardRevealed", c, [shown EXCEPT !.turn = Other(@), !.clue = FALSE])
         \/ Commit("cardRevealed", c, [shown EXCEPT !.over = TRUE])

EndTurn ==
  Playing /\ Commit("turnEnded", NoCard, [game EXCEPT !.turn = Other(@), !.clue = FALSE])

Forfeit == Playing /\ Commit("gameOver", NoCard, [game EXCEPT !.over = TRUE])
Abandon == Playing /\ Commit("abandoned", NoCard, [game EXCEPT !.over = TRUE])

Pause ==
  /\ game.number > 0 /\ ~game.over
  /\ Commit("gamePaused", NoCard, [game EXCEPT !.paused = TRUE])
Resume ==
  /\ game.number > 0 /\ ~game.over
  /\ Commit("gameResumed", NoCard, [game EXCEPT !.paused = FALSE])

\* game:start and game:nextRound, announced after the roles are reset.
StartGame ==
  /\ (game.number = 0 \/ game.over) /\ game.number < MaxGames
  /\ \E t \in Turn :
       Commit("gameStarted", NoCard, [NoGame EXCEPT !.number = game.number + 1, !.turn = t])

\* Whether the page, once it has seen a, shows what is no longer so and nothing
\* still owed puts right.
Outdated(a) ==
  CASE a.kind \in {"gamePaused", "gameResumed"} ->
         /\ a.then.paused # game.paused
         /\ \A b \in owed : b.kind \in {"gamePaused", "gameResumed"} =>
              b.then.paused # game.paused
    [] a.kind = "gameOver" ->
         /\ a.then.number # game.number
         /\ \A b \in owed : b.kind = "gameStarted" => b.then.number # game.number
    [] a.kind = "gameStarted" ->
         /\ a.then # game
         /\ \A b \in owed : b.was # a.then \/ b.then # game
    [] OTHER -> FALSE

\* The handler goes on to its emit: to the sockets in the room at that moment.
Announce(a) ==
  /\ a \in owed /\ mode # "out"
  /\ owed' = (owed \ {a}) \cup
       IF a.kind = "cardRevealed" /\ a.then.over THEN {[a EXCEPT !.kind = "gameOver"]} ELSE {}
  /\ channel' = IF member THEN Append(channel, [a EXCEPT !.was = NoGame]) ELSE channel
  /\ causes' = causes
       \cup (IF job \in {"read", "entered"} /\ a.then # snap THEN {"stale"} ELSE {})
       \cup (IF member /\ Outdated(a) THEN {"overtaken"} ELSE {})
  /\ UNCHANGED <<game, page, socket, count>>

-----------------------------------------------------------------------------
(* room:join: the game is read, then the room and its players; the socket   *)
(* joins the room; the reply carries the game that was read.                *)
\* A snapshot overwrites all the page has, unless there is no game to send.
CausesAfterRead == IF game.number = 0 THEN causes \cap {"leftover"} ELSE {}

Send(kind, g) ==
  channel' = Append(channel, [kind |-> kind, card |-> NoCard, was |-> NoGame, then |-> g])

JoinReads ==
  /\ job = "asked"
  /\ job' = "read" /\ snap' = game /\ causes' = CausesAfterRead
  /\ UNCHANGED <<server, page, count, channel, link, member, resync>>

JoinEnters ==
  /\ job = "read"
  /\ job' = "entered" /\ member' = TRUE
  /\ UNCHANGED <<server, page, count, channel, causes, link, resync, snap>>

JoinReplies ==
  /\ job = "entered"
  /\ job' = "none" /\ snap' = NoGame
  /\ Send("roomJoined", snap)
  /\ UNCHANGED <<server, page, count, causes, link, member, resync>>

JoinRefused ==
  /\ job # "none"
  /\ job' = "none" /\ snap' = NoGame
  /\ Send("refused", NoGame)
  /\ UNCHANGED <<server, page, count, causes, link, member, resync>>

\* room:resync reads the game again right before it replies, whatever the game
\* was when its context was read; or it fails, which the page only logs.
Mut_ResyncReplies ==
  /\ resync
  /\ resync' = FALSE /\ snap' = NoGame
  /\ Send("roomResynced", snap) /\ causes' = CausesAfterRead
  /\ UNCHANGED <<server, page, count, link, member, job>>
ResyncReplies ==
  /\ resync
  /\ resync' = FALSE /\ snap' = NoGame
  /\ \/ Send("roomResynced", game) /\ causes' = CausesAfterRead
     \/ UNCHANGED <<channel, causes>>
  /\ UNCHANGED <<server, page, count, link, member, job>>

-----------------------------------------------------------------------------
(* The page.                                                                *)
Synced(v, g) == IF g.number > 0 THEN g ELSE v
Reset(v)     == [NoGame EXCEPT !.paused = v.paused]

\* A card that is revealed already is left alone, with its turn; a reveal that
\* passes the turn takes the clue, one that ends the game does not.
Mut_Revealed(v, m) ==
  IF v.number = 0 \/ m.card \in v.revealed THEN v
  ELSE [v EXCEPT !.revealed = @ \cup {m.card}, !.turn = m.then.turn, !.over = m.then.over]
Revealed(v, m) ==
  IF v.number = 0 \/ m.card \in v.revealed THEN v
  ELSE [v EXCEPT !.revealed = @ \cup {m.card}, !.turn = m.then.turn, !.over = m.then.over,
                 !.clue = @ /\ (m.then.clue \/ m.then.over)]

\* What the handler of each announcement does to the page's copy: none looks at
\* which game it is for.
Applied(v, m) ==
  CASE m.kind = "gameStarted"               -> Synced(v, m.then)
    [] m.kind = "cardRevealed"              -> Revealed(v, m)
    [] m.kind = "clueGiven"                 -> [v EXCEPT !.clue = TRUE]
    [] m.kind = "turnEnded"                 -> [v EXCEPT !.turn = m.then.turn, !.clue = FALSE]
    [] m.kind \in {"gameOver", "abandoned"} -> [v EXCEPT !.over = TRUE]
    [] m.kind = "gamePaused"                -> [v EXCEPT !.paused = TRUE]
    [] m.kind = "gameResumed"               -> [v EXCEPT !.paused = FALSE]

\* leaveMultiplayerMode: the room is left and the page forgets its game.
Leave ==
  /\ mode' = "out" /\ view' = Reset(view)
  /\ member' = FALSE /\ job' = "none" /\ resync' = FALSE /\ snap' = NoGame
  /\ channel' = <<>>
  /\ UNCHANGED <<server, count, link, causes>>

ReceiveAnnouncement ==
  /\ channel # <<>> /\ Head(channel).kind \notin Reply
  /\ view' = Applied(view, Head(channel))
  /\ channel' = Tail(channel)
  /\ UNCHANGED <<server, socket, count, causes, mode>>

\* The first join shows the snapshot, or no board; a rejoin shows the snapshot
\* and asks for a resync.
Mut_ReceiveJoined ==
  /\ channel # <<>> /\ Head(channel).kind = "roomJoined"
  /\ mode' = IF mode = "joining" THEN "in" ELSE mode
  /\ view' = Synced(IF mode = "joining" THEN Reset(view) ELSE view, Head(channel).then)
  /\ resync' = (mode = "rejoining")
  /\ snap' = IF mode = "rejoining" THEN game ELSE snap
  /\ channel' = Tail(channel)
  /\ UNCHANGED <<server, count, causes, link, member, job>>
ReceiveJoined ==
  /\ channel # <<>> /\ Head(channel).kind = "roomJoined"
  /\ mode' = "in"
  /\ view' = Synced(IF mode = "joining" THEN Reset(view) ELSE view, Head(channel).then)
  /\ resync' = (mode = "rejoining")
  /\ snap' = IF mode = "rejoining" THEN game ELSE snap
  /\ channel' = Tail(channel)
  /\ UNCHANGED <<server, count, causes, link, member, job>>

ReceiveResynced ==
  /\ channel # <<>> /\ Head(channel).kind = "roomResynced"
  /\ view' = Synced(view, Head(channel).then)
  /\ channel' = Tail(channel)
  /\ UNCHANGED <<server, socket, count, causes, mode>>

ReceiveRefused == channel # <<>> /\ Head(channel).kind = "refused" /\ Leave

\* The timer of a join, or of the rejoin of an earlier connection, which no
\* disconnection stops and which ends the later rejoin too.
JoinTimesOut == mode \in {"joining", "rejoining"} /\ Leave

\* A resync the page asks for outside a rejoin.
AskResync ==
  /\ mode = "in" /\ link /\ ~resync /\ count.asks < MaxAsks
  /\ resync' = TRUE /\ snap' = game
  /\ count' = [count EXCEPT !.asks = @ + 1]
  /\ UNCHANGED <<server, page, link, member, job, channel, causes>>

\* What was sent to the connection is gone with it; a first join is not retried.
Drop ==
  /\ link /\ mode # "out" /\ count.drops < MaxDrops
  /\ link' = FALSE /\ member' = FALSE /\ job' = "none" /\ resync' = FALSE
  /\ snap' = NoGame /\ channel' = <<>>
  /\ mode' = IF mode = "joining" THEN "out" ELSE mode
  /\ view' = IF mode = "joining" THEN Reset(view) ELSE view
  /\ count' = [count EXCEPT !.drops = @ + 1]
  /\ UNCHANGED <<server, causes>>

\* Whether its first retry succeeded or its tenth, a page that lost its
\* connection sends room:join again.
Reconnect ==
  /\ ~link /\ mode # "out"
  /\ link' = TRUE /\ mode' = "rejoining" /\ job' = "asked"
  /\ UNCHANGED <<server, count, view, member, resync, snap, channel, causes>>

Serve ==
  JoinReads \/ JoinEnters \/ JoinReplies \/ ResyncReplies \/ (\E a \in owed : Announce(a))
Receive == ReceiveAnnouncement \/ ReceiveJoined \/ ReceiveResynced \/ ReceiveRefused

Next ==
  \/ Clue \/ (\E c \in Card : Reveal(c)) \/ EndTurn \/ Forfeit \/ Abandon
  \/ Pause \/ Resume \/ StartGame
  \/ Serve \/ JoinRefused \/ Receive
  \/ JoinTimesOut \/ AskResync \/ Drop \/ Reconnect

\* Handlers go on, sockets deliver and socket.io retries without end; nobody
\* has to play, and no timer has to fire.
Spec == Init /\ [][Next]_vars /\ WF_vars(Serve) /\ WF_vars(Receive) /\ WF_vars(Reconnect)

-----------------------------------------------------------------------------
Settled == link /\ mode = "in" /\ job = "none" /\ ~resync /\ channel = <<>> /\ owed = {}

\* Types hold, and with nothing under way the page shows the stored game, whatever was dropped,
\* announced late or read early, unless a named window of the protocol was met
\* since the last resync: an announcement between a join's read and its reply,
\* one that another handler overtook, a commit nobody announced, the pause of a
\* room left before.
InStep == TypeOK /\ ((Settled /\ causes = {}) => view = game)

\* A resync never turns back a card the page shows revealed on the same board:
\* the game is read again right before the reply, whatever was committed and
\* announced while the rest of the answer was gathered.
SeenStaysSeen ==
  [][(ReceiveResynced /\ view'.number = view.number) =>
       view.revealed \subseteq view'.revealed]_vars

\* The page does not wait for ever: it leaves the room or has caught up.
Settles == <>[](mode = "out" \/ Settled)
=============================================================================
