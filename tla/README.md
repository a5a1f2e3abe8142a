# Eigennamen: specifications, checks and proofs

Eigennamen is a word-guessing game for two teams, in the manner of Codenames,
played in rooms over WebSockets by people and bots. Its server keeps all shared
state in Redis; several server processes may serve one room. These modules
specify the parts of server and client whose correctness depends on the order in
which handlers, timeouts, Lua scripts, sockets and other processes act. Paths
below are relative to `src/server/src/`, those of `docs/` to the repository's root.

## 1. Inventory

### The parts and how they interact

```
 page (frontend/*) <---- events, snapshots ----+
   |  room:*, game:*, player:*, bot:*          |
   v                                           |
 socket/index.ts  (place per address, session) |
   v                                           |
 handlers (socket/handlers/*, disconnectHandler.ts) ---> mutation notifier
   |            |             |           |                   |
   v            v             v           v                   v
 gameService  timerService  room/*     player/*     bots/botController.ts
   |   \        |    \        |           |           (ticks, retries)
   |    locks   |   setTimeout|           |                   |
   v      v     v   (process) v           v                   v
 Lua scripts, WATCH/MULTI transactions, SET NX locks  ->  Redis
```

A request is authorised from a player context (`playerContext.ts`), passes to a
service that changes one Redis value atomically (a Lua script or a WATCH/MULTI
transaction), and its effects are broadcast to the room. What spans more than one
value, or more than one command, is not atomic: ending a round and banking it,
ending a turn and starting its timer, pausing a game and pausing its timer,
removing a player and passing on the host's role, changing a team and then a
role, committing a move and announcing it.

| part | state | operations | what is hard | what makes it correct |
|---|---|---|---|---|
| Game board: `services/gameService.ts`, `scripts/revealCard.lua`, `submitClue.lua`, `endTurn.lua` | `room:<code>:game`: board, what is revealed, turn, clue, guess counters, scores, outcome, paused; in duet the agents found and the tokens | create, clue, reveal, end turn, forfeit, abandon, pause, resume, cleanup | each mutator repeats the refusals for itself; counters run beside the board; three modes with different ends; 0 stands both for "no limit" and "no clue" | counters equal the board, the clue is the turn's own, a live game can still be decided, the outcome can be read off the board, turns alternate, a finished game is final |
| In-process engine: `services/game/revealEngine.ts`, `bots/engine.ts` | a game in memory | the rules once more, in TypeScript | two implementations of one rule set | equal to the Lua scripts |
| Match rounds: `gameService.ts` (`finalizeMatchRound`, `startNextRound`, `abandonGame`), `gameHandlerUtils.ts`, `gameActions.ts` | in the game value: round number, match scores, the round's opening scores, round history, `matchOver` | reveal with card points, bank a round, deal the next board, abandon, begin another match | the end of a round is broadcast before it is banked; banking and dealing run under different locks and read snapshots; finalization may fail | rounds are banked once and in order, the score is what was earned, an abandoned round scores nothing, the match ends exactly when it is decided, no won round is lost |
| Turn timer: `services/timerService.ts`, the expiry callback in `socket/disconnectHandler.ts`, `timerHandlers.ts`, `gameHandlers.ts`, `scripts/atomic*Timer*.lua` | `timer:<code>` with a TTL; per process a local entry and a `setTimeout` | start, stop, pause, resume, add time, status, expire, sweep, evict | timeouts outlive the timer they were armed for; several processes; restarts; commands that fail; awaits between ending a turn and restarting its timer | a timer ends one turn at most, only when it has run out, somebody is armed for it, a turn of a timed game ends |
| Board generation: `services/game/boardGenerator.ts` | none | deal a layout | none concurrent | nine, eight, seven and one; duet faces that agree on what is an agent |
| Locks and transactions: `utils/distributedLock.ts`, `services/game/luaGameOps.ts` | `lock:*` keys with owner and TTL; the watch of each process's one Redis connection | acquire with retry, run a body in its time, release; WATCH/GET/MULTI/EXEC with retries | the owner may outlive its lock; `withLock` gives up on a body that still runs; a SET without a reply has succeeded; the watch is shared by all rooms | one awaited body per lock, nobody releases another's; no update of a game is lost |
| Room membership and host: `services/room/membership.ts`, `services/roomService.ts`, `scripts/hostTransfer.lua`, `atomicJoin.lua`, `atomicRemovePlayer.lua` | member set, player records, `hostSessionId`, the `isHost` flags | create, join, leave, kick, transfer, repair, tear down | removal and transfer are separate commands, the host lock may be taken, the count of who is left is stale when used | one host, who is there; a room without people goes |
| Disconnect, reconnection, cleanup: `services/player/cleanup.ts`, `reconnection.ts`, `socket/disconnectHandler.ts` | `connected` flags, the session's mapped socket, the scheduled-cleanup set, tokens, TTLs | handshake, disconnect, reconnect, rejoin, sweep | a late disconnect meets a returned player; record and schedule run out together; a token is looked at and consumed in two steps | who is back stays connected, who is gone is cleaned up, a token admits once |
| Teams and roles: `services/player/mutations.ts`, `queries.ts`, `playerRoleHandlers.ts`, `spectatorHandlers.ts`, `setRole.lua`, `safeTeamSwitch.lua` | player records, team sets, who has been sent the whole board | set team, set role, both, approve, prune, seat a bot, evict a stand-in | two commands with a rollback; uniqueness across records; a permission that is old when used | one connected holder per seat, who has seen the board does not guess, no team of a live game is emptied |
| Bots: `bots/botController.ts`, `botRoomCache.ts`, `services/botService.ts` | per room in memory: tick under way, pending flag, failure streak, retry timer, "no bot here" | tick, look again, act, retry, give up and force the turn's end, add, remove | acts seconds after it has decided; moves that land after they were given up; coalesced ticks; a restart | moves land in their game, only a bot's turn is forced, a bot's turn goes on |
| Connection tracking: `socket/connectionTracker.ts`, `socket/index.ts` | counters per address, in memory | take a place, give it back, evict, sweep | the place is taken before the session is read; clients leave in the handshake | counters are the sockets; a place that leaked comes back |
| Frontend: `frontend/socket-client-*.ts`, `handlers/gameEventHandlers.ts`, `roomEventHandlers.ts`, `multiplayerSync.ts`, `game/reveal.ts` | the page's copy of the game | join, rejoin, resync, apply each event, leave | snapshots and events race; announcements overtake each other; connections drop | with nothing under way the page shows the stored game |
| Game cache: `socket/playerContext.ts` | a 500 ms cache, only in a single instance | read through, invalidate | filled across an await | handlers that write roles read again |
| History and replay: `services/gameHistory/*` | capped list per room | save, list, replay | -- | a saved game replays to its end |
| Rate limits, sessions, routes, audit, chat | counters, cookies, views | request handling | little that is shared | -- |

`PROJECT.json` lists every part with its sources, and under "hazards" each line
where a particular ordering, failure or boundary could do harm.

### What is not modelled, and why

- Rate limiting, sessions and JWT, HTTP routes, audit and chat are request and
  response code around the services, or single commands on state of their own.
- Words, names, locales, the seeded shuffle, card points as data, messages and
  their wording are left out everywhere.
- Bot strategies, the word-vector backend, personas and the LLM player are
  heuristics that promise nothing; `BotController` assumes only that a strategy
  answers with an action of its role. Clue memory, the advisor's suggestions and
  the evictions of the controller's per-room maps are left out.
- History and replay: a finished game is written by one script and only read.
- The game cache: it serves preliminary checks that the scripts, and the
  handlers of team and role, make again on what they read themselves. What
  such a check lets through is an action: abandoning a paused game stops its timer
  before it is refused (`gameHandlers.ts:523`), which `TurnTimer` notes as "refused".
- Of a room: its settings and password, and the TTL of the host-transfer lock
  (`GameLock` has lock TTLs).
- Of connection tracking: the block of an address after failed authentications.
- Of the page: drawing, the reveal animation, the countdown, the spymaster's view,
  role changes shown before they are confirmed, the `roundEnded` push, creating a
  room, and the page after it has left (coming back is a first join again).

## 2. Plan

Written, in this order:

1. `GameRules`, `Game`, with `TurnOrder` as its abstract specification;
2. `MatchRounds`, which takes a board as a black box that ends and is banked;
3. `TurnTimer`, which takes the game as its turns, `paused` and `gameOver`; then
   extended by restarts of a process and evictions of a local timer;
4. `GameLock`, the lock service, and `GameStore`, the transactions and creations
   under it, with `StoredGame` as its abstract specification: what items 1 and 2
   take for granted;
5. `Room`: membership, host, sockets, reconnection and the scheduled cleanup,
   which meet in the same records and so are one module;
6. `Seats`: teams, roles, approvals, stand-in bots, and who has seen the board;
7. `RevealEngine` and `GameParity`, which sets the two rule sets side by side;
8. `BotController`; 9. `ConnectionTracker`; 10. `ClientSync`.

Open: the block after failed authentications (`ConnectionTracker`), two rooms on
one full timer map (`TurnTimer` has the eviction of its one room as a step that
may come at any time).

Runs keep to two or three processes, sessions or handlers, which is where an
interleaving first appears, and to the smallest times that keep durations,
buffers and TTLs distinct.

## 3. The modules and the code

`PROJECT.json` maps each definition to its lines. The idea of each module:

**`GameRules`, `Game`.** The variables of `Game` are the fields of the stored game.
Each script or transaction is atomic on that value, so an operation is one
action: `SubmitClue` (`submitClue.lua`), `RevealCard` (`revealCard.lua`, as
`RevealClassic` and `RevealDuet`), `EndTurn` (`endTurn.lua`), `CreateGame`,
`ForfeitGame`, `AbandonGame`, `PauseGame`, `ResumeGame`, `CleanupGame`
(`gameService.ts`; the last is also the end of the key's TTL). `revealedBy`
stands for the reveal entries of `game.history`. A board is any layout with the
properties the generator guarantees (`IsClassicLayout`, `IsDuetLayout`); words
and card points do not occur. A match board is played like a classic one.

**`TurnOrder`.** What clients and bots rely on: turns alternate, guesses come
between a team's own clue and the end of its turn, a game ends once. `Game`
implements it under `Phase` and `currentTurn`.

**`RevealEngine`, `GameParity`.** `revealEngine.ts` is pure, so it is a module of
operators on a game record. `GameParity` takes the variables of `Game` as such a
record (`Seen`) and compares every step of the live game with what the engine
computes: what `bots/harness/parity.ts` samples with seeded games.

**`MatchRounds`.** `game` is the part of the stored game that outlives a board.
A reveal that ends a round, or a forfeit, leaves a finalizer behind: the handler
between its broadcast and `finalizeMatchRound`. `startNextRound` is two actions,
`ReadForNextRound` and `StoreNextRound`, because it stores a board computed from
what it read some awaits before; `creating` holds that snapshot. `earned` is a
history variable: card points gained, without those of abandoned rounds. `calm`,
chosen at the start, tells whether in this match the host waits for finalizers
and none of them fails; one run covers both.

**`TurnTimer`.** `timer` is the Redis key, `entry[i]` the process's local entry,
`timeouts[i]` the end times its pending `setTimeout`s were armed for. Every
handler, callback or restart that awaits is a job whose next step is one Redis
command together with the synchronous code up to the next await, so jobs of all
processes interleave at the awaits. `RestartProcess` loses entries, timeouts and
jobs of a process; `EvictTimer` is what a full map of timers does to the room's
entry. Time is counted in ticks; the seconds the Lua scripts round up to are
whole ticks. `granted`, `spent`, `waived`, `raced` and `began` are history
variables that properties use; `calls` and `failures` bound the runs. `stranded`
names what has left the turn without somebody to end it since its timer was set
(`Cause`): the expiry failed; the process forgot the timeout; the game was paused
when the expiry came to end its turn; a timer that had run out was deleted by the
pause or the status request that found it; a request stopped the timer and was then
refused; an older stop or pause met the new timer.

**`GameLock`.** `withLock` for one lock key and the calls that compete for it, each
with its own owner id. `lock` is the key with the time it has left; `time[c]` is
how long the reply to `SET` has been under way, then what the body has left. The
two clocks do not start together, which is the point: the key's starts in Redis,
the body's with the reply. `running` are the bodies, which `withTimeout` cannot
cancel. `withAutoExtend` and `extend` have no caller and are left out.

**`GameStore`, `StoredGame`.** A job is a transaction (`executeGameTransaction`: its
commands one by one) or a creation (`createGame`, `startNextRound`: read, then
`persistGameState`). `watched` and `dirty` are what Redis keeps for the connection of
each process, which serves all rooms: the EXEC or UNWATCH of one transaction drops
the watch of every other on it. Scripts and TTL refreshes are single steps that mark
the watchers. A job `locked` is one whose lock has not run out. `loose` holds the jobs
that may write over what they did not read: a transaction whose watch another one
dropped, a creation that has lost its lock or is sent again after it has run
(`PersistUnheard`), and a creation overtaken by the write of such a job. Of a game
only its number in the room, its version and `gameOver` are kept; "play" stands for the operations that
refuse a finished game, "amend" for `finalizeMatchRound` and `resumeGame`. The
deletion of a corrupted value and the end of the key's TTL are left out. `StoredGame`
says that an operation is one step on the value it finds, which is how `Game` and
`MatchRounds` treat every transaction. `MatchRounds` gives a creation its two
steps, since what matters there is what it read.

**`Room`.** Handlers are jobs that run up to their next await: create, join and
rejoin, `room:reconnect`, leave, resync, kick, the disconnect handler, the sweep.
Their steps are the commands of `membership.ts`, `cleanup.ts` and
`reconnection.ts`; scripts are single steps. `player` has a record per session
(`brief` says that its key has the ten-minute TTL), `live` the sockets whose
disconnect event is still to come, `mapped` the session's socket, which only a
handshake writes and only when a record exists. The disconnect handler reads the
record, reads the mapping and makes a token in three steps (`Drop`, `DropOwner`,
`DropToken`). A command of the sweep may fail when the entry is already off the
schedule (`SweepFails`). A mishap that the code lets
through goes into `causes`, and a property names the ones it excepts. A client
sends one request at a time. Clocks are taken at their ratios: a mapping or token
outlives no grace period, handlers take seconds, a silent socket two minutes at
most, the grace period and the record's TTL ten.

**`Seats`.** The same form: changes of team, role or both hold the session's
player-mutation lock; an approval holds none; an added bot holds `bot-manage`.
`seen` are the people who were sent the whole board in this game. What a known
window lets through is noted as `leaked`, `doubled`, `raced`, `reclaimed`,
`unlisted`. Rollbacks may fail: of a refused role (`UndoFails`), and of a bot that
could not be listed, whose record and place in the set are deleted each for itself
(`ListFails`). The lobby may begin in any seating the handlers can produce.

**`BotController`.** One room in one process, which is what `fly.toml` deploys. A
step is what runs between two awaits: `TickStep` is a tick (roster, game, seat,
think, look again, apply), `GiveUpStep` the forced end after the last retry.
People and host move between any two of them; a mutation notifies (`Notify`)
once its lock is released. `late` are operations that `withTimeout` gave up on
and that still land. `parity` is `stateVersion % 2`, enough to see that
something moved.

**`ConnectionTracker`.** A socket is in its handshake, open, or has left its
handshake unnoticed (`AcceptNobody`: socket.io tells nobody of it). `slack` notes
why a counter may be off until the next sweep that finds no handshake.

**`ClientSync`.** One page and the stored game. A commit leaves an announcement in
`owed`: prompt ones go out before the next commit, as they do in the one process
that is deployed, the slow ones (`game:started` after the roles were reset,
`game:over` after the finalization, pause and resume after the timer) in any order; a commit may stay unannounced when its handler
gives up. `job` is the `room:join` under way: the game is read, the socket enters
the room, the reply is sent. `Applied` is what the page's handlers do, none of
which looks at the game an event is for. `causes` names the windows in which the
page is known to be left behind.

The specifications of `GameLock` and `ConnectionTracker` carry their module's name
(`LockSpec`, `TrackerSpec`), because their proofs stand beside those of `GameStore`
and of `ClientSync`.

Definitions named `Mut_X` are `X` with a plausible mistake. No behaviour uses
them; put in the place of `X` they show that a property would notice.

## 4. The runs

| run | module | distinct states | asks |
|---|---|---|---|
| `game` | `MCGame` | 18 765 | is every sequence of operations in all modes sound, and the engine's game the same |
| `match` | `MCMatchRounds` | 1 090 872 | is the score what was earned whatever interleaves, and in a calm match every won round banked |
| `timer` | `MCTurnTimer` | 463 853 | with one process and all requests, is every turn timed, and does it end, but for the causes named |
| `timer_races` | `MCTurnTimer` | 1 045 391 | with two processes, restarts, failures and overlapping requests, does a timer end one turn, in time |
| `lock` | `MCGameLock` | 167 470 | is one body awaited at a time, and everyone answered |
| `store` | `MCGameStore` | 233 604 | with two rooms on one connection, locks running out and commands timing out, is every change of who is still protected one step on the stored game |
| `room` | `MCRoom` | 737 850 | do tokens, reconnections, host, teardown and schedule survive two handlers at a time |
| `room_rejoin` | `MCRoom` | violated | does coming back by `room:join` stick |
| `seats` | `MCSeats` | 916 570 | do seats, secrets and teams survive two handlers at a time |
| `bots` | `MCBotController` | 339 718 | do bots act in their game, and go on |
| `connections` | `MCConnectionTracker` | 102 746 | are counters the sockets, and do leaked places come back |
| `client` | `MCClientSync` | 171 022 | does the page end up showing the stored game |

### Bounds

**Game.** Boards of six cards: two or three of a team, one assassin, two
bystanders, which is the smallest board on which a team can win, lose by the
assassin, run out of guesses, and hand over the turn by a bystander and by the
other team's card. The duet board has an agent of both sides, agents of one
side that are the other's bystanders (so the win can become unreachable),
assassins of one side, and two tokens. Clues -1, 0, 1 and 2 cover both ways to
say "no limit", one guess and a bonus, and two.

**Match.** Card points -1 and 2, a bonus of 1, target 4 and margin 2 let a
match be decided by cards alone, by the bonus, or not at all because the lead
is too small; three boards and two finalizers let a finalizer meet two later
rounds. `BoardSize` bounds the reveals of a round.

**Timer.** A turn lasts two ticks, an extension one; the key of a running timer
lives one tick past its end and the sweep looks two ticks past it (two and three
in `timer_races`), in the order of the code's values (60 s and 120 s). Two jobs
is the least number at which handlers overlap; two processes the least at which
one's timeout is stale because of the other. Both runs make all the requests (but
for `gameOver` in `timer_races`) and have one failure, which is a failed expiry, a
restart or an eviction. `HostWaits` lets one client await its answers, `Prompt` lets a
timeout reach Redis in the tick it is due; `timer_races` assumes neither. The
properties of `timer` were also checked without `HostWaits` (1 478 457 states, too many
for the time a run may take). Two or three turns and three calls let a call replace the
game, and others move or stop its timer, while an expiry is under way.

**Locks.** A tick is 250 ms: the lock is given 1500 ms, of which `withLock` keeps 500,
`MIN_LOCK_TIMEOUT` is 1000 and a reply takes up to 250. Three callers let a key run
out under one, be taken by the next and still be wanted by a third; two lost
replies, one of a `SET` and one of a release.

**Store.** Two rooms of one process, hence on one connection, and two jobs: a
transaction whose watch the other room's drops, two transactions of one room of which
one has lost its lock, a creation beside a transaction or another creation. Every kind
of work may outlive its lock. Four units of work let a transaction be aborted by a
script and retried, with two attempts instead of three. Amending transactions
and creations time out, which covers both paths. Two processes with three attempts were
checked for the safety properties alone (226 567 states).

**Room.** Two people and a bot, two handlers under way, three sockets of which one
may drop, one token, two requests: enough for a disconnect that meets a return, a
leave that meets a join, and a sweep that meets either. The room may be created
twice, so that a handler begun in one room meets the next under the same code.
`room_rejoin` needs one person only.

**Seats.** Two people and a bot over two teams, two handlers and two requests in one
game, from eight lobbies up to symmetry. Of roles only the spymaster's is asked for,
the one that shows the board and the one a team needs: a clicker
comes by approval, an observer by losing a seat. The theorems are for all roles.

**Bots.** One seat that the host may give to a bot, a team's clicker, one retry
instead of six, two actions in a tick instead of 200, two games, three requests:
the cap of retries and the cap of actions are both met.

**Connections.** Two addresses, three sockets, a limit of two and a map of one:
an address at its limit, and an eviction.

**Client.** Two cards, two games, two commits, one of them silent, two lost
connections, one resync asked for by the page. The inductive invariant of the proof
was checked with three commits (3.6 million states).

`CHECK_DEADLOCK FALSE` is set where the bounds, a shutdown or a page that has
left stop the system: everywhere but in `game`.

### What the properties say

- `ClueMatchesTurn`, `CountersMatchBoard`, `LiveGameIsOpen`,
  `OutcomeMatchesBoard`, `TurnsAlternate` (the refinement of `TurnOrder`), and
  `EngineAgrees`, the equality of the two rule sets step by step.
- `ScoreIsEarned` and `MatchOverIsDecided` hold whatever interleaves.
  `WonRoundIsBanked` needs the finalizer to come first and not to fail (`calm`).
- `OneTurnPerTimer` and `OnlyRunOutTimersExpire` hold for any number of
  processes, restarts included. `TimerIsArmed` needs one process: a process that extends or
  resumes a timer re-arms only itself (`docs/HARDENING_PLAN.md` lists this as
  open; the deployment runs one machine). It excepts "failed" and "forgotten",
  since nobody re-arms a timer whose process has restarted.
  `TurnLastsItsTime` leaves out manual ends of turn, and games
  begun while an expiry, or the new timer that follows one, is under way (`raced`):
  the callback reads whose turn it is only when it runs, and ends that one, in the
  new game too.
  `QuietTurnIsTimed` and `TurnEnds` are checked with every request and with
  failures. They except a paused game, a timer that the host has stopped or paused,
  and the six causes that `stranded` names: that no seventh is needed is what they say.
- `Exclusive` speaks of the bodies that are awaited. One that was
  given up may go on beside its successor's, which the comment of `withLock`
  admits and `GameStore` takes into account. It rests on the reply to
  `SET` taking less than the 500 ms kept back (`EndsInTime`): the key's time starts
  with the `SET`, the body's with the reply, and nothing bounds the difference.
  `EveryoneIsAnswered` assumes nothing of the bodies.
- `GamesAreAtomic` is the refinement of `StoredGame`, `CommitsOnWhatItRead` the part of
  it that is the optimistic lock's. Both except the jobs in `loose`, so that they say how
  far the damage goes: without a dropped watch, a lost lock of a creation or a repeated
  script no update is lost, whatever other rooms of the process do, and although
  transactions outlive their lock. `JobsEnd`: writers do not starve it.
- `TokenAdmitsOnce` has no exception. `ReconnectSticks` is about the socket the
  session is mapped to: ownership of it is all the disconnect handler checks, and a
  handshake maps nothing while the session has no record. The others except
  named mishaps, each of which a run of the module, some with larger bounds, needs:
  `OneHostFlag` (an heir that leaves while it is made host, a room that is made anew
  under a leaver, one razed under a host move), `HostResolves` (a host lock that is
  taken is skipped, not waited for; a sweep whose count fails repairs nothing),
  `EmptyRoomsGo` (a kick does not look whether anybody is left, nor does a sweep that
  fails), `NobodyLingers` (a failed ZADD; a sweep that has taken the entry off the
  schedule and whose script then fails, so that only the record's TTL is left).
- `OneHolder`, `BoardStaysSecret`, `StandInYields`, `SeatedIsListed`,
  `TeamsStayManned`, `RefusedKeepsTeam`: each holds of all interleavings but the
  windows its comment names. The last two of them that failing commands open: a
  rollback that throws leaves a refused player on the new team (`RefusedKeepsTeam`), or
  a bot whose record no team set lists (`SeatedIsListed`).
- `MovesInItsGame`, `ForcedEndIsABots` except what changes between the last look
  and the move; `BotsPlayOn` holds even if every move fails, but for a failed read
  before the move (`botController.ts:441` takes it for "seat lost" and stops
  without a retry), a failed forced end (`:245` only logs it), a `bot:add` that fails
  after the bot is in, and a restart.
- `CountsMatch` (types included) and `LockoutEnds`.
- `InStep` (types included), `SeenStaysSeen`, `Settles`.

### Where code and comment part

1. `room_rejoin`: `cleanup.ts:80` says that ownership of the socket is re-checked
   inside the lock so that a disconnect cannot land on a player who has come back.
   That is so for `room:reconnect`; `room:join` writes the connected flag without
   the lock, and the first socket of a session is never mapped, so the late
   disconnect of an old socket marks a player disconnected who is online.

The next four have no run of their own. What has to be asked instead is given; TLC
answers with a violation.

2. `gameActions.ts:113` says that finalizing first banks the round
   before any client can react. `cardRevealed` with `gameOver` is broadcast before
   that, and the client sends `nextRound` on it. A won round can be replaced
   unbanked: its bonus is lost and its number used again (`MatchRounds` with `calm`
   not asked for in `WonRoundIsBanked`).
3. `disconnectHandler.ts:59` says that a game paused when its timer runs out keeps its
   turn, and that `game:resume` restarts the timer. The expiry has taken the key by
   then, and `resumeTimer` finds nothing to restart: the turn has no timer.
   `ResumeRestarts`, asked by `MCTurnTimer.cfg` in the place of `TurnEnds`: the host
   pauses, the timeout fires, `ExpireTimer` takes the key, `EndExpiredTurn` is refused,
   `PauseTimer` and the resume find no timer, and nothing is left to happen.
4. `timerService.ts:585` and `:607` say that the sweep recovers an expiry whose command
   failed, so that no turn hangs. The sweep waits two minutes past the end, and the key
   its compare-and-delete needs lives one minute past it: the turn is never ended.
   `SweepRecovers`, asked in the same place.
5. `luaGameOps.ts:283` says that a transaction is aborted if another
   client modifies the game between WATCH and EXEC. All rooms of a process
   share a connection, and the end of one room's transaction drops the watch of
   another's. `AbortsWhenModified`, asked by `MCGameStore.cfg` in the place of its
   properties: the transaction of one room reads, that of the other refuses its
   operation and unwatches, a script changes the first room's game, and EXEC writes over
   it. `docs/REVIEW_2026-09.md:69` has the weakness as R18; the lock `reveal:<code>`,
   which it says limits the exposure, does not keep out `startNextRound`.

Windows that the models name and no comment denies:

- Besides "paused" and "failed" a turn is left without its timer when a pause or a status
  request finds the timer run out and deletes it, when abandoning or starting a game
  stops the timer and is then refused, and when an older stop or pause lands on the
  timer of the new turn.
- A returning lone host whose record ran out joins as a guest while the room names
  its session as host, so nobody may act as host (`lapsed`).
- The player record's TTL is the grace period, so the sweep mostly finds the
  record gone and skips teardown and repair of the host (`cleanup.ts:239`).
- An approval may make a clicker of somebody who became spymaster meanwhile;
  leaving and joining again forgets what a session has seen.
- A combined change that is refused its role loses the role held before, and the
  team set is not restored when there was no team.
- The page applies a late `game:over` or `game:paused` to the next game, never resets
  `gamePaused` when it leaves a room, and does not resync after a first join; the
  20 s timer of a rejoin is not stopped by a second disconnection and ends the next
  rejoin.
- A process that restarts with a bot to move waits for the next mutation.

### Fairness

`MatchRounds!FairSpec` assumes weak fairness of `FinalizeMatchRound` only: a
handler whose awaits resolve goes on. `TurnTimer!FairSpec` assumes weak fairness
of each job's steps (every Redis command is answered or times out, `withTimeout`),
of each process's timeouts and its periodic sweep (the event loop runs due
timers and the interval), and of time. `GameLock!LockFairSpec` assumes it of time and of
each call's own steps, but not of its body, which may hang; `GameStore!FairSpec`
of each job's next command. `BotController!FairSpec` assumes it of the steps of a tick and
of giving up, of the retry timer, the notification after a mutation and the two
steps of `bot:add`; `ConnectionTracker` of its interval; `ClientSync` of the server's
handlers, of delivery while connected and of socket.io's reconnection. `Room` and
`Seats` assume none: they state safety only. No request is ever assumed: nobody has to
give a clue, guess, resume or start anything, and no join timeout has to fire.

## 5. The proofs

Every theorem holds for all values of the constants that satisfy the named
assumptions in the modules: any finite board, any clue numbers, any token
count; any targets, points and board sizes; any number of processes, people,
bots and handlers under way, and any durations.

**`GameProofs`.** `TypeCorrect` first. The inductive invariant adds to it
the clue, counter, open-game, outcome and pause invariants together: that a game
goes on only while it is open rests on the counters being those of the board,
and the outcome read off the board rests on the last state having been open.
The counting lemmas (`CountAdd`, `CountFull`) say what one more revealed card
does to a cardinality. `FinishedIsFinal` and `PausedIsFrozen` are action
properties, which need `OverIsNotPaused` for `ResumeGame`. `Refinement` maps each
action to a step of `TurnOrder`: it needs `ClueMatchesTurn` and nothing of the
counters. `EngineIsTheGame` is the equality of the two rule sets: each operator of
`RevealEngine` is first computed on a game written out as its fields (`EngineGame`
and the lemmas `Update...`, one field at a time), then compared, outcome by outcome,
with the disjuncts of `RevealClassic` and `RevealDuet`. It needs the types and
the sizes of the colours, not the counters: engine and scripts agree even on a
board they would both count wrong.

**`MatchProofs`.** `RoundsNumbered`, `ScoreIsEarned`, `AbandonedScoresNothing` and
`MatchOverIsDecided` are not inductive: `StoreNextRound` replaces the game by a
snapshot that may be stale. The invariant says of the snapshot, too, that its rounds
are numbered and its score is earned, and that while somebody is in
`startNextRound` the stored game is over, so that nothing is earned meanwhile
which the snapshot lacks. `ScoreFits` ties the score to the one the round began
with, which abandoning needs. `BankingKeeps` carries the ledger across a
finalization, `NewRoundKeeps` across the new board.

**`TimerProofs`.** `TypeCorrect`; `TimersEndOneTurn`, where `OneTurnPerTimer` is
itself inductive: every step that spends a timer removes the key.
`OnlyRunOutExpire` needs `FiredIsDue`: a timeout under way was due, so a stored
timer with the same end is due too. `TimerStaysArmed` assumes one process and
`TtlBuffer <= Stale`, as in the code: `InTime` says that Redis has dropped a running
timer before the sweep would take its entry for stale, `Armed` that the entry and the
timeout of the process are those of the stored timer, or the timer is about to be deleted
or its loss is noted. Requests, failures, restarts and evictions are unrestricted.
`TurnsLastTheirTime` assumes nothing of
processes, failures or what the host calls. Its invariant `Unraced` says of every
turn that is not `raced` that one thing at a time stands between it and the next
(`OneTurning`, `TimerAlone`): its timer, or the job that will set the timer or end the
turn, and that whichever it is does not end it before its time (`Due`).
`QuietTurnsAreTimed` assumes besides that a timeout reaches Redis in the tick it is due
(`Prompt`), and again restricts nothing that host, players or failing commands do. Three
invariants carry it. `Renewed`: a running timer is armed, unless the turn is `Left` (no
game, a timer stopped or paused by the host, or a noted cause) or a job is on its way to
replace the timer or end the game. `Resumed`: a timer that is paused in a game that is
not is about to be resumed or replaced. `Attended`: where there is no timer, somebody sees
to the turn. The lemma `Disarmed` goes through all steps once and serves `Armed` and
`Renewed`; `TimerSteps` says what a step can make of the timer, `OwnSteps` that a job is
carried on by its own steps. TLC checked the invariants before they were proved, with a
host that does not wait (1 478 457 states).

**`GameStoreProofs`.** The theorems about the store assume nothing but the constants'
types: any rooms, processes and jobs, every overrun and every late reply.
`CommitsAreGuarded`: of a transaction that is not `loose`, `Guarded` says that between
its WATCH and its EXEC its connection watches its room, `Fresh` that what it read is
still stored or the connection is marked. A step either leaves the watch of another
transaction alone, or marks it, or makes it `loose`. `ConnectionsAreClean` follows the
watch of a connection to the end of its last transaction. `Refinement` adds what
protects creations: one that is not loose has its lock, and one at a time in a room
has it (`CreateInv`); from its check on the stored game is the one it read, and over
(`Ready`), because the operations that may come between leave a finished game finished
and do not give the room another.
Of the lock: `LockTypeCorrect` needs `AttemptsLeft`: who tries has an attempt left.
`MutualExclusion` and `BodyOwnsLock` assume `EndsInTime`, that the longest reply and
the body's time end before the key (the run `lock` satisfies it; with `MaxDelay`
at 3 it fails and so does `Exclusive`). The invariant `Holds` relates the two
clocks: until the reply the key has aged as long as the reply took, and then it
has more time left than the body.

**`RoomProofs`.** `TypeIsRight`; `TokensAdmitOnce`, where `TokenAdmitsOnce` is
itself inductive because it counts the token a handler has consumed and not yet
acted on. `NobodyIsForgotten`: five steps bear on who is scheduled (marking a
player disconnected, planning the cleanup, the two ways the sweep takes an
entry, and its failing); every other step satisfies `Kept`: it marks nobody, takes no entry and
leaves the handlers that still have an entry to write or a sweep to finish alone
(`KeptStep`), which is enough (`KeptIsEnough`).
For the host, `HandlersAreSound` comes first: a handler holds the host lock where it
believes it does and names a session where it names an heir. Most of the 51 kinds of
step are then `Ordinary`: they leave host, members and flags alone and take no
handler in or out of the places that see to them; `StepCases` leaves a handful to look
at one by one. `EmptyRoomsAreRazed` and `HostsResolve` have the same shape: as long as
the room is there, somebody is in it, or a handler is on its way to count the people
or raze it (`RoomIsKept`); the host's record is there, or a handler is on its way to
repair the host (`HostIsKept`). `OneHostIsFlagged` needs two: who is about to be
flagged is the host (`HeirsAreHosts`), and a flag on anybody else is owed by the
handler that will take it (`FlagsAreOwed`). `ReconnectionsStick` rests on `CallsAreSound`
(a disconnect handler answers for a socket that is gone, and marks the player under
the session's lock) and on `WhoIsBackStays`: a session that is back on its mapped
socket is connected, and no handler that has passed the check of ownership is left.

**`SeatsProofs`.** `TypeIsRight` says besides types that a seat goes with a team.
`OneHolderPerSeat`: `OneHolder` is inductive with it, since every command that fills a
seat looks at the records in the same script. `BoardIsSecret` is not inductive:
`Secret`, what it says in inductive form, needs `Blind`, that a guarded handler
which may yet take a role works for a player who has not seen the board, as long
as the game it looked at is still played. That lasts because of `Alone`, that
the lock keeps the guarded handlers of one session apart, and of `Older`, that no
handler looked at a later game than the stored one; `Gone` says that a
record that is not there holds no seat. `TeamsAreListed` rests on `OneAdd`, the
exclusion of `bot-manage`, and on `NewBot`: the bot of a handler that adds one is
absent until it joins, and then on the team whose set is to list it. With
them a step delists nobody (`NobodyDelisted`) and no bot is forgotten between its
record and its listing (`AddsGoOn`). `TeamsAreManned` and `RefusalsKeepTheTeam` are
action properties about one handler's own command; they need `Placed`, where in its
change a guarded handler can be, since a command of its own is all that moves it.
`StandInsYield`: two listed bots never share a seat (`OneListed`), because a handler
that adds one found the seat free and no other has filled it since (`SeatIsFree`,
which is where `OneAdd` comes in again); so the one bot that a returned person shares
a seat with is the one its handler comes upon, or has come upon and is about to
evict (`StandInIsAwaited`).

**`BotProofs`.** `TypeIsRight` bounds the streak of failures by its cap.
`MovesStayInTheirGame` and `ForcedEndsAreBots` carry one fact each from the last
look to the move (`Looked`, `Sought`): what it saw still holds, or something is
noted to have crossed it; `WriteMarks` says that every mutation leaves that
note. `BotlessRoomsHaveNone` needs `NoteIsTrue`, the same for the roster that is
about to be noted as bot-less.

**`ConnectionProofs`.** `CountsAreRight` (types included): the list of addresses and the
sets of sockets are lists without repetitions (`Lists`), and each step changes a count
by the one socket it moves. `Caught` (types included) and `NoCardTurnsBack` are about
announcements on their way to the page, any number of them. A fold over the channel
would be induction over data; the invariant says instead that there is a
trace (`Traced`): what the page shows after each message, starting with what it shows now
(`Views`), in which no card is taken back within a game (`Ordered`), and whose
last view is the stored game but for what is still owed (`CatchesUp`, `Mended`).
Sending appends to the trace, delivery drops its head. `OwedRight`, `Read`
and `Phase` say what an announcement carries that is not sent yet, what the reply of a
join may have been read from, and which messages a channel can hold beside the page's
mode. TLC checked the invariant before it was proved, with the trace that delivery
computes for `w`.

**What the attempts found.** A property that TLC confirms on a small instance may owe
that to the bounds, and five did. With a room made once only, `EmptyRoomsGo`,
`HostResolves` and `OneHostFlag` had nothing to say of handlers left over from the
last room: the leave of a person whose room was razed and made anew now counts as
"revived", a teardown that meets a host move as "stale", a kick of the host as
"missed", and two exceptions the run had seemed to need are gone. `ReconnectSticks`
was false of a session whose record went between two of its handshakes, so that the
mapping names no socket or an older one; being mapped to the present one is now its
hypothesis. `TurnLastsItsTime` was false from the fourth turn on: a game replaced
between the end of an expired turn and its new timer inherits that timer. The properties
have the corrected forms; the run `room` meets the second room, while `timer_races`
ends before a fourth turn, which is left to the theorem. The bound that
`ConnectionTracker!TrackerTypeOK` put on a counter, the number of sockets, held only because
the limit per address was smaller: places that leaked count, too.

**Proved, and asked by no run.** The types of eight modules,
`OverIsFinal`, `PausedStandsStill`, `RoundsNumbered`, `AbandonedScoresNothing`,
`BodyHasLock`, `ConnectionLeftClean`, `BotlessIsTrue`, `HandlersOK`, `CallsOK`, and
`OverIsNotPaused` as a part of the invariant of `GameProofs`.

**Only model-checked.** The liveness properties `WonRoundIsBanked`, `TurnEnds`,
`EveryoneIsAnswered`, `JobsEnd`, `BotsPlayOn`, `LockoutEnds` and `Settles`: liveness
under fairness and `ENABLED` are beyond the proof system's backends. Every invariant
and every action property of the passing runs is a theorem. The violated
`room_rejoin` is a disagreement the code has, not a claim to prove; `SweepRecovers`,
`ResumeRestarts` and `AbortsWhenModified`, which no run and no theorem asks, are claims
of comments and false.
