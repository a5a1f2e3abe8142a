-------------------------------- MODULE Seats --------------------------------
(* Teams, roles and who has seen the board: player:setTeam, player:setRole,  *)
(* player:setTeamRole, the host's approval of a spectator, bots that take    *)
(* and give back seats, and the players who drop, come back, leave and join  *)
(* around them.  A handler is a job that runs up to its next await; a job of *)
(* a kind in Guarded holds the player-mutation lock of its session from its  *)
(* first step to its last, and a job that adds a bot holds bot-manage.       *)
EXTENDS Naturals, FiniteSets

CONSTANTS
  Human, Bot,    \* sessions of people and of bots
  JobId,         \* bound: the handlers under way at once
  Roles,         \* the roles clients ask for
  MaxGames,      \* bound: the games of the room
  MaxRequests,   \* bound: the requests of all clients
  Team, NoTeam,  \* red and blue, and neither
  Nobody         \* no session

SeatRole == {"spymaster", "clicker", "advisor"}
Seeing   == {"spymaster", "observer"}
NoRole   == "none"
Role     == SeatRole \cup {"observer", "spectator"}
Guarded  == {"team", "role", "both"}
Session  == Human \cup Bot

ASSUME RolesAssumption == Roles \subseteq Role
ASSUME CountsAssumption == MaxGames \in Nat /\ MaxRequests \in Nat
ASSUME SessionsAssumption == Human \cap Bot = {} /\ Nobody \notin Session
ASSUME TeamsAssumption == NoTeam \notin Team

Player == [here : BOOLEAN, connected : BOOLEAN, team : Team \cup {NoTeam}, role : Role]
Game   == [live : BOOLEAN, number : 0 .. MaxGames, turn : Team \cup {NoTeam}]
Glance == [live : BOOLEAN, number : 0 .. MaxGames]
Job    == [kind : Guarded \cup {"idle", "approve", "start", "back", "add", "roster"},
           at : {"idle", "check", "switch", "seat", "undo", "failed", "view", "read",
                 "prune", "wipe", "join", "list", "evict"},
           s : Session \cup {Nobody}, team : Team \cup {NoTeam}, role : Role,
           game : Glance, old : Team \cup {NoTeam}, bot : Bot \cup {Nobody},
           gone : SUBSET Session, lost : SUBSET Session]

VARIABLES
  game,       \* what the handlers ask of room:<code>:game
  player,     \* the player records
  teamSet,    \* room:<code>:team:<team>
  jobs,
  asked,      \* the requests so far
  seen,       \* history: who was sent the whole board of the live game
  leaked,     \* history: whom a race let go on with what it has seen
  doubled,    \* history: who came back to a seat that was taken meanwhile
  raced,      \* history: bots that an occupant or an eviction did not see
  reclaimed,  \* history: who came back by a token to the seat it still has
  unlisted    \* history: who was pruned on the strength of an older record, or
              \* is a bot whose rollback failed

history == <<seen, leaked, doubled, raced, reclaimed, unlisted>>
vars    == <<game, player, teamSet, jobs, asked, history>>

NoGame == [live |-> FALSE, number |-> 0, turn |-> NoTeam]
\* A handler: what it does next, and for whom.
Handler(kind, at, s, t, r) ==
  [kind |-> kind, at |-> at, s |-> s, team |-> t, role |-> r,
   game |-> [live |-> FALSE, number |-> 0], old |-> NoTeam, bot |-> Nobody,
   gone |-> {}, lost |-> {}]
Idle   == Handler("idle", "idle", Nobody, NoTeam, "spectator")
Absent == [here |-> FALSE, connected |-> FALSE, team |-> NoTeam, role |-> "spectator"]
Fresh  == [Absent EXCEPT !.here = TRUE, !.connected = TRUE]

\* The people are in the lobby, seated as the handlers below can seat them.
Init ==
  /\ game = NoGame
  /\ player \in {p \in [Session -> Player] :
       /\ \A s \in Human : p[s].here /\ p[s].connected
       /\ \A b \in Bot : p[b] = Absent
       /\ \A s \in Human : p[s].role \in Roles \cup {"spectator"}
       /\ \A s \in Human : p[s].role \in SeatRole => p[s].team # NoTeam
       /\ \A s, u \in Human : p[s] = p[u] /\ p[s].role \in SeatRole => s = u}
  /\ teamSet = [t \in Team |-> {s \in Human : player[s].team = t}]
  /\ jobs = [j \in JobId |-> Idle] /\ asked = 0
  /\ seen = {} /\ leaked = {} /\ doubled = {} /\ raced = {} /\ reclaimed = {}
  /\ unlisted = {}

-----------------------------------------------------------------------------
(* Seats and what a player may change                                        *)

Up(s)      == player[s].here /\ player[s].connected
SameSeat(a, b) ==
  /\ player[a].team = player[b].team /\ player[a].team # NoTeam
  /\ player[a].role = player[b].role /\ player[a].role \in SeatRole
\* setRole.lua and addBot: a disconnected holder does not block its seat.
Holders(t, r) == {s \in Session : Up(s) /\ player[s].team = t /\ player[s].role = r}

\* What a handler keeps of the game it read.
Look == [live |-> game.live, number |-> game.number]

\* canChangeTeamOrRole; r is NoRole in a bare change of team.
CanChange(g, p, teamChange, r) ==
  g.live =>
    /\ ~(teamChange /\ p.role \in Seeing)
    /\ (r = "observer" => p.role = "observer")
    /\ (p.role \in Seeing /\ r # NoRole => r = p.role)
    /\ (p.role \in {"spymaster", "clicker"} /\ g.turn = p.team
          => ~teamChange /\ r \notin {NoRole, "spectator"})

At(j, step) == jobs[j].at = step
Go(j, step) == jobs' = [jobs EXCEPT ![j].at = step]
End(j)      == jobs' = [jobs EXCEPT ![j] = Idle]
Locked(s)   == \E j \in JobId : jobs[j].s = s /\ jobs[j].kind \in Guarded
Adding      == \E j \in JobId : jobs[j].kind = "add"
Quiet       == \A j \in JobId : At(j, "idle")
Asks        == asked < MaxRequests /\ asked' = asked + 1

\* A session that takes another seat, or goes, carries nothing along.
Moves(s) ==
  /\ doubled' = doubled \ {s}
  /\ reclaimed' = reclaimed \ {s}

-----------------------------------------------------------------------------
(* player:setTeam, player:setRole and player:setTeamRole                     *)

\* The lock is taken, then the player and the game are read.
StartChange(j, s, kind, t, r) ==
  /\ At(j, "idle") /\ Up(s) /\ ~Locked(s) /\ Asks
  /\ jobs' = [jobs EXCEPT ![j] = Handler(kind, "check", s, t, r)]
  /\ UNCHANGED <<game, player, teamSet, history>>

\* Mutant: nobody asks whether the player may change.
Mut_Check(j) ==
  LET job == jobs[j]
      p   == player[job.s]
  IN
  /\ At(j, "check")
  /\ IF ~p.here
       THEN End(j)
       ELSE jobs' = [jobs EXCEPT ![j].game = Look, ![j].old = p.team,
              ![j].at = IF job.kind = "team" \/ (job.kind = "both" /\ p.team # job.team)
                          THEN "switch" ELSE "seat"]
  /\ UNCHANGED <<game, player, teamSet, asked, history>>

Check(j) ==
  LET job  == jobs[j]
      p    == player[job.s]
      move == job.kind = "team" \/ (job.kind = "both" /\ p.team # job.team)
      ok   == /\ move => CanChange(game, p, TRUE, NoRole)
              /\ (job.kind = "both" \/ (job.kind = "role" /\ p.role # job.role))
                    => CanChange(game, p, FALSE, job.role)
  IN
  /\ At(j, "check")
  /\ IF p.here /\ ok
       THEN jobs' = [jobs EXCEPT ![j].game = Look, ![j].old = p.team,
                                 ![j].at = IF move THEN "switch" ELSE "seat"]
       ELSE End(j)
  /\ UNCHANGED <<game, player, teamSet, asked, history>>

\* safeTeamSwitch.lua: the record and both team sets, the seat given up.
SwitchTeam(s, t) ==
  LET old == player[s].team IN
  /\ player' = [player EXCEPT ![s].team = t,
                  ![s].role = IF old # t /\ @ \in SeatRole THEN "spectator" ELSE @]
  /\ teamSet' = [u \in Team |-> IF u = t THEN teamSet[u] \cup {s}
                                ELSE IF u = old THEN teamSet[u] \ {s} ELSE teamSet[u]]
  /\ unlisted' = unlisted \ {s}
  /\ IF old # t /\ player[s].role \in SeatRole THEN Moves(s) ELSE UNCHANGED <<doubled, reclaimed>>

\* TEAM_WOULD_BE_EMPTY counts the connected members of the old team's set.
WouldBeEmpty(s, t) ==
  LET old == player[s].team IN
  old \notin {NoTeam, t} /\ \A m \in teamSet[old] \ {s} : ~Up(m)

\* setTeam asks for the check in a live game, but for an approval.
ChecksEmpty(job) ==
  job.kind # "approve" /\ job.game.live /\ job.old \notin {NoTeam, job.team}

\* The game was another one when the handler looked, or nobody locked it out.
Stale(job) ==
  \/ job.kind = "approve"
  \/ job.game # Look

\* Who has seen the board of this game ends up in a role that must not know it.
Leaks(j) ==
  LET s == jobs[j].s IN
  leaked' = IF s \in seen /\ player'[s].role \notin Seeing /\ Stale(jobs[j])
              THEN leaked \cup {s} ELSE leaked

\* Mutant: members who are away count.
Mut_Switch(j) ==
  LET s    == jobs[j].s
      t    == jobs[j].team
      last == teamSet[player[s].team] = {s}
  IN
  /\ At(j, "switch")
  /\ IF ~player[s].here \/ (ChecksEmpty(jobs[j]) /\ player[s].team \notin {NoTeam, t} /\ last)
       THEN End(j) /\ UNCHANGED <<player, teamSet, doubled, reclaimed, unlisted>>
       ELSE /\ SwitchTeam(s, t)
            /\ IF jobs[j].kind = "team" THEN End(j) ELSE Go(j, "seat")
  /\ Leaks(j)
  /\ UNCHANGED <<game, asked, seen, raced>>

Switch(j) ==
  LET s == jobs[j].s
      t == jobs[j].team
  IN
  /\ At(j, "switch")
  /\ IF ~player[s].here \/ (ChecksEmpty(jobs[j]) /\ WouldBeEmpty(s, t))
       THEN End(j) /\ UNCHANGED <<player, teamSet, doubled, reclaimed, unlisted>>
       ELSE /\ SwitchTeam(s, t)
            /\ IF jobs[j].kind = "team" THEN End(j) ELSE Go(j, "seat")
  /\ Leaks(j)
  /\ UNCHANGED <<game, asked, seen, raced>>

\* Mutant: an occupied seat is given away.
Mut_Refused(s, r) == r \in SeatRole /\ player[s].team = NoTeam

\* setRole.lua refuses a seat that is held, and a seat without a team.
Refused(s, r) ==
  r \in SeatRole /\ (player[s].team = NoTeam \/ Holders(player[s].team, r) \ {s} # {})

\* Mutant: a refused combined request leaves the player on the new team.
Mut_Seat(j) ==
  LET s == jobs[j].s
      r == jobs[j].role
  IN
  /\ At(j, "seat")
  /\ IF ~player[s].here \/ Refused(s, r)
       THEN /\ IF jobs[j].kind = "approve" THEN Go(j, "undo") ELSE End(j)
            /\ UNCHANGED <<player, doubled, reclaimed>>
       ELSE /\ player' = [player EXCEPT ![s].role = r]
            /\ Moves(s)
            /\ IF jobs[j].kind # "approve" /\ r \in Seeing THEN Go(j, "view") ELSE End(j)
  /\ Leaks(j)
  /\ UNCHANGED <<game, teamSet, asked, seen, raced, unlisted>>

Seat(j) ==
  LET s     == jobs[j].s
      r     == jobs[j].role
      moved == jobs[j].kind = "both" /\ jobs[j].old \notin {NoTeam, jobs[j].team}
  IN
  /\ At(j, "seat")
  /\ IF ~player[s].here \/ Refused(s, r)
       THEN /\ IF moved \/ jobs[j].kind = "approve" THEN Go(j, "undo") ELSE End(j)
            /\ UNCHANGED <<player, doubled, reclaimed>>
       ELSE /\ player' = [player EXCEPT ![s].role = r]
            /\ Moves(s)
            /\ IF jobs[j].kind # "approve" /\ r \in Seeing THEN Go(j, "view") ELSE End(j)
  /\ Leaks(j)
  /\ UNCHANGED <<game, teamSet, asked, seen, raced, unlisted>>

\* The team goes back, without the check; the old role does not.
Undo(j) ==
  LET s == jobs[j].s
      t == IF jobs[j].kind = "approve" THEN NoTeam ELSE jobs[j].old
  IN
  /\ At(j, "undo")
  /\ IF player[s].here THEN SwitchTeam(s, t)
                       ELSE UNCHANGED <<player, teamSet, doubled, reclaimed, unlisted>>
  /\ End(j)
  /\ Leaks(j)
  /\ UNCHANGED <<game, asked, seen, raced>>

\* The rollback throws: that is only logged, or not even that, and the request
\* is answered with the error of the role.
UndoFails(j) ==
  /\ At(j, "undo")
  /\ Go(j, "failed")
  /\ UNCHANGED <<game, player, teamSet, asked, history>>

AnswerError(j) ==
  /\ At(j, "failed")
  /\ End(j)
  /\ UNCHANGED <<game, player, teamSet, asked, history>>

\* sendSpymasterViewIfNeeded: the game is read again, the player is not.
View(j) ==
  LET s == jobs[j].s IN
  /\ At(j, "view") /\ jobs[j].kind \in Guarded
  /\ seen' = IF game.live THEN seen \cup {s} ELSE seen
  /\ leaked' = IF game.live /\ player[s].role \notin Seeing THEN leaked \cup {s} ELSE leaked
  /\ End(j)
  /\ UNCHANGED <<game, player, teamSet, asked, doubled, raced, reclaimed, unlisted>>

\* spectator:approveJoin: the requester is a spectator when the host's handler
\* looks; what follows takes no lock.
StartApprove(j, s, t) ==
  /\ At(j, "idle") /\ Asks
  /\ player[s].here /\ player[s].role = "spectator"
  /\ jobs' = [jobs EXCEPT ![j] = Handler("approve", "switch", s, t, "clicker")]
  /\ UNCHANGED <<game, player, teamSet, history>>

-----------------------------------------------------------------------------
(* The game                                                                  *)

\* createGame; seats stay as they are.
StartGame(j) ==
  /\ At(j, "idle")
  /\ ~game.live /\ game.number < MaxGames
  /\ \E t \in Team : game' = [live |-> TRUE, number |-> game.number + 1, turn |-> t]
  /\ seen' = {} /\ leaked' = {}
  /\ jobs' = [jobs EXCEPT ![j] =
                [Handler("start", "view", Nobody, NoTeam, "spectator") EXCEPT !.game = Look']]
  /\ UNCHANGED <<player, teamSet, asked, doubled, raced, reclaimed, unlisted>>

\* The roster is read, and who sees the board by then is sent it.
SendViews(j) ==
  /\ At(j, "view") /\ jobs[j].kind = "start"
  /\ seen' = IF game.live /\ game.number = jobs[j].game.number
               THEN seen \cup {s \in Human : Up(s) /\ player[s].role \in Seeing} ELSE seen
  /\ End(j)
  /\ UNCHANGED <<game, player, teamSet, asked, leaked, doubled, raced, reclaimed, unlisted>>

EndTurn ==
  /\ game.live
  /\ \E t \in Team \ {game.turn} : game' = [game EXCEPT !.turn = t]
  /\ UNCHANGED <<player, teamSet, jobs, asked, history>>

EndGame ==
  /\ game.live
  /\ game' = [game EXCEPT !.live = FALSE]
  /\ seen' = {} /\ leaked' = {}
  /\ UNCHANGED <<player, teamSet, jobs, asked, doubled, raced, reclaimed, unlisted>>

-----------------------------------------------------------------------------
(* Players who drop, come back, leave and join                               *)

\* handleDisconnect, under the lock.
Drop(s) ==
  /\ Up(s) /\ ~Locked(s)
  /\ player' = [player EXCEPT ![s].connected = FALSE]
  /\ Moves(s)
  /\ UNCHANGED <<game, teamSet, jobs, asked, seen, leaked, raced, unlisted>>

\* updatePlayer(connected: true); the seat may be taken by now.
ComesBack(s) ==
  LET p == player[s] IN
  /\ player' = [player EXCEPT ![s].connected = TRUE]
  /\ doubled' = IF p.role \in SeatRole /\ Holders(p.team, p.role) # {}
                  THEN doubled \cup {s} ELSE doubled

\* room:join of a member, without the lock and without an eviction.
Rejoin(s) ==
  /\ player[s].here /\ ~player[s].connected /\ Asks
  /\ ComesBack(s)
  /\ seen' = IF game.live /\ player[s].role \in Seeing THEN seen \cup {s} ELSE seen
  /\ UNCHANGED <<game, teamSet, jobs, leaked, raced, reclaimed, unlisted>>

\* room:reconnect, under the lock for the write.
Reconnect(j, s) ==
  /\ At(j, "idle") /\ player[s].here /\ ~player[s].connected /\ ~Locked(s) /\ Asks
  /\ ComesBack(s)
  /\ reclaimed' = reclaimed \cup {s}
  /\ jobs' = [jobs EXCEPT ![j] =
                Handler("back", "read", s, player[s].team, player[s].role)]
  /\ UNCHANGED <<game, teamSet, seen, leaked, raced, unlisted>>

\* The record goes: knowledge of the board goes with it by the code's own rule.
Forget(s) ==
  /\ player' = [player EXCEPT ![s] = Absent]
  /\ Moves(s)
  /\ seen' = seen \ {s} /\ leaked' = leaked \ {s} /\ raced' = raced \ {s}
  /\ unlisted' = unlisted \ {s}

\* atomicRemovePlayer.lua for a player who leaves, is kicked or is swept.
Remove(s) ==
  /\ player[s].here
  /\ Forget(s)
  /\ teamSet' = [t \in Team |-> IF t = player[s].team THEN teamSet[t] \ {s} ELSE teamSet[t]]
  /\ UNCHANGED <<game, jobs, asked>>

\* The key of a disconnected player runs out; the team set keeps the session.
Lapse(s) ==
  /\ player[s].here /\ ~player[s].connected
  /\ Forget(s)
  /\ UNCHANGED <<game, teamSet, jobs, asked>>

Join(s) ==
  /\ ~player[s].here /\ Asks
  /\ player' = [player EXCEPT ![s] = Fresh]
  /\ UNCHANGED <<game, teamSet, jobs, history>>

-----------------------------------------------------------------------------
(* getTeamMembers, and who calls it                                          *)

Members(t)   == {m \in teamSet[t] : player[m].here /\ player[m].team = t}
Seated(t, r) == {m \in Members(t) : player[m].connected /\ player[m].role = r}

\* What a caller does once it has the members; bot is the one it is about.
Proceed(job) ==
  CASE job.kind = "back"                     -> [job EXCEPT !.at = "evict", !.gone = {}, !.lost = {}]
    [] job.kind = "add" /\ job.bot # Nobody -> [job EXCEPT !.at = "join", !.gone = {}, !.lost = {}]
    [] OTHER                                 -> Idle

\* A handler that resolves the acting seat (game:reveal, the bots).
StartRoster(j, t) ==
  /\ At(j, "idle")
  /\ \E m \in teamSet[t] : m \notin Members(t)
  /\ jobs' = [jobs EXCEPT ![j] = Handler("roster", "read", Nobody, t, "spectator")]
  /\ UNCHANGED <<game, player, teamSet, asked, history>>

\* bot:add takes bot-manage; a bot's session is a fresh one.
StartAdd(j, b, t, r) ==
  /\ At(j, "idle") /\ Asks /\ ~Adding
  /\ ~player[b].here /\ \A u \in Team : b \notin teamSet[u]
  /\ jobs' = [jobs EXCEPT ![j] =
                [Handler("add", "read", Nobody, t, r) EXCEPT !.bot = b]]
  /\ UNCHANGED <<game, player, teamSet, history>>

\* The bots an answer is about: the one to seat when the seat is free, the
\* stand-in of a player who is back.
BotsFor(job) ==
  CASE job.kind = "add" /\ Seated(job.team, job.role) = {} -> {job.bot}
    [] job.kind = "back" /\ job.team # NoTeam /\ job.role \in SeatRole
         -> Seated(job.team, job.role) \cap Bot
    [] OTHER -> {}

\* SMEMBERS and MGET; who has no record, or another team, is to be pruned.
Read(j) ==
  LET job  == jobs[j]
      t    == job.team
      list == IF t = NoTeam THEN {} ELSE teamSet[t]
      gone == {m \in list : ~player[m].here}
      lost == {m \in list : player[m].here /\ player[m].team # t}
      miss == {b \in Bot : job.kind = "back" /\ Up(b) /\ SameSeat(b, job.s) /\ b \notin list}
  IN
  /\ At(j, "read")
  /\ \E b \in IF BotsFor(job) = {} THEN {Nobody} ELSE BotsFor(job) :
       LET found == [job EXCEPT !.bot = b, !.gone = gone, !.lost = lost] IN
       jobs' = [jobs EXCEPT ![j] = IF gone \cup lost # {} THEN [found EXCEPT !.at = "prune"]
                                                          ELSE Proceed(found)]
  /\ raced' = raced \cup miss
  /\ UNCHANGED <<game, player, teamSet, asked, seen, leaked, doubled, reclaimed, unlisted>>

\* SREM of all of them and DEL of the records that were not there.
Prune(j) ==
  LET job  == jobs[j]
      t    == job.team
      hit  == {m \in job.gone \cup job.lost : player[m].here /\ player[m].team = t}
  IN
  /\ At(j, "prune")
  /\ teamSet' = [teamSet EXCEPT ![t] = @ \ (job.gone \cup job.lost)]
  /\ player' = [s \in Session |-> IF s \in job.gone THEN Absent ELSE player[s]]
  /\ jobs' = [jobs EXCEPT ![j] = IF teamSet'[t] = {} THEN [job EXCEPT !.at = "wipe"]
                                                     ELSE Proceed(job)]
  /\ unlisted' = (unlisted \cup hit) \ job.gone
  /\ seen' = seen \ job.gone /\ leaked' = leaked \ job.gone
  /\ doubled' = doubled \ job.gone /\ raced' = raced \ job.gone
  /\ reclaimed' = reclaimed \ job.gone
  /\ UNCHANGED <<game, asked>>

\* The set was empty when it was counted; DEL takes what it holds by now.
Wipe(j) ==
  LET t == jobs[j].team IN
  /\ At(j, "wipe")
  /\ teamSet' = [teamSet EXCEPT ![t] = {}]
  /\ unlisted' = unlisted \cup Members(t)
  /\ jobs' = [jobs EXCEPT ![j] = Proceed(jobs[j])]
  /\ UNCHANGED <<game, player, asked, seen, leaked, doubled, raced, reclaimed>>

\* atomicJoin.lua for a bot: its record has team and role from the start.
JoinBot(j) ==
  LET b == jobs[j].bot IN
  /\ At(j, "join")
  /\ raced' = IF Holders(jobs[j].team, jobs[j].role) # {} THEN raced \cup {b} ELSE raced
  /\ player' = [player EXCEPT ![b] = [here |-> TRUE, connected |-> TRUE,
                                      team |-> jobs[j].team, role |-> jobs[j].role]]
  /\ Go(j, "list")
  /\ UNCHANGED <<game, teamSet, asked, seen, leaked, doubled, reclaimed, unlisted>>

\* Mutant: a bot that cannot be listed stays.
Mut_ListFails(j) ==
  LET b == jobs[j].bot IN
  /\ At(j, "list")
  /\ teamSet' \in {teamSet, [teamSet EXCEPT ![jobs[j].team] = @ \cup {b}]}
  /\ End(j)
  /\ UNCHANGED <<game, player, asked, history>>

\* SADD of the team set.
ListBot(j) ==
  /\ At(j, "list")
  /\ teamSet' = [teamSet EXCEPT ![jobs[j].team] = @ \cup {jobs[j].bot}]
  /\ End(j)
  /\ UNCHANGED <<game, player, asked, history>>

\* A write fails and rollbackBot takes the bot back, each delete for itself:
\* the record, the place in the set, or both may stay.
ListFails(j) ==
  LET b == jobs[j].bot IN
  /\ At(j, "list")
  /\ teamSet' \in {teamSet, [teamSet EXCEPT ![jobs[j].team] = @ \cup {b}]}
  /\ \/ Forget(b)
     \/ /\ player[b].here
        /\ unlisted' = unlisted \cup ({b} \ teamSet'[jobs[j].team])
        /\ UNCHANGED <<player, seen, leaked, doubled, raced, reclaimed>>
  /\ End(j)
  /\ UNCHANGED <<game, asked>>

\* Mutant: the stand-in keeps the seat.
Mut_Evict(j) ==
  LET s == jobs[j].s IN
  /\ At(j, "evict")
  /\ seen' = IF game.live /\ jobs[j].role \in Seeing /\ player[s].here THEN seen \cup {s} ELSE seen
  /\ leaked' = IF s \in seen' /\ player[s].role \notin Seeing THEN leaked \cup {s} ELSE leaked
  /\ End(j)
  /\ UNCHANGED <<game, player, teamSet, asked, doubled, raced, reclaimed, unlisted>>

\* removeBot of the stand-in, unless bot-manage stays taken; then the answer.
Evict(j) ==
  LET s     == jobs[j].s
      b     == jobs[j].bot
      there == b # Nobody /\ player[b].here
  IN
  /\ At(j, "evict")
  /\ IF there /\ ~Adding
       THEN /\ player' = [player EXCEPT ![b] = Absent]
            /\ teamSet' = [t \in Team |-> IF t = player[b].team THEN teamSet[t] \ {b} ELSE teamSet[t]]
            /\ raced' = raced \ {b} /\ unlisted' = unlisted \ {b}
       ELSE UNCHANGED <<player, teamSet, raced, unlisted>>
  /\ reclaimed' = IF there /\ Adding THEN reclaimed \ {s} ELSE reclaimed
  /\ seen' = IF game.live /\ jobs[j].role \in Seeing /\ player[s].here THEN seen \cup {s} ELSE seen
  /\ leaked' = IF s \in seen' /\ player[s].role \notin Seeing THEN leaked \cup {s} ELSE leaked
  /\ End(j)
  /\ UNCHANGED <<game, asked, doubled>>

-----------------------------------------------------------------------------
Step(j) ==
  \/ Check(j) \/ Switch(j) \/ Seat(j) \/ Undo(j) \/ UndoFails(j) \/ AnswerError(j)
  \/ View(j) \/ SendViews(j) \/ Read(j) \/ Prune(j) \/ Wipe(j)
  \/ JoinBot(j) \/ ListBot(j) \/ ListFails(j) \/ Evict(j)

Change(j, s) ==
  \/ \E t \in Team \cup {NoTeam} : StartChange(j, s, "team", t, "spectator")
  \/ \E r \in Roles : StartChange(j, s, "role", NoTeam, r)
  \/ \E t \in Team, r \in Roles \cap SeatRole : StartChange(j, s, "both", t, r)
  \/ \E t \in Team : StartApprove(j, s, t)

Next ==
  \/ \E j \in JobId : Step(j) \/ StartGame(j)
  \/ \E j \in JobId, s \in Human : Change(j, s) \/ Reconnect(j, s)
  \/ \E j \in JobId, t \in Team : StartRoster(j, t)
  \/ \E j \in JobId, b \in Bot, t \in Team, r \in Roles \cap SeatRole : StartAdd(j, b, t, r)
  \/ \E s \in Human : Drop(s) \/ Rejoin(s) \/ Lapse(s) \/ Join(s)
  \/ \E s \in Session : Remove(s)
  \/ EndTurn \/ EndGame

Spec == Init /\ [][Next]_vars

\* Which handlers come by a step, and for whom they are.
JobOK(job) ==
  /\ job.kind \in Guarded \cup {"approve", "back"} => job.s \in Human
  /\ job.kind = "add" => job.team \in Team
  /\ job.kind = "approve" => job.role = "clicker"
  /\ job.at \in {"check", "switch", "seat", "undo", "failed"} => job.kind \in Guarded \cup {"approve"}
  /\ job.at = "view" => job.kind \in Guarded \cup {"start"}
  /\ job.at \in {"prune", "wipe"} => job.team \in Team
  /\ job.at \in {"join", "list"} => job.kind = "add" /\ job.bot # Nobody
  /\ job.at = "evict" => job.kind = "back"

\* Types; and a seat of a team is held by players on a team.
TypeOK ==
  /\ game \in Game
  /\ player \in [Session -> Player]
  /\ \A s \in Session : player[s].role \in SeatRole => player[s].team # NoTeam
  /\ teamSet \in [Team -> SUBSET Session]
  /\ jobs \in [JobId -> Job] /\ \A j \in JobId : JobOK(jobs[j])
  /\ asked \in 0 .. MaxRequests
  /\ seen \subseteq Human /\ leaked \subseteq Human
  /\ doubled \subseteq Human /\ raced \subseteq Bot /\ reclaimed \subseteq Human
  /\ unlisted \subseteq Session

-----------------------------------------------------------------------------
(* Properties                                                                *)

\* One connected holder per seat (mutations.ts: "Enforces one spymaster and one
\* clicker per team"), but for who came back to a seat given away meanwhile and
\* for a bot that was let in after its seat was looked at.
OneHolder ==
  \A a, b \in Session :
    (a # b /\ Up(a) /\ Up(b) /\ SameSeat(a, b)) => {a, b} \cap (doubled \cup raced) # {}

\* Who was sent the whole board plays no guessing part in that game, whatever
\* requests of its sockets cross, but for what leaked: a handler that looked at
\* the game before it began, the host's approval, which takes no lock, and a
\* board sent on the strength of a role that was read before it was given up.
BoardStaysSecret ==
  game.live => \A s \in seen \ leaked : player[s].here => player[s].role \in Seeing

\* Once the handler of its return is over, a player who came back by a token
\* shares its seat with no bot, but for one let in after the seat was looked at;
\* an eviction that finds bot-manage taken is skipped and promises nothing.
StandInYields ==
  \A s \in reclaimed, b \in Bot :
    (Up(s) /\ Up(b) /\ SameSeat(s, b))
      => b \in raced \/ \E j \in JobId : jobs[j].kind = "back" /\ jobs[j].s = s

\* The team sets, which reveals and bots go by, list every player on a team, but
\* for who was pruned by an older record and a bot whose rollback failed.
SeatedIsListed ==
  \A s \in Session, t \in Team :
    player[s].here /\ player[s].team = t =>
      \/ s \in teamSet[t] \cup unlisted
      \/ \E j \in JobId : jobs[j].kind = "add" /\ jobs[j].bot = s

Manned(t) == \E s \in Session : Up(s) /\ player[s].team = t
\* Sessions a team set still lists after their record was made anew.
Ghosts(t) == {s \in teamSet[t] : player[s].here /\ player[s].team # t}

\* No change of team leaves a team of a live game without a connected player,
\* but for an approval, a rollback, and a handler that saw another game or team.
TeamsStayManned ==
  [][\A j \in JobId, s \in Human, t \in Team :
       (/\ At(j, "switch") /\ jobs'[j].at # "switch" /\ jobs[j].s = s /\ ~Stale(jobs[j])
        /\ player[s].team = t /\ jobs[j].old = t /\ game.live
        /\ player'[s].here /\ player'[s].team # t
        /\ Manned(t) /\ Ghosts(t) = {})
         => Manned(t)']_vars

\* A combined change that is refused leaves a player on the team it came from,
\* unless the rollback itself has failed.
RefusedKeepsTeam ==
  [][\A j \in JobId : LET s == jobs[j].s IN
       (jobs[j].kind = "both" /\ jobs'[j] = Idle /\ jobs[j].old # NoTeam /\ player'[s].here
          /\ jobs[j].at \notin {"check", "view", "failed"} /\ player'[s].role # jobs[j].role)
         => player'[s].team # jobs[j].team \/ jobs[j].old = jobs[j].team]_vars
=============================================================================
