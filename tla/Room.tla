-------------------------------- MODULE Room --------------------------------
(* A room, its members and its host: create, join, rejoin, leave and kick,   *)
(* the handshake and the disconnect handler of a socket, reconnection by a   *)
(* token, the scheduled cleanup, and the two ways the host moves             *)
(* (atomicHostTransfer and ensureRoomHasHost).  A handler is a job that runs *)
(* up to its next await, so that any two may interleave there.               *)
EXTENDS Naturals, FiniteSets

CONSTANTS
  Human,       \* sessions of people
  Bot,         \* sessions of bots
  JobId,       \* bound: the handlers under way at once
  MaxSockets,  \* bound: the handshakes of all sessions
  MaxDrops,    \* bound: the sockets that drop
  MaxTokens,   \* bound: the reconnection tokens of a session
  MaxRooms,    \* bound: the times the room is created
  MaxRequests, \* bound: the requests of all clients
  Nobody       \* no session, no room, no job

Request == {"join", "reconnect", "leave", "resync", "kick"}
Kind    == Request \cup {"drop", "sweep"}

ASSUME BoundsAssumption ==
  /\ MaxSockets \in Nat /\ MaxDrops \in Nat /\ MaxTokens \in Nat
  /\ MaxRooms \in Nat /\ MaxRequests \in Nat
ASSUME SessionsAssumption ==
  Human \cap Bot = {} /\ Nobody \notin Human \cup Bot \cup JobId

Session == Human \cup Bot
Player  == [here : BOOLEAN, connected : BOOLEAN, isHost : BOOLEAN, brief : BOOLEAN]
Step    == {"idle",
            "rejoin", "script", "recreate", "joined", "consume", "reenter",
            "reentered", "lock", "move", "force", "flagHeir", "remove", "count",
            "raze", "delete", "repair", "repairLock", "reread", "write",
            "flag", "clear", "free",
            "drop", "owner", "mint", "check", "mark", "plan", "shorten", "waitLock", "recheck",
            "transfer", "sweep", "sweepCount", "kickRemove"}
Job     == [kind : Kind, at : Step, s : Human \cup {Nobody}, k : 0 .. MaxSockets,
            other : Session \cup {Nobody}, was : BOOLEAN, tok : 0 .. MaxTokens,
            seen : SUBSET Session]
Cause   == {"lapsed", "revived", "skipped", "stale", "missed", "kicked", "unplanned",
            "unswept", "uncounted"}

VARIABLES
  host,        \* room.hostSessionId, Nobody when the room does not exist
  members,     \* room:<code>:players
  player,      \* the player records; brief: the key has the ten-minute TTL
  socket,      \* the newest socket of a session, 0 before the first
  live,        \* the sockets whose disconnect event is still to come
  mapped,      \* session:<id>:socket, 0 when there is none
  entered,     \* how the newest socket came into the room
  entry,       \* the session's entry in scheduled:player:cleanup
  token,       \* reconnect:session:<id>, 0 when there is none
  held,        \* the token the client was last told
  issued,      \* history: the tokens generated so far
  admitted,    \* history: the tokens that let a socket in
  hostLock,    \* lock:host-transfer:<code>
  playerLock,  \* lock:player-mutation:<id>
  rooms,       \* how often the room was created
  asked,       \* the requests so far
  causes,      \* history: the mishaps so far
  jobs

store  == <<host, members, player>>
client == <<socket, live, entered>>
tokens == <<token, held, issued, admitted>>
locks  == <<hostLock, playerLock>>
vars   == <<host, members, player, socket, live, entered, mapped, entry, token,
            held, issued, admitted, hostLock, playerLock, rooms, asked, causes, jobs>>

Idle == [kind |-> "resync", at |-> "idle", s |-> Nobody, k |-> 0, other |-> Nobody,
         was |-> FALSE, tok |-> 0, seen |-> {}]
NoPlayer == [here |-> FALSE, connected |-> FALSE, isHost |-> FALSE, brief |-> FALSE]
\* buildPlayerData
NewPlayer(h) == [here |-> TRUE, connected |-> TRUE, isHost |-> h, brief |-> FALSE]

Exists   == host # Nobody
Present  == {s \in members : player[s].here}
People   == Present \cap Human
IsHere(s) == s # Nobody /\ player[s].here
Online(s) == socket[s] \in live[s]
Opened  == {sk \in Human \X (1 .. MaxSockets) : sk[2] <= socket[sk[1]]}
Dropped == {sk \in Opened : sk[2] \notin live[sk[1]]}

Init ==
  /\ host = Nobody /\ members = {}
  /\ player = [s \in Session |-> NoPlayer]
  /\ socket = [s \in Human |-> 0] /\ live = [s \in Human |-> {}]
  /\ entered = [s \in Human |-> "no"] /\ mapped = [s \in Human |-> 0]
  /\ entry = [s \in Human |-> "none"]
  /\ token = [s \in Human |-> 0] /\ held = [s \in Human |-> 0]
  /\ issued = [s \in Human |-> 0]
  /\ admitted = [s \in Human |-> 0]
  /\ hostLock = Nobody /\ playerLock = [s \in Human |-> Nobody]
  /\ rooms = 0 /\ asked = 0 /\ causes = {}
  /\ jobs = [j \in JobId |-> Idle]

-----------------------------------------------------------------------------
(* Jobs                                                                      *)

At(j, step) == jobs[j].at = step
Quiet       == \A j \in JobId : At(j, "idle")
Go(j, step) == jobs' = [jobs EXCEPT ![j].at = step]
End(j)      == jobs' = [jobs EXCEPT ![j] = Idle]
Begin(j, kind, step, s) ==
  [Idle EXCEPT !.kind = kind, !.at = step, !.s = s, !.k = socket[s]]

\* Where a handler goes on when its host repair, or its host move, is over.
AfterHost(j) ==
  CASE jobs[j].kind = "join"      -> Go(j, "joined")
    [] jobs[j].kind = "reconnect" -> Go(j, "reentered")
    [] jobs[j].kind = "leave"     -> Go(j, "remove")
    [] OTHER                      -> End(j)

\* The newest socket of the session is the one the job answers, and is up.
Answered(j) == jobs[j].k = socket[jobs[j].s] /\ Online(jobs[j].s)

\* A client sends one request at a time on a socket.
MayAsk(j, s) ==
  /\ At(j, "idle")
  /\ Online(s)
  /\ \A i \in JobId :
       /\ jobs[i].kind = "kick" => jobs[i].other # s
       /\ jobs[i].s = s /\ jobs[i].k = socket[s] => jobs[i].kind \notin Request
Asks(j, s) ==
  /\ MayAsk(j, s)
  /\ asked < MaxRequests
  /\ asked' = asked + 1

\* getPlayersInRoom drops the members whose record is gone.
Prune == members' = Present

\* selectHostSuccessor among the players in pool.
Heirs(pool) ==
  LET up     == {s \in pool : player[s].connected}
      people == pool \cap Human
  IN  CASE up \cap Human # {} -> up \cap Human
        [] up \cap Human = {} /\ people # {} -> people
        [] OTHER -> up

\* hostTransfer.lua, FALSE when one of the three records is missing.
MayTransfer(a, b) == IsHere(a) /\ IsHere(b) /\ Exists
Transfer(a, b) ==
  /\ host' = b
  /\ player' = [player EXCEPT ![a] = [@ EXCEPT !.isHost = FALSE, !.brief = FALSE],
                              ![b] = [@ EXCEPT !.isHost = TRUE, !.brief = FALSE]]
  /\ causes' = causes \cup (IF host = a THEN {} ELSE {"stale"})
  /\ UNCHANGED members

\* updatePlayer(s, {isHost}) of a record that is there.
SetHostFlag(s, flag) ==
  /\ player' = [player EXCEPT ![s] = [@ EXCEPT !.isHost = flag, !.brief = FALSE]]
  /\ UNCHANGED <<host, members>>

\* SET room:<code> of a snapshot with another host.
WriteHost(s, old) ==
  /\ host' = s
  /\ causes' = causes \cup (IF Exists THEN {} ELSE {"revived"})
                     \cup (IF player[s].here THEN {} ELSE {"missed"})
                     \cup (IF host \in old THEN {} ELSE {"stale"})
  /\ UNCHANGED <<members, player>>

\* atomicGenerateReconnectToken.lua: the token there is, or a new one.
Generate(s) ==
  LET new == token[s] = 0 /\ issued[s] < MaxTokens IN
  /\ token' = [token EXCEPT ![s] = IF new THEN issued[s] + 1 ELSE @]
  /\ issued' = [issued EXCEPT ![s] = IF new THEN @ + 1 ELSE @]

\* The record and the membership of s go (atomicRemovePlayer.lua).
Remove(s) ==
  /\ members' = IF player[s].here THEN members \ {s} ELSE members
  /\ player' = [player EXCEPT ![s] = NoPlayer]
  /\ UNCHANGED host

-----------------------------------------------------------------------------
(* Sockets                                                                   *)

\* A client connects, or refreshes its page; the socket is mapped to the
\* session when the session has a record.
Handshake(s) ==
  /\ socket[s] < MaxSockets /\ Cardinality(Opened) < MaxSockets
  /\ socket' = [socket EXCEPT ![s] = @ + 1]
  /\ live' = [live EXCEPT ![s] = @ \cup {socket[s] + 1}]
  /\ entered' = [entered EXCEPT ![s] = "no"]
  /\ IF player[s].here
       THEN /\ mapped' = [mapped EXCEPT ![s] = socket[s] + 1]
            /\ player' = [player EXCEPT ![s].brief = FALSE]
       ELSE UNCHANGED <<mapped, player>>
  /\ UNCHANGED <<host, members, entry, tokens, locks, rooms, asked, causes, jobs>>

\* The disconnect event of socket k: connectionHandler starts handleDisconnect.
SocketDrops(j, s, k) ==
  /\ At(j, "idle")
  /\ k \in live[s] /\ Cardinality(Dropped) < MaxDrops
  /\ live' = [live EXCEPT ![s] = @ \ {k}]
  /\ entered' = [entered EXCEPT ![s] = IF k = socket[s] THEN "no" ELSE @]
  /\ jobs' = [jobs EXCEPT ![j] = [Begin(j, "drop", "drop", s) EXCEPT !.k = k]]
  /\ UNCHANGED <<store, socket, mapped, entry, tokens, locks, rooms, asked, causes>>

\* Redis keys run out.  The clocks that matter here: a handler lasts seconds, a
\* silent socket is found out within two minutes, the mapping and a token last
\* five minutes, the grace period and the record of a disconnected player ten.
OldSocket(s) == \/ \E k \in live[s] : k < socket[s]
                \/ \E j \in JobId : jobs[j].s = s /\ jobs[j].k < socket[s]

GraceEnds(s) ==
  /\ Quiet
  /\ entry[s] = "waiting"
  /\ entry' = [entry EXCEPT ![s] = "due"]
  /\ UNCHANGED <<store, client, mapped, tokens, locks, rooms, asked, causes, jobs>>

KeyExpires(s) ==
  /\ player[s].here /\ player[s].brief
  /\ entry[s] # "waiting"
  /\ ~OldSocket(s)
  /\ player' = [player EXCEPT ![s] = NoPlayer]
  /\ mapped' = [mapped EXCEPT ![s] = 0]
  /\ token' = [token EXCEPT ![s] = IF entered[s] = "no" THEN 0 ELSE @]
  /\ causes' = causes \cup {"lapsed"}
  /\ UNCHANGED <<host, members, client, entry, held, issued, admitted, locks,
                 rooms, asked, jobs>>

\* atomicRefreshTtl.lua, after a move in the game.
RefreshTTL ==
  /\ \E s \in members : player[s].brief
  /\ player' = [s \in Session |-> IF s \in members THEN [player[s] EXCEPT !.brief = FALSE]
                                                   ELSE player[s]]
  /\ UNCHANGED <<host, members, client, mapped, entry, tokens, locks, rooms, asked,
                 causes, jobs>>

-----------------------------------------------------------------------------
(* Create and join                                                           *)

\* createRoom is one script: the room, the set and the host's record.
CreateRoom(j, s) ==
  /\ MayAsk(j, s) /\ entered[s] = "no"
  /\ rooms < MaxRooms
  /\ ~Exists
  /\ host' = s
  /\ members' = {s}
  /\ player' = [player EXCEPT ![s] = NewPlayer(TRUE)]
  /\ entered' = [entered EXCEPT ![s] = "create"]
  /\ rooms' = rooms + 1
  /\ UNCHANGED <<socket, live, mapped, entry, tokens, locks, asked, causes, jobs>>

\* joinRoom reads the room and the record of the session.
StartJoin(j, s) ==
  /\ Asks(j, s) /\ entered[s] = "no"
  /\ Exists
  /\ jobs' = [jobs EXCEPT ![j] =
                Begin(j, "join", IF player[s].here THEN "rejoin" ELSE "script", s)]
  /\ UNCHANGED <<store, client, mapped, entry, tokens, locks, rooms, causes>>

\* updatePlayer(connected: true) of a member, without any lock.
Rejoin(j) ==
  LET s == jobs[j].s IN
  /\ At(j, "rejoin")
  /\ IF player[s].here
       THEN /\ player' = [player EXCEPT ![s] = [@ EXCEPT !.connected = TRUE, !.brief = FALSE]]
            /\ Go(j, "repair")
       ELSE End(j) /\ UNCHANGED player
  /\ UNCHANGED <<host, members, client, mapped, entry, tokens, locks, rooms, asked, causes>>

\* atomicJoin.lua; a session still in the set gets its record by createPlayer.
JoinScript(j) ==
  LET s == jobs[j].s IN
  /\ At(j, "script")
  /\ \/ ~Exists /\ End(j) /\ UNCHANGED <<members, player>>
     \/ Exists /\ s \in members /\ Go(j, "recreate") /\ UNCHANGED <<members, player>>
     \/ /\ Exists /\ s \notin members
        /\ members' = members \cup {s}
        /\ player' = [player EXCEPT ![s] = NewPlayer(FALSE)]
        /\ Go(j, "repair")
  /\ UNCHANGED <<host, client, mapped, entry, tokens, locks, rooms, asked, causes>>

Recreate(j) ==
  LET s == jobs[j].s IN
  /\ At(j, "recreate")
  /\ members' = members \cup {s}
  /\ player' = [player EXCEPT ![s] = NewPlayer(FALSE)]
  /\ Go(j, "repair")
  /\ UNCHANGED <<host, client, mapped, entry, tokens, locks, rooms, asked, causes>>

\* Mutant: the answer also takes the session off the cleanup schedule.
Mut_Joined(j) ==
  LET s == jobs[j].s IN
  /\ At(j, "joined")
  /\ token' = [token EXCEPT ![s] = 0]
  /\ entered' = [entered EXCEPT ![s] = IF Answered(j) THEN "join" ELSE @]
  /\ entry' = [entry EXCEPT ![s] = "none"]
  /\ End(j)
  /\ UNCHANGED <<store, socket, live, mapped, held, issued, admitted, locks, rooms,
                 asked, causes>>

\* The handler drops the token and answers; the socket may have gone meanwhile.
Joined(j) ==
  LET s == jobs[j].s IN
  /\ At(j, "joined")
  /\ token' = [token EXCEPT ![s] = 0]
  /\ entered' = [entered EXCEPT ![s] = IF Answered(j) THEN "join" ELSE @]
  /\ End(j)
  /\ UNCHANGED <<store, socket, live, mapped, entry, held, issued, admitted, locks, rooms,
                 asked, causes>>

\* A bot of the host's takes a place (addBot up to its seat).
AddBot(j, s, b) ==
  /\ Asks(j, s)
  /\ player[s].here /\ player[s].isHost
  /\ Exists /\ b \notin members
  /\ members' = members \cup {b}
  /\ player' = [player EXCEPT ![b] = NewPlayer(FALSE)]
  /\ UNCHANGED <<host, client, mapped, entry, tokens, locks, rooms, causes, jobs>>

-----------------------------------------------------------------------------
(* Reconnection by a token                                                   *)

\* room:getReconnectionToken
GetToken(s) ==
  /\ Online(s) /\ entered[s] # "no" /\ player[s].here
  /\ Generate(s)
  /\ held' = [held EXCEPT ![s] = token'[s]]
  /\ UNCHANGED <<store, client, mapped, entry, admitted, locks, rooms, asked, causes, jobs>>

\* The token is looked at, and the room it names.
StartReconnect(j, s) ==
  /\ Asks(j, s) /\ entered[s] = "no"
  /\ held[s] # 0 /\ token[s] = held[s] /\ Exists
  /\ jobs' = [jobs EXCEPT ![j] =
                [Begin(j, "reconnect", "consume", s) EXCEPT !.tok = held[s]]]
  /\ UNCHANGED <<store, client, mapped, entry, tokens, locks, rooms, causes>>

\* Mutant: the token is consumed on the strength of the peek.
Mut_Consume(j) ==
  LET s == jobs[j].s IN
  /\ At(j, "consume")
  /\ token' = [token EXCEPT ![s] = 0]
  /\ admitted' = [admitted EXCEPT ![s] = @ + 1]
  /\ Go(j, "reenter")
  /\ UNCHANGED <<store, client, mapped, entry, held, issued, locks, rooms, asked, causes>>

\* atomicValidateReconnectToken.lua
Consume(j) ==
  LET s == jobs[j].s IN
  /\ At(j, "consume")
  /\ IF token[s] # 0 /\ token[s] = jobs[j].tok
       THEN /\ token' = [token EXCEPT ![s] = 0]
            /\ admitted' = [admitted EXCEPT ![s] = @ + 1]
            /\ Go(j, "reenter")
       ELSE End(j) /\ UNCHANGED <<token, admitted>>
  /\ UNCHANGED <<store, client, mapped, entry, held, issued, locks, rooms, asked, causes>>

\* updatePlayer(connected: true) under the player-mutation lock.
Reenter(j) ==
  LET s == jobs[j].s IN
  /\ At(j, "reenter")
  /\ playerLock[s] = Nobody
  /\ IF player[s].here
       THEN /\ player' = [player EXCEPT ![s] = [@ EXCEPT !.connected = TRUE, !.brief = FALSE]]
            /\ Go(j, "repair")
       ELSE End(j) /\ UNCHANGED player
  /\ UNCHANGED <<host, members, client, mapped, entry, tokens, locks, rooms, asked, causes>>

\* The answer, with a fresh token (ROTATE_SESSION_ON_RECONNECT).
Reentered(j) ==
  LET s  == jobs[j].s
      ok == player[s].here
  IN
  /\ At(j, "reentered")
  /\ IF ok THEN Generate(s) /\ held' = [held EXCEPT ![s] = token'[s]]
           ELSE UNCHANGED <<token, held, issued>>
  /\ entered' = [entered EXCEPT ![s] = IF ok /\ Answered(j) THEN "reconnect" ELSE @]
  /\ Prune
  /\ End(j)
  /\ UNCHANGED <<host, player, socket, live, mapped, entry, admitted, locks, rooms, asked,
                 causes>>

-----------------------------------------------------------------------------
(* Leave, kick and cleanupRoom                                               *)

\* room:leave drops the token, reads the room and picks a successor.
StartLeave(j, s) ==
  /\ Asks(j, s) /\ entered[s] # "no" /\ player[s].here
  /\ token' = [token EXCEPT ![s] = 0]
  /\ IF Exists /\ host = s /\ Heirs(Present \ {s}) # {}
       THEN \E h \in Heirs(Present \ {s}) :
              jobs' = [jobs EXCEPT ![j] =
                         [Begin(j, "leave", "lock", s) EXCEPT !.other = h, !.was = TRUE]]
       ELSE jobs' = [jobs EXCEPT ![j] =
                       [Begin(j, "leave", "remove", s) EXCEPT !.was = Exists]]
  /\ members' = IF Exists THEN Present ELSE members
  /\ UNCHANGED <<host, player, client, mapped, entry, held, issued, admitted, locks, rooms, causes>>

\* One try for the lock: when it is taken the leaver goes on without a transfer.
LeaveLock(j) ==
  /\ At(j, "lock")
  /\ IF hostLock = Nobody
       THEN hostLock' = j /\ Go(j, "move")
       ELSE Go(j, "remove") /\ UNCHANGED hostLock
  /\ UNCHANGED <<store, client, mapped, entry, tokens, playerLock, rooms, asked, causes>>

LeaveMove(j) ==
  /\ At(j, "move")
  /\ IF MayTransfer(jobs[j].s, jobs[j].other)
       THEN Transfer(jobs[j].s, jobs[j].other) /\ Go(j, "free")
       ELSE Go(j, "force") /\ UNCHANGED <<store, causes>>
  /\ UNCHANGED <<client, mapped, entry, tokens, locks, rooms, asked>>

\* The fallback writes the snapshot of the room back, then flags the heir.
LeaveForce(j) ==
  /\ At(j, "force")
  /\ WriteHost(jobs[j].other, {jobs[j].s})
  /\ Go(j, "flagHeir")
  /\ UNCHANGED <<client, mapped, entry, tokens, locks, rooms, asked>>

LeaveFlag(j) ==
  /\ At(j, "flagHeir")
  /\ IF player[jobs[j].other].here THEN SetHostFlag(jobs[j].other, TRUE) ELSE UNCHANGED store
  /\ Go(j, "free")
  /\ UNCHANGED <<client, mapped, entry, tokens, locks, rooms, asked, causes>>

\* removePlayer; was: the room was there when the leaver read it.  A room made
\* anew since then is not counted.
LeaveRemove(j) ==
  LET s == jobs[j].s IN
  /\ At(j, "remove")
  /\ Remove(s)
  /\ token' = [token EXCEPT ![s] = IF player[s].here THEN 0 ELSE @]
  /\ entered' = [entered EXCEPT ![s] = IF Answered(j) THEN "no" ELSE @]
  /\ IF jobs[j].was THEN Go(j, "count") ELSE End(j)
  /\ causes' = causes \cup (IF host = s THEN {"skipped"} ELSE {})
                     \cup (IF ~jobs[j].was /\ Exists THEN {"revived"} ELSE {})
  /\ UNCHANGED <<socket, live, mapped, entry, held, issued, admitted, locks, rooms, asked>>

\* Mutant: bots count as players who are left.
Mut_LeaveCount(j) ==
  /\ At(j, "count")
  /\ Prune
  /\ IF Present = {} THEN Go(j, "raze") ELSE End(j)
  /\ UNCHANGED <<host, player, client, mapped, entry, tokens, locks, rooms, asked, causes>>

\* The roster is read again: no human left means the room goes.
LeaveCount(j) ==
  /\ At(j, "count")
  /\ Prune
  /\ IF People = {} THEN Go(j, "raze") ELSE End(j)
  /\ UNCHANGED <<host, player, client, mapped, entry, tokens, locks, rooms, asked, causes>>

\* cleanupRoom: SMEMBERS, then one DEL of all it has seen.
Raze(j) ==
  /\ At(j, "raze")
  /\ jobs' = [jobs EXCEPT ![j] = [@ EXCEPT !.at = "delete", !.seen = members]]
  /\ UNCHANGED <<store, client, mapped, entry, tokens, locks, rooms, asked, causes>>

RazeDelete(j) ==
  LET seen == jobs[j].seen IN
  /\ At(j, "delete")
  /\ host' = Nobody
  /\ members' = {}
  /\ player' = [s \in Session |-> IF s \in seen THEN NoPlayer ELSE player[s]]
  /\ mapped' = [s \in Human |-> IF s \in seen THEN 0 ELSE mapped[s]]
  /\ token' = [s \in Human |-> IF s \in seen THEN 0 ELSE token[s]]
  /\ causes' = causes \cup (IF hostLock = Nobody THEN {} ELSE {"stale"})
  /\ End(j)
  /\ UNCHANGED <<client, entry, held, issued, admitted, locks, rooms, asked>>

\* player:kick closes the sockets of t, whose disconnect handler then runs ...
StartKick(j, d, s, t) ==
  /\ Asks(j, s) /\ entered[s] # "no"
  /\ player[s].here /\ player[s].isHost
  /\ t # s /\ t \in Present
  /\ d # j /\ At(d, "idle")
  /\ LET up == entered[t] # "no" /\ Online(t)
         kick == [Begin(j, "kick", "kickRemove", t) EXCEPT !.k = 0, !.other = s]
     IN  /\ jobs' = IF up THEN [jobs EXCEPT ![j] = kick,
                                            ![d] = Begin(d, "drop", "drop", t)]
                          ELSE [jobs EXCEPT ![j] = kick]
         /\ live' = [live EXCEPT ![t] = IF up THEN @ \ {socket[t]} ELSE @]
         /\ entered' = [entered EXCEPT ![t] = IF up THEN "no" ELSE @]
  /\ UNCHANGED <<store, socket, mapped, entry, tokens, locks, rooms, causes>>

\* ... and removes the player.
KickRemove(j) ==
  LET t == jobs[j].s IN
  /\ At(j, "kickRemove")
  /\ Remove(t)
  /\ token' = [token EXCEPT ![t] = 0]
  /\ causes' = causes \cup (IF People = {t} THEN {"kicked"} ELSE {})
                     \cup (IF host = t THEN {"missed"} ELSE {})
  /\ End(j)
  /\ UNCHANGED <<client, mapped, entry, held, issued, admitted, locks, rooms, asked>>

-----------------------------------------------------------------------------
(* ensureRoomHasHost                                                         *)

\* room:resync
StartResync(j, s) ==
  /\ Asks(j, s) /\ entered[s] # "no" /\ player[s].here
  /\ jobs' = [jobs EXCEPT ![j] = Begin(j, "resync", "repair", s)]
  /\ UNCHANGED <<store, client, mapped, entry, tokens, locks, rooms, causes>>

HostIsHuman == IsHere(host) /\ host \in Human
Candidates  == {s \in People : player[s].connected}

\* A host that resolves to a human needs nothing; otherwise a candidate is read.
Repair(j) ==
  /\ At(j, "repair")
  /\ IF ~Exists \/ HostIsHuman
       THEN AfterHost(j) /\ UNCHANGED members
       ELSE /\ Prune
            /\ \/ Candidates = {} /\ AfterHost(j)
               \/ \E c \in Candidates :
                    jobs' = [jobs EXCEPT ![j] = [@ EXCEPT !.at = "repairLock", !.other = c]]
  /\ UNCHANGED <<host, player, client, mapped, entry, tokens, locks, rooms, asked, causes>>

RepairLock(j) ==
  /\ At(j, "repairLock")
  /\ \/ hostLock = Nobody /\ hostLock' = j /\ Go(j, "reread") /\ UNCHANGED causes
     \/ /\ hostLock # Nobody
        /\ AfterHost(j)
        /\ causes' = causes \cup {"skipped"}
        /\ UNCHANGED hostLock
  /\ UNCHANGED <<store, client, mapped, entry, tokens, playerLock, rooms, asked>>

\* Inside the lock the room and its host are read again, the candidate is not.
RepairReread(j) ==
  /\ At(j, "reread")
  /\ IF ~Exists \/ HostIsHuman
       THEN Go(j, "free")
       ELSE jobs' = [jobs EXCEPT ![j] = [@ EXCEPT !.at = "write", !.seen = {host}]]
  /\ UNCHANGED <<store, client, mapped, entry, tokens, locks, rooms, asked, causes>>

RepairWrite(j) ==
  /\ At(j, "write")
  /\ WriteHost(jobs[j].other, jobs[j].seen)
  /\ Go(j, "flag")
  /\ UNCHANGED <<client, mapped, entry, tokens, locks, rooms, asked>>

\* updatePlayer throws when the candidate has left meanwhile.
RepairFlag(j) ==
  /\ At(j, "flag")
  /\ IF player[jobs[j].other].here
       THEN SetHostFlag(jobs[j].other, TRUE) /\ Go(j, "clear") /\ UNCHANGED causes
       ELSE Go(j, "free") /\ causes' = causes \cup {"missed"} /\ UNCHANGED store
  /\ UNCHANGED <<client, mapped, entry, tokens, locks, rooms, asked>>

\* Mutant: the former host keeps its flag.
Mut_RepairClear(j) ==
  /\ At(j, "clear")
  /\ Go(j, "free")
  /\ UNCHANGED <<store, client, mapped, entry, tokens, locks, rooms, asked, causes>>

RepairClear(j) ==
  LET gone == {s \in jobs[j].seen \ {jobs[j].other} : player[s].here} IN
  /\ At(j, "clear")
  /\ player' = [s \in Session |-> IF s \in gone
                  THEN [player[s] EXCEPT !.isHost = FALSE, !.brief = FALSE] ELSE player[s]]
  /\ Go(j, "free")
  /\ UNCHANGED <<host, members, client, mapped, entry, tokens, locks, rooms, asked, causes>>

\* releaseLock.lua
FreeHostLock(j) ==
  /\ At(j, "free")
  /\ hostLock' = Nobody
  /\ AfterHost(j)
  /\ UNCHANGED <<store, client, mapped, entry, tokens, playerLock, rooms, asked, causes>>

-----------------------------------------------------------------------------
(* The disconnect handler                                                    *)

\* Reads the record, and keeps whether the player was host.
Drop(j) ==
  LET s == jobs[j].s IN
  /\ At(j, "drop")
  /\ IF player[s].here
       THEN jobs' = [jobs EXCEPT ![j] = [@ EXCEPT !.at = "owner", !.was = player[s].isHost]]
       ELSE End(j)
  /\ UNCHANGED <<store, client, mapped, entry, tokens, locks, rooms, asked, causes>>

\* Reads the mapping: a newer socket owns the session.
DropOwner(j) ==
  LET s == jobs[j].s IN
  /\ At(j, "owner")
  /\ IF mapped[s] # 0 /\ mapped[s] # jobs[j].k THEN End(j) ELSE Go(j, "mint")
  /\ UNCHANGED <<store, client, mapped, entry, tokens, locks, rooms, asked, causes>>

\* Generates a reconnection token; a failure is only logged.
DropToken(j) ==
  /\ At(j, "mint")
  /\ Generate(jobs[j].s) \/ UNCHANGED <<token, issued>>
  /\ Go(j, "check")
  /\ UNCHANGED <<store, client, mapped, entry, held, admitted, locks, rooms, asked, causes>>

\* Mutant: the mapping is not looked at again inside the lock.
Mut_DropCheck(j) ==
  LET s == jobs[j].s IN
  /\ At(j, "check")
  /\ playerLock[s] = Nobody
  /\ playerLock' = [playerLock EXCEPT ![s] = j]
  /\ Go(j, "mark")
  /\ UNCHANGED <<store, client, mapped, entry, tokens, hostLock, rooms, asked, causes>>

\* Takes the player-mutation lock and looks at the mapping once more.
DropCheck(j) ==
  LET s == jobs[j].s IN
  /\ At(j, "check")
  /\ playerLock[s] = Nobody
  /\ IF mapped[s] # 0 /\ mapped[s] # jobs[j].k
       THEN End(j) /\ UNCHANGED playerLock
       ELSE playerLock' = [playerLock EXCEPT ![s] = j] /\ Go(j, "mark")
  /\ UNCHANGED <<store, client, mapped, entry, tokens, hostLock, rooms, asked, causes>>

\* updatePlayer(connected: false), which throws without a record; the lock goes.
DropMark(j) ==
  LET s == jobs[j].s IN
  /\ At(j, "mark")
  /\ IF player[s].here
       THEN /\ player' = [player EXCEPT ![s] = [@ EXCEPT !.connected = FALSE, !.brief = FALSE]]
            /\ Go(j, "plan")
       ELSE End(j) /\ UNCHANGED player
  /\ playerLock' = [playerLock EXCEPT ![s] = Nobody]
  /\ UNCHANGED <<host, members, client, mapped, entry, tokens, hostLock, rooms, asked, causes>>

\* ZADD moves the one entry of the session; it may fail.
DropPlan(j) ==
  LET s == jobs[j].s IN
  /\ At(j, "plan")
  /\ \/ entry' = [entry EXCEPT ![s] = "waiting"] /\ UNCHANGED causes
     \/ causes' = causes \cup {"unplanned"} /\ UNCHANGED entry
  /\ Go(j, "shorten")
  /\ UNCHANGED <<store, client, mapped, tokens, locks, rooms, asked>>

\* EXPIRE of the record, whoever has written it since.
DropShorten(j) ==
  LET s == jobs[j].s IN
  /\ At(j, "shorten")
  /\ player' = [player EXCEPT ![s].brief = player[s].here]
  /\ IF jobs[j].was THEN Go(j, "waitLock") ELSE End(j)
  /\ UNCHANGED <<host, members, client, mapped, entry, tokens, locks, rooms, asked, causes>>

\* withLock retries, and gives up when the lock stays taken.
DropLock(j) ==
  /\ At(j, "waitLock")
  /\ IF hostLock = Nobody THEN hostLock' = j /\ Go(j, "recheck")
                          ELSE End(j) /\ UNCHANGED hostLock
  /\ UNCHANGED <<store, client, mapped, entry, tokens, playerLock, rooms, asked, causes>>

\* A host who is back keeps the room; else a successor is read from the roster.
DropRecheck(j) ==
  LET s    == jobs[j].s
      pool == {p \in Present \ {s} : player[p].connected}
  IN
  /\ At(j, "recheck")
  /\ IF IsHere(s) /\ player[s].connected
       THEN Go(j, "free") /\ UNCHANGED members
       ELSE /\ Prune
            /\ \/ Heirs(pool) = {} /\ Go(j, "free")
               \/ \E h \in Heirs(pool) :
                    jobs' = [jobs EXCEPT ![j] = [@ EXCEPT !.at = "transfer", !.other = h]]
  /\ UNCHANGED <<host, player, client, mapped, entry, tokens, locks, rooms, asked, causes>>

DropTransfer(j) ==
  /\ At(j, "transfer")
  /\ IF MayTransfer(jobs[j].s, jobs[j].other)
       THEN Transfer(jobs[j].s, jobs[j].other) ELSE UNCHANGED <<store, causes>>
  /\ Go(j, "free")
  /\ UNCHANGED <<client, mapped, entry, tokens, locks, rooms, asked>>

-----------------------------------------------------------------------------
(* The scheduled cleanup                                                     *)

\* processScheduledCleanups takes a due entry off the schedule.
StartSweep(j, s) ==
  /\ At(j, "idle")
  /\ entry[s] = "due"
  /\ \A i \in JobId : jobs[i].kind # "sweep"
  /\ entry' = [entry EXCEPT ![s] = "none"]
  /\ jobs' = [jobs EXCEPT ![j] = [Begin(j, "sweep", "sweep", s) EXCEPT !.k = 0]]
  /\ UNCHANGED <<store, client, mapped, tokens, locks, rooms, asked, causes>>

\* atomicCleanupDisconnectedPlayer.lua, then the token.
Sweep(j) ==
  LET s == jobs[j].s IN
  /\ At(j, "sweep")
  /\ IF player[s].here /\ ~player[s].connected
       THEN /\ Remove(s)
            /\ mapped' = [mapped EXCEPT ![s] = 0]
            /\ token' = [token EXCEPT ![s] = 0]
            /\ Go(j, "sweepCount")
       ELSE End(j) /\ UNCHANGED <<store, mapped, token>>
  /\ UNCHANGED <<client, entry, held, issued, admitted, locks, rooms, asked, causes>>

\* A command of a sweep fails, and is only logged: the script does not run, it
\* runs and its reply is lost, or the count of who is left fails.  The entry is
\* off the schedule already.
SweepFails(j) ==
  LET s == jobs[j].s IN
  /\ \/ /\ At(j, "sweep")
        /\ causes' = causes \cup {"unswept"}
        /\ UNCHANGED <<store, mapped>>
     \/ /\ At(j, "sweep") /\ player[s].here /\ ~player[s].connected
        /\ causes' = causes \cup {"uncounted"}
        /\ Remove(s)
        /\ mapped' = [mapped EXCEPT ![s] = 0]
     \/ /\ At(j, "sweepCount")
        /\ causes' = causes \cup {"uncounted"}
        /\ UNCHANGED <<store, mapped>>
  /\ End(j)
  /\ UNCHANGED <<client, entry, tokens, locks, rooms, asked>>

\* Mutant: the host is not repaired after a removal.
Mut_SweepCount(j) ==
  /\ At(j, "sweepCount")
  /\ Prune
  /\ IF People = {} /\ Exists THEN Go(j, "raze") ELSE End(j)
  /\ UNCHANGED <<host, player, client, mapped, entry, tokens, locks, rooms, asked, causes>>

\* No human left: the room goes, if it is there; else its host is repaired.
SweepCount(j) ==
  /\ At(j, "sweepCount")
  /\ Prune
  /\ \/ People # {} /\ Go(j, "repair")
     \/ People = {} /\ Exists /\ Go(j, "raze")
     \/ People = {} /\ ~Exists /\ End(j)
  /\ UNCHANGED <<host, player, client, mapped, entry, tokens, locks, rooms, asked, causes>>

-----------------------------------------------------------------------------
JobStep(j) ==
  \/ Rejoin(j) \/ JoinScript(j) \/ Recreate(j) \/ Joined(j)
  \/ Consume(j) \/ Reenter(j) \/ Reentered(j)
  \/ LeaveLock(j) \/ LeaveMove(j) \/ LeaveForce(j) \/ LeaveFlag(j)
  \/ LeaveRemove(j) \/ LeaveCount(j) \/ Raze(j) \/ RazeDelete(j) \/ KickRemove(j)
  \/ Repair(j) \/ RepairLock(j) \/ RepairReread(j) \/ RepairWrite(j)
  \/ RepairFlag(j) \/ RepairClear(j) \/ FreeHostLock(j)
  \/ Drop(j) \/ DropOwner(j) \/ DropToken(j) \/ DropCheck(j) \/ DropMark(j)
  \/ DropPlan(j) \/ DropShorten(j) \/ DropLock(j) \/ DropRecheck(j) \/ DropTransfer(j)
  \/ Sweep(j) \/ SweepCount(j) \/ SweepFails(j)

Ask(j, s) ==
  \/ CreateRoom(j, s) \/ StartJoin(j, s) \/ StartReconnect(j, s)
  \/ StartLeave(j, s) \/ StartResync(j, s)
  \/ \E d \in JobId, t \in Human : StartKick(j, d, s, t)
  \/ \E b \in Bot : AddBot(j, s, b)

Next ==
  \/ \E j \in JobId : JobStep(j)
  \/ \E j \in JobId, s \in Human : Ask(j, s) \/ StartSweep(j, s)
  \/ \E j \in JobId, s \in Human, k \in 1 .. MaxSockets : SocketDrops(j, s, k)
  \/ \E s \in Human : Handshake(s) \/ GraceEnds(s) \/ KeyExpires(s) \/ GetToken(s)
  \/ RefreshTTL

Spec == Init /\ [][Next]_vars

\* A handler under way serves a session.
JobsOK ==
  /\ jobs \in [JobId -> Job]
  /\ \A j \in JobId : At(j, "idle") \/ jobs[j].s \in Human

TypeOK ==
  /\ host \in Session \cup {Nobody}
  /\ members \subseteq Session
  /\ player \in [Session -> Player]
  /\ socket \in [Human -> 0 .. MaxSockets]
  /\ live \in [Human -> SUBSET (1 .. MaxSockets)]
  /\ entered \in [Human -> {"no", "create", "join", "reconnect"}]
  /\ mapped \in [Human -> 0 .. MaxSockets]
  /\ entry \in [Human -> {"none", "waiting", "due"}]
  /\ token \in [Human -> 0 .. MaxTokens] /\ held \in [Human -> 0 .. MaxTokens]
  /\ issued \in [Human -> 0 .. MaxTokens]
  /\ admitted \in [Human -> Nat]
  /\ hostLock \in JobId \cup {Nobody}
  /\ playerLock \in [Human -> JobId \cup {Nobody}]
  /\ rooms \in 0 .. MaxRooms /\ asked \in 0 .. MaxRequests
  /\ causes \subseteq Cause
  /\ JobsOK

-----------------------------------------------------------------------------
(* Properties.  Where the code lets a mishap through, causes names it and    *)
(* the property says which ones it excepts: "lapsed", a record ran out       *)
(* before its sweep; "skipped", a host move or repair found the lock taken;  *)
(* "missed", the heir left while it was being made host, or was kicked just  *)
(* after; "stale", the host was another one by then, or the room was razed   *)
(* under a host move; "revived", a razed room was written back, or was made  *)
(* anew under a leaver; "kicked", the last person was kicked; "unplanned",   *)
(* ZADD failed; "unswept", a sweep took the entry and its script did not     *)
(* run; "uncounted", it removed the player and did not look at who is left.  *)

\* A token lets one socket in at most, whatever requests cross.
TokenAdmitsOnce ==
  \A s \in Human : admitted[s] + (IF token[s] = 0 THEN 0 ELSE 1) <= issued[s]

\* Who came back by room:reconnect on the socket its session is mapped to stays
\* connected: the disconnect of an older socket does not land on top of it
\* (cleanup.ts, P0-4).
ReconnectSticks ==
  Quiet => \A s \in Human :
    (Online(s) /\ mapped[s] = socket[s] /\ entered[s] = "reconnect" /\ player[s].here)
      => player[s].connected

\* The same for who came back by room:join, which takes no lock.
RejoinSticks ==
  Quiet => \A s \in Human :
    (Online(s) /\ entered[s] = "join" /\ player[s].here) => player[s].connected

\* Nobody but the host of the room has the rights of the host.
OneHostFlag ==
  (Quiet /\ causes \cap {"missed", "revived", "stale"} = {})
    => \A s \in Present : Exists /\ player[s].isHost => host = s

\* A room with a person connected has a host whose record is there.
HostResolves ==
  (Quiet /\ causes \cap {"lapsed", "skipped", "missed", "uncounted"} = {})
    => (Exists /\ Candidates # {} => IsHere(host))

\* A room that only bots are left in, or nobody, is gone.
EmptyRoomsGo ==
  (Quiet /\ causes \cap {"lapsed", "revived", "kicked", "uncounted"} = {})
    => (Exists => People # {})

\* A disconnected player is on the cleanup schedule until it is back or gone.
NobodyLingers ==
  causes \cap {"unplanned", "unswept"} = {} => \A s \in Human :
    (player[s].here /\ ~player[s].connected)
      => \/ entry[s] # "none"
         \/ \E j \in JobId : jobs[j].s = s /\ jobs[j].at \in {"plan", "sweep"}
=============================================================================
