----------------------------- MODULE GameStore -----------------------------
(***************************************************************************)
(* How a stored game is changed (services/game/luaGameOps.ts and           *)
(* gameService.ts): by a Lua script in one step, by a WATCH/MULTI          *)
(* transaction (executeGameTransaction), or by the creation of a new game  *)
(* from what was read some commands before.                                *)
(*                                                                         *)
(* The optimistic lock of a transaction is a property of the connection,   *)
(* and a process has one connection for all its rooms (config/redis.ts).   *)
(* Scripts and transactions of a room run under the lock reveal:<code>,    *)
(* creations under game-create:<code>.  A body that outlives its lock      *)
(* (GameLock) goes on without it.  A command that times out has been sent  *)
(* before, and takes effect although its caller is told it failed.         *)
(*                                                                         *)
(* Nothing keeps the transactions of two rooms apart that share the        *)
(* connection: the EXEC or UNWATCH of one drops the watch of the other.    *)
(* loose keeps track of whom that, a lost lock or a repeated script has    *)
(* left without protection.                                                *)
(***************************************************************************)
EXTENDS Integers, FiniteSets

CONSTANTS
  Room, Process,
  JobId,        \* bound: the jobs under way at once
  MaxTries,     \* MAX_TRANSACTION_RETRIES; as many attempts of persistGameState
  MaxJobs,      \* bound: jobs and scripts begun
  Overruns,     \* the kinds of work that may outlive their lock
  Late,         \* the kinds of work whose commands may time out
  NoJob

Tx   == {"play", "amend"}
Kind == Tx \cup {"create", "script"}

ASSUME StoreAssumption ==
  /\ MaxTries \in Nat \ {0} /\ MaxJobs \in Nat
  /\ Overruns \subseteq Kind /\ Late \subseteq Kind \ {"script"}

\* A game is its number in the room, its stateVersion and gameOver; number 0
\* stands for no game.
Game == [id : Nat, version : Nat, over : BOOLEAN]
Step == {"watch", "get", "exec", "retry", "quit", "read", "persist"}
Job  == [kind : Tx \cup {"create"}, room : Room, at : Process, step : Step,
         read : Game, tries : 0 .. MaxTries - 1, locked : BOOLEAN]
ASSUME NoJobAssumption == NoJob \notin Job

VARIABLES
  game,       \* room:<code>:game
  watched,    \* the rooms whose game a connection watches, by process
  dirty,      \* one of them was written since
  jobs,       \* transactions and creations under way
  begun,      \* bound: jobs and scripts so far
  loose       \* history: the jobs that may write over what they did not read: a
              \* transaction whose watch another one dropped, a creation without
              \* its lock, sent again, or overtaken by the write of such a job

connVars == <<watched, dirty>>
vars == <<game, connVars, jobs, begun, loose>>

Blank == [id |-> 0, version |-> 0, over |-> TRUE]

Under(j)  == jobs[j] # NoJob
At(j, s)  == jobs[j] # NoJob /\ jobs[j].step = s
InTx(j)   == jobs[j] # NoJob /\ jobs[j].kind \in Tx

Init ==
  /\ game = [r \in Room |-> Blank]
  /\ watched = [p \in Process |-> {}]
  /\ dirty = [p \in Process |-> FALSE]
  /\ jobs = [j \in JobId |-> NoJob]
  /\ begun = 0
  /\ loose = {}

-----------------------------------------------------------------------------
(* Locks and connections                                                   *)

LockFree(r, K) == \A j \in JobId : ~(Under(j) /\ jobs[j].locked /\ jobs[j].room = r
                                       /\ jobs[j].kind \in K)

\* A write of r, by whatever connection, marks every connection watching it.
Touch(r) == dirty' = [p \in Process |-> dirty[p] \/ r \in watched[p]]

\* EXEC and UNWATCH forget everything the connection watched.
Unwatch(p) ==
  /\ watched' = [watched EXCEPT ![p] = {}]
  /\ dirty' = [dirty EXCEPT ![p] = FALSE]

Goto(j, s) == jobs' = [jobs EXCEPT ![j].step = s]
Finish(j)  == jobs' = [jobs EXCEPT ![j] = NoJob]

Read(j, s, g) == jobs' = [jobs EXCEPT ![j].step = s, ![j].read = g]

\* The jobs S lose their protection, those that have ended have none to lose.
Loosen(S) == loose' = {i \in loose \cup S : jobs'[i] # NoJob}

\* The other transactions on j's connection that count on their WATCH.
Sharing(j) == {i \in JobId \ {j} : /\ InTx(i) /\ jobs[i].step \in {"get", "exec"}
                                   /\ jobs[i].at = jobs[j].at}

\* A write by a job that is loose may hit a creation that has read before it.
Overtaken(j) ==
  IF j \in loose
  THEN {i \in JobId \ {j} : Under(i) /\ jobs[i].kind = "create" /\ jobs[i].room = jobs[j].room}
  ELSE {}

\* Another attempt, unless that was the last.
Again(j, s) ==
  IF jobs[j].tries + 1 < MaxTries
  THEN jobs' = [jobs EXCEPT ![j].step = s, ![j].tries = @ + 1]
  ELSE Finish(j)

\* A mutation refuses a missing game; only finalizing and resuming accept one
\* that is over.
Accepts(k, g) == g.id > 0 /\ (k \in {"play", "script"} => ~g.over)

-----------------------------------------------------------------------------
(* executeGameTransaction                                                  *)

BeginTx(j, k, r, p) ==
  /\ jobs[j] = NoJob
  /\ begun < MaxJobs
  /\ LockFree(r, Tx)
  /\ jobs' = [jobs EXCEPT ![j] = [kind |-> k, room |-> r, at |-> p, step |-> "watch",
                                  read |-> Blank, tries |-> 0, locked |-> TRUE]]
  /\ begun' = begun + 1
  /\ UNCHANGED <<game, connVars, loose>>

Watch(j) ==
  /\ At(j, "watch")
  /\ watched' = [watched EXCEPT ![jobs[j].at] = @ \cup {jobs[j].room}]
  /\ Goto(j, "get")
  /\ loose' = loose \ {j}
  /\ UNCHANGED <<game, dirty, begun>>

\* GET, then the operation on what was read, which may refuse it.
Get(j) ==
  /\ At(j, "get")
  /\ LET g == game[jobs[j].room] IN
       Read(j, IF Accepts(jobs[j].kind, g) THEN "exec" ELSE "quit", g)
  /\ UNCHANGED <<game, connVars, begun, loose>>

\* EXEC on a clean connection writes what was computed from the value read,
\* and forgets what was watched.  Its reply may be late.
Commit(j) ==
  LET r == jobs[j].room IN
  /\ \E o \in (IF jobs[j].kind = "play" THEN BOOLEAN ELSE {jobs[j].read.over}) :
       game' = [game EXCEPT ![r] =
                  [jobs[j].read EXCEPT !.version = @ + 1, !.over = o]]
  /\ watched' = [watched EXCEPT ![jobs[j].at] = {}]
  /\ dirty' = [p \in Process |-> p # jobs[j].at /\ (dirty[p] \/ r \in watched[p])]
  /\ Finish(j) \/ (jobs[j].kind \in Late /\ Goto(j, "quit"))
  /\ Loosen(Sharing(j) \cup Overtaken(j))
  /\ UNCHANGED begun

Mut_Exec(j) == At(j, "exec") /\ Commit(j)
Exec(j) == At(j, "exec") /\ ~dirty[jobs[j].at] /\ Commit(j)

\* On a dirty one it writes nothing; the WatchError leads to a retry.
Abort(j) ==
  /\ At(j, "exec")
  /\ dirty[jobs[j].at]
  /\ Unwatch(jobs[j].at)
  /\ Goto(j, "retry")
  /\ Loosen(Sharing(j))
  /\ UNCHANGED <<game, begun>>

\* The catch block unwatches before it looks at the error.
Mut_UnwatchAndRetry(j) ==
  /\ At(j, "retry")
  /\ Unwatch(jobs[j].at)
  /\ Goto(j, "watch")
  /\ Loosen(Sharing(j))
  /\ UNCHANGED <<game, begun>>
UnwatchAndRetry(j) ==
  /\ At(j, "retry")
  /\ Unwatch(jobs[j].at)
  /\ Again(j, "watch")
  /\ Loosen(Sharing(j))
  /\ UNCHANGED <<game, begun>>

\* A command before EXEC times out: WATCH, GET or TTL.
CommandLate(j) ==
  /\ At(j, "get") \/ At(j, "exec")
  /\ jobs[j].kind \in Late
  /\ Goto(j, "quit")
  /\ UNCHANGED <<game, connVars, begun, loose>>

UnwatchAndThrow(j) ==
  /\ At(j, "quit")
  /\ Unwatch(jobs[j].at)
  /\ Finish(j)
  /\ Loosen(Sharing(j))
  /\ UNCHANGED <<game, begun>>

-----------------------------------------------------------------------------
(* Scripts, creation, and what else writes the key                         *)

Script(r) ==
  /\ begun < MaxJobs
  /\ "script" \in Overruns \/ LockFree(r, Tx)
  /\ Accepts("script", game[r])
  /\ \E o \in BOOLEAN :
       game' = [game EXCEPT ![r].version = @ + 1, ![r].over = o]
  /\ Touch(r)
  /\ begun' = begun + 1
  /\ UNCHANGED <<watched, jobs, loose>>

\* createGame and startNextRound: read, and go on if the game is over.
BeginCreate(j, r, p) ==
  /\ jobs[j] = NoJob
  /\ begun < MaxJobs
  /\ LockFree(r, {"create"})
  /\ jobs' = [jobs EXCEPT ![j] = [kind |-> "create", room |-> r, at |-> p,
                                  step |-> "read", read |-> Blank, tries |-> 0,
                                  locked |-> TRUE]]
  /\ begun' = begun + 1
  /\ UNCHANGED <<game, connVars, loose>>

Mut_ReadForCreate(j) ==
  /\ At(j, "read")
  /\ Read(j, "persist", game[jobs[j].room])
  /\ UNCHANGED <<game, connVars, begun, loose>>
ReadForCreate(j) ==
  /\ At(j, "read")
  /\ IF game[jobs[j].room].over
     THEN Read(j, "persist", game[jobs[j].room])
     ELSE Finish(j)
  /\ Loosen({})
  /\ UNCHANGED <<game, connVars, begun>>

\* persistGameState overwrites whatever is stored by then.
Store(j) ==
  /\ game' = [game EXCEPT ![jobs[j].room] =
                [id |-> jobs[j].read.id + 1, version |-> 1, over |-> FALSE]]
  /\ Touch(jobs[j].room)

Persist(j) ==
  /\ At(j, "persist")
  /\ Store(j)
  /\ Finish(j)
  /\ Loosen(Overtaken(j))
  /\ UNCHANGED <<watched, begun>>

\* Its script times out without having run and is sent again (retryAsync).
PersistLate(j) ==
  /\ At(j, "persist")
  /\ "create" \in Late
  /\ Again(j, "persist")
  /\ Loosen({})
  /\ UNCHANGED <<game, connVars, begun>>

\* It has run, and only its reply is late; sent again, it overwrites what has
\* been played on the new board meanwhile.
PersistUnheard(j) ==
  /\ At(j, "persist")
  /\ "create" \in Late
  /\ Store(j)
  /\ Again(j, "persist")
  /\ Loosen(Overtaken(j) \cup {j})
  /\ UNCHANGED <<watched, begun>>

\* atomicRefreshTtl.lua sets the key's TTL: the value stays, watchers are marked.
RefreshTtl(r) ==
  /\ game[r].id > 0
  /\ \E p \in Process : r \in watched[p]
  /\ Touch(r)
  /\ UNCHANGED <<game, watched, jobs, begun, loose>>

\* The lock's time runs out, or withLock gives the body up.
LoseLock(j) ==
  /\ Under(j)
  /\ jobs[j].locked
  /\ jobs[j].kind \in Overruns
  /\ jobs' = [jobs EXCEPT ![j].locked = FALSE]
  /\ Loosen(IF jobs[j].kind = "create" THEN {j} ELSE {})
  /\ UNCHANGED <<game, connVars, begun>>

-----------------------------------------------------------------------------

JobStep(j) ==
  \/ Watch(j) \/ Get(j) \/ Exec(j) \/ Abort(j) \/ UnwatchAndRetry(j)
  \/ UnwatchAndThrow(j) \/ ReadForCreate(j) \/ Persist(j)
  \/ CommandLate(j) \/ PersistLate(j) \/ PersistUnheard(j)

Next ==
  \/ \E j \in JobId, r \in Room, p \in Process :
       (\E k \in Tx : BeginTx(j, k, r, p)) \/ BeginCreate(j, r, p)
  \/ \E j \in JobId : JobStep(j) \/ LoseLock(j)
  \/ \E r \in Room : Script(r) \/ RefreshTtl(r)

Spec == Init /\ [][Next]_vars

\* Redis answers or the command times out: what is under way goes on.
FairSpec == Spec /\ \A j \in JobId : WF_vars(JobStep(j))

-----------------------------------------------------------------------------
(* Properties                                                              *)

TypeOK ==
  /\ game \in [Room -> Game]
  /\ watched \in [Process -> SUBSET Room]
  /\ dirty \in [Process -> BOOLEAN]
  /\ jobs \in [JobId -> Job \cup {NoJob}]
  /\ begun \in Nat /\ loose \subseteq JobId

\* What executeGameTransaction says of its optimistic lock: "If another client
\* modifies the game key between WATCH and EXEC, the transaction is aborted and
\* retried".  It is not, when another room's transaction on the same connection
\* has dropped the watch.
AbortsWhenModified ==
  [][\A j \in JobId : Exec(j) => jobs[j].read = game[jobs[j].room]]_vars

\* What is left of it: a transaction whose watch no other has dropped writes only
\* over the value it read, whatever the other rooms of its process do, and
\* although locks run out and replies come late.
CommitsOnWhatItRead ==
  [][\A j \in JobId \ loose : Exec(j) => jobs[j].read = game[jobs[j].room]]_vars

\* Every write is one operation on the value it finds, unless the one who writes
\* has lost what protects it: no update is lost, no game in progress is
\* replaced, no finished one played on.
Stored == INSTANCE StoredGame
GamesAreAtomic ==
  Stored!SGInit /\ [][\/ Stored!SGNext
                     \/ \E j \in loose : Exec(j) \/ Persist(j) \/ PersistUnheard(j)]_game

\* A process with no transaction under way watches nothing and is not marked,
\* so the next transaction is not aborted for a write before it.
ConnectionLeftClean ==
  \A p \in Process :
    (\A j \in JobId : ~(InTx(j) /\ jobs[j].at = p)) => watched[p] = {} /\ ~dirty[p]

\* Whatever is begun ends, though writers abort it again and again.
JobsEnd == \A j \in JobId : Under(j) ~> ~Under(j)
=============================================================================
