--------------------------- MODULE GameStoreProofs ---------------------------
(***************************************************************************)
(* Theorems of GameStore, for any rooms, processes and jobs, any number of *)
(* attempts and of work begun; and of GameLock, the lock its scripts and   *)
(* transactions run under, for any number of callers, any timeouts and     *)
(* retries, and any number of lost replies.                                *)
(***************************************************************************)
EXTENDS GameStore, GameLock, TLAPS

LEMMA JobFields ==
  ASSUME TypeOK, NEW j \in JobId, Under(j)
  PROVE  /\ jobs[j] \in Job
         /\ jobs[j].kind \in Tx \cup {"create"} /\ jobs[j].room \in Room
         /\ jobs[j].at \in Process /\ jobs[j].step \in Step
         /\ jobs[j].read \in Game /\ jobs[j].tries \in 0 .. MaxTries - 1
         /\ jobs[j].locked \in BOOLEAN
BY DEF TypeOK, Job, Under

LEMMA NewJob ==
  ASSUME NEW k \in Tx \cup {"create"}, NEW r \in Room, NEW p \in Process,
         NEW s \in Step, NEW b \in BOOLEAN
  PROVE  [kind |-> k, room |-> r, at |-> p, step |-> s,
          read |-> Blank, tries |-> 0, locked |-> b] \in Job
<1>1. Blank \in Game
  BY DEF Blank, Game
<1>2. 0 \in 0 .. MaxTries - 1
  BY StoreAssumption
<1>3. QED BY <1>1, <1>2 DEF Job

LEMMA JobIsJob == \A x \in Job : x # NoJob
BY NoJobAssumption

LEMMA JobReplaced ==
  ASSUME TypeOK, NEW j \in JobId, NEW x \in Job, jobs' = [jobs EXCEPT ![j] = x]
  PROVE  /\ jobs' \in [JobId -> Job \cup {NoJob}]
         /\ jobs'[j] = x /\ x # NoJob
         /\ \A i \in JobId : i # j => jobs'[i] = jobs[i]
BY JobIsJob DEF TypeOK

\* What the updates of a job leave of the table.
LEMMA GotoKeeps ==
  ASSUME TypeOK, NEW j \in JobId, Under(j), NEW s \in Step, Goto(j, s)
  PROVE  /\ jobs' \in [JobId -> Job \cup {NoJob}]
         /\ jobs'[j] # NoJob /\ jobs'[j].step = s
         /\ jobs'[j].kind = jobs[j].kind /\ jobs'[j].room = jobs[j].room
         /\ jobs'[j].at = jobs[j].at /\ jobs'[j].read = jobs[j].read
         /\ jobs'[j].locked = jobs[j].locked
         /\ \A i \in JobId : i # j => jobs'[i] = jobs[i]
<1> DEFINE x == [jobs[j] EXCEPT !.step = s]
<1>1. jobs[j] \in Job
  BY JobFields
<1>2. /\ x \in Job /\ x.step = s /\ x.kind = jobs[j].kind /\ x.room = jobs[j].room
      /\ x.at = jobs[j].at /\ x.read = jobs[j].read /\ x.locked = jobs[j].locked
  BY <1>1 DEF Job
<1>3. jobs' = [jobs EXCEPT ![j] = x]
  BY DEF Goto
<1> HIDE DEF x
<1>4. QED BY <1>2, <1>3, JobReplaced

LEMMA FinishKeeps ==
  ASSUME TypeOK, NEW j \in JobId, Finish(j)
  PROVE  /\ jobs' \in [JobId -> Job \cup {NoJob}]
         /\ jobs'[j] = NoJob
         /\ \A i \in JobId : i # j => jobs'[i] = jobs[i]
BY DEF Finish, TypeOK

\* Another attempt.
LEMMA AgainKeeps ==
  ASSUME TypeOK, NEW j \in JobId, Under(j), jobs[j].tries + 1 < MaxTries, NEW s \in Step,
         jobs' = [jobs EXCEPT ![j].step = s, ![j].tries = @ + 1]
  PROVE  /\ jobs' \in [JobId -> Job \cup {NoJob}]
         /\ jobs'[j] # NoJob /\ jobs'[j].step = s
         /\ jobs'[j].kind = jobs[j].kind /\ jobs'[j].room = jobs[j].room
         /\ jobs'[j].at = jobs[j].at /\ jobs'[j].read = jobs[j].read
         /\ jobs'[j].locked = jobs[j].locked
         /\ \A i \in JobId : i # j => jobs'[i] = jobs[i]
<1> DEFINE x == [jobs[j] EXCEPT !.step = s, !.tries = @ + 1]
<1>1. jobs[j] \in Job /\ jobs[j].tries + 1 \in 0 .. MaxTries - 1
  BY JobFields, StoreAssumption
<1>2. /\ x \in Job /\ x.step = s /\ x.kind = jobs[j].kind /\ x.room = jobs[j].room
      /\ x.at = jobs[j].at /\ x.read = jobs[j].read /\ x.locked = jobs[j].locked
  BY <1>1 DEF Job
<1>3. jobs' = [jobs EXCEPT ![j] = x]
  OBVIOUS
<1> HIDE DEF x
<1>4. QED BY <1>2, <1>3, JobReplaced

\* The value read is kept beside the step it leads to.
LEMMA ReadKeeps ==
  ASSUME TypeOK, NEW j \in JobId, Under(j), NEW s \in Step, NEW g \in Game, Read(j, s, g)
  PROVE  /\ jobs' \in [JobId -> Job \cup {NoJob}]
         /\ jobs'[j] # NoJob /\ jobs'[j].step = s /\ jobs'[j].read = g
         /\ jobs'[j].kind = jobs[j].kind /\ jobs'[j].room = jobs[j].room
         /\ jobs'[j].at = jobs[j].at /\ jobs'[j].locked = jobs[j].locked
         /\ \A i \in JobId : i # j => jobs'[i] = jobs[i]
<1> DEFINE x == [jobs[j] EXCEPT !.step = s, !.read = g]
<1>1. jobs[j] \in Job
  BY JobFields
<1>2. /\ x \in Job /\ x.step = s /\ x.kind = jobs[j].kind /\ x.room = jobs[j].room
      /\ x.at = jobs[j].at /\ x.read = g /\ x.locked = jobs[j].locked
  BY <1>1 DEF Job
<1>3. jobs' = [jobs EXCEPT ![j] = x]
  BY DEF Read
<1> HIDE DEF x
<1>4. QED BY <1>2, <1>3, JobReplaced

LEMMA LoseKeeps ==
  ASSUME TypeOK, NEW j \in JobId, LoseLock(j)
  PROVE  /\ jobs' \in [JobId -> Job \cup {NoJob}]
         /\ jobs'[j] # NoJob /\ jobs'[j].step = jobs[j].step /\ ~jobs'[j].locked
         /\ jobs'[j].kind = jobs[j].kind /\ jobs'[j].room = jobs[j].room
         /\ jobs'[j].at = jobs[j].at /\ jobs'[j].read = jobs[j].read
         /\ \A i \in JobId : i # j => jobs'[i] = jobs[i]
<1> DEFINE x == [jobs[j] EXCEPT !.locked = FALSE]
<1>1. jobs[j] \in Job
  BY JobFields DEF LoseLock
<1>2. /\ x \in Job /\ x.step = jobs[j].step /\ ~x.locked /\ x.kind = jobs[j].kind
      /\ x.room = jobs[j].room /\ x.at = jobs[j].at /\ x.read = jobs[j].read
  BY <1>1 DEF Job
<1>3. jobs' = [jobs EXCEPT ![j] = x]
  BY DEF LoseLock
<1> HIDE DEF x
<1>4. QED BY <1>2, <1>3, JobReplaced

-----------------------------------------------------------------------------
(* The types                                                               *)

LEMMA InitType == Init => TypeOK
BY DEF Init, TypeOK, Blank, Game

\* What an operation writes is a game.
LEMMA WriteType ==
  ASSUME TypeOK, NEW r \in Room, NEW g \in Game,
         game' = [game EXCEPT ![r] = g]
  PROVE  /\ game' \in [Room -> Game] /\ game'[r] = g
         /\ \A q \in Room : q # r => game'[q] = game[q]
BY DEF TypeOK

LEMMA VersionUp ==
  ASSUME NEW g \in Game, NEW v \in Nat
  PROVE  [g EXCEPT !.version = v] \in Game
BY DEF Game

LEMMA OverSet ==
  ASSUME NEW g \in Game, NEW o \in BOOLEAN
  PROVE  [g EXCEPT !.over = o] \in Game
BY DEF Game

LEMMA NextVersion ==
  ASSUME NEW g \in Game, NEW o \in BOOLEAN
  PROVE  [g EXCEPT !.version = @ + 1, !.over = o] \in Game
<1>1. g.version + 1 \in Nat
  BY DEF Game
<1>2. [g EXCEPT !.version = @ + 1] \in Game
  BY <1>1, VersionUp
<1>3. QED BY <1>2, OverSet

LEMMA ScriptWrites ==
  ASSUME TypeOK, NEW r \in Room, NEW o \in BOOLEAN,
         game' = [game EXCEPT ![r].version = @ + 1, ![r].over = o]
  PROVE  game' = [game EXCEPT ![r] = [game[r] EXCEPT !.version = @ + 1, !.over = o]]
BY DEF TypeOK, Game

LEMMA CommitWrites ==
  ASSUME TypeOK, NEW j \in JobId, Under(j), Commit(j)
  PROVE  \E o \in BOOLEAN :
           /\ jobs[j].kind = "play" \/ o = jobs[j].read.over
           /\ game' = [game EXCEPT ![jobs[j].room] =
                         [jobs[j].read EXCEPT !.version = @ + 1, !.over = o]]
<1>1. jobs[j].read \in Game
  BY JobFields
<1>2. jobs[j].read.over \in BOOLEAN
  BY <1>1 DEF Game
<1>3. QED BY <1>2 DEF Commit

LEMMA CommitType ==
  ASSUME TypeOK, NEW j \in JobId, Under(j), Commit(j)
  PROVE  game' \in [Room -> Game]
<1>1. jobs[j].read \in Game /\ jobs[j].room \in Room
  BY JobFields
<1>2. QED BY <1>1, CommitWrites, NextVersion, WriteType

LEMMA StoreType ==
  ASSUME TypeOK, NEW j \in JobId, Under(j), Store(j)
  PROVE  /\ game' \in [Room -> Game] /\ dirty' \in [Process -> BOOLEAN]
         /\ game'[jobs[j].room] = [id |-> jobs[j].read.id + 1, version |-> 1, over |-> FALSE]
         /\ \A q \in Room : q # jobs[j].room => game'[q] = game[q]
<1>1. jobs[j].read \in Game /\ jobs[j].room \in Room
  BY JobFields
<1>2. [id |-> jobs[j].read.id + 1, version |-> 1, over |-> FALSE] \in Game
  BY <1>1 DEF Game
<1>3. QED BY <1>1, <1>2, WriteType DEF Store, Touch, TypeOK

-----------------------------------------------------------------------------
(* Who is loose                                                            *)

LEMMA LoosenFrom ==
  ASSUME NEW S, Loosen(S)
  PROVE  /\ loose' \subseteq loose \cup S
         /\ \A i \in loose \cup S : jobs'[i] # NoJob => i \in loose'
BY DEF Loosen

LEMMA SharingFrom ==
  ASSUME NEW j \in JobId
  PROVE  Sharing(j) \subseteq JobId /\ Overtaken(j) \subseteq JobId
BY DEF Sharing, Overtaken

\* Loosening adds whom the step leaves unprotected, and takes away who has ended
\* or watches anew.
LEMMA LoosenedBy ==
  ASSUME [Next]_vars
  PROVE  \/ \E S : S \subseteq JobId /\ Loosen(S)
         \/ \E j \in JobId : Watch(j)
         \/ loose' = loose
<1>1. ASSUME NEW j \in JobId,
             Exec(j) \/ Abort(j) \/ UnwatchAndRetry(j) \/ UnwatchAndThrow(j)
      PROVE  \E S : S \subseteq JobId /\ Loosen(S)
  BY <1>1, SharingFrom DEF Exec, Commit, Abort, UnwatchAndRetry, UnwatchAndThrow
<1>2. ASSUME NEW j \in JobId,
             Persist(j) \/ PersistLate(j) \/ PersistUnheard(j) \/ ReadForCreate(j)
      PROVE  \E S : S \subseteq JobId /\ Loosen(S)
  BY <1>2, SharingFrom DEF Persist, PersistLate, PersistUnheard, ReadForCreate
<1>3. ASSUME NEW j \in JobId, LoseLock(j)
      PROVE  \E S : S \subseteq JobId /\ Loosen(S)
  BY <1>3 DEF LoseLock
<1>4. QED
  BY <1>1, <1>2, <1>3
     DEF Next, JobStep, BeginTx, BeginCreate, Get, CommandLate, Script, RefreshTtl, vars

LEMMA LooseType ==
  ASSUME TypeOK, [Next]_vars
  PROVE  loose' \subseteq JobId
BY LoosenedBy, LoosenFrom DEF TypeOK, Watch

\* Who does not move stays loose.
LEMMA StaysLoose ==
  ASSUME TypeOK, [Next]_vars, NEW i \in JobId, i \in loose, Under(i), jobs'[i] = jobs[i]
  PROVE  i \in loose'
<1>1. ASSUME NEW j \in JobId, Watch(j) PROVE i # j /\ loose' = loose \ {j}
  <2>1. i # j
    <3>1. SUFFICES ASSUME i = j PROVE FALSE
      OBVIOUS
    <3>2. jobs[j].step = "watch" /\ jobs'[j].step = "get"
      BY <1>1, <3>1, GotoKeeps DEF Watch, At, Under, Step
    <3>3. QED BY <3>1, <3>2
  <2>2. QED BY <1>1, <2>1 DEF Watch
<1>2. QED BY <1>1, LoosenedBy, LoosenFrom DEF Under

LEMMA NextType == TypeOK /\ [Next]_vars => TypeOK'
<1> SUFFICES ASSUME TypeOK, [Next]_vars PROVE TypeOK'
  OBVIOUS
<1>0. loose' \subseteq JobId
  BY LooseType
<1> USE <1>0 DEF connVars
<1>1. ASSUME NEW j \in JobId, NEW r \in Room, NEW p \in Process, NEW k \in Tx,
             BeginTx(j, k, r, p)
      PROVE  TypeOK'
  <2>1. [kind |-> k, room |-> r, at |-> p, step |-> "watch",
         read |-> Blank, tries |-> 0, locked |-> TRUE] \in Job
    BY NewJob DEF Step
  <2>2. QED BY <1>1, <2>1 DEF BeginTx, TypeOK
<1>2. ASSUME NEW j \in JobId, NEW r \in Room, NEW p \in Process, BeginCreate(j, r, p)
      PROVE  TypeOK'
  <2>1. [kind |-> "create", room |-> r, at |-> p, step |-> "read",
         read |-> Blank, tries |-> 0, locked |-> TRUE] \in Job
    BY NewJob DEF Step
  <2>2. QED BY <1>2, <2>1 DEF BeginCreate, TypeOK
<1>3. ASSUME NEW j \in JobId, Watch(j) PROVE TypeOK'
  <2>1. Under(j) /\ Goto(j, "get") /\ jobs[j].at \in Process /\ jobs[j].room \in Room
    BY <1>3, JobFields DEF Watch, At, Under
  <2>2. jobs' \in [JobId -> Job \cup {NoJob}]
    BY <2>1, GotoKeeps DEF Step
  <2>3. QED BY <1>3, <2>1, <2>2 DEF Watch, TypeOK
<1>4. ASSUME NEW j \in JobId, Get(j) PROVE TypeOK'
  <2>1. Under(j) /\ game[jobs[j].room] \in Game
    BY <1>4, JobFields DEF Get, At, Under, TypeOK
  <2>2. jobs' \in [JobId -> Job \cup {NoJob}]
    BY <1>4, <2>1, ReadKeeps DEF Get, Step
  <2>3. QED BY <1>4, <2>2 DEF Get, TypeOK
<1>5. ASSUME NEW j \in JobId, Exec(j) PROVE TypeOK'
  <2>1. Under(j) /\ Commit(j)
    BY <1>5 DEF Exec, At, Under
  <2>2. jobs' \in [JobId -> Job \cup {NoJob}]
    BY <2>1, GotoKeeps, FinishKeeps DEF Commit, Step
  <2>3. QED BY <2>1, <2>2, CommitType DEF Commit, TypeOK
<1>6. ASSUME NEW j \in JobId, Abort(j) PROVE TypeOK'
  <2>1. Under(j) /\ jobs' \in [JobId -> Job \cup {NoJob}]
    BY <1>6, GotoKeeps DEF Abort, At, Under, Step
  <2>2. QED BY <1>6, <2>1 DEF Abort, Unwatch, TypeOK
<1>7. ASSUME NEW j \in JobId, UnwatchAndRetry(j) PROVE TypeOK'
  <2>1. Under(j) /\ jobs' \in [JobId -> Job \cup {NoJob}]
    BY <1>7, AgainKeeps, FinishKeeps DEF UnwatchAndRetry, Again, At, Under, Step
  <2>2. QED BY <1>7, <2>1 DEF UnwatchAndRetry, Unwatch, TypeOK
<1>8. ASSUME NEW j \in JobId, UnwatchAndThrow(j) PROVE TypeOK'
  BY <1>8, FinishKeeps DEF UnwatchAndThrow, Unwatch, TypeOK
<1>9. ASSUME NEW j \in JobId, ReadForCreate(j) PROVE TypeOK'
  <2>1. Under(j) /\ game[jobs[j].room] \in Game
    BY <1>9, JobFields DEF ReadForCreate, At, Under, TypeOK
  <2>2. jobs' \in [JobId -> Job \cup {NoJob}]
    BY <1>9, <2>1, ReadKeeps, FinishKeeps DEF ReadForCreate, Step
  <2>3. QED BY <1>9, <2>2 DEF ReadForCreate, TypeOK
<1>10. ASSUME NEW j \in JobId, Persist(j) PROVE TypeOK'
  <2>1. Under(j)
    BY <1>10 DEF Persist, At, Under
  <2>2. QED BY <1>10, <2>1, StoreType, FinishKeeps DEF Persist, TypeOK
<1>11. ASSUME NEW j \in JobId, PersistLate(j) \/ PersistUnheard(j) PROVE TypeOK'
  <2>1. Under(j) /\ jobs' \in [JobId -> Job \cup {NoJob}]
    BY <1>11, AgainKeeps, FinishKeeps
       DEF PersistLate, PersistUnheard, Again, At, Under, Step
  <2>2. game' \in [Room -> Game] /\ dirty' \in [Process -> BOOLEAN]
    BY <1>11, <2>1, StoreType DEF PersistLate, PersistUnheard, TypeOK
  <2>3. QED BY <1>11, <2>1, <2>2 DEF PersistLate, PersistUnheard, TypeOK
<1>12. ASSUME NEW j \in JobId, CommandLate(j) PROVE TypeOK'
  <2>1. Under(j) /\ jobs' \in [JobId -> Job \cup {NoJob}]
    BY <1>12, GotoKeeps DEF CommandLate, At, Under, Step
  <2>2. QED BY <1>12, <2>1 DEF CommandLate, TypeOK
<1>13. ASSUME NEW j \in JobId, LoseLock(j) PROVE TypeOK'
  BY <1>13, LoseKeeps DEF LoseLock, TypeOK
<1>14. ASSUME NEW r \in Room, Script(r) PROVE TypeOK'
  <2>1. game[r] \in Game
    BY DEF TypeOK
  <2>2. game' \in [Room -> Game]
    BY <1>14, <2>1, ScriptWrites, NextVersion, WriteType DEF Script
  <2>3. QED BY <1>14, <2>2 DEF Script, Touch, TypeOK
<1>15. ASSUME NEW r \in Room, RefreshTtl(r) PROVE TypeOK'
  BY <1>15 DEF RefreshTtl, Touch, TypeOK
<1>16. CASE UNCHANGED vars
  BY <1>16 DEF vars, TypeOK
<1>17. QED
  BY <1>1, <1>2, <1>3, <1>4, <1>5, <1>6, <1>7, <1>8, <1>9, <1>10, <1>11, <1>12,
     <1>13, <1>14, <1>15, <1>16 DEF Next, JobStep

\* The variables keep their types; no transaction or persisted game is attempted
\* more than MaxTries times.
THEOREM TypeCorrect == Spec => []TypeOK
BY InitType, NextType, PTL DEF Spec

-----------------------------------------------------------------------------
(* Transactions write over what they read                                  *)

KindFits == \A j \in JobId :
  Under(j) => (jobs[j].kind = "create" <=> jobs[j].step \in {"read", "persist"})

\* A transaction that has read, or is about to, and is not loose, has its watch on
\* the room.
Waits(j) == InTx(j) /\ jobs[j].step \in {"get", "exec"}
Guarded(j) ==
  Waits(j) => j \in loose \/ jobs[j].room \in watched[jobs[j].at]

\* What it read is still stored, or its connection is marked.
Fresh(j) ==
  At(j, "exec") =>
    /\ Accepts(jobs[j].kind, jobs[j].read)
    /\ j \in loose \/ dirty[jobs[j].at] \/ jobs[j].read = game[jobs[j].room]

TxInv == TypeOK /\ KindFits /\ \A j \in JobId : Guarded(j) /\ Fresh(j)

\* A step of job j leaves the other jobs, and its own kind and process.
Moves(j) ==
  /\ \A i \in JobId : i # j => jobs'[i] = jobs[i]
  /\ jobs'[j] # NoJob => /\ jobs[j] # NoJob
                         /\ jobs'[j].kind = jobs[j].kind
                         /\ jobs'[j].at = jobs[j].at
                         /\ jobs'[j].room = jobs[j].room
                         /\ jobs'[j].kind = "create" <=> jobs'[j].step \in {"read", "persist"}

LEMMA MovesKeep ==
  ASSUME KindFits, NEW j \in JobId, Moves(j)
  PROVE  KindFits'
BY DEF Moves, KindFits, Under

\* A job that does not move stays guarded and fresh if it becomes loose, or if no
\* watch of its connection is dropped and a write of its room is noticed there.
Undisturbed(i) ==
  \/ i \in loose'
  \/ /\ watched[jobs[i].at] \subseteq watched'[jobs[i].at]
     /\ dirty[jobs[i].at] => dirty'[jobs[i].at]
     /\ \/ game'[jobs[i].room] = game[jobs[i].room]
        \/ jobs[i].room \in watched[jobs[i].at] => dirty'[jobs[i].at]

LEMMA UndisturbedKeeps ==
  ASSUME [Next]_vars, NEW i \in JobId, jobs'[i] = jobs[i], Guarded(i), Fresh(i),
         Waits(i) => Undisturbed(i), TypeOK, KindFits
  PROVE  Guarded(i)' /\ Fresh(i)'
<1>1. CASE Waits(i)
  <2>1. i \in loose => i \in loose'
    BY <1>1, StaysLoose DEF Waits, InTx, Under
  <2>2. QED BY <1>1, <2>1 DEF Guarded, Fresh, Undisturbed, Waits, InTx, At
<1>2. CASE ~Waits(i)
  <2>1. ~At(i, "exec")
    BY <1>2, JobFields DEF Waits, InTx, At, Under, KindFits
  <2>2. QED BY <1>2, <2>1 DEF Guarded, Fresh, Waits, InTx, At
<1>3. QED BY <1>1, <1>2

LEMMA InitTx == Init => TxInv
BY InitType DEF Init, TxInv, KindFits, Guarded, Fresh, Waits, Under, InTx, At

\* A write of r by any connection marks the watchers.
LEMMA TouchKeeps ==
  ASSUME TxInv, NEW r \in Room, NEW i \in JobId, Under(i), watched' = watched,
         Touch(r) \/ dirty' = dirty, game' = game \/ Touch(r),
         \A q \in Room : q # r => game'[q] = game[q]
  PROVE  Undisturbed(i)
<1>1. jobs[i].room \in Room /\ jobs[i].at \in Process
  BY JobFields DEF TxInv
<1>2. CASE Touch(r)
  <2>1. dirty'[jobs[i].at] = (dirty[jobs[i].at] \/ r \in watched[jobs[i].at])
    BY <1>1, <1>2 DEF Touch
  <2>2. QED BY <1>1, <2>1 DEF Undisturbed
<1>3. CASE dirty' = dirty /\ game' = game
  BY <1>3 DEF Undisturbed
<1>4. QED BY <1>2, <1>3

\* When a connection forgets its watches, who counted on them becomes loose.
LEMMA UnwatchKeeps ==
  ASSUME TxInv, NEW j \in JobId, Under(j), NEW i \in JobId, i # j, Waits(i),
         jobs'[i] = jobs[i], Unwatch(jobs[j].at), game' = game, Loosen(Sharing(j))
  PROVE  Undisturbed(i)
<1>1. jobs[i].at \in Process /\ jobs'[i] # NoJob
  BY JobFields DEF TxInv, Waits, InTx, Under
<1>2. CASE jobs[i].at = jobs[j].at
  BY <1>1, <1>2, LoosenFrom DEF Sharing, Waits, Undisturbed
<1>3. CASE jobs[i].at # jobs[j].at
  BY <1>1, <1>3 DEF Unwatch, Undisturbed, TxInv, TypeOK
<1>4. QED BY <1>2, <1>3

\* What the invariant of a step of job j comes to.
LEMMA JobStepKeeps ==
  ASSUME [Next]_vars, TxInv, TypeOK', NEW j \in JobId, Moves(j), Guarded(j)', Fresh(j)',
         \A i \in JobId : i # j /\ Waits(i) => Undisturbed(i)
  PROVE  TxInv'
<1>1. KindFits'
  BY MovesKeep DEF TxInv
<1>2. \A i \in JobId : i # j => Guarded(i)' /\ Fresh(i)'
  BY UndisturbedKeeps DEF TxInv, Moves
<1>3. QED BY <1>1, <1>2 DEF TxInv

\* A new job begins before its watch.
LEMMA BeginKeeps ==
  ASSUME TxInv, TypeOK', NEW j \in JobId, UNCHANGED <<game, connVars, loose>>,
         NEW x \in Job, jobs' = [jobs EXCEPT ![j] = x],
         x.kind = "create" <=> x.step = "read", x.step \in {"watch", "read"}
  PROVE  TxInv'
<1>1. jobs'[j] = x /\ \A i \in JobId : i # j => jobs'[i] = jobs[i]
  BY DEF TxInv, TypeOK
<1>2. KindFits'
  BY <1>1 DEF TxInv, KindFits, Under
<1>3. \A i \in JobId : Guarded(i)' /\ Fresh(i)'
  BY <1>1 DEF TxInv, Guarded, Fresh, Waits, InTx, At, connVars
<1>4. QED BY <1>2, <1>3 DEF TxInv

LEMMA CommitKeeps ==
  ASSUME [Next]_vars, TxInv, TypeOK', NEW j \in JobId, At(j, "exec"), Commit(j)
  PROVE  TxInv'
<1> USE DEF TxInv
<1>1. Under(j) /\ jobs[j].kind # "create"
  BY JobFields DEF At, Under, KindFits
<1>2. Moves(j) /\ Guarded(j)' /\ Fresh(j)'
  <2>1. CASE Finish(j)
    BY <2>1, FinishKeeps DEF Moves, Guarded, Fresh, Waits, InTx, At
  <2>2. CASE Goto(j, "quit")
    BY <1>1, <2>2, GotoKeeps DEF Moves, Guarded, Fresh, Waits, Under, At, Step
  <2>3. QED BY <2>1, <2>2 DEF Commit
<1>3. ASSUME NEW i \in JobId, i # j, Waits(i) PROVE Undisturbed(i)
  <2>1. /\ jobs[i].at \in Process /\ jobs[i].room \in Room /\ jobs[j].room \in Room
        /\ jobs'[i] = jobs[i] /\ jobs'[i] # NoJob
    BY <1>1, <1>2, <1>3, JobFields DEF Waits, InTx, Under, Moves
  <2>2. CASE jobs[i].at = jobs[j].at
    BY <1>3, <2>1, <2>2, LoosenFrom DEF Commit, Sharing, Waits, Undisturbed
  <2>3. CASE jobs[i].at # jobs[j].at
    <3>1. watched'[jobs[i].at] = watched[jobs[i].at]
      BY <2>1, <2>3 DEF Commit, TypeOK
    <3>2. dirty'[jobs[i].at] = (dirty[jobs[i].at] \/ jobs[j].room \in watched[jobs[i].at])
      BY <2>1, <2>3 DEF Commit
    <3>3. jobs[i].room # jobs[j].room => game'[jobs[i].room] = game[jobs[i].room]
      BY <2>1 DEF Commit, TypeOK
    <3>4. QED BY <3>1, <3>2, <3>3 DEF Undisturbed
  <2>4. QED BY <2>2, <2>3
<1>4. QED BY <1>2, <1>3, JobStepKeeps

LEMMA NextTx ==
  ASSUME TxInv, [Next]_vars
  PROVE  TxInv'
<1> USE DEF TxInv
<1>0. TypeOK'
  BY NextType
<1>1. ASSUME NEW j \in JobId, NEW r \in Room, NEW p \in Process, NEW k \in Tx,
             BeginTx(j, k, r, p)
      PROVE  TxInv'
  <2> DEFINE x == [kind |-> k, room |-> r, at |-> p, step |-> "watch",
                   read |-> Blank, tries |-> 0, locked |-> TRUE]
  <2>1. x \in Job
    BY NewJob DEF Step
  <2>2. /\ x.kind # "create" /\ x.step = "watch"
        /\ jobs' = [jobs EXCEPT ![j] = x]
    BY <1>1 DEF BeginTx, Tx
  <2> HIDE DEF x
  <2>3. QED BY <1>0, <1>1, <2>1, <2>2, BeginKeeps DEF BeginTx
<1>2. ASSUME NEW j \in JobId, NEW r \in Room, NEW p \in Process, BeginCreate(j, r, p)
      PROVE  TxInv'
  <2> DEFINE x == [kind |-> "create", room |-> r, at |-> p, step |-> "read",
                   read |-> Blank, tries |-> 0, locked |-> TRUE]
  <2>1. x \in Job
    BY NewJob DEF Step
  <2>2. /\ x.kind = "create" /\ x.step = "read"
        /\ jobs' = [jobs EXCEPT ![j] = x]
    BY <1>2 DEF BeginCreate, Tx
  <2> HIDE DEF x
  <2>3. QED BY <1>0, <1>2, <2>1, <2>2, BeginKeeps DEF BeginCreate
<1>3. ASSUME NEW j \in JobId, Watch(j) PROVE TxInv'
  <2>1. Under(j) /\ jobs[j].step = "watch" /\ jobs[j].kind # "create"
        /\ jobs[j].at \in Process /\ jobs[j].room \in Room
    BY <1>3, JobFields DEF Watch, At, Under, KindFits
  <2>2. Moves(j) /\ Fresh(j)' /\ jobs'[j].step = "get"
        /\ jobs'[j].at = jobs[j].at /\ jobs'[j].room = jobs[j].room
    BY <1>3, <2>1, GotoKeeps DEF Watch, Moves, Fresh, At, Step
  <2>3. \A q \in Process : watched[q] \subseteq watched'[q]
    BY <1>3 DEF Watch, TypeOK
  <2>4. Guarded(j)'
    BY <1>3, <2>1, <2>2 DEF Watch, Guarded, TypeOK
  <2>5. \A i \in JobId : Waits(i) => Undisturbed(i)
    BY <1>3, <2>3, JobFields DEF Watch, Undisturbed, Waits, InTx, Under
  <2>6. QED BY <1>0, <2>2, <2>4, <2>5, JobStepKeeps
<1>4. ASSUME NEW j \in JobId, Get(j) PROVE TxInv'
  <2>1. /\ Under(j) /\ jobs[j].step = "get" /\ jobs[j].kind # "create"
        /\ game[jobs[j].room] \in Game
    BY <1>4, JobFields DEF Get, At, Under, KindFits, TypeOK
  <2>2. \A i \in JobId : Undisturbed(i)
    BY <1>4 DEF Get, Undisturbed, connVars
  <2>3. PICK s \in {"exec", "quit"} :
          /\ Read(j, s, game[jobs[j].room])
          /\ s = "exec" => Accepts(jobs[j].kind, game[jobs[j].room])
    BY <1>4 DEF Get
  <2>4. /\ jobs'[j] # NoJob /\ jobs'[j].step = s /\ jobs'[j].kind = jobs[j].kind
        /\ jobs'[j].room = jobs[j].room /\ jobs'[j].at = jobs[j].at
        /\ jobs'[j].read = game[jobs[j].room]
        /\ \A i \in JobId : i # j => jobs'[i] = jobs[i]
    <3>1. s \in Step
      BY DEF Step
    <3>2. QED BY <2>1, <2>3, <3>1, ReadKeeps
  <2>5. Moves(j)
    BY <2>1, <2>4 DEF Moves, Under
  <2>6. Guarded(j)' /\ Fresh(j)'
    BY <1>4, <2>1, <2>3, <2>4 DEF Get, Guarded, Fresh, Waits, InTx, Under, At, connVars
  <2>7. QED BY <1>0, <2>2, <2>5, <2>6, JobStepKeeps
<1>5. ASSUME NEW j \in JobId, Exec(j) PROVE TxInv'
  BY <1>0, <1>5, CommitKeeps DEF Exec
<1>6. ASSUME NEW j \in JobId, Abort(j) PROVE TxInv'
  <2>1. Under(j) /\ InTx(j) /\ jobs[j].kind # "create"
    BY <1>6, JobFields DEF Abort, At, Under, KindFits, InTx
  <2>2. Moves(j) /\ Guarded(j)' /\ Fresh(j)'
    BY <1>6, <2>1, GotoKeeps DEF Abort, Moves, Guarded, Fresh, Waits, InTx, At, Step
  <2>3. \A i \in JobId : i # j /\ Waits(i) => Undisturbed(i)
    BY <1>6, <2>1, <2>2, UnwatchKeeps DEF Moves, Abort, InTx, Under
  <2>4. QED BY <1>0, <2>2, <2>3, JobStepKeeps
<1>7. ASSUME NEW j \in JobId, UnwatchAndRetry(j) PROVE TxInv'
  <2>1. Under(j) /\ InTx(j) /\ jobs[j].kind # "create"
    BY <1>7, JobFields DEF UnwatchAndRetry, At, Under, KindFits, InTx
  <2>2. Moves(j) /\ Guarded(j)' /\ Fresh(j)'
    BY <1>7, <2>1, AgainKeeps, FinishKeeps
       DEF UnwatchAndRetry, Again, Moves, Guarded, Fresh, Waits, InTx, Under, At, Step
  <2>3. \A i \in JobId : i # j /\ Waits(i) => Undisturbed(i)
    BY <1>7, <2>1, <2>2, UnwatchKeeps DEF Moves, UnwatchAndRetry, InTx, Under
  <2>4. QED BY <1>0, <2>2, <2>3, JobStepKeeps
<1>8. ASSUME NEW j \in JobId, UnwatchAndThrow(j) PROVE TxInv'
  <2>1. InTx(j)
    BY <1>8, JobFields DEF UnwatchAndThrow, At, Under, KindFits, InTx
  <2>2. Moves(j) /\ Guarded(j)' /\ Fresh(j)'
    BY <1>8, FinishKeeps DEF UnwatchAndThrow, Moves, Guarded, Fresh, Waits, InTx, Under, At
  <2>3. \A i \in JobId : i # j /\ Waits(i) => Undisturbed(i)
    BY <1>8, <2>1, <2>2, UnwatchKeeps DEF Moves, UnwatchAndThrow, InTx, Under
  <2>4. QED BY <1>0, <2>2, <2>3, JobStepKeeps
<1>9. ASSUME NEW j \in JobId, ReadForCreate(j) PROVE TxInv'
  <2>1. Under(j) /\ jobs[j].kind = "create" /\ game[jobs[j].room] \in Game
    BY <1>9, JobFields DEF ReadForCreate, At, Under, KindFits, TypeOK
  <2>2. Moves(j) /\ Guarded(j)' /\ Fresh(j)'
    BY <1>9, <2>1, ReadKeeps, FinishKeeps
       DEF ReadForCreate, Moves, Guarded, Fresh, Waits, InTx, Under, At, Step
  <2>3. \A i \in JobId : Undisturbed(i)
    BY <1>9 DEF ReadForCreate, Undisturbed, connVars
  <2>4. QED BY <1>0, <2>2, <2>3, JobStepKeeps
<1>10. ASSUME NEW j \in JobId, Persist(j) \/ PersistLate(j) \/ PersistUnheard(j)
       PROVE  TxInv'
  <2>1. Under(j) /\ jobs[j].kind = "create" /\ jobs[j].room \in Room
    BY <1>10, JobFields DEF Persist, PersistLate, PersistUnheard, At, Under, KindFits
  <2>2. Finish(j) \/ Again(j, "persist")
    BY <1>10 DEF Persist, PersistLate, PersistUnheard
  <2>3. Moves(j) /\ Guarded(j)' /\ Fresh(j)'
    BY <2>1, <2>2, AgainKeeps, FinishKeeps
       DEF Again, Moves, Guarded, Fresh, Waits, InTx, Under, At, Step
  <2>4. /\ watched' = watched
        /\ \/ Touch(jobs[j].room)
              /\ \A q \in Room : q # jobs[j].room => game'[q] = game[q]
           \/ dirty' = dirty /\ game' = game
    BY <1>10, <2>1, StoreType DEF Persist, PersistLate, PersistUnheard, Store, connVars
  <2>5. \A i \in JobId : Waits(i) => Undisturbed(i)
    BY <2>1, <2>4, TouchKeeps DEF Waits, InTx, Under
  <2>6. QED BY <1>0, <2>3, <2>5, JobStepKeeps
<1>11. ASSUME NEW j \in JobId, CommandLate(j) PROVE TxInv'
  <2>1. Under(j) /\ jobs[j].kind # "create"
    BY <1>11 DEF CommandLate, At, Under, KindFits
  <2>2. Moves(j) /\ Guarded(j)' /\ Fresh(j)'
    BY <1>11, <2>1, GotoKeeps DEF CommandLate, Moves, Guarded, Fresh, Waits, InTx, At, Step
  <2>3. \A i \in JobId : Undisturbed(i)
    BY <1>11 DEF CommandLate, Undisturbed, connVars
  <2>4. QED BY <1>0, <2>2, <2>3, JobStepKeeps
<1>12. ASSUME NEW j \in JobId, LoseLock(j) PROVE TxInv'
  <2>1. Under(j)
    BY <1>12 DEF LoseLock
  <2>4. j \in loose => j \in loose'
    BY <1>12, LoseKeeps, LoosenFrom DEF LoseLock
  <2>2. Moves(j) /\ Guarded(j)' /\ Fresh(j)'
    BY <1>12, <2>1, <2>4, LoseKeeps
       DEF LoseLock, Moves, Guarded, Fresh, Waits, InTx, At, Under, KindFits, connVars
  <2>3. \A i \in JobId : Undisturbed(i)
    BY <1>12 DEF LoseLock, Undisturbed, connVars
  <2>5. QED BY <1>0, <2>2, <2>3, JobStepKeeps
<1>13. ASSUME NEW r \in Room, Script(r) \/ RefreshTtl(r) PROVE TxInv'
  <2>1. /\ Touch(r) /\ watched' = watched /\ jobs' = jobs
        /\ \A q \in Room : q # r => game'[q] = game[q]
    BY <1>13 DEF Script, RefreshTtl, TypeOK
  <2>2. \A i \in JobId : Waits(i) => Undisturbed(i)
    BY <2>1, TouchKeeps DEF Waits, InTx, Under
  <2>3. \A i \in JobId : Guarded(i)' /\ Fresh(i)'
    BY <2>1, <2>2, UndisturbedKeeps
  <2>4. KindFits'
    BY <2>1 DEF KindFits, Under
  <2>5. QED BY <1>0, <2>3, <2>4
<1>14. CASE UNCHANGED vars
  BY <1>0, <1>14 DEF vars, connVars, KindFits, Guarded, Fresh, Waits, Under, InTx, At
<1>15. QED
  BY <1>1, <1>2, <1>3, <1>4, <1>5, <1>6, <1>7, <1>8, <1>9, <1>10, <1>11, <1>12,
     <1>13, <1>14 DEF Next, JobStep

LEMMA TxInvariance == Spec => []TxInv
<1>1. TxInv /\ [Next]_vars => TxInv'
  BY NextTx
<1>2. QED BY <1>1, InitTx, PTL DEF Spec

\* A transaction writes only over the value it read, whatever scripts, creations,
\* TTL refreshes and the rooms of its process come between, and although locks run
\* out and commands time out, unless another transaction has dropped its watch
\* (executeGameTransaction).
THEOREM CommitsAreGuarded == Spec => CommitsOnWhatItRead
<1>1. TxInv => \A j \in JobId \ loose : Exec(j) => jobs[j].read = game[jobs[j].room]
  BY DEF TxInv, Fresh, Exec
<1>2. QED BY <1>1, TxInvariance, PTL DEF Spec, CommitsOnWhatItRead

-----------------------------------------------------------------------------
(* Connections are left clean                                              *)

\* On a connection no step takes a transaction away from, nothing new is watched
\* and only a watching connection is marked.
Kept(p) ==
  /\ \A i \in JobId : InTx(i) /\ jobs[i].at = p => InTx(i)' /\ jobs'[i].at = p
  /\ watched'[p] = watched[p]
  /\ dirty'[p] => dirty[p] \/ watched[p] # {}
Cleared(p) == watched'[p] = {} /\ ~dirty'[p]

LEMMA KeptOrCleared ==
  ASSUME TypeOK, ConnectionLeftClean, \A p \in Process : Kept(p) \/ Cleared(p)
  PROVE  ConnectionLeftClean'
<1> SUFFICES ASSUME NEW p \in Process, \A i \in JobId : ~(InTx(i) /\ jobs[i].at = p)'
             PROVE  watched'[p] = {} /\ ~dirty'[p]
  BY DEF ConnectionLeftClean
<1>1. CASE Kept(p)
  BY <1>1 DEF Kept, ConnectionLeftClean
<1>2. CASE Cleared(p)
  BY <1>2 DEF Cleared
<1>3. QED BY <1>1, <1>2

\* Moves of a job that stays a transaction, or is none, keep every connection.
LEMMA MovesKept ==
  ASSUME TypeOK, NEW j \in JobId, Moves(j), UNCHANGED connVars,
         InTx(j) => jobs'[j] # NoJob, NEW p \in Process
  PROVE  Kept(p)
<1>1. ASSUME NEW i \in JobId, InTx(i) PROVE InTx(i)' /\ jobs'[i].at = jobs[i].at
  BY <1>1 DEF Moves, InTx
<1>2. QED BY <1>1 DEF Kept, connVars

LEMMA SameJobsKept ==
  ASSUME NEW p \in Process, \A i \in JobId : InTx(i) => jobs'[i] = jobs[i],
         watched' = watched, dirty' = dirty \/ \E r \in Room : Touch(r)
  PROVE  Kept(p)
<1>1. dirty'[p] => dirty[p] \/ watched[p] # {}
  BY DEF Touch
<1>2. QED BY <1>1 DEF Kept, InTx

\* A step of job j that clears its connection.
LEMMA UnwatchClears ==
  ASSUME TypeOK, NEW j \in JobId, Under(j),
         \A i \in JobId : i # j => jobs'[i] = jobs[i],
         Unwatch(jobs[j].at), NEW p \in Process
  PROVE  Kept(p) \/ Cleared(p)
<1>1. CASE p = jobs[j].at
  BY <1>1 DEF Unwatch, Cleared, TypeOK
<1>2. CASE p # jobs[j].at
  BY <1>2 DEF Unwatch, Kept, InTx, TypeOK
<1>3. QED BY <1>1, <1>2

LEMMA NextClean ==
  ASSUME TxInv, ConnectionLeftClean, [Next]_vars
  PROVE  ConnectionLeftClean'
<1>0. TypeOK /\ KindFits
  BY DEF TxInv
<1> SUFFICES \A p \in Process : Kept(p) \/ Cleared(p) \/ ConnectionLeftClean'
  BY <1>0, KeptOrCleared
<1> TAKE p \in Process
<1> USE DEF connVars
<1>1. ASSUME NEW j \in JobId, NEW r \in Room, NEW q \in Process,
             (\E k \in Tx : BeginTx(j, k, r, q)) \/ BeginCreate(j, r, q)
      PROVE  Kept(p)
  <2>1. jobs[j] = NoJob /\ UNCHANGED connVars
        /\ \A i \in JobId : i # j => jobs'[i] = jobs[i]
    BY <1>0, <1>1 DEF BeginTx, BeginCreate, TypeOK
  <2>2. QED BY <2>1, SameJobsKept DEF InTx
<1>2. ASSUME NEW j \in JobId, Watch(j) PROVE ConnectionLeftClean'
  <2>1. Under(j) /\ InTx(j) /\ jobs[j].step = "watch"
    BY <1>0, <1>2, JobFields DEF Watch, At, Under, KindFits, InTx
  <2>2. /\ InTx(j)' /\ jobs'[j].at = jobs[j].at
        /\ \A i \in JobId : i # j => jobs'[i] = jobs[i]
    BY <1>0, <1>2, <2>1, GotoKeeps DEF Watch, InTx, Step
  <2>3. \A q \in Process : q # jobs[j].at => watched'[q] = watched[q]
    BY <1>0, <1>2 DEF Watch, TypeOK
  <2>4. QED BY <1>2, <2>1, <2>2, <2>3 DEF Watch, ConnectionLeftClean, InTx
<1>3. ASSUME NEW j \in JobId, Get(j) \/ CommandLate(j) \/ LoseLock(j)
      PROVE  Kept(p)
  <2>1. Under(j) /\ UNCHANGED connVars /\ game[jobs[j].room] \in Game
    BY <1>0, <1>3, JobFields DEF Get, CommandLate, LoseLock, At, Under, TypeOK
  <2>2. CASE Get(j)
    <3>1. PICK s \in {"exec", "quit"} : Read(j, s, game[jobs[j].room])
      BY <2>2 DEF Get
    <3>2. s \in Step /\ jobs[j].kind # "create"
      BY <1>0, <2>2 DEF Step, Get, At, Under, KindFits
    <3>3. Moves(j) /\ jobs'[j] # NoJob
      BY <1>0, <2>1, <3>1, <3>2, ReadKeeps DEF Moves, Under
    <3>4. QED BY <1>0, <2>1, <3>3, MovesKept
  <2>3. CASE CommandLate(j)
    <3>1. Goto(j, "quit") /\ jobs[j].kind # "create"
      BY <1>0, <2>3 DEF CommandLate, At, Under, KindFits
    <3>2. Moves(j) /\ jobs'[j] # NoJob
      BY <1>0, <2>1, <3>1, GotoKeeps DEF Moves, Under, Step
    <3>3. QED BY <1>0, <2>1, <3>2, MovesKept
  <2>4. CASE LoseLock(j)
    <3>1. Moves(j) /\ jobs'[j] # NoJob
      BY <1>0, <2>1, <2>4, LoseKeeps DEF Moves, Under, KindFits
    <3>2. QED BY <1>0, <2>1, <3>1, MovesKept
  <2>5. QED BY <1>3, <2>2, <2>3, <2>4
<1>4. ASSUME NEW j \in JobId, Exec(j) PROVE Kept(p) \/ Cleared(p)
  <2>1. Under(j) /\ Commit(j) /\ \A i \in JobId : i # j => jobs'[i] = jobs[i]
    BY <1>0, <1>4, GotoKeeps, FinishKeeps DEF Exec, Commit, At, Under, Step
  <2>2. CASE p = jobs[j].at
    BY <1>0, <2>1, <2>2 DEF Commit, Cleared, TypeOK
  <2>3. CASE p # jobs[j].at
    BY <1>0, <2>1, <2>3 DEF Commit, Kept, InTx, TypeOK
  <2>4. QED BY <2>2, <2>3
<1>5. ASSUME NEW j \in JobId, Abort(j) \/ UnwatchAndRetry(j) \/ UnwatchAndThrow(j)
      PROVE  Kept(p) \/ Cleared(p)
  <2>1. /\ Under(j) /\ Unwatch(jobs[j].at)
        /\ Goto(j, "retry") \/ Again(j, "watch") \/ Finish(j)
    BY <1>5 DEF Abort, UnwatchAndRetry, UnwatchAndThrow, At, Under
  <2>2. \A i \in JobId : i # j => jobs'[i] = jobs[i]
    BY <1>0, <2>1, GotoKeeps, AgainKeeps, FinishKeeps DEF Again, Step
  <2>3. QED BY <1>0, <2>1, <2>2, UnwatchClears
<1>6. ASSUME NEW j \in JobId,
             ReadForCreate(j) \/ Persist(j) \/ PersistLate(j) \/ PersistUnheard(j)
      PROVE  Kept(p)
  <2>1. /\ Under(j) /\ ~InTx(j) /\ game[jobs[j].room] \in Game /\ jobs[j].room \in Room
        /\ watched' = watched
    BY <1>0, <1>6, JobFields
       DEF ReadForCreate, Persist, PersistLate, PersistUnheard, At, Under, KindFits,
           InTx, Tx, TypeOK
  <2>2. Finish(j) \/ Again(j, "persist") \/ Read(j, "persist", game[jobs[j].room])
    BY <1>6 DEF ReadForCreate, Persist, PersistLate, PersistUnheard
  <2>3. \A i \in JobId : i # j => jobs'[i] = jobs[i]
    BY <1>0, <2>1, <2>2, ReadKeeps, AgainKeeps, FinishKeeps DEF Again, Step
  <2>4. dirty' = dirty \/ Touch(jobs[j].room)
    BY <1>6 DEF ReadForCreate, Persist, PersistLate, PersistUnheard, Store
  <2>5. QED BY <2>1, <2>3, <2>4, SameJobsKept
<1>7. ASSUME NEW r \in Room, Script(r) \/ RefreshTtl(r) PROVE Kept(p)
  BY <1>7, SameJobsKept DEF Script, RefreshTtl
<1>8. CASE UNCHANGED vars
  BY <1>8, SameJobsKept DEF vars
<1>9. QED
  BY <1>1, <1>2, <1>3, <1>4, <1>5, <1>6, <1>7, <1>8 DEF Next, JobStep

\* A transaction that is refused, aborted, given up or late leaves no watch and no
\* mark behind on the connection (executeGameTransaction).
THEOREM ConnectionsAreClean == Spec => []ConnectionLeftClean
<1>1. Init => ConnectionLeftClean
  BY DEF Init, ConnectionLeftClean
<1>2. TxInv /\ ConnectionLeftClean /\ [Next]_vars => ConnectionLeftClean'
  BY NextClean
<1>3. QED BY <1>1, <1>2, TxInvariance, PTL DEF Spec

-----------------------------------------------------------------------------
(* GameStore implements StoredGame                                         *)

Creates(j) == Under(j) /\ jobs[j].kind = "create"

\* One creation at a time has the lock of a room, and who is not loose has it;
\* from its check on the game is the one it saw, and over.
CreateInv ==
  /\ \A j \in JobId : Creates(j) => j \in loose \/ jobs[j].locked
  /\ \A i, j \in JobId :
       Creates(i) /\ Creates(j) /\ jobs[i].locked /\ jobs[j].locked
         /\ jobs[i].room = jobs[j].room => i = j
Ready(j) ==
  At(j, "persist") => \/ j \in loose
                      \/ /\ game[jobs[j].room].over
                         /\ game[jobs[j].room].id = jobs[j].read.id
StoreInv == TxInv /\ CreateInv /\ \A j \in JobId : Ready(j)

\* What a step does to a stored game: nothing, play it on, or amend it.
Carries(r) ==
  /\ game[r].over => game'[r].over
  /\ game'[r].id = game[r].id

LEMMA OverAndId ==
  ASSUME NEW g \in Game, NEW o
  PROVE  /\ [g EXCEPT !.version = @ + 1, !.over = o].over = o
         /\ [g EXCEPT !.version = @ + 1, !.over = o].id = g.id
BY DEF Game

LEMMA ExecWrites ==
  ASSUME TxInv, NEW j \in JobId, j \notin loose, Exec(j)
  PROVE  \E o \in BOOLEAN :
           /\ game' = [game EXCEPT ![jobs[j].room] =
                         [game[jobs[j].room] EXCEPT !.version = @ + 1, !.over = o]]
           /\ o = game[jobs[j].room].over \/ ~game[jobs[j].room].over
<1>1. Under(j) /\ At(j, "exec") /\ ~dirty[jobs[j].at] /\ Commit(j)
  BY DEF Exec, At, Under
<1>2. Accepts(jobs[j].kind, jobs[j].read) /\ jobs[j].read = game[jobs[j].room]
  BY <1>1 DEF TxInv, Fresh
<1>3. QED BY <1>1, <1>2, CommitWrites DEF Accepts, TxInv

LEMMA ScriptWritesLive ==
  ASSUME TypeOK, NEW r \in Room, Script(r)
  PROVE  /\ ~game[r].over
         /\ \E o \in BOOLEAN :
              game' = [game EXCEPT ![r] = [game[r] EXCEPT !.version = @ + 1, !.over = o]]
BY ScriptWrites DEF Script, Accepts

\* Such a write carries every game.
LEMMA WriteCarries ==
  ASSUME TypeOK, NEW r \in Room, NEW o \in BOOLEAN, o = game[r].over \/ ~game[r].over,
         game' = [game EXCEPT ![r] = [game[r] EXCEPT !.version = @ + 1, !.over = o]]
  PROVE  \A q \in Room : Carries(q)
<1> DEFINE g == [game[r] EXCEPT !.version = @ + 1, !.over = o]
<1>1. game[r] \in Game
  BY DEF TypeOK
<1>2. g \in Game /\ g.over = o /\ g.id = game[r].id
  BY <1>1, NextVersion, OverAndId
<1>3. game' = [game EXCEPT ![r] = g]
  OBVIOUS
<1> HIDE DEF g
<1>4. game'[r] = g /\ \A q \in Room : q # r => game'[q] = game[q]
  BY <1>2, <1>3, WriteType
<1>5. Carries(r)
  BY <1>2, <1>4 DEF Carries
<1>6. QED BY <1>4, <1>5 DEF Carries

LEMMA CarriesReady ==
  ASSUME [Next]_vars, TypeOK, NEW i \in JobId, Ready(i), jobs'[i] = jobs[i],
         At(i, "persist") => i \in loose' \/ Carries(jobs[i].room)
  PROVE  Ready(i)'
<1>1. CASE At(i, "persist")
  <2>1. i \in loose => i \in loose'
    BY <1>1, StaysLoose DEF At, Under
  <2>2. QED BY <1>1, <2>1 DEF Ready, At, Carries
<1>2. CASE ~At(i, "persist")
  BY <1>2 DEF Ready, At
<1>3. QED BY <1>1, <1>2

\* A step of a creation takes no lock, and leaves it protected only if it was.
Settled(j) ==
  Creates(j)' => /\ jobs'[j].locked => jobs[j].locked
                 /\ \/ j \in loose'
                    \/ j \notin loose /\ jobs'[j].locked = jobs[j].locked

LEMMA MovesCreate ==
  ASSUME [Next]_vars, TypeOK, CreateInv, NEW j \in JobId, Moves(j), Settled(j)
  PROVE  CreateInv'
<1>1. ASSUME NEW i \in JobId, Creates(i)'
      PROVE  /\ Creates(i) /\ jobs'[i].room = jobs[i].room
             /\ jobs'[i].locked => jobs[i].locked
             /\ i \in loose' \/ (i \notin loose /\ jobs'[i].locked = jobs[i].locked)
  <2>1. Creates(i) /\ jobs'[i].room = jobs[i].room
    BY <1>1 DEF Moves, Creates, Under
  <2>2. CASE i = j
    BY <1>1, <2>1, <2>2 DEF Settled
  <2>3. CASE i # j
    BY <2>1, <2>3, StaysLoose DEF Moves, Creates
  <2>4. QED BY <2>1, <2>2, <2>3
<1>2. QED BY <1>1 DEF CreateInv

\* A step of job j that changes no game under a creation that is not loose, and
\* does not bring j itself to the point of persisting.
Safe(i) == At(i, "persist") => i \in loose' \/ Carries(jobs[i].room)

LEMMA CarryingStep ==
  ASSUME [Next]_vars, StoreInv, TxInv', NEW j \in JobId, Moves(j), Settled(j),
         \A i \in JobId : i # j => Safe(i), Ready(j)'
  PROVE  StoreInv'
<1>1. CreateInv'
  BY MovesCreate DEF StoreInv, TxInv
<1>2. \A i \in JobId : i # j => Ready(i)'
  BY CarriesReady DEF StoreInv, TxInv, Moves, Safe
<1>3. QED BY <1>1, <1>2 DEF StoreInv

LEMMA AllSafe ==
  ASSUME TypeOK, \A q \in Room : Carries(q)
  PROVE  \A i \in JobId : Safe(i)
BY JobFields DEF Safe, At, Under

LEMMA Still == game' = game => \A i \in JobId : Safe(i)
BY DEF Safe, Carries

LEMMA BeginCreates ==
  ASSUME [Next]_vars, StoreInv, TxInv', NEW j \in JobId, NEW x \in Job, game' = game,
         loose' = loose, jobs[j] = NoJob, jobs' = [jobs EXCEPT ![j] = x], x.locked,
         x.step # "persist",
         x.kind = "create" => LockFree(x.room, {"create"})
  PROVE  StoreInv'
<1>1. jobs'[j] = x /\ \A i \in JobId : i # j => jobs'[i] = jobs[i]
  BY DEF StoreInv, TxInv, TypeOK
<1>2. \A i \in JobId : i # j => (Creates(i)' <=> Creates(i))
  BY <1>1 DEF Creates, Under
<1>3. \A i \in JobId : Creates(i)' => i \in loose' \/ jobs'[i].locked
  BY <1>1, <1>2 DEF StoreInv, CreateInv
<1>4. x.kind = "create" =>
        \A i \in JobId : ~(Creates(i) /\ jobs[i].locked /\ jobs[i].room = x.room)
  BY DEF LockFree, Creates
<1>5. ASSUME NEW i \in JobId, NEW k \in JobId, Creates(i)', Creates(k)',
             jobs'[i].locked, jobs'[k].locked, jobs'[i].room = jobs'[k].room
      PROVE  i = k
  <2>1. CASE i # j /\ k # j
    BY <1>1, <1>2, <1>5, <2>1 DEF StoreInv, CreateInv
  <2>2. CASE i = j /\ k # j
    BY <1>1, <1>2, <1>4, <1>5, <2>2 DEF Creates
  <2>3. CASE i # j /\ k = j
    BY <1>1, <1>2, <1>4, <1>5, <2>3 DEF Creates
  <2>4. QED BY <2>1, <2>2, <2>3
<1>6. \A i \in JobId : Ready(i)'
  BY <1>1 DEF StoreInv, Ready, At
<1>7. QED BY <1>3, <1>5, <1>6 DEF StoreInv, CreateInv

LEMMA InitStore == Init => StoreInv
BY InitTx DEF Init, StoreInv, CreateInv, Creates, Ready, Under, At

LEMMA NextStore ==
  ASSUME StoreInv, [Next]_vars
  PROVE  StoreInv'
<1>0. TxInv' /\ TxInv /\ TypeOK /\ KindFits
  BY NextTx DEF StoreInv, TxInv
<1>1. ASSUME NEW j \in JobId, NEW r \in Room, NEW p \in Process, NEW k \in Tx,
             BeginTx(j, k, r, p)
      PROVE  StoreInv'
  <2> DEFINE x == [kind |-> k, room |-> r, at |-> p, step |-> "watch",
                   read |-> Blank, tries |-> 0, locked |-> TRUE]
  <2>1. x \in Job /\ x.locked /\ x.step # "persist" /\ x.kind # "create"
    BY NewJob DEF Step, Tx
  <2>2. jobs[j] = NoJob /\ game' = game /\ loose' = loose /\ jobs' = [jobs EXCEPT ![j] = x]
    BY <1>1 DEF BeginTx
  <2> HIDE DEF x
  <2>3. QED BY <1>0, <2>1, <2>2, BeginCreates
<1>2. ASSUME NEW j \in JobId, NEW r \in Room, NEW p \in Process, BeginCreate(j, r, p)
      PROVE  StoreInv'
  <2> DEFINE x == [kind |-> "create", room |-> r, at |-> p, step |-> "read",
                   read |-> Blank, tries |-> 0, locked |-> TRUE]
  <2>1. x \in Job /\ x.locked /\ x.step # "persist" /\ x.room = r
    BY NewJob DEF Step
  <2>2. /\ jobs[j] = NoJob /\ game' = game /\ loose' = loose /\ jobs' = [jobs EXCEPT ![j] = x]
        /\ LockFree(r, {"create"})
    BY <1>2 DEF BeginCreate
  <2> HIDE DEF x
  <2>3. QED BY <1>0, <2>1, <2>2, BeginCreates
<1>3. ASSUME NEW j \in JobId, NEW s \in Step, Under(j), jobs[j].kind # "create",
             s \notin {"read", "persist"}, Goto(j, s),
             \A i \in JobId : i # j => Safe(i)
      PROVE  StoreInv'
  BY <1>0, <1>3, GotoKeeps, CarryingStep
     DEF Moves, Under, Creates, Settled, Ready, At
<1>4. ASSUME NEW j \in JobId, Finish(j), \A i \in JobId : i # j => Safe(i)
      PROVE  StoreInv'
  BY <1>0, <1>4, FinishKeeps, CarryingStep DEF Moves, Under, Creates, Settled, Ready, At
<1>5. ASSUME NEW j \in JobId, Watch(j) \/ Abort(j) \/ CommandLate(j) PROVE StoreInv'
  <2>1. /\ Under(j) /\ jobs[j].kind # "create" /\ game' = game
        /\ Goto(j, "get") \/ Goto(j, "retry") \/ Goto(j, "quit")
    BY <1>0, <1>5 DEF Watch, Abort, CommandLate, At, Under, KindFits
  <2>2. QED BY <1>3, <2>1, Still DEF Step
<1>6. ASSUME NEW j \in JobId, Get(j) PROVE StoreInv'
  <2>1. /\ Under(j) /\ jobs[j].kind # "create" /\ game' = game
        /\ game[jobs[j].room] \in Game
    BY <1>0, <1>6, JobFields DEF Get, At, Under, KindFits, TypeOK
  <2>2. PICK s \in {"exec", "quit"} : Read(j, s, game[jobs[j].room])
    BY <1>6 DEF Get
  <2>3. s \in Step
    BY DEF Step
  <2>4. Moves(j) /\ Ready(j)' /\ Settled(j)
    BY <1>0, <2>1, <2>2, <2>3, ReadKeeps DEF Moves, Ready, Creates, Settled, Under, At
  <2>5. QED BY <1>0, <2>1, <2>4, CarryingStep, Still
<1>7. ASSUME NEW j \in JobId, Exec(j) PROVE StoreInv'
  <2>1. Under(j) /\ jobs[j].kind # "create" /\ jobs[j].room \in Room
    BY <1>0, <1>7, JobFields DEF Exec, At, Under, KindFits
  <2>2. ASSUME NEW i \in JobId, i # j PROVE Safe(i)
    <3>1. CASE j \notin loose
      BY <1>0, <1>7, <2>1, <3>1, ExecWrites, WriteCarries, AllSafe
    <3>2. CASE j \in loose
      <4> SUFFICES ASSUME At(i, "persist") PROVE i \in loose' \/ Carries(jobs[i].room)
        BY DEF Safe
      <4>1. /\ Under(i) /\ jobs[i].kind = "create" /\ jobs[i].room \in Room
            /\ jobs'[i] # NoJob
        BY <1>0, <1>7, <2>1, <2>2, JobFields, GotoKeeps, FinishKeeps
           DEF At, Under, KindFits, Exec, Commit, Step
      <4>2. CASE jobs[i].room = jobs[j].room
        BY <1>7, <2>2, <3>2, <4>1, <4>2, LoosenFrom DEF Exec, Commit, Overtaken
      <4>3. CASE jobs[i].room # jobs[j].room
        BY <1>0, <1>7, <2>1, <4>1, <4>3 DEF Exec, Commit, Carries, TypeOK
      <4>4. QED BY <4>2, <4>3
    <3>3. QED BY <3>1, <3>2
  <2>3. Finish(j) \/ Goto(j, "quit")
    BY <1>7 DEF Exec, Commit
  <2>4. QED BY <1>3, <1>4, <2>1, <2>2, <2>3 DEF Step
<1>8. ASSUME NEW j \in JobId, UnwatchAndRetry(j) PROVE StoreInv'
  <2>1. /\ Under(j) /\ jobs[j].kind # "create" /\ game' = game
        /\ Again(j, "watch")
    BY <1>0, <1>8 DEF UnwatchAndRetry, At, Under, KindFits
  <2>2. CASE Finish(j)
    BY <1>4, <2>1, <2>2, Still
  <2>3. CASE ~Finish(j)
    <3>1. Moves(j) /\ Ready(j)' /\ Settled(j)
      BY <1>0, <2>1, <2>3, AgainKeeps
         DEF Again, Moves, Ready, Creates, Settled, Under, At, Step
    <3>2. QED BY <1>0, <2>1, <3>1, CarryingStep, Still
  <2>4. QED BY <2>2, <2>3
<1>9. ASSUME NEW j \in JobId, UnwatchAndThrow(j) PROVE StoreInv'
  BY <1>4, <1>9, Still DEF UnwatchAndThrow
<1>10. ASSUME NEW j \in JobId, ReadForCreate(j) PROVE StoreInv'
  <2>1. /\ Under(j) /\ jobs[j].kind = "create" /\ game' = game
        /\ game[jobs[j].room] \in Game
    BY <1>0, <1>10, JobFields DEF ReadForCreate, At, Under, KindFits, TypeOK
  <2>0. jobs'[j] # NoJob => (j \in loose => j \in loose')
    BY <1>10, LoosenFrom DEF ReadForCreate
  <2>2. CASE game[jobs[j].room].over
    <3>1. Read(j, "persist", game[jobs[j].room])
      BY <1>10, <2>2 DEF ReadForCreate
    <3>2. /\ Moves(j) /\ jobs'[j].locked = jobs[j].locked /\ Settled(j)
          /\ jobs'[j].room = jobs[j].room /\ jobs'[j].read = game[jobs[j].room]
      BY <1>0, <2>0, <2>1, <3>1, ReadKeeps DEF Moves, Settled, Under, Step
    <3>3. Ready(j)'
      BY <2>1, <2>2, <3>2 DEF Ready
    <3>4. QED BY <1>0, <2>1, <3>2, <3>3, CarryingStep, Still
  <2>3. CASE ~game[jobs[j].room].over
    BY <1>4, <1>10, <2>1, <2>3, Still DEF ReadForCreate
  <2>4. QED BY <2>2, <2>3
<1>11. ASSUME NEW j \in JobId, Persist(j) \/ PersistUnheard(j) PROVE StoreInv'
  <2>1. /\ Under(j) /\ Creates(j) /\ Store(j)
        /\ Finish(j) \/ Again(j, "persist")
        /\ jobs[j].room \in Room
    BY <1>0, <1>11, JobFields
       DEF Persist, PersistUnheard, At, Under, KindFits, Creates
  <2>2. Moves(j) /\ (jobs'[j] # NoJob => jobs'[j].locked = jobs[j].locked)
    BY <1>0, <2>1, AgainKeeps, FinishKeeps DEF Again, Moves, Creates, Under, Step
  <2>3. PICK S : S \subseteq JobId /\ Overtaken(j) \subseteq S /\ Loosen(S)
                 /\ (jobs'[j] # NoJob => j \in S)
    BY <1>0, <1>11, SharingFrom, FinishKeeps DEF Persist, PersistUnheard
  <2>4. jobs'[j] # NoJob => j \in loose'
    BY <2>3, LoosenFrom
  <2>5. Settled(j) /\ Ready(j)'
    BY <2>2, <2>4 DEF Settled, Creates, Under, Ready, At
  <2>6. ASSUME NEW i \in JobId, i # j, At(i, "persist")
        PROVE  i \in loose' \/ Carries(jobs[i].room)
    <3>1. /\ Creates(i) /\ Under(i) /\ jobs[i].room \in Room
          /\ jobs'[i] = jobs[i] /\ jobs'[i] # NoJob
      BY <1>0, <2>2, <2>6, JobFields DEF At, Under, KindFits, Creates, Moves
    <3>2. CASE jobs[i].room # jobs[j].room
      BY <1>0, <2>1, <3>1, <3>2, StoreType DEF Carries
    <3>3. CASE jobs[i].room = jobs[j].room /\ j \in loose
      BY <2>3, <2>6, <3>1, <3>3, LoosenFrom DEF Overtaken, Creates
    <3>4. CASE jobs[i].room = jobs[j].room /\ j \notin loose
      <4>1. i \in loose
        BY <2>1, <2>6, <3>1, <3>4 DEF StoreInv, CreateInv
      <4>2. QED BY <1>0, <3>1, <4>1, StaysLoose
    <3>5. QED BY <3>2, <3>3, <3>4
  <2>7. QED BY <1>0, <2>2, <2>5, <2>6, CarryingStep DEF Safe
<1>12. ASSUME NEW j \in JobId, LoseLock(j) PROVE StoreInv'
  <2>1. /\ Under(j) /\ game' = game /\ jobs'[j] # NoJob /\ ~jobs'[j].locked
        /\ jobs'[j].kind = jobs[j].kind
    BY <1>0, <1>12, LoseKeeps DEF LoseLock
  <2>2. (j \in loose => j \in loose') /\ (jobs[j].kind = "create" => j \in loose')
    BY <1>12, <2>1, LoosenFrom DEF LoseLock
  <2>3. Moves(j) /\ jobs'[j].step = jobs[j].step
    BY <1>0, <1>12, <2>1, LoseKeeps DEF Moves, KindFits, Under
  <2>4. Settled(j) /\ Ready(j)'
    BY <1>0, <2>1, <2>2, <2>3 DEF Settled, Creates, Ready, At, Under, KindFits
  <2>5. QED BY <1>0, <2>1, <2>3, <2>4, CarryingStep, Still
<1>13. ASSUME NEW r \in Room, Script(r) \/ RefreshTtl(r) PROVE StoreInv'
  <2>1. jobs' = jobs
    BY <1>13 DEF Script, RefreshTtl
  <2>2. \A i \in JobId : Safe(i)
    BY <1>0, <1>13, ScriptWritesLive, WriteCarries, AllSafe, Still DEF RefreshTtl
  <2>3. \A i \in JobId : Ready(i)'
    BY <1>0, <2>1, <2>2, CarriesReady DEF StoreInv, Safe
  <2>4. CreateInv'
    BY <1>13, <2>1 DEF Script, RefreshTtl, StoreInv, CreateInv, Creates, Under
  <2>5. QED BY <1>0, <2>3, <2>4 DEF StoreInv
<1>14. ASSUME NEW j \in JobId, PersistLate(j) PROVE StoreInv'
  <2>1. Under(j) /\ Creates(j) /\ game' = game /\ Ready(j) /\ jobs[j].step = "persist"
    BY <1>0, <1>14 DEF PersistLate, At, Under, KindFits, Creates, StoreInv
  <2>0. jobs'[j] # NoJob => (j \in loose => j \in loose')
    BY <1>14, LoosenFrom DEF PersistLate
  <2>2. CASE Finish(j)
    BY <1>4, <2>1, <2>2, Still
  <2>3. CASE ~Finish(j)
    <3>1. /\ Moves(j) /\ jobs'[j].locked = jobs[j].locked /\ jobs'[j] # NoJob
          /\ jobs'[j].room = jobs[j].room /\ jobs'[j].read = jobs[j].read
      BY <1>0, <1>14, <2>1, <2>3, AgainKeeps
         DEF PersistLate, Again, Moves, Creates, Under, Step
    <3>2. Ready(j)' /\ Settled(j)
      BY <2>0, <2>1, <3>1 DEF Ready, Settled, At, Under
    <3>3. QED BY <1>0, <2>1, <3>1, <3>2, CarryingStep, Still
  <2>4. QED BY <2>2, <2>3
<1>15. CASE UNCHANGED vars
  BY <1>0, <1>15 DEF vars, StoreInv, CreateInv, Creates, Ready, Under, At
<1>16. QED
  BY <1>1, <1>2, <1>5, <1>6, <1>7, <1>8, <1>9, <1>10, <1>11, <1>12, <1>13, <1>14, <1>15
     DEF Next, JobStep

\* Every write of the stored game is one operation on the value it finds, unless
\* a job does it that has lost its protection.
LEMMA StoredStep ==
  ASSUME StoreInv, [Next]_vars
  PROVE  [Stored!SGNext \/ \E j \in loose : Exec(j) \/ Persist(j) \/ PersistUnheard(j)]_game
<1>0. TxInv /\ TypeOK /\ KindFits
  BY DEF StoreInv, TxInv
<1>1. ASSUME NEW r \in Room, NEW o \in BOOLEAN, o = game[r].over \/ ~game[r].over,
             game' = [game EXCEPT ![r] = [game[r] EXCEPT !.version = @ + 1, !.over = o]]
      PROVE  Stored!SGNext
  <2>1. CASE ~game[r].over
    <3>1. game' = [game EXCEPT ![r].version = @ + 1, ![r].over = o]
      BY <1>1
    <3>2. QED BY <1>1, <2>1, <3>1 DEF Stored!SGNext, Stored!Play
  <2>2. CASE o = game[r].over
    <3>1. game' = [game EXCEPT ![r].version = @ + 1]
      BY <1>0, <1>1, <2>2 DEF TypeOK, Game
    <3>2. QED BY <1>1, <3>1 DEF Stored!SGNext, Stored!Amend
  <2>3. QED BY <1>1, <2>1, <2>2
<1>2. ASSUME NEW j \in JobId \ loose, Exec(j) PROVE Stored!SGNext
  <2>1. jobs[j].room \in Room
    BY <1>0, <1>2, JobFields DEF Exec, At, Under
  <2>2. QED BY <1>0, <1>1, <1>2, <2>1, ExecWrites
<1>3. ASSUME NEW r \in Room, Script(r) PROVE Stored!SGNext
  BY <1>0, <1>1, <1>3, ScriptWritesLive
<1>4. ASSUME NEW j \in JobId \ loose, Persist(j) \/ PersistUnheard(j)
      PROVE  Stored!SGNext
  <2>1. /\ jobs[j].room \in Room /\ game[jobs[j].room].over
        /\ game[jobs[j].room].id = jobs[j].read.id
    BY <1>0, <1>4, JobFields DEF Persist, PersistUnheard, At, Under, StoreInv, Ready
  <2>2. game' = [game EXCEPT ![jobs[j].room] =
                   [id |-> game[jobs[j].room].id + 1, version |-> 1, over |-> FALSE]]
    BY <1>4, <2>1 DEF Persist, PersistUnheard, Store
  <2>3. QED BY <2>1, <2>2 DEF Stored!SGNext, Stored!Replace
<1>5. ASSUME ~\E j \in JobId : Exec(j) \/ Persist(j) \/ PersistUnheard(j),
             ~\E r \in Room : Script(r)
      PROVE  game' = game
  BY <1>5 DEF Next, JobStep, BeginTx, BeginCreate, Watch, Get, Abort, UnwatchAndRetry,
     UnwatchAndThrow, ReadForCreate, CommandLate, PersistLate, LoseLock, RefreshTtl, vars
<1>6. QED BY <1>2, <1>3, <1>4, <1>5

\* No update of a stored game is lost, no game in progress is replaced and no
\* finished one played on, except by a transaction whose watch was dropped or a
\* creation that has outlived its lock, was sent again, or was overtaken by one of
\* these: otherwise the other modules may take an operation for one step
\* (executeGameTransaction, createGame, startNextRound and the scripts).
THEOREM Refinement == Spec => GamesAreAtomic
<1>1. Init => Stored!SGInit
  BY DEF Init, Stored!SGInit, Blank
<1>2. StoreInv /\ [Next]_vars => StoreInv'
  BY NextStore
<1>3. StoreInv /\ [Next]_vars =>
        [\/ Stored!SGNext
         \/ \E j \in loose : Exec(j) \/ Persist(j) \/ PersistUnheard(j)]_game
  BY StoredStep
<1>4. QED BY <1>1, <1>2, <1>3, InitStore, PTL DEF Spec, GamesAreAtomic

-----------------------------------------------------------------------------
(* The lock.                                                               *)

LEMMA LeaseType == Lease \in Nat \ {0} /\ OperationTimeout \in Nat
BY TimeAssumption DEF Lease, OperationTimeout, AtLeast

LEMMA LockFields ==
  ASSUME LockTypeOK, lock # Free
  PROVE  lock.owner \in Caller /\ lock.left \in Nat
BY DEF LockTypeOK, Lock

LEMMA NewLock ==
  ASSUME NEW c \in Caller, NEW n \in Nat
  PROVE  [owner |-> c, left |-> n] \in Lock /\ [owner |-> c, left |-> n] # Free
BY FreeAssumption DEF Lock

\* A call that still tries has attempts left: the loop of acquire.
AttemptsLeft == \A c \in Caller : step[c] \in {"trying", "won"} => tries[c] < MaxRetries
TypeInv == LockTypeOK /\ AttemptsLeft

\* A failed attempt counts once and leads back to trying or to a refusal.
LEMMA RetryType ==
  ASSUME TypeInv, NEW c \in Caller, step[c] \in {"trying", "won"}, Retry(c)
  PROVE  /\ tries' \in [Caller -> 0 .. MaxRetries]
         /\ step' \in [Caller -> LockStep]
         /\ time' \in [Caller -> Nat]
         /\ AttemptsLeft'
<1>1. tries[c] + 1 \in 0 .. MaxRetries
  BY TimeAssumption DEF TypeInv, LockTypeOK, AttemptsLeft
<1>2. tries' \in [Caller -> 0 .. MaxRetries] /\ tries'[c] = tries[c] + 1
  BY <1>1 DEF TypeInv, LockTypeOK, Retry
<1>3. step' \in [Caller -> LockStep] /\ time' \in [Caller -> Nat]
  BY DEF TypeInv, LockTypeOK, Retry, StepTo, LockStep
<1>4. ASSUME NEW d \in Caller, step'[d] \in {"trying", "won"}
      PROVE  tries'[d] < MaxRetries
  <2>1. CASE d = c
    BY <2>1, <1>2, <1>4 DEF TypeInv, LockTypeOK, Retry, StepTo
  <2>2. CASE d # c
    BY <2>2, <1>4 DEF TypeInv, LockTypeOK, AttemptsLeft, Retry, StepTo
  <2>3. QED BY <2>1, <2>2
<1>5. QED BY <1>2, <1>3, <1>4 DEF AttemptsLeft

-----------------------------------------------------------------------------
(* Type correctness                                                        *)

LEMMA InitLockType == LockInit => TypeInv
BY TimeAssumption DEF LockInit, TypeInv, LockTypeOK, AttemptsLeft, LockStep

LEMMA NextLockType == TypeInv /\ [LockNext]_lockVars => TypeInv'
<1> SUFFICES ASSUME TypeInv, [LockNext]_lockVars PROVE TypeInv'
  OBVIOUS
<1> USE DEF TypeInv
<1>1. ASSUME NEW c \in Caller, SetLock(c) PROVE TypeInv'
  <2>1. lock' \in Lock
    BY <1>1, NewLock, LeaseType DEF SetLock
  <2>2. QED BY <1>1, <2>1 DEF SetLock, StepTo, LockTypeOK, AttemptsLeft, LockStep
<1>2. ASSUME NEW c \in Caller, LockTaken(c) PROVE TypeInv'
  BY <1>2, RetryType DEF LockTaken, LockTypeOK
<1>3. ASSUME NEW c \in Caller, StartBody(c) PROVE TypeInv'
  BY <1>3, LeaseType DEF StartBody, StepTo, LockTypeOK, AttemptsLeft, LockStep
<1>4. ASSUME NEW c \in Caller, ReplyLost(c) PROVE TypeInv'
  BY <1>4, RetryType DEF ReplyLost, LockTypeOK
<1>5. ASSUME NEW c \in Caller, BodyEnds(c) PROVE TypeInv'
  BY <1>5 DEF BodyEnds, StepTo, LockTypeOK, AttemptsLeft, LockStep
<1>6. ASSUME NEW c \in Caller, GiveUp(c) PROVE TypeInv'
  BY <1>6 DEF GiveUp, StepTo, LockTypeOK, AttemptsLeft, LockStep
<1>7. ASSUME NEW c \in Caller, Release(c) PROVE TypeInv'
  BY <1>7 DEF Release, StepTo, LockTypeOK, AttemptsLeft, LockStep
<1>8. ASSUME NEW c \in Caller, ReleaseFails(c) PROVE TypeInv'
  BY <1>8 DEF ReleaseFails, StepTo, LockTypeOK, AttemptsLeft, LockStep
<1>9. ASSUME Tick PROVE TypeInv'
  <2>1. lock' \in Lock \cup {Free}
    <3>1. CASE lock = Free \/ lock.left <= 1
      BY <1>9, <3>1 DEF Tick
    <3>2. CASE ~(lock = Free \/ lock.left <= 1)
      <4>1. lock.owner \in Caller /\ lock.left - 1 \in Nat
        BY <3>2, LockFields
      <4>2. lock' = [owner |-> lock.owner, left |-> lock.left - 1]
        BY <1>9, <3>2 DEF Tick, LockTypeOK, Lock
      <4>3. QED BY <4>1, <4>2, NewLock
    <3>3. QED BY <3>1, <3>2
  <2>2. \A c \in Caller : Passed(c) \in Nat
    BY <1>9 DEF Tick, Due, Passed, LockTypeOK
  <2>3. QED BY <1>9, <2>1, <2>2 DEF Tick, LockTypeOK, AttemptsLeft
<1>10. ASSUME UNCHANGED lockVars PROVE TypeInv'
  BY <1>10 DEF lockVars, LockTypeOK, AttemptsLeft
<1>11. QED
  BY <1>1, <1>2, <1>3, <1>4, <1>5, <1>6, <1>7, <1>8, <1>9, <1>10
     DEF LockNext, CallStep

\* The variables keep their types; no call attempts more than MaxRetries times.
THEOREM LockTypeCorrect == LockSpec => []LockTypeOK
<1>1. LockInit => TypeInv
  BY InitLockType
<1>2. TypeInv /\ [LockNext]_lockVars => TypeInv'
  BY NextLockType
<1>3. TypeInv => LockTypeOK
  BY DEF TypeInv
<1>4. QED BY <1>1, <1>2, <1>3, PTL DEF LockSpec

-----------------------------------------------------------------------------
(* Mutual exclusion                                                        *)

\* A reply that is late, and the whole time the body is then given, still end
\* before the key does.
EndsInTime == MaxDelay + OperationTimeout < Lease

\* Between the SET and its reply the key has aged as long as the reply took;
\* while the body is awaited the key has more time left than the body.
Holds(c) ==
  /\ step[c] = "won" => /\ Owns(c)
                        /\ time[c] <= MaxDelay
                        /\ lock.left + time[c] = Lease
  /\ step[c] = "body" => Owns(c) /\ time[c] < lock.left
IInv == TypeInv /\ \A c \in Caller : Holds(c)

LEMMA InitHolds == LockInit => IInv
BY InitLockType DEF LockInit, IInv, Holds

\* A step of one call that leaves the key alone, and only takes it away from
\* what it did with it.
LEMMA OthersHold ==
  ASSUME TypeInv, NEW c \in Caller, NEW d \in Caller, d # c, Holds(d),
         lock' = lock, NEW s, NEW t, StepTo(c, s, t)
  PROVE  Holds(d)'
BY DEF TypeInv, LockTypeOK, StepTo, Holds, Owns

LEMMA LeavesHold ==
  ASSUME TypeInv, NEW c \in Caller, \A d \in Caller : Holds(d),
         lock' = lock, NEW s, NEW t, s \notin {"won", "body"}, StepTo(c, s, t)
  PROVE  \A d \in Caller : Holds(d)'
<1>1. Holds(c)'
  BY DEF TypeInv, LockTypeOK, StepTo, Holds
<1>2. QED BY <1>1, OthersHold

LEMMA NextHolds ==
  ASSUME EndsInTime, IInv, [LockNext]_lockVars
  PROVE  \A d \in Caller : Holds(d)'
<1> USE DEF IInv
<1>1. ASSUME NEW c \in Caller, SetLock(c) PROVE \A d \in Caller : Holds(d)'
  <2>1. lock' = [owner |-> c, left |-> Lease] /\ lock' # Free
    BY <1>1, NewLock, LeaseType DEF SetLock
  <2>2. Holds(c)'
    BY <1>1, <2>1, LeaseType, TimeAssumption
       DEF SetLock, StepTo, Holds, Owns, TypeInv, LockTypeOK
  <2>3. ASSUME NEW d \in Caller, d # c PROVE Holds(d)'
    <3>1. step[d] \notin {"won", "body"}
      BY <1>1, <2>3 DEF SetLock, Holds, Owns
    <3>2. QED BY <1>1, <2>3, <3>1 DEF SetLock, StepTo, Holds, TypeInv, LockTypeOK
  <2>4. QED BY <2>2, <2>3
<1>2. ASSUME NEW c \in Caller, LockTaken(c) PROVE \A d \in Caller : Holds(d)'
  BY <1>2, LeavesHold DEF LockTaken, Retry
<1>3. ASSUME NEW c \in Caller, StartBody(c) PROVE \A d \in Caller : Holds(d)'
  <2>1. Owns(c) /\ lock.left > OperationTimeout
    BY <1>3, LeaseType, LockFields, TimeAssumption
       DEF StartBody, Holds, Owns, EndsInTime, TypeInv, LockTypeOK
  <2>2. Holds(c)'
    BY <1>3, <2>1 DEF StartBody, StepTo, Holds, Owns, TypeInv, LockTypeOK
  <2>3. QED BY <1>3, <2>2, OthersHold DEF StartBody
<1>4. ASSUME NEW c \in Caller, ReplyLost(c) PROVE \A d \in Caller : Holds(d)'
  BY <1>4, LeavesHold DEF ReplyLost, Retry
<1>5. ASSUME NEW c \in Caller, BodyEnds(c) PROVE \A d \in Caller : Holds(d)'
  <2>1. CASE step[c] = "body"
    BY <1>5, <2>1, LeavesHold DEF BodyEnds
  <2>2. CASE step[c] # "body"
    BY <1>5, <2>2 DEF BodyEnds, Holds, Owns
  <2>3. QED BY <2>1, <2>2
<1>6. ASSUME NEW c \in Caller, GiveUp(c) PROVE \A d \in Caller : Holds(d)'
  BY <1>6, LeavesHold DEF GiveUp
<1>7. ASSUME NEW c \in Caller, Release(c) PROVE \A d \in Caller : Holds(d)'
  <2>1. CASE Owns(c)
    <3>1. \A d \in Caller : step[d] \notin {"won", "body"}
      BY <1>7, <2>1 DEF Release, Holds, Owns
    <3>2. QED BY <1>7, <3>1 DEF Release, StepTo, Holds, TypeInv, LockTypeOK
  <2>2. CASE ~Owns(c)
    BY <1>7, <2>2, LeavesHold DEF Release
  <2>3. QED BY <2>1, <2>2
<1>8. ASSUME NEW c \in Caller, ReleaseFails(c) PROVE \A d \in Caller : Holds(d)'
  BY <1>8, LeavesHold DEF ReleaseFails
<1>9. ASSUME Tick, NEW d \in Caller PROVE Holds(d)'
  <2>1. step' = step /\ time'[d] = Passed(d) /\ ~Due(d)
    BY <1>9 DEF Tick
  <2>2. time[d] \in Nat
    BY DEF TypeInv, LockTypeOK
  <2>3. ASSUME step[d] \in {"won", "body"}
        PROVE  /\ lock # Free /\ lock.left \in Nat /\ lock.left > 1
               /\ lock' = [lock EXCEPT !.left = @ - 1]
    <3>1. lock # Free /\ lock.left \in Nat
      BY <2>3, LockFields DEF Holds, Owns, TypeInv
    <3>2. lock.left > 1
      BY <2>1, <2>2, <2>3, <3>1, LeaseType, TimeAssumption DEF Holds, Due, EndsInTime
    <3>3. QED BY <1>9, <3>1, <3>2 DEF Tick
  <2>4. ASSUME step[d] \in {"won", "body"}
        PROVE  /\ lock' # Free /\ lock'.owner = lock.owner
               /\ lock'.left = lock.left - 1
    <3>1. lock' = [owner |-> lock.owner, left |-> lock.left - 1]
      BY <2>3, <2>4 DEF TypeInv, LockTypeOK, Lock
    <3>2. lock.owner \in Caller /\ lock.left - 1 \in Nat
      BY <2>3, <2>4, LockFields DEF TypeInv
    <3>3. QED BY <3>1, <3>2, NewLock
  <2>5. CASE step[d] = "won"
    BY <2>1, <2>2, <2>3, <2>4, <2>5, TimeAssumption, LeaseType DEF Holds, Owns, Due, Passed
  <2>6. CASE step[d] = "body"
    BY <2>1, <2>2, <2>3, <2>4, <2>6, TimeAssumption, LeaseType DEF Holds, Owns, Due, Passed
  <2>7. CASE step[d] \notin {"won", "body"}
    BY <2>1, <2>7 DEF Holds
  <2>8. QED BY <2>5, <2>6, <2>7
<1>10. ASSUME UNCHANGED lockVars PROVE \A d \in Caller : Holds(d)'
  BY <1>10 DEF lockVars, Holds, Owns
<1>11. QED
  BY <1>1, <1>2, <1>3, <1>4, <1>5, <1>6, <1>7, <1>8, <1>9, <1>10
     DEF LockNext, CallStep

LEMMA Invariance ==
  ASSUME EndsInTime
  PROVE  LockSpec => []IInv
<1>1. LockInit => IInv
  BY InitHolds
<1>2. IInv /\ [LockNext]_lockVars => IInv'
  BY NextHolds, NextLockType DEF IInv
<1>3. QED BY <1>1, <1>2, PTL DEF LockSpec

\* No two calls await their bodies at once, provided the reply to SET and the
\* body's time together end before the key does (withLock).
THEOREM MutualExclusion ==
  ASSUME EndsInTime
  PROVE  LockSpec => []Exclusive
<1>1. IInv => Exclusive
  BY DEF IInv, Holds, Owns, Exclusive
<1>2. QED BY <1>1, Invariance, PTL

\* The key is the caller's own as long as it awaits its body: no release of
\* another call deletes it and it does not run out (withLock, releaseLock.lua).
THEOREM BodyOwnsLock ==
  ASSUME EndsInTime
  PROVE  LockSpec => []BodyHasLock
<1>1. IInv => BodyHasLock
  BY DEF IInv, Holds, BodyHasLock
<1>2. QED BY <1>1, Invariance, PTL
=============================================================================
