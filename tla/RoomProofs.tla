----------------------------- MODULE RoomProofs -----------------------------
(***************************************************************************)
(* Theorems of Room, for any number of people, bots, handlers under way,   *)
(* sockets, tokens and requests.                                           *)
(***************************************************************************)
EXTENDS Room, TLAPS

LEMMA IdleType == Idle \in Job /\ Idle.at = "idle"
BY BoundsAssumption DEF Idle, Job, Kind, Request, Step

\* The ways a step moves its handler on.
LEMMA GoType ==
  ASSUME JobsOK, NEW j \in JobId, NEW step \in Step, ~At(j, "idle"), Go(j, step)
  PROVE  JobsOK'
BY DEF JobsOK, At, Go, Job

LEMMA EndType ==
  ASSUME JobsOK, NEW j \in JobId, End(j)
  PROVE  JobsOK'
BY IdleType DEF JobsOK, At, End

LEMMA AfterHostType ==
  ASSUME JobsOK, NEW j \in JobId, ~At(j, "idle"), AfterHost(j)
  PROVE  JobsOK'
BY GoType, EndType DEF AfterHost, Step

LEMMA BeginType ==
  ASSUME TypeOK, NEW j \in JobId, NEW kind \in Kind, NEW step \in Step, NEW s \in Human
  PROVE  Begin(j, kind, step, s) \in Job /\ Begin(j, kind, step, s).s = s
BY IdleType DEF Begin, TypeOK, Job

\* A step that also notes what it has read.
LEMMA NoteType ==
  ASSUME JobsOK, NEW j \in JobId, NEW r \in Job, r.s \in Human, jobs' = [jobs EXCEPT ![j] = r]
  PROVE  JobsOK'
BY DEF JobsOK, At

LEMMA NotesType ==
  ASSUME NEW r \in Job, NEW step \in Step, NEW o \in Session \cup {Nobody},
         NEW b \in BOOLEAN, NEW ss \in SUBSET Session
  PROVE  /\ [r EXCEPT !.at = step, !.other = o] \in Job
         /\ [r EXCEPT !.at = step, !.seen = ss] \in Job
         /\ [r EXCEPT !.at = step, !.was = b] \in Job
BY DEF Job

LEMMA RecordType ==
  ASSUME NEW p \in Player, NEW a \in BOOLEAN, NEW b \in BOOLEAN
  PROVE  /\ [p EXCEPT !.connected = a, !.brief = b] \in Player
         /\ [p EXCEPT !.isHost = a, !.brief = b] \in Player
         /\ [p EXCEPT !.brief = b] \in Player
         /\ p.here \in BOOLEAN
BY DEF Player

\* A handler at one of its steps serves a session.
LEMMA HandlerType ==
  ASSUME TypeOK, NEW j \in JobId, NEW step, step # "idle", At(j, step)
  PROVE  jobs[j].s \in Human /\ jobs[j] \in Job /\ ~At(j, "idle")
BY DEF TypeOK, JobsOK, At

\* hostTransfer.lua
LEMMA TransferType ==
  ASSUME TypeOK, NEW a \in Session, NEW b \in Session, Transfer(a, b)
  PROVE  /\ host' = b /\ members' = members
         /\ player' \in [Session -> Player]
         /\ causes' \subseteq Cause
<1>1. \A p \in Player, h \in BOOLEAN : [p EXCEPT !.isHost = h, !.brief = FALSE] \in Player
  BY RecordType
<1>2. player' \in [Session -> Player]
  BY <1>1 DEF Transfer, TypeOK
<1>3. QED BY <1>2 DEF Transfer, TypeOK, Cause

\* atomicRemovePlayer.lua
LEMMA RemoveType ==
  ASSUME TypeOK, NEW s \in Session, Remove(s)
  PROVE  /\ host' = host /\ members' \subseteq Session
         /\ player' \in [Session -> Player]
BY DEF Remove, TypeOK, NoPlayer, Player

\* atomicGenerateReconnectToken.lua
LEMMA GenerateType ==
  ASSUME TypeOK, NEW s \in Human, Generate(s)
  PROVE  /\ token' \in [Human -> 0 .. MaxTokens]
         /\ issued' \in [Human -> 0 .. MaxTokens]
BY BoundsAssumption DEF Generate, TypeOK

-----------------------------------------------------------------------------
(* Type correctness                                                        *)

LEMMA InitType == Init => TypeOK
BY IdleType, BoundsAssumption DEF Init, TypeOK, JobsOK, At, NoPlayer, Player, Session

LEMMA NextType == TypeOK /\ [Next]_vars => TypeOK'
<1> SUFFICES ASSUME TypeOK, [Next]_vars PROVE TypeOK'
  OBVIOUS
<1> USE BoundsAssumption
<1>1. ASSUME NEW j \in JobId, Rejoin(j) PROVE TypeOK'
  <2>1. jobs[j].s \in Human /\ jobs[j] \in Job /\ ~At(j, "idle")
    BY <1>1, HandlerType
    DEF Rejoin
  <2>2. JobsOK'
    BY <1>1, <2>1, GoType, EndType
    DEF TypeOK, Rejoin, Step
  <2>3. player' \in [Session -> Player]
    BY <1>1, <2>1, <2>2, RecordType
    DEF TypeOK, Rejoin
  <2>4. QED
    BY <1>1, <2>1, <2>2, <2>3
    DEF TypeOK, Rejoin, client, tokens, locks, Player, Session, Cause
<1>2. ASSUME NEW j \in JobId, JoinScript(j) PROVE TypeOK'
  <2>1. jobs[j].s \in Human /\ jobs[j] \in Job /\ ~At(j, "idle")
    BY <1>2, HandlerType
    DEF JoinScript
  <2>2. JobsOK'
    BY <1>2, <2>1, EndType, GoType
    DEF TypeOK, JoinScript, Step
  <2>3. NewPlayer(FALSE) \in Player
    BY DEF NewPlayer, Player
  <2>4. members' \subseteq Session /\ player' \in [Session -> Player]
    <3>1. CASE Exists /\ jobs[j].s \notin members
      <4>1. /\ members' = members \cup {jobs[j].s}
            /\ player' = [player EXCEPT ![jobs[j].s] = NewPlayer(FALSE)]
        BY <1>2, <3>1 DEF JoinScript
      <4>2. jobs[j].s \in Session
        BY <2>1 DEF Session
      <4>3. QED BY <4>1, <4>2, <2>3 DEF TypeOK
    <3>2. CASE ~(Exists /\ jobs[j].s \notin members)
      BY <1>2, <3>2 DEF JoinScript, TypeOK
    <3>3. QED BY <3>1, <3>2
  <2>5. QED BY <1>2, <2>2, <2>4 DEF JoinScript, TypeOK, client, tokens, locks
<1>3. ASSUME NEW j \in JobId, Recreate(j) PROVE TypeOK'
  <2>1. jobs[j].s \in Human /\ jobs[j] \in Job /\ ~At(j, "idle")
    BY <1>3, HandlerType
    DEF Recreate
  <2>2. JobsOK'
    BY <1>3, <2>1, GoType
    DEF TypeOK, Recreate, Step
  <2>3. QED
    BY <1>3, <2>1, <2>2
    DEF TypeOK, Recreate, NewPlayer, client, tokens, locks, Player, Session,
        Cause, Job
<1>4. ASSUME NEW j \in JobId, Joined(j) PROVE TypeOK'
  <2>1. jobs[j].s \in Human /\ jobs[j] \in Job /\ ~At(j, "idle")
    BY <1>4, HandlerType
    DEF Joined
  <2>2. JobsOK'
    BY <1>4, <2>1, EndType
    DEF TypeOK, Joined, Step
  <2>3. QED
    BY <1>4, <2>1, <2>2
    DEF TypeOK, Joined, store, locks, Player, Session, Cause, Job
<1>5. ASSUME NEW j \in JobId, Consume(j) PROVE TypeOK'
  <2>1. jobs[j].s \in Human /\ jobs[j] \in Job /\ ~At(j, "idle")
    BY <1>5, HandlerType
    DEF Consume
  <2>2. JobsOK'
    BY <1>5, <2>1, GoType, EndType
    DEF TypeOK, Consume, Step
  <2>3. token' \in [Human -> 0 .. MaxTokens] /\ admitted' \in [Human -> Nat]
    BY <1>5, <2>1 DEF TypeOK, Consume
  <2>4. QED BY <1>5, <2>2, <2>3 DEF TypeOK, Consume, store, client, locks
<1>6. ASSUME NEW j \in JobId, Reenter(j) PROVE TypeOK'
  <2>1. jobs[j].s \in Human /\ jobs[j] \in Job /\ ~At(j, "idle")
    BY <1>6, HandlerType
    DEF Reenter
  <2>2. JobsOK'
    BY <1>6, <2>1, GoType, EndType
    DEF TypeOK, Reenter, Step
  <2>3. player' \in [Session -> Player]
    BY <1>6, <2>1, <2>2, RecordType
    DEF TypeOK, Reenter
  <2>4. QED
    BY <1>6, <2>1, <2>2, <2>3
    DEF TypeOK, Reenter, client, tokens, locks, Player, Session, Cause
<1>7. ASSUME NEW j \in JobId, Reentered(j) PROVE TypeOK'
  <2>1. jobs[j].s \in Human /\ jobs[j] \in Job /\ ~At(j, "idle")
    BY <1>7, HandlerType
    DEF Reentered
  <2>2. JobsOK'
    BY <1>7, <2>1, EndType
    DEF TypeOK, Reentered, Step
  <2>3. CASE player[jobs[j].s].here
    <3>1. token' \in [Human -> 0 .. MaxTokens] /\ issued' \in [Human -> 0 .. MaxTokens]
      BY <1>7, <2>1, <2>3, GenerateType DEF Reentered
    <3>2. held' \in [Human -> 0 .. MaxTokens]
      <4>1. token'[jobs[j].s] \in 0 .. MaxTokens
        BY <2>1, <3>1
      <4>2. held' = [held EXCEPT ![jobs[j].s] = token'[jobs[j].s]]
        BY <1>7, <2>3 DEF Reentered
      <4>3. QED BY <4>1, <4>2 DEF TypeOK
    <3>3. QED BY <1>7, <2>2, <3>1, <3>2
      DEF Reentered, TypeOK, Prune, Present, locks
  <2>4. CASE ~player[jobs[j].s].here
    BY <1>7, <2>2, <2>4 DEF Reentered, TypeOK, Prune, Present, locks
  <2>5. QED BY <2>3, <2>4
<1>8. ASSUME NEW j \in JobId, LeaveLock(j) PROVE TypeOK'
  <2>1. jobs[j].s \in Human /\ jobs[j] \in Job /\ ~At(j, "idle")
    BY <1>8, HandlerType
    DEF LeaveLock
  <2>2. JobsOK'
    BY <1>8, <2>1, GoType
    DEF TypeOK, LeaveLock, Step
  <2>3. QED
    BY <1>8, <2>1, <2>2
    DEF TypeOK, LeaveLock, store, client, tokens, Player, Session, Cause, Job
<1>9. ASSUME NEW j \in JobId, LeaveMove(j) PROVE TypeOK'
  <2>1. jobs[j].s \in Human /\ jobs[j] \in Job /\ ~At(j, "idle")
    BY <1>9, HandlerType
    DEF LeaveMove
  <2>2. JobsOK'
    BY <1>9, <2>1, GoType
    DEF TypeOK, LeaveMove, Step
  <2>3. CASE MayTransfer(jobs[j].s, jobs[j].other)
    <3>1. jobs[j].s \in Session /\ jobs[j].other \in Session
      BY <2>1, <2>3 DEF MayTransfer, IsHere, Job, Session
    <3>2. Transfer(jobs[j].s, jobs[j].other)
      BY <1>9, <2>3 DEF LeaveMove
    <3>3. QED BY <1>9, <2>2, <3>1, <3>2, TransferType
      DEF LeaveMove, TypeOK, client, tokens, locks
  <2>4. CASE ~MayTransfer(jobs[j].s, jobs[j].other)
    BY <1>9, <2>2, <2>4 DEF LeaveMove, TypeOK, store, client, tokens, locks
  <2>5. QED BY <2>3, <2>4
<1>10. ASSUME NEW j \in JobId, LeaveForce(j) PROVE TypeOK'
  <2>1. jobs[j].s \in Human /\ jobs[j] \in Job /\ ~At(j, "idle")
    BY <1>10, HandlerType
    DEF LeaveForce
  <2>2. JobsOK'
    BY <1>10, <2>1, GoType
    DEF TypeOK, LeaveForce, Step
  <2>3. QED
    BY <1>10, <2>1, <2>2
    DEF TypeOK, LeaveForce, WriteHost, client, tokens, locks, Exists, Player,
        Session, Cause, Job
<1>11. ASSUME NEW j \in JobId, LeaveFlag(j) PROVE TypeOK'
  <2>1. jobs[j].s \in Human /\ jobs[j] \in Job /\ ~At(j, "idle")
    BY <1>11, HandlerType
    DEF LeaveFlag
  <2>2. JobsOK'
    BY <1>11, <2>1, GoType
    DEF TypeOK, LeaveFlag, Step
  <2>3. player' \in [Session -> Player]
    BY <1>11, <2>1, <2>2, RecordType
    DEF TypeOK, LeaveFlag, SetHostFlag, store
  <2>4. QED
    BY <1>11, <2>1, <2>2, <2>3
    DEF TypeOK, LeaveFlag, SetHostFlag, store, client, tokens, locks, Player,
        Session, Cause
<1>12. ASSUME NEW j \in JobId, LeaveRemove(j) PROVE TypeOK'
  <2>1. jobs[j].s \in Human /\ jobs[j] \in Job /\ ~At(j, "idle")
    BY <1>12, HandlerType
    DEF LeaveRemove
  <2>2. JobsOK'
    BY <1>12, <2>1, GoType, EndType
    DEF TypeOK, LeaveRemove, Step
  <2>3. QED
    BY <1>12, <2>1, <2>2
    DEF TypeOK, LeaveRemove, Remove, locks, NoPlayer, Player,
        Session, Cause, Job
<1>13. ASSUME NEW j \in JobId, LeaveCount(j) PROVE TypeOK'
  <2>1. jobs[j].s \in Human /\ jobs[j] \in Job /\ ~At(j, "idle")
    BY <1>13, HandlerType
    DEF LeaveCount
  <2>2. JobsOK'
    BY <1>13, <2>1, GoType, EndType
    DEF TypeOK, LeaveCount, Step
  <2>3. QED
    BY <1>13, <2>1, <2>2
    DEF TypeOK, LeaveCount, Prune, People, client, tokens, locks, Present,
        Player, Session, Cause, Job
<1>14. ASSUME NEW j \in JobId, Raze(j) PROVE TypeOK'
  <2>1. jobs[j].s \in Human /\ jobs[j] \in Job /\ ~At(j, "idle")
    BY <1>14, HandlerType
    DEF Raze
  <2>2. JobsOK'
    BY <1>14, <2>1
    DEF TypeOK, Raze, JobsOK, At, Job, Kind, Request, Step
  <2>3. QED
    BY <1>14, <2>1, <2>2
    DEF TypeOK, Raze, store, client, tokens, locks, Player, Session, Cause,
        Job
<1>15. ASSUME NEW j \in JobId, RazeDelete(j) PROVE TypeOK'
  <2>1. jobs[j].s \in Human /\ jobs[j] \in Job /\ ~At(j, "idle")
    BY <1>15, HandlerType
    DEF RazeDelete
  <2>2. JobsOK'
    BY <1>15, <2>1, EndType
    DEF TypeOK, RazeDelete, Step
  <2>3. QED
    BY <1>15, <2>1, <2>2
    DEF TypeOK, RazeDelete, Session, NoPlayer, People, client, locks,
        Present, Player, Cause, Job
<1>16. ASSUME NEW j \in JobId, KickRemove(j) PROVE TypeOK'
  <2>1. jobs[j].s \in Human /\ jobs[j] \in Job /\ ~At(j, "idle")
    BY <1>16, HandlerType
    DEF KickRemove
  <2>2. JobsOK'
    BY <1>16, <2>1, EndType
    DEF TypeOK, KickRemove, Step
  <2>3. QED
    BY <1>16, <2>1, <2>2
    DEF TypeOK, KickRemove, Remove, People, client, locks, NoPlayer,
        Present, Player, Session, Cause, Job
<1>17. ASSUME NEW j \in JobId, Repair(j) PROVE TypeOK'
  <2>1. jobs[j].s \in Human /\ jobs[j] \in Job /\ ~At(j, "idle")
    BY <1>17, HandlerType
    DEF Repair
  <2>2. JobsOK'
    <3>1. ASSUME NEW c \in Candidates,
                 jobs' = [jobs EXCEPT ![j] = [@ EXCEPT !.at = "repairLock", !.other = c]]
          PROVE  JobsOK'
      <4>1. c \in Session
        BY DEF Candidates, People, Present, TypeOK
      <4>2. [jobs[j] EXCEPT !.at = "repairLock", !.other = c] \in Job
        BY <2>1, <4>1, NotesType DEF Step
      <4>3. QED BY <3>1, <4>2, <2>1, NoteType DEF TypeOK, Job
    <3>2. QED BY <1>17, <2>1, <3>1, AfterHostType DEF TypeOK, Repair, Step
  <2>3. QED
    BY <1>17, <2>1, <2>2
    DEF TypeOK, Repair, Exists, Prune, client, tokens, locks, IsHere, Present,
        People, Player, Session, Cause, Job
<1>18. ASSUME NEW j \in JobId, RepairLock(j) PROVE TypeOK'
  <2>1. jobs[j].s \in Human /\ jobs[j] \in Job /\ ~At(j, "idle")
    BY <1>18, HandlerType
    DEF RepairLock
  <2>2. JobsOK'
    BY <1>18, <2>1, GoType, AfterHostType, EndType
    DEF TypeOK, RepairLock, Step
  <2>3. QED
    BY <1>18, <2>1, <2>2
    DEF TypeOK, RepairLock, store, client, tokens, Player, Session, Cause, Job
<1>19. ASSUME NEW j \in JobId, RepairReread(j) PROVE TypeOK'
  <2>1. jobs[j].s \in Human /\ jobs[j] \in Job /\ ~At(j, "idle")
    BY <1>19, HandlerType
    DEF RepairReread
  <2>2. JobsOK'
    <3>1. ASSUME host # Nobody,
                 jobs' = [jobs EXCEPT ![j] = [@ EXCEPT !.at = "write", !.seen = {host}]]
          PROVE  JobsOK'
      <4>1. [jobs[j] EXCEPT !.at = "write", !.seen = {host}] \in Job
        BY <2>1, <3>1, {host} \in SUBSET Session, NotesType DEF Step, TypeOK
      <4>2. QED BY <3>1, <4>1, <2>1, NoteType DEF TypeOK, Job
    <3>2. QED BY <1>19, <2>1, <3>1, GoType DEF TypeOK, RepairReread, Exists, Step
  <2>3. QED
    BY <1>19, <2>1, <2>2
    DEF TypeOK, RepairReread, Exists, store, client, tokens, locks, IsHere,
        Player, Session, Cause, Job
<1>20. ASSUME NEW j \in JobId, RepairWrite(j) PROVE TypeOK'
  <2>1. jobs[j].s \in Human /\ jobs[j] \in Job /\ ~At(j, "idle")
    BY <1>20, HandlerType
    DEF RepairWrite
  <2>2. JobsOK'
    BY <1>20, <2>1, GoType
    DEF TypeOK, RepairWrite, Step
  <2>3. QED
    BY <1>20, <2>1, <2>2
    DEF TypeOK, RepairWrite, WriteHost, client, tokens, locks, Exists, Player,
        Session, Cause, Job
<1>21. ASSUME NEW j \in JobId, RepairFlag(j) PROVE TypeOK'
  <2>1. jobs[j].s \in Human /\ jobs[j] \in Job /\ ~At(j, "idle")
    BY <1>21, HandlerType
    DEF RepairFlag
  <2>2. JobsOK'
    BY <1>21, <2>1, GoType
    DEF TypeOK, RepairFlag, Step
  <2>3. player' \in [Session -> Player]
    BY <1>21, <2>1, <2>2, RecordType
    DEF TypeOK, RepairFlag, SetHostFlag, store
  <2>4. QED
    BY <1>21, <2>1, <2>2, <2>3
    DEF TypeOK, RepairFlag, SetHostFlag, store, client, tokens, locks, Player,
        Session, Cause
<1>22. ASSUME NEW j \in JobId, RepairClear(j) PROVE TypeOK'
  <2>1. jobs[j].s \in Human /\ jobs[j] \in Job /\ ~At(j, "idle")
    BY <1>22, HandlerType
    DEF RepairClear
  <2>2. JobsOK'
    BY <1>22, <2>1, GoType
    DEF TypeOK, RepairClear, Step
  <2>3. player' \in [Session -> Player]
    BY <1>22, <2>1, <2>2, RecordType
    DEF TypeOK, RepairClear
  <2>4. QED
    BY <1>22, <2>1, <2>2, <2>3
    DEF TypeOK, RepairClear, Session, client, tokens, locks, Player, Cause
<1>23. ASSUME NEW j \in JobId, FreeHostLock(j) PROVE TypeOK'
  <2>1. jobs[j].s \in Human /\ jobs[j] \in Job /\ ~At(j, "idle")
    BY <1>23, HandlerType
    DEF FreeHostLock
  <2>2. JobsOK'
    BY <1>23, <2>1, AfterHostType, GoType, EndType
    DEF TypeOK, FreeHostLock, Step
  <2>3. QED
    BY <1>23, <2>1, <2>2
    DEF TypeOK, FreeHostLock, store, client, tokens, Player, Session, Cause,
        Job
<1>24. ASSUME NEW j \in JobId, Drop(j) PROVE TypeOK'
  <2>1. jobs[j].s \in Human /\ jobs[j] \in Job /\ ~At(j, "idle")
    BY <1>24, HandlerType
    DEF Drop
  <2>2. JobsOK'
    <3>1. player[jobs[j].s].isHost \in BOOLEAN
      BY <2>1 DEF TypeOK, Session, Player
    <3>2. [jobs[j] EXCEPT !.at = "owner", !.was = player[jobs[j].s].isHost] \in Job
      BY <2>1, <3>1, NotesType DEF Step
    <3>3. QED BY <1>24, <2>1, <3>2, NoteType, EndType DEF TypeOK, Drop, Job
  <2>3. QED
    BY <1>24, <2>2 DEF Drop, TypeOK, store, client, tokens, locks
<1>24a. ASSUME NEW j \in JobId, DropOwner(j) PROVE TypeOK'
  <2>1. jobs[j].s \in Human /\ jobs[j] \in Job /\ ~At(j, "idle")
    BY <1>24a, HandlerType
    DEF DropOwner
  <2>2. JobsOK'
    BY <1>24a, <2>1, EndType, GoType
    DEF TypeOK, DropOwner, Step
  <2>3. QED
    BY <1>24a, <2>2 DEF DropOwner, TypeOK, store, client, tokens, locks
<1>24b. ASSUME NEW j \in JobId, DropToken(j) PROVE TypeOK'
  <2>1. jobs[j].s \in Human /\ jobs[j] \in Job /\ ~At(j, "idle")
    BY <1>24b, HandlerType
    DEF DropToken
  <2>2. JobsOK'
    BY <1>24b, <2>1, GoType
    DEF TypeOK, DropToken, Step
  <2>3. token' \in [Human -> 0 .. MaxTokens] /\ issued' \in [Human -> 0 .. MaxTokens]
    BY <1>24b, <2>1, GenerateType DEF DropToken, TypeOK
  <2>4. UNCHANGED <<store, client, mapped, entry, held, admitted, locks, rooms, asked, causes>>
    BY <1>24b DEF DropToken
  <2>5. QED
    BY <2>2, <2>3, <2>4 DEF TypeOK, store, client, locks
<1>25. ASSUME NEW j \in JobId, DropCheck(j) PROVE TypeOK'
  <2>1. jobs[j].s \in Human /\ jobs[j] \in Job /\ ~At(j, "idle")
    BY <1>25, HandlerType
    DEF DropCheck
  <2>2. JobsOK'
    BY <1>25, <2>1, EndType, GoType
    DEF TypeOK, DropCheck, Step
  <2>3. playerLock' \in [Human -> JobId \cup {Nobody}]
    BY <1>25, <2>1 DEF TypeOK, DropCheck
  <2>4. UNCHANGED <<store, client, mapped, entry, tokens, hostLock, rooms, asked, causes>>
    BY <1>25 DEF DropCheck
  <2>5. QED
    BY <2>2, <2>3, <2>4 DEF TypeOK, store, client, tokens
<1>26. ASSUME NEW j \in JobId, DropMark(j) PROVE TypeOK'
  <2>1. jobs[j].s \in Human /\ jobs[j] \in Job /\ ~At(j, "idle")
    BY <1>26, HandlerType
    DEF DropMark
  <2>2. JobsOK'
    BY <1>26, <2>1, GoType, EndType
    DEF TypeOK, DropMark, Step
  <2>3. player' \in [Session -> Player]
    BY <1>26, <2>1, <2>2, RecordType
    DEF TypeOK, DropMark
  <2>4. QED
    BY <1>26, <2>1, <2>2, <2>3
    DEF TypeOK, DropMark, client, tokens, Player, Session, Cause
<1>27. ASSUME NEW j \in JobId, DropPlan(j) PROVE TypeOK'
  <2>1. jobs[j].s \in Human /\ jobs[j] \in Job /\ ~At(j, "idle")
    BY <1>27, HandlerType
    DEF DropPlan
  <2>2. JobsOK'
    BY <1>27, <2>1, GoType
    DEF TypeOK, DropPlan, Step
  <2>3. QED
    BY <1>27, <2>1, <2>2
    DEF TypeOK, DropPlan, store, client, tokens, locks, Player, Session,
        Cause, Job
<1>28. ASSUME NEW j \in JobId, DropShorten(j) PROVE TypeOK'
  <2>1. jobs[j].s \in Human /\ jobs[j] \in Job /\ ~At(j, "idle")
    BY <1>28, HandlerType
    DEF DropShorten
  <2>2. JobsOK'
    BY <1>28, <2>1, GoType, EndType
    DEF TypeOK, DropShorten, Step
  <2>3. player' \in [Session -> Player]
    BY <1>28, <2>1, <2>2, RecordType
    DEF TypeOK, DropShorten
  <2>4. QED
    BY <1>28, <2>1, <2>2, <2>3
    DEF TypeOK, DropShorten, client, tokens, locks, Player, Session, Cause
<1>29. ASSUME NEW j \in JobId, DropLock(j) PROVE TypeOK'
  <2>1. jobs[j].s \in Human /\ jobs[j] \in Job /\ ~At(j, "idle")
    BY <1>29, HandlerType
    DEF DropLock
  <2>2. JobsOK'
    BY <1>29, <2>1, GoType, EndType
    DEF TypeOK, DropLock, Step
  <2>3. QED
    BY <1>29, <2>1, <2>2
    DEF TypeOK, DropLock, store, client, tokens, Player, Session, Cause, Job
<1>30. ASSUME NEW j \in JobId, DropRecheck(j) PROVE TypeOK'
  <2>1. jobs[j].s \in Human /\ jobs[j] \in Job /\ ~At(j, "idle")
    BY <1>30, HandlerType
    DEF DropRecheck
  <2>2. JobsOK'
    <3>1. ASSUME NEW h \in Session,
                 jobs' = [jobs EXCEPT ![j] = [@ EXCEPT !.at = "transfer", !.other = h]]
          PROVE  JobsOK'
      <4>1. [jobs[j] EXCEPT !.at = "transfer", !.other = h] \in Job
        BY <2>1, NotesType DEF Step
      <4>2. QED BY <3>1, <4>1, <2>1, NoteType DEF TypeOK, Job
    <3>2. Heirs({p \in Present \ {jobs[j].s} : player[p].connected}) \subseteq Session
      BY DEF Heirs, Present, TypeOK
    <3>3. QED BY <1>30, <2>1, <3>1, <3>2, GoType DEF TypeOK, DropRecheck, Step
  <2>3. QED
    BY <1>30, <2>1, <2>2
    DEF TypeOK, DropRecheck, Present, IsHere, Prune, client, tokens, locks,
        Player, Session, Cause, Job
<1>31. ASSUME NEW j \in JobId, DropTransfer(j) PROVE TypeOK'
  <2>1. jobs[j].s \in Human /\ jobs[j] \in Job /\ ~At(j, "idle")
    BY <1>31, HandlerType
    DEF DropTransfer
  <2>2. JobsOK'
    BY <1>31, <2>1, GoType
    DEF TypeOK, DropTransfer, Step
  <2>3. CASE MayTransfer(jobs[j].s, jobs[j].other)
    <3>1. jobs[j].s \in Session /\ jobs[j].other \in Session
      BY <2>1, <2>3 DEF MayTransfer, IsHere, Job, Session
    <3>2. Transfer(jobs[j].s, jobs[j].other)
      BY <1>31, <2>3 DEF DropTransfer
    <3>3. QED BY <1>31, <2>2, <3>1, <3>2, TransferType
      DEF DropTransfer, TypeOK, client, tokens, locks
  <2>4. CASE ~MayTransfer(jobs[j].s, jobs[j].other)
    BY <1>31, <2>2, <2>4 DEF DropTransfer, TypeOK, store, client, tokens, locks
  <2>5. QED BY <2>3, <2>4
<1>32. ASSUME NEW j \in JobId, Sweep(j) PROVE TypeOK'
  <2>1. jobs[j].s \in Human /\ jobs[j] \in Job /\ ~At(j, "idle")
    BY <1>32, HandlerType
    DEF Sweep
  <2>2. JobsOK'
    BY <1>32, <2>1, GoType, EndType
    DEF TypeOK, Sweep, Step
  <2>3. CASE player[jobs[j].s].here /\ ~player[jobs[j].s].connected
    <3>1. Remove(jobs[j].s)
      BY <1>32, <2>3 DEF Sweep
    <3>2. QED BY <1>32, <2>1, <2>2, <2>3, <3>1, RemoveType
      DEF Sweep, TypeOK, Session, client, locks
  <2>4. CASE ~(player[jobs[j].s].here /\ ~player[jobs[j].s].connected)
    BY <1>32, <2>2, <2>4 DEF Sweep, TypeOK, store, client, locks
  <2>5. QED BY <2>3, <2>4
<1>33. ASSUME NEW j \in JobId, SweepCount(j) PROVE TypeOK'
  <2>1. jobs[j].s \in Human /\ jobs[j] \in Job /\ ~At(j, "idle")
    BY <1>33, HandlerType
    DEF SweepCount
  <2>2. JobsOK'
    BY <1>33, <2>1, GoType, EndType
    DEF TypeOK, SweepCount, Step
  <2>3. QED
    BY <1>33, <2>1, <2>2
    DEF TypeOK, SweepCount, Prune, People, Exists, client, tokens, locks,
        Present, Player, Session, Cause, Job
<1>33a. ASSUME NEW j \in JobId, SweepFails(j) PROVE TypeOK'
  <2>1. jobs[j].s \in Human /\ jobs[j] \in Job /\ ~At(j, "idle")
    BY <1>33a, HandlerType
    DEF SweepFails, At
  <2>2. JobsOK'
    BY <1>33a, EndType
    DEF TypeOK, SweepFails
  <2>3. causes' \subseteq Cause
    BY <1>33a DEF SweepFails, TypeOK, Cause
  <2>4. UNCHANGED <<client, entry, tokens, locks, rooms, asked>>
    BY <1>33a DEF SweepFails
  <2>5. CASE UNCHANGED <<store, mapped>>
    BY <2>2, <2>3, <2>4, <2>5 DEF TypeOK, store, client, tokens, locks
  <2>6. CASE Remove(jobs[j].s) /\ mapped' = [mapped EXCEPT ![jobs[j].s] = 0]
    BY <2>1, <2>2, <2>3, <2>4, <2>6, RemoveType
    DEF TypeOK, Session, client, tokens, locks
  <2>7. QED BY <1>33a, <2>5, <2>6 DEF SweepFails
<1>34. ASSUME NEW j \in JobId, NEW s \in Human, CreateRoom(j, s) PROVE TypeOK'
  <2>1. JobsOK'
    BY <1>34
    DEF TypeOK, CreateRoom, JobsOK, At
  <2>2. QED
    BY <1>34, <2>1
    DEF TypeOK, CreateRoom, Exists, NewPlayer, tokens, locks, Request, Player,
        Session, Cause
<1>35. ASSUME NEW j \in JobId, NEW s \in Human, StartJoin(j, s) PROVE TypeOK'
  <2>1. JobsOK'
    <3>1. \A step \in {"rejoin", "script"} :
            Begin(j, "join", step, s) \in Job /\ Begin(j, "join", step, s).s = s
      BY BeginType DEF Kind, Request, Step
    <3>2. QED BY <1>35, <3>1, NoteType DEF TypeOK, StartJoin
  <2>2. QED
    BY <1>35, <2>1
    DEF TypeOK, StartJoin, Asks, Exists, store, client, tokens, locks,
        Request, Player, Session, Cause
<1>36. ASSUME NEW j \in JobId, NEW s \in Human, StartReconnect(j, s) PROVE TypeOK'
  <2>1. JobsOK'
    <3> DEFINE r == Begin(j, "reconnect", "consume", s)
    <3>1. r \in Job /\ r.s = s
      BY BeginType DEF Kind, Request, Step
    <3>2. [r EXCEPT !.tok = held[s]] \in Job /\ [r EXCEPT !.tok = held[s]].s = s
      BY <3>1 DEF Job, TypeOK
    <3>3. jobs' = [jobs EXCEPT ![j] = [r EXCEPT !.tok = held[s]]]
      BY <1>36 DEF StartReconnect
    <3>4. QED BY <3>2, <3>3, NoteType DEF TypeOK
  <2>2. QED
    BY <1>36, <2>1
    DEF TypeOK, StartReconnect, Asks, Exists, store, client, tokens, locks,
        Request, Player, Session, Cause
<1>37. ASSUME NEW j \in JobId, NEW s \in Human, StartLeave(j, s) PROVE TypeOK'
  <2>1. JobsOK'
    <3> DEFINE r(step) == Begin(j, "leave", step, s)
    <3>1. \A step \in {"lock", "remove"} : r(step) \in Job /\ r(step).s = s
      BY BeginType DEF Kind, Request, Step
    <3>2. ASSUME NEW h \in Heirs(Present \ {s}),
                 jobs' = [jobs EXCEPT ![j] = [r("lock") EXCEPT !.other = h, !.was = TRUE]]
          PROVE  JobsOK'
      <4>1. h \in Session
        BY DEF Heirs, Present, TypeOK
      <4>2. [r("lock") EXCEPT !.other = h, !.was = TRUE] \in Job
            /\ [r("lock") EXCEPT !.other = h, !.was = TRUE].s = s
        BY <3>1, <4>1 DEF Job
      <4>3. QED BY <3>2, <4>2, NoteType DEF TypeOK
    <3>3. [r("remove") EXCEPT !.was = Exists] \in Job
          /\ [r("remove") EXCEPT !.was = Exists].s = s
      BY <3>1, Exists \in BOOLEAN DEF Job, Exists
    <3>4. ASSUME jobs' = [jobs EXCEPT ![j] = [r("remove") EXCEPT !.was = Exists]]
          PROVE  JobsOK'
      BY <3>3, <3>4, NoteType DEF TypeOK
    <3>5. QED BY <1>37, <3>2, <3>4 DEF StartLeave
  <2>2. token' \in [Human -> 0 .. MaxTokens] /\ members' \subseteq Session
        /\ asked' \in 0 .. MaxRequests
    <3>1. token' = [token EXCEPT ![s] = 0] /\ members' \in {Present, members}
      BY <1>37 DEF StartLeave
    <3>2. asked < MaxRequests /\ asked' = asked + 1
      BY <1>37 DEF StartLeave, Asks
    <3>3. QED BY <3>1, <3>2 DEF TypeOK, Present
  <2>3. UNCHANGED <<host, player, client, mapped, entry, held, issued, admitted, locks,
                    rooms, causes>>
    BY <1>37 DEF StartLeave
  <2>4. QED BY <2>1, <2>2, <2>3 DEF TypeOK, client, locks
<1>38. ASSUME NEW j \in JobId, NEW s \in Human, StartResync(j, s) PROVE TypeOK'
  <2>1. JobsOK'
    <3>1. Begin(j, "resync", "repair", s) \in Job /\ Begin(j, "resync", "repair", s).s = s
      BY BeginType DEF Kind, Request, Step
    <3>2. QED BY <1>38, <3>1, NoteType DEF TypeOK, StartResync
  <2>2. QED
    BY <1>38, <2>1
    DEF TypeOK, StartResync, Asks, store, client, tokens, locks, Request,
        Player, Session, Cause
<1>39. ASSUME NEW j \in JobId, NEW s \in Human, StartSweep(j, s) PROVE TypeOK'
  <2>1. JobsOK'
    <3> DEFINE r == Begin(j, "sweep", "sweep", s)
    <3>1. r \in Job /\ r.s = s
      BY BeginType DEF Kind, Step
    <3>2. [r EXCEPT !.k = 0] \in Job /\ [r EXCEPT !.k = 0].s = s
      BY <3>1 DEF Job
    <3>3. jobs' = [jobs EXCEPT ![j] = [r EXCEPT !.k = 0]]
      BY <1>39 DEF StartSweep
    <3>4. QED BY <3>2, <3>3, NoteType DEF TypeOK
  <2>2. QED
    BY <1>39, <2>1
    DEF TypeOK, StartSweep, store, client, tokens, locks, Player, Session,
        Cause
<1>40. ASSUME NEW j \in JobId, NEW s \in Human, NEW d \in JobId, NEW t \in Human, StartKick(j, d, s, t) PROVE TypeOK'
  <2>1. JobsOK'
    <3> DEFINE kick == [Begin(j, "kick", "kickRemove", t) EXCEPT !.k = 0, !.other = s]
               drop == Begin(d, "drop", "drop", t)
    <3>1. /\ Begin(j, "kick", "kickRemove", t) \in Job /\ Begin(j, "kick", "kickRemove", t).s = t
          /\ drop \in Job /\ drop.s = t
      BY BeginType DEF Kind, Request, Step
    <3>2. kick \in Job /\ kick.s = t
      <4> DEFINE r == Begin(j, "kick", "kickRemove", t)
      <4>1. r \in Job /\ r.s = t /\ s \in Session /\ 0 \in 0 .. MaxSockets
        BY <3>1 DEF Session
      <4> HIDE DEF r
      <4>2. [r EXCEPT !.k = 0, !.other = s] \in Job /\ [r EXCEPT !.k = 0, !.other = s].s = t
        BY <4>1 DEF Job
      <4>3. QED BY <4>2 DEF r
    <3>3. \/ jobs' = [jobs EXCEPT ![j] = kick, ![d] = drop]
          \/ jobs' = [jobs EXCEPT ![j] = kick]
      BY <1>40 DEF StartKick
    <3> HIDE DEF kick, drop
    <3>4. QED BY <3>1, <3>2, <3>3 DEF TypeOK, JobsOK, At
  <2>2. QED
    BY <1>40, <2>1
    DEF TypeOK, StartKick, Asks, Present, store, tokens, locks, Request,
        Player, Session, Cause
<1>41. ASSUME NEW j \in JobId, NEW s \in Human, NEW k \in 1 .. MaxSockets, SocketDrops(j, s, k) PROVE TypeOK'
  <2>1. JobsOK'
    <3> DEFINE r == Begin(j, "drop", "drop", s)
    <3>1. r \in Job /\ r.s = s
      BY BeginType DEF Kind, Step
    <3>2. [r EXCEPT !.k = k] \in Job /\ [r EXCEPT !.k = k].s = s
      BY <3>1 DEF Job
    <3>3. jobs' = [jobs EXCEPT ![j] = [r EXCEPT !.k = k]]
      BY <1>41 DEF SocketDrops
    <3>4. QED BY <3>2, <3>3, NoteType DEF TypeOK
  <2>2. QED
    BY <1>41, <2>1
    DEF TypeOK, SocketDrops, Dropped, store, tokens, locks, Opened, Player,
        Session, Cause
<1>42. ASSUME NEW s \in Human, Handshake(s) PROVE TypeOK'
  <2>1. JobsOK'
    BY <1>42
    DEF TypeOK, Handshake, JobsOK, At
  <2>2. player' \in [Session -> Player]
    BY <1>42, <2>1, RecordType
    DEF TypeOK, Handshake
  <2>3. socket[s] + 1 \in 1 .. MaxSockets
    BY <1>42 DEF TypeOK, Handshake
  <2>4. /\ socket' \in [Human -> 0 .. MaxSockets]
        /\ live' \in [Human -> SUBSET (1 .. MaxSockets)]
        /\ mapped' \in [Human -> 0 .. MaxSockets]
    BY <1>42, <2>3 DEF TypeOK, Handshake
  <2>5. entered' \in [Human -> {"no", "create", "join", "reconnect"}]
    BY <1>42 DEF TypeOK, Handshake
  <2>6. QED BY <1>42, <2>1, <2>2, <2>4, <2>5 DEF TypeOK, Handshake, tokens, locks
<1>43. ASSUME NEW s \in Human, GraceEnds(s) PROVE TypeOK'
  <2>1. JobsOK'
    BY <1>43
    DEF TypeOK, GraceEnds, JobsOK, At
  <2>2. QED
    BY <1>43, <2>1
    DEF TypeOK, GraceEnds, Quiet, store, client, tokens, locks, Player,
        Session, Cause
<1>44. ASSUME NEW s \in Human, KeyExpires(s) PROVE TypeOK'
  <2>1. JobsOK'
    BY <1>44
    DEF TypeOK, KeyExpires, JobsOK, At
  <2>2. QED
    BY <1>44, <2>1
    DEF TypeOK, KeyExpires, OldSocket, NoPlayer, client, locks, Player,
        Session, Cause
<1>45. ASSUME NEW s \in Human, GetToken(s) PROVE TypeOK'
  <2>1. JobsOK'
    BY <1>45
    DEF TypeOK, GetToken, JobsOK, At
  <2>2. QED
    BY <1>45, <2>1
    DEF TypeOK, GetToken, Generate, store, client, locks, Player, Session,
        Cause
<1>46. ASSUME NEW j \in JobId, NEW s \in Human, NEW b \in Bot, AddBot(j, s, b)
      PROVE  TypeOK'
  <2>1. asked' \in 0 .. MaxRequests
    BY <1>46 DEF TypeOK, AddBot, Asks
  <2>2. members' \subseteq Session /\ player' \in [Session -> Player]
    BY <1>46 DEF TypeOK, AddBot, NewPlayer, Player, Session
  <2>3. UNCHANGED <<host, client, mapped, entry, tokens, locks, rooms, causes, jobs>>
    BY <1>46 DEF AddBot
  <2>4. QED BY <2>1, <2>2, <2>3 DEF TypeOK, JobsOK, At, client, tokens, locks
<1>47. ASSUME RefreshTTL PROVE TypeOK'
  <2>1. JobsOK'
    BY <1>47
    DEF TypeOK, RefreshTTL, JobsOK, At
  <2>2. player' \in [Session -> Player]
    BY <1>47, <2>1, RecordType
    DEF TypeOK, RefreshTTL
  <2>3. QED
    BY <1>47, <2>1, <2>2
    DEF TypeOK, RefreshTTL, Session, client, tokens, locks, Player, Cause
<1>48. CASE UNCHANGED vars
  BY <1>48 DEF TypeOK, JobsOK, At, vars, store, client, tokens, locks
<1>49. QED
    BY <1>1, <1>2, <1>3, <1>4, <1>5, <1>6, <1>7, <1>8, <1>9, <1>10, <1>11, <1>12, <1>13,
     <1>14, <1>15, <1>16, <1>17, <1>18, <1>19, <1>20, <1>21, <1>22, <1>23, <1>24, <1>24a,
     <1>24b, <1>25, <1>26, <1>27, <1>28, <1>29, <1>30, <1>31, <1>32, <1>33, <1>33a, <1>34,
     <1>35, <1>36, <1>37,
     <1>38, <1>39, <1>40, <1>41, <1>42, <1>43, <1>44, <1>45, <1>46, <1>47, <1>48 DEF Next,
     JobStep, Ask

\* Room records, handlers, tokens and sockets keep their types, for any number of people, bots and handlers.
THEOREM TypeIsRight == Spec => []TypeOK
<1>1. TypeOK /\ [Next]_vars => TypeOK' BY NextType
<1>2. QED BY <1>1, InitType, PTL DEF Spec

-----------------------------------------------------------------------------
(* A token lets one socket in: what is issued covers the tokens used up and  *)
(* the one that is out.  Steps take a token away, make one, or use one.      *)

LEMMA TokensTaken ==
  ASSUME TypeOK, TokenAdmitsOnce, \A s \in Human : token'[s] \in {0, token[s]},
         UNCHANGED <<issued, admitted>>
  PROVE  TokenAdmitsOnce'
BY DEF TypeOK, TokenAdmitsOnce

LEMMA TokenMade ==
  ASSUME TypeOK, TokenAdmitsOnce, NEW s \in Human, Generate(s), UNCHANGED admitted
  PROVE  TokenAdmitsOnce'
BY DEF TypeOK, TokenAdmitsOnce, Generate

LEMMA TokenUsed ==
  ASSUME TypeOK, TokenAdmitsOnce, NEW s \in Human, token[s] # 0,
         token' = [token EXCEPT ![s] = 0], admitted' = [admitted EXCEPT ![s] = @ + 1],
         UNCHANGED issued
  PROVE  TokenAdmitsOnce'
BY DEF TypeOK, TokenAdmitsOnce

LEMMA TokenStep == TypeOK /\ TokenAdmitsOnce /\ [Next]_vars => TokenAdmitsOnce'
<1> SUFFICES ASSUME TypeOK, TokenAdmitsOnce, [Next]_vars PROVE TokenAdmitsOnce'
  OBVIOUS
<1>1. ASSUME NEW j \in JobId, Rejoin(j) PROVE TokenAdmitsOnce'
  BY <1>1, TokensTaken
  DEF Rejoin, tokens
<1>2. ASSUME NEW j \in JobId, JoinScript(j) PROVE TokenAdmitsOnce'
  BY <1>2, TokensTaken
  DEF JoinScript, tokens
<1>3. ASSUME NEW j \in JobId, Recreate(j) PROVE TokenAdmitsOnce'
  BY <1>3, TokensTaken
  DEF Recreate, tokens
<1>4. ASSUME NEW j \in JobId, Joined(j) PROVE TokenAdmitsOnce'
  BY <1>4, TokensTaken
  DEF TypeOK, Joined
<1>5. ASSUME NEW j \in JobId, Consume(j) PROVE TokenAdmitsOnce'
  <2>1. jobs[j].s \in Human
    BY <1>5, HandlerType DEF Consume
  <2>2. QED BY <1>5, <2>1, TokenUsed, TokensTaken DEF Consume, tokens
<1>6. ASSUME NEW j \in JobId, Reenter(j) PROVE TokenAdmitsOnce'
  BY <1>6, TokensTaken
  DEF Reenter, tokens
<1>7. ASSUME NEW j \in JobId, Reentered(j) PROVE TokenAdmitsOnce'
  <2>1. jobs[j].s \in Human
    BY <1>7, HandlerType DEF Reentered
  <2>2. QED BY <1>7, <2>1, TokenMade, TokensTaken DEF Reentered, tokens
<1>8. ASSUME NEW j \in JobId, LeaveLock(j) PROVE TokenAdmitsOnce'
  BY <1>8, TokensTaken
  DEF LeaveLock, tokens
<1>9. ASSUME NEW j \in JobId, LeaveMove(j) PROVE TokenAdmitsOnce'
  BY <1>9, TokensTaken
  DEF LeaveMove, tokens
<1>10. ASSUME NEW j \in JobId, LeaveForce(j) PROVE TokenAdmitsOnce'
  BY <1>10, TokensTaken
  DEF LeaveForce, tokens
<1>11. ASSUME NEW j \in JobId, LeaveFlag(j) PROVE TokenAdmitsOnce'
  BY <1>11, TokensTaken
  DEF LeaveFlag, tokens
<1>12. ASSUME NEW j \in JobId, LeaveRemove(j) PROVE TokenAdmitsOnce'
  BY <1>12, TokensTaken
  DEF TypeOK, LeaveRemove
<1>13. ASSUME NEW j \in JobId, LeaveCount(j) PROVE TokenAdmitsOnce'
  BY <1>13, TokensTaken
  DEF LeaveCount, tokens
<1>14. ASSUME NEW j \in JobId, Raze(j) PROVE TokenAdmitsOnce'
  BY <1>14, TokensTaken
  DEF Raze, tokens
<1>15. ASSUME NEW j \in JobId, RazeDelete(j) PROVE TokenAdmitsOnce'
  BY <1>15, TokensTaken
  DEF TypeOK, RazeDelete
<1>16. ASSUME NEW j \in JobId, KickRemove(j) PROVE TokenAdmitsOnce'
  BY <1>16, TokensTaken
  DEF TypeOK, KickRemove
<1>17. ASSUME NEW j \in JobId, Repair(j) PROVE TokenAdmitsOnce'
  BY <1>17, TokensTaken
  DEF Repair, tokens
<1>18. ASSUME NEW j \in JobId, RepairLock(j) PROVE TokenAdmitsOnce'
  BY <1>18, TokensTaken
  DEF RepairLock, tokens
<1>19. ASSUME NEW j \in JobId, RepairReread(j) PROVE TokenAdmitsOnce'
  BY <1>19, TokensTaken
  DEF RepairReread, tokens
<1>20. ASSUME NEW j \in JobId, RepairWrite(j) PROVE TokenAdmitsOnce'
  BY <1>20, TokensTaken
  DEF RepairWrite, tokens
<1>21. ASSUME NEW j \in JobId, RepairFlag(j) PROVE TokenAdmitsOnce'
  BY <1>21, TokensTaken
  DEF RepairFlag, tokens
<1>22. ASSUME NEW j \in JobId, RepairClear(j) PROVE TokenAdmitsOnce'
  BY <1>22, TokensTaken
  DEF RepairClear, tokens
<1>23. ASSUME NEW j \in JobId, FreeHostLock(j) PROVE TokenAdmitsOnce'
  BY <1>23, TokensTaken
  DEF FreeHostLock, tokens
<1>24. ASSUME NEW j \in JobId, Drop(j) PROVE TokenAdmitsOnce'
  BY <1>24, TokensTaken
  DEF Drop, tokens
<1>24a. ASSUME NEW j \in JobId, DropOwner(j) PROVE TokenAdmitsOnce'
  BY <1>24a, TokensTaken
  DEF DropOwner, tokens
<1>24b. ASSUME NEW j \in JobId, DropToken(j) PROVE TokenAdmitsOnce'
  <2>1. jobs[j].s \in Human
    BY <1>24b, HandlerType DEF DropToken
  <2>2. QED BY <1>24b, <2>1, TokenMade, TokensTaken DEF DropToken
<1>25. ASSUME NEW j \in JobId, DropCheck(j) PROVE TokenAdmitsOnce'
  BY <1>25, TokensTaken
  DEF DropCheck, tokens
<1>26. ASSUME NEW j \in JobId, DropMark(j) PROVE TokenAdmitsOnce'
  BY <1>26, TokensTaken
  DEF DropMark, tokens
<1>27. ASSUME NEW j \in JobId, DropPlan(j) PROVE TokenAdmitsOnce'
  BY <1>27, TokensTaken
  DEF DropPlan, tokens
<1>28. ASSUME NEW j \in JobId, DropShorten(j) PROVE TokenAdmitsOnce'
  BY <1>28, TokensTaken
  DEF DropShorten, tokens
<1>29. ASSUME NEW j \in JobId, DropLock(j) PROVE TokenAdmitsOnce'
  BY <1>29, TokensTaken
  DEF DropLock, tokens
<1>30. ASSUME NEW j \in JobId, DropRecheck(j) PROVE TokenAdmitsOnce'
  BY <1>30, TokensTaken
  DEF DropRecheck, tokens
<1>31. ASSUME NEW j \in JobId, DropTransfer(j) PROVE TokenAdmitsOnce'
  BY <1>31, TokensTaken
  DEF DropTransfer, tokens
<1>32. ASSUME NEW j \in JobId, Sweep(j) PROVE TokenAdmitsOnce'
  BY <1>32, TokensTaken
  DEF TypeOK, Sweep, store
<1>33. ASSUME NEW j \in JobId, SweepCount(j) PROVE TokenAdmitsOnce'
  BY <1>33, TokensTaken
  DEF SweepCount, tokens
<1>33a. ASSUME NEW j \in JobId, SweepFails(j) PROVE TokenAdmitsOnce'
  BY <1>33a, TokensTaken
  DEF SweepFails, tokens
<1>34. ASSUME NEW j \in JobId, NEW s \in Human, CreateRoom(j, s) PROVE TokenAdmitsOnce'
  BY <1>34, TokensTaken
  DEF CreateRoom, tokens
<1>35. ASSUME NEW j \in JobId, NEW s \in Human, StartJoin(j, s) PROVE TokenAdmitsOnce'
  BY <1>35, TokensTaken
  DEF StartJoin, tokens
<1>36. ASSUME NEW j \in JobId, NEW s \in Human, StartReconnect(j, s) PROVE TokenAdmitsOnce'
  BY <1>36, TokensTaken
  DEF StartReconnect, tokens
<1>37. ASSUME NEW j \in JobId, NEW s \in Human, StartLeave(j, s) PROVE TokenAdmitsOnce'
  BY <1>37, TokensTaken
  DEF TypeOK, StartLeave
<1>38. ASSUME NEW j \in JobId, NEW s \in Human, StartResync(j, s) PROVE TokenAdmitsOnce'
  BY <1>38, TokensTaken
  DEF StartResync, tokens
<1>39. ASSUME NEW j \in JobId, NEW s \in Human, StartSweep(j, s) PROVE TokenAdmitsOnce'
  BY <1>39, TokensTaken
  DEF StartSweep, tokens
<1>40. ASSUME NEW j \in JobId, NEW s \in Human, NEW d \in JobId, NEW t \in Human, StartKick(j, d, s, t) PROVE TokenAdmitsOnce'
  BY <1>40, TokensTaken
  DEF StartKick, tokens
<1>41. ASSUME NEW j \in JobId, NEW s \in Human, NEW k \in 1 .. MaxSockets, SocketDrops(j, s, k) PROVE TokenAdmitsOnce'
  BY <1>41, TokensTaken
  DEF SocketDrops, tokens
<1>42. ASSUME NEW s \in Human, Handshake(s) PROVE TokenAdmitsOnce'
  BY <1>42, TokensTaken
  DEF Handshake, tokens
<1>43. ASSUME NEW s \in Human, GraceEnds(s) PROVE TokenAdmitsOnce'
  BY <1>43, TokensTaken
  DEF GraceEnds, tokens
<1>44. ASSUME NEW s \in Human, KeyExpires(s) PROVE TokenAdmitsOnce'
  BY <1>44, TokensTaken
  DEF TypeOK, KeyExpires
<1>45. ASSUME NEW s \in Human, GetToken(s) PROVE TokenAdmitsOnce'
  BY <1>45, TokenMade DEF GetToken
<1>46. ASSUME NEW j \in JobId, NEW s \in Human, NEW b \in Bot, AddBot(j, s, b)
      PROVE  TokenAdmitsOnce'
  BY <1>46, TokensTaken
  DEF AddBot, tokens
<1>47. ASSUME RefreshTTL PROVE TokenAdmitsOnce'
  BY <1>47, TokensTaken
  DEF RefreshTTL, tokens
<1>48. CASE UNCHANGED vars
  BY <1>48, TokensTaken DEF vars
<1>49. QED
  BY <1>1, <1>2, <1>3, <1>4, <1>5, <1>6, <1>7, <1>8, <1>9, <1>10, <1>11,
     <1>12, <1>13, <1>14, <1>15, <1>16, <1>17, <1>18, <1>19, <1>20, <1>21,
     <1>22, <1>23, <1>24, <1>24a, <1>24b, <1>25, <1>26, <1>27, <1>28, <1>29, <1>30,
     <1>31, <1>32, <1>33, <1>33a, <1>34, <1>35, <1>36, <1>37, <1>38, <1>39, <1>40,
     <1>41, <1>42, <1>43, <1>44, <1>45, <1>46, <1>47, <1>48
  DEF Next, JobStep, Ask

\* No token is used twice, whatever requests and handlers cross.
THEOREM TokensAdmitOnce == Spec => []TokenAdmitsOnce
<1>1. Init => TokenAdmitsOnce
  BY DEF Init, TokenAdmitsOnce
<1>2. TypeOK /\ TokenAdmitsOnce /\ [Next]_vars => TokenAdmitsOnce'
  BY TokenStep
<1>3. QED BY <1>1, <1>2, TypeIsRight, PTL DEF Spec

-----------------------------------------------------------------------------
(* A disconnected player is on the schedule.  Five steps bear on it; every   *)
(* other one marks nobody, takes no entry and leaves the handlers alone that *)
(* are about to write an entry or to remove the player.                      *)

Answers(i) == jobs[i].at \in {"plan", "sweep"}

NobodyMarked == \A p \in Human :
  player'[p].here /\ ~player'[p].connected => player[p].here /\ ~player[p].connected
EntriesKept  == \A p \in Human : entry[p] # "none" => entry'[p] # "none"
AnswersKept  == \A i \in JobId : Answers(i) => jobs'[i] = jobs[i]
Kept == NobodyMarked /\ EntriesKept /\ AnswersKept /\ causes \subseteq causes'

LEMMA KeptIsEnough == ASSUME NobodyLingers, Kept PROVE NobodyLingers'
BY DEF NobodyLingers, Kept, NobodyMarked, EntriesKept, AnswersKept, Answers

LEMMA GoKeeps ==
  ASSUME JobsOK, NEW j \in JobId, NEW step, ~Answers(j), Go(j, step) PROVE AnswersKept
BY DEF JobsOK, Go, AnswersKept, Answers

LEMMA NoteKeeps ==
  ASSUME JobsOK, NEW j \in JobId, NEW r, ~Answers(j), jobs' = [jobs EXCEPT ![j] = r]
  PROVE  AnswersKept
BY DEF JobsOK, AnswersKept, Answers

LEMMA AfterHostKeeps ==
  ASSUME JobsOK, NEW j \in JobId, ~Answers(j), AfterHost(j) PROVE AnswersKept
BY GoKeeps, NoteKeeps DEF AfterHost, End

LEMMA WritesMarkNobody ==
  ASSUME TypeOK, NEW s \in Session, NEW r,
         player' = [player EXCEPT ![s] = r],
         (r.here /\ ~r.connected) => (player[s].here /\ ~player[s].connected)
  PROVE  NobodyMarked
BY DEF TypeOK, NobodyMarked

LEMMA FlagMarksNobody ==
  ASSUME TypeOK, NEW s, NEW flag, SetHostFlag(s, flag)
  PROVE  NobodyMarked
<1>1. CASE s \in Session
  BY <1>1, WritesMarkNobody DEF SetHostFlag, TypeOK, Player
<1>2. CASE s \notin Session
  BY <1>2 DEF SetHostFlag, TypeOK, NobodyMarked
<1>3. QED BY <1>1, <1>2

LEMMA TransferMarksNobody ==
  ASSUME TypeOK, NEW a \in Session, NEW b \in Session, Transfer(a, b)
  PROVE  NobodyMarked
<1>1. \A p \in Session :
        player'[p].here = player[p].here /\ player'[p].connected = player[p].connected
  BY DEF Transfer, TypeOK, Player
<1>2. QED BY <1>1 DEF NobodyMarked, Session

LEMMA KeptStep ==
  ASSUME TypeOK, [Next]_vars
  PROVE  \/ Kept
         \/ \E j \in JobId : DropMark(j) \/ DropPlan(j) \/ Sweep(j) \/ SweepFails(j)
         \/ \E j \in JobId, s \in Human : StartSweep(j, s)
<1> JobsOK
  BY DEF TypeOK
<1>1. ASSUME NEW j \in JobId, Rejoin(j) PROVE Kept
  <2>1. AnswersKept
    BY <1>1, GoKeeps, NoteKeeps
    DEF Rejoin, At, Answers, End
  <2>2. NobodyMarked
    <3>1. jobs[j].s \in Session
      BY <1>1, HandlerType DEF Rejoin, Session
    <3>2. CASE player[jobs[j].s].here
      <4> DEFINE r == [player[jobs[j].s] EXCEPT !.connected = TRUE, !.brief = FALSE]
      <4>1. player' = [player EXCEPT ![jobs[j].s] = r] /\ r.connected
        BY <1>1, <3>1, <3>2 DEF Rejoin, TypeOK, Player
      <4> HIDE DEF r
      <4>2. QED BY <3>1, <4>1, WritesMarkNobody
    <3>3. CASE ~player[jobs[j].s].here
      BY <1>1, <3>3 DEF Rejoin, NobodyMarked
    <3>4. QED BY <3>2, <3>3
  <2>3. EntriesKept /\ causes \subseteq causes'
    BY <1>1
    DEF TypeOK, Rejoin, EntriesKept
  <2>4. QED BY <2>1, <2>2, <2>3 DEF Kept
<1>2. ASSUME NEW j \in JobId, JoinScript(j) PROVE Kept
  <2>1. AnswersKept
    BY <1>2, GoKeeps, NoteKeeps
    DEF JoinScript, At, Answers, End
  <2>2. NobodyMarked
    <3>1. jobs[j].s \in Session /\ NewPlayer(FALSE).connected
      BY <1>2, HandlerType DEF JoinScript, Session, NewPlayer
    <3>2. \/ player' = [player EXCEPT ![jobs[j].s] = NewPlayer(FALSE)]
          \/ UNCHANGED player
      BY <1>2 DEF JoinScript
    <3>3. QED BY <3>1, <3>2, WritesMarkNobody DEF NobodyMarked
  <2>3. EntriesKept /\ causes \subseteq causes'
    BY <1>2
    DEF TypeOK, JoinScript, EntriesKept
  <2>4. QED BY <2>1, <2>2, <2>3 DEF Kept
<1>3. ASSUME NEW j \in JobId, Recreate(j) PROVE Kept
  <2>1. AnswersKept
    BY <1>3, GoKeeps, NoteKeeps
    DEF Recreate, At, Answers
  <2>2. NobodyMarked
    BY <1>3
    DEF TypeOK, Recreate, NobodyMarked, NewPlayer, Session, Player
  <2>3. EntriesKept /\ causes \subseteq causes'
    BY <1>3
    DEF TypeOK, Recreate, EntriesKept
  <2>4. QED BY <2>1, <2>2, <2>3 DEF Kept
<1>4. ASSUME NEW j \in JobId, Joined(j) PROVE Kept
  <2>1. AnswersKept
    BY <1>4, NoteKeeps
    DEF Joined, At, Answers, End
  <2>2. NobodyMarked
    BY <1>4
    DEF TypeOK, Joined, NobodyMarked, store, Session, Player
  <2>3. EntriesKept /\ causes \subseteq causes'
    BY <1>4
    DEF TypeOK, Joined, EntriesKept
  <2>4. QED BY <2>1, <2>2, <2>3 DEF Kept
<1>5. ASSUME NEW j \in JobId, Consume(j) PROVE Kept
  <2>1. AnswersKept
    BY <1>5, GoKeeps, NoteKeeps
    DEF Consume, At, Answers, End
  <2>2. NobodyMarked
    BY <1>5
    DEF TypeOK, Consume, NobodyMarked, store, Session, Player
  <2>3. EntriesKept /\ causes \subseteq causes'
    BY <1>5
    DEF TypeOK, Consume, EntriesKept
  <2>4. QED BY <2>1, <2>2, <2>3 DEF Kept
<1>6. ASSUME NEW j \in JobId, Reenter(j) PROVE Kept
  <2>1. AnswersKept
    BY <1>6, GoKeeps, NoteKeeps
    DEF Reenter, At, Answers, End
  <2>2. NobodyMarked
    <3>1. jobs[j].s \in Session
      BY <1>6, HandlerType DEF Reenter, Session
    <3>2. CASE player[jobs[j].s].here
      <4> DEFINE r == [player[jobs[j].s] EXCEPT !.connected = TRUE, !.brief = FALSE]
      <4>1. player' = [player EXCEPT ![jobs[j].s] = r] /\ r.connected
        BY <1>6, <3>1, <3>2 DEF Reenter, TypeOK, Player
      <4> HIDE DEF r
      <4>2. QED BY <3>1, <4>1, WritesMarkNobody
    <3>3. CASE ~player[jobs[j].s].here
      BY <1>6, <3>3 DEF Reenter, NobodyMarked
    <3>4. QED BY <3>2, <3>3
  <2>3. EntriesKept /\ causes \subseteq causes'
    BY <1>6
    DEF TypeOK, Reenter, EntriesKept
  <2>4. QED BY <2>1, <2>2, <2>3 DEF Kept
<1>7. ASSUME NEW j \in JobId, Reentered(j) PROVE Kept
  <2>1. AnswersKept
    BY <1>7, NoteKeeps
    DEF Reentered, At, Answers, End
  <2>2. NobodyMarked
    BY <1>7
    DEF TypeOK, Reentered, NobodyMarked, Session, Player
  <2>3. EntriesKept /\ causes \subseteq causes'
    BY <1>7
    DEF TypeOK, Reentered, EntriesKept
  <2>4. QED BY <2>1, <2>2, <2>3 DEF Kept
<1>8. ASSUME NEW j \in JobId, LeaveLock(j) PROVE Kept
  <2>1. AnswersKept
    BY <1>8, GoKeeps, NoteKeeps
    DEF LeaveLock, At, Answers
  <2>2. NobodyMarked
    BY <1>8
    DEF TypeOK, LeaveLock, NobodyMarked, store, Session, Player
  <2>3. EntriesKept /\ causes \subseteq causes'
    BY <1>8
    DEF TypeOK, LeaveLock, EntriesKept
  <2>4. QED BY <2>1, <2>2, <2>3 DEF Kept
<1>9. ASSUME NEW j \in JobId, LeaveMove(j) PROVE Kept
  <2>1. AnswersKept
    BY <1>9, GoKeeps, NoteKeeps
    DEF LeaveMove, At, Answers
  <2>2. NobodyMarked
    <3>1. CASE MayTransfer(jobs[j].s, jobs[j].other)
      <4>1. jobs[j].s \in Session /\ jobs[j].other \in Session
        BY <1>9, <3>1, HandlerType DEF LeaveMove, MayTransfer, IsHere, Job, Session
      <4>2. QED BY <1>9, <3>1, <4>1, TransferMarksNobody DEF LeaveMove
    <3>2. CASE ~MayTransfer(jobs[j].s, jobs[j].other)
      BY <1>9, <3>2 DEF LeaveMove, store, NobodyMarked
    <3>3. QED BY <3>1, <3>2
  <2>3. EntriesKept /\ causes \subseteq causes'
    BY <1>9
    DEF TypeOK, LeaveMove, EntriesKept, Transfer
  <2>4. QED BY <2>1, <2>2, <2>3 DEF Kept
<1>10. ASSUME NEW j \in JobId, LeaveForce(j) PROVE Kept
  <2>1. AnswersKept
    BY <1>10, GoKeeps, NoteKeeps
    DEF LeaveForce, At, Answers
  <2>2. NobodyMarked
    BY <1>10
    DEF TypeOK, LeaveForce, NobodyMarked, WriteHost, Session, Player
  <2>3. EntriesKept /\ causes \subseteq causes'
    BY <1>10
    DEF TypeOK, LeaveForce, EntriesKept, WriteHost
  <2>4. QED BY <2>1, <2>2, <2>3 DEF Kept
<1>11. ASSUME NEW j \in JobId, LeaveFlag(j) PROVE Kept
  <2>1. AnswersKept
    BY <1>11, GoKeeps, NoteKeeps
    DEF LeaveFlag, At, Answers
  <2>2. NobodyMarked
    <3>1. \/ SetHostFlag(jobs[j].other, TRUE)
          \/ UNCHANGED player
      BY <1>11 DEF LeaveFlag, store
    <3>2. QED BY <3>1, FlagMarksNobody DEF NobodyMarked
  <2>3. EntriesKept /\ causes \subseteq causes'
    BY <1>11
    DEF TypeOK, LeaveFlag, EntriesKept
  <2>4. QED BY <2>1, <2>2, <2>3 DEF Kept
<1>12. ASSUME NEW j \in JobId, LeaveRemove(j) PROVE Kept
  <2>1. AnswersKept
    BY <1>12, GoKeeps, NoteKeeps
    DEF LeaveRemove, At, Answers, End
  <2>2. NobodyMarked
    BY <1>12
    DEF TypeOK, LeaveRemove, NobodyMarked, Remove, NoPlayer, Session, Player
  <2>3. EntriesKept /\ causes \subseteq causes'
    BY <1>12
    DEF TypeOK, LeaveRemove, EntriesKept
  <2>4. QED BY <2>1, <2>2, <2>3 DEF Kept
<1>13. ASSUME NEW j \in JobId, LeaveCount(j) PROVE Kept
  <2>1. AnswersKept
    BY <1>13, GoKeeps, NoteKeeps
    DEF LeaveCount, At, Answers, End
  <2>2. NobodyMarked
    BY <1>13
    DEF TypeOK, LeaveCount, NobodyMarked, Session, Player
  <2>3. EntriesKept /\ causes \subseteq causes'
    BY <1>13
    DEF TypeOK, LeaveCount, EntriesKept
  <2>4. QED BY <2>1, <2>2, <2>3 DEF Kept
<1>14. ASSUME NEW j \in JobId, Raze(j) PROVE Kept
  <2>1. AnswersKept
    BY <1>14, NoteKeeps
    DEF Raze, At, Answers
  <2>2. NobodyMarked
    BY <1>14
    DEF TypeOK, Raze, NobodyMarked, store, Session, Player
  <2>3. EntriesKept /\ causes \subseteq causes'
    BY <1>14
    DEF TypeOK, Raze, EntriesKept
  <2>4. QED BY <2>1, <2>2, <2>3 DEF Kept
<1>15. ASSUME NEW j \in JobId, RazeDelete(j) PROVE Kept
  <2>1. AnswersKept
    BY <1>15, NoteKeeps
    DEF RazeDelete, At, Answers, End
  <2>2. NobodyMarked
    BY <1>15
    DEF TypeOK, RazeDelete, NobodyMarked, NoPlayer, Session, Player
  <2>3. EntriesKept /\ causes \subseteq causes'
    BY <1>15
    DEF TypeOK, RazeDelete, EntriesKept
  <2>4. QED BY <2>1, <2>2, <2>3 DEF Kept
<1>16. ASSUME NEW j \in JobId, KickRemove(j) PROVE Kept
  <2>1. AnswersKept
    BY <1>16, NoteKeeps
    DEF KickRemove, At, Answers, End
  <2>2. NobodyMarked
    BY <1>16
    DEF TypeOK, KickRemove, NobodyMarked, Remove, NoPlayer, Session, Player
  <2>3. EntriesKept /\ causes \subseteq causes'
    BY <1>16
    DEF TypeOK, KickRemove, EntriesKept
  <2>4. QED BY <2>1, <2>2, <2>3 DEF Kept
<1>17. ASSUME NEW j \in JobId, Repair(j) PROVE Kept
  <2>1. AnswersKept
    BY <1>17, GoKeeps, AfterHostKeeps, NoteKeeps
    DEF Repair, At, Answers, End
  <2>2. NobodyMarked
    BY <1>17
    DEF TypeOK, Repair, NobodyMarked, Session, Player
  <2>3. EntriesKept /\ causes \subseteq causes'
    BY <1>17
    DEF TypeOK, Repair, EntriesKept
  <2>4. QED BY <2>1, <2>2, <2>3 DEF Kept
<1>18. ASSUME NEW j \in JobId, RepairLock(j) PROVE Kept
  <2>1. AnswersKept
    BY <1>18, GoKeeps, AfterHostKeeps, NoteKeeps
    DEF RepairLock, At, Answers, End
  <2>2. NobodyMarked
    BY <1>18
    DEF TypeOK, RepairLock, NobodyMarked, store, Session, Player
  <2>3. EntriesKept /\ causes \subseteq causes'
    BY <1>18
    DEF TypeOK, RepairLock, EntriesKept
  <2>4. QED BY <2>1, <2>2, <2>3 DEF Kept
<1>19. ASSUME NEW j \in JobId, RepairReread(j) PROVE Kept
  <2>1. AnswersKept
    BY <1>19, GoKeeps, NoteKeeps
    DEF RepairReread, At, Answers
  <2>2. NobodyMarked
    BY <1>19
    DEF TypeOK, RepairReread, NobodyMarked, store, Session, Player
  <2>3. EntriesKept /\ causes \subseteq causes'
    BY <1>19
    DEF TypeOK, RepairReread, EntriesKept
  <2>4. QED BY <2>1, <2>2, <2>3 DEF Kept
<1>20. ASSUME NEW j \in JobId, RepairWrite(j) PROVE Kept
  <2>1. AnswersKept
    BY <1>20, GoKeeps, NoteKeeps
    DEF RepairWrite, At, Answers
  <2>2. NobodyMarked
    BY <1>20
    DEF TypeOK, RepairWrite, NobodyMarked, WriteHost, Session, Player
  <2>3. EntriesKept /\ causes \subseteq causes'
    BY <1>20
    DEF TypeOK, RepairWrite, EntriesKept, WriteHost
  <2>4. QED BY <2>1, <2>2, <2>3 DEF Kept
<1>21. ASSUME NEW j \in JobId, RepairFlag(j) PROVE Kept
  <2>1. AnswersKept
    BY <1>21, GoKeeps, NoteKeeps
    DEF RepairFlag, At, Answers
  <2>2. NobodyMarked
    <3>1. \/ SetHostFlag(jobs[j].other, TRUE)
          \/ UNCHANGED player
      BY <1>21 DEF RepairFlag, store
    <3>2. QED BY <3>1, FlagMarksNobody DEF NobodyMarked
  <2>3. EntriesKept /\ causes \subseteq causes'
    BY <1>21
    DEF TypeOK, RepairFlag, EntriesKept
  <2>4. QED BY <2>1, <2>2, <2>3 DEF Kept
<1>22. ASSUME NEW j \in JobId, RepairClear(j) PROVE Kept
  <2>1. AnswersKept
    BY <1>22, GoKeeps, NoteKeeps
    DEF RepairClear, At, Answers
  <2>2. NobodyMarked
    BY <1>22
    DEF TypeOK, RepairClear, NobodyMarked, Session, Player
  <2>3. EntriesKept /\ causes \subseteq causes'
    BY <1>22
    DEF TypeOK, RepairClear, EntriesKept
  <2>4. QED BY <2>1, <2>2, <2>3 DEF Kept
<1>23. ASSUME NEW j \in JobId, FreeHostLock(j) PROVE Kept
  <2>1. AnswersKept
    BY <1>23, GoKeeps, AfterHostKeeps, NoteKeeps
    DEF FreeHostLock, At, Answers, End
  <2>2. NobodyMarked
    BY <1>23
    DEF TypeOK, FreeHostLock, NobodyMarked, store, Session, Player
  <2>3. EntriesKept /\ causes \subseteq causes'
    BY <1>23
    DEF TypeOK, FreeHostLock, EntriesKept
  <2>4. QED BY <2>1, <2>2, <2>3 DEF Kept
<1>24. ASSUME NEW j \in JobId, Drop(j) PROVE Kept
  <2>1. AnswersKept
    BY <1>24, NoteKeeps
    DEF Drop, At, Answers, End
  <2>2. NobodyMarked
    BY <1>24
    DEF TypeOK, Drop, NobodyMarked, store, Session, Player
  <2>3. EntriesKept /\ causes \subseteq causes'
    BY <1>24
    DEF TypeOK, Drop, EntriesKept
  <2>4. QED BY <2>1, <2>2, <2>3 DEF Kept
<1>24a. ASSUME NEW j \in JobId, DropOwner(j) PROVE Kept
  <2>1. AnswersKept
    BY <1>24a, GoKeeps, NoteKeeps
    DEF DropOwner, At, Answers, End
  <2>2. NobodyMarked
    BY <1>24a
    DEF TypeOK, DropOwner, NobodyMarked, store, Session, Player
  <2>3. EntriesKept /\ causes \subseteq causes'
    BY <1>24a
    DEF TypeOK, DropOwner, EntriesKept
  <2>4. QED BY <2>1, <2>2, <2>3 DEF Kept
<1>24b. ASSUME NEW j \in JobId, DropToken(j) PROVE Kept
  <2>1. AnswersKept
    BY <1>24b, GoKeeps
    DEF DropToken, At, Answers
  <2>2. NobodyMarked
    BY <1>24b
    DEF TypeOK, DropToken, NobodyMarked, store, Session, Player
  <2>3. EntriesKept /\ causes \subseteq causes'
    BY <1>24b
    DEF TypeOK, DropToken, EntriesKept
  <2>4. QED BY <2>1, <2>2, <2>3 DEF Kept
<1>25. ASSUME NEW j \in JobId, DropCheck(j) PROVE Kept
  <2>1. AnswersKept
    BY <1>25, GoKeeps, NoteKeeps
    DEF DropCheck, At, Answers, End
  <2>2. NobodyMarked
    BY <1>25
    DEF TypeOK, DropCheck, NobodyMarked, store, Session, Player
  <2>3. EntriesKept /\ causes \subseteq causes'
    BY <1>25
    DEF TypeOK, DropCheck, EntriesKept
  <2>4. QED BY <2>1, <2>2, <2>3 DEF Kept
<1>26. ASSUME NEW j \in JobId, DropShorten(j) PROVE Kept
  <2>1. AnswersKept
    BY <1>26, GoKeeps, NoteKeeps
    DEF DropShorten, At, Answers, End
  <2>2. NobodyMarked
    BY <1>26
    DEF TypeOK, DropShorten, NobodyMarked, Session, Player
  <2>3. EntriesKept /\ causes \subseteq causes'
    BY <1>26
    DEF TypeOK, DropShorten, EntriesKept
  <2>4. QED BY <2>1, <2>2, <2>3 DEF Kept
<1>27. ASSUME NEW j \in JobId, DropLock(j) PROVE Kept
  <2>1. AnswersKept
    BY <1>27, GoKeeps, NoteKeeps
    DEF DropLock, At, Answers, End
  <2>2. NobodyMarked
    BY <1>27
    DEF TypeOK, DropLock, NobodyMarked, store, Session, Player
  <2>3. EntriesKept /\ causes \subseteq causes'
    BY <1>27
    DEF TypeOK, DropLock, EntriesKept
  <2>4. QED BY <2>1, <2>2, <2>3 DEF Kept
<1>28. ASSUME NEW j \in JobId, DropRecheck(j) PROVE Kept
  <2>1. AnswersKept
    BY <1>28, GoKeeps, NoteKeeps
    DEF DropRecheck, At, Answers
  <2>2. NobodyMarked
    BY <1>28
    DEF TypeOK, DropRecheck, NobodyMarked, Session, Player
  <2>3. EntriesKept /\ causes \subseteq causes'
    BY <1>28
    DEF TypeOK, DropRecheck, EntriesKept
  <2>4. QED BY <2>1, <2>2, <2>3 DEF Kept
<1>29. ASSUME NEW j \in JobId, DropTransfer(j) PROVE Kept
  <2>1. AnswersKept
    BY <1>29, GoKeeps, NoteKeeps
    DEF DropTransfer, At, Answers
  <2>2. NobodyMarked
    <3>1. CASE MayTransfer(jobs[j].s, jobs[j].other)
      <4>1. jobs[j].s \in Session /\ jobs[j].other \in Session
        BY <1>29, <3>1, HandlerType DEF DropTransfer, MayTransfer, IsHere, Job, Session
      <4>2. QED BY <1>29, <3>1, <4>1, TransferMarksNobody DEF DropTransfer
    <3>2. CASE ~MayTransfer(jobs[j].s, jobs[j].other)
      BY <1>29, <3>2 DEF DropTransfer, store, NobodyMarked
    <3>3. QED BY <3>1, <3>2
  <2>3. EntriesKept /\ causes \subseteq causes'
    BY <1>29
    DEF TypeOK, DropTransfer, EntriesKept, Transfer
  <2>4. QED BY <2>1, <2>2, <2>3 DEF Kept
<1>30. ASSUME NEW j \in JobId, SweepCount(j) PROVE Kept
  <2>1. AnswersKept
    BY <1>30, GoKeeps, NoteKeeps
    DEF SweepCount, At, Answers, End
  <2>2. NobodyMarked
    BY <1>30
    DEF TypeOK, SweepCount, NobodyMarked, Session, Player
  <2>3. EntriesKept /\ causes \subseteq causes'
    BY <1>30
    DEF TypeOK, SweepCount, EntriesKept
  <2>4. QED BY <2>1, <2>2, <2>3 DEF Kept
<1>31. ASSUME NEW j \in JobId, NEW s \in Human, CreateRoom(j, s) PROVE Kept
  <2>1. AnswersKept
    BY <1>31
    DEF CreateRoom, AnswersKept
  <2>2. NobodyMarked
    BY <1>31
    DEF TypeOK, CreateRoom, NobodyMarked, NewPlayer, Session, Player
  <2>3. EntriesKept /\ causes \subseteq causes'
    BY <1>31
    DEF TypeOK, CreateRoom, EntriesKept
  <2>4. QED BY <2>1, <2>2, <2>3 DEF Kept
<1>32. ASSUME NEW j \in JobId, NEW s \in Human, StartJoin(j, s) PROVE Kept
  <2>1. AnswersKept
    BY <1>32, NoteKeeps
    DEF StartJoin, At, Answers, MayAsk, Asks
  <2>2. NobodyMarked
    BY <1>32
    DEF TypeOK, StartJoin, NobodyMarked, store, Session, Player
  <2>3. EntriesKept /\ causes \subseteq causes'
    BY <1>32
    DEF TypeOK, StartJoin, EntriesKept
  <2>4. QED BY <2>1, <2>2, <2>3 DEF Kept
<1>33. ASSUME NEW j \in JobId, NEW s \in Human, StartReconnect(j, s) PROVE Kept
  <2>1. AnswersKept
    BY <1>33, NoteKeeps
    DEF StartReconnect, At, Answers, MayAsk, Asks
  <2>2. NobodyMarked
    BY <1>33
    DEF TypeOK, StartReconnect, NobodyMarked, store, Session, Player
  <2>3. EntriesKept /\ causes \subseteq causes'
    BY <1>33
    DEF TypeOK, StartReconnect, EntriesKept
  <2>4. QED BY <2>1, <2>2, <2>3 DEF Kept
<1>34. ASSUME NEW j \in JobId, NEW s \in Human, StartLeave(j, s) PROVE Kept
  <2>1. AnswersKept
    BY <1>34, NoteKeeps
    DEF StartLeave, At, Answers, MayAsk, Asks
  <2>2. NobodyMarked
    BY <1>34
    DEF TypeOK, StartLeave, NobodyMarked, Session, Player
  <2>3. EntriesKept /\ causes \subseteq causes'
    BY <1>34
    DEF TypeOK, StartLeave, EntriesKept
  <2>4. QED BY <2>1, <2>2, <2>3 DEF Kept
<1>35. ASSUME NEW j \in JobId, NEW s \in Human, StartResync(j, s) PROVE Kept
  <2>1. AnswersKept
    BY <1>35, NoteKeeps
    DEF StartResync, At, Answers, MayAsk, Asks
  <2>2. NobodyMarked
    BY <1>35
    DEF TypeOK, StartResync, NobodyMarked, store, Session, Player
  <2>3. EntriesKept /\ causes \subseteq causes'
    BY <1>35
    DEF TypeOK, StartResync, EntriesKept
  <2>4. QED BY <2>1, <2>2, <2>3 DEF Kept
<1>36. ASSUME NEW j \in JobId, NEW s \in Human, NEW d \in JobId, NEW t \in Human, StartKick(j, d, s, t) PROVE Kept
  <2>1. AnswersKept
    <3>1. ~Answers(j) /\ ~Answers(d)
      BY <1>36 DEF StartKick, Asks, MayAsk, At, Answers
    <3>2. \E q, r : \/ jobs' = [jobs EXCEPT ![j] = q, ![d] = r]
                  \/ jobs' = [jobs EXCEPT ![j] = q]
      BY <1>36 DEF StartKick
    <3>3. QED BY <3>1, <3>2 DEF AnswersKept, JobsOK
  <2>2. NobodyMarked
    BY <1>36
    DEF TypeOK, StartKick, NobodyMarked, store, Session, Player
  <2>3. EntriesKept /\ causes \subseteq causes'
    BY <1>36
    DEF TypeOK, StartKick, EntriesKept
  <2>4. QED BY <2>1, <2>2, <2>3 DEF Kept
<1>37. ASSUME NEW j \in JobId, NEW s \in Human, NEW k \in 1 .. MaxSockets, SocketDrops(j, s, k) PROVE Kept
  <2>1. AnswersKept
    BY <1>37, NoteKeeps
    DEF SocketDrops, At, Answers
  <2>2. NobodyMarked
    BY <1>37
    DEF TypeOK, SocketDrops, NobodyMarked, store, Session, Player
  <2>3. EntriesKept /\ causes \subseteq causes'
    BY <1>37
    DEF TypeOK, SocketDrops, EntriesKept
  <2>4. QED BY <2>1, <2>2, <2>3 DEF Kept
<1>38. ASSUME NEW s \in Human, Handshake(s) PROVE Kept
  <2>1. AnswersKept
    BY <1>38
    DEF Handshake, AnswersKept
  <2>2. NobodyMarked
    BY SMTT(30), <1>38
    DEF TypeOK, Handshake, NobodyMarked, Session, Player
  <2>3. EntriesKept /\ causes \subseteq causes'
    BY <1>38
    DEF TypeOK, Handshake, EntriesKept
  <2>4. QED BY <2>1, <2>2, <2>3 DEF Kept
<1>39. ASSUME NEW s \in Human, GraceEnds(s) PROVE Kept
  <2>1. AnswersKept
    BY <1>39
    DEF GraceEnds, AnswersKept
  <2>2. NobodyMarked
    BY <1>39
    DEF TypeOK, GraceEnds, NobodyMarked, store, Session, Player
  <2>3. EntriesKept /\ causes \subseteq causes'
    BY <1>39
    DEF TypeOK, GraceEnds, EntriesKept
  <2>4. QED BY <2>1, <2>2, <2>3 DEF Kept
<1>40. ASSUME NEW s \in Human, KeyExpires(s) PROVE Kept
  <2>1. AnswersKept
    BY <1>40
    DEF KeyExpires, AnswersKept
  <2>2. NobodyMarked
    BY <1>40
    DEF TypeOK, KeyExpires, NobodyMarked, NoPlayer, Session, Player
  <2>3. EntriesKept /\ causes \subseteq causes'
    BY <1>40
    DEF TypeOK, KeyExpires, EntriesKept
  <2>4. QED BY <2>1, <2>2, <2>3 DEF Kept
<1>41. ASSUME NEW s \in Human, GetToken(s) PROVE Kept
  <2>1. AnswersKept
    BY <1>41
    DEF GetToken, AnswersKept
  <2>2. NobodyMarked
    BY <1>41
    DEF TypeOK, GetToken, NobodyMarked, store, Session, Player
  <2>3. EntriesKept /\ causes \subseteq causes'
    BY <1>41
    DEF TypeOK, GetToken, EntriesKept
  <2>4. QED BY <2>1, <2>2, <2>3 DEF Kept
<1>42. ASSUME NEW j \in JobId, NEW s \in Human, NEW b \in Bot, AddBot(j, s, b)
      PROVE  Kept
  <2>1. AnswersKept
    BY <1>42
    DEF AddBot, AnswersKept
  <2>2. NobodyMarked
    BY <1>42
    DEF TypeOK, AddBot, NobodyMarked, NewPlayer, Session, Player
  <2>3. EntriesKept /\ causes \subseteq causes'
    BY <1>42
    DEF TypeOK, AddBot, EntriesKept
  <2>4. QED BY <2>1, <2>2, <2>3 DEF Kept
<1>43. ASSUME RefreshTTL PROVE Kept
  <2>1. AnswersKept
    BY <1>43
    DEF RefreshTTL, AnswersKept
  <2>2. NobodyMarked
    BY <1>43
    DEF TypeOK, RefreshTTL, NobodyMarked, Session, Player
  <2>3. EntriesKept /\ causes \subseteq causes'
    BY <1>43
    DEF TypeOK, RefreshTTL, EntriesKept
  <2>4. QED BY <2>1, <2>2, <2>3 DEF Kept
<1>44. CASE UNCHANGED vars
  BY <1>44 DEF vars, Kept, NobodyMarked, EntriesKept, AnswersKept
<1>45. QED
  BY <1>1, <1>2, <1>3, <1>4, <1>5, <1>6, <1>7, <1>8, <1>9, <1>10, <1>11,
     <1>12, <1>13, <1>14, <1>15, <1>16, <1>17, <1>18, <1>19, <1>20, <1>21,
     <1>22, <1>23, <1>24, <1>24a, <1>24b, <1>25, <1>26, <1>27, <1>28, <1>29, <1>30, <1>31,
     <1>32, <1>33, <1>34, <1>35, <1>36, <1>37, <1>38, <1>39, <1>40, <1>41,
     <1>42, <1>43, <1>44
  DEF Next, JobStep, Ask

LEMMA LingerStep == TypeOK /\ NobodyLingers /\ [Next]_vars => NobodyLingers'
<1> SUFFICES ASSUME TypeOK, NobodyLingers, [Next]_vars PROVE NobodyLingers'
  OBVIOUS
<1> USE DEF TypeOK, JobsOK
<1>1. ASSUME NEW j \in JobId, DropMark(j) PROVE NobodyLingers'
  <2>1. jobs[j].s \in Human
    BY <1>1, HandlerType DEF DropMark
  <2>2. UNCHANGED <<entry, causes>> /\ ~Answers(j)
    BY <1>1 DEF DropMark, At, Answers
  <2>3. CASE player[jobs[j].s].here
    <3>1. jobs' = [jobs EXCEPT ![j].at = "plan"]
      BY <1>1, <2>3 DEF DropMark, Go
    <3>2. \A p \in Human \ {jobs[j].s} : player'[p] = player[p]
      <4>1. \E r : player' = [player EXCEPT ![jobs[j].s] = r]
        BY <1>1, <2>3 DEF DropMark
      <4>2. QED BY <4>1 DEF Session
    <3>3. QED BY SMTT(30), <2>1, <2>2, <3>1, <3>2 DEF NobodyLingers, Answers, Job
  <2>4. CASE ~player[jobs[j].s].here
    <3>1. jobs' = [jobs EXCEPT ![j] = Idle] /\ player' = player
      BY <1>1, <2>4 DEF DropMark, End
    <3>2. QED BY <2>2, <3>1 DEF NobodyLingers, Answers
  <2>5. QED BY <2>3, <2>4
<1>2. ASSUME NEW j \in JobId, DropPlan(j) PROVE NobodyLingers'
  <2>1. UNCHANGED player /\ Go(j, "shorten") /\ At(j, "plan")
    BY <1>2 DEF DropPlan, store
  <2>2. CASE "unplanned" \in causes'
    BY <2>2 DEF NobodyLingers
  <2>3. CASE "unplanned" \notin causes'
    <3>1. entry' = [entry EXCEPT ![jobs[j].s] = "waiting"] /\ causes' = causes
      BY <1>2, <2>3 DEF DropPlan
    <3>2. QED BY <2>1, <3>1 DEF NobodyLingers, Go, At
  <2>4. QED BY <2>2, <2>3
<1>3. ASSUME NEW j \in JobId, Sweep(j) PROVE NobodyLingers'
  <2>1. jobs[j].s \in Human
    BY <1>3, HandlerType DEF Sweep
  <2>2. UNCHANGED <<entry, causes>> /\ At(j, "sweep")
    BY <1>3 DEF Sweep
  <2>3. /\ ~(player'[jobs[j].s].here /\ ~player'[jobs[j].s].connected)
        /\ \A p \in Human \ {jobs[j].s} : player'[p] = player[p]
    BY <1>3, <2>1 DEF Sweep, Remove, NoPlayer, store, Session
  <2>4. \A i \in JobId \ {j} : jobs'[i] = jobs[i]
    BY <1>3 DEF Sweep, Go, End
  <2>5. QED BY <2>1, <2>2, <2>3, <2>4 DEF NobodyLingers, At
<1>4. ASSUME NEW j \in JobId, NEW s \in Human, StartSweep(j, s) PROVE NobodyLingers'
  <2>1. /\ UNCHANGED <<player, causes>> /\ At(j, "idle")
        /\ entry' = [entry EXCEPT ![s] = "none"]
    BY <1>4 DEF StartSweep, store
  <2>2. /\ \A i \in JobId \ {j} : jobs'[i] = jobs[i]
        /\ jobs'[j].at = "sweep" /\ jobs'[j].s = s
    BY <1>4, BeginType DEF StartSweep, Begin, Idle
  <2>3. QED BY <2>1, <2>2 DEF NobodyLingers, At
<1>5. ASSUME NEW j \in JobId, SweepFails(j) PROVE NobodyLingers'
  <2>1. jobs[j].s \in Human /\ jobs' = [jobs EXCEPT ![j] = Idle] /\ entry' = entry
    BY <1>5, HandlerType DEF SweepFails, End, At
  <2>2. \A i \in JobId \ {j} : jobs'[i] = jobs[i]
    BY <2>1
  <2>3. CASE "unswept" \in causes'
    BY <2>3 DEF NobodyLingers
  <2>4. CASE At(j, "sweep") /\ Remove(jobs[j].s) /\ causes \subseteq causes'
    <3>1. /\ ~player'[jobs[j].s].here
          /\ \A p \in Human \ {jobs[j].s} : player'[p] = player[p]
      BY <2>1, <2>4 DEF Remove, NoPlayer, Session
    <3>2. QED BY <2>1, <2>2, <2>4, <3>1 DEF NobodyLingers, At
  <2>5. CASE At(j, "sweepCount") /\ player' = player /\ causes \subseteq causes'
    BY <2>1, <2>2, <2>5 DEF NobodyLingers, At
  <2>6. QED BY <1>5, <2>3, <2>4, <2>5 DEF SweepFails, store
<1>6. QED BY <1>1, <1>2, <1>3, <1>4, <1>5, KeptStep, KeptIsEnough

\* No disconnected player is forgotten: for any number of sessions and
\* handlers it is scheduled, or a handler that serves it will see to it.
THEOREM NobodyIsForgotten == Spec => []NobodyLingers
<1>1. Init => NobodyLingers
  BY DEF Init, NobodyLingers, NoPlayer, Session
<1>2. TypeOK /\ NobodyLingers /\ [Next]_vars => NobodyLingers'
  BY LingerStep
<1>3. QED BY <1>1, <1>2, TypeIsRight, PTL DEF Spec

-----------------------------------------------------------------------------
(* How handlers move: a step of a handler leaves the others alone, and keeps *)
(* its kind and its session as long as it goes on.                           *)

Others(j) == \A i \in JobId \ {j} : jobs'[i] = jobs[i]
Same(j)   ==
  /\ jobs'[j].kind = jobs[j].kind /\ jobs'[j].s = jobs[j].s /\ jobs'[j].k = jobs[j].k
  /\ jobs'[j].was = jobs[j].was
Notes(j)  == jobs'[j].other = jobs[j].other /\ jobs'[j].seen = jobs[j].seen
Moves(j, step) == Others(j) /\ Same(j) /\ Notes(j) /\ jobs'[j].at = step
Ends(j)        == Others(j) /\ jobs'[j] = Idle
\* Where AfterHost leads.
Returns(j) ==
  \/ Ends(j) /\ jobs[j].kind \notin {"join", "reconnect", "leave"}
  \/ Moves(j, "joined") /\ jobs[j].kind = "join"
  \/ Moves(j, "reentered") /\ jobs[j].kind = "reconnect"
  \/ Moves(j, "remove") /\ jobs[j].kind = "leave"

LEMMA GoMoves ==
  ASSUME TypeOK, NEW j \in JobId, NEW step, Go(j, step)
  PROVE  Moves(j, step)
BY DEF TypeOK, JobsOK, Job, Go, Moves, Others, Same, Notes

LEMMA EndMoves ==
  ASSUME TypeOK, NEW j \in JobId, End(j)
  PROVE  Ends(j)
BY DEF TypeOK, JobsOK, End, Ends, Others

LEMMA AfterHostMoves ==
  ASSUME TypeOK, NEW j \in JobId, AfterHost(j)
  PROVE  Returns(j)
BY GoMoves, EndMoves DEF AfterHost, Returns

\* A handler that notes what it has read.
LEMMA NoteFields ==
  ASSUME NEW r \in Job, NEW step, NEW o, NEW ss, NEW b
  PROVE  /\ LET q == [r EXCEPT !.at = step, !.other = o] IN
              /\ q.at = step /\ q.other = o /\ q.kind = r.kind /\ q.s = r.s
              /\ q.k = r.k /\ q.was = r.was /\ q.seen = r.seen
         /\ LET q == [r EXCEPT !.at = step, !.seen = ss] IN
              /\ q.at = step /\ q.seen = ss /\ q.kind = r.kind /\ q.s = r.s
              /\ q.k = r.k /\ q.was = r.was /\ q.other = r.other
         /\ LET q == [r EXCEPT !.at = step, !.was = b] IN
              q.at = step /\ q.kind = r.kind /\ q.s = r.s /\ q.k = r.k
BY DEF Job

LEMMA NoteMoves ==
  ASSUME TypeOK, NEW j \in JobId, NEW step, NEW o, NEW ss
  PROVE  /\ jobs' = [jobs EXCEPT ![j] = [@ EXCEPT !.at = step, !.other = o]]
              => Others(j) /\ Same(j) /\ jobs'[j].at = step /\ jobs'[j].other = o
         /\ jobs' = [jobs EXCEPT ![j] = [@ EXCEPT !.at = step, !.seen = ss]]
              => /\ Others(j) /\ Same(j) /\ jobs'[j].at = step /\ jobs'[j].seen = ss
                 /\ jobs'[j].other = jobs[j].other
<1>1. jobs \in [JobId -> Job] /\ jobs[j] \in Job
  BY DEF TypeOK, JobsOK
<1> DEFINE p == [jobs[j] EXCEPT !.at = step, !.other = o]
           q == [jobs[j] EXCEPT !.at = step, !.seen = ss]
<1>2. /\ p.at = step /\ p.other = o /\ p.kind = jobs[j].kind /\ p.s = jobs[j].s
      /\ p.k = jobs[j].k /\ p.was = jobs[j].was
      /\ q.at = step /\ q.seen = ss /\ q.kind = jobs[j].kind /\ q.s = jobs[j].s
      /\ q.k = jobs[j].k /\ q.was = jobs[j].was /\ q.other = jobs[j].other
  BY <1>1, NoteFields
<1> HIDE DEF p, q
<1>3. /\ jobs' = [jobs EXCEPT ![j] = p]
           => Others(j) /\ Same(j) /\ jobs'[j].at = step /\ jobs'[j].other = o
      /\ jobs' = [jobs EXCEPT ![j] = q]
           => /\ Others(j) /\ Same(j) /\ jobs'[j].at = step /\ jobs'[j].seen = ss
              /\ jobs'[j].other = jobs[j].other
  BY <1>1, <1>2 DEF Others, Same
<1>4. QED BY <1>3 DEF p, q

\* What an idle handler begins with.
Enters(i) ==
  /\ jobs[i].at = "idle"
  /\ \/ jobs'[i].kind = "join" /\ jobs'[i].at \in {"rejoin", "script"}
     \/ jobs'[i].kind = "reconnect" /\ jobs'[i].at = "consume"
     \/ jobs'[i].kind = "leave" /\ jobs'[i].at = "lock" /\ jobs'[i].other \in Session
     \/ jobs'[i].kind = "leave" /\ jobs'[i].at = "remove"
     \/ jobs'[i].kind = "resync" /\ jobs'[i].at = "repair"
     \/ jobs'[i].kind = "kick" /\ jobs'[i].at = "kickRemove"
     \/ jobs'[i].kind = "drop" /\ jobs'[i].at = "drop"
     \/ jobs'[i].kind = "sweep" /\ jobs'[i].at = "sweep"

-----------------------------------------------------------------------------
(* What steps do to the roster.  Most leave the host, the members and their  *)
(* flags alone, bring nobody back, and take no handler into, or out of, the  *)
(* places where the host or the room is being seen to.                       *)

Calm ==
  /\ host' = host /\ Present' = Present /\ causes \subseteq causes'
  /\ \A s \in Session : /\ player'[s].here = player[s].here
                        /\ player'[s].isHost = player[s].isHost
Steady == Calm /\ \A s \in Session : player'[s].connected => player[s].connected

Aside == {"joined", "consume", "reentered", "drop", "owner", "mint", "check", "mark", "plan",
          "shorten"}
Ordinary ==
  /\ Steady /\ hostLock' = hostLock
  /\ \A i \in JobId : \/ jobs'[i] = jobs[i]
                      \/ Enters(i)
                      \/ /\ jobs[i].at \in Aside
                         /\ jobs'[i].at \in Aside \cup {"reenter", "waitLock", "idle"}

LEMMA StoreSteady ==
  ASSUME UNCHANGED store, causes \subseteq causes'
  PROVE  Steady
BY DEF store, Steady, Calm, Present

LEMMA PruneSteady ==
  ASSUME Prune, UNCHANGED <<host, player>>, causes \subseteq causes'
  PROVE  Steady
BY DEF Prune, Steady, Calm, Present

\* A change of a record that leaves it there, with its rights.
LEMMA TouchCalm ==
  ASSUME TypeOK, NEW s \in Session, NEW r, r.here = player[s].here, r.isHost = player[s].isHost,
         player' = [player EXCEPT ![s] = r],
         UNCHANGED <<host, members>>, causes \subseteq causes'
  PROVE  Calm /\ ((r.connected => player[s].connected) => Steady)
BY DEF TypeOK, Calm, Steady, Present

LEMMA OrdinaryMove ==
  ASSUME TypeOK, NEW j \in JobId, Steady, hostLock' = hostLock, jobs[j].at \in Aside, Others(j),
         jobs'[j].at \in Aside \cup {"reenter", "waitLock", "idle"}
  PROVE  Ordinary
BY DEF Ordinary, Others

LEMMA OrdinaryGo ==
  ASSUME TypeOK, NEW j \in JobId, Steady, hostLock' = hostLock, jobs[j].at \in Aside,
         NEW step \in Aside \cup {"reenter", "waitLock"}, Go(j, step) \/ End(j)
  PROVE  Ordinary
BY OrdinaryMove, GoMoves, EndMoves, IdleType DEF Moves, Ends

LEMMA OrdinaryStart ==
  ASSUME TypeOK, NEW j \in JobId, Steady, hostLock' = hostLock, Others(j), Enters(j)
  PROVE  Ordinary
BY DEF Ordinary, Others

LEMMA RecordFields ==
  ASSUME NEW p \in Player, NEW a, NEW b
  PROVE  /\ LET q == [p EXCEPT !.connected = a, !.brief = b] IN
              q.here = p.here /\ q.isHost = p.isHost /\ q.connected = a
         /\ LET q == [p EXCEPT !.isHost = a, !.brief = b] IN
              q.here = p.here /\ q.isHost = a /\ q.connected = p.connected
         /\ LET q == [p EXCEPT !.brief = b] IN
              q.here = p.here /\ q.isHost = p.isHost /\ q.connected = p.connected
BY DEF Player

\* The steps of a handler that are ordinary.
LEMMA OrdinarySteps ==
  ASSUME TypeOK, NEW j \in JobId,
         \/ Joined(j) \/ Consume(j) \/ Reentered(j)
         \/ Drop(j) \/ DropOwner(j) \/ DropToken(j) \/ DropCheck(j)
         \/ DropMark(j) \/ DropPlan(j) \/ DropShorten(j)
  PROVE  Ordinary
<1> USE DEF At, Aside
<1>0. jobs[j].s \in Human => jobs[j].s \in Session /\ player[jobs[j].s] \in Player
  BY DEF TypeOK, Session
<1>1. CASE Joined(j)
  BY <1>1, OrdinaryGo, StoreSteady DEF Joined, locks
<1>2. CASE Consume(j)
  BY <1>2, OrdinaryGo, StoreSteady DEF Consume, locks
<1>3. CASE Reentered(j)
  BY <1>3, OrdinaryGo, PruneSteady DEF Reentered, locks
<1>4. CASE Drop(j)
  <2>1. Steady /\ hostLock' = hostLock /\ jobs[j].at = "drop"
    BY <1>4, StoreSteady DEF Drop, locks
  <2>2. CASE End(j)
    BY <2>1, <2>2, OrdinaryGo
  <2>3. CASE jobs' = [jobs EXCEPT ![j] = [@ EXCEPT !.at = "owner", !.was = player[jobs[j].s].isHost]]
    <3>1. jobs[j] \in Job /\ jobs \in [JobId -> Job]
      BY DEF TypeOK, JobsOK
    <3> DEFINE q == [jobs[j] EXCEPT !.at = "owner", !.was = player[jobs[j].s].isHost]
    <3>2. q.at = "owner"
      BY <3>1, NoteFields
    <3>3. jobs' = [jobs EXCEPT ![j] = q]
      BY <2>3
    <3> HIDE DEF q
    <3>4. QED BY <2>1, <3>1, <3>2, <3>3, OrdinaryMove DEF Others
  <2>4. QED BY <1>4, <2>2, <2>3 DEF Drop
<1>4a. CASE DropOwner(j)
  BY <1>4a, OrdinaryGo, StoreSteady DEF DropOwner, locks
<1>4b. CASE DropToken(j)
  BY <1>4b, OrdinaryGo, StoreSteady DEF DropToken, locks
<1>5. CASE DropCheck(j)
  BY <1>5, OrdinaryGo, StoreSteady DEF DropCheck, End
<1>6. CASE DropMark(j)
  <2>1. jobs[j].s \in Human /\ hostLock' = hostLock /\ (Go(j, "plan") \/ End(j))
    BY <1>6, HandlerType DEF DropMark
  <2>2. Steady
    <3>1. CASE player[jobs[j].s].here
      <4> DEFINE q == [player[jobs[j].s] EXCEPT !.connected = FALSE, !.brief = FALSE]
      <4>1. /\ player' = [player EXCEPT ![jobs[j].s] = q]
            /\ UNCHANGED <<host, members, causes>>
        BY <1>6, <3>1 DEF DropMark
      <4>2. q.here = player[jobs[j].s].here /\ q.isHost = player[jobs[j].s].isHost /\ ~q.connected
        BY <1>0, <2>1, RecordFields
      <4> HIDE DEF q
      <4>3. QED BY <1>0, <2>1, <4>1, <4>2, TouchCalm
    <3>2. CASE ~player[jobs[j].s].here
      BY <1>6, <3>2, StoreSteady DEF DropMark, store
    <3>3. QED BY <3>1, <3>2
  <2>3. QED BY <1>6, <2>1, <2>2, OrdinaryGo DEF DropMark
<1>7. CASE DropPlan(j)
  BY <1>7, OrdinaryGo, StoreSteady DEF DropPlan, locks
<1>8. CASE DropShorten(j)
  <2>1. jobs[j].s \in Human /\ hostLock' = hostLock /\ (Go(j, "waitLock") \/ End(j))
    BY <1>8, HandlerType DEF DropShorten, locks
  <2> DEFINE q == [player[jobs[j].s] EXCEPT !.brief = player[jobs[j].s].here]
  <2>2. player' = [player EXCEPT ![jobs[j].s] = q] /\ UNCHANGED <<host, members, causes>>
    BY <1>8 DEF DropShorten
  <2>3. /\ q.here = player[jobs[j].s].here /\ q.isHost = player[jobs[j].s].isHost
        /\ q.connected = player[jobs[j].s].connected
    BY <1>0, <2>1, RecordFields
  <2> HIDE DEF q
  <2>4. Steady
    BY <1>0, <2>1, <2>2, <2>3, TouchCalm
  <2>5. QED BY <1>8, <2>1, <2>4, OrdinaryGo DEF DropShorten
<1>9. QED BY <1>1, <1>2, <1>3, <1>4, <1>4a, <1>4b, <1>5, <1>6, <1>7, <1>8

\* What a handler can begin with is a kind and a step.
LEMMA BeginNames ==
  /\ {"join", "reconnect", "leave", "resync", "kick", "drop", "sweep"} \subseteq Kind
  /\ {"rejoin", "script", "consume", "lock", "remove", "repair", "kickRemove", "drop", "sweep"}
       \subseteq Step
BY DEF Kind, Request, Step

\* A handler begins with the fields Begin gives it.
LEMMA BeginFields ==
  ASSUME TypeOK, NEW j \in JobId, NEW kind \in Kind, NEW step \in Step, NEW s \in Human,
         NEW o, NEW b, NEW k
  PROVE  LET r == Begin(j, kind, step, s) IN
           /\ r.kind = kind /\ r.at = step /\ r.s = s /\ r \in Job
           /\ [r EXCEPT !.other = o, !.was = b].kind = kind
           /\ [r EXCEPT !.other = o, !.was = b].at = step
           /\ [r EXCEPT !.other = o, !.was = b].other = o
           /\ [r EXCEPT !.was = b].kind = kind /\ [r EXCEPT !.was = b].at = step
           /\ [r EXCEPT !.tok = k].kind = kind /\ [r EXCEPT !.tok = k].at = step
           /\ [r EXCEPT !.k = k].kind = kind /\ [r EXCEPT !.k = k].at = step
           /\ [r EXCEPT !.k = k, !.other = o].kind = kind
           /\ [r EXCEPT !.k = k, !.other = o].at = step
<1> DEFINE r == Begin(j, kind, step, s)
<1>1. r \in Job /\ r.kind = kind /\ r.at = step /\ r.s = s
  BY BeginType DEF Begin, Idle
<1> HIDE DEF r
<1>2. /\ [r EXCEPT !.other = o, !.was = b].kind = kind
      /\ [r EXCEPT !.other = o, !.was = b].at = step
      /\ [r EXCEPT !.other = o, !.was = b].other = o
      /\ [r EXCEPT !.was = b].kind = kind /\ [r EXCEPT !.was = b].at = step
      /\ [r EXCEPT !.tok = k].kind = kind /\ [r EXCEPT !.tok = k].at = step
      /\ [r EXCEPT !.k = k].kind = kind /\ [r EXCEPT !.k = k].at = step
      /\ [r EXCEPT !.k = k, !.other = o].kind = kind
      /\ [r EXCEPT !.k = k, !.other = o].at = step
  BY <1>1 DEF Job
<1>3. QED BY <1>1, <1>2 DEF r

LEMMA StartsOrdinary ==
  ASSUME TypeOK, NEW j \in JobId, At(j, "idle"), Steady, hostLock' = hostLock,
         NEW r, jobs' = [jobs EXCEPT ![j] = r],
         \/ r.kind = "join" /\ r.at \in {"rejoin", "script"}
         \/ r.kind = "reconnect" /\ r.at = "consume"
         \/ r.kind = "leave" /\ r.at = "lock" /\ r.other \in Session
         \/ r.kind = "leave" /\ r.at = "remove"
         \/ r.kind = "resync" /\ r.at = "repair"
         \/ r.kind = "kick" /\ r.at = "kickRemove"
         \/ r.kind = "drop" /\ r.at = "drop"
         \/ r.kind = "sweep" /\ r.at = "sweep"
  PROVE  Ordinary
<1>1. Others(j) /\ jobs'[j] = r
  BY DEF TypeOK, JobsOK, Others
<1>2. Enters(j)
  BY <1>1 DEF Enters, At
<1>3. QED BY <1>1, <1>2, OrdinaryStart

\* What clients, sockets and clocks do is ordinary, except for the making of
\* the room, a new bot, and a record that runs out.
LEMMA OrdinaryAsks ==
  ASSUME TypeOK, NEW j \in JobId, NEW s \in Human,
         \/ StartJoin(j, s) \/ StartReconnect(j, s) \/ StartLeave(j, s) \/ StartResync(j, s)
         \/ StartSweep(j, s)
         \/ \E d \in JobId, t \in Human : StartKick(j, d, s, t)
         \/ \E k \in 1 .. MaxSockets : SocketDrops(j, s, k)
  PROVE  Ordinary
<1>1. CASE StartJoin(j, s)
  <2>1. /\ At(j, "idle") /\ Steady /\ hostLock' = hostLock
        /\ \/ jobs' = [jobs EXCEPT ![j] = Begin(j, "join", "rejoin", s)]
           \/ jobs' = [jobs EXCEPT ![j] = Begin(j, "join", "script", s)]
    BY <1>1, StoreSteady DEF StartJoin, Asks, MayAsk, locks
  <2>2. /\ Begin(j, "join", "rejoin", s).kind = "join" /\ Begin(j, "join", "rejoin", s).at = "rejoin"
        /\ Begin(j, "join", "script", s).kind = "join" /\ Begin(j, "join", "script", s).at = "script"
    BY BeginFields, BeginNames
  <2>3. QED BY <2>1, <2>2, StartsOrdinary
<1>2. CASE StartReconnect(j, s)
  <2> DEFINE r == [Begin(j, "reconnect", "consume", s) EXCEPT !.tok = held[s]]
  <2>1. /\ At(j, "idle") /\ Steady /\ hostLock' = hostLock
        /\ jobs' = [jobs EXCEPT ![j] = r]
    BY <1>2, StoreSteady DEF StartReconnect, Asks, MayAsk, locks
  <2>2. r.kind = "reconnect" /\ r.at = "consume"
    BY BeginFields, BeginNames
  <2> HIDE DEF r
  <2>3. QED BY <2>1, <2>2, StartsOrdinary
<1>3. CASE StartLeave(j, s)
  <2>1. /\ At(j, "idle") /\ hostLock' = hostLock
        /\ UNCHANGED <<host, player, causes>> /\ members' \in {Present, members}
    BY <1>3 DEF StartLeave, Asks, MayAsk, locks
  <2>2. Steady
    BY <2>1, PruneSteady, StoreSteady DEF Prune, store
  <2>3. ASSUME NEW h \in Heirs(Present \ {s}),
               jobs' = [jobs EXCEPT ![j] =
                          [Begin(j, "leave", "lock", s) EXCEPT !.other = h, !.was = TRUE]]
        PROVE  Ordinary
    <3> DEFINE r == [Begin(j, "leave", "lock", s) EXCEPT !.other = h, !.was = TRUE]
    <3>1. h \in Session
      BY DEF Heirs, Present, TypeOK
    <3>2. r.kind = "leave" /\ r.at = "lock" /\ r.other = h
      BY BeginFields, BeginNames
    <3> HIDE DEF r
    <3>3. jobs' = [jobs EXCEPT ![j] = r]
      BY <2>3 DEF r
    <3>4. QED BY <2>1, <2>2, <3>1, <3>2, <3>3, StartsOrdinary
  <2>4. ASSUME jobs' = [jobs EXCEPT ![j] = [Begin(j, "leave", "remove", s) EXCEPT !.was = Exists]]
        PROVE  Ordinary
    <3> DEFINE r == [Begin(j, "leave", "remove", s) EXCEPT !.was = Exists]
    <3>1. r.kind = "leave" /\ r.at = "remove"
      BY BeginFields, BeginNames
    <3> HIDE DEF r
    <3>2. jobs' = [jobs EXCEPT ![j] = r]
      BY <2>4 DEF r
    <3>3. QED BY <2>1, <2>2, <3>1, <3>2, StartsOrdinary
  <2>5. QED BY <1>3, <2>3, <2>4 DEF StartLeave
<1>4. CASE StartResync(j, s)
  <2>1. /\ At(j, "idle") /\ Steady /\ hostLock' = hostLock
        /\ jobs' = [jobs EXCEPT ![j] = Begin(j, "resync", "repair", s)]
    BY <1>4, StoreSteady DEF StartResync, Asks, MayAsk, locks
  <2>2. /\ Begin(j, "resync", "repair", s).kind = "resync"
        /\ Begin(j, "resync", "repair", s).at = "repair"
    BY BeginFields, BeginNames
  <2>3. QED BY <2>1, <2>2, StartsOrdinary
<1>5. CASE StartSweep(j, s)
  <2> DEFINE r == [Begin(j, "sweep", "sweep", s) EXCEPT !.k = 0]
  <2>1. /\ At(j, "idle") /\ Steady /\ hostLock' = hostLock
        /\ jobs' = [jobs EXCEPT ![j] = r]
    BY <1>5, StoreSteady DEF StartSweep, locks
  <2>2. r.kind = "sweep" /\ r.at = "sweep"
    BY BeginFields, BeginNames
  <2> HIDE DEF r
  <2>3. QED BY <2>1, <2>2, StartsOrdinary
<1>6. ASSUME NEW d \in JobId, NEW t \in Human, StartKick(j, d, s, t) PROVE Ordinary
  <2> DEFINE kick == [Begin(j, "kick", "kickRemove", t) EXCEPT !.k = 0, !.other = s]
             drop == Begin(d, "drop", "drop", t)
  <2>1. kick.kind = "kick" /\ kick.at = "kickRemove" /\ drop.kind = "drop" /\ drop.at = "drop"
    BY BeginFields, BeginNames
  <2>2. /\ At(j, "idle") /\ At(d, "idle") /\ d # j /\ Steady /\ hostLock' = hostLock
        /\ \/ jobs' = [jobs EXCEPT ![j] = kick, ![d] = drop]
           \/ jobs' = [jobs EXCEPT ![j] = kick]
    BY <1>6, StoreSteady DEF StartKick, Asks, MayAsk, locks
  <2> HIDE DEF kick, drop
  <2>3. \A i \in JobId : jobs'[i] = jobs[i] \/ Enters(i)
    BY <2>1, <2>2 DEF TypeOK, JobsOK, At, Enters
  <2>4. QED BY <2>2, <2>3 DEF Ordinary
<1>7. ASSUME NEW k \in 1 .. MaxSockets, SocketDrops(j, s, k) PROVE Ordinary
  <2> DEFINE r == [Begin(j, "drop", "drop", s) EXCEPT !.k = k]
  <2>1. /\ At(j, "idle") /\ Steady /\ hostLock' = hostLock
        /\ jobs' = [jobs EXCEPT ![j] = r]
    BY <1>7, StoreSteady DEF SocketDrops, locks
  <2>2. r.kind = "drop" /\ r.at = "drop"
    BY BeginFields, BeginNames
  <2> HIDE DEF r
  <2>3. QED BY <2>1, <2>2, StartsOrdinary
<1>8. QED BY <1>1, <1>2, <1>3, <1>4, <1>5, <1>6, <1>7

LEMMA OrdinaryClocks ==
  ASSUME TypeOK,
         \/ \E s \in Human : Handshake(s) \/ GraceEnds(s) \/ GetToken(s)
         \/ RefreshTTL
         \/ UNCHANGED vars
  PROVE  Ordinary
<1>1. ASSUME NEW s \in Human, Handshake(s) PROVE Ordinary
  <2>1. UNCHANGED <<host, members, hostLock, causes, jobs>>
    BY <1>1 DEF Handshake, locks
  <2>2. player[s] \in Player /\ s \in Session
    BY DEF TypeOK, Session
  <2> DEFINE q == [player[s] EXCEPT !.brief = FALSE]
  <2>3. q.here = player[s].here /\ q.isHost = player[s].isHost /\ q.connected = player[s].connected
    BY <2>2, RecordFields
  <2>4. player' = player \/ player' = [player EXCEPT ![s] = q]
    BY <1>1 DEF Handshake
  <2> HIDE DEF q
  <2>5. QED BY <2>1, <2>2, <2>3, <2>4, TouchCalm, StoreSteady DEF Ordinary, store
<1>2. ASSUME NEW s \in Human, GraceEnds(s) PROVE Ordinary
  BY <1>2, StoreSteady DEF GraceEnds, Ordinary, locks
<1>3. ASSUME NEW s \in Human, GetToken(s) PROVE Ordinary
  BY <1>3, StoreSteady DEF GetToken, Ordinary, locks
<1>4. CASE RefreshTTL
  <2>1. UNCHANGED <<host, members, hostLock, causes, jobs>>
    BY <1>4 DEF RefreshTTL, locks
  <2>2. \A s \in Session : [player[s] EXCEPT !.brief = FALSE].here = player[s].here
          /\ [player[s] EXCEPT !.brief = FALSE].isHost = player[s].isHost
          /\ [player[s] EXCEPT !.brief = FALSE].connected = player[s].connected
    BY RecordFields DEF TypeOK
  <2>3. \A s \in Session : /\ player'[s].here = player[s].here
                           /\ player'[s].isHost = player[s].isHost
                           /\ player'[s].connected = player[s].connected
    BY <1>4, <2>2 DEF RefreshTTL, TypeOK
  <2>4. QED BY <2>1, <2>3 DEF Ordinary, Steady, Calm, Present, TypeOK
<1>5. CASE UNCHANGED vars
  BY <1>5, StoreSteady DEF vars, Ordinary, store
<1>6. QED BY <1>1, <1>2, <1>3, <1>4, <1>5

-----------------------------------------------------------------------------
(* The other steps, one lemma for what each does to the roster and to its    *)
(* handler.                                                                  *)

Joins(s) ==
  /\ host' = host /\ hostLock' = hostLock /\ causes' = causes
  /\ Present' = Present \cup {s}
  /\ player'[s].here /\ ~player'[s].isHost
  /\ \A p \in Session \ {s} : player'[p] = player[p]
Goes(s) ==
  /\ host' = host /\ hostLock' = hostLock
  /\ Present' = Present \ {s} /\ player'[s] = NoPlayer
  /\ \A p \in Session \ {s} : player'[p] = player[p]
\* hostTransfer.lua from a to b.
Hands(a, b) ==
  /\ host' = b /\ hostLock' = hostLock /\ Present' = Present
  /\ causes \subseteq causes' /\ ("stale" \in causes' \/ host = a)
  /\ \A p \in Session : /\ player'[p].here = player[p].here
                        /\ player'[p].connected = player[p].connected
                        /\ player'[p].isHost <=> (p = b \/ (p # a /\ player[p].isHost))
\* SET room:<code> with b as its host.
Writes(b, old) ==
  /\ host' = b /\ hostLock' = hostLock /\ Present' = Present /\ player' = player
  /\ causes \subseteq causes'
  /\ Exists \/ "revived" \in causes'
  /\ player[b].here \/ "missed" \in causes'
  /\ host \in old \/ "stale" \in causes'

LEMMA JoinsLemma ==
  ASSUME TypeOK, NEW s \in Session, members' = members \cup {s},
         player' = [player EXCEPT ![s] = NewPlayer(FALSE)],
         UNCHANGED <<host, hostLock, causes>>
  PROVE  Joins(s)
BY DEF TypeOK, Joins, Present, NewPlayer

LEMMA GoesLemma ==
  ASSUME TypeOK, NEW s \in Session, Remove(s), UNCHANGED hostLock
  PROVE  Goes(s)
BY DEF TypeOK, Goes, Remove, Present, NoPlayer

LEMMA HandsLemma ==
  ASSUME TypeOK, NEW a \in Session, NEW b \in Session, Transfer(a, b), UNCHANGED hostLock
  PROVE  Hands(a, b)
<1> DEFINE pa == [player[a] EXCEPT !.isHost = FALSE, !.brief = FALSE]
           pb == [player[b] EXCEPT !.isHost = TRUE, !.brief = FALSE]
           pc == [pa EXCEPT !.isHost = TRUE, !.brief = FALSE]
<1>1. player[a] \in Player /\ player[b] \in Player
  BY DEF TypeOK
<1>2. pa \in Player
  BY <1>1, RecordType
<1>3. /\ pa.here = player[a].here /\ ~pa.isHost /\ pa.connected = player[a].connected
      /\ pb.here = player[b].here /\ pb.isHost /\ pb.connected = player[b].connected
      /\ pc.here = pa.here /\ pc.isHost /\ pc.connected = pa.connected
  BY <1>1, <1>2, RecordFields
<1>4. player' = [player EXCEPT ![a] = pa, ![b] = IF a = b THEN pc ELSE pb]
  BY <1>1 DEF Transfer, TypeOK
<1> HIDE DEF pa, pb, pc
<1>5. \A p \in Session : /\ player'[p].here = player[p].here
                         /\ player'[p].connected = player[p].connected
                         /\ player'[p].isHost <=> (p = b \/ (p # a /\ player[p].isHost))
  BY <1>3, <1>4 DEF TypeOK
<1>6. /\ host' = b /\ members' = members
      /\ causes' = causes \cup (IF host = a THEN {} ELSE {"stale"})
  BY DEF Transfer
<1>7. Present' = Present
  BY <1>5, <1>6 DEF Present, TypeOK
<1>8. QED BY <1>5, <1>6, <1>7 DEF Hands

LEMMA WritesLemma ==
  ASSUME NEW b, NEW old, WriteHost(b, old), UNCHANGED hostLock
  PROVE  Writes(b, old)
BY DEF WriteHost, Writes, Present

\* updatePlayer(s, {isHost}) for every s in set.
Flags(set, flag) ==
  /\ host' = host /\ hostLock' = hostLock /\ Present' = Present
  /\ \A p \in Session : /\ player'[p].here = player[p].here
                        /\ player'[p].connected = player[p].connected
                        /\ player'[p].isHost = IF p \in set THEN flag ELSE player[p].isHost

LEMMA FlagsLemma ==
  ASSUME TypeOK, NEW s \in Session, NEW flag \in BOOLEAN, SetHostFlag(s, flag), UNCHANGED hostLock
  PROVE  Flags({s}, flag)
<1> DEFINE q == [player[s] EXCEPT !.isHost = flag, !.brief = FALSE]
<1>1. q.here = player[s].here /\ q.isHost = flag /\ q.connected = player[s].connected
  BY RecordFields DEF TypeOK
<1>2. player' = [player EXCEPT ![s] = q] /\ UNCHANGED <<host, members>>
  BY DEF SetHostFlag
<1> HIDE DEF q
<1>3. QED BY <1>1, <1>2 DEF Flags, Present, TypeOK

LEMMA RejoinDoes ==
  ASSUME TypeOK, NEW j \in JobId, Rejoin(j)
  PROVE  /\ At(j, "rejoin") /\ Calm /\ hostLock' = hostLock
         /\ Moves(j, "repair") \/ (Steady /\ Ends(j))
<1>1. /\ At(j, "rejoin") /\ hostLock' = hostLock /\ jobs[j].s \in Session
      /\ UNCHANGED <<host, members, causes>>
  BY HandlerType DEF Rejoin, locks, Session
<1>2. CASE player[jobs[j].s].here
  <2> DEFINE q == [player[jobs[j].s] EXCEPT !.connected = TRUE, !.brief = FALSE]
  <2>1. player' = [player EXCEPT ![jobs[j].s] = q] /\ Moves(j, "repair")
    BY <1>2, GoMoves DEF Rejoin
  <2>2. q.here = player[jobs[j].s].here /\ q.isHost = player[jobs[j].s].isHost
    BY <1>1, RecordFields DEF TypeOK
  <2> HIDE DEF q
  <2>3. QED BY <1>1, <2>1, <2>2, TouchCalm
<1>3. CASE ~player[jobs[j].s].here
  BY <1>1, <1>3, EndMoves, StoreSteady DEF Rejoin, store, Steady
<1>4. QED BY <1>2, <1>3

LEMMA ReenterDoes ==
  ASSUME TypeOK, NEW j \in JobId, Reenter(j)
  PROVE  /\ At(j, "reenter") /\ Calm /\ hostLock' = hostLock
         /\ Moves(j, "repair") \/ (Steady /\ Ends(j))
<1>1. /\ At(j, "reenter") /\ hostLock' = hostLock /\ jobs[j].s \in Session
      /\ UNCHANGED <<host, members, causes>>
  BY HandlerType DEF Reenter, locks, Session
<1>2. CASE player[jobs[j].s].here
  <2> DEFINE q == [player[jobs[j].s] EXCEPT !.connected = TRUE, !.brief = FALSE]
  <2>1. player' = [player EXCEPT ![jobs[j].s] = q] /\ Moves(j, "repair")
    BY <1>2, GoMoves DEF Reenter
  <2>2. q.here = player[jobs[j].s].here /\ q.isHost = player[jobs[j].s].isHost
    BY <1>1, RecordFields DEF TypeOK
  <2> HIDE DEF q
  <2>3. QED BY <1>1, <2>1, <2>2, TouchCalm
<1>3. CASE ~player[jobs[j].s].here
  BY <1>1, <1>3, EndMoves, StoreSteady DEF Reenter, store, Steady
<1>4. QED BY <1>2, <1>3

LEMMA JoinScriptDoes ==
  ASSUME TypeOK, NEW j \in JobId, JoinScript(j)
  PROVE  /\ At(j, "script") /\ jobs[j].s \in Human
         /\ \/ Steady /\ hostLock' = hostLock /\ (Ends(j) \/ Moves(j, "recreate"))
            \/ Joins(jobs[j].s) /\ Moves(j, "repair")
<1>1. At(j, "script") /\ jobs[j].s \in Human /\ jobs[j].s \in Session
  BY HandlerType DEF JoinScript, Session
<1>2. UNCHANGED <<host, hostLock, causes>>
  BY DEF JoinScript, locks
<1>3. QED BY <1>1, <1>2, JoinsLemma, StoreSteady, GoMoves, EndMoves DEF JoinScript, store

LEMMA RecreateDoes ==
  ASSUME TypeOK, NEW j \in JobId, Recreate(j)
  PROVE  /\ At(j, "recreate") /\ jobs[j].s \in Human
         /\ Joins(jobs[j].s) /\ Moves(j, "repair")
BY HandlerType, JoinsLemma, GoMoves DEF Recreate, locks, Session

LEMMA AddBotDoes ==
  ASSUME TypeOK, NEW j \in JobId, NEW s \in Human, NEW b \in Bot, AddBot(j, s, b)
  PROVE  Joins(b) /\ jobs' = jobs
BY JoinsLemma DEF AddBot, locks, Session

LEMMA CreateRoomDoes ==
  ASSUME TypeOK, NEW j \in JobId, NEW s \in Human, CreateRoom(j, s)
  PROVE  /\ ~Exists /\ host' = s /\ Present' = {s} /\ jobs' = jobs
         /\ hostLock' = hostLock /\ causes' = causes
         /\ player'[s].here
BY DEF TypeOK, CreateRoom, locks, Present, NewPlayer, Session

LEMMA LeaveLockDoes ==
  ASSUME TypeOK, NEW j \in JobId, LeaveLock(j)
  PROVE  /\ At(j, "lock") /\ Steady
         /\ \/ hostLock = Nobody /\ hostLock' = j /\ Moves(j, "move")
            \/ hostLock # Nobody /\ hostLock' = hostLock /\ Moves(j, "remove")
BY StoreSteady, GoMoves, EndMoves, AfterHostMoves DEF LeaveLock

LEMMA RepairLockDoes ==
  ASSUME TypeOK, NEW j \in JobId, RepairLock(j)
  PROVE  /\ At(j, "repairLock") /\ Steady
         /\ \/ hostLock = Nobody /\ hostLock' = j /\ Moves(j, "reread")
            \/ "skipped" \in causes' /\ hostLock' = hostLock /\ Returns(j)
BY StoreSteady, GoMoves, EndMoves, AfterHostMoves DEF RepairLock

LEMMA DropLockDoes ==
  ASSUME TypeOK, NEW j \in JobId, DropLock(j)
  PROVE  /\ At(j, "waitLock") /\ Steady
         /\ \/ hostLock = Nobody /\ hostLock' = j /\ Moves(j, "recheck")
            \/ hostLock # Nobody /\ hostLock' = hostLock /\ Ends(j)
BY StoreSteady, GoMoves, EndMoves, AfterHostMoves DEF DropLock

LEMMA FreeHostLockDoes ==
  ASSUME TypeOK, NEW j \in JobId, FreeHostLock(j)
  PROVE  At(j, "free") /\ Steady /\ hostLock' = Nobody /\ Returns(j)
BY StoreSteady, AfterHostMoves DEF FreeHostLock

LEMMA LeaveMoveDoes ==
  ASSUME TypeOK, NEW j \in JobId, LeaveMove(j)
  PROVE  /\ At(j, "move")
         /\ \/ /\ Hands(jobs[j].s, jobs[j].other) /\ IsHere(jobs[j].other) /\ Exists
               /\ Moves(j, "free")
            \/ Steady /\ hostLock' = hostLock /\ Moves(j, "force")
<1>1. At(j, "move") /\ jobs[j].s \in Session /\ hostLock' = hostLock
  BY HandlerType DEF LeaveMove, Session, locks
<1>2. CASE MayTransfer(jobs[j].s, jobs[j].other)
  <2>1. jobs[j].other \in Session
    BY <1>2 DEF MayTransfer, IsHere, TypeOK, JobsOK, Job
  <2>2. QED BY <1>1, <1>2, <2>1, HandsLemma, GoMoves DEF LeaveMove, MayTransfer
<1>3. CASE ~MayTransfer(jobs[j].s, jobs[j].other)
  BY <1>1, <1>3, StoreSteady, GoMoves DEF LeaveMove
<1>4. QED BY <1>2, <1>3

LEMMA DropTransferDoes ==
  ASSUME TypeOK, NEW j \in JobId, DropTransfer(j)
  PROVE  /\ At(j, "transfer")
         /\ \/ /\ Hands(jobs[j].s, jobs[j].other) /\ IsHere(jobs[j].other) /\ Exists
               /\ Moves(j, "free")
            \/ Steady /\ hostLock' = hostLock /\ Moves(j, "free")
<1>1. At(j, "transfer") /\ jobs[j].s \in Session /\ hostLock' = hostLock
  BY HandlerType DEF DropTransfer, Session, locks
<1>2. CASE MayTransfer(jobs[j].s, jobs[j].other)
  <2>1. jobs[j].other \in Session
    BY <1>2 DEF MayTransfer, IsHere, TypeOK, JobsOK, Job
  <2>2. QED BY <1>1, <1>2, <2>1, HandsLemma, GoMoves DEF DropTransfer, MayTransfer
<1>3. CASE ~MayTransfer(jobs[j].s, jobs[j].other)
  BY <1>1, <1>3, StoreSteady, GoMoves DEF DropTransfer
<1>4. QED BY <1>2, <1>3

LEMMA LeaveForceDoes ==
  ASSUME TypeOK, NEW j \in JobId, LeaveForce(j)
  PROVE  At(j, "force") /\ Writes(jobs[j].other, {jobs[j].s}) /\ Moves(j, "flagHeir")
BY WritesLemma, GoMoves DEF LeaveForce, locks

LEMMA RepairWriteDoes ==
  ASSUME TypeOK, NEW j \in JobId, RepairWrite(j)
  PROVE  At(j, "write") /\ Writes(jobs[j].other, jobs[j].seen) /\ Moves(j, "flag")
BY WritesLemma, GoMoves DEF RepairWrite, locks

LEMMA LeaveFlagDoes ==
  ASSUME TypeOK, NEW j \in JobId, jobs[j].other \in Session, LeaveFlag(j)
  PROVE  /\ At(j, "flagHeir") /\ Moves(j, "free") /\ causes' = causes
         /\ Flags({jobs[j].other}, TRUE) \/ (Steady /\ hostLock' = hostLock)
BY FlagsLemma, StoreSteady, GoMoves DEF LeaveFlag, locks

LEMMA RepairFlagDoes ==
  ASSUME TypeOK, NEW j \in JobId, jobs[j].other \in Session, RepairFlag(j)
  PROVE  /\ At(j, "flag")
         /\ \/ Flags({jobs[j].other}, TRUE) /\ Moves(j, "clear") /\ causes' = causes
            \/ Steady /\ hostLock' = hostLock /\ Moves(j, "free") /\ "missed" \in causes'
BY FlagsLemma, StoreSteady, GoMoves DEF RepairFlag, locks

LEMMA RepairClearDoes ==
  ASSUME TypeOK, NEW j \in JobId, RepairClear(j)
  PROVE  /\ At(j, "clear") /\ Moves(j, "free") /\ causes' = causes
         /\ Flags({s \in jobs[j].seen \ {jobs[j].other} : player[s].here}, FALSE)
<1>1. /\ At(j, "clear") /\ Moves(j, "free") /\ causes' = causes
      /\ UNCHANGED <<host, members, hostLock>>
  BY GoMoves DEF RepairClear, locks
<1> DEFINE gone == {s \in jobs[j].seen \ {jobs[j].other} : player[s].here}
<1> DEFINE Off(r) == [r EXCEPT !.isHost = FALSE, !.brief = FALSE]
<1>2. ASSUME NEW r \in Player
      PROVE  Off(r).here = r.here /\ Off(r).connected = r.connected /\ Off(r).isHost = FALSE
  BY <1>2 DEF Player
<1>3. player' = [p \in Session |-> IF p \in gone THEN Off(player[p]) ELSE player[p]]
  BY DEF RepairClear
<1> HIDE DEF Off
<1> HIDE DEF gone
<1>4. \A p \in Session : /\ player'[p].here = player[p].here
                         /\ player'[p].connected = player[p].connected
                         /\ player'[p].isHost = IF p \in gone THEN FALSE ELSE player[p].isHost
  BY <1>2, <1>3 DEF TypeOK
<1>5. Flags(gone, FALSE)
  BY <1>1, <1>4 DEF Flags, Present, TypeOK
<1>6. QED BY <1>1, <1>5 DEF gone

LEMMA LeaveRemoveDoes ==
  ASSUME TypeOK, NEW j \in JobId, LeaveRemove(j)
  PROVE  /\ At(j, "remove") /\ Goes(jobs[j].s) /\ causes \subseteq causes'
         /\ host = jobs[j].s => "skipped" \in causes'
         /\ \/ Moves(j, "count")
            \/ Ends(j) /\ (Exists => "revived" \in causes')
BY HandlerType, GoesLemma, GoMoves, EndMoves DEF LeaveRemove, locks, Session

LEMMA KickRemoveDoes ==
  ASSUME TypeOK, NEW j \in JobId, KickRemove(j)
  PROVE  /\ At(j, "kickRemove") /\ Goes(jobs[j].s) /\ causes \subseteq causes' /\ Ends(j)
         /\ People = {jobs[j].s} => "kicked" \in causes'
         /\ host = jobs[j].s => "missed" \in causes'
BY HandlerType, GoesLemma, EndMoves DEF KickRemove, locks, Session

LEMMA SweepDoes ==
  ASSUME TypeOK, NEW j \in JobId, Sweep(j)
  PROVE  /\ At(j, "sweep") /\ causes' = causes
         /\ \/ Goes(jobs[j].s) /\ Moves(j, "sweepCount")
            \/ Steady /\ hostLock' = hostLock /\ Ends(j)
BY HandlerType, GoesLemma, StoreSteady, GoMoves, EndMoves DEF Sweep, locks, Session

LEMMA KeyExpiresDoes ==
  ASSUME TypeOK, NEW s \in Human, KeyExpires(s)
  PROVE  /\ Goes(s) /\ jobs' = jobs /\ causes \subseteq causes' /\ "lapsed" \in causes'
BY DEF TypeOK, KeyExpires, Goes, Present, NoPlayer, locks, Session

LEMMA LeaveCountDoes ==
  ASSUME TypeOK, NEW j \in JobId, LeaveCount(j)
  PROVE  /\ At(j, "count") /\ Steady /\ hostLock' = hostLock
         /\ \/ People = {} /\ Moves(j, "raze")
            \/ People # {} /\ Ends(j)
BY PruneSteady, GoMoves, EndMoves DEF LeaveCount, locks

LEMMA RazeDoes ==
  ASSUME TypeOK, NEW j \in JobId, Raze(j)
  PROVE  /\ At(j, "raze") /\ Steady /\ hostLock' = hostLock
         /\ Others(j) /\ Same(j) /\ jobs'[j].at = "delete"
<1>1. jobs' = [jobs EXCEPT ![j] = [@ EXCEPT !.at = "delete", !.seen = members]]
  BY DEF Raze
<1>2. Others(j) /\ Same(j) /\ jobs'[j].at = "delete"
  BY <1>1, NoteMoves
<1>3. QED BY <1>2, StoreSteady DEF Raze, locks

LEMMA RazeDeleteDoes ==
  ASSUME TypeOK, NEW j \in JobId, RazeDelete(j)
  PROVE  /\ At(j, "delete") /\ host' = Nobody /\ hostLock' = hostLock /\ Present' = {} /\ Ends(j)
         /\ causes \subseteq causes' /\ (hostLock = Nobody \/ "stale" \in causes')
BY EndMoves DEF RazeDelete, Present, locks

LEMMA RepairDoes ==
  ASSUME TypeOK, NEW j \in JobId, Repair(j)
  PROVE  /\ At(j, "repair") /\ Steady /\ hostLock' = hostLock
         /\ \/ Returns(j) /\ (~Exists \/ HostIsHuman \/ Candidates = {})
            \/ /\ Others(j) /\ Same(j) /\ jobs'[j].at = "repairLock"
               /\ jobs'[j].other \in Candidates
<1>1. At(j, "repair") /\ Steady /\ hostLock' = hostLock
  BY StoreSteady, PruneSteady DEF Repair, locks, store
<1>2. ASSUME NEW c \in Candidates,
             jobs' = [jobs EXCEPT ![j] = [@ EXCEPT !.at = "repairLock", !.other = c]]
      PROVE  /\ Others(j) /\ Same(j) /\ jobs'[j].at = "repairLock"
             /\ jobs'[j].other \in Candidates
  BY <1>2, NoteMoves
<1>3. QED BY <1>1, <1>2, AfterHostMoves DEF Repair

LEMMA RepairRereadDoes ==
  ASSUME TypeOK, NEW j \in JobId, RepairReread(j)
  PROVE  /\ At(j, "reread") /\ Steady /\ hostLock' = hostLock
         /\ \/ Moves(j, "free") /\ (~Exists \/ HostIsHuman)
            \/ /\ Others(j) /\ Same(j) /\ jobs'[j].at = "write" /\ jobs'[j].seen = {host}
               /\ jobs'[j].other = jobs[j].other
<1>1. At(j, "reread") /\ Steady /\ hostLock' = hostLock
  BY StoreSteady DEF RepairReread, locks
<1>2. ASSUME jobs' = [jobs EXCEPT ![j] = [@ EXCEPT !.at = "write", !.seen = {host}]]
      PROVE  /\ Others(j) /\ Same(j) /\ jobs'[j].at = "write" /\ jobs'[j].seen = {host}
             /\ jobs'[j].other = jobs[j].other
  BY <1>2, NoteMoves
<1>3. QED BY <1>1, <1>2, GoMoves DEF RepairReread

LEMMA DropRecheckDoes ==
  ASSUME TypeOK, NEW j \in JobId, DropRecheck(j)
  PROVE  /\ At(j, "recheck") /\ Steady /\ hostLock' = hostLock
         /\ \/ Moves(j, "free")
            \/ /\ Others(j) /\ Same(j) /\ jobs'[j].at = "transfer"
               /\ jobs'[j].other \in Present
<1>1. At(j, "recheck") /\ Steady /\ hostLock' = hostLock
  BY StoreSteady, PruneSteady DEF DropRecheck, locks, store
<1>2. ASSUME NEW h \in Present,
             jobs' = [jobs EXCEPT ![j] = [@ EXCEPT !.at = "transfer", !.other = h]]
      PROVE  /\ Others(j) /\ Same(j) /\ jobs'[j].at = "transfer"
             /\ jobs'[j].other \in Present
  BY <1>2, NoteMoves
<1>3. Heirs({p \in Present \ {jobs[j].s} : player[p].connected}) \subseteq Present
  BY DEF Heirs
<1>4. QED BY <1>1, <1>2, <1>3, GoMoves DEF DropRecheck

LEMMA SweepCountDoes ==
  ASSUME TypeOK, NEW j \in JobId, SweepCount(j)
  PROVE  /\ At(j, "sweepCount") /\ Steady /\ hostLock' = hostLock
         /\ \/ People # {} /\ Moves(j, "repair")
            \/ People = {} /\ Moves(j, "raze")
            \/ People = {} /\ ~Exists /\ Ends(j)
BY PruneSteady, GoMoves, EndMoves DEF SweepCount, locks

\* A sweep that fails before it has removed anybody, or after.
LEMMA SweepFailsDoes ==
  ASSUME TypeOK, NEW j \in JobId, SweepFails(j)
  PROVE  /\ jobs[j].at \in {"sweep", "sweepCount"}
         /\ Ends(j) /\ hostLock' = hostLock /\ causes \subseteq causes'
         /\ \/ Steady /\ At(j, "sweep")
            \/ "uncounted" \in causes' /\ (Steady \/ Goes(jobs[j].s))
<1>1. /\ jobs[j].at \in {"sweep", "sweepCount"} /\ jobs[j].s \in Session
      /\ Ends(j) /\ hostLock' = hostLock /\ causes \subseteq causes'
  BY HandlerType, EndMoves DEF SweepFails, At, locks, Session
<1>2. CASE UNCHANGED store
  BY <1>1, <1>2, StoreSteady DEF SweepFails, At
<1>3. CASE Remove(jobs[j].s) /\ "uncounted" \in causes'
  BY <1>1, <1>3, GoesLemma
<1>4. QED BY <1>2, <1>3 DEF SweepFails

\* Every step is ordinary, or one of those.
RosterStep(j) ==
  \/ Rejoin(j) \/ JoinScript(j) \/ Recreate(j) \/ Reenter(j)
  \/ LeaveLock(j) \/ LeaveMove(j) \/ LeaveForce(j) \/ LeaveFlag(j)
  \/ LeaveRemove(j) \/ LeaveCount(j) \/ Raze(j) \/ RazeDelete(j) \/ KickRemove(j)
  \/ Repair(j) \/ RepairLock(j) \/ RepairReread(j) \/ RepairWrite(j)
  \/ RepairFlag(j) \/ RepairClear(j) \/ FreeHostLock(j)
  \/ DropLock(j) \/ DropRecheck(j) \/ DropTransfer(j)
  \/ Sweep(j) \/ SweepCount(j) \/ SweepFails(j)

LEMMA StepCases ==
  ASSUME TypeOK, [Next]_vars
  PROVE  \/ Ordinary
         \/ \E j \in JobId : RosterStep(j)
         \/ \E j \in JobId, s \in Human : CreateRoom(j, s)
         \/ \E j \in JobId, s \in Human, b \in Bot : AddBot(j, s, b)
         \/ \E s \in Human : KeyExpires(s)
<1>1. ASSUME NEW j \in JobId, JobStep(j) PROVE Ordinary \/ RosterStep(j)
  BY <1>1, OrdinarySteps DEF JobStep, RosterStep
<1>2. ASSUME NEW j \in JobId, NEW s \in Human, Ask(j, s)
      PROVE  Ordinary \/ CreateRoom(j, s) \/ \E b \in Bot : AddBot(j, s, b)
  BY <1>2, OrdinaryAsks DEF Ask
<1>3. ASSUME NEW j \in JobId, NEW s \in Human,
             StartSweep(j, s) \/ \E k \in 1 .. MaxSockets : SocketDrops(j, s, k)
      PROVE  Ordinary
  BY <1>3, OrdinaryAsks
<1>4. QED BY <1>1, <1>2, <1>3, OrdinaryClocks DEF Next

-----------------------------------------------------------------------------
(* What is always so of a handler under way: it holds the lock where it      *)
(* believes it does, it has an heir where it names one, and only a leaver    *)
(* leaves.                                                                   *)

Locked == {"move", "force", "flagHeir", "reread", "write", "flag", "clear", "free",
           "recheck", "transfer"}
Naming == {"repairLock", "reread", "write", "flag", "clear", "lock", "move", "force",
           "flagHeir", "transfer"}
HandlerOK(i) ==
  /\ jobs[i].at \in Locked => hostLock = i
  /\ jobs[i].at \in Naming => jobs[i].other \in Session
  /\ jobs[i].at \in {"lock", "move", "force", "flagHeir", "remove"} => jobs[i].kind = "leave"
HandlersOK == \A i \in JobId : HandlerOK(i)

LEMMA OneMoves ==
  ASSUME HandlersOK, NEW j \in JobId, Others(j), HandlerOK(j)',
         hostLock' = hostLock \/ hostLock = j \/ (hostLock = Nobody /\ hostLock' = j)
  PROVE  HandlersOK'
BY SessionsAssumption DEF HandlersOK, HandlerOK, Others

LEMMA HandlersStep == TypeOK /\ HandlersOK /\ [Next]_vars => HandlersOK'
<1> SUFFICES ASSUME TypeOK, HandlersOK, [Next]_vars PROVE HandlersOK'
  OBVIOUS
<1> USE DEF Locked, Naming
<1>1. CASE Ordinary
  BY <1>1 DEF Ordinary, Aside, Enters, HandlersOK, HandlerOK
<1>2. ASSUME NEW j \in JobId, RosterStep(j) PROVE HandlersOK'
  <2>0. HandlerOK(j) /\ Candidates \subseteq Session /\ Present \subseteq Session
    BY DEF HandlersOK, Candidates, People, Present, TypeOK
  <2> USE DEF HandlerOK, At, Moves, Same, Notes, Ends, Idle, Returns
  <2>1. CASE Rejoin(j)
    BY <2>0, <2>1, RejoinDoes, OneMoves
  <2>2. CASE JoinScript(j)
    BY <2>0, <2>2, JoinScriptDoes, OneMoves DEF Joins
  <2>3. CASE Recreate(j)
    BY <2>0, <2>3, RecreateDoes, OneMoves DEF Joins
  <2>4. CASE Reenter(j)
    BY <2>0, <2>4, ReenterDoes, OneMoves
  <2>5. CASE LeaveLock(j)
    BY <2>0, <2>5, LeaveLockDoes, OneMoves
  <2>6. CASE LeaveMove(j)
    BY <2>0, <2>6, LeaveMoveDoes, OneMoves DEF Hands
  <2>7. CASE LeaveForce(j)
    BY <2>0, <2>7, LeaveForceDoes, OneMoves DEF Writes
  <2>8. CASE LeaveFlag(j)
    <3>1. jobs[j].other \in Session
      BY <2>0, <2>8 DEF LeaveFlag
    <3>2. QED BY <2>0, <2>8, <3>1, LeaveFlagDoes, OneMoves DEF Flags
  <2>9. CASE LeaveRemove(j)
    BY <2>0, <2>9, LeaveRemoveDoes, OneMoves DEF Goes
  <2>10. CASE LeaveCount(j)
    BY <2>0, <2>10, LeaveCountDoes, OneMoves
  <2>11. CASE Raze(j)
    BY <2>0, <2>11, RazeDoes, OneMoves
  <2>12. CASE RazeDelete(j)
    BY <2>0, <2>12, RazeDeleteDoes, OneMoves
  <2>13. CASE KickRemove(j)
    BY <2>0, <2>13, KickRemoveDoes, OneMoves DEF Goes
  <2>14. CASE Repair(j)
    BY <2>0, <2>14, RepairDoes, OneMoves
  <2>15. CASE RepairLock(j)
    BY <2>0, <2>15, RepairLockDoes, OneMoves
  <2>16. CASE RepairReread(j)
    BY <2>0, <2>16, RepairRereadDoes, OneMoves
  <2>17. CASE RepairWrite(j)
    BY <2>0, <2>17, RepairWriteDoes, OneMoves DEF Writes
  <2>18. CASE RepairFlag(j)
    <3>1. jobs[j].other \in Session
      BY <2>0, <2>18 DEF RepairFlag
    <3>2. hostLock' = hostLock
      BY <2>18, <3>1, RepairFlagDoes DEF Flags
    <3>3. At(j, "flag") /\ (Moves(j, "clear") \/ Moves(j, "free"))
      BY <2>18, <3>1, RepairFlagDoes
    <3>4. QED BY <2>0, <3>2, <3>3, OneMoves
  <2>19. CASE RepairClear(j)
    <3>1. hostLock' = hostLock
      BY <2>19, RepairClearDoes DEF Flags
    <3>2. At(j, "clear") /\ Moves(j, "free")
      BY <2>19, RepairClearDoes
    <3>3. QED BY <2>0, <3>1, <3>2, OneMoves
  <2>20. CASE FreeHostLock(j)
    BY <2>0, <2>20, FreeHostLockDoes, OneMoves
  <2>21. CASE DropLock(j)
    BY <2>0, <2>21, DropLockDoes, OneMoves
  <2>22. CASE DropRecheck(j)
    BY <2>0, <2>22, DropRecheckDoes, OneMoves
  <2>23. CASE DropTransfer(j)
    BY <2>0, <2>23, DropTransferDoes, OneMoves DEF Hands
  <2>24. CASE Sweep(j)
    BY <2>0, <2>24, SweepDoes, OneMoves DEF Goes
  <2>25. CASE SweepCount(j)
    BY <2>0, <2>25, SweepCountDoes, OneMoves
  <2>25a. CASE SweepFails(j)
    BY <2>0, <2>25a, SweepFailsDoes, OneMoves
  <2>26. QED
    BY <1>2, <2>1, <2>2, <2>3, <2>4, <2>5, <2>6, <2>7, <2>8, <2>9, <2>10, <2>11, <2>12, <2>13, <2>14, <2>15, <2>16, <2>17, <2>18, <2>19, <2>20, <2>21, <2>22, <2>23, <2>24, <2>25, <2>25a DEF RosterStep
<1>3. ASSUME jobs' = jobs, hostLock' = hostLock PROVE HandlersOK'
  BY <1>3 DEF HandlersOK, HandlerOK
<1>4. QED
  BY <1>1, <1>2, <1>3, StepCases, CreateRoomDoes, AddBotDoes, KeyExpiresDoes DEF Joins, Goes

\* A handler that names an heir names a session, and whoever moves the host
\* holds the lock.
THEOREM HandlersAreSound == Spec => []HandlersOK
<1>1. Init => HandlersOK
  BY DEF Init, HandlersOK, HandlerOK, Idle, Locked, Naming
<1>2. TypeOK /\ HandlersOK /\ [Next]_vars => HandlersOK'
  BY HandlersStep
<1>3. QED BY <1>1, <1>2, TypeIsRight, PTL DEF Spec

-----------------------------------------------------------------------------
(* A room without people goes: as long as it is there, somebody is in it or  *)
(* a handler is on its way to count the people or to raze the room.          *)

Emptying == {"count", "raze", "delete", "sweepCount"}
RoomIsKept ==
  causes \cap {"lapsed", "revived", "kicked", "uncounted"} = {} =>
    (Exists => People # {} \/ \E i \in JobId : jobs[i].at \in Emptying)

\* It is so still when the room and its people are the same and no handler
\* has stopped on that way.
LEMMA RoomUndisturbed ==
  ASSUME RoomIsKept, causes \subseteq causes', Exists' => Exists, Present \subseteq Present',
         \A i \in JobId : jobs[i].at \in Emptying => jobs'[i].at \in Emptying
  PROVE  RoomIsKept'
BY DEF RoomIsKept, People

LEMMA RoomKeptStep == TypeOK /\ HandlersOK /\ RoomIsKept /\ [Next]_vars => RoomIsKept'
<1> SUFFICES ASSUME TypeOK, HandlersOK, RoomIsKept, [Next]_vars PROVE RoomIsKept'
  OBVIOUS
<1>1. CASE Ordinary
  BY <1>1, RoomUndisturbed DEF Ordinary, Steady, Calm, Exists, Aside, Enters, Emptying
<1>2. ASSUME NEW j \in JobId, RosterStep(j) PROVE RoomIsKept'
  <2> USE DEF At, Moves, Same, Notes, Ends, Others, Idle, Returns, Steady, Calm, Emptying
  <2>1. CASE Rejoin(j)
    BY <2>1, RejoinDoes, RoomUndisturbed DEF Exists
  <2>2. CASE JoinScript(j)
    <3>1. CASE Steady
      BY <2>2, <3>1, JoinScriptDoes, RoomUndisturbed DEF Exists, Joins
    <3>2. CASE Joins(jobs[j].s) /\ Moves(j, "repair")
      BY <2>2, <3>2, JoinScriptDoes, RoomUndisturbed DEF Exists, Joins
    <3>3. QED BY <2>2, <3>1, <3>2, JoinScriptDoes
  <2>3. CASE Recreate(j)
    BY <2>3, RecreateDoes, RoomUndisturbed DEF Exists, Joins
  <2>4. CASE Reenter(j)
    BY <2>4, ReenterDoes, RoomUndisturbed DEF Exists
  <2>5. CASE LeaveLock(j)
    BY <2>5, LeaveLockDoes, RoomUndisturbed DEF Exists
  <2>6. CASE LeaveMove(j)
    BY <2>6, LeaveMoveDoes, RoomUndisturbed DEF Exists, Hands
  <2>7. CASE LeaveForce(j)
    <3>1. CASE Exists
      BY <2>7, <3>1, LeaveForceDoes, RoomUndisturbed DEF Exists, Writes
    <3>2. CASE ~Exists
      BY <2>7, <3>2, LeaveForceDoes DEF RoomIsKept, Writes
    <3>3. QED BY <3>1, <3>2
  <2>8. CASE LeaveFlag(j)
    <3>1. jobs[j].other \in Session
      BY <2>8 DEF LeaveFlag, HandlersOK, HandlerOK, Naming
    <3>2. QED BY <2>8, <3>1, LeaveFlagDoes, RoomUndisturbed DEF Exists, Flags
  <2>9. CASE LeaveRemove(j)
    <3>1. CASE Moves(j, "count")
      BY <3>1 DEF RoomIsKept
    <3>2. CASE Ends(j) /\ (Exists => "revived" \in causes')
      BY <2>9, <3>2, LeaveRemoveDoes DEF RoomIsKept, Goes, Exists
    <3>3. QED BY <2>9, <3>1, <3>2, LeaveRemoveDoes
  <2>10. CASE LeaveCount(j)
    <3>1. CASE Moves(j, "raze")
      BY <3>1 DEF RoomIsKept
    <3>2. CASE People # {}
      BY <2>10, <3>2, LeaveCountDoes DEF RoomIsKept, People
    <3>3. QED BY <2>10, <3>1, <3>2, LeaveCountDoes
  <2>11. CASE Raze(j)
    BY <2>11, RazeDoes DEF RoomIsKept
  <2>12. CASE RazeDelete(j)
    BY <2>12, RazeDeleteDoes DEF RoomIsKept, Exists
  <2>13. CASE KickRemove(j)
    <3>1. CASE People = {jobs[j].s}
      BY <2>13, <3>1, KickRemoveDoes DEF RoomIsKept
    <3>2. CASE People # {jobs[j].s} /\ People # {}
      BY <2>13, <3>2, KickRemoveDoes DEF RoomIsKept, People, Goes
    <3>3. CASE People = {}
      BY <2>13, <3>3, KickRemoveDoes DEF RoomIsKept, Exists, Goes
    <3>4. QED BY <3>1, <3>2, <3>3
  <2>14. CASE Repair(j)
    BY <2>14, RepairDoes, RoomUndisturbed DEF Exists
  <2>15. CASE RepairLock(j)
    BY <2>15, RepairLockDoes, RoomUndisturbed DEF Exists
  <2>16. CASE RepairReread(j)
    BY <2>16, RepairRereadDoes, RoomUndisturbed DEF Exists
  <2>17. CASE RepairWrite(j)
    <3>1. CASE Exists
      BY <2>17, <3>1, RepairWriteDoes, RoomUndisturbed DEF Exists, Writes
    <3>2. CASE ~Exists
      BY <2>17, <3>2, RepairWriteDoes DEF RoomIsKept, Writes
    <3>3. QED BY <3>1, <3>2
  <2>18. CASE RepairFlag(j)
    <3>1. jobs[j].other \in Session
      BY <2>18 DEF RepairFlag, HandlersOK, HandlerOK, Naming
    <3>2. QED BY <2>18, <3>1, RepairFlagDoes, RoomUndisturbed DEF Exists, Flags
  <2>19. CASE RepairClear(j)
    BY <2>19, RepairClearDoes, RoomUndisturbed DEF Exists, Flags
  <2>20. CASE FreeHostLock(j)
    BY <2>20, FreeHostLockDoes, RoomUndisturbed DEF Exists
  <2>21. CASE DropLock(j)
    BY <2>21, DropLockDoes, RoomUndisturbed DEF Exists
  <2>22. CASE DropRecheck(j)
    BY <2>22, DropRecheckDoes, RoomUndisturbed DEF Exists
  <2>23. CASE DropTransfer(j)
    BY <2>23, DropTransferDoes, RoomUndisturbed DEF Exists, Hands
  <2>24. CASE Sweep(j)
    <3>1. CASE Moves(j, "sweepCount")
      BY <3>1 DEF RoomIsKept
    <3>2. CASE Steady
      BY <2>24, <3>2, SweepDoes, RoomUndisturbed DEF Exists
    <3>3. QED BY <2>24, <3>1, <3>2, SweepDoes
  <2>25. CASE SweepCount(j)
    <3>1. CASE Moves(j, "raze")
      BY <3>1 DEF RoomIsKept
    <3>2. CASE People # {}
      BY <2>25, <3>2, SweepCountDoes DEF RoomIsKept, People
    <3>3. CASE ~Exists
      BY <2>25, <3>3, SweepCountDoes DEF RoomIsKept, Exists
    <3>4. QED BY <2>25, <3>1, <3>2, <3>3, SweepCountDoes
  <2>25a. CASE SweepFails(j)
    <3>1. CASE Steady /\ At(j, "sweep")
      BY <2>25a, <3>1, SweepFailsDoes, RoomUndisturbed DEF Exists
    <3>2. CASE "uncounted" \in causes'
      BY <3>2 DEF RoomIsKept
    <3>3. QED BY <2>25a, <3>1, <3>2, SweepFailsDoes
  <2>26. QED
    BY <1>2, <2>1, <2>2, <2>3, <2>4, <2>5, <2>6, <2>7, <2>8, <2>9, <2>10, <2>11, <2>12, <2>13, <2>14, <2>15, <2>16, <2>17, <2>18, <2>19, <2>20, <2>21, <2>22, <2>23, <2>24, <2>25, <2>25a DEF RosterStep
<1>3. ASSUME NEW j \in JobId, NEW s \in Human, CreateRoom(j, s) PROVE RoomIsKept'
  BY <1>3, CreateRoomDoes DEF RoomIsKept, People
<1>4. ASSUME NEW j \in JobId, NEW s \in Human, NEW b \in Bot, AddBot(j, s, b) PROVE RoomIsKept'
  BY <1>4, AddBotDoes, RoomUndisturbed DEF Joins, Exists
<1>5. ASSUME NEW s \in Human, KeyExpires(s) PROVE RoomIsKept'
  BY <1>5, KeyExpiresDoes DEF RoomIsKept
<1>6. QED BY <1>1, <1>2, <1>3, <1>4, <1>5, StepCases

\* No room is left to bots, or to nobody, for any number of people, bots and
\* handlers, unless one of the four mishaps has happened.
THEOREM EmptyRoomsAreRazed == Spec => []EmptyRoomsGo
<1>1. Init => RoomIsKept
  BY DEF Init, RoomIsKept, Exists
<1>2. TypeOK /\ HandlersOK /\ RoomIsKept /\ [Next]_vars => RoomIsKept'
  BY RoomKeptStep
<1>3. RoomIsKept => EmptyRoomsGo
  BY DEF RoomIsKept, EmptyRoomsGo, Quiet, At, Emptying
<1>4. QED BY <1>1, <1>2, <1>3, TypeIsRight, HandlersAreSound, PTL DEF Spec

-----------------------------------------------------------------------------
(* A host resolves: as long as a person is connected, the record of the host *)
(* is there or a handler is on its way to repair the host.                   *)

Repairing == {"sweepCount", "repair", "repairLock", "reread", "write"}
HostIsKept ==
  causes \cap {"lapsed", "skipped", "missed", "uncounted"} = {} =>
    (Exists /\ Candidates # {} => IsHere(host) \/ \E i \in JobId : jobs[i].at \in Repairing)

LEMMA HostUndisturbed ==
  ASSUME TypeOK, HostIsKept, causes \subseteq causes', host' = host, Candidates' \subseteq Candidates,
         host \in Session => (player[host].here => player'[host].here),
         \A i \in JobId : jobs[i].at \in Repairing => jobs'[i].at \in Repairing
  PROVE  HostIsKept'
BY DEF HostIsKept, Exists, IsHere, TypeOK

LEMMA SteadyCandidates ==
  ASSUME TypeOK, Steady
  PROVE  /\ Candidates' \subseteq Candidates /\ host' = host /\ causes \subseteq causes'
         /\ host \in Session => (player[host].here => player'[host].here)
BY DEF Steady, Calm, Candidates, People, Present, TypeOK

LEMMA FlagsCandidates ==
  ASSUME TypeOK, NEW set, NEW flag, Flags(set, flag)
  PROVE  /\ Candidates' \subseteq Candidates /\ host' = host
         /\ host \in Session => (player[host].here => player'[host].here)
BY DEF Flags, Candidates, People, Present, TypeOK

LEMMA GoesCandidates ==
  ASSUME TypeOK, NEW s \in Session, Goes(s)
  PROVE  /\ Candidates' \subseteq Candidates /\ host' = host
         /\ host # s => (host \in Session => (player[host].here => player'[host].here))
BY DEF Goes, Candidates, People, Present, TypeOK

LEMMA HostKeptStep == TypeOK /\ HandlersOK /\ HostIsKept /\ [Next]_vars => HostIsKept'
<1> SUFFICES ASSUME TypeOK, HandlersOK, HostIsKept, [Next]_vars PROVE HostIsKept'
  OBVIOUS
<1>1. CASE Ordinary
  BY <1>1, SteadyCandidates, HostUndisturbed DEF Ordinary, Aside, Enters, Repairing
<1>2. ASSUME NEW j \in JobId, RosterStep(j) PROVE HostIsKept'
  <2> USE DEF At, Moves, Same, Notes, Ends, Others, Idle, Returns, Repairing
  <2>1. CASE Rejoin(j)
    <3>1. CASE Moves(j, "repair")
      BY <3>1 DEF HostIsKept
    <3>2. CASE Steady /\ Ends(j)
      BY <2>1, <3>2, RejoinDoes, SteadyCandidates, HostUndisturbed
    <3>3. QED BY <2>1, <3>1, <3>2, RejoinDoes
  <2>2. CASE JoinScript(j)
    <3>1. CASE Moves(j, "repair")
      BY <3>1 DEF HostIsKept
    <3>2. CASE Steady /\ (Ends(j) \/ Moves(j, "recreate"))
      BY <2>2, <3>2, JoinScriptDoes, SteadyCandidates, HostUndisturbed
    <3>3. QED BY <2>2, <3>1, <3>2, JoinScriptDoes
  <2>3. CASE Recreate(j)
    BY <2>3, RecreateDoes DEF HostIsKept
  <2>4. CASE Reenter(j)
    <3>1. CASE Moves(j, "repair")
      BY <3>1 DEF HostIsKept
    <3>2. CASE Steady /\ Ends(j)
      BY <2>4, <3>2, ReenterDoes, SteadyCandidates, HostUndisturbed
    <3>3. QED BY <2>4, <3>1, <3>2, ReenterDoes
  <2>5. CASE LeaveLock(j)
    BY <2>5, LeaveLockDoes, SteadyCandidates, HostUndisturbed
  <2>6. CASE LeaveMove(j)
    <3>1. CASE Hands(jobs[j].s, jobs[j].other) /\ IsHere(jobs[j].other)
      <4>1. jobs[j].other \in Session
        BY <2>6, LeaveMoveDoes DEF HandlersOK, HandlerOK, Naming
      <4>2. QED BY <3>1, <4>1 DEF HostIsKept, Hands, IsHere
    <3>2. CASE Steady /\ hostLock' = hostLock
      BY <2>6, <3>2, LeaveMoveDoes, SteadyCandidates, HostUndisturbed
    <3>3. QED BY <2>6, <3>1, <3>2, LeaveMoveDoes
  <2>7. CASE LeaveForce(j)
    <3>1. jobs[j].other \in Session /\ Nobody \notin Session
      BY <2>7, LeaveForceDoes, SessionsAssumption DEF HandlersOK, HandlerOK, Naming, Session
    <3>2. QED BY <2>7, <3>1, LeaveForceDoes DEF HostIsKept, Writes, IsHere
  <2>8. CASE LeaveFlag(j)
    <3>1. jobs[j].other \in Session
      BY <2>8 DEF LeaveFlag, HandlersOK, HandlerOK, Naming
    <3>2. QED BY <2>8, <3>1, LeaveFlagDoes, FlagsCandidates, SteadyCandidates, HostUndisturbed
  <2>9. CASE LeaveRemove(j)
    <3>1. jobs[j].s \in Session
      BY <2>9, HandlerType DEF LeaveRemove, Session
    <3>2. CASE host = jobs[j].s
      BY <2>9, <3>2, LeaveRemoveDoes DEF HostIsKept
    <3>3. CASE host # jobs[j].s
      BY <2>9, <3>1, <3>3, LeaveRemoveDoes, GoesCandidates, HostUndisturbed
    <3>4. QED BY <3>2, <3>3
  <2>10. CASE LeaveCount(j)
    BY <2>10, LeaveCountDoes, SteadyCandidates, HostUndisturbed
  <2>11. CASE Raze(j)
    BY <2>11, RazeDoes, SteadyCandidates, HostUndisturbed
  <2>12. CASE RazeDelete(j)
    BY <2>12, RazeDeleteDoes DEF HostIsKept, Exists
  <2>13. CASE KickRemove(j)
    <3>1. jobs[j].s \in Session
      BY <2>13, HandlerType DEF KickRemove, Session
    <3>2. CASE host = jobs[j].s
      BY <2>13, <3>2, KickRemoveDoes DEF HostIsKept
    <3>3. CASE host # jobs[j].s
      BY <2>13, <3>1, <3>3, KickRemoveDoes, GoesCandidates, HostUndisturbed
    <3>4. QED BY <3>2, <3>3
  <2>14. CASE Repair(j)
    <3>1. CASE Returns(j) /\ (~Exists \/ HostIsHuman \/ Candidates = {})
      BY <2>14, <3>1, RepairDoes, SteadyCandidates DEF HostIsKept, Exists, HostIsHuman, IsHere, TypeOK
    <3>2. CASE jobs'[j].at = "repairLock"
      BY <3>2 DEF HostIsKept
    <3>3. QED BY <2>14, <3>1, <3>2, RepairDoes
  <2>15. CASE RepairLock(j)
    <3>1. CASE Moves(j, "reread")
      BY <3>1 DEF HostIsKept
    <3>2. CASE "skipped" \in causes'
      BY <3>2 DEF HostIsKept
    <3>3. QED BY <2>15, <3>1, <3>2, RepairLockDoes
  <2>16. CASE RepairReread(j)
    <3>1. CASE Moves(j, "free") /\ (~Exists \/ HostIsHuman)
      BY <2>16, <3>1, RepairRereadDoes, SteadyCandidates DEF HostIsKept, Exists, HostIsHuman, IsHere, TypeOK
    <3>2. CASE jobs'[j].at = "write"
      BY <3>2 DEF HostIsKept
    <3>3. QED BY <2>16, <3>1, <3>2, RepairRereadDoes
  <2>17. CASE RepairWrite(j)
    <3>1. jobs[j].other \in Session /\ Nobody \notin Session
      BY <2>17, RepairWriteDoes, SessionsAssumption DEF HandlersOK, HandlerOK, Naming, Session
    <3>2. QED BY <2>17, <3>1, RepairWriteDoes DEF HostIsKept, Writes, IsHere
  <2>18. CASE RepairFlag(j)
    <3>1. jobs[j].other \in Session
      BY <2>18 DEF RepairFlag, HandlersOK, HandlerOK, Naming
    <3>2. QED BY <2>18, <3>1, RepairFlagDoes, FlagsCandidates, SteadyCandidates, HostUndisturbed
  <2>19. CASE RepairClear(j)
    BY <2>19, RepairClearDoes, FlagsCandidates, HostUndisturbed
  <2>20. CASE FreeHostLock(j)
    BY <2>20, FreeHostLockDoes, SteadyCandidates, HostUndisturbed
  <2>21. CASE DropLock(j)
    BY <2>21, DropLockDoes, SteadyCandidates, HostUndisturbed
  <2>22. CASE DropRecheck(j)
    BY <2>22, DropRecheckDoes, SteadyCandidates, HostUndisturbed
  <2>23. CASE DropTransfer(j)
    <3>1. CASE Hands(jobs[j].s, jobs[j].other) /\ IsHere(jobs[j].other)
      <4>1. jobs[j].other \in Session
        BY <2>23, DropTransferDoes DEF HandlersOK, HandlerOK, Naming
      <4>2. QED BY <3>1, <4>1 DEF HostIsKept, Hands, IsHere
    <3>2. CASE Steady /\ hostLock' = hostLock
      BY <2>23, <3>2, DropTransferDoes, SteadyCandidates, HostUndisturbed
    <3>3. QED BY <2>23, <3>1, <3>2, DropTransferDoes
  <2>24. CASE Sweep(j)
    <3>1. CASE Moves(j, "sweepCount")
      BY <3>1 DEF HostIsKept
    <3>2. CASE Steady /\ Ends(j)
      BY <2>24, <3>2, SweepDoes, SteadyCandidates, HostUndisturbed
    <3>3. QED BY <2>24, <3>1, <3>2, SweepDoes
  <2>25. CASE SweepCount(j)
    <3>1. CASE Moves(j, "repair")
      BY <3>1 DEF HostIsKept
    <3>2. CASE People = {}
      BY <2>25, <3>2, SweepCountDoes, SteadyCandidates DEF HostIsKept, Candidates
    <3>3. QED BY <2>25, <3>1, <3>2, SweepCountDoes
  <2>25a. CASE SweepFails(j)
    <3>1. CASE Steady /\ At(j, "sweep")
      BY <2>25a, <3>1, SweepFailsDoes, SteadyCandidates, HostUndisturbed
    <3>2. CASE "uncounted" \in causes'
      BY <3>2 DEF HostIsKept
    <3>3. QED BY <2>25a, <3>1, <3>2, SweepFailsDoes
  <2>26. QED
    BY <1>2, <2>1, <2>2, <2>3, <2>4, <2>5, <2>6, <2>7, <2>8, <2>9, <2>10, <2>11, <2>12, <2>13, <2>14, <2>15, <2>16, <2>17, <2>18, <2>19, <2>20, <2>21, <2>22, <2>23, <2>24, <2>25, <2>25a DEF RosterStep
<1>3. ASSUME NEW j \in JobId, NEW s \in Human, CreateRoom(j, s) PROVE HostIsKept'
  BY <1>3, CreateRoomDoes, SessionsAssumption DEF HostIsKept, IsHere
<1>4. ASSUME NEW j \in JobId, NEW s \in Human, NEW b \in Bot, AddBot(j, s, b) PROVE HostIsKept'
  <2>1. Joins(b) /\ jobs' = jobs /\ b \notin Human
    BY <1>4, AddBotDoes, SessionsAssumption
  <2>2. Candidates' \subseteq Candidates
    BY <2>1 DEF Joins, Candidates, People, Session
  <2>3. host \in Session => (player[host].here => player'[host].here)
    BY <2>1 DEF Joins
  <2>4. QED BY <2>1, <2>2, <2>3, HostUndisturbed DEF Joins
<1>5. ASSUME NEW s \in Human, KeyExpires(s) PROVE HostIsKept'
  BY <1>5, KeyExpiresDoes DEF HostIsKept
<1>6. QED BY <1>1, <1>2, <1>3, <1>4, <1>5, StepCases

\* A room with a person connected has a host whose record is there, however
\* many people come, leave and drop at once, unless one of the three mishaps
\* has happened.
THEOREM HostsResolve == Spec => []HostResolves
<1>1. Init => HostIsKept
  BY DEF Init, HostIsKept, Exists
<1>2. TypeOK /\ HandlersOK /\ HostIsKept /\ [Next]_vars => HostIsKept'
  BY HostKeptStep
<1>3. HostIsKept => HostResolves
  BY DEF HostIsKept, HostResolves, Quiet, At, Repairing
<1>4. QED BY <1>1, <1>2, <1>3, TypeIsRight, HandlersAreSound, PTL DEF Spec

-----------------------------------------------------------------------------
(* Nobody but the host has the rights of the host.  Between the write of a   *)
(* new host and the end of that handler somebody else may have them: the     *)
(* handler that repairs the host owes it to the host it has seen to take its *)
(* flag, and a leaver to take its own.                                       *)

\* Who is about to be flagged is the host: nobody else moves it meanwhile.
HeirsAreHosts ==
  "stale" \notin causes =>
    \A i \in JobId : jobs[i].at \in {"flag", "flagHeir"} => host = jobs[i].other

OwedBy(i, p) ==
  \/ jobs[i].at \in {"flag", "clear"} /\ p \in jobs[i].seen \ {jobs[i].other}
  \/ jobs[i].kind = "leave" /\ jobs[i].at \in {"flagHeir", "free", "remove"} /\ jobs[i].s = p
Owed(p) == \E i \in JobId : OwedBy(i, p)
FlagsAreOwed ==
  causes \cap {"missed", "revived", "stale"} = {} =>
    \A p \in Present : Exists /\ player[p].isHost => host = p \/ Owed(p)

LEMMA HeirsUndisturbed ==
  ASSUME HeirsAreHosts, causes \subseteq causes', host' = host, NEW j \in JobId, Others(j),
         jobs'[j].at \notin {"flag", "flagHeir"}
  PROVE  HeirsAreHosts'
BY DEF HeirsAreHosts, Others

\* The one who writes the host is the only one about to flag an heir.
LEMMA HeirsWritten ==
  ASSUME HandlersOK, HeirsAreHosts, causes \subseteq causes', NEW j \in JobId, Others(j),
         jobs[j].at \in Locked, jobs'[j].at \in {"flag", "flagHeir"} => host' = jobs'[j].other
  PROVE  HeirsAreHosts'
BY DEF HeirsAreHosts, Others, HandlersOK, HandlerOK, Locked

LEMMA HeirsStep == TypeOK /\ HandlersOK /\ HeirsAreHosts /\ [Next]_vars => HeirsAreHosts'
<1> SUFFICES ASSUME TypeOK, HandlersOK, HeirsAreHosts, [Next]_vars PROVE HeirsAreHosts'
  OBVIOUS
<1>1. CASE Ordinary
  BY <1>1 DEF Ordinary, Steady, Calm, Aside, Enters, HeirsAreHosts
<1>2. ASSUME NEW j \in JobId, RosterStep(j) PROVE HeirsAreHosts'
  <2> USE DEF At, Moves, Same, Notes, Ends, Idle, Returns, Steady, Calm
  <2>1. CASE Rejoin(j)
    BY <2>1, RejoinDoes, HeirsUndisturbed
  <2>2. CASE JoinScript(j)
    BY <2>2, JoinScriptDoes, HeirsUndisturbed DEF Joins
  <2>3. CASE Recreate(j)
    BY <2>3, RecreateDoes, HeirsUndisturbed DEF Joins
  <2>4. CASE Reenter(j)
    BY <2>4, ReenterDoes, HeirsUndisturbed
  <2>5. CASE LeaveLock(j)
    BY <2>5, LeaveLockDoes, HeirsUndisturbed
  <2>6. CASE LeaveMove(j)
    BY <2>6, LeaveMoveDoes, HeirsWritten DEF Hands, Locked
  <2>7. CASE LeaveForce(j)
    BY <2>7, LeaveForceDoes, HeirsWritten DEF Writes, Locked
  <2>8. CASE LeaveFlag(j)
    <3>1. jobs[j].other \in Session
      BY <2>8 DEF LeaveFlag, HandlersOK, HandlerOK, Naming
    <3>2. QED BY <2>8, <3>1, LeaveFlagDoes, HeirsUndisturbed DEF Flags
  <2>9. CASE LeaveRemove(j)
    BY <2>9, LeaveRemoveDoes, HeirsUndisturbed DEF Goes
  <2>10. CASE LeaveCount(j)
    BY <2>10, LeaveCountDoes, HeirsUndisturbed
  <2>11. CASE Raze(j)
    BY <2>11, RazeDoes, HeirsUndisturbed
  <2>12. CASE RazeDelete(j)
    BY <2>12, RazeDeleteDoes, SessionsAssumption DEF HeirsAreHosts, HandlersOK, HandlerOK, Locked, Others
  <2>13. CASE KickRemove(j)
    BY <2>13, KickRemoveDoes, HeirsUndisturbed DEF Goes
  <2>14. CASE Repair(j)
    BY <2>14, RepairDoes, HeirsUndisturbed
  <2>15. CASE RepairLock(j)
    BY <2>15, RepairLockDoes, HeirsUndisturbed
  <2>16. CASE RepairReread(j)
    BY <2>16, RepairRereadDoes, HeirsUndisturbed
  <2>17. CASE RepairWrite(j)
    BY <2>17, RepairWriteDoes, HeirsWritten DEF Writes, Locked
  <2>18. CASE RepairFlag(j)
    <3>1. jobs[j].other \in Session
      BY <2>18 DEF RepairFlag, HandlersOK, HandlerOK, Naming
    <3>2. QED BY <2>18, <3>1, RepairFlagDoes, HeirsUndisturbed DEF Flags
  <2>19. CASE RepairClear(j)
    BY <2>19, RepairClearDoes, HeirsUndisturbed DEF Flags
  <2>20. CASE FreeHostLock(j)
    BY <2>20, FreeHostLockDoes, HeirsUndisturbed
  <2>21. CASE DropLock(j)
    BY <2>21, DropLockDoes, HeirsUndisturbed
  <2>22. CASE DropRecheck(j)
    BY <2>22, DropRecheckDoes, HeirsUndisturbed
  <2>23. CASE DropTransfer(j)
    BY <2>23, DropTransferDoes, HeirsWritten DEF Hands, Locked
  <2>24. CASE Sweep(j)
    BY <2>24, SweepDoes, HeirsUndisturbed DEF Goes
  <2>25. CASE SweepCount(j)
    BY <2>25, SweepCountDoes, HeirsUndisturbed
  <2>25a. CASE SweepFails(j)
    BY <2>25a, SweepFailsDoes, HeirsUndisturbed DEF Goes
  <2>26. QED
    BY <1>2, <2>1, <2>2, <2>3, <2>4, <2>5, <2>6, <2>7, <2>8, <2>9, <2>10, <2>11, <2>12, <2>13, <2>14, <2>15, <2>16, <2>17, <2>18, <2>19, <2>20, <2>21, <2>22, <2>23, <2>24, <2>25, <2>25a DEF RosterStep
<1>3. ASSUME NEW j \in JobId, NEW s \in Human, CreateRoom(j, s) PROVE HeirsAreHosts'
  BY <1>3, CreateRoomDoes, SessionsAssumption
  DEF HeirsAreHosts, HandlersOK, HandlerOK, Naming, Exists, Session
<1>4. ASSUME NEW j \in JobId, NEW s \in Human, NEW b \in Bot, AddBot(j, s, b) PROVE HeirsAreHosts'
  BY <1>4, AddBotDoes DEF Joins, HeirsAreHosts
<1>5. ASSUME NEW s \in Human, KeyExpires(s) PROVE HeirsAreHosts'
  BY <1>5, KeyExpiresDoes DEF Goes, HeirsAreHosts
<1>6. QED BY <1>1, <1>2, <1>3, <1>4, <1>5, StepCases

\* What is owed stays owed when no handler that owes it has moved on.
LEMMA OwedKept ==
  ASSUME NEW j \in JobId, Others(j), NEW p, OwedBy(j, p) => OwedBy(j, p)', Owed(p)
  PROVE  Owed(p)'
BY DEF Owed, OwedBy, Others

LEMMA FlagsUndisturbed ==
  ASSUME FlagsAreOwed, causes \subseteq causes', host' = host,
         \A p \in Present' : player'[p].isHost => p \in Present /\ player[p].isHost,
         \A p \in Present' : Owed(p) => Owed(p)'
  PROVE  FlagsAreOwed'
BY DEF FlagsAreOwed, Exists

\* A handler that owes nobody a flag moves on.
LEMMA FlagsUntouched ==
  ASSUME TypeOK, FlagsAreOwed, NEW j \in JobId, Calm \/ \E s \in Session : Joins(s) \/ Goes(s),
         causes \subseteq causes', Others(j), jobs[j].at \notin {"flag", "clear", "flagHeir", "free", "remove"}
  PROVE  FlagsAreOwed'
<1> DEFINE NoNewFlag == host' = host /\ \A p \in Present' :
                          player'[p].isHost => p \in Present /\ player[p].isHost
<1>1. NoNewFlag
  <2>1. Present \subseteq Session
    BY DEF Present, TypeOK
  <2>2. CASE Calm
    BY <2>1, <2>2 DEF Calm
  <2>3. ASSUME NEW s \in Session, Joins(s) PROVE NoNewFlag
    BY <2>1, <2>3 DEF Joins
  <2>4. ASSUME NEW s \in Session, Goes(s) PROVE NoNewFlag
    BY <2>1, <2>4 DEF Goes
  <2>5. QED BY <2>2, <2>3, <2>4
<1>2. \A p : Owed(p) => Owed(p)'
  BY OwedKept DEF OwedBy
<1>3. QED BY <1>1, <1>2, FlagsUndisturbed

LEMMA FlagsStep ==
  TypeOK /\ HandlersOK /\ HeirsAreHosts /\ FlagsAreOwed /\ [Next]_vars => FlagsAreOwed'
<1> SUFFICES ASSUME TypeOK, HandlersOK, HeirsAreHosts, FlagsAreOwed, [Next]_vars
             PROVE  FlagsAreOwed'
  OBVIOUS
<1>0. Present \subseteq Session /\ Nobody \notin Session /\ Human \subseteq Session
  BY SessionsAssumption DEF Present, TypeOK, Session
<1>1. CASE Ordinary
  <2>1. \A p : Owed(p) => Owed(p)'
    BY <1>1 DEF Ordinary, Aside, Enters, Owed, OwedBy
  <2>2. QED BY <1>0, <1>1, <2>1, FlagsUndisturbed DEF Ordinary, Steady, Calm
<1>2. ASSUME NEW j \in JobId, RosterStep(j) PROVE FlagsAreOwed'
  <2>0. Exists => host # Nobody
    BY DEF Exists
  <2> USE DEF At, Moves, Same, Notes, Ends, Idle, Returns, Steady
  <2>1. CASE Rejoin(j)
    BY <2>1, RejoinDoes, FlagsUntouched DEF Calm
  <2>2. CASE JoinScript(j)
    BY <1>0, <2>2, JoinScriptDoes, FlagsUntouched DEF Joins, Calm
  <2>3. CASE Recreate(j)
    BY <1>0, <2>3, RecreateDoes, FlagsUntouched DEF Joins
  <2>4. CASE Reenter(j)
    BY <2>4, ReenterDoes, FlagsUntouched DEF Calm
  <2>5. CASE LeaveLock(j)
    BY <2>5, LeaveLockDoes, FlagsUntouched DEF Calm
  <2>6. CASE LeaveMove(j)
    <3>1. CASE Hands(jobs[j].s, jobs[j].other) /\ Exists /\ Moves(j, "free")
      <4>1. ASSUME NEW p, Owed(p) PROVE Owed(p)'
        BY <2>6, <3>1, <4>1, LeaveMoveDoes, OwedKept DEF OwedBy
      <4>2. QED BY <1>0, <3>1, <4>1 DEF Hands, FlagsAreOwed
    <3>2. CASE Steady /\ hostLock' = hostLock
      BY <2>6, <3>2, LeaveMoveDoes, FlagsUntouched DEF Calm
    <3>3. QED BY <2>6, <3>1, <3>2, LeaveMoveDoes
  <2>7. CASE LeaveForce(j)
    <3>1. /\ Writes(jobs[j].other, {jobs[j].s}) /\ Others(j)
          /\ jobs'[j].kind = "leave" /\ jobs'[j].at = "flagHeir" /\ jobs'[j].s = jobs[j].s
      BY <2>7, LeaveForceDoes DEF HandlersOK, HandlerOK
    <3>2. ASSUME NEW p, Owed(p) PROVE Owed(p)'
      BY <2>7, <3>1, <3>2, LeaveForceDoes, OwedKept DEF OwedBy
    <3>3. ASSUME NEW p \in {jobs[j].s}, p # jobs[j].other PROVE Owed(p)'
      BY <3>1, <3>3 DEF Owed, OwedBy
    <3>4. QED BY <3>1, <3>2, <3>3 DEF Writes, FlagsAreOwed
  <2>8. CASE LeaveFlag(j)
    <3>1. /\ jobs[j].other \in Session /\ jobs[j].kind = "leave" /\ jobs[j].at = "flagHeir"
          /\ "stale" \notin causes => host = jobs[j].other
      BY <2>8 DEF LeaveFlag, HandlersOK, HandlerOK, Naming, HeirsAreHosts
    <3>2. /\ Moves(j, "free") /\ causes' = causes
          /\ Flags({jobs[j].other}, TRUE) \/ (Steady /\ hostLock' = hostLock)
      BY <2>8, <3>1, LeaveFlagDoes
    <3>3. ASSUME NEW p, Owed(p) PROVE Owed(p)'
      BY <3>1, <3>2, <3>3, OwedKept DEF OwedBy
    <3>4. CASE Flags({jobs[j].other}, TRUE)
      BY <1>0, <3>1, <3>2, <3>3, <3>4 DEF Flags, FlagsAreOwed, Exists
    <3>5. CASE Steady
      BY <1>0, <3>2, <3>3, <3>5, FlagsUndisturbed DEF Calm
    <3>6. QED BY <3>2, <3>4, <3>5
  <2>9. CASE LeaveRemove(j)
    <3>1. /\ jobs[j].at = "remove" /\ jobs[j].s \in Session /\ Others(j) /\ causes \subseteq causes'
          /\ Goes(jobs[j].s)
      BY <2>9, LeaveRemoveDoes, HandlerType DEF LeaveRemove, Session
    <3>2. ASSUME NEW p \in Present', Owed(p) PROVE Owed(p)'
      <4>1. ~OwedBy(j, p)
        BY <3>1, <3>2 DEF OwedBy, Goes
      <4>2. QED BY <3>1, <3>2, <4>1, OwedKept
    <3>3. QED BY <1>0, <3>1, <3>2, FlagsUndisturbed DEF Goes
  <2>10. CASE LeaveCount(j)
    BY <2>10, LeaveCountDoes, FlagsUntouched DEF Calm
  <2>11. CASE Raze(j)
    BY <2>11, RazeDoes, FlagsUntouched DEF Calm
  <2>12. CASE RazeDelete(j)
    BY <2>12, RazeDeleteDoes DEF FlagsAreOwed
  <2>13. CASE KickRemove(j)
    <3>1. jobs[j].s \in Session
      BY <2>13, HandlerType DEF KickRemove, Session
    <3>2. QED BY <2>13, <3>1, KickRemoveDoes, FlagsUntouched
  <2>14. CASE Repair(j)
    BY <2>14, RepairDoes, FlagsUntouched DEF Calm
  <2>15. CASE RepairLock(j)
    BY <2>15, RepairLockDoes, FlagsUntouched DEF Calm
  <2>16. CASE RepairReread(j)
    BY <2>16, RepairRereadDoes, FlagsUntouched DEF Calm
  <2>17. CASE RepairWrite(j)
    <3>1. /\ Writes(jobs[j].other, jobs[j].seen) /\ Others(j)
          /\ jobs'[j].at = "flag" /\ jobs'[j].seen = jobs[j].seen /\ jobs'[j].other = jobs[j].other
      BY <2>17, RepairWriteDoes DEF HandlersOK, HandlerOK
    <3>2. ASSUME NEW p, Owed(p) PROVE Owed(p)'
      BY <2>17, <3>1, <3>2, RepairWriteDoes, OwedKept DEF OwedBy
    <3>3. ASSUME NEW p \in jobs[j].seen, p # jobs[j].other PROVE Owed(p)'
      BY <3>1, <3>3 DEF Owed, OwedBy
    <3>4. QED BY <3>1, <3>2, <3>3 DEF Writes, FlagsAreOwed
  <2>18. CASE RepairFlag(j)
    <3>1. /\ jobs[j].other \in Session /\ jobs[j].at = "flag"
          /\ "stale" \notin causes => host = jobs[j].other
      BY <2>18 DEF RepairFlag, HandlersOK, HandlerOK, Naming, HeirsAreHosts
    <3>2. CASE Flags({jobs[j].other}, TRUE) /\ Moves(j, "clear") /\ causes' = causes
      <4>1. ASSUME NEW p, Owed(p) PROVE Owed(p)'
        BY <3>1, <3>2, <4>1, OwedKept DEF OwedBy
      <4>2. QED BY <1>0, <3>1, <3>2, <4>1 DEF Flags, FlagsAreOwed, Exists
    <3>3. CASE "missed" \in causes'
      BY <3>3 DEF FlagsAreOwed
    <3>4. QED BY <2>18, <3>1, <3>2, <3>3, RepairFlagDoes
  <2>19. CASE RepairClear(j)
    <3> DEFINE gone == {s \in jobs[j].seen \ {jobs[j].other} : player[s].here}
    <3>1. /\ jobs[j].at = "clear" /\ Moves(j, "free") /\ causes' = causes /\ Flags(gone, FALSE)
      BY <2>19, RepairClearDoes
    <3>2. \A p \in Present \ gone : ~OwedBy(j, p)
      BY <3>1 DEF OwedBy, Present
    <3> HIDE DEF gone
    <3>3. ASSUME NEW p \in Present \ gone, Owed(p) PROVE Owed(p)'
      BY <3>1, <3>2, <3>3, OwedKept
    <3>4. QED BY <1>0, <3>1, <3>3 DEF Flags, FlagsAreOwed, Exists
  <2>20. CASE FreeHostLock(j)
    <3>1. jobs[j].at = "free" /\ Calm /\ Others(j) /\ Returns(j)
      BY <2>20, FreeHostLockDoes
    <3>2. ASSUME NEW p, Owed(p) PROVE Owed(p)'
      BY <3>1, <3>2, OwedKept DEF OwedBy
    <3>3. QED BY <1>0, <3>1, <3>2, FlagsUndisturbed DEF Calm
  <2>21. CASE DropLock(j)
    BY <2>21, DropLockDoes, FlagsUntouched DEF Calm
  <2>22. CASE DropRecheck(j)
    BY <2>22, DropRecheckDoes, FlagsUntouched DEF Calm
  <2>23. CASE DropTransfer(j)
    <3>1. CASE Hands(jobs[j].s, jobs[j].other) /\ Exists /\ Moves(j, "free")
      <4>1. ASSUME NEW p, Owed(p) PROVE Owed(p)'
        BY <2>23, <3>1, <4>1, DropTransferDoes, OwedKept DEF OwedBy
      <4>2. QED BY <1>0, <3>1, <4>1 DEF Hands, FlagsAreOwed
    <3>2. CASE Steady /\ hostLock' = hostLock
      BY <2>23, <3>2, DropTransferDoes, FlagsUntouched DEF Calm
    <3>3. QED BY <2>23, <3>1, <3>2, DropTransferDoes
  <2>24. CASE Sweep(j)
    <3>1. jobs[j].s \in Session
      BY <2>24, HandlerType DEF Sweep, Session
    <3>2. QED BY <2>24, <3>1, SweepDoes, FlagsUntouched DEF Calm
  <2>25. CASE SweepCount(j)
    BY <2>25, SweepCountDoes, FlagsUntouched DEF Calm
  <2>25a. CASE SweepFails(j)
    <3>1. jobs[j].s \in Session
      BY <2>25a, HandlerType DEF SweepFails, Session, At
    <3>2. QED BY <2>25a, <3>1, SweepFailsDoes, FlagsUntouched DEF Calm, Steady
  <2>26. QED
    BY <1>2, <2>1, <2>2, <2>3, <2>4, <2>5, <2>6, <2>7, <2>8, <2>9, <2>10, <2>11, <2>12, <2>13, <2>14, <2>15, <2>16, <2>17, <2>18, <2>19, <2>20, <2>21, <2>22, <2>23, <2>24, <2>25, <2>25a DEF RosterStep
<1>3. ASSUME NEW j \in JobId, NEW s \in Human, CreateRoom(j, s) PROVE FlagsAreOwed'
  BY <1>3, CreateRoomDoes DEF FlagsAreOwed
<1>4. ASSUME jobs' = jobs PROVE \A p : Owed(p) => Owed(p)'
  BY <1>4 DEF Owed, OwedBy
<1>5. ASSUME NEW j \in JobId, NEW s \in Human, NEW b \in Bot, AddBot(j, s, b) PROVE FlagsAreOwed'
  <2>1. Joins(b) /\ jobs' = jobs
    BY <1>5, AddBotDoes
  <2>2. QED BY <1>0, <1>4, <2>1, FlagsUndisturbed DEF Joins
<1>6. ASSUME NEW s \in Human, KeyExpires(s) PROVE FlagsAreOwed'
  <2>1. Goes(s) /\ jobs' = jobs /\ causes \subseteq causes'
    BY <1>6, KeyExpiresDoes
  <2>2. QED BY <1>0, <1>4, <2>1, FlagsUndisturbed DEF Goes
<1>7. QED BY <1>1, <1>2, <1>3, <1>5, <1>6, StepCases

\* Nobody but the host of the room has the rights of the host once the
\* handlers are through, whichever repairs, transfers and leaves have crossed,
\* unless one of the three mishaps has happened.
THEOREM OneHostIsFlagged == Spec => []OneHostFlag
<1>1. Init => HeirsAreHosts /\ FlagsAreOwed
  BY DEF Init, HeirsAreHosts, FlagsAreOwed, Exists, Idle
<1>2. TypeOK /\ HandlersOK /\ HeirsAreHosts /\ [Next]_vars => HeirsAreHosts'
  BY HeirsStep
<1>3. TypeOK /\ HandlersOK /\ HeirsAreHosts /\ FlagsAreOwed /\ [Next]_vars => FlagsAreOwed'
  BY FlagsStep
<1>4. FlagsAreOwed => OneHostFlag
  BY DEF FlagsAreOwed, OneHostFlag, Quiet, At, Owed, OwedBy
<1>5. QED BY <1>1, <1>2, <1>3, <1>4, TypeIsRight, HandlersAreSound, PTL DEF Spec

-----------------------------------------------------------------------------
(* Who comes back by a token stays.  A handler has been called by a socket   *)
(* the session has had, and the disconnect handler by one that is gone; it   *)
(* marks the player under the player-mutation lock.                          *)

Coming == {"repair", "repairLock", "reread", "write", "flag", "clear", "free", "reentered"}
CallOK(i) ==
  /\ jobs[i].at # "idle" => jobs[i].k <= socket[jobs[i].s]
  /\ jobs[i].at \in {"drop", "owner", "mint", "check", "mark"} => jobs[i].k \notin live[jobs[i].s]
  /\ jobs[i].at = "mark" => playerLock[jobs[i].s] = i
  /\ jobs[i].at \in {"consume", "reenter", "reentered"} => jobs[i].kind = "reconnect"
  /\ jobs[i].kind = "reconnect" => jobs[i].at \in {"consume", "reenter"} \cup Coming
CallsOK ==
  /\ \A i \in JobId : CallOK(i)
  /\ \A s \in Human : \A k \in live[s] : 1 <= k /\ k <= socket[s]

\* No socket opens, and no session gets mapped or comes back.
LineKept ==
  /\ socket' = socket
  /\ \A s \in Human : /\ live'[s] \subseteq live[s]
                      /\ entered'[s] = "reconnect" => entered[s] = "reconnect"
                      /\ mapped'[s] \in {0, mapped[s]}

LEMMA RosterLine ==
  ASSUME TypeOK, NEW j \in JobId, RosterStep(j)
  PROVE  LineKept /\ playerLock' = playerLock
<1> USE DEF LineKept, client, locks
<1>1. CASE Rejoin(j)
  BY <1>1 DEF Rejoin, TypeOK
<1>2. CASE JoinScript(j)
  BY <1>2 DEF JoinScript, TypeOK
<1>3. CASE Recreate(j)
  BY <1>3 DEF Recreate, TypeOK
<1>4. CASE Reenter(j)
  BY <1>4 DEF Reenter, TypeOK
<1>5. CASE LeaveLock(j)
  BY <1>5 DEF LeaveLock, TypeOK
<1>6. CASE LeaveMove(j)
  BY <1>6 DEF LeaveMove, TypeOK
<1>7. CASE LeaveForce(j)
  BY <1>7 DEF LeaveForce, TypeOK
<1>8. CASE LeaveFlag(j)
  BY <1>8 DEF LeaveFlag, TypeOK
<1>9. CASE LeaveRemove(j)
  BY <1>9 DEF LeaveRemove, TypeOK
<1>10. CASE LeaveCount(j)
  BY <1>10 DEF LeaveCount, TypeOK
<1>11. CASE Raze(j)
  BY <1>11 DEF Raze, TypeOK
<1>12. CASE RazeDelete(j)
  BY <1>12 DEF RazeDelete, TypeOK
<1>13. CASE KickRemove(j)
  BY <1>13 DEF KickRemove, TypeOK
<1>14. CASE Repair(j)
  BY <1>14 DEF Repair, TypeOK
<1>15. CASE RepairLock(j)
  BY <1>15 DEF RepairLock, TypeOK
<1>16. CASE RepairReread(j)
  BY <1>16 DEF RepairReread, TypeOK
<1>17. CASE RepairWrite(j)
  BY <1>17 DEF RepairWrite, TypeOK
<1>18. CASE RepairFlag(j)
  BY <1>18 DEF RepairFlag, TypeOK
<1>19. CASE RepairClear(j)
  BY <1>19 DEF RepairClear, TypeOK
<1>20. CASE FreeHostLock(j)
  BY <1>20 DEF FreeHostLock, TypeOK
<1>21. CASE DropLock(j)
  BY <1>21 DEF DropLock, TypeOK
<1>22. CASE DropRecheck(j)
  BY <1>22 DEF DropRecheck, TypeOK
<1>23. CASE DropTransfer(j)
  BY <1>23 DEF DropTransfer, TypeOK
<1>24. CASE Sweep(j)
  BY <1>24 DEF Sweep, TypeOK
<1>25. CASE SweepCount(j)
  BY <1>25 DEF SweepCount, TypeOK
<1>25a. CASE SweepFails(j)
  BY <1>25a DEF SweepFails, TypeOK
<1>26. QED
    BY <1>1, <1>2, <1>3, <1>4, <1>5, <1>6, <1>7, <1>8, <1>9, <1>10, <1>11, <1>12, <1>13,
     <1>14, <1>15, <1>16, <1>17, <1>18, <1>19, <1>20, <1>21, <1>22, <1>23, <1>24, <1>25, <1>25a DEF
     RosterStep

\* Where such a step leads its handler.
Advances(j) ==
  /\ Others(j) /\ jobs[j].at \notin {"idle", "drop", "owner", "mint", "check", "mark", "consume",
                                      "reentered"}
  /\ jobs[j].at = "reenter" => Reenter(j)
  /\ \/ jobs'[j] = Idle
     \/ /\ Same(j)
        /\ jobs'[j].at \notin {"idle", "drop", "owner", "mint", "check", "mark", "consume", "reenter"}
        /\ jobs[j].kind = "reconnect" => jobs'[j].at \in Coming
        /\ jobs'[j].at = "reentered" => jobs[j].kind = "reconnect"

LEMMA RosterAdvances ==
  ASSUME TypeOK, HandlersOK, CallsOK, NEW j \in JobId, RosterStep(j)
  PROVE  Advances(j)
<1>0. CallOK(j)
  BY DEF CallsOK
<1> USE DEF At, Moves, Ends, Returns, Advances, CallOK, Coming
<1>1. CASE Rejoin(j)
  BY <1>0, <1>1, RejoinDoes
<1>2. CASE JoinScript(j)
  BY <1>0, <1>2, JoinScriptDoes
<1>3. CASE Recreate(j)
  BY <1>0, <1>3, RecreateDoes
<1>4. CASE Reenter(j)
  BY <1>0, <1>4, ReenterDoes
<1>5. CASE LeaveLock(j)
  BY <1>0, <1>5, LeaveLockDoes
<1>6. CASE LeaveMove(j)
  BY <1>0, <1>6, LeaveMoveDoes
<1>7. CASE LeaveForce(j)
  BY <1>0, <1>7, LeaveForceDoes
<1>8. CASE LeaveFlag(j)
  <2>1. jobs[j].other \in Session
    BY <1>8 DEF LeaveFlag, HandlersOK, HandlerOK, Naming
  <2>2. QED BY <1>0, <1>8, <2>1, LeaveFlagDoes
<1>9. CASE LeaveRemove(j)
  BY <1>0, <1>9, LeaveRemoveDoes
<1>10. CASE LeaveCount(j)
  BY <1>0, <1>10, LeaveCountDoes
<1>11. CASE Raze(j)
  BY <1>0, <1>11, RazeDoes
<1>12. CASE RazeDelete(j)
  BY <1>0, <1>12, RazeDeleteDoes
<1>13. CASE KickRemove(j)
  BY <1>0, <1>13, KickRemoveDoes
<1>14. CASE Repair(j)
  BY <1>0, <1>14, RepairDoes
<1>15. CASE RepairLock(j)
  BY <1>0, <1>15, RepairLockDoes
<1>16. CASE RepairReread(j)
  BY <1>0, <1>16, RepairRereadDoes
<1>17. CASE RepairWrite(j)
  BY <1>0, <1>17, RepairWriteDoes
<1>18. CASE RepairFlag(j)
  <2>1. jobs[j].other \in Session
    BY <1>18 DEF RepairFlag, HandlersOK, HandlerOK, Naming
  <2>2. QED BY <1>0, <1>18, <2>1, RepairFlagDoes
<1>19. CASE RepairClear(j)
  BY <1>0, <1>19, RepairClearDoes
<1>20. CASE FreeHostLock(j)
  BY <1>0, <1>20, FreeHostLockDoes
<1>21. CASE DropLock(j)
  BY <1>0, <1>21, DropLockDoes
<1>22. CASE DropRecheck(j)
  BY <1>0, <1>22, DropRecheckDoes
<1>23. CASE DropTransfer(j)
  BY <1>0, <1>23, DropTransferDoes
<1>24. CASE Sweep(j)
  BY <1>0, <1>24, SweepDoes
<1>25. CASE SweepCount(j)
  BY <1>0, <1>25, SweepCountDoes
<1>25a. CASE SweepFails(j)
  BY <1>0, <1>25a, SweepFailsDoes
<1>26. QED
    BY <1>1, <1>2, <1>3, <1>4, <1>5, <1>6, <1>7, <1>8, <1>9, <1>10, <1>11, <1>12, <1>13,
     <1>14, <1>15, <1>16, <1>17, <1>18, <1>19, <1>20, <1>21, <1>22, <1>23, <1>24, <1>25, <1>25a DEF
     RosterStep

\* A handler is called for a socket the session has had; a disconnect handler
\* for one that is gone.
Rings(i) ==
  /\ jobs[i].at = "idle" /\ jobs'[i].s \in Human /\ jobs'[i].k <= socket[jobs'[i].s]
  /\ \/ /\ jobs'[i].kind = "drop" /\ jobs'[i].at = "drop"
        /\ jobs'[i].k \notin live'[jobs'[i].s]
     \/ jobs'[i].kind = "reconnect" /\ jobs'[i].at = "consume"
     \/ /\ jobs'[i].kind # "reconnect"
        /\ jobs'[i].at \in {"rejoin", "script", "lock", "remove", "repair", "kickRemove", "sweep"}
Waiting == \A i \in JobId : jobs'[i] = jobs[i] \/ Rings(i)

LEMMA BeginCalls ==
  ASSUME TypeOK, NEW j \in JobId, NEW kind \in Kind, NEW step \in Step, NEW s \in Human,
         NEW o, NEW b, NEW c
  PROVE  LET r == Begin(j, kind, step, s) IN
           /\ r.s = s /\ r.k = socket[s]
           /\ [r EXCEPT !.other = o, !.was = b].s = s
           /\ [r EXCEPT !.other = o, !.was = b].k = socket[s]
           /\ [r EXCEPT !.was = b].s = s /\ [r EXCEPT !.was = b].k = socket[s]
           /\ [r EXCEPT !.tok = c].s = s /\ [r EXCEPT !.tok = c].k = socket[s]
           /\ [r EXCEPT !.k = c].s = s /\ [r EXCEPT !.k = c].k = c
           /\ [r EXCEPT !.k = c, !.other = o].s = s
           /\ [r EXCEPT !.k = c, !.other = o].k = c
<1> DEFINE r == Begin(j, kind, step, s)
<1>1. r \in Job /\ r.s = s /\ r.k = socket[s]
  BY BeginType DEF Begin, Idle
<1> HIDE DEF r
<1>2. /\ [r EXCEPT !.other = o, !.was = b].s = s
      /\ [r EXCEPT !.other = o, !.was = b].k = socket[s]
      /\ [r EXCEPT !.was = b].s = s /\ [r EXCEPT !.was = b].k = socket[s]
      /\ [r EXCEPT !.tok = c].s = s /\ [r EXCEPT !.tok = c].k = socket[s]
      /\ [r EXCEPT !.k = c].s = s /\ [r EXCEPT !.k = c].k = c
      /\ [r EXCEPT !.k = c, !.other = o].s = s
      /\ [r EXCEPT !.k = c, !.other = o].k = c
  BY <1>1 DEF Job
<1>3. QED BY <1>1, <1>2 DEF r

LEMMA StartsRing ==
  ASSUME TypeOK, NEW j \in JobId, At(j, "idle"), NEW r, jobs' = [jobs EXCEPT ![j] = r],
         r.s \in Human, r.k <= socket[r.s],
         \/ r.kind = "drop" /\ r.at = "drop" /\ r.k \notin live'[r.s]
         \/ r.kind = "reconnect" /\ r.at = "consume"
         \/ r.kind # "reconnect"
            /\ r.at \in {"rejoin", "script", "lock", "remove", "repair", "kickRemove", "sweep"}
  PROVE  Waiting
BY DEF Waiting, Rings, TypeOK, JobsOK, At

LEMMA AsksLine ==
  ASSUME TypeOK, CallsOK, NEW j \in JobId, NEW s \in Human,
         \/ StartJoin(j, s) \/ StartReconnect(j, s) \/ StartLeave(j, s) \/ StartResync(j, s)
         \/ StartSweep(j, s)
         \/ \E d \in JobId, t \in Human : StartKick(j, d, s, t)
         \/ \E k \in 1 .. MaxSockets : SocketDrops(j, s, k)
  PROVE  LineKept /\ playerLock' = playerLock /\ Waiting
<1>0. socket[s] <= socket[s] /\ 0 <= socket[s]
  BY BoundsAssumption DEF TypeOK
<1>1. CASE StartJoin(j, s)
  <2>1. /\ At(j, "idle") /\ LineKept /\ playerLock' = playerLock
        /\ \/ jobs' = [jobs EXCEPT ![j] = Begin(j, "join", "rejoin", s)]
           \/ jobs' = [jobs EXCEPT ![j] = Begin(j, "join", "script", s)]
    BY <1>1 DEF StartJoin, Asks, MayAsk, locks, client, LineKept, TypeOK
  <2>2. /\ LET r == Begin(j, "join", "rejoin", s) IN
             r.kind = "join" /\ r.at = "rejoin" /\ r.s = s /\ r.k = socket[s]
        /\ LET r == Begin(j, "join", "script", s) IN
             r.kind = "join" /\ r.at = "script" /\ r.s = s /\ r.k = socket[s]
    BY BeginFields, BeginCalls, BeginNames
  <2>3. QED BY <1>0, <2>1, <2>2, StartsRing
<1>2. CASE StartReconnect(j, s)
  <2> DEFINE r == [Begin(j, "reconnect", "consume", s) EXCEPT !.tok = held[s]]
  <2>1. /\ At(j, "idle") /\ LineKept /\ playerLock' = playerLock
        /\ jobs' = [jobs EXCEPT ![j] = r]
    BY <1>2 DEF StartReconnect, Asks, MayAsk, locks, client, LineKept, TypeOK
  <2>2. r.kind = "reconnect" /\ r.at = "consume" /\ r.s = s /\ r.k = socket[s]
    BY BeginFields, BeginCalls, BeginNames
  <2> HIDE DEF r
  <2>3. QED BY <1>0, <2>1, <2>2, StartsRing
<1>3. CASE StartLeave(j, s)
  <2>1. At(j, "idle") /\ LineKept /\ playerLock' = playerLock
    BY <1>3 DEF StartLeave, Asks, MayAsk, locks, client, LineKept, TypeOK
  <2>2. ASSUME NEW h, jobs' = [jobs EXCEPT ![j] =
                                 [Begin(j, "leave", "lock", s) EXCEPT !.other = h, !.was = TRUE]]
        PROVE  Waiting
    <3> DEFINE r == [Begin(j, "leave", "lock", s) EXCEPT !.other = h, !.was = TRUE]
    <3>1. r.kind = "leave" /\ r.at = "lock" /\ r.s = s /\ r.k = socket[s]
      BY BeginFields, BeginCalls, BeginNames
    <3> HIDE DEF r
    <3>2. jobs' = [jobs EXCEPT ![j] = r]
      BY <2>2 DEF r
    <3>3. QED BY <1>0, <2>1, <3>1, <3>2, StartsRing
  <2>3. ASSUME jobs' = [jobs EXCEPT ![j] = [Begin(j, "leave", "remove", s) EXCEPT !.was = Exists]]
        PROVE  Waiting
    <3> DEFINE r == [Begin(j, "leave", "remove", s) EXCEPT !.was = Exists]
    <3>1. r.kind = "leave" /\ r.at = "remove" /\ r.s = s /\ r.k = socket[s]
      BY BeginFields, BeginCalls, BeginNames
    <3> HIDE DEF r
    <3>2. jobs' = [jobs EXCEPT ![j] = r]
      BY <2>3 DEF r
    <3>3. QED BY <1>0, <2>1, <3>1, <3>2, StartsRing
  <2>4. QED BY <1>3, <2>1, <2>2, <2>3 DEF StartLeave
<1>4. CASE StartResync(j, s)
  <2>1. /\ At(j, "idle") /\ LineKept /\ playerLock' = playerLock
        /\ jobs' = [jobs EXCEPT ![j] = Begin(j, "resync", "repair", s)]
    BY <1>4 DEF StartResync, Asks, MayAsk, locks, client, LineKept, TypeOK
  <2>2. LET r == Begin(j, "resync", "repair", s) IN
          r.kind = "resync" /\ r.at = "repair" /\ r.s = s /\ r.k = socket[s]
    BY BeginFields, BeginCalls, BeginNames
  <2>3. QED BY <1>0, <2>1, <2>2, StartsRing
<1>5. CASE StartSweep(j, s)
  <2> DEFINE r == [Begin(j, "sweep", "sweep", s) EXCEPT !.k = 0]
  <2>1. /\ At(j, "idle") /\ LineKept /\ playerLock' = playerLock
        /\ jobs' = [jobs EXCEPT ![j] = r]
    BY <1>5 DEF StartSweep, locks, client, LineKept, TypeOK
  <2>2. r.kind = "sweep" /\ r.at = "sweep" /\ r.s = s /\ r.k = 0
    BY BeginFields, BeginCalls, BeginNames
  <2> HIDE DEF r
  <2>3. QED BY <1>0, <2>1, <2>2, StartsRing
<1>6. ASSUME NEW d \in JobId, NEW t \in Human, StartKick(j, d, s, t)
      PROVE  LineKept /\ playerLock' = playerLock /\ Waiting
  <2> DEFINE kick == [Begin(j, "kick", "kickRemove", t) EXCEPT !.k = 0, !.other = s]
             drop == Begin(d, "drop", "drop", t)
             up   == entered[t] # "no" /\ Online(t)
  <2>1. /\ kick.kind = "kick" /\ kick.at = "kickRemove" /\ kick.s = t /\ kick.k = 0
        /\ drop.kind = "drop" /\ drop.at = "drop" /\ drop.s = t /\ drop.k = socket[t]
    BY BeginFields, BeginCalls, BeginNames
  <2>2. /\ At(j, "idle") /\ At(d, "idle") /\ d # j /\ playerLock' = playerLock
        /\ socket' = socket /\ mapped' = mapped
        /\ jobs' = IF up THEN [jobs EXCEPT ![j] = kick, ![d] = drop] ELSE [jobs EXCEPT ![j] = kick]
        /\ live' = [live EXCEPT ![t] = IF up THEN @ \ {socket[t]} ELSE @]
        /\ entered' = [entered EXCEPT ![t] = IF up THEN "no" ELSE @]
    BY <1>6 DEF StartKick, Asks, MayAsk, locks
  <2> HIDE DEF kick, drop, up
  <2>3. LineKept
    BY <2>2 DEF LineKept, TypeOK
  <2>4. socket[t] <= socket[t] /\ 0 <= socket[t]
    BY BoundsAssumption DEF TypeOK
  <2>5. CASE up
    <3>1. socket[t] \notin live'[t]
      BY <2>2, <2>5 DEF TypeOK
    <3>2. Rings(j) /\ Rings(d) /\ \A i \in JobId \ {j, d} : jobs'[i] = jobs[i]
      BY <2>1, <2>2, <2>4, <2>5, <3>1 DEF Rings, TypeOK, JobsOK, At
    <3>3. QED BY <2>2, <2>3, <3>2 DEF Waiting
  <2>6. CASE ~up
    BY <2>1, <2>2, <2>3, <2>4, <2>6, StartsRing
  <2>7. QED BY <2>5, <2>6
<1>7. ASSUME NEW k \in 1 .. MaxSockets, SocketDrops(j, s, k)
      PROVE  LineKept /\ playerLock' = playerLock /\ Waiting
  <2> DEFINE r == [Begin(j, "drop", "drop", s) EXCEPT !.k = k]
  <2>0. /\ At(j, "idle") /\ playerLock' = playerLock /\ socket' = socket /\ mapped' = mapped
        /\ jobs' = [jobs EXCEPT ![j] = r] /\ k \in live[s] /\ live' = [live EXCEPT ![s] = @ \ {k}]
        /\ entered' = [entered EXCEPT ![s] = IF k = socket[s] THEN "no" ELSE @]
    BY <1>7 DEF SocketDrops, locks
  <2>1. r.kind = "drop" /\ r.at = "drop" /\ r.s = s /\ r.k = k
    <3>1. "drop" \in Kind /\ "drop" \in Step
      BY DEF Kind, Step
    <3>2. r.kind = "drop" /\ r.at = "drop"
      BY <3>1, BeginFields
    <3>3. r.s = s /\ r.k = k
      BY <3>1, BeginCalls
    <3>4. QED BY <3>2, <3>3
  <2> HIDE DEF r
  <2>2. LineKept
    BY <2>0 DEF LineKept, TypeOK
  <2>3. k <= socket[s] /\ k \notin live'[s]
    BY <2>0 DEF CallsOK, TypeOK
  <2>4. QED BY <2>0, <2>1, <2>2, <2>3, StartsRing
<1>8. QED BY <1>1, <1>2, <1>3, <1>4, <1>5, <1>6, <1>7

\* So it is when no handler moves, but for the handshake.
LEMMA ClocksLine ==
  ASSUME TypeOK,
         \/ \E s \in Human : GraceEnds(s) \/ GetToken(s) \/ KeyExpires(s)
         \/ \E j \in JobId, s \in Human : CreateRoom(j, s) \/ \E b \in Bot : AddBot(j, s, b)
         \/ RefreshTTL
         \/ UNCHANGED vars
  PROVE  LineKept /\ playerLock' = playerLock /\ Waiting
<1> USE DEF LineKept, Waiting, client, locks
<1>1. ASSUME NEW s \in Human, GraceEnds(s) \/ GetToken(s) \/ KeyExpires(s)
      PROVE  LineKept /\ playerLock' = playerLock /\ Waiting
  BY <1>1 DEF GraceEnds, GetToken, KeyExpires, TypeOK
<1>2. ASSUME NEW j \in JobId, NEW s \in Human, CreateRoom(j, s) \/ \E b \in Bot : AddBot(j, s, b)
      PROVE  LineKept /\ playerLock' = playerLock /\ Waiting
  BY <1>2 DEF CreateRoom, AddBot, TypeOK
<1>3. CASE RefreshTTL
  BY <1>3 DEF RefreshTTL
<1>4. CASE UNCHANGED vars
  BY <1>4 DEF vars
<1>5. QED BY <1>1, <1>2, <1>3, <1>4

\* The steps that are left: of the answer to a join or a reconnection, of the
\* token, and of the disconnect handler up to the host lock.
Serves(j) ==
  /\ Others(j) /\ jobs'[j].kind = jobs[j].kind
  /\ jobs'[j].s = jobs[j].s /\ jobs'[j].k = jobs[j].k

LEMMA ServesLemma ==
  ASSUME NEW j \in JobId, NEW step, Moves(j, step)
  PROVE  Serves(j) /\ jobs'[j].at = step
BY DEF Moves, Same, Serves

LEMMA JoinedLine ==
  ASSUME TypeOK, NEW j \in JobId, Joined(j)
  PROVE  LineKept /\ playerLock' = playerLock /\ Ends(j)
BY EndMoves DEF Joined, LineKept, locks, TypeOK

LEMMA ConsumeLine ==
  ASSUME TypeOK, NEW j \in JobId, Consume(j)
  PROVE  /\ LineKept /\ playerLock' = playerLock /\ jobs[j].at = "consume"
         /\ Ends(j) \/ (Serves(j) /\ jobs'[j].at = "reenter")
BY EndMoves, GoMoves, ServesLemma DEF Consume, LineKept, client, locks, At

LEMMA ReenteredLine ==
  ASSUME TypeOK, NEW j \in JobId, Reentered(j)
  PROVE  /\ UNCHANGED <<player, socket, live, mapped, playerLock>> /\ Ends(j)
         /\ jobs[j].at = "reentered" /\ jobs[j].s \in Human
         /\ \A s \in Human : entered'[s] = "reconnect" =>
              entered[s] = "reconnect" \/ (s = jobs[j].s /\ jobs[j].k = socket[s])
BY EndMoves, HandlerType DEF Reentered, Answered, locks, At, TypeOK

LEMMA DropLine ==
  ASSUME TypeOK, NEW j \in JobId, Drop(j)
  PROVE  /\ LineKept /\ live' = live /\ playerLock' = playerLock /\ jobs[j].at = "drop"
         /\ Ends(j) \/ (Serves(j) /\ jobs'[j].at = "owner")
<1>1. LineKept /\ live' = live /\ playerLock' = playerLock /\ jobs[j].at = "drop"
  BY DEF Drop, LineKept, client, locks, At
<1>2. CASE End(j)
  BY <1>1, <1>2, EndMoves
<1>3. CASE jobs' = [jobs EXCEPT ![j] = [@ EXCEPT !.at = "owner", !.was = player[jobs[j].s].isHost]]
  <2>1. jobs[j] \in Job /\ jobs \in [JobId -> Job]
    BY DEF TypeOK, JobsOK
  <2> DEFINE q == [jobs[j] EXCEPT !.at = "owner", !.was = player[jobs[j].s].isHost]
  <2>2. q.at = "owner" /\ q.kind = jobs[j].kind /\ q.s = jobs[j].s /\ q.k = jobs[j].k
    BY <2>1, NoteFields
  <2>3. jobs' = [jobs EXCEPT ![j] = q]
    BY <1>3
  <2> HIDE DEF q
  <2>4. jobs'[j] = q /\ Others(j)
    BY <2>1, <2>3 DEF Others
  <2>5. Serves(j) /\ jobs'[j].at = "owner"
    BY <2>2, <2>4 DEF Serves
  <2>6. QED BY <1>1, <2>5
<1>4. QED BY <1>2, <1>3 DEF Drop

LEMMA DropOwnerLine ==
  ASSUME TypeOK, NEW j \in JobId, DropOwner(j) \/ DropToken(j)
  PROVE  /\ LineKept /\ live' = live /\ playerLock' = playerLock
         /\ jobs[j].at \in {"owner", "mint"}
         /\ Ends(j) \/ (Serves(j) /\ jobs'[j].at \in {"mint", "check"})
BY EndMoves, GoMoves, ServesLemma DEF DropOwner, DropToken, LineKept, client, locks, At

LEMMA DropCheckLine ==
  ASSUME TypeOK, NEW j \in JobId, DropCheck(j)
  PROVE  /\ LineKept /\ live' = live /\ mapped' = mapped
         /\ jobs[j].at = "check" /\ jobs[j].s \in Human
         /\ \/ Ends(j) /\ playerLock' = playerLock
            \/ /\ Serves(j) /\ jobs'[j].at = "mark"
               /\ playerLock[jobs[j].s] = Nobody
               /\ playerLock' = [playerLock EXCEPT ![jobs[j].s] = j]
               /\ mapped[jobs[j].s] \in {0, jobs[j].k}
<1>1. LineKept /\ live' = live /\ mapped' = mapped /\ jobs[j].at = "check" /\ jobs[j].s \in Human
  BY HandlerType DEF DropCheck, LineKept, client, At
<1>2. QED BY <1>1, EndMoves, GoMoves, ServesLemma DEF DropCheck

LEMMA DropMarkLine ==
  ASSUME TypeOK, NEW j \in JobId, DropMark(j)
  PROVE  /\ LineKept /\ live' = live /\ jobs[j].at = "mark" /\ jobs[j].s \in Human
         /\ Ends(j) \/ (Serves(j) /\ jobs'[j].at = "plan")
         /\ playerLock' = [playerLock EXCEPT ![jobs[j].s] = Nobody]
         /\ \A p \in Session \ {jobs[j].s} : player'[p] = player[p]
<1>1. LineKept /\ live' = live /\ jobs[j].at = "mark" /\ jobs[j].s \in Human
  BY HandlerType DEF DropMark, LineKept, client, At
<1>2. \A p \in Session \ {jobs[j].s} : player'[p] = player[p]
  <2>1. player' = player \/ \E r : player' = [player EXCEPT ![jobs[j].s] = r]
    BY DEF DropMark
  <2>2. QED BY <2>1 DEF TypeOK
<1>3. QED BY <1>1, <1>2, EndMoves, GoMoves, ServesLemma DEF DropMark

LEMMA DropPlanLine ==
  ASSUME TypeOK, NEW j \in JobId, DropPlan(j) \/ DropShorten(j)
  PROVE  /\ LineKept /\ live' = live /\ playerLock' = playerLock
         /\ jobs[j].at \in {"plan", "shorten"}
         /\ Ends(j) \/ (Serves(j) /\ jobs'[j].at \in {"shorten", "waitLock"})
BY EndMoves, GoMoves, ServesLemma DEF DropPlan, DropShorten, LineKept, client, locks, At

\* All steps, as the line sees them.
LEMMA LineCases ==
  ASSUME TypeOK, HandlersOK, CallsOK, [Next]_vars
  PROVE  \/ LineKept /\ playerLock' = playerLock /\ Waiting
         \/ \E j \in JobId : LineKept /\ playerLock' = playerLock /\ Advances(j)
         \/ \E j \in JobId : \/ Joined(j) \/ Consume(j) \/ Reentered(j)
                             \/ Drop(j) \/ DropOwner(j) \/ DropToken(j) \/ DropCheck(j)
                             \/ DropMark(j) \/ DropPlan(j) \/ DropShorten(j)
         \/ \E s \in Human : Handshake(s)
<1> DEFINE Left(j) == \/ Joined(j) \/ Consume(j) \/ Reentered(j)
                      \/ Drop(j) \/ DropOwner(j) \/ DropToken(j) \/ DropCheck(j)
                      \/ DropMark(j) \/ DropPlan(j) \/ DropShorten(j)
           Calls == LineKept /\ playerLock' = playerLock /\ Waiting
<1>1. ASSUME NEW j \in JobId, JobStep(j)
      PROVE  Left(j) \/ (LineKept /\ playerLock' = playerLock /\ Advances(j))
  <2>1. Left(j) \/ RosterStep(j)
    BY <1>1 DEF JobStep, RosterStep
  <2>2. QED BY <2>1, RosterLine, RosterAdvances
<1>2. ASSUME NEW j \in JobId, NEW s \in Human, Ask(j, s)
      PROVE  Calls
  BY <1>2, AsksLine, ClocksLine DEF Ask
<1>3. ASSUME NEW j \in JobId, NEW s \in Human,
             StartSweep(j, s) \/ \E k \in 1 .. MaxSockets : SocketDrops(j, s, k)
      PROVE  Calls
  BY <1>3, AsksLine
<1>4. (RefreshTTL \/ UNCHANGED vars \/ \E s \in Human : GraceEnds(s) \/ KeyExpires(s) \/ GetToken(s))
        => Calls
  BY ClocksLine
<1>5. QED BY <1>1, <1>2, <1>3, <1>4 DEF Next

LEMMA CallStays ==
  ASSUME NEW i \in JobId, CallOK(i), socket' = socket,
         \A s \in Human : live'[s] \subseteq live[s], jobs[i].s \in Human \/ jobs[i].at = "idle",
         jobs'[i] = jobs[i], jobs[i].at = "mark" => playerLock'[jobs[i].s] = playerLock[jobs[i].s]
  PROVE  CallOK(i)'
BY DEF CallOK

\* One handler moves; the player-mutation lock it takes was free, the one it
\* lets go was its own.
LEMMA CallMoves ==
  ASSUME TypeOK, CallsOK, NEW j \in JobId, Others(j), CallOK(j)',
         socket' = socket, \A s \in Human : live'[s] \subseteq live[s],
         \/ playerLock' = playerLock
         \/ /\ jobs[j].s \in Human /\ playerLock[jobs[j].s] \in {Nobody, j}
            /\ \E v : playerLock' = [playerLock EXCEPT ![jobs[j].s] = v]
  PROVE  CallsOK'
<1>1. ASSUME NEW i \in JobId \ {j} PROVE CallOK(i)'
  <2>1. CallOK(i) /\ (jobs[i].s \in Human \/ jobs[i].at = "idle") /\ jobs'[i] = jobs[i]
    BY DEF CallsOK, TypeOK, JobsOK, At, Others
  <2>2. ASSUME jobs[i].at = "mark" PROVE playerLock'[jobs[i].s] = playerLock[jobs[i].s]
    <3>1. playerLock[jobs[i].s] = i /\ i # Nobody
      BY <2>1, <2>2, SessionsAssumption DEF CallOK
    <3>2. QED BY <2>1, <2>2, <3>1 DEF TypeOK
  <2>3. QED BY <2>1, <2>2, CallStays
<1>2. QED BY <1>1 DEF CallsOK

LEMMA CallsStep == TypeOK /\ HandlersOK /\ CallsOK /\ [Next]_vars => CallsOK'
<1> SUFFICES ASSUME TypeOK, HandlersOK, CallsOK, [Next]_vars PROVE CallsOK'
  OBVIOUS
<1>0. \A i \in JobId : CallOK(i) /\ (jobs[i].s \in Human \/ jobs[i].at = "idle")
  BY DEF CallsOK, TypeOK, JobsOK, At
<1>1. CASE LineKept /\ playerLock' = playerLock /\ Waiting
  <2>1. ASSUME NEW i \in JobId PROVE CallOK(i)'
    <3>1. CASE jobs'[i] = jobs[i]
      BY <1>0, <1>1, <3>1, CallStays DEF LineKept
    <3>2. CASE Rings(i)
      BY <1>1, <3>2 DEF Rings, CallOK, LineKept, Coming
    <3>3. QED BY <1>1, <3>1, <3>2 DEF Waiting
  <2>2. QED BY <1>1, <2>1 DEF CallsOK, LineKept
<1>2. ASSUME NEW j \in JobId, LineKept, playerLock' = playerLock, Advances(j) PROVE CallsOK'
  <2>1. CallOK(j)'
    BY <1>0, <1>2 DEF CallOK, Advances, Same, Idle, LineKept, Coming
  <2>2. QED BY <1>2, <2>1, CallMoves DEF LineKept, Advances
<1>3. ASSUME NEW j \in JobId, Joined(j) PROVE CallsOK'
  BY <1>3, JoinedLine, CallMoves DEF Ends, Idle, CallOK, LineKept
<1>4. ASSUME NEW j \in JobId, Consume(j) PROVE CallsOK'
  BY <1>0, <1>4, ConsumeLine, CallMoves DEF Ends, Serves, Idle, CallOK, LineKept, Coming
<1>5. ASSUME NEW j \in JobId, Reentered(j) PROVE CallsOK'
  BY <1>5, ReenteredLine, CallMoves DEF Ends, Idle, CallOK
<1>6. ASSUME NEW j \in JobId, Drop(j) PROVE CallsOK'
  BY <1>0, <1>6, DropLine, CallMoves DEF Ends, Serves, Idle, CallOK, LineKept, Coming
<1>6a. ASSUME NEW j \in JobId, DropOwner(j) \/ DropToken(j) PROVE CallsOK'
  BY <1>0, <1>6a, DropOwnerLine, CallMoves DEF Ends, Serves, Idle, CallOK, LineKept, Coming
<1>7. ASSUME NEW j \in JobId, DropCheck(j) PROVE CallsOK'
  <2>1. CallOK(j)'
    BY <1>0, <1>7, DropCheckLine DEF Ends, Serves, Idle, CallOK, LineKept, Coming, TypeOK
  <2>2. Others(j)
    BY <1>7, DropCheckLine DEF Ends, Serves
  <2>3. QED BY <1>7, <2>1, <2>2, DropCheckLine, CallMoves DEF LineKept
<1>8. ASSUME NEW j \in JobId, DropMark(j) PROVE CallsOK'
  <2>1. CallOK(j)' /\ Others(j)
    BY <1>0, <1>8, DropMarkLine DEF Ends, Serves, Idle, CallOK, LineKept, Coming
  <2>2. playerLock[jobs[j].s] = j
    BY <1>0, <1>8, DropMarkLine DEF CallOK
  <2>3. QED BY <1>8, <2>1, <2>2, DropMarkLine, CallMoves DEF LineKept
<1>9. ASSUME NEW j \in JobId, DropPlan(j) \/ DropShorten(j) PROVE CallsOK'
  BY <1>0, <1>9, DropPlanLine, CallMoves DEF Ends, Serves, Idle, CallOK, LineKept, Coming
<1>10. ASSUME NEW s \in Human, Handshake(s) PROVE CallsOK'
  <2>1. /\ socket' = [socket EXCEPT ![s] = @ + 1]
        /\ live' = [live EXCEPT ![s] = @ \cup {socket[s] + 1}]
        /\ UNCHANGED <<jobs, playerLock>>
    BY <1>10 DEF Handshake, locks
  <2>2. \A p \in Human : socket[p] \in Nat /\ live[p] \subseteq 1 .. MaxSockets
    BY BoundsAssumption DEF TypeOK
  <2>3. ASSUME NEW i \in JobId PROVE CallOK(i)'
    <3>1. CASE jobs[i].at = "idle"
      BY <1>0, <2>1, <3>1 DEF CallOK
    <3>2. CASE jobs[i].s \in Human /\ jobs[i].at # "idle"
      <4>1. jobs[i].k \in Nat
        BY BoundsAssumption DEF TypeOK, JobsOK, Job
      <4>2. QED BY <1>0, <2>1, <2>2, <3>2, <4>1 DEF CallOK, TypeOK
    <3>3. QED BY <1>0, <3>1, <3>2
  <2>4. \A p \in Human : \A k \in live'[p] : 1 <= k /\ k <= socket'[p]
    <3>1. \A p \in Human : \A k \in live[p] : k \in Nat /\ 1 <= k /\ k <= socket[p]
      BY <2>2 DEF CallsOK
    <3>2. QED BY <2>1, <2>2, <3>1 DEF TypeOK
  <2>5. QED BY <2>3, <2>4 DEF CallsOK
<1>11. QED
  BY <1>1, <1>2, <1>3, <1>4, <1>5, <1>6, <1>6a, <1>7, <1>8, <1>9, <1>10, LineCases

\* A disconnect handler answers for a socket that is gone, and marks the player
\* under the lock.
THEOREM CallsAreSound == Spec => []CallsOK
<1>1. Init => CallsOK
  BY DEF Init, CallsOK, CallOK, Idle
<1>2. TypeOK /\ HandlersOK /\ CallsOK /\ [Next]_vars => CallsOK'
  BY CallsStep
<1>3. QED BY <1>1, <1>2, TypeIsRight, HandlersAreSound, PTL DEF Spec

ComesBack(i, s) ==
  jobs[i].kind = "reconnect" /\ jobs[i].at \in Coming /\ jobs[i].s = s /\ jobs[i].k = socket[s]
\* The session is back, or about to be told so, on the socket it is mapped to.
IsBack(s) ==
  /\ mapped[s] = socket[s] /\ Online(s)
  /\ entered[s] = "reconnect" \/ \E i \in JobId : ComesBack(i, s)
\* Then the player is connected, and no handler is about to say otherwise.
StaysBack(s) ==
  IsBack(s) => /\ player[s].here => player[s].connected
               /\ \A i \in JobId : jobs[i].s = s => jobs[i].at # "mark"
WhoIsBackStays == \A s \in Human : StaysBack(s)

LEMMA BackBefore ==
  ASSUME TypeOK, CallsOK, LineKept, NEW s \in Human, IsBack(s)',
         \A i \in JobId : ComesBack(i, s)' => ComesBack(i, s)
  PROVE  IsBack(s)
<1>1. socket'[s] = socket[s] /\ socket[s] \in live[s]
  BY DEF IsBack, Online, LineKept
<1>2. socket[s] # 0
  BY <1>1, BoundsAssumption DEF CallsOK, TypeOK
<1>3. mapped[s] = socket[s]
  BY <1>1, <1>2 DEF IsBack, LineKept
<1>4. QED BY <1>1, <1>3 DEF IsBack, Online, LineKept

\* It stays so when nobody is marked, nobody comes back and no handler is
\* about to mark the player.
LEMMA BackUndisturbed ==
  ASSUME TypeOK, CallsOK, LineKept, NEW s \in Human, StaysBack(s),
         player'[s].here /\ ~player'[s].connected => player[s].here /\ ~player[s].connected,
         \A i \in JobId : ComesBack(i, s)' => ComesBack(i, s),
         \A i \in JobId : jobs'[i].at = "mark" /\ jobs'[i].s = s => jobs'[i] = jobs[i]
  PROVE  StaysBack(s)'
<1> SUFFICES ASSUME IsBack(s)' PROVE StaysBack(s)'
  BY DEF StaysBack
<1>1. IsBack(s)
  BY BackBefore
<1>2. QED BY <1>1 DEF StaysBack

\* The same of one handler that moves.
LEMMA BackMoves ==
  ASSUME TypeOK, CallsOK, LineKept, NEW s \in Human, StaysBack(s),
         player'[s].here /\ ~player'[s].connected => player[s].here /\ ~player[s].connected,
         NEW j \in JobId, Others(j), ComesBack(j, s)' => ComesBack(j, s), jobs'[j].at # "mark"
  PROVE  StaysBack(s)'
<1>1. \A i \in JobId : ComesBack(i, s)' => ComesBack(i, s)
  BY DEF ComesBack, Others, LineKept
<1>2. \A i \in JobId : jobs'[i].at = "mark" /\ jobs'[i].s = s => jobs'[i] = jobs[i]
  BY DEF Others
<1>3. QED BY <1>1, <1>2, BackUndisturbed

LEMMA MarkedOnlyThere ==
  ASSUME TypeOK, [Next]_vars
  PROVE  NobodyMarked \/ \E j \in JobId : DropMark(j)
<1>1. ASSUME NEW j \in JobId, DropPlan(j) PROVE NobodyMarked
  BY <1>1 DEF DropPlan, store, NobodyMarked
<1>2. ASSUME NEW j \in JobId, NEW s \in Human, StartSweep(j, s) PROVE NobodyMarked
  BY <1>2 DEF StartSweep, store, NobodyMarked
<1>3. ASSUME NEW j \in JobId, Sweep(j) PROVE NobodyMarked
  <2>1. jobs[j].s \in Session
    BY <1>3, HandlerType DEF Sweep, Session
  <2>2. player' = player \/ player' = [player EXCEPT ![jobs[j].s] = NoPlayer]
    BY <1>3 DEF Sweep, Remove, store
  <2>3. QED BY <2>1, <2>2 DEF NobodyMarked, NoPlayer, TypeOK, Session
<1>4. ASSUME NEW j \in JobId, SweepFails(j) PROVE NobodyMarked
  <2>1. jobs[j].s \in Session
    BY <1>4, HandlerType DEF SweepFails, Session, At
  <2>2. player' = player \/ player' = [player EXCEPT ![jobs[j].s] = NoPlayer]
    BY <1>4 DEF SweepFails, Remove, store
  <2>3. QED BY <2>1, <2>2 DEF NobodyMarked, NoPlayer, TypeOK, Session
<1>5. QED BY <1>1, <1>2, <1>3, <1>4, KeptStep DEF Kept

LEMMA BackStep == TypeOK /\ HandlersOK /\ CallsOK /\ WhoIsBackStays /\ [Next]_vars => WhoIsBackStays'
<1> SUFFICES ASSUME TypeOK, HandlersOK, CallsOK, WhoIsBackStays, [Next]_vars, NEW s \in Human
             PROVE  StaysBack(s)'
  BY DEF WhoIsBackStays
<1>0. /\ StaysBack(s) /\ s \in Session /\ \A i \in JobId : CallOK(i)
      /\ \A i \in JobId : jobs[i].s \in Human \/ jobs[i].at = "idle"
  BY DEF WhoIsBackStays, CallsOK, Session, TypeOK, JobsOK, At
<1>1. ASSUME NEW j \in JobId, DropMark(j) PROVE StaysBack(s)'
  <2>1. /\ LineKept /\ jobs[j].at = "mark" /\ Others(j)
        /\ jobs'[j].at # "mark" /\ ~ComesBack(j, s)'
    BY <1>1, DropMarkLine DEF Ends, Serves, Idle, ComesBack, Coming
  <2>2. CASE s = jobs[j].s
    <3>1. ~IsBack(s)
      BY <1>0, <2>1, <2>2 DEF StaysBack
    <3>2. \A i \in JobId : ComesBack(i, s)' => ComesBack(i, s)
      BY <2>1 DEF ComesBack, Others, LineKept
    <3>3. ~IsBack(s)'
      BY <2>1, <3>1, <3>2, BackBefore
    <3>4. QED BY <3>3 DEF StaysBack
  <2>3. CASE s # jobs[j].s
    <3>1. player'[s] = player[s]
      BY <1>0, <1>1, <2>3, DropMarkLine
    <3>2. QED BY <1>0, <2>1, <3>1, BackMoves
  <2>4. QED BY <2>2, <2>3
<1> DEFINE Unmarked == player'[s].here /\ ~player'[s].connected
                         => player[s].here /\ ~player[s].connected
<1>2. Unmarked \/ \E j \in JobId : DropMark(j)
  BY MarkedOnlyThere DEF NobodyMarked
<1>3. ASSUME Unmarked, LineKept, Waiting PROVE StaysBack(s)'
  <2>1. ASSUME NEW i \in JobId
        PROVE  /\ ComesBack(i, s)' => ComesBack(i, s)
               /\ jobs'[i].at = "mark" => jobs'[i] = jobs[i]
    BY <1>3 DEF Waiting, Rings, ComesBack, Coming, LineKept
  <2>2. QED BY <1>0, <1>3, <2>1, BackUndisturbed
<1>4. ASSUME Unmarked, LineKept, NEW j \in JobId, Advances(j) PROVE StaysBack(s)'
  <2>1. Others(j) /\ jobs'[j].at # "mark"
    BY <1>4 DEF Advances, Idle
  <2>2. CASE jobs[j].at # "reenter"
    <3>1. ComesBack(j, s)' => ComesBack(j, s)
      BY <1>0, <1>4, <2>2 DEF Advances, Same, Idle, ComesBack, CallOK, LineKept
    <3>2. QED BY <1>0, <1>4, <2>1, <3>1, BackMoves
  <2>3. CASE Reenter(j) /\ jobs[j].s = s /\ player[s].here
    <3>1. /\ playerLock[s] = Nobody
          /\ player' = [player EXCEPT ![s] = [@ EXCEPT !.connected = TRUE, !.brief = FALSE]]
      BY <2>3 DEF Reenter
    <3>2. player'[s].connected
      <4>1. [player[s] EXCEPT !.connected = TRUE, !.brief = FALSE].connected = TRUE
        BY <1>0, RecordFields DEF TypeOK
      <4> DEFINE q == [player[s] EXCEPT !.connected = TRUE, !.brief = FALSE]
      <4>2. player' = [player EXCEPT ![s] = q] /\ q.connected
        BY <3>1, <4>1
      <4> HIDE DEF q
      <4>3. QED BY <1>0, <4>2 DEF TypeOK
    <3>3. ASSUME NEW i \in JobId, jobs'[i].s = s PROVE jobs'[i].at # "mark"
      BY <1>0, <2>1, <3>1, <3>3, SessionsAssumption DEF CallOK, Others
    <3>4. QED BY <3>2, <3>3 DEF StaysBack
  <2>4. CASE Reenter(j) /\ (jobs[j].s # s \/ ~player[s].here)
    <3>1. ~ComesBack(j, s)'
      <4>1. CASE jobs[j].s # s
        BY <1>4, <4>1 DEF Advances, Same, Idle, ComesBack
      <4>2. CASE jobs[j].s = s /\ ~player[s].here
        BY <2>4, <4>2, EndMoves DEF Reenter, Ends, Idle, ComesBack, Coming
      <4>3. QED BY <2>4, <4>1, <4>2
    <3>2. QED BY <1>0, <1>4, <2>1, <3>1, BackMoves
  <2>5. QED BY <1>4, <2>2, <2>3, <2>4 DEF Advances
<1>5. ASSUME Unmarked, NEW j \in JobId,
             \/ Joined(j) \/ Consume(j) \/ Drop(j) \/ DropOwner(j) \/ DropToken(j)
             \/ DropPlan(j) \/ DropShorten(j)
      PROVE  StaysBack(s)'
  <2>1. LineKept /\ Others(j) /\ jobs'[j].at # "mark" /\ ~ComesBack(j, s)'
    BY <1>5, JoinedLine, ConsumeLine, DropLine, DropOwnerLine, DropPlanLine
    DEF Ends, Serves, Idle, ComesBack, Coming
  <2>2. QED BY <1>0, <1>5, <2>1, BackMoves
<1>6. ASSUME Unmarked, NEW j \in JobId, Reentered(j) PROVE StaysBack(s)'
  <2>1. /\ UNCHANGED <<player, socket, live, mapped>> /\ Ends(j) /\ jobs[j].at = "reentered"
        /\ entered'[s] = "reconnect" =>
             entered[s] = "reconnect" \/ (s = jobs[j].s /\ jobs[j].k = socket[s])
    BY <1>6, ReenteredLine
  <2>2. IsBack(s)' => IsBack(s)
    <3>1. s = jobs[j].s /\ jobs[j].k = socket[s] => ComesBack(j, s)
      BY <1>0, <2>1 DEF ComesBack, Coming, CallOK
    <3>2. \A i \in JobId : ComesBack(i, s)' => ComesBack(i, s)
      BY <2>1 DEF Ends, Others, Idle, ComesBack, Coming
    <3>3. QED BY <2>1, <3>1, <3>2 DEF IsBack, Online
  <2>3. \A i \in JobId : jobs'[i].s = s /\ jobs'[i].at = "mark" => jobs[i].s = s /\ jobs[i].at = "mark"
    BY <2>1 DEF Ends, Others, Idle
  <2>4. QED BY <1>0, <2>1, <2>2, <2>3 DEF StaysBack
<1>7. ASSUME Unmarked, NEW j \in JobId, DropCheck(j) PROVE StaysBack(s)'
  <2>1. LineKept /\ Others(j) /\ jobs[j].at = "check" /\ live' = live /\ mapped' = mapped
    BY <1>7, DropCheckLine DEF Ends, Serves
  <2>2. ~ComesBack(j, s)'
    BY <1>7, DropCheckLine DEF Ends, Serves, Idle, ComesBack, Coming
  <2>3. CASE jobs'[j].at = "mark" /\ jobs[j].s = s
    <3>1. mapped[s] \in {0, jobs[j].k} /\ jobs[j].k \notin live[s]
      BY <1>0, <1>7, <2>1, <2>3, DropCheckLine DEF Ends, Idle, CallOK
    <3>2. ~IsBack(s)'
      <4> SUFFICES ASSUME IsBack(s)' PROVE FALSE
        OBVIOUS
      <4>1. mapped[s] = socket[s] /\ socket[s] \in live[s]
        BY <2>1 DEF IsBack, Online, LineKept
      <4>2. socket[s] # 0
        BY <4>1, BoundsAssumption DEF CallsOK, TypeOK
      <4>3. QED BY <3>1, <4>1, <4>2
    <3>3. QED BY <3>2 DEF StaysBack
  <2>4. CASE jobs'[j].at = "mark" => jobs[j].s # s
    <3>1. \A i \in JobId : ComesBack(i, s)' => ComesBack(i, s)
      BY <2>1, <2>2 DEF ComesBack, Others, LineKept
    <3>2. \A i \in JobId : jobs'[i].at = "mark" /\ jobs'[i].s = s => jobs'[i] = jobs[i]
      BY <1>7, <2>1, <2>4, DropCheckLine DEF Ends, Serves, Idle, Others
    <3>3. QED BY <1>0, <1>7, <2>1, <3>1, <3>2, BackUndisturbed
  <2>5. QED BY <2>3, <2>4
<1>8. ASSUME Unmarked, NEW p \in Human, Handshake(p) PROVE StaysBack(s)'
  <2>1. /\ socket' = [socket EXCEPT ![p] = @ + 1]
        /\ live' = [live EXCEPT ![p] = @ \cup {socket[p] + 1}]
        /\ entered' = [entered EXCEPT ![p] = "no"]
        /\ mapped' = mapped \/ mapped' = [mapped EXCEPT ![p] = socket[p] + 1]
        /\ jobs' = jobs
    BY <1>8 DEF Handshake
  <2>2. CASE s = p
    <3>1. ASSUME NEW i \in JobId, jobs[i].kind = "reconnect", jobs[i].s = s
          PROVE  jobs[i].k # socket[s] + 1
      <4>1. jobs[i].k <= socket[s] /\ jobs[i].k \in Nat /\ socket[s] \in Nat
        BY <1>0, <3>1, BoundsAssumption DEF CallOK, Coming, TypeOK, JobsOK, Job
      <4>2. QED BY <4>1
    <3>2. ~IsBack(s)'
      BY <2>1, <2>2, <3>1 DEF IsBack, ComesBack, TypeOK
    <3>3. QED BY <3>2 DEF StaysBack
  <2>3. CASE s # p
    <3>1. IsBack(s)' => IsBack(s)
      BY <2>1, <2>3 DEF IsBack, ComesBack, Online, TypeOK
    <3>2. QED BY <1>0, <1>8, <2>1, <3>1 DEF StaysBack
  <2>4. QED BY <2>2, <2>3
<1>9. QED
  BY <1>1, <1>2, <1>3, <1>4, <1>5, <1>6, <1>7, <1>8, LineCases

\* Who came back by a token on the socket its session is mapped to stays
\* connected, whenever the disconnect handlers of its older sockets run.
THEOREM ReconnectionsStick == Spec => []ReconnectSticks
<1>1. Init => WhoIsBackStays
  BY DEF Init, WhoIsBackStays, StaysBack, IsBack, Online
<1>2. TypeOK /\ HandlersOK /\ CallsOK /\ WhoIsBackStays /\ [Next]_vars => WhoIsBackStays'
  BY BackStep
<1>3. WhoIsBackStays => ReconnectSticks
  BY DEF WhoIsBackStays, ReconnectSticks, StaysBack, IsBack
<1>4. QED BY <1>1, <1>2, <1>3, TypeIsRight, HandlersAreSound, CallsAreSound, PTL DEF Spec
=============================================================================
