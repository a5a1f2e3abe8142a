----------------------------- MODULE TimerProofs -----------------------------
(***************************************************************************)
(* Theorems of TurnTimer, for any number of processes and jobs, any timing *)
(* and any mix of requests.                                                *)
(***************************************************************************)
EXTENDS TurnTimer, TLAPS

LEMMA JobFields ==
  ASSUME TypeOK, NEW j \in JobId, jobs[j] # NoJob
  PROVE  jobs[j].step \in Step /\ jobs[j].at \in Instance /\ jobs[j].n \in Nat
BY DEF TypeOK, Job

LEMMA TimerFields ==
  ASSUME TypeOK, timer # NoTimer
  PROVE  /\ timer.end \in Nat /\ timer.paused \in BOOLEAN
         /\ timer.left \in Nat /\ timer.at \in Nat
BY DEF TypeOK, Timer

LEMMA EntryFields ==
  ASSUME TypeOK, NEW i \in Instance, entry[i] # NoEntry
  PROVE  entry[i].end \in Nat /\ entry[i].paused \in BOOLEAN
BY DEF TypeOK, Entry

LEMMA ClearedType ==
  ASSUME TypeOK, NEW i \in Instance
  PROVE  Cleared(i) \subseteq timeouts[i] /\ Cleared(i) \subseteq Nat
BY DEF TypeOK, Cleared

LEMMA ForgetType ==
  ASSUME TypeOK, NEW i \in Instance, Forget(i)
  PROVE  /\ entry' \in [Instance -> Entry \cup {NoEntry}]
         /\ timeouts' \in [Instance -> SUBSET Nat]
BY ClearedType DEF TypeOK, Forget

LEMMA ArmType ==
  ASSUME TypeOK, NEW i \in Instance, NEW end \in Nat, NEW paused \in BOOLEAN,
         Arm(i, end, paused)
  PROVE  /\ entry' \in [Instance -> Entry \cup {NoEntry}]
         /\ timeouts' \in [Instance -> SUBSET Nat]
<1>1. [end |-> end, paused |-> paused] \in Entry
  BY DEF Entry
<1>2. QED BY <1>1, ClearedType DEF TypeOK, Arm

\* A job that begins, goes on or ends keeps the table of jobs well typed.
LEMMA BeginType ==
  ASSUME TypeOK, NEW j \in JobId, NEW s \in Step, NEW i \in Instance, NEW n \in Nat,
         Begin(j, s, i, n)
  PROVE  jobs' \in [JobId -> Job \cup {NoJob}]
<1>1. [step |-> s, at |-> i, n |-> n] \in Job
  BY DEF Job
<1>2. QED BY <1>1 DEF TypeOK, Begin

LEMMA BecomeType ==
  ASSUME TypeOK, NEW j \in JobId, NEW s \in Step, NEW n \in Nat,
         jobs[j] # NoJob, Become(j, s, n)
  PROVE  jobs' \in [JobId -> Job \cup {NoJob}]
<1>1. jobs[j] \in Job
  BY DEF TypeOK
<1>2. [jobs[j] EXCEPT !.step = s, !.n = n] \in Job
  BY <1>1 DEF Job
<1>3. jobs' = [jobs EXCEPT ![j] = [jobs[j] EXCEPT !.step = s, !.n = n]]
  BY DEF Become
<1>4. QED BY <1>2, <1>3 DEF TypeOK

LEMMA DoneType ==
  ASSUME TypeOK, NEW j \in JobId, Done(j)
  PROVE  jobs' \in [JobId -> Job \cup {NoJob}]
BY DEF TypeOK, Done

-----------------------------------------------------------------------------
(* Type correctness                                                        *)

LEMMA InitType == Init => TypeOK
<1> SUFFICES ASSUME Init PROVE TypeOK
  OBVIOUS
<1>1. entry \in [Instance -> Entry \cup {NoEntry}]
  BY DEF Init
<1>2. timeouts \in [Instance -> SUBSET Nat]
  BY DEF Init
<1>3. jobs \in [JobId -> Job \cup {NoJob}]
  BY DEF Init
<1>4. QED BY <1>1, <1>2, <1>3 DEF Init, TypeOK

LEMMA HostType ==
  ASSUME TypeOK, NEW c, Host(c)
  PROVE  calls' \in Nat /\ raced' \in BOOLEAN
BY DEF TypeOK, Host

LEMMA HandlerBeginsType ==
  ASSUME TypeOK, NEW j \in JobId, NEW i \in Instance,
         \/ EndTurn(j, i) \/ GameOver(j, i) \/ StartGame(j, i) \/ HostEndsGame(j, i)
         \/ PauseGame(j, i) \/ ResumeGame(j, i)
         \/ TimerPause(j, i) \/ TimerResume(j, i) \/ TimerStop(j, i)
  PROVE  TypeOK'
<1>1. Duration \in Nat /\ 0 \in Nat
  BY TimeAssumption
<1>2. CASE EndTurn(j, i)
  <2>1. jobs' \in [JobId -> Job \cup {NoJob}]
    BY <1>1, <1>2, BeginType DEF EndTurn, Step
  <2>2. QED BY <1>2, <2>1 DEF TypeOK, EndTurn, NewTurn, localVars, history
<1>3. CASE GameOver(j, i)
  <2>1. jobs' \in [JobId -> Job \cup {NoJob}]
    BY <1>3, BeginType DEF GameOver, Step
  <2>2. QED BY <1>3, <2>1 DEF TypeOK, GameOver, localVars, history
<1>4. CASE StartGame(j, i)
  <2>1. jobs' \in [JobId -> Job \cup {NoJob}]
    BY <1>4, BeginType DEF StartGame, Step
  <2>2. /\ entry' \in [Instance -> Entry \cup {NoEntry}]
        /\ timeouts' \in [Instance -> SUBSET Nat]
    BY <1>4, ForgetType DEF StartGame
  <2>3. QED BY <1>4, <2>1, <2>2 DEF TypeOK, StartGame, Host, gameVars, history
<1>5. CASE HostEndsGame(j, i)
  <2>1. jobs' \in [JobId -> Job \cup {NoJob}]
    BY <1>5, BeginType DEF HostEndsGame, Step
  <2>2. /\ entry' \in [Instance -> Entry \cup {NoEntry}]
        /\ timeouts' \in [Instance -> SUBSET Nat]
    BY <1>5, ForgetType DEF HostEndsGame
  <2>3. QED BY <1>5, <2>1, <2>2 DEF TypeOK, HostEndsGame, Host, gameVars, history
<1>6. CASE PauseGame(j, i)
  <2>1. jobs' \in [JobId -> Job \cup {NoJob}]
    BY <1>6, BeginType DEF PauseGame, Step
  <2>2. gamePaused' = TRUE /\ calls' \in Nat /\ raced' \in BOOLEAN
    BY <1>6, HostType DEF PauseGame
  <2>3. QED BY <1>6, <2>1, <2>2 DEF TypeOK, PauseGame, localVars, history
<1>7. CASE ResumeGame(j, i)
  <2>1. jobs' \in [JobId -> Job \cup {NoJob}]
    BY <1>7, BeginType DEF ResumeGame, Step
  <2>2. gamePaused' = FALSE /\ calls' \in Nat /\ raced' \in BOOLEAN
    BY <1>7, HostType DEF ResumeGame
  <2>3. QED BY <1>7, <2>1, <2>2 DEF TypeOK, ResumeGame, localVars, history
<1>8. CASE TimerPause(j, i)
  <2>1. jobs' \in [JobId -> Job \cup {NoJob}]
    BY <1>8, BeginType DEF TimerPause, Step
  <2>2. QED BY <1>8, <2>1 DEF TypeOK, TimerPause, Host, localVars, gameVars
<1>9. CASE TimerResume(j, i)
  <2>1. jobs' \in [JobId -> Job \cup {NoJob}]
    BY <1>9, BeginType DEF TimerResume, Step
  <2>2. QED BY <1>9, <2>1 DEF TypeOK, TimerResume, Host, localVars, gameVars, history
<1>10. CASE TimerStop(j, i)
  <2>1. jobs' \in [JobId -> Job \cup {NoJob}]
    BY <1>10, BeginType DEF TimerStop, Step
  <2>2. /\ entry' \in [Instance -> Entry \cup {NoEntry}]
        /\ timeouts' \in [Instance -> SUBSET Nat]
    BY <1>10, ForgetType DEF TimerStop
  <2>3. QED BY <1>10, <2>1, <2>2 DEF TypeOK, TimerStop, Host, gameVars
<1>11. QED BY <1>2, <1>3, <1>4, <1>5, <1>6, <1>7, <1>8, <1>9, <1>10

LEMMA HandlerStepType ==
  ASSUME TypeOK, NEW j \in JobId, HandlerStep(j)
  PROVE  TypeOK'
<1>1. Duration \in Nat /\ 0 \in Nat
  BY TimeAssumption
<1>2. CASE StopTimer(j)
  <2>1. jobs[j] # NoJob /\ jobs[j].at \in Instance
    BY <1>2, JobFields DEF StopTimer, At
  <2>2. jobs' \in [JobId -> Job \cup {NoJob}]
    BY <1>2, <2>1, BecomeType DEF StopTimer, Step
  <2>3. /\ entry' \in [Instance -> Entry \cup {NoEntry}]
        /\ timeouts' \in [Instance -> SUBSET Nat]
    BY <1>2, <2>1, ForgetType DEF StopTimer
  <2>4. QED BY <1>2, <2>2, <2>3 DEF TypeOK, StopTimer, gameVars, history,
                                    Strand, Refused, Cause
<1>3. CASE DeleteTimer(j)
  <2>1. jobs[j] # NoJob
    BY <1>3 DEF DeleteTimer, At
  <2>2. jobs' \in [JobId -> Job \cup {NoJob}]
    BY <1>3, <2>1, BecomeType, DoneType DEF DeleteTimer, Step
  <2>3. QED BY <1>3, <2>2 DEF TypeOK, DeleteTimer, localVars, gameVars, history,
                              Strand, Refused, Cause
<1>4. CASE CreateGame(j)
  <2>1. jobs[j] # NoJob
    BY <1>4 DEF CreateGame, At
  <2>2. jobs' \in [JobId -> Job \cup {NoJob}]
    BY <1>1, <1>4, <2>1, BecomeType, DoneType DEF CreateGame, Step
  <2>3. /\ turn' \in Nat /\ began' \in Nat
        /\ live' \in BOOLEAN /\ gamePaused' \in BOOLEAN
    <3>1. CASE ~live
      <4>1. PICK n \in {turn + 1, turn + 2} : NewTurn(n)
        BY <1>4, <3>1 DEF CreateGame
      <4>2. n \in Nat /\ live' = TRUE /\ gamePaused' = FALSE
        BY <1>4, <3>1 DEF TypeOK, CreateGame
      <4>3. QED BY <4>1, <4>2 DEF TypeOK, NewTurn
    <3>2. CASE live
      BY <1>4, <3>2 DEF TypeOK, CreateGame, gameVars
    <3>3. QED BY <3>1, <3>2
  <2>4. QED BY <1>4, <2>2, <2>3 DEF TypeOK, CreateGame, localVars, history,
                                    Strand, Refused, Cause
<1>5. CASE EndGame(j)
  <2>1. jobs' \in [JobId -> Job \cup {NoJob}]
    BY <1>5, DoneType DEF EndGame
  <2>2. live' \in BOOLEAN
    BY <1>5 DEF EndGame
  <2>3. QED BY <1>5, <2>1, <2>2 DEF TypeOK, EndGame, localVars, history,
                                    Strand, Refused, Cause
<1>6. CASE StartTimer(j)
  <2>1. jobs[j] # NoJob /\ jobs[j].at \in Instance /\ jobs[j].n \in Nat
    BY <1>6, JobFields DEF StartTimer, At
  <2>2. jobs' \in [JobId -> Job \cup {NoJob}]
    BY <1>6, <2>1, BecomeType DEF StartTimer, Step
  <2>3. /\ entry' \in [Instance -> Entry \cup {NoEntry}]
        /\ timeouts' \in [Instance -> SUBSET Nat]
    BY <1>6, <2>1, ForgetType DEF StartTimer
  <2>4. QED BY <1>6, <2>2, <2>3 DEF TypeOK, StartTimer, gameVars, history
<1>7. CASE SetTimer(j)
  <2>1. jobs[j] # NoJob /\ jobs[j].at \in Instance /\ jobs[j].n \in Nat
    BY <1>7, JobFields DEF SetTimer, At
  <2>2. now + jobs[j].n \in Nat
    BY <2>1 DEF TypeOK
  <2>3. jobs' \in [JobId -> Job \cup {NoJob}]
    BY <1>7, DoneType DEF SetTimer
  <2>4. /\ entry' \in [Instance -> Entry \cup {NoEntry}]
        /\ timeouts' \in [Instance -> SUBSET Nat]
    BY <1>7, <2>1, <2>2, ArmType DEF SetTimer
  <2>5. timer' \in Timer
    BY <1>7, <2>2 DEF SetTimer, Timer
  <2>6. granted' \in Nat
    BY <1>7 DEF TypeOK, SetTimer
  <2>7. QED BY <1>7, <2>3, <2>4, <2>5, <2>6 DEF TypeOK, SetTimer, gameVars
<1>8. CASE PauseTimer(j)
  <2>1. jobs[j] # NoJob /\ jobs[j].at \in Instance
    BY <1>8, JobFields DEF PauseTimer, At
  <2>2. jobs' \in [JobId -> Job \cup {NoJob}]
    BY <1>8, DoneType DEF PauseTimer
  <2>3. timer' \in Timer \cup {NoTimer}
    <3>1. CASE Running /\ now < timer.end
      <4>1. timer \in Timer /\ timer.end \in Nat /\ now \in Nat
        BY <3>1, TimerFields DEF Running, TypeOK
      <4>2. timer.end - now \in Nat
        BY <3>1, <4>1
      <4>3. timer' = [timer EXCEPT !.paused = TRUE, !.left = timer.end - now,
                                   !.at = now]
        BY <1>8, <3>1, <4>1 DEF PauseTimer
      <4>4. QED BY <4>1, <4>2, <4>3 DEF Timer
    <3>2. CASE ~(Running /\ now < timer.end)
      BY <1>8, <3>2 DEF PauseTimer, TypeOK
    <3>3. QED BY <3>1, <3>2
  <2>4. /\ entry' \in [Instance -> Entry \cup {NoEntry}]
        /\ timeouts' \in [Instance -> SUBSET Nat]
    <3> DEFINE i == jobs[j].at
    <3>1. entry[i] # NoEntry => [entry[i] EXCEPT !.paused = TRUE] \in Entry
      BY <2>1 DEF TypeOK, Entry
    <3>2. \/ UNCHANGED <<entry, timeouts>>
          \/ /\ timeouts' = [timeouts EXCEPT ![i] = Cleared(i)]
             /\ entry' = IF entry[i] = NoEntry THEN entry
                         ELSE [entry EXCEPT ![i] = [entry[i] EXCEPT !.paused = TRUE]]
      BY <1>8 DEF PauseTimer, localVars
    <3>3. Cleared(i) \subseteq Nat
      BY <2>1, ClearedType
    <3> HIDE DEF i
    <3>4. QED BY <3>1, <3>2, <3>3 DEF TypeOK
  <2>5. QED BY <1>8, <2>2, <2>3, <2>4 DEF TypeOK, PauseTimer, gameVars, history,
                                          Strand, Refused, Cause
<1>9. CASE ResumeTimer(j)
  <2>1. jobs[j] # NoJob /\ jobs[j].at \in Instance
    BY <1>9, JobFields DEF ResumeTimer, At
  <2>2. timer # NoTimer => timer.left \in Nat
    BY TimerFields
  <2>3. jobs' \in [JobId -> Job \cup {NoJob}]
    BY <1>1, <1>9, <2>1, <2>2, BecomeType, DoneType DEF ResumeTimer, Step
  <2>4. timer' \in Timer \cup {NoTimer} /\ spent' \in Nat
    BY <1>9 DEF TypeOK, ResumeTimer
  <2>5. /\ entry' \in [Instance -> Entry \cup {NoEntry}]
        /\ timeouts' \in [Instance -> SUBSET Nat]
    BY <1>9 DEF TypeOK, ResumeTimer, localVars
  <2>6. QED BY <1>9, <2>3, <2>4, <2>5 DEF TypeOK, ResumeTimer, gameVars
<1>10. QED
  BY <1>2, <1>3, <1>4, <1>5, <1>6, <1>7, <1>8, <1>9 DEF HandlerStep

LEMMA ExpiryStepType ==
  ASSUME TypeOK, NEW j \in JobId, ExpiryStep(j) \/ ExpireFails(j)
  PROVE  TypeOK'
<1>1. Duration \in Nat /\ 0 \in Nat
  BY TimeAssumption
<1>2. turn % 2 \in Nat
  BY DEF TypeOK
<1>3. CASE ExpireTimer(j)
  <2>1. jobs[j] # NoJob
    BY <1>3 DEF ExpireTimer, At
  <2>2. jobs' \in [JobId -> Job \cup {NoJob}]
    BY <1>1, <1>3, <2>1, BecomeType, DoneType DEF ExpireTimer, Step
  <2>3. timer' \in Timer \cup {NoTimer} /\ spent' \in Nat
    BY <1>3 DEF TypeOK, ExpireTimer
  <2>4. entry' \in [Instance -> Entry \cup {NoEntry}]
    BY <1>3 DEF TypeOK, ExpireTimer
  <2>5. QED BY <1>3, <2>2, <2>3, <2>4 DEF TypeOK, ExpireTimer, gameVars
<1>4. CASE ReadTurn(j)
  <2>1. jobs[j] # NoJob
    BY <1>4 DEF ReadTurn, At
  <2>2. jobs' \in [JobId -> Job \cup {NoJob}]
    BY <1>2, <1>4, <2>1, BecomeType, DoneType DEF ReadTurn, Step, Team
  <2>3. QED BY <1>4, <2>2 DEF TypeOK, ReadTurn, localVars, gameVars, history
<1>5. CASE EndExpiredTurn(j)
  <2>1. jobs[j] # NoJob
    BY <1>5 DEF EndExpiredTurn, At
  <2>2. jobs' \in [JobId -> Job \cup {NoJob}]
    BY <1>1, <1>5, <2>1, BecomeType, DoneType DEF EndExpiredTurn, Step
  <2>3. turn' \in Nat /\ began' \in Nat
    BY <1>5 DEF TypeOK, EndExpiredTurn, NewTurn
  <2>4. QED BY <1>5, <2>2, <2>3 DEF TypeOK, EndExpiredTurn, localVars, history,
                                    Strand, Refused, Cause
<1>6. CASE RestartTimer(j)
  <2>1. jobs[j] # NoJob
    BY <1>6 DEF RestartTimer, At
  <2>2. jobs' \in [JobId -> Job \cup {NoJob}]
    BY <1>1, <1>6, <2>1, BecomeType, DoneType DEF RestartTimer, Step
  <2>3. QED BY <1>6, <2>2 DEF TypeOK, RestartTimer, localVars, gameVars, history
<1>7. CASE ExpireFails(j)
  <2>1. jobs' \in [JobId -> Job \cup {NoJob}]
    BY <1>7, DoneType DEF ExpireFails
  <2>2. failures' \in Nat
    BY <1>7 DEF TypeOK, ExpireFails
  <2>3. QED BY <1>7, <2>1, <2>2 DEF TypeOK, ExpireFails, localVars, gameVars, history,
                                    Strand, Refused, Cause
<1>8. QED BY <1>3, <1>4, <1>5, <1>6, <1>7 DEF ExpiryStep

LEMMA LocalStepType ==
  ASSUME TypeOK, NEW j \in JobId, NEW i \in Instance,
         TimeoutFires(j, i) \/ SweepStaleTimers(j, i)
  PROVE  TypeOK'
<1>1. CASE TimeoutFires(j, i)
  <2>1. PICK e \in timeouts[i] : /\ timeouts' = [timeouts EXCEPT ![i] = @ \ {e}]
                                 /\ Begin(j, "fired", i, e)
    BY <1>1 DEF TimeoutFires
  <2>2. e \in Nat
    BY DEF TypeOK
  <2>3. jobs' \in [JobId -> Job \cup {NoJob}]
    BY <2>1, <2>2, BeginType DEF Step
  <2>4. timeouts' \in [Instance -> SUBSET Nat]
    BY <2>1 DEF TypeOK
  <2>5. QED BY <1>1, <2>3, <2>4 DEF TypeOK, TimeoutFires, gameVars, history
<1>2. CASE SweepStaleTimers(j, i)
  <2>1. entry[i].end \in Nat
    BY <1>2, EntryFields DEF SweepStaleTimers
  <2>2. jobs' \in [JobId -> Job \cup {NoJob}]
    BY <1>2, <2>1, BeginType DEF SweepStaleTimers, Step
  <2>3. /\ entry' \in [Instance -> Entry \cup {NoEntry}]
        /\ timeouts' \in [Instance -> SUBSET Nat]
    BY <1>2, ForgetType DEF SweepStaleTimers
  <2>4. QED BY <1>2, <2>2, <2>3 DEF TypeOK, SweepStaleTimers, gameVars, history
<1>3. QED BY <1>1, <1>2

LEMMA RequestType ==
  ASSUME TypeOK, NEW i \in Instance,
         AddTime(i) \/ GetTimerStatus(i) \/ EvictTimer(i) \/ RestartProcess(i)
  PROVE  TypeOK'
<1>1. CASE AddTime(i)
  <2>1. timer \in Timer /\ timer.end \in Nat
    BY <1>1, TimerFields DEF AddTime, Running, TypeOK
  <2>2. timer' = [timer EXCEPT !.end = timer.end + Added] /\ timer.end + Added \in Nat
    BY <1>1, <2>1, TimeAssumption DEF AddTime
  <2>3. timer' \in Timer /\ timer'.end \in Nat
    BY <2>1, <2>2 DEF Timer
  <2>4. /\ entry' \in [Instance -> Entry \cup {NoEntry}]
        /\ timeouts' \in [Instance -> SUBSET Nat]
    <3>1. CASE entry[i] = NoEntry
      BY <1>1, <3>1 DEF TypeOK, AddTime, localVars
    <3>2. CASE entry[i] # NoEntry
      <4>1. entry[i].paused \in BOOLEAN
        BY <3>2, EntryFields
      <4>2. QED BY <1>1, <2>3, <3>2, <4>1, ArmType DEF AddTime
    <3>3. QED BY <3>1, <3>2
  <2>5. calls' \in Nat /\ raced' \in BOOLEAN
    BY <1>1, HostType DEF AddTime
  <2>6. QED BY <1>1, <2>3, <2>4, <2>5 DEF TypeOK, AddTime, gameVars, history
<1>2. CASE GetTimerStatus(i)
  BY <1>2 DEF TypeOK, GetTimerStatus, gameVars, history, Strand, Refused, Cause
<1>3. CASE EvictTimer(i)
  <2>1. /\ entry' \in [Instance -> Entry \cup {NoEntry}]
        /\ timeouts' \in [Instance -> SUBSET Nat]
    BY <1>3, ForgetType DEF EvictTimer
  <2>2. QED BY <1>3, <2>1 DEF TypeOK, EvictTimer, gameVars, history,
                              Strand, Refused, Cause
<1>4. CASE RestartProcess(i)
  <2>1. /\ entry' \in [Instance -> Entry \cup {NoEntry}]
        /\ timeouts' \in [Instance -> SUBSET Nat]
        /\ failures' \in Nat
    BY <1>4 DEF TypeOK, RestartProcess
  <2>2. jobs' \in [JobId -> Job \cup {NoJob}]
    BY <1>4 DEF TypeOK, RestartProcess
  <2>3. QED BY <1>4, <2>1, <2>2 DEF TypeOK, RestartProcess, gameVars, history,
                                    Strand, Refused, Cause
<1>5. QED BY <1>1, <1>2, <1>3, <1>4

LEMMA TickType == TypeOK /\ Tick => TypeOK'
BY DEF TypeOK, Tick, localVars, gameVars, history

LEMMA NextType == TypeOK /\ [Next]_vars => TypeOK'
<1> SUFFICES ASSUME TypeOK, [Next]_vars PROVE TypeOK'
  OBVIOUS
<1>1. CASE Next
  BY <1>1, HandlerBeginsType, HandlerStepType, ExpiryStepType, LocalStepType,
     RequestType, TickType DEF Next
<1>2. CASE UNCHANGED vars
  BY <1>2 DEF TypeOK, vars, localVars, gameVars, history
<1>3. QED BY <1>1, <1>2

\* Every variable keeps its type, the clock and the jobs included.
THEOREM TypeCorrect == Spec => []TypeOK
BY InitType, NextType, PTL DEF Spec

-----------------------------------------------------------------------------
(* A timer ends at most one turn                                           *)

\* Only SetTimer adds a timer, and only ExpireTimer and ResumeTimer charge one,
\* which they delete.
LEMMA TurnsAreGranted == TypeOK /\ OneTurnPerTimer /\ [Next]_vars => OneTurnPerTimer'
<1> SUFFICES ASSUME TypeOK, OneTurnPerTimer, [Next]_vars PROVE OneTurnPerTimer'
  OBVIOUS
<1>1. granted \in Nat /\ spent \in Nat
  BY DEF TypeOK
<1>2. (timer = NoTimer => timer' = NoTimer) /\ UNCHANGED <<granted, spent>>
        => OneTurnPerTimer'
  BY <1>1 DEF OneTurnPerTimer
<1>3. ASSUME NEW j \in JobId, NEW i \in Instance,
             \/ EndTurn(j, i) \/ GameOver(j, i) \/ StartGame(j, i) \/ HostEndsGame(j, i)
             \/ PauseGame(j, i) \/ ResumeGame(j, i)
             \/ TimerPause(j, i) \/ TimerResume(j, i) \/ TimerStop(j, i)
             \/ TimeoutFires(j, i) \/ SweepStaleTimers(j, i)
      PROVE  OneTurnPerTimer'
  BY <1>2, <1>3 DEF EndTurn, GameOver, StartGame, HostEndsGame, PauseGame, ResumeGame,
     TimerPause, TimerResume, TimerStop, TimeoutFires, SweepStaleTimers, history
<1>4. ASSUME NEW i \in Instance,
             AddTime(i) \/ GetTimerStatus(i) \/ EvictTimer(i) \/ RestartProcess(i)
      PROVE  OneTurnPerTimer'
  BY <1>2, <1>4 DEF AddTime, GetTimerStatus, EvictTimer, RestartProcess, Running, history
<1>5. ASSUME NEW j \in JobId, SetTimer(j)
      PROVE  OneTurnPerTimer'
  BY <1>1, <1>5 DEF SetTimer, OneTurnPerTimer
<1>6. ASSUME NEW j \in JobId, ExpireTimer(j)
      PROVE  OneTurnPerTimer'
  <2>1. CASE Matches(jobs[j].n)
    BY <1>1, <1>6, <2>1 DEF ExpireTimer, Matches, Running, OneTurnPerTimer
  <2>2. CASE ~Matches(jobs[j].n)
    BY <1>2, <1>6, <2>2 DEF ExpireTimer
  <2>3. QED BY <2>1, <2>2
<1>7. ASSUME NEW j \in JobId, ResumeTimer(j)
      PROVE  OneTurnPerTimer'
  BY <1>1, <1>7 DEF ResumeTimer, OneTurnPerTimer
<1>8. ASSUME NEW j \in JobId,
             \/ StopTimer(j) \/ DeleteTimer(j) \/ CreateGame(j) \/ EndGame(j)
             \/ StartTimer(j)
      PROVE  OneTurnPerTimer'
  BY <1>2, <1>8 DEF StopTimer, DeleteTimer, CreateGame, EndGame, StartTimer, history
<1>9. ASSUME NEW j \in JobId, PauseTimer(j)
      PROVE  OneTurnPerTimer'
  BY <1>2, <1>9 DEF PauseTimer, Running, history
<1>10. ASSUME NEW j \in JobId,
              ReadTurn(j) \/ EndExpiredTurn(j) \/ RestartTimer(j) \/ ExpireFails(j)
       PROVE  OneTurnPerTimer'
  BY <1>2, <1>10 DEF ReadTurn, EndExpiredTurn, RestartTimer, ExpireFails, history
<1>11. CASE Tick
  BY <1>2, <1>11 DEF Tick, Running, history
<1>12. CASE UNCHANGED vars
  BY <1>2, <1>12 DEF vars, history
<1>13. QED
  BY <1>3, <1>4, <1>5, <1>6, <1>7, <1>8, <1>9, <1>10, <1>11, <1>12
     DEF Next, HandlerStep, ExpiryStep

\* No two timeouts, sweeps, resumes or processes end a turn for the same timer,
\* however many of them there are.
THEOREM TimersEndOneTurn == Spec => []OneTurnPerTimer
<1>1. Init => OneTurnPerTimer
  BY DEF Init, OneTurnPerTimer
<1>2. QED BY <1>1, TypeCorrect, TurnsAreGranted, PTL DEF Spec

-----------------------------------------------------------------------------
(* Only a timer that has run out is expired                                *)

\* A timeout, or the sweep, comes no earlier than the end it was armed for.
FiredIsDue == \A j \in JobId : At(j, "fired") => jobs[j].n <= now

LEMMA FiredStaysDue == TypeOK /\ FiredIsDue /\ [Next]_vars => FiredIsDue'
<1> SUFFICES ASSUME TypeOK, FiredIsDue, [Next]_vars PROVE FiredIsDue'
  OBVIOUS
<1> USE DEF FiredIsDue, At
<1>1. now \in Nat /\ jobs \in [JobId -> Job \cup {NoJob}]
  BY DEF TypeOK
<1>2. ASSUME NEW j \in JobId, NEW s \in Step \ {"fired"}, NEW i \in Instance, NEW n,
             Begin(j, s, i, n), now' = now
      PROVE  FiredIsDue'
  BY <1>1, <1>2 DEF Begin
<1>3. ASSUME NEW j \in JobId, NEW s \in Step \ {"fired"}, NEW n,
             jobs[j] # NoJob, Become(j, s, n), now' = now
      PROVE  FiredIsDue'
  <2>1. jobs[j] \in Job
    BY <1>1, <1>3
  <2>2. [jobs[j] EXCEPT !.step = s, !.n = n].step = s
    BY <2>1 DEF Job
  <2>3. jobs' = [jobs EXCEPT ![j] = [jobs[j] EXCEPT !.step = s, !.n = n]]
    BY <1>3 DEF Become
  <2>4. QED BY <1>1, <1>3, <2>2, <2>3
<1>4. ASSUME NEW j \in JobId, Done(j), now' = now
      PROVE  FiredIsDue'
  BY <1>1, <1>4 DEF Done
<1>5. ASSUME UNCHANGED <<now, jobs>>
      PROVE  FiredIsDue'
  BY <1>5
<1>6. ASSUME NEW j \in JobId, NEW i \in Instance,
             \/ EndTurn(j, i) \/ GameOver(j, i) \/ StartGame(j, i) \/ HostEndsGame(j, i)
             \/ PauseGame(j, i) \/ ResumeGame(j, i)
             \/ TimerPause(j, i) \/ TimerResume(j, i) \/ TimerStop(j, i)
      PROVE  FiredIsDue'
  <2> HIDE DEF FiredIsDue
  <2>1. QED BY <1>2, <1>6 DEF EndTurn, GameOver, StartGame, HostEndsGame, PauseGame,
           ResumeGame, TimerPause, TimerResume, TimerStop, Step
<1>7. ASSUME NEW j \in JobId, NEW i \in Instance, TimeoutFires(j, i)
      PROVE  FiredIsDue'
  <2>1. PICK e \in timeouts[i] : e <= now /\ Begin(j, "fired", i, e)
    BY <1>7 DEF TimeoutFires
  <2>2. now' = now
    BY <1>7 DEF TimeoutFires
  <2>3. QED BY <1>1, <2>1, <2>2 DEF Begin
<1>8. ASSUME NEW j \in JobId, NEW i \in Instance, SweepStaleTimers(j, i)
      PROVE  FiredIsDue'
  <2>1. entry[i].end \in Nat /\ entry[i].end <= now
    BY <1>1, <1>8, EntryFields, TimeAssumption DEF SweepStaleTimers
  <2>2. Begin(j, "fired", i, entry[i].end) /\ now' = now
    BY <1>8 DEF SweepStaleTimers
  <2>3. QED BY <1>1, <2>1, <2>2 DEF Begin
<1>9. ASSUME NEW i \in Instance,
             AddTime(i) \/ GetTimerStatus(i) \/ EvictTimer(i) \/ RestartProcess(i)
      PROVE  FiredIsDue'
  <2>1. CASE RestartProcess(i)
    BY <1>1, <2>1 DEF RestartProcess
  <2>2. CASE ~RestartProcess(i)
    BY <1>5, <1>9, <2>2 DEF AddTime, GetTimerStatus, EvictTimer
  <2>3. QED BY <2>1, <2>2
<1>10. ASSUME NEW j \in JobId, HandlerStep(j)
       PROVE  FiredIsDue'
  <2> HIDE DEF FiredIsDue
  <2>1. QED BY <1>3, <1>4, <1>10 DEF HandlerStep, StopTimer, DeleteTimer, CreateGame,
           EndGame, StartTimer, SetTimer, PauseTimer, ResumeTimer, Step
<1>11. ASSUME NEW j \in JobId, ExpiryStep(j) \/ ExpireFails(j)
       PROVE  FiredIsDue'
  <2> HIDE DEF FiredIsDue
  <2>1. QED BY <1>3, <1>4, <1>11 DEF ExpiryStep, ExpireTimer, ReadTurn, EndExpiredTurn,
           RestartTimer, ExpireFails, Step
<1>12. CASE Tick
  BY <1>1, <1>12, JobFields DEF Tick
<1>13. CASE UNCHANGED vars
  BY <1>5, <1>13 DEF vars
<1>14. QED
  BY <1>6, <1>7, <1>8, <1>9, <1>10, <1>11, <1>12, <1>13 DEF Next

\* A job that goes from "fired" to "expire" has matched the stored timer.
LEMMA ExpiryIsMatched ==
  ASSUME TypeOK, FiredIsDue, [Next]_vars,
         NEW j \in JobId, At(j, "fired"), At(j, "expire")'
  PROVE  Running /\ timer.end <= now
<1>1. jobs[j] # NoJob /\ jobs[j].step = "fired" /\ jobs[j].n <= now
  BY DEF FiredIsDue, At
<1>2. jobs' # jobs /\ jobs \in [JobId -> Job \cup {NoJob}]
  BY <1>1 DEF At, TypeOK
<1>3. jobs'[j] # NoJob /\ jobs'[j].step = "expire"
  BY DEF At
<1>4. ASSUME NEW k \in JobId, NEW s, NEW i, NEW n, Begin(k, s, i, n)
      PROVE  FALSE
  BY <1>1, <1>2, <1>3, <1>4 DEF Begin
<1>5. ASSUME NEW k \in JobId, NEW s, NEW n, Become(k, s, n), k # j \/ s # "expire"
      PROVE  FALSE
  <2>1. CASE k # j
    BY <1>1, <1>2, <1>3, <1>5, <2>1 DEF Become
  <2>2. CASE k = j /\ s # "expire"
    <3>1. jobs' = [jobs EXCEPT ![j] = [jobs[j] EXCEPT !.step = s, !.n = n]]
      BY <1>5, <2>2 DEF Become
    <3>2. jobs[j] \in Job
      BY <1>1, <1>2
    <3>3. [jobs[j] EXCEPT !.step = s, !.n = n].step = s
      BY <3>2 DEF Job
    <3>4. QED BY <1>2, <1>3, <2>2, <3>1, <3>3
  <2>3. QED BY <1>5, <2>1, <2>2
<1>6. ASSUME NEW k \in JobId, Done(k)
      PROVE  FALSE
  BY <1>1, <1>2, <1>3, <1>6 DEF Done
<1>7. ASSUME NEW k \in JobId, NEW i \in Instance,
             \/ EndTurn(k, i) \/ GameOver(k, i) \/ StartGame(k, i) \/ HostEndsGame(k, i)
             \/ PauseGame(k, i) \/ ResumeGame(k, i)
             \/ TimerPause(k, i) \/ TimerResume(k, i) \/ TimerStop(k, i)
             \/ TimeoutFires(k, i) \/ SweepStaleTimers(k, i)
      PROVE  FALSE
  BY <1>4, <1>7 DEF EndTurn, GameOver, StartGame, HostEndsGame, PauseGame, ResumeGame,
     TimerPause, TimerResume, TimerStop, TimeoutFires, SweepStaleTimers
<1>8. ASSUME NEW k \in JobId, HandlerStep(k)
      PROVE  FALSE
  <2>1. CASE ResumeTimer(k)
    <3>1. k # j
      BY <1>1, <2>1 DEF ResumeTimer, At
    <3>2. QED BY <1>5, <1>6, <2>1, <3>1 DEF ResumeTimer
  <2>2. CASE ~ResumeTimer(k)
    BY <1>5, <1>6, <1>8, <2>2 DEF HandlerStep, StopTimer, DeleteTimer, CreateGame,
       EndGame, StartTimer, SetTimer, PauseTimer
  <2>3. QED BY <2>1, <2>2
<1>9. ASSUME NEW k \in JobId, ReadTurn(k) \/ EndExpiredTurn(k) \/ RestartTimer(k)
             \/ ExpireFails(k)
      PROVE  FALSE
  BY <1>5, <1>6, <1>9 DEF ReadTurn, EndExpiredTurn, RestartTimer, ExpireFails
<1>10. ASSUME NEW k \in JobId, ExpireTimer(k)
       PROVE  Matches(jobs[j].n)
  BY <1>5, <1>6, <1>10 DEF ExpireTimer
<1>11. ~UNCHANGED jobs
  BY <1>2
<1>12. ASSUME NEW i \in Instance,
              AddTime(i) \/ GetTimerStatus(i) \/ EvictTimer(i) \/ RestartProcess(i)
       PROVE  FALSE
  <2>1. CASE RestartProcess(i)
    BY <1>1, <1>3, <2>1 DEF RestartProcess
  <2>2. CASE ~RestartProcess(i)
    BY <1>11, <1>12, <2>2 DEF AddTime, GetTimerStatus, EvictTimer
  <2>3. QED BY <2>1, <2>2
<1>13. ~Tick /\ ~UNCHANGED vars
  BY <1>11 DEF Tick, vars
<1>14. \E k \in JobId : ExpireTimer(k)
  BY <1>7, <1>8, <1>9, <1>12, <1>13 DEF Next, ExpiryStep
<1>15. QED BY <1>1, <1>10, <1>14 DEF Matches

\* Whatever timeout is left behind by an extension, a pause or a restart, it
\* expires the stored timer only when that timer's own time is up.
THEOREM OnlyRunOutExpire == Spec => OnlyRunOutTimersExpire
<1>1. Init => FiredIsDue
  BY DEF Init, FiredIsDue, At
<1>2. TypeOK /\ FiredIsDue /\ [Next]_vars
        => [\A j \in JobId : At(j, "fired") /\ At(j, "expire")'
                               => Running /\ timer.end <= now]_vars
  BY ExpiryIsMatched
<1>3. QED
  BY <1>1, <1>2, TypeCorrect, FiredStaysDue, PTL DEF Spec, OnlyRunOutTimersExpire

-----------------------------------------------------------------------------
(* What a step does to the jobs                                            *)

Doing(j, S) == jobs[j] # NoJob /\ jobs[j].step \in S

\* The other jobs are left as they are.
Only(j) == \A k \in JobId : k # j => jobs'[k] = jobs[k]

LEMMA Begun ==
  ASSUME TypeOK, NEW j \in JobId, NEW s \in Step, NEW i \in Instance, NEW n \in Nat,
         Begin(j, s, i, n)
  PROVE  /\ jobs[j] = NoJob /\ jobs'[j] # NoJob
         /\ jobs'[j].step = s /\ jobs'[j].n = n
         /\ Only(j)
<1>1. [step |-> s, at |-> i, n |-> n] \in Job
  BY DEF Job
<1>2. jobs'[j] = [step |-> s, at |-> i, n |-> n]
  BY DEF TypeOK, Begin
<1>3. QED BY <1>1, <1>2, NullsAssumption DEF TypeOK, Begin, Only

LEMMA Became ==
  ASSUME TypeOK, NEW j \in JobId, NEW s \in Step, NEW n \in Nat,
         jobs[j] # NoJob, Become(j, s, n)
  PROVE  /\ jobs'[j] # NoJob
         /\ jobs'[j].step = s /\ jobs'[j].n = n
         /\ Only(j)
<1> DEFINE q == [jobs[j] EXCEPT !.step = s, !.n = n]
<1>1. jobs[j] \in Job
  BY DEF TypeOK
<1>2. q \in Job /\ q.step = s /\ q.n = n
  BY <1>1 DEF Job
<1>3. jobs' = [jobs EXCEPT ![j] = q]
  BY DEF Become
<1> HIDE DEF q
<1>4. QED BY <1>2, <1>3, NullsAssumption DEF TypeOK, Only

LEMMA Ended ==
  ASSUME TypeOK, NEW j \in JobId, Done(j)
  PROVE  jobs'[j] = NoJob /\ Only(j)
BY DEF TypeOK, Done, Only

\* A timeout or the sweep begins a job that comes to expire the timer.
LEMMA FiredBegins ==
  ASSUME TypeOK, NEW j \in JobId, NEW i \in Instance,
         TimeoutFires(j, i) \/ SweepStaleTimers(j, i)
  PROVE  \E n \in Nat : Begin(j, "fired", i, n)
<1>1. CASE TimeoutFires(j, i)
  BY <1>1 DEF TimeoutFires, TypeOK
<1>2. CASE SweepStaleTimers(j, i)
  BY <1>2, EntryFields DEF SweepStaleTimers
<1>3. QED BY <1>1, <1>2

LEMMA Restarted ==
  ASSUME TypeOK, NEW i \in Instance, RestartProcess(i)
  PROVE  \A k \in JobId : jobs'[k] = NoJob \/ jobs'[k] = jobs[k]
BY DEF TypeOK, RestartProcess

Busy(S) == \E j \in JobId : Doing(j, S)

\* A job is carried on by steps of its own, unless its process is restarted.
LEMMA OwnSteps ==
  ASSUME TypeOK, [Next]_vars, NEW k \in JobId, jobs[k] # NoJob
  PROVE  \/ jobs'[k] = jobs[k]
         \/ HandlerStep(k) \/ ExpiryStep(k) \/ ExpireFails(k)
         \/ "forgotten" \in stranded'
<1>0. ASSUME NEW j \in JobId, NEW x, jobs' = [jobs EXCEPT ![j] = x], j # k
      PROVE  jobs'[k] = jobs[k]
  BY <1>0 DEF TypeOK
<1>1. ASSUME NEW j \in JobId, NEW i \in Instance,
             \/ EndTurn(j, i) \/ GameOver(j, i) \/ StartGame(j, i) \/ HostEndsGame(j, i)
             \/ PauseGame(j, i) \/ ResumeGame(j, i)
             \/ TimerPause(j, i) \/ TimerResume(j, i) \/ TimerStop(j, i)
             \/ TimeoutFires(j, i) \/ SweepStaleTimers(j, i)
      PROVE  jobs'[k] = jobs[k]
  <2>1. \E s, n : Begin(j, s, i, n)
    BY <1>1 DEF EndTurn, GameOver, StartGame, HostEndsGame, PauseGame, ResumeGame,
       TimerPause, TimerResume, TimerStop, TimeoutFires, SweepStaleTimers
  <2>2. QED BY <1>0, <2>1 DEF Begin
<1>2. ASSUME NEW i \in Instance, AddTime(i) \/ GetTimerStatus(i) \/ EvictTimer(i)
      PROVE  jobs'[k] = jobs[k]
  BY <1>2 DEF AddTime, GetTimerStatus, EvictTimer
<1>3. ASSUME NEW i \in Instance, RestartProcess(i)
      PROVE  "forgotten" \in stranded'
  BY <1>3 DEF RestartProcess, Strand
<1>4. ASSUME NEW j \in JobId, j # k, HandlerStep(j)
      PROVE  jobs'[k] = jobs[k]
  <2>1. \E s, n : Become(j, s, n) \/ Done(j)
    BY <1>4 DEF HandlerStep, StopTimer, DeleteTimer, CreateGame, EndGame, StartTimer,
       SetTimer, PauseTimer, ResumeTimer
  <2>2. QED BY <1>0, <1>4, <2>1 DEF Become, Done
<1>5. ASSUME NEW j \in JobId, j # k, ExpiryStep(j) \/ ExpireFails(j)
      PROVE  jobs'[k] = jobs[k]
  <2>1. \E s, n : Become(j, s, n) \/ Done(j)
    BY <1>5 DEF ExpiryStep, ExpireTimer, ReadTurn, EndExpiredTurn, RestartTimer, ExpireFails
  <2>2. QED BY <1>0, <1>5, <2>1 DEF Become, Done
<1>6. CASE Tick \/ UNCHANGED vars
  BY <1>6 DEF Tick, vars
<1>7. QED BY <1>1, <1>2, <1>3, <1>4, <1>5, <1>6 DEF Next

\* What becomes of the timer, and through whom.
Removes(j) ==
  DeleteTimer(j) \/ StartTimer(j) \/ PauseTimer(j) \/ ResumeTimer(j) \/ ExpireTimer(j)

LEMMA TimerSteps ==
  ASSUME TypeOK, [Next]_vars
  PROVE  \/ timer' = timer
         \/ /\ timer' = NoTimer
            /\ \/ \E j \in JobId : Removes(j)
               \/ (\E i \in Instance : GetTimerStatus(i)) \/ Tick
         \/ /\ Running'
            /\ (\E j \in JobId : SetTimer(j)) \/ (Running /\ \E i \in Instance : AddTime(i))
         \/ /\ timer' # NoTimer /\ timer'.paused
            /\ \E j \in JobId : PauseTimer(j) /\ Running /\ now < timer.end
<1>1. ASSUME NEW j \in JobId, NEW i \in Instance,
             \/ EndTurn(j, i) \/ GameOver(j, i) \/ StartGame(j, i) \/ HostEndsGame(j, i)
             \/ PauseGame(j, i) \/ ResumeGame(j, i)
             \/ TimerPause(j, i) \/ TimerResume(j, i) \/ TimerStop(j, i)
             \/ TimeoutFires(j, i) \/ SweepStaleTimers(j, i)
      PROVE  timer' = timer
  BY <1>1 DEF EndTurn, GameOver, StartGame, HostEndsGame, PauseGame, ResumeGame,
     TimerPause, TimerResume, TimerStop, TimeoutFires, SweepStaleTimers
<1>2. ASSUME NEW i \in Instance, GetTimerStatus(i) \/ EvictTimer(i) \/ RestartProcess(i)
      PROVE  timer' = timer \/ (timer' = NoTimer /\ GetTimerStatus(i))
  BY <1>2 DEF GetTimerStatus, EvictTimer, RestartProcess
<1>3. ASSUME NEW i \in Instance, AddTime(i)
      PROVE  Running /\ Running'
  <2>1. Running /\ timer \in Timer /\ timer' = [timer EXCEPT !.end = timer.end + Added]
    BY <1>3 DEF AddTime, Running, TypeOK
  <2>2. timer.end + Added \in Nat
    BY <2>1, TimerFields, TimeAssumption DEF Running
  <2>3. timer' \in Timer /\ timer'.paused = timer.paused
    BY <2>1, <2>2 DEF Timer
  <2>4. QED BY <2>1, <2>3, NullsAssumption DEF Running
<1>4. ASSUME NEW j \in JobId, SetTimer(j)
      PROVE  Running'
  <2>1. now + jobs[j].n \in Nat
    BY <1>4, JobFields DEF SetTimer, At, TypeOK
  <2>2. timer' \in Timer /\ ~timer'.paused
    BY <1>4, <2>1 DEF SetTimer, Timer
  <2>3. QED BY <2>2, NullsAssumption DEF Running
<1>5. ASSUME NEW j \in JobId, PauseTimer(j), Running, now < timer.end
      PROVE  timer' # NoTimer /\ timer'.paused
  <2>1. timer \in Timer /\ timer.end \in Nat /\ now \in Nat
    BY <1>5, TimerFields DEF Running, TypeOK
  <2>2. timer' = [timer EXCEPT !.paused = TRUE, !.left = timer.end - now, !.at = now]
    BY <1>5, <2>1 DEF PauseTimer
  <2>3. timer.end - now \in Nat
    BY <1>5, <2>1
  <2>4. timer' \in Timer /\ timer'.paused
    BY <2>1, <2>2, <2>3 DEF Timer
  <2>5. QED BY <2>4, NullsAssumption
<1>6. ASSUME NEW j \in JobId, HandlerStep(j) \/ ExpiryStep(j) \/ ExpireFails(j),
             ~SetTimer(j), ~(PauseTimer(j) /\ Running /\ now < timer.end)
      PROVE  timer' = timer \/ (timer' = NoTimer /\ Removes(j))
  <2>1. CASE StopTimer(j) \/ CreateGame(j) \/ EndGame(j) \/ ExpireFails(j)
             \/ ReadTurn(j) \/ EndExpiredTurn(j) \/ RestartTimer(j)
    BY <2>1 DEF StopTimer, CreateGame, EndGame, ReadTurn, EndExpiredTurn, RestartTimer,
       ExpireFails
  <2>2. CASE DeleteTimer(j) \/ StartTimer(j) \/ ResumeTimer(j) \/ ExpireTimer(j)
    BY <2>2 DEF DeleteTimer, StartTimer, ResumeTimer, ExpireTimer, Removes
  <2>3. CASE PauseTimer(j)
    BY <1>6, <2>3 DEF PauseTimer, Removes
  <2>4. QED BY <1>6, <2>1, <2>2, <2>3 DEF HandlerStep, ExpiryStep
<1>7. CASE Tick
  BY <1>7 DEF Tick
<1>8. CASE UNCHANGED vars
  BY <1>8 DEF vars
<1>9. QED BY <1>1, <1>2, <1>3, <1>4, <1>5, <1>6, <1>7, <1>8 DEF Next

\* Only a new timer clears what was noted of the last one.
LEMMA HistoryGrows ==
  ASSUME TypeOK, [Next]_vars, \A j \in JobId : ~SetTimer(j)
  PROVE  stranded \subseteq stranded' /\ (waived => waived')
<1>1. ASSUME NEW j \in JobId, NEW i \in Instance,
             \/ EndTurn(j, i) \/ GameOver(j, i) \/ StartGame(j, i) \/ HostEndsGame(j, i)
             \/ PauseGame(j, i) \/ ResumeGame(j, i)
             \/ TimerPause(j, i) \/ TimerResume(j, i) \/ TimerStop(j, i)
             \/ TimeoutFires(j, i) \/ SweepStaleTimers(j, i)
      PROVE  stranded' = stranded /\ (waived => waived')
  BY <1>1 DEF EndTurn, GameOver, StartGame, HostEndsGame, PauseGame, ResumeGame,
     TimerPause, TimerResume, TimerStop, TimeoutFires, SweepStaleTimers, history
<1>2. ASSUME NEW i \in Instance,
             AddTime(i) \/ GetTimerStatus(i) \/ EvictTimer(i) \/ RestartProcess(i)
      PROVE  stranded \subseteq stranded' /\ waived' = waived
  BY <1>2 DEF AddTime, GetTimerStatus, EvictTimer, RestartProcess, Strand
<1>3. ASSUME NEW j \in JobId, HandlerStep(j)
      PROVE  stranded \subseteq stranded' /\ waived' = waived
  BY <1>3 DEF HandlerStep, StopTimer, DeleteTimer, CreateGame, EndGame, StartTimer,
     PauseTimer, ResumeTimer, Refused, Strand, history
<1>4. ASSUME NEW j \in JobId, ExpiryStep(j) \/ ExpireFails(j)
      PROVE  stranded \subseteq stranded' /\ waived' = waived
  BY <1>4 DEF ExpiryStep, ExpireTimer, ReadTurn, EndExpiredTurn, RestartTimer, ExpireFails,
     Strand, history
<1>5. CASE Tick \/ UNCHANGED vars
  BY <1>5 DEF Tick, vars, history
<1>6. QED BY <1>1, <1>2, <1>3, <1>4, <1>5 DEF Next

-----------------------------------------------------------------------------
(* One process keeps its timer armed                                       *)

\* Redis has dropped the key before the sweep takes its entry for stale.
InTime == Running => now < timer.end + TtlBuffer

LEMMA StaysInTime == TypeOK /\ InTime /\ [Next]_vars => InTime'
<1> SUFFICES ASSUME TypeOK, InTime, [Next]_vars PROVE InTime'
  OBVIOUS
<1>1. now \in Nat /\ TtlBuffer \in Nat \ {0} /\ Added \in Nat
  BY TimeAssumption DEF TypeOK
<1>2. UNCHANGED now /\ timer' \in {timer, NoTimer} => InTime'
  BY DEF InTime, Running
<1>3. ASSUME NEW j \in JobId, NEW i \in Instance,
             \/ EndTurn(j, i) \/ GameOver(j, i) \/ StartGame(j, i) \/ HostEndsGame(j, i)
             \/ PauseGame(j, i) \/ ResumeGame(j, i)
             \/ TimerPause(j, i) \/ TimerResume(j, i) \/ TimerStop(j, i)
             \/ TimeoutFires(j, i) \/ SweepStaleTimers(j, i)
      PROVE  InTime'
  BY <1>2, <1>3 DEF EndTurn, GameOver, StartGame, HostEndsGame, PauseGame, ResumeGame,
     TimerPause, TimerResume, TimerStop, TimeoutFires, SweepStaleTimers
<1>4. ASSUME NEW i \in Instance, AddTime(i)
      PROVE  InTime'
  <2>1. timer \in Timer /\ timer.end \in Nat /\ now < timer.end
    BY <1>4, TimerFields DEF AddTime, Running, TypeOK
  <2>2. timer' = [timer EXCEPT !.end = timer.end + Added] /\ now' = now
    BY <1>4 DEF AddTime
  <2>3. timer'.end = timer.end + Added
    BY <2>1, <2>2 DEF Timer
  <2>4. QED BY <1>1, <2>1, <2>2, <2>3 DEF InTime
<1>5. ASSUME NEW i \in Instance,
             GetTimerStatus(i) \/ EvictTimer(i) \/ RestartProcess(i)
      PROVE  InTime'
  BY <1>2, <1>5 DEF GetTimerStatus, EvictTimer, RestartProcess
<1>6. ASSUME NEW j \in JobId, SetTimer(j)
      PROVE  InTime'
  <2>1. jobs[j].n \in Nat
    BY <1>6, JobFields DEF SetTimer, At
  <2>2. timer'.end = now + jobs[j].n /\ now' = now
    BY <1>6 DEF SetTimer
  <2>3. QED BY <1>1, <2>1, <2>2 DEF InTime
<1>7. ASSUME NEW j \in JobId, PauseTimer(j)
      PROVE  InTime'
  <2>1. CASE Running /\ now < timer.end
    <3>1. timer \in Timer /\ timer.end \in Nat
      BY <2>1, TimerFields DEF Running, TypeOK
    <3>2. timer' = [timer EXCEPT !.paused = TRUE, !.left = timer.end - now, !.at = now]
      BY <1>7, <1>1, <2>1, <3>1 DEF PauseTimer
    <3>3. timer'.paused
      BY <3>1, <3>2 DEF Timer
    <3>4. QED BY <3>3 DEF InTime, Running
  <2>2. CASE ~(Running /\ now < timer.end)
    BY <1>2, <1>7, <2>2 DEF PauseTimer
  <2>3. QED BY <2>1, <2>2
<1>8. ASSUME NEW j \in JobId, HandlerStep(j), ~SetTimer(j), ~PauseTimer(j)
      PROVE  InTime'
  BY <1>2, <1>8 DEF HandlerStep, StopTimer, DeleteTimer, CreateGame, EndGame,
     StartTimer, ResumeTimer
<1>9. ASSUME NEW j \in JobId, ExpiryStep(j) \/ ExpireFails(j)
      PROVE  InTime'
  BY <1>2, <1>9 DEF ExpiryStep, ExpireTimer, ReadTurn, EndExpiredTurn, RestartTimer,
     ExpireFails
<1>10. CASE Tick
  <2>1. CASE Running /\ ~(now + 1 >= timer.end + TtlBuffer)
    <3>1. timer.end \in Nat /\ timer' = timer /\ now' = now + 1
      BY <1>10, <2>1, TimerFields DEF Tick, Running
    <3>2. QED BY <1>1, <2>1, <3>1 DEF InTime
  <2>2. CASE Running /\ now + 1 >= timer.end + TtlBuffer
    BY <1>10, <2>2 DEF Tick, InTime, Running
  <2>3. CASE ~Running
    BY <1>10, <2>3 DEF Tick, InTime, Running
  <2>4. QED BY <2>1, <2>2, <2>3
<1>11. CASE UNCHANGED vars
  BY <1>2, <1>11 DEF vars
<1>12. QED
  BY <1>3, <1>4, <1>5, <1>6, <1>7, <1>8, <1>9, <1>10, <1>11 DEF Next

Stopping == {"delete", "deleteEnd", "deleteCreate"}

\* The entry and the timeout of process i are those of the stored timer.
ArmedAt(i) ==
  /\ entry[i] = [end |-> timer.end, paused |-> FALSE]
  /\ \/ timer.end \in timeouts[i]
     \/ \E j \in Steps({"fired"}) : jobs[j].n = timer.end

\* The timer is lost, or about to be deleted.
Unarmed  == stranded \cap {"failed", "forgotten"} # {} \/ Busy(Stopping)
Armed(i) == Running => ArmedAt(i) \/ Unarmed

\* Nobody has to end the turn; or the timer is about to give way to another, to
\* the end of the game or to a new one.
Left       == ~live \/ waived \/ stranded # {}
Replaced   == Left \/ Busy({"start", "deleteEnd", "deleteCreate"})
Renewed(i) == Running => ArmedAt(i) \/ Replaced

LEMMA SetIsArmed ==
  ASSUME TypeOK, NEW i \in Instance, Instance = {i}, NEW j \in JobId, SetTimer(j)
  PROVE  ArmedAt(i)'
<1>1. jobs[j].at = i
  BY JobFields DEF SetTimer, At
<1>2. timer'.end = now + jobs[j].n
  BY DEF SetTimer
<1>3. Arm(i, timer'.end, FALSE)
  BY <1>1, <1>2 DEF SetTimer
<1>4. entry'[i] = [end |-> timer'.end, paused |-> FALSE] /\ timer'.end \in timeouts'[i]
  BY <1>3 DEF Arm, TypeOK
<1>5. QED BY <1>4 DEF ArmedAt

LEMMA ExtendedIsArmed ==
  ASSUME TypeOK, NEW i \in Instance, ArmedAt(i), AddTime(i)
  PROVE  ArmedAt(i)'
<1>1. entry[i] = [end |-> timer.end, paused |-> FALSE] /\ entry[i] # NoEntry
  <2>1. timer.end \in Nat
    BY TimerFields DEF AddTime, Running
  <2>2. [end |-> timer.end, paused |-> FALSE] \in Entry
    BY <2>1 DEF Entry
  <2>3. QED BY <2>2, NullsAssumption DEF ArmedAt
<1>2. Arm(i, timer'.end, FALSE)
  <2>1. entry[i].paused = FALSE
    BY <1>1
  <2>2. Arm(i, timer'.end, entry[i].paused)
    BY <1>1, Zenon DEF AddTime
  <2>3. QED BY <2>1, <2>2
<1>3. entry'[i] = [end |-> timer'.end, paused |-> FALSE] /\ timer'.end \in timeouts'[i]
  BY <1>2 DEF Arm, TypeOK
<1>4. QED BY <1>3 DEF ArmedAt

\* A step that changes neither timer nor locals leaves process i armed, if no
\* timeout that is under way for the timer ends with it.
LEMMA ArmedFrame ==
  ASSUME NEW i \in Instance, ArmedAt(i), UNCHANGED <<timer, entry, timeouts>>,
         \A k \in JobId : Doing(k, {"fired"}) /\ jobs[k].n = timer.end => jobs'[k] = jobs[k]
  PROVE  ArmedAt(i)'
BY DEF ArmedAt, Steps, Doing

LEMMA ArmedFires ==
  ASSUME TypeOK, InTime, Running, NEW i \in Instance, ArmedAt(i), TtlBuffer <= Stale,
         NEW j \in JobId, TimeoutFires(j, i) \/ SweepStaleTimers(j, i)
  PROVE  ArmedAt(i)'
<1>1. CASE TimeoutFires(j, i)
  <2>1. PICK e \in timeouts[i] : /\ timeouts' = [timeouts EXCEPT ![i] = @ \ {e}]
                                 /\ Begin(j, "fired", i, e)
    BY <1>1 DEF TimeoutFires
  <2>2. e \in Nat
    BY DEF TypeOK
  <2>3. Doing(j, {"fired"})' /\ jobs'[j].n = e /\ jobs[j] = NoJob /\ Only(j)
    BY <2>1, <2>2, Begun DEF Step, Doing
  <2>4. UNCHANGED <<timer, entry>> /\ timeouts'[i] = timeouts[i] \ {e}
    BY <1>1, <2>1 DEF TimeoutFires, TypeOK
  <2>5. \A k \in Steps({"fired"}) : k \in Steps({"fired"})' /\ jobs'[k] = jobs[k]
    BY <2>3 DEF Steps, Only
  <2>6. j \in Steps({"fired"})'
    BY <2>3 DEF Steps, Doing
  <2>7. QED BY <2>3, <2>4, <2>5, <2>6 DEF ArmedAt
<1>2. CASE SweepStaleTimers(j, i)
  <2>1. timer.end \in Nat /\ now \in Nat /\ now < timer.end + TtlBuffer
    BY TimerFields DEF InTime, Running, TypeOK
  <2>2. timer.end + Stale < now
    BY <1>2 DEF SweepStaleTimers, ArmedAt
  <2>3. QED BY <2>1, <2>2, TimeAssumption
<1>3. QED BY <1>1, <1>2

\* Whoever disarms a timer that goes on running is about to replace or delete it,
\* or is noted.
LEMMA Disarmed ==
  ASSUME TypeOK, InTime, [Next]_vars, NEW i \in Instance, Instance = {i},
         TtlBuffer <= Stale, ArmedAt(i), Running, Running', ~ArmedAt(i)'
  PROVE  Unarmed' /\ Replaced'
<1>1. ASSUME NEW j \in JobId,
             EndTurn(j, i) \/ GameOver(j, i) \/ PauseGame(j, i) \/ ResumeGame(j, i)
             \/ TimerPause(j, i) \/ TimerResume(j, i)
      PROVE  FALSE
  <2>1. UNCHANGED <<timer, entry, timeouts>> /\ \E s, n : Begin(j, s, i, n)
    BY <1>1 DEF EndTurn, GameOver, PauseGame, ResumeGame, TimerPause, TimerResume, localVars
  <2>2. jobs[j] = NoJob /\ \A k \in JobId : k # j => jobs'[k] = jobs[k]
    BY <2>1 DEF Begin, TypeOK
  <2>3. QED BY <2>1, <2>2, ArmedFrame DEF Doing
<1>2. ASSUME NEW j \in JobId, StartGame(j, i) \/ HostEndsGame(j, i) \/ TimerStop(j, i)
      PROVE  Unarmed' /\ Replaced'
  <2>1. CASE TimerStop(j, i)
    <3>1. waived' /\ Begin(j, "delete", i, 0)
      BY <2>1 DEF TimerStop
    <3>2. Doing(j, Stopping)'
      BY <3>1, Begun DEF Step, Doing, Stopping
    <3>3. QED BY <3>1, <3>2 DEF Unarmed, Replaced, Left, Busy
  <2>2. CASE StartGame(j, i) \/ HostEndsGame(j, i)
    <3>1. \E s \in {"deleteEnd", "deleteCreate"} : Begin(j, s, i, 0)
      BY <2>2 DEF StartGame, HostEndsGame
    <3>2. Doing(j, {"deleteEnd", "deleteCreate"})'
      BY <3>1, Begun DEF Step, Doing
    <3>3. QED BY <3>2 DEF Unarmed, Replaced, Busy, Doing, Stopping
  <2>3. QED BY <1>2, <2>1, <2>2
<1>3. ASSUME NEW j \in JobId, TimeoutFires(j, i) \/ SweepStaleTimers(j, i)
      PROVE  FALSE
  BY <1>3, ArmedFires
<1>4. ~AddTime(i)
  BY ExtendedIsArmed
<1>5. ASSUME GetTimerStatus(i)
      PROVE  FALSE
  BY <1>5 DEF GetTimerStatus, Running
<1>6. ASSUME EvictTimer(i) \/ RestartProcess(i)
      PROVE  Unarmed' /\ Replaced'
  BY <1>6 DEF EvictTimer, RestartProcess, Strand, Unarmed, Replaced, Left
<1>7. ASSUME NEW j \in JobId, StopTimer(j)
      PROVE  Unarmed' /\ Replaced'
  <2>1. jobs[j] # NoJob /\ Become(j, "delete", 0) /\ live' = live
    BY <1>7 DEF StopTimer, At, gameVars
  <2>2. Doing(j, Stopping)'
    BY <2>1, Became DEF Step, Doing, Stopping
  <2>3. Left'
    BY <1>7, <2>1 DEF StopTimer, Strand, Left
  <2>4. QED BY <2>2, <2>3 DEF Unarmed, Replaced, Busy
<1>8. ASSUME NEW j \in JobId, DeleteTimer(j) \/ StartTimer(j)
      PROVE  FALSE
  BY <1>8 DEF DeleteTimer, StartTimer, Running
<1>9. ASSUME NEW j \in JobId, CreateGame(j) \/ EndGame(j)
      PROVE  FALSE
  <2>1. /\ UNCHANGED <<timer, entry, timeouts>> /\ ~Doing(j, {"fired"})
        /\ \E s, n : Become(j, s, n) \/ Done(j)
    BY <1>9 DEF CreateGame, EndGame, At, Doing, localVars
  <2>2. Only(j)
    BY <2>1 DEF Become, Done, Only, TypeOK
  <2>3. QED BY <2>1, <2>2, ArmedFrame DEF Only
<1>10. ASSUME NEW j \in JobId, SetTimer(j)
       PROVE  FALSE
  BY <1>10, SetIsArmed
<1>11. ASSUME NEW j \in JobId, PauseTimer(j)
       PROVE  FALSE
  <2>1. timer \in Timer /\ timer.end \in Nat /\ now \in Nat
    BY TimerFields DEF Running, TypeOK
  <2>2. ~(now < timer.end)
    <3>1. SUFFICES ASSUME now < timer.end PROVE FALSE
      OBVIOUS
    <3>2. timer' = [timer EXCEPT !.paused = TRUE, !.left = timer.end - now, !.at = now]
      BY <1>11, <2>1, <3>1 DEF PauseTimer
    <3>3. timer'.paused
      BY <2>1, <3>2 DEF Timer
    <3>4. QED BY <3>3 DEF Running
  <2>3. QED BY <1>11, <2>1, <2>2 DEF PauseTimer, Running
<1>12. ASSUME NEW j \in JobId, ResumeTimer(j)
       PROVE  FALSE
  <2>1. UNCHANGED <<timer, entry, timeouts>> /\ Done(j) /\ ~Doing(j, {"fired"})
    BY <1>12 DEF ResumeTimer, Running, At, Doing, localVars
  <2>2. QED BY <2>1, Ended, ArmedFrame DEF Only
<1>13. ASSUME NEW j \in JobId, ExpireTimer(j)
       PROVE  FALSE
  <2>1. ~Matches(jobs[j].n) /\ Done(j) /\ UNCHANGED <<timer, entry, timeouts>>
    BY <1>13 DEF ExpireTimer, Running
  <2>2. QED BY <2>1, Ended, ArmedFrame DEF Only, Matches
<1>14. ASSUME NEW j \in JobId, ReadTurn(j) \/ EndExpiredTurn(j) \/ RestartTimer(j)
       PROVE  FALSE
  <2>1. /\ UNCHANGED <<timer, entry, timeouts>> /\ ~Doing(j, {"fired"})
        /\ \E s, n : Become(j, s, n) \/ Done(j)
    BY <1>14 DEF ReadTurn, EndExpiredTurn, RestartTimer, At, Doing, localVars
  <2>2. Only(j)
    BY <2>1 DEF Become, Done, Only, TypeOK
  <2>3. QED BY <2>1, <2>2, ArmedFrame DEF Only
<1>15. ASSUME NEW j \in JobId, ExpireFails(j)
       PROVE  Unarmed' /\ Replaced'
  <2>1. CASE Matches(jobs[j].n)
    BY <1>15, <2>1 DEF ExpireFails, Strand, Unarmed, Replaced, Left
  <2>2. CASE ~Matches(jobs[j].n)
    <3>1. Done(j) /\ UNCHANGED <<timer, entry, timeouts>>
      BY <1>15 DEF ExpireFails, localVars
    <3>2. QED BY <2>2, <3>1, Ended, ArmedFrame DEF Only, Matches
  <2>3. QED BY <2>1, <2>2
<1>16. ~Tick
  BY ArmedFrame DEF Tick, Running, localVars
<1>17. ~UNCHANGED vars
  BY ArmedFrame DEF vars, localVars
<1>18. QED
  BY <1>1, <1>2, <1>3, <1>4, <1>5, <1>6, <1>7, <1>8, <1>9, <1>10, <1>11, <1>12, <1>13,
     <1>14, <1>15, <1>16, <1>17 DEF Next, HandlerStep, ExpiryStep

\* A timer that is lost or about to be deleted stays so until it is gone or set.
LEMMA StaysUnarmed ==
  ASSUME TypeOK, [Next]_vars, Unarmed, timer' # NoTimer, \A j \in JobId : ~SetTimer(j)
  PROVE  Unarmed'
<1>1. stranded \subseteq stranded'
  BY HistoryGrows
<1>2. ASSUME NEW k \in JobId, Doing(k, Stopping)
      PROVE  Unarmed'
  <2>1. ~HandlerStep(k) /\ ~ExpiryStep(k) /\ ~ExpireFails(k)
    BY <1>2 DEF Doing, Stopping, HandlerStep, ExpiryStep, StopTimer, DeleteTimer, CreateGame,
       EndGame, StartTimer, SetTimer, PauseTimer, ResumeTimer, ExpireTimer, ReadTurn,
       EndExpiredTurn, RestartTimer, ExpireFails, At
  <2>2. jobs'[k] = jobs[k] \/ "forgotten" \in stranded'
    BY <1>2, <2>1, OwnSteps DEF Doing
  <2>3. QED BY <1>2, <2>2 DEF Unarmed, Busy, Doing
<1>3. QED BY <1>1, <1>2 DEF Unarmed, Busy

LEMMA StaysArmed ==
  ASSUME TypeOK, InTime, [Next]_vars, NEW i \in Instance, Instance = {i},
         TtlBuffer <= Stale, Armed(i)
  PROVE  Armed(i)'
<1> SUFFICES ASSUME Running', ~ArmedAt(i)' PROVE Unarmed'
  BY DEF Armed
<1>1. \A j \in JobId : ~SetTimer(j)
  BY SetIsArmed
<1>2. Running
  BY <1>1, TimerSteps DEF Running
<1>3. CASE ArmedAt(i)
  BY <1>2, <1>3, Disarmed
<1>4. CASE Unarmed
  BY <1>1, <1>4, StaysUnarmed DEF Running
<1>5. QED BY <1>2, <1>3, <1>4 DEF Armed

\* With one process a running timer always has an entry and a timeout for exactly
\* its end, unless it is being stopped, its expiry has failed or the process has
\* forgotten it, whatever host and players ask for and however the steps interleave.
THEOREM TimerStaysArmed ==
  ASSUME NEW i, Instance = {i}, TtlBuffer <= Stale
  PROVE  Spec => []TimerIsArmed
<1>1. i \in Instance
  OBVIOUS
<1>2. Init => InTime /\ Armed(i)
  BY DEF Init, InTime, Armed, Running
<1>3. TypeOK /\ InTime /\ Armed(i) /\ [Next]_vars => Armed(i)'
  BY <1>1, StaysArmed
<1>4. Armed(i) => TimerIsArmed
  BY <1>1 DEF Armed, Unarmed, Busy, Doing, Steps, ArmedAt, Stopping, TimerIsArmed
<1>5. QED BY <1>2, <1>3, <1>4, TypeCorrect, StaysInTime, PTL DEF Spec

-----------------------------------------------------------------------------
(* A turn lasts its time                                                   *)

Asking   == {"pause", "resume", "deleteEnd", "end", "deleteCreate", "create"}
Starting == {"deleteCreate", "create"}
Setting  == {"start", "set"}
Turning  == {"start", "set", "expire", "endTurn", "check"}

\* The host has one request under way, and a new game is made only where none is
\* played, none is about to be timed, and no timer is left.
OneRequest  == \A j, k \in JobId : Doing(j, Asking) /\ Doing(k, Asking) => j = k
CleanStart  == \A j \in JobId : Doing(j, Starting) =>
                 ~live /\ \A k \in JobId : ~Doing(k, Setting)
CleanBoard  == \A j \in JobId : Doing(j, {"create"}) => timer = NoTimer
Asked == OneRequest /\ CleanStart /\ CleanBoard

\* One thing at a time stands between a turn and its successor: its timer, or the
\* job that will set the timer or end the turn.  Only a timer that is being
\* resumed is still there when the job that replaces it is.
OneTurning  == \A j, k \in JobId : Doing(j, Turning) /\ Doing(k, Turning) => j = k
TimerAlone  == \A j \in JobId : timer # NoTimer /\ Doing(j, Turning) =>
                 /\ timer.paused /\ Doing(j, {"start"})
                 /\ \A k \in JobId : ~Doing(k, {"pause", "resume"})

\* Whichever it is, it does not end the turn before its time.
Due == began + Duration
TimerNotEarly == timer # NoTimer =>
                   IF timer.paused THEN timer.at <= now /\ Due <= timer.at + timer.left
                                   ELSE Due <= timer.end
JobNotEarly == \A j \in JobId :
                 /\ Doing(j, Setting) => Due <= now + jobs[j].n
                 /\ Doing(j, {"expire", "endTurn"}) => Due <= now
Timed == OneTurning /\ TimerAlone /\ TimerNotEarly /\ JobNotEarly /\ began <= now

Unraced == ~raced => Asked /\ Timed

LEMMA AnsweredIsIdle ==
  ASSUME Answered, NEW j \in JobId
  PROVE  ~Doing(j, Asking) /\ ~Doing(j, Setting)
BY DEF Answered, Steps, Doing, Asking, Setting, Step

\* A request made while the last one is answered, or else a race.
LEMMA HostIsFree ==
  ASSUME NEW c, Host(c), ~raced'
  PROVE  ~raced /\ Answered
BY DEF Host

\* What has raced once has raced for good.
LEMMA RacesLast ==
  ASSUME [Next]_vars, ~raced'
  PROVE  ~raced
<1>1. ASSUME NEW j \in JobId, NEW i \in Instance,
             EndTurn(j, i) \/ TimeoutFires(j, i) \/ SweepStaleTimers(j, i)
      PROVE  ~raced
  BY <1>1 DEF EndTurn, TimeoutFires, SweepStaleTimers, history
<1>2. ASSUME NEW j \in JobId, NEW i \in Instance,
             \/ GameOver(j, i) \/ StartGame(j, i) \/ HostEndsGame(j, i)
             \/ PauseGame(j, i) \/ ResumeGame(j, i)
             \/ TimerPause(j, i) \/ TimerResume(j, i) \/ TimerStop(j, i)
      PROVE  ~raced
  BY <1>2 DEF GameOver, StartGame, HostEndsGame, PauseGame, ResumeGame,
     TimerPause, TimerResume, TimerStop, Host, history
<1>3. ASSUME NEW i \in Instance,
             AddTime(i) \/ GetTimerStatus(i) \/ EvictTimer(i) \/ RestartProcess(i)
      PROVE  ~raced
  BY <1>3 DEF AddTime, Host, GetTimerStatus, EvictTimer, RestartProcess, history
<1>4. ASSUME NEW j \in JobId, HandlerStep(j)
      PROVE  ~raced
  <2>1. ASSUME StopTimer(j) \/ DeleteTimer(j) \/ EndGame(j) \/ StartTimer(j)
        PROVE  ~raced
    BY <2>1 DEF StopTimer, DeleteTimer, EndGame, StartTimer, history
  <2>2. ASSUME CreateGame(j) \/ SetTimer(j)
        PROVE  ~raced
    BY <2>2 DEF CreateGame, SetTimer
  <2>3. CASE PauseTimer(j)
    BY <2>3 DEF PauseTimer, history
  <2>4. CASE ResumeTimer(j)
    BY <2>4 DEF ResumeTimer
  <2>5. QED BY <1>4, <2>1, <2>2, <2>3, <2>4 DEF HandlerStep
<1>5. ASSUME NEW j \in JobId, ExpiryStep(j) \/ ExpireFails(j)
      PROVE  ~raced
  BY <1>5 DEF ExpiryStep, ExpireTimer, ReadTurn, EndExpiredTurn, RestartTimer,
     ExpireFails, history
<1>6. CASE Tick \/ UNCHANGED vars
  BY <1>6 DEF Tick, vars, history
<1>7. QED BY <1>1, <1>2, <1>3, <1>4, <1>5, <1>6 DEF Next

LEMMA AskedFrame ==
  ASSUME TypeOK, Asked, live' => live, timer' \in {timer, NoTimer},
         \A k \in JobId : jobs'[k] = jobs[k] \/ ~Doing(k, Asking \cup Setting)'
  PROVE  Asked'
<1>1. OneRequest'
  BY DEF Asked, OneRequest, Doing, Asking, Setting
<1>2. CleanStart'
  BY DEF Asked, CleanStart, Doing, Asking, Setting, Starting
<1>3. CleanBoard'
  BY DEF Asked, CleanBoard, Doing, Asking, Setting
<1>4. QED BY <1>1, <1>2, <1>3 DEF Asked

LEMMA AskedRequests ==
  ASSUME TypeOK, ~raced => Asked, ~raced', NEW j \in JobId, NEW i \in Instance,
         \/ EndTurn(j, i) \/ GameOver(j, i) \/ StartGame(j, i) \/ HostEndsGame(j, i)
         \/ PauseGame(j, i) \/ ResumeGame(j, i)
         \/ TimerPause(j, i) \/ TimerResume(j, i) \/ TimerStop(j, i)
  PROVE  Asked'
<1>1. ~EndTurn(j, i)
  BY DEF EndTurn
<1>2. CASE GameOver(j, i)
  <2>1. Asked /\ ~live' /\ timer' = timer
    BY <1>2 DEF GameOver, history
  <2>2. Only(j) /\ jobs'[j].step = "stop"
    BY <1>2, Begun DEF GameOver, Step
  <2>3. \A k \in JobId : jobs'[k] = jobs[k] \/ ~Doing(k, Asking \cup Setting)'
    BY <2>2 DEF Only, Doing, Asking, Setting
  <2>4. QED BY <2>1, <2>3, AskedFrame
<1>3. ASSUME NEW s \in Step, Begin(j, s, i, 0), Answered, Asked,
             s \in Starting => ~live', s \notin Setting \cup {"create"}
      PROVE  Asked'
  <2>1. Only(j) /\ jobs'[j] # NoJob /\ jobs'[j].step = s
    BY <1>3, Begun
  <2>2. \A k \in JobId : ~Doing(k, Asking) /\ ~Doing(k, Setting)
    BY <1>3, AnsweredIsIdle
  <2>3. \A k \in JobId : k # j => ~Doing(k, Asking)' /\ ~Doing(k, Setting)'
    BY <2>1, <2>2 DEF Only, Doing
  <2>4. ~Doing(j, Setting)' /\ ~Doing(j, {"create"})'
    BY <1>3, <2>1 DEF Doing
  <2>5. OneRequest'
    BY <2>3 DEF OneRequest
  <2>6. CleanStart'
    <3>1. \A k \in JobId : Doing(k, Starting)' => k = j /\ s \in Starting
      BY <2>1, <2>3 DEF Doing, Starting, Asking
    <3>2. QED BY <1>3, <2>3, <2>4, <3>1 DEF CleanStart
  <2>7. CleanBoard'
    <3>1. \A k \in JobId : ~Doing(k, {"create"})'
      BY <2>3, <2>4 DEF Doing, Asking
    <3>2. QED BY <3>1 DEF CleanBoard
  <2>8. QED BY <2>5, <2>6, <2>7 DEF Asked
<1>4. CASE StartGame(j, i)
  <2>1. Answered /\ Asked /\ ~live'
    BY <1>4, HostIsFree DEF StartGame, gameVars
  <2>2. QED BY <1>3, <1>4, <2>1 DEF StartGame, Step, Setting
<1>5. CASE \/ HostEndsGame(j, i) \/ PauseGame(j, i) \/ ResumeGame(j, i)
           \/ TimerPause(j, i) \/ TimerResume(j, i) \/ TimerStop(j, i)
  <2>1. Answered /\ Asked
    BY <1>5, HostIsFree DEF HostEndsGame, PauseGame, ResumeGame, TimerPause, TimerResume,
       TimerStop
  <2>2. QED BY <1>3, <1>5, <2>1 DEF HostEndsGame, PauseGame, ResumeGame, TimerPause,
           TimerResume, TimerStop, Step, Setting, Starting
<1>6. QED BY <1>1, <1>2, <1>4, <1>5

\* A job that ends, or goes on to what is neither a request nor a timer to be set.
LEMMA AskedEnds ==
  ASSUME TypeOK, Asked, live' => live, timer' \in {timer, NoTimer}, NEW j \in JobId,
         \/ Done(j)
         \/ \E s \in Step \ (Asking \cup Setting), n \in Nat :
              \/ jobs[j] # NoJob /\ Become(j, s, n)
              \/ \E i \in Instance : Begin(j, s, i, n)
  PROVE  Asked'
<1>1. Only(j) /\ ~Doing(j, Asking \cup Setting)'
  <2>1. CASE Done(j)
    BY <2>1, Ended DEF Doing
  <2>2. ASSUME NEW s \in Step \ (Asking \cup Setting), NEW n \in Nat,
               jobs[j] # NoJob, Become(j, s, n)
        PROVE  Only(j) /\ ~Doing(j, Asking \cup Setting)'
    BY <2>2, Became DEF Doing
  <2>3. ASSUME NEW s \in Step \ (Asking \cup Setting), NEW n \in Nat,
               NEW i \in Instance, Begin(j, s, i, n)
        PROVE  Only(j) /\ ~Doing(j, Asking \cup Setting)'
    BY <2>3, Begun DEF Doing
  <2>4. QED BY <2>1, <2>2, <2>3
<1>2. QED BY <1>1, AskedFrame DEF Only

LEMMA AskedHandlers ==
  ASSUME TypeOK, ~raced => Asked, ~raced', NEW j \in JobId, HandlerStep(j)
  PROVE  Asked'
<1>0. Asked
  BY RacesLast DEF Next
<1>1. CASE StopTimer(j)
  BY <1>0, <1>1, AskedEnds DEF StopTimer, At, Step, Asking, Setting, gameVars
<1>2. CASE DeleteTimer(j)
  <2>1. timer' = NoTimer /\ live' = live
    BY <1>2 DEF DeleteTimer, gameVars
  <2>2. CASE At(j, "delete") /\ Done(j)
    BY <1>0, <2>1, <2>2, AskedEnds
  <2>3. ASSUME \/ At(j, "deleteEnd") /\ Become(j, "end", 0)
               \/ At(j, "deleteCreate") /\ Become(j, "create", 0)
        PROVE  Asked'
    <3>1. /\ Only(j) /\ jobs'[j] # NoJob
          /\ \/ jobs[j].step = "deleteEnd" /\ jobs'[j].step = "end"
             \/ jobs[j].step = "deleteCreate" /\ jobs'[j].step = "create"
      BY <2>3, Became DEF At, Step
    <3>2. jobs[j] # NoJob
      BY <2>3 DEF At
    <3>3. \A k \in JobId : /\ Doing(k, Asking)' => Doing(k, Asking)
                           /\ Doing(k, Starting)' => Doing(k, Starting)
                           /\ Doing(k, Setting)' => Doing(k, Setting)
      BY <3>1, <3>2 DEF Only, Doing, Asking, Starting, Setting
    <3>4. QED BY <1>0, <2>1, <3>3 DEF Asked, OneRequest, CleanStart, CleanBoard
  <2>4. QED BY <1>2, <2>2, <2>3 DEF DeleteTimer
<1>3. CASE CreateGame(j)
  <2>1. Doing(j, Asking) /\ jobs[j] # NoJob
    BY <1>3 DEF CreateGame, At, Doing, Asking
  <2>2. timer' = timer
    BY <1>3 DEF CreateGame
  <2>3. \A k \in JobId : k # j => ~Doing(k, Asking)
    BY <1>0, <2>1 DEF Asked, OneRequest
  <2>4. Only(j) /\ ~Doing(j, Asking)'
    <3>1. CASE Done(j)
      BY <3>1, Ended DEF Doing
    <3>2. CASE Become(j, "start", Duration)
      BY <2>1, <3>2, Became, TimeAssumption DEF Doing, Asking, Step
    <3>3. QED BY <1>3, <3>1, <3>2 DEF CreateGame
  <2>5. \A k \in JobId : ~Doing(k, Asking)'
    BY <2>3, <2>4 DEF Only, Doing
  <2>6. \A k \in JobId : ~Doing(k, Starting)' /\ ~Doing(k, {"create"})'
    BY <2>5 DEF Doing, Asking, Starting
  <2>7. QED BY <2>5, <2>6 DEF Asked, OneRequest, CleanStart, CleanBoard
<1>4. CASE EndGame(j)
  BY <1>0, <1>4, AskedEnds DEF EndGame
<1>5. CASE StartTimer(j)
  <2>1. /\ jobs[j] # NoJob /\ jobs[j].step = "start" /\ jobs[j].n \in Nat
        /\ timer' = NoTimer /\ live' = live
    BY <1>5, JobFields DEF StartTimer, At, gameVars
  <2>2. Only(j) /\ jobs'[j].step = "set"
    BY <1>5, <2>1, Became DEF StartTimer, Step
  <2>3. \A k \in JobId : /\ Doing(k, Asking)' => Doing(k, Asking)
                         /\ Doing(k, Starting)' => Doing(k, Starting)
                         /\ Doing(k, Setting)' => Doing(k, Setting)
    BY <2>1, <2>2 DEF Only, Doing, Asking, Starting, Setting
  <2>4. QED BY <1>0, <2>1, <2>3 DEF Asked, OneRequest, CleanStart, CleanBoard
<1>6. ASSUME SetTimer(j) \/ PauseTimer(j)
      PROVE  Asked'
  <2>1. jobs'[j] = NoJob /\ Only(j) /\ live' = live
    BY <1>6, Ended DEF SetTimer, PauseTimer, gameVars
  <2>2. \A k \in JobId : \A S \in {Asking, Starting, Setting, {"create"}} :
          Doing(k, S)' => Doing(k, S)
    BY <2>1 DEF Only, Doing
  <2>3. \A k \in JobId : ~Doing(k, {"create"})'
    <3>1. CASE SetTimer(j)
      <4>1. Doing(j, Setting)
        BY <3>1 DEF SetTimer, At, Doing, Setting
      <4>2. \A k \in JobId : ~Doing(k, Starting)
        BY <1>0, <4>1 DEF Asked, CleanStart
      <4>3. QED BY <2>2, <4>2 DEF Doing, Starting
    <3>2. CASE PauseTimer(j)
      <4>1. Doing(j, Asking)
        BY <3>2 DEF PauseTimer, At, Doing, Asking
      <4>2. \A k \in JobId : k # j => ~Doing(k, Asking)
        BY <1>0, <4>1 DEF Asked, OneRequest
      <4>3. QED BY <2>1, <4>2 DEF Doing, Asking, Only
    <3>3. QED BY <1>6, <3>1, <3>2
  <2>4. QED BY <1>0, <2>1, <2>2, <2>3 DEF Asked, OneRequest, CleanStart, CleanBoard
<1>7. CASE ResumeTimer(j)
  <2>1. Doing(j, Asking) /\ jobs[j] # NoJob
    BY <1>7 DEF ResumeTimer, At, Doing, Asking
  <2>2. \A k \in JobId : k # j => ~Doing(k, Asking)
    BY <1>0, <2>1 DEF Asked, OneRequest
  <2>3. Only(j) /\ ~Doing(j, Asking)'
    <3>1. CASE Done(j)
      BY <3>1, Ended DEF Doing
    <3>2. CASE Become(j, "expire", 0)
      BY <2>1, <3>2, Became DEF Doing, Asking, Step
    <3>3. CASE timer # NoTimer /\ Become(j, "start", timer.left)
      BY <2>1, <3>3, Became, TimerFields DEF Doing, Asking, Step
    <3>4. QED BY <1>7, <3>1, <3>2, <3>3 DEF ResumeTimer
  <2>4. \A k \in JobId : ~Doing(k, Asking)'
    BY <2>2, <2>3 DEF Only, Doing
  <2>5. \A k \in JobId : ~Doing(k, Starting)' /\ ~Doing(k, {"create"})'
    BY <2>4 DEF Doing, Asking, Starting
  <2>6. QED BY <2>4, <2>5 DEF Asked, OneRequest, CleanStart, CleanBoard
<1>8. QED BY <1>1, <1>2, <1>3, <1>4, <1>5, <1>6, <1>7 DEF HandlerStep

LEMMA AskedExpiry ==
  ASSUME TypeOK, Asked, NEW j \in JobId, ExpiryStep(j) \/ ExpireFails(j)
  PROVE  Asked'
<1>1. live' = live /\ timer' \in {timer, NoTimer}
  BY DEF ExpiryStep, ExpireTimer, ReadTurn, EndExpiredTurn, RestartTimer, ExpireFails,
     gameVars
<1>2. 0 \in Nat /\ Duration \in Nat /\ Team(turn) \in Nat
  BY TimeAssumption DEF TypeOK, Team
<1>3. CASE ExpireTimer(j) \/ ExpireFails(j)
  BY <1>1, <1>2, <1>3, AskedEnds DEF ExpireTimer, ExpireFails, At, Step, Asking, Setting
<1>4. CASE ReadTurn(j) \/ EndExpiredTurn(j)
  BY <1>1, <1>2, <1>4, AskedEnds DEF ReadTurn, EndExpiredTurn, At, Step, Asking, Setting
<1>5. CASE RestartTimer(j)
  <2>1. CASE ~live
    BY <1>1, <1>5, <2>1, AskedEnds DEF RestartTimer
  <2>2. CASE live
    <3>1. jobs[j] # NoJob /\ Become(j, "start", Duration) /\ timer' = timer
      BY <1>5, <2>2 DEF RestartTimer, At
    <3>2. Only(j) /\ ~Doing(j, Asking)'
      BY <1>2, <3>1, Became DEF Doing, Asking, Step
    <3>3. \A k \in JobId : Doing(k, Asking)' => Doing(k, Asking)
      BY <3>2 DEF Only, Doing
    <3>4. \A k \in JobId : ~Doing(k, Starting)
      BY <2>2 DEF Asked, CleanStart
    <3>5. \A k \in JobId : ~Doing(k, Starting)' /\ ~Doing(k, {"create"})'
      BY <3>2, <3>4 DEF Only, Doing, Asking, Starting
    <3>6. QED BY <3>3, <3>5 DEF Asked, OneRequest, CleanStart, CleanBoard
  <2>3. QED BY <2>1, <2>2
<1>6. QED BY <1>3, <1>4, <1>5 DEF ExpiryStep

LEMMA AskedLocals ==
  ASSUME TypeOK, Asked, NEW j \in JobId, NEW i \in Instance,
         TimeoutFires(j, i) \/ SweepStaleTimers(j, i)
  PROVE  Asked'
<1>1. live' = live /\ timer' = timer
  BY DEF TimeoutFires, SweepStaleTimers, gameVars
<1>2. QED BY <1>1, FiredBegins, AskedEnds DEF Step, Asking, Setting

LEMMA AskedStays == TypeOK /\ (~raced => Asked) /\ [Next]_vars => (~raced' => Asked')
<1> SUFFICES ASSUME TypeOK, ~raced => Asked, [Next]_vars, ~raced' PROVE Asked'
  OBVIOUS
<1>1. Asked
  BY RacesLast
<1>2. ASSUME NEW i \in Instance, AddTime(i)
      PROVE  Asked'
  <2>1. Answered /\ jobs' = jobs
    BY <1>2, HostIsFree DEF AddTime
  <2>2. \A k \in JobId : ~Doing(k, Asking)'
    BY <2>1, AnsweredIsIdle DEF Doing
  <2>3. \A k \in JobId : ~Doing(k, Starting)' /\ ~Doing(k, {"create"})'
    BY <2>2 DEF Doing, Asking, Starting
  <2>4. QED BY <2>2, <2>3 DEF Asked, OneRequest, CleanStart, CleanBoard
<1>3. ASSUME NEW i \in Instance, GetTimerStatus(i) \/ EvictTimer(i)
      PROVE  Asked'
  BY <1>1, <1>3, AskedFrame DEF GetTimerStatus, EvictTimer, gameVars
<1>4. ASSUME NEW i \in Instance, RestartProcess(i)
      PROVE  Asked'
  <2>1. \A k \in JobId : jobs'[k] = jobs[k] \/ ~Doing(k, Asking \cup Setting)'
    BY <1>4, Restarted DEF Doing
  <2>2. QED BY <1>1, <1>4, <2>1, AskedFrame DEF RestartProcess, gameVars
<1>5. CASE Tick \/ UNCHANGED vars
  BY <1>1, <1>5, AskedFrame DEF Tick, vars, gameVars
<1>6. QED
  BY <1>1, <1>2, <1>3, <1>4, <1>5, AskedRequests, AskedHandlers, AskedExpiry, AskedLocals
     DEF Next

\* A step that sets no timer, ends no turn and begins neither keeps all of Timed.
LEMMA TimedFrame ==
  ASSUME TypeOK, Timed, began' = began, now' \in Nat, now <= now',
         timer' \in {timer, NoTimer},
         \A k \in JobId : \/ jobs'[k] = jobs[k]
                          \/ ~Doing(k, Turning \cup {"pause", "resume"})'
  PROVE  Timed'
<1>1. now \in Nat /\ began \in Nat /\ Duration \in Nat
  BY TimeAssumption DEF TypeOK
<1>2. \A k \in JobId : Doing(k, Turning)' => jobs'[k] = jobs[k]
  BY DEF Doing, Turning
<1>3. OneTurning'
  BY <1>2 DEF Timed, OneTurning, Doing
<1>4. TimerAlone'
  BY DEF Timed, TimerAlone, Doing, Turning
<1>5. TimerNotEarly'
  BY <1>1, TimerFields DEF Timed, TimerNotEarly, Due
<1>6. JobNotEarly'
  <2> SUFFICES ASSUME NEW k \in JobId
               PROVE  /\ Doing(k, Setting)' => (Due <= now + jobs[k].n)'
                      /\ Doing(k, {"expire", "endTurn"})' => (Due <= now)'
    BY DEF JobNotEarly
  <2>1. CASE ~Doing(k, Turning)'
    BY <2>1 DEF Doing, Turning, Setting
  <2>2. CASE Doing(k, Turning)'
    <3>1. jobs'[k] = jobs[k] /\ jobs[k] # NoJob
      BY <1>2, <2>2 DEF Doing
    <3>2. jobs[k].n \in Nat
      BY <3>1, JobFields
    <3>3. /\ Doing(k, Setting) => Due <= now + jobs[k].n
          /\ Doing(k, {"expire", "endTurn"}) => Due <= now
      BY DEF Timed, JobNotEarly
    <3>4. QED BY <1>1, <3>1, <3>2, <3>3 DEF Doing, Due
  <2>3. QED BY <2>1, <2>2
<1>7. began' <= now'
  BY <1>1 DEF Timed
<1>8. QED BY <1>3, <1>4, <1>5, <1>6, <1>7 DEF Timed

\* A job that is the only one to set the timer or end the turn, or becomes it, with
\* no timer left.
LEMMA TimedTurning ==
  ASSUME TypeOK, timer' = NoTimer, NEW j \in JobId, Only(j),
         \A k \in JobId : k # j => ~Doing(k, Turning),
         (began <= now)',
         Doing(j, Setting)' => (Due <= now + jobs[j].n)',
         Doing(j, {"expire", "endTurn"})' => (Due <= now)'
  PROVE  Timed'
<1>1. \A k \in JobId : k # j => ~Doing(k, Turning)'
  BY DEF Only, Doing
<1>2. \A k \in JobId : k # j => ~Doing(k, Setting)' /\ ~Doing(k, {"expire", "endTurn"})'
  BY <1>1 DEF Doing, Turning, Setting
<1>3. OneTurning'
  BY <1>1 DEF OneTurning
<1>4. TimerAlone' /\ TimerNotEarly'
  BY DEF TimerAlone, TimerNotEarly
<1>5. JobNotEarly'
  BY <1>2 DEF JobNotEarly
<1>6. QED BY <1>3, <1>4, <1>5 DEF Timed

LEMMA TimedRequests ==
  ASSUME TypeOK, Timed, ~raced', NEW j \in JobId, NEW i \in Instance,
         \/ EndTurn(j, i) \/ GameOver(j, i) \/ StartGame(j, i) \/ HostEndsGame(j, i)
         \/ PauseGame(j, i) \/ ResumeGame(j, i)
         \/ TimerPause(j, i) \/ TimerResume(j, i) \/ TimerStop(j, i)
  PROVE  Timed'
<1>1. ~EndTurn(j, i)
  BY DEF EndTurn
<1>2. now \in Nat /\ now' = now /\ began' = began /\ timer' = timer
  BY <1>1 DEF GameOver, StartGame, HostEndsGame, PauseGame, ResumeGame, TimerPause,
     TimerResume, TimerStop, gameVars, TypeOK
<1>3. ASSUME NEW s \in {"stop", "deleteCreate", "deleteEnd", "delete"}, Begin(j, s, i, 0)
      PROVE  Timed'
  <2>1. Only(j) /\ jobs'[j].step = s
    BY <1>3, Begun DEF Step
  <2>2. ~Doing(j, Turning \cup {"pause", "resume"})'
    BY <2>1 DEF Doing, Turning
  <2>3. QED BY <1>2, <2>1, <2>2, TimedFrame DEF Only
<1>4. CASE GameOver(j, i) \/ StartGame(j, i) \/ HostEndsGame(j, i) \/ TimerStop(j, i)
  BY <1>3, <1>4 DEF GameOver, StartGame, HostEndsGame, TimerStop
<1>5. ASSUME NEW s \in {"pause", "resume"}, Begin(j, s, i, 0), Answered
      PROVE  Timed'
  <2>1. Only(j) /\ jobs'[j].step = s
    BY <1>5, Begun DEF Step
  <2>2. ~Doing(j, Turning)'
    BY <2>1 DEF Doing, Turning
  <2>3. \A k \in JobId : Doing(k, Turning)' => k # j /\ jobs'[k] = jobs[k] /\ Doing(k, Turning)
    BY <2>1, <2>2 DEF Only, Doing
  <2>4. OneTurning'
    BY <2>3 DEF Timed, OneTurning
  <2>5. TimerAlone'
    <3>1. \A k \in JobId : ~Doing(k, Setting)
      BY <1>5, AnsweredIsIdle
    <3>2. \A k \in JobId : ~Doing(k, {"start"})
      BY <3>1 DEF Doing, Setting
    <3>3. timer # NoTimer => \A k \in JobId : ~Doing(k, Turning)
      BY <3>2 DEF Timed, TimerAlone
    <3>4. QED BY <1>2, <2>3, <3>3 DEF TimerAlone
  <2>6. TimerNotEarly' /\ (began <= now)'
    BY <1>2 DEF Timed, TimerNotEarly, Due
  <2>7. JobNotEarly'
    <3>1. \A k \in JobId : Doing(k, Setting)' \/ Doing(k, {"expire", "endTurn"})'
             => jobs'[k] = jobs[k]
      BY <2>3 DEF Doing, Turning, Setting
    <3>2. QED BY <1>2, <3>1 DEF Timed, JobNotEarly, Doing, Due
  <2>8. QED BY <2>4, <2>5, <2>6, <2>7 DEF Timed
<1>6. CASE PauseGame(j, i) \/ ResumeGame(j, i) \/ TimerPause(j, i) \/ TimerResume(j, i)
  <2>1. Answered
    BY <1>6, HostIsFree DEF PauseGame, ResumeGame, TimerPause, TimerResume
  <2>2. QED BY <1>5, <1>6, <2>1 DEF PauseGame, ResumeGame, TimerPause, TimerResume
<1>7. QED BY <1>1, <1>4, <1>6

\* A job other than those of Turning goes on, or ends.
LEMMA TimedEnds ==
  ASSUME TypeOK, Timed, UNCHANGED <<now, began>>, timer' \in {timer, NoTimer},
         NEW j \in JobId,
         \/ Done(j)
         \/ \E s \in Step \ (Turning \cup {"pause", "resume"}), n \in Nat :
              \/ jobs[j] # NoJob /\ Become(j, s, n)
              \/ \E i \in Instance : Begin(j, s, i, n)
  PROVE  Timed'
<1> DEFINE Moved == Only(j) /\ ~Doing(j, Turning \cup {"pause", "resume"})'
<1>1. Moved
  <2>1. CASE Done(j)
    BY <2>1, Ended DEF Doing
  <2>2. ASSUME NEW s \in Step \ (Turning \cup {"pause", "resume"}), NEW n \in Nat,
               jobs[j] # NoJob, Become(j, s, n)
        PROVE  Moved
    BY <2>2, Became DEF Doing
  <2>3. ASSUME NEW s \in Step \ (Turning \cup {"pause", "resume"}), NEW n \in Nat,
               NEW i \in Instance, Begin(j, s, i, n)
        PROVE  Moved
    BY <2>3, Begun DEF Doing
  <2> HIDE DEF Moved
  <2>4. QED BY <2>1, <2>2, <2>3
<1>2. now \in Nat /\ now' = now
  BY DEF TypeOK
<1>3. QED BY <1>1, <1>2, TimedFrame DEF Only

LEMMA TimedCreates ==
  ASSUME TypeOK, Asked, Timed, ~raced', NEW j \in JobId, CreateGame(j)
  PROVE  Timed'
<1>1. jobs[j] # NoJob /\ jobs[j].step = "create"
  BY DEF CreateGame, At
<1>2. timer = NoTimer /\ timer' = NoTimer /\ ~live /\ \A k \in JobId : ~Doing(k, Setting)
  BY <1>1 DEF CreateGame, Asked, CleanBoard, CleanStart, Doing, Starting
<1>3. \A k \in JobId : ~Doing(k, {"expire", "endTurn", "check"})
  BY DEF CreateGame, Steps, Doing
<1>4. \A k \in JobId : ~Doing(k, Turning)
  BY <1>2, <1>3 DEF Doing, Turning, Setting
<1>5. Become(j, "start", Duration) /\ now' = now /\ began' = now
  BY <1>2 DEF CreateGame, NewTurn
<1>6. Only(j) /\ jobs'[j].step = "start" /\ jobs'[j].n = Duration
  BY <1>1, <1>5, Became, TimeAssumption DEF Step
<1>7. now \in Nat /\ Duration \in Nat
  BY TimeAssumption DEF TypeOK
<1>8. (began <= now)' /\ (Due <= now + jobs[j].n)'
  BY <1>5, <1>6, <1>7 DEF Due
<1>9. ~Doing(j, {"expire", "endTurn"})'
  BY <1>6 DEF Doing
<1>10. QED BY <1>2, <1>4, <1>6, <1>8, <1>9, TimedTurning

LEMMA TimedSets ==
  ASSUME TypeOK, Timed, NEW j \in JobId, StartTimer(j) \/ SetTimer(j)
  PROVE  Timed'
<1>1. jobs[j] # NoJob /\ jobs[j].step \in Setting /\ jobs[j].n \in Nat
  BY JobFields DEF StartTimer, SetTimer, At, Setting
<1>2. Due <= now + jobs[j].n /\ began <= now /\ now' = now /\ began' = began
  BY <1>1 DEF Timed, JobNotEarly, Doing, StartTimer, SetTimer, gameVars
<1>3. \A k \in JobId : k # j => ~Doing(k, Turning)
  BY <1>1 DEF Timed, OneTurning, Doing, Turning, Setting
<1>4. CASE StartTimer(j)
  <2>1. Only(j) /\ jobs'[j].step = "set" /\ jobs'[j].n = jobs[j].n /\ timer' = NoTimer
    BY <1>1, <1>4, Became DEF StartTimer, Step
  <2>2. ~Doing(j, {"expire", "endTurn"})' /\ (Due <= now + jobs[j].n)' /\ (began <= now)'
    BY <1>2, <2>1 DEF Doing, Due
  <2>3. QED BY <1>3, <2>1, <2>2, TimedTurning
<1>5. CASE SetTimer(j)
  <2>1. Only(j) /\ jobs'[j] = NoJob
    BY <1>5, Ended DEF SetTimer
  <2>2. timer' = [end |-> now + jobs[j].n, paused |-> FALSE, left |-> 0, at |-> 0]
    BY <1>5 DEF SetTimer
  <2>3. \A k \in JobId : ~Doing(k, Turning)'
    BY <1>3, <2>1 DEF Only, Doing
  <2>4. OneTurning' /\ TimerAlone'
    BY <2>3 DEF OneTurning, TimerAlone
  <2>5. TimerNotEarly' /\ (began <= now)'
    BY <1>2, <2>2 DEF TimerNotEarly, Due
  <2>6. JobNotEarly'
    BY <2>3 DEF JobNotEarly, Doing, Turning, Setting
  <2>7. QED BY <2>4, <2>5, <2>6 DEF Timed
<1>6. QED BY <1>4, <1>5

LEMMA TimedPauses ==
  ASSUME TypeOK, Timed, NEW j \in JobId, PauseTimer(j)
  PROVE  Timed'
<1>1. Doing(j, {"pause", "resume"}) /\ Done(j) /\ UNCHANGED <<now, began>>
  BY DEF PauseTimer, At, Doing, gameVars
<1>2. CASE ~(Running /\ now < timer.end)
  <2>1. timer' \in {timer, NoTimer}
    BY <1>2 DEF PauseTimer
  <2>2. QED BY <1>1, <2>1, TimedEnds
<1>3. CASE Running /\ now < timer.end
  <2>1. timer \in Timer /\ timer.end \in Nat /\ now \in Nat /\ timer # NoTimer
    BY <1>3, TimerFields DEF Running, TypeOK
  <2>2. timer' = [timer EXCEPT !.paused = TRUE, !.left = timer.end - now, !.at = now]
    BY <1>3, <2>1 DEF PauseTimer
  <2>3. timer'.paused /\ timer'.left = timer.end - now /\ timer'.at = now
    BY <2>1, <2>2 DEF Timer
  <2>4. Due <= timer.end
    BY <1>3, <2>1 DEF Timed, TimerNotEarly, Running
  <2>5. Only(j) /\ jobs'[j] = NoJob
    BY <1>1, Ended
  <2>6. \A k \in JobId : ~Doing(k, Turning)
    BY <1>3, <2>1 DEF Timed, TimerAlone, Running
  <2>7. \A k \in JobId : ~Doing(k, Turning)'
    BY <2>5, <2>6 DEF Only, Doing
  <2>8. OneTurning' /\ TimerAlone'
    BY <2>7 DEF OneTurning, TimerAlone
  <2>9. Due \in Nat
    BY TimeAssumption DEF TypeOK, Due
  <2>10. TimerNotEarly' /\ (began <= now)'
    BY <1>1, <2>1, <2>3, <2>4, <2>9 DEF Timed, TimerNotEarly, Due
  <2>11. JobNotEarly'
    BY <2>7 DEF JobNotEarly, Doing, Turning, Setting
  <2>12. QED BY <2>8, <2>10, <2>11 DEF Timed
<1>4. QED BY <1>2, <1>3

LEMMA TimedResumes ==
  ASSUME TypeOK, Asked, Timed, NEW j \in JobId, ResumeTimer(j)
  PROVE  Timed'
<1>1. jobs[j] # NoJob /\ jobs[j].step = "resume" /\ UNCHANGED <<now, began>>
  BY DEF ResumeTimer, At, gameVars
<1>2. CASE timer = NoTimer \/ Running
  BY <1>1, <1>2, TimedEnds DEF ResumeTimer, Running
<1>3. CASE timer # NoTimer /\ timer.paused
  <2>1. \A k \in JobId : ~Doing(k, Turning)
    BY <1>1, <1>3 DEF Timed, TimerAlone, Doing
  <2>2. /\ timer.at \in Nat /\ timer.left \in Nat /\ now \in Nat /\ Due \in Nat
        /\ timer.at <= now /\ Due <= timer.at + timer.left /\ began <= now
    BY <1>3, TimerFields, TimeAssumption DEF Timed, TimerNotEarly, TypeOK, Due
  <2>3. CASE now - timer.at >= timer.left
    <3>1. Become(j, "expire", 0) /\ timer' = NoTimer
      BY <1>3, <2>2, <2>3 DEF ResumeTimer, Running
    <3>2. Only(j) /\ jobs'[j].step = "expire"
      BY <1>1, <3>1, Became DEF Step
    <3>3. ~Doing(j, Setting)' /\ (Due <= now)' /\ (began <= now)'
      BY <1>1, <2>2, <2>3, <3>2 DEF Doing, Setting, Due
    <3>4. QED BY <2>1, <3>1, <3>2, <3>3, TimedTurning
  <2>4. CASE ~(now - timer.at >= timer.left)
    <3>1. Become(j, "start", timer.left) /\ timer' = timer
      BY <1>3, <2>2, <2>4 DEF ResumeTimer, Running
    <3>2. Only(j) /\ jobs'[j] # NoJob /\ jobs'[j].step = "start" /\ jobs'[j].n = timer.left
      BY <1>1, <2>2, <3>1, Became DEF Step
    <3>3. \A k \in JobId : Doing(k, Turning)' => k = j
      BY <2>1, <3>2 DEF Only, Doing
    <3>4. \A k \in JobId : ~Doing(k, {"pause", "resume"})'
      <4>1. \A k \in JobId : k # j => ~Doing(k, Asking)
        BY <1>1 DEF Asked, OneRequest, Doing, Asking
      <4>2. \A k \in JobId : k # j => ~Doing(k, {"pause", "resume"})
        BY <4>1 DEF Doing, Asking
      <4>3. QED BY <3>2, <4>2 DEF Only, Doing
    <3>5. OneTurning' /\ TimerAlone'
      BY <1>3, <3>1, <3>2, <3>3, <3>4 DEF OneTurning, TimerAlone, Doing
    <3>6. TimerNotEarly' /\ (began <= now)'
      BY <1>1, <2>2, <3>1 DEF Timed, TimerNotEarly, Due
    <3>7. JobNotEarly'
      <4>1. (Due <= now + jobs[j].n)'
        <5>1. Due' = Due /\ now' = now
          BY <1>1 DEF Due
        <5>2. Due <= now + timer.left
          BY <2>2, <2>4
        <5>3. QED BY <3>2, <5>1, <5>2
      <4>2. \A k \in JobId : Doing(k, Setting)' \/ Doing(k, {"expire", "endTurn"})' => k = j
        BY <3>3 DEF Doing, Turning, Setting
      <4>3. ~Doing(j, {"expire", "endTurn"})'
        BY <3>2 DEF Doing
      <4>4. QED BY <4>1, <4>2, <4>3 DEF JobNotEarly
    <3>8. QED BY <3>5, <3>6, <3>7 DEF Timed
  <2>5. QED BY <2>3, <2>4
<1>4. QED BY <1>2, <1>3 DEF Running

LEMMA TimedHandlers ==
  ASSUME TypeOK, Asked, Timed, ~raced', NEW j \in JobId, HandlerStep(j)
  PROVE  Timed'
<1>1. CASE StopTimer(j) \/ EndGame(j)
  BY <1>1, TimedEnds DEF StopTimer, EndGame, At, Step, Turning, gameVars
<1>2. CASE DeleteTimer(j)
  BY <1>2, TimedEnds DEF DeleteTimer, At, Step, Turning, gameVars
<1>3. QED
  BY <1>1, <1>2, TimedCreates, TimedSets, TimedPauses, TimedResumes DEF HandlerStep

LEMMA TimedExpires ==
  ASSUME TypeOK, FiredIsDue, Timed, NEW j \in JobId, ExpireTimer(j)
  PROVE  Timed'
<1>1. /\ jobs[j] # NoJob /\ jobs[j].n <= now /\ jobs[j].n \in Nat
      /\ UNCHANGED <<now, began>>
  BY JobFields DEF ExpireTimer, At, FiredIsDue, gameVars
<1>2. CASE ~Matches(jobs[j].n)
  BY <1>1, <1>2, TimedEnds DEF ExpireTimer
<1>3. CASE Matches(jobs[j].n)
  <2>1. timer # NoTimer /\ ~timer.paused /\ timer.end <= now
    BY <1>1, <1>3 DEF Matches, Running
  <2>2. \A k \in JobId : ~Doing(k, Turning)
    BY <2>1 DEF Timed, TimerAlone
  <2>3. timer' = NoTimer /\ Become(j, "expire", 0)
    BY <1>3 DEF ExpireTimer
  <2>4. Only(j) /\ jobs'[j].step = "expire"
    BY <1>1, <2>3, Became DEF Step
  <2>5. Due <= timer.end /\ began <= now
    BY <2>1 DEF Timed, TimerNotEarly
  <2>6. (Due <= now)' /\ (began <= now)'
    <3>1. Due \in Nat /\ now \in Nat /\ timer.end \in Nat
      BY <2>1, TimerFields, TimeAssumption DEF TypeOK, Due
    <3>2. Due' = Due
      BY <1>1 DEF Due
    <3>3. QED BY <1>1, <2>1, <2>5, <3>1, <3>2
  <2>7. ~Doing(j, Setting)'
    BY <2>4 DEF Doing, Setting
  <2>8. QED BY <2>2, <2>3, <2>4, <2>6, <2>7, TimedTurning
<1>4. QED BY <1>2, <1>3

LEMMA TimedExpiry ==
  ASSUME TypeOK, FiredIsDue, Timed, NEW j \in JobId, ExpiryStep(j) \/ ExpireFails(j)
  PROVE  Timed'
<1>1. CASE ExpireTimer(j)
  BY <1>1, TimedExpires
<1>2. CASE ExpireFails(j)
  BY <1>2, TimedEnds DEF ExpireFails, gameVars
<1>3. CASE ReadTurn(j) \/ EndExpiredTurn(j) \/ RestartTimer(j)
  <2>1. /\ jobs[j] # NoJob /\ Doing(j, Turning) /\ ~Doing(j, {"start"})
        /\ now' = now /\ timer' = timer
    BY <1>3 DEF ReadTurn, EndExpiredTurn, RestartTimer, At, Doing, Turning
  <2>2. timer = NoTimer /\ \A k \in JobId : k # j => ~Doing(k, Turning)
    BY <2>1 DEF Timed, TimerAlone, OneTurning
  <2>3. now \in Nat /\ began \in Nat /\ Duration \in Nat /\ began <= now
    BY TimeAssumption DEF TypeOK, Timed
  <2>4. (began <= now)'
    BY <1>3, <2>1, <2>3 DEF ReadTurn, EndExpiredTurn, RestartTimer, gameVars, NewTurn
  <2>5. CASE Done(j)
    <3>1. Only(j) /\ jobs'[j] = NoJob
      BY <2>5, Ended
    <3>2. ~Doing(j, Setting)' /\ ~Doing(j, {"expire", "endTurn"})'
      BY <3>1 DEF Doing
    <3>3. QED BY <2>1, <2>2, <2>4, <3>1, <3>2, TimedTurning
  <2>6. CASE ReadTurn(j) /\ Become(j, "endTurn", Team(turn))
    <3>1. Only(j) /\ jobs'[j].step = "endTurn"
      BY <2>1, <2>6, Became DEF Step, Team, TypeOK
    <3>2. Due <= now /\ UNCHANGED <<began, now>>
      BY <2>6 DEF Timed, JobNotEarly, ReadTurn, At, Doing, gameVars
    <3>3. ~Doing(j, Setting)' /\ (Due <= now)'
      BY <3>1, <3>2 DEF Doing, Setting, Due
    <3>4. QED BY <2>1, <2>2, <2>4, <3>1, <3>3, TimedTurning
  <2>7. CASE Become(j, "check", 0)
    <3>1. Only(j) /\ jobs'[j].step = "check"
      BY <2>1, <2>7, Became DEF Step
    <3>2. ~Doing(j, Setting)' /\ ~Doing(j, {"expire", "endTurn"})'
      BY <3>1 DEF Doing, Setting
    <3>3. QED BY <2>1, <2>2, <2>4, <3>1, <3>2, TimedTurning
  <2>8. CASE RestartTimer(j) /\ Become(j, "start", Duration)
    <3>1. Only(j) /\ jobs'[j].step = "start" /\ jobs'[j].n = Duration
      BY <2>1, <2>3, <2>8, Became DEF Step
    <3>2. UNCHANGED <<began, now>>
      BY <2>8 DEF RestartTimer, gameVars
    <3>3. ~Doing(j, {"expire", "endTurn"})' /\ (Due <= now + jobs[j].n)'
      BY <2>3, <3>1, <3>2 DEF Doing, Due
    <3>4. QED BY <2>1, <2>2, <2>4, <3>1, <3>3, TimedTurning
  <2>9. QED
    BY <1>3, <2>5, <2>6, <2>7, <2>8 DEF ReadTurn, EndExpiredTurn, RestartTimer
<1>4. QED BY <1>1, <1>2, <1>3 DEF ExpiryStep

LEMMA TimedAddTime ==
  ASSUME TypeOK, Timed, NEW i \in Instance, AddTime(i)
  PROVE  Timed'
<1>1. timer \in Timer /\ timer # NoTimer /\ ~timer.paused /\ timer.end \in Nat
  BY TimerFields DEF AddTime, Running, TypeOK
<1>2. timer' = [timer EXCEPT !.end = timer.end + Added] /\ UNCHANGED <<now, began, jobs>>
  BY DEF AddTime, gameVars
<1>3. timer'.end = timer.end + Added /\ ~timer'.paused
  BY <1>1, <1>2 DEF Timer
<1>4. \A k \in JobId : ~Doing(k, Turning)
  BY <1>1 DEF Timed, TimerAlone
<1>5. \A k \in JobId : ~Doing(k, Turning)'
  BY <1>2, <1>4 DEF Doing
<1>6. OneTurning' /\ TimerAlone'
  BY <1>5 DEF OneTurning, TimerAlone
<1>7. TimerNotEarly'
  <2>1. Due \in Nat /\ Added \in Nat /\ Due <= timer.end
    BY <1>1, TimeAssumption DEF TypeOK, Due, Timed, TimerNotEarly
  <2>2. Due' = Due
    BY <1>2 DEF Due
  <2>3. QED BY <1>1, <1>3, <2>1, <2>2 DEF TimerNotEarly
<1>8. JobNotEarly' /\ (began <= now)'
  BY <1>2, <1>5 DEF Timed, JobNotEarly, Doing, Turning, Setting
<1>9. QED BY <1>6, <1>7, <1>8 DEF Timed

LEMMA TimedStays ==
  TypeOK /\ FiredIsDue /\ Unraced /\ [Next]_vars => Unraced'
<1> SUFFICES ASSUME TypeOK, FiredIsDue, Unraced, [Next]_vars, ~raced' PROVE Asked' /\ Timed'
  BY DEF Unraced
<1>1. Asked /\ Timed /\ now \in Nat
  BY RacesLast DEF Unraced, TypeOK
<1>2. Asked'
  BY <1>1, AskedStays
<1>3. ASSUME NEW j \in JobId, NEW i \in Instance,
             TimeoutFires(j, i) \/ SweepStaleTimers(j, i)
      PROVE  Timed'
  <2>1. UNCHANGED <<now, began, timer>>
    BY <1>3 DEF TimeoutFires, SweepStaleTimers, gameVars
  <2>2. QED BY <1>1, <1>3, <2>1, FiredBegins, TimedEnds DEF Step, Turning
<1>4. ASSUME NEW i \in Instance, GetTimerStatus(i) \/ EvictTimer(i)
      PROVE  Timed'
  BY <1>1, <1>4, TimedFrame DEF GetTimerStatus, EvictTimer, gameVars
<1>5. ASSUME NEW i \in Instance, RestartProcess(i)
      PROVE  Timed'
  <2>1. \A k \in JobId : jobs'[k] = jobs[k] \/ ~Doing(k, Turning \cup {"pause", "resume"})'
    BY <1>5, Restarted DEF Doing
  <2>2. now' = now /\ began' = began /\ timer' = timer /\ now <= now
    BY <1>1, <1>5 DEF RestartProcess, gameVars
  <2>3. QED BY <1>1, <2>1, <2>2, TimedFrame
<1>6. ASSUME Tick \/ UNCHANGED vars
      PROVE  Timed'
  <2>1. /\ began' = began /\ jobs' = jobs /\ timer' \in {timer, NoTimer}
        /\ now' \in Nat /\ now <= now'
    BY <1>1, <1>6 DEF Tick, vars, gameVars
  <2>2. QED BY <1>1, <2>1, TimedFrame
<1>7. Timed'
  BY <1>1, <1>3, <1>4, <1>5, <1>6, TimedRequests, TimedHandlers, TimedExpiry, TimedAddTime
     DEF Next
<1>8. QED BY <1>2, <1>7

LEMMA UnracedInit == Init => Unraced
<1> SUFFICES ASSUME Init PROVE Asked /\ Timed
  BY DEF Unraced
<1>1. Asked
  BY DEF Init, Asked, OneRequest, CleanStart, CleanBoard, Doing
<1>2. Timed
  BY DEF Init, Timed, OneTurning, TimerAlone, TimerNotEarly, JobNotEarly, Doing
<1>3. QED BY <1>1, <1>2

\* A job that ends a turn has found it due.
LEMMA TurnIsDue ==
  ASSUME TypeOK, Unraced, NEW j \in JobId, ~raced, At(j, "endTurn")
  PROVE  began + Duration <= now
BY DEF Unraced, Timed, JobNotEarly, Doing, At, Due

\* However requests, pauses, extensions, timeouts, failures and restarts of any
\* number of processes interleave, no timer ends a turn that has not lasted its
\* full time, unless the host did not wait, a turn was ended by hand, or a game
\* was replaced while an expiry was under way.
THEOREM TurnsLastTheirTime == Spec => TurnLastsItsTime
<1>1. Init => FiredIsDue
  BY DEF Init, FiredIsDue, At
<1>2. TypeOK /\ Unraced /\ [Next]_vars
        => [\A j \in JobId : ~raced /\ At(j, "endTurn") /\ At(j, "check")'
                               => began + Duration <= now]_vars
  BY TurnIsDue
<1>3. QED
  BY <1>1, <1>2, TypeCorrect, FiredStaysDue, UnracedInit, TimedStays, PTL
     DEF Spec, TurnLastsItsTime

-----------------------------------------------------------------------------
(* A quiet turn is timed                                                   *)

\* Who sees to the timer of the turn, or makes an end of the turn or the game.
Attending == {"start", "set", "expire", "check", "deleteEnd", "end", "deleteCreate", "create"}
Attends(j) ==
  \/ Doing(j, Attending)
  \/ Doing(j, {"endTurn"}) /\ jobs[j].n = Team(turn)
Attended == Left \/ timer # NoTimer \/ \E j \in JobId : Attends(j)

\* A timer that is paused in a game that is not will be resumed or replaced.
Resumed == timer # NoTimer /\ timer.paused /\ ~gamePaused => Replaced \/ Busy({"resume"})

\* Whose turn nobody has to end, until somebody begins another, or sets a timer.
LEMMA LeftStays ==
  ASSUME TypeOK, [Next]_vars, Left, \A j \in JobId : ~SetTimer(j)
  PROVE  Left' \/ Busy({"start"})'
<1>1. stranded \subseteq stranded' /\ (waived => waived')
  BY HistoryGrows
<1>2. CASE ~live
  <2>1. ASSUME NEW j \in JobId, CreateGame(j)
        PROVE  Busy({"start"})'
    <3>1. jobs[j] # NoJob /\ Become(j, "start", Duration)
      BY <1>2, <2>1 DEF CreateGame, At
    <3>2. Doing(j, {"start"})'
      BY <3>1, Became, TimeAssumption DEF Step, Doing
    <3>3. QED BY <3>2 DEF Busy
  <2>2. ASSUME NEW j \in JobId, NEW i \in Instance,
               \/ EndTurn(j, i) \/ GameOver(j, i) \/ StartGame(j, i) \/ HostEndsGame(j, i)
               \/ PauseGame(j, i) \/ ResumeGame(j, i)
               \/ TimerPause(j, i) \/ TimerResume(j, i) \/ TimerStop(j, i)
               \/ TimeoutFires(j, i) \/ SweepStaleTimers(j, i)
        PROVE  ~live'
    BY <1>2, <2>2 DEF EndTurn, GameOver, StartGame, HostEndsGame, PauseGame, ResumeGame,
       TimerPause, TimerResume, TimerStop, TimeoutFires, SweepStaleTimers, gameVars
  <2>3. ASSUME NEW i \in Instance,
               AddTime(i) \/ GetTimerStatus(i) \/ EvictTimer(i) \/ RestartProcess(i)
        PROVE  ~live'
    BY <1>2, <2>3 DEF AddTime, GetTimerStatus, EvictTimer, RestartProcess, gameVars
  <2>4. ASSUME NEW j \in JobId, HandlerStep(j), ~CreateGame(j)
        PROVE  ~live'
    BY <1>2, <2>4 DEF HandlerStep, StopTimer, DeleteTimer, EndGame, StartTimer, SetTimer,
       PauseTimer, ResumeTimer, gameVars
  <2>5. ASSUME NEW j \in JobId, ExpiryStep(j) \/ ExpireFails(j)
        PROVE  ~live'
    BY <1>2, <2>5 DEF ExpiryStep, ExpireTimer, ReadTurn, EndExpiredTurn, RestartTimer,
       ExpireFails, gameVars
  <2>6. Tick \/ UNCHANGED vars => ~live'
    BY <1>2 DEF Tick, vars, gameVars
  <2>7. QED BY <2>1, <2>2, <2>3, <2>4, <2>5, <2>6 DEF Next, Left
<1>3. QED BY <1>1, <1>2 DEF Left

LEMMA StaysReplaced ==
  ASSUME TypeOK, [Next]_vars, Replaced, timer' # NoTimer, \A j \in JobId : ~SetTimer(j)
  PROVE  Replaced'
<1>1. CASE Left
  BY <1>1, LeftStays DEF Replaced, Busy, Doing
<1>2. ASSUME NEW k \in JobId, Doing(k, {"start", "deleteEnd", "deleteCreate"})
      PROVE  Replaced'
  <2>1. ~HandlerStep(k) /\ ~ExpiryStep(k) /\ ~ExpireFails(k)
    BY <1>2 DEF Doing, HandlerStep, ExpiryStep, StopTimer, DeleteTimer, CreateGame,
       EndGame, StartTimer, SetTimer, PauseTimer, ResumeTimer, ExpireTimer, ReadTurn,
       EndExpiredTurn, RestartTimer, ExpireFails, At
  <2>2. jobs'[k] = jobs[k] \/ "forgotten" \in stranded'
    BY <1>2, <2>1, OwnSteps DEF Doing
  <2>3. QED BY <1>2, <2>2 DEF Replaced, Left, Busy, Doing
<1>3. QED BY <1>1, <1>2 DEF Replaced, Busy

LEMMA StaysRenewed ==
  ASSUME TypeOK, InTime, [Next]_vars, NEW i \in Instance, Instance = {i},
         TtlBuffer <= Stale, Renewed(i)
  PROVE  Renewed(i)'
<1> SUFFICES ASSUME Running', ~ArmedAt(i)' PROVE Replaced'
  BY DEF Renewed
<1>1. \A j \in JobId : ~SetTimer(j)
  BY SetIsArmed
<1>2. Running
  BY <1>1, TimerSteps DEF Running
<1>3. CASE ArmedAt(i)
  BY <1>2, <1>3, Disarmed
<1>4. CASE Replaced
  BY <1>1, <1>4, StaysReplaced DEF Running
<1>5. QED BY <1>2, <1>3, <1>4 DEF Renewed

LEMMA StaysResumed ==
  ASSUME TypeOK, [Next]_vars, Resumed
  PROVE  Resumed'
<1> SUFFICES ASSUME timer' # NoTimer, timer'.paused, ~gamePaused'
             PROVE  Replaced' \/ Busy({"resume"})'
  BY DEF Resumed
<1>0. ~Running'
  BY DEF Running
<1>1. \A j \in JobId : ~SetTimer(j)
  <2> SUFFICES ASSUME NEW j \in JobId, SetTimer(j) PROVE FALSE
    OBVIOUS
  <2>1. now + jobs[j].n \in Nat
    BY JobFields DEF SetTimer, At, TypeOK
  <2>2. ~timer'.paused
    BY <2>1 DEF SetTimer, Timer
  <2>3. QED BY <2>2
<1>2. ASSUME NEW j \in JobId, PauseTimer(j), Running, now < timer.end
      PROVE  Replaced'
  <2>1. gamePaused' = gamePaused /\ waived' = waived
    BY <1>2 DEF PauseTimer, gameVars
  <2>2. now \in Nat /\ timer.end \in Nat
    BY <1>2, TimerFields DEF Running, TypeOK
  <2>3. waived \/ "overtaken" \in stranded'
    BY <1>2, <2>1, <2>2 DEF PauseTimer, Strand
  <2>4. QED BY <2>1, <2>3 DEF Replaced, Left
<1>3. CASE timer' = timer
  <2>1. CASE Replaced
    BY <1>1, <2>1, StaysReplaced
  <2>2. ASSUME NEW k \in JobId, Doing(k, {"resume"})
        PROVE  Replaced' \/ Busy({"resume"})'
    <3>1. \/ ResumeTimer(k)
          \/ ~HandlerStep(k) /\ ~ExpiryStep(k) /\ ~ExpireFails(k)
      BY <2>2 DEF Doing, HandlerStep, ExpiryStep, StopTimer, DeleteTimer, CreateGame,
         EndGame, StartTimer, SetTimer, PauseTimer, ExpireTimer, ReadTurn,
         EndExpiredTurn, RestartTimer, ExpireFails, At
    <3>2. CASE ResumeTimer(k)
      <4>1. Become(k, "start", timer.left)
        BY <1>3, <3>2 DEF ResumeTimer, Running
      <4>2. timer.left \in Nat
        BY <1>3, TimerFields DEF TypeOK
      <4>3. Doing(k, {"start"})'
        BY <2>2, <4>1, <4>2, Became DEF Step, Doing
      <4>4. QED BY <4>3 DEF Replaced, Busy, Doing
    <3>3. CASE jobs'[k] = jobs[k] \/ "forgotten" \in stranded'
      BY <2>2, <3>3 DEF Replaced, Left, Busy, Doing
    <3>4. QED BY <2>2, <3>1, <3>2, <3>3, OwnSteps DEF Doing
  <2>3. CASE gamePaused
    <3>1. ASSUME NEW j \in JobId, NEW i \in Instance, ResumeGame(j, i)
          PROVE  Busy({"resume"})'
      <4>1. Begin(j, "resume", i, 0)
        BY <3>1 DEF ResumeGame
      <4>2. Doing(j, {"resume"})'
        BY <4>1, Begun DEF Step, Doing
      <4>3. QED BY <4>2 DEF Busy
    <3>2. ASSUME NEW j \in JobId, CreateGame(j), gamePaused' # gamePaused
          PROVE  Replaced'
      <4>1. jobs[j] # NoJob /\ Become(j, "start", Duration)
        BY <3>2 DEF CreateGame, At, gameVars
      <4>2. Doing(j, {"start"})'
        BY <4>1, Became, TimeAssumption DEF Step, Doing
      <4>3. QED BY <4>2 DEF Replaced, Busy, Doing
    <3>3. ASSUME NEW j \in JobId, NEW i \in Instance,
                 \/ EndTurn(j, i) \/ GameOver(j, i) \/ StartGame(j, i) \/ HostEndsGame(j, i)
                 \/ PauseGame(j, i) \/ TimerPause(j, i) \/ TimerResume(j, i)
                 \/ TimerStop(j, i) \/ TimeoutFires(j, i) \/ SweepStaleTimers(j, i)
          PROVE  gamePaused'
      BY <2>3, <3>3 DEF EndTurn, GameOver, StartGame, HostEndsGame, PauseGame,
         TimerPause, TimerResume, TimerStop, TimeoutFires, SweepStaleTimers, gameVars
    <3>4. ASSUME NEW i \in Instance,
                 AddTime(i) \/ GetTimerStatus(i) \/ EvictTimer(i) \/ RestartProcess(i)
          PROVE  gamePaused'
      BY <2>3, <3>4 DEF AddTime, GetTimerStatus, EvictTimer, RestartProcess, gameVars
    <3>5. ASSUME NEW j \in JobId, HandlerStep(j), ~CreateGame(j)
          PROVE  gamePaused'
      BY <2>3, <3>5 DEF HandlerStep, StopTimer, DeleteTimer, EndGame, StartTimer, SetTimer,
         PauseTimer, ResumeTimer, gameVars
    <3>6. ASSUME NEW j \in JobId, ExpiryStep(j) \/ ExpireFails(j)
          PROVE  gamePaused'
      BY <2>3, <3>6 DEF ExpiryStep, ExpireTimer, ReadTurn, EndExpiredTurn, RestartTimer,
         ExpireFails, gameVars
    <3>7. ~(Tick \/ UNCHANGED vars)
      BY <2>3 DEF Tick, vars, gameVars
    <3>8. QED BY <2>3, <3>1, <3>2, <3>3, <3>4, <3>5, <3>6, <3>7 DEF Next
  <2>4. QED BY <1>3, <2>1, <2>2, <2>3 DEF Resumed, Busy
<1>4. QED BY <1>0, <1>1, <1>2, <1>3, TimerSteps

LEMMA AttendedNext ==
  ASSUME TypeOK, NEW j \in JobId, NEW s \in Attending, NEW n \in Nat, jobs[j] # NoJob,
         Become(j, s, n)
  PROVE  Attended'
<1>1. s \in Step
  BY DEF Attending, Step
<1>2. Doing(j, Attending)'
  BY <1>1, Became DEF Doing
<1>3. QED BY <1>2 DEF Attended, Attends

\* Redis drops no timer that somebody is armed for: the timeout comes first.
LEMMA TickIsAttended ==
  ASSUME TypeOK, Prompt, NEW i \in Instance, Renewed(i), Tick, timer # NoTimer
  PROVE  Attended'
<1>1. CASE Running /\ ArmedAt(i)
  <2>1. timer.end \in timeouts[i] \/ Steps({"fired"}) # {}
    BY <1>1 DEF ArmedAt
  <2>2. now < timer.end
    BY <2>1 DEF Tick
  <2>3. timer.end \in Nat /\ now \in Nat /\ TtlBuffer \in Nat \ {0}
    BY <1>1, TimerFields, TimeAssumption DEF Running, TypeOK
  <2>4. timer' = timer
    BY <2>2, <2>3 DEF Tick
  <2>5. QED BY <2>4 DEF Attended
<1>2. CASE Replaced
  <2>1. UNCHANGED <<jobs, live, waived, stranded>>
    BY DEF Tick, gameVars, history
  <2>2. Replaced => Left' \/ \E j \in JobId : Doing(j, Attending)'
    BY <2>1 DEF Replaced, Left, Busy, Doing, Attending
  <2>3. QED BY <1>2, <2>2 DEF Attended, Attends
<1>3. CASE ~Running
  BY <1>3 DEF Tick, Attended
<1>4. QED BY <1>1, <1>2, <1>3 DEF Renewed

\* Who takes the timer away goes on to attend to the turn, or is noted.
LEMMA RemovedIsAttended ==
  ASSUME TypeOK, NEW j \in JobId, Removes(j), timer # NoTimer, timer' = NoTimer
  PROVE  Attended'
<1>1. CASE DeleteTimer(j)
  <2>1. CASE At(j, "delete")
    <3>1. Left'
      BY <1>1, <2>1 DEF DeleteTimer, Strand, Left, gameVars
    <3>2. QED BY <3>1 DEF Attended
  <2>2. CASE ~At(j, "delete")
    <3>1. jobs[j] # NoJob /\ \E s \in {"end", "create"} : Become(j, s, 0)
      BY <1>1, <2>2 DEF DeleteTimer, At
    <3>2. QED BY <3>1, AttendedNext DEF Attending
  <2>3. QED BY <2>1, <2>2
<1>2. CASE StartTimer(j)
  <2>1. jobs[j] # NoJob /\ jobs[j].n \in Nat /\ Become(j, "set", jobs[j].n)
    BY <1>2, JobFields DEF StartTimer, At
  <2>2. QED BY <2>1, AttendedNext DEF Attending
<1>3. CASE PauseTimer(j)
  <2>1. ~(Running /\ now < timer.end)
    <3>1. SUFFICES ASSUME Running, now < timer.end PROVE FALSE
      OBVIOUS
    <3>2. timer \in Timer /\ timer.end - now \in Nat /\ now \in Nat
      BY <3>1, TimerFields DEF Running, TypeOK
    <3>3. ~(timer.end <= now)
      BY <3>1, <3>2, TimerFields DEF Running
    <3>4. timer' = [timer EXCEPT !.paused = TRUE, !.left = timer.end - now, !.at = now]
      BY <1>3, <3>1, <3>3 DEF PauseTimer
    <3>5. timer' \in Timer
      BY <3>2, <3>4 DEF Timer
    <3>6. QED BY <3>5, NullsAssumption
  <2>2. "dropped" \in stranded'
    BY <1>3, <2>1 DEF PauseTimer, Strand
  <2>3. QED BY <2>2 DEF Attended, Left
<1>4. CASE ResumeTimer(j)
  <2>1. jobs[j] # NoJob /\ Become(j, "expire", 0)
    BY <1>4 DEF ResumeTimer, At
  <2>2. QED BY <2>1, AttendedNext DEF Attending
<1>5. CASE ExpireTimer(j)
  <2>1. jobs[j] # NoJob /\ Become(j, "expire", 0)
    BY <1>5 DEF ExpireTimer, At
  <2>2. QED BY <2>1, AttendedNext DEF Attending
<1>6. QED BY <1>1, <1>2, <1>3, <1>4, <1>5 DEF Removes

\* Whoever attends to a turn without a timer goes on to, or is noted.
LEMMA HandlersAttend ==
  ASSUME TypeOK, NEW j \in JobId, Attends(j), HandlerStep(j), timer = NoTimer
  PROVE  Attended'
<1>0. jobs[j] # NoJob /\ jobs[j].n \in Nat /\ 0 \in Nat
  BY JobFields DEF Attends, Doing
<1>1. CASE DeleteTimer(j)
  <2>1. \E s \in {"end", "create"} : Become(j, s, 0)
    BY <1>1 DEF DeleteTimer, At, Attends, Attending, Doing
  <2>2. QED BY <1>0, <2>1, AttendedNext DEF Attending
<1>2. CASE CreateGame(j)
  <2>1. CASE live
    <3>1. "refused" \in stranded'
      BY <1>2, <2>1 DEF CreateGame, Refused, Strand
    <3>2. QED BY <3>1 DEF Attended, Left
  <2>2. CASE ~live
    <3>1. Become(j, "start", Duration)
      BY <1>2, <2>2 DEF CreateGame
    <3>2. QED BY <1>0, <3>1, AttendedNext, TimeAssumption DEF Attending
  <2>3. QED BY <2>1, <2>2
<1>3. CASE EndGame(j)
  <2>1. ~live' \/ "refused" \in stranded'
    BY <1>3 DEF EndGame, Refused, Strand
  <2>2. QED BY <2>1 DEF Attended, Left
<1>4. CASE StartTimer(j)
  <2>1. Become(j, "set", jobs[j].n)
    BY <1>4 DEF StartTimer
  <2>2. QED BY <1>0, <2>1, AttendedNext DEF Attending
<1>5. CASE SetTimer(j)
  <2>1. timer' \in Timer
    BY <1>0, <1>5 DEF SetTimer, Timer, TypeOK
  <2>2. QED BY <2>1, NullsAssumption DEF Attended
<1>6. ~StopTimer(j) /\ ~PauseTimer(j) /\ ~ResumeTimer(j)
  BY DEF StopTimer, PauseTimer, ResumeTimer, At, Attends, Attending, Doing
<1>7. QED BY <1>1, <1>2, <1>3, <1>4, <1>5, <1>6 DEF HandlerStep

LEMMA ExpiryAttends ==
  ASSUME TypeOK, NEW j \in JobId, Attends(j), ExpiryStep(j) \/ ExpireFails(j),
         timer = NoTimer
  PROVE  Attended'
<1>0. /\ jobs[j] # NoJob /\ Team(turn) \in Nat /\ 0 \in Nat
      /\ live' = live
  BY DEF Attends, Doing, TypeOK, Team, ExpiryStep, ExpireTimer, ReadTurn, EndExpiredTurn,
     RestartTimer, ExpireFails, gameVars
<1>1. CASE ~live
  BY <1>0, <1>1 DEF Attended, Left
<1>2. CASE live /\ ReadTurn(j)
  <2>1. Become(j, "endTurn", Team(turn)) /\ turn' = turn
    BY <1>2 DEF ReadTurn, gameVars
  <2>2. Doing(j, {"endTurn"})' /\ jobs'[j].n = Team(turn)
    BY <1>0, <2>1, Became DEF Step, Doing
  <2>3. QED BY <2>1, <2>2 DEF Attended, Attends, Team
<1>3. CASE live /\ EndExpiredTurn(j)
  <2>1. jobs[j].n = Team(turn)
    BY <1>3 DEF EndExpiredTurn, At, Attends, Attending, Doing
  <2>2. CASE gamePaused
    <3>1. "paused" \in stranded'
      BY <1>3, <2>1, <2>2 DEF EndExpiredTurn, Strand
    <3>2. QED BY <3>1 DEF Attended, Left
  <2>3. CASE ~gamePaused
    <3>1. Become(j, "check", 0)
      BY <1>3, <2>1, <2>3 DEF EndExpiredTurn
    <3>2. QED BY <1>0, <3>1, AttendedNext DEF Attending
  <2>4. QED BY <2>2, <2>3
<1>4. CASE live /\ RestartTimer(j)
  <2>1. Become(j, "start", Duration)
    BY <1>4 DEF RestartTimer
  <2>2. QED BY <1>0, <2>1, AttendedNext, TimeAssumption DEF Attending
<1>5. ~ExpireTimer(j) /\ ~ExpireFails(j)
  BY DEF ExpireTimer, ExpireFails, At, Attends, Attending, Doing
<1>6. QED BY <1>1, <1>2, <1>3, <1>4, <1>5 DEF ExpiryStep

\* A new turn is begun by somebody who starts its timer.
LEMMA NewTurnIsAttended ==
  ASSUME TypeOK, [Next]_vars, turn' # turn
  PROVE  Attended'
<1>1. ASSUME NEW j \in JobId, NEW i \in Instance, EndTurn(j, i)
      PROVE  Attended'
  <2>1. Begin(j, "start", i, Duration)
    BY <1>1 DEF EndTurn
  <2>2. Doing(j, Attending)'
    BY <2>1, Begun, TimeAssumption DEF Step, Doing, Attending
  <2>3. QED BY <2>2 DEF Attended, Attends
<1>2. ASSUME NEW j \in JobId, CreateGame(j)
      PROVE  Attended'
  <2>1. jobs[j] # NoJob /\ Become(j, "start", Duration)
    BY <1>2 DEF CreateGame, At, gameVars
  <2>2. QED BY <2>1, AttendedNext, TimeAssumption DEF Attending
<1>3. ASSUME NEW j \in JobId, EndExpiredTurn(j)
      PROVE  Attended'
  <2>1. jobs[j] # NoJob /\ Become(j, "check", 0)
    BY <1>3 DEF EndExpiredTurn, At
  <2>2. QED BY <2>1, AttendedNext DEF Attending
<1>4. ASSUME NEW j \in JobId, NEW i \in Instance,
             \/ GameOver(j, i) \/ StartGame(j, i) \/ HostEndsGame(j, i)
             \/ PauseGame(j, i) \/ ResumeGame(j, i)
             \/ TimerPause(j, i) \/ TimerResume(j, i) \/ TimerStop(j, i)
             \/ TimeoutFires(j, i) \/ SweepStaleTimers(j, i)
      PROVE  FALSE
  BY <1>4 DEF GameOver, StartGame, HostEndsGame, PauseGame, ResumeGame,
     TimerPause, TimerResume, TimerStop, TimeoutFires, SweepStaleTimers, gameVars
<1>5. ASSUME NEW i \in Instance,
             AddTime(i) \/ GetTimerStatus(i) \/ EvictTimer(i) \/ RestartProcess(i)
      PROVE  FALSE
  BY <1>5 DEF AddTime, GetTimerStatus, EvictTimer, RestartProcess, gameVars
<1>6. ASSUME NEW j \in JobId, HandlerStep(j), ~CreateGame(j)
      PROVE  FALSE
  BY <1>6 DEF HandlerStep, StopTimer, DeleteTimer, EndGame, StartTimer, SetTimer,
     PauseTimer, ResumeTimer, gameVars
<1>7. ASSUME NEW j \in JobId, ExpiryStep(j) \/ ExpireFails(j), ~EndExpiredTurn(j)
      PROVE  FALSE
  BY <1>7 DEF ExpiryStep, ExpireTimer, ReadTurn, RestartTimer, ExpireFails, gameVars
<1>8. ~Tick /\ ~UNCHANGED vars
  BY DEF Tick, vars, gameVars
<1>9. QED BY <1>1, <1>2, <1>3, <1>4, <1>5, <1>6, <1>7, <1>8 DEF Next

LEMMA StaysAttended ==
  ASSUME TypeOK, [Next]_vars, Prompt, NEW i \in Instance, Instance = {i}, Renewed(i),
         Attended
  PROVE  Attended'
<1>1. ASSUME NEW j \in JobId, SetTimer(j)
      PROVE  Attended'
  <2>1. now + jobs[j].n \in Nat
    BY <1>1, JobFields DEF SetTimer, At, TypeOK
  <2>2. timer' \in Timer
    BY <1>1, <2>1 DEF SetTimer, Timer
  <2>3. QED BY <2>2, NullsAssumption DEF Attended
<1>2. CASE Left /\ \A j \in JobId : ~SetTimer(j)
  <2>1. Left' \/ Busy({"start"})'
    BY <1>2, LeftStays
  <2>2. QED BY <2>1 DEF Attended, Attends, Attending, Busy, Doing
<1>3. CASE timer # NoTimer
  <2>1. CASE timer' # NoTimer
    BY <2>1 DEF Attended
  <2>2. CASE timer' = NoTimer
    <3>1. \/ \E j \in JobId : Removes(j)
          \/ GetTimerStatus(i) \/ Tick
      BY <1>3, <2>2, TimerSteps DEF Running
    <3>2. CASE GetTimerStatus(i)
      BY <3>2 DEF GetTimerStatus, Strand, Attended, Left
    <3>3. QED BY <1>3, <2>2, <3>1, <3>2, RemovedIsAttended, TickIsAttended
  <2>3. QED BY <2>1, <2>2
<1>4. CASE timer = NoTimer /\ \E j \in JobId : Attends(j)
  <2>1. PICK j \in JobId : Attends(j)
    BY <1>4
  <2>2. CASE jobs'[j] = jobs[j] /\ turn' = turn
    BY <2>1, <2>2 DEF Attended, Attends, Doing, Team
  <2>3. CASE "forgotten" \in stranded'
    BY <2>3 DEF Attended, Left
  <2>4. QED
    BY <1>4, <2>1, <2>2, <2>3, OwnSteps, HandlersAttend, ExpiryAttends,
       NewTurnIsAttended DEF Attends, Doing
<1>5. QED BY <1>1, <1>2, <1>3, <1>4 DEF Attended

\* With one process that keeps up with its timeouts, a turn has a running timer
\* whenever nothing is under way, the game is not paused, the host has not stopped
\* or paused the timer, and none of Cause has stranded the turn: whoever takes the
\* last timer away gives the turn another, ends it or the game, or is named.
THEOREM QuietTurnsAreTimed ==
  ASSUME NEW i, Instance = {i}, TtlBuffer <= Stale, Prompt
  PROVE  Spec => []QuietTurnIsTimed
<1>1. i \in Instance
  OBVIOUS
<1>2. Init => InTime /\ Renewed(i) /\ Resumed /\ Attended
  BY DEF Init, InTime, Renewed, Running, Resumed, Attended, Left
<1>3. TypeOK /\ InTime /\ Renewed(i) /\ [Next]_vars => Renewed(i)'
  BY <1>1, StaysRenewed
<1>4. TypeOK /\ Resumed /\ [Next]_vars => Resumed'
  BY StaysResumed
<1>5. TypeOK /\ Renewed(i) /\ Attended /\ [Next]_vars => Attended'
  BY <1>1, StaysAttended
<1>6. TypeOK /\ Resumed /\ Attended => QuietTurnIsTimed
  <2> SUFFICES ASSUME TypeOK, Resumed, Attended, ~Left, ~gamePaused, Steps(Step) = {}
               PROVE  Running
    BY DEF QuietTurnIsTimed, Left
  <2>1. \A S : \A k \in JobId : ~Doing(k, S)
    BY JobFields DEF Steps, Doing
  <2>2. timer # NoTimer
    BY <2>1 DEF Attended, Attends
  <2>3. ~timer.paused
    BY <2>1, <2>2 DEF Resumed, Replaced, Busy
  <2>4. QED BY <2>2, <2>3 DEF Running
<1>7. QED
  BY <1>2, <1>3, <1>4, <1>5, <1>6, TypeCorrect, StaysInTime, PTL DEF Spec
=============================================================================
