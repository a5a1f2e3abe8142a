------------------------------ MODULE TurnTimer ------------------------------
(***************************************************************************)
(* The turn timer of one room, and the turns it ends.                      *)
(*                                                                         *)
(* Redis records when the turn runs out (key timer:<code>); what ends the  *)
(* turn is a setTimeout in the process that started or extended the timer. *)
(* The two are changed by handlers that await Redis between their steps,   *)
(* so a timeout may fire for a timer that was extended, paused, replaced   *)
(* or deleted meanwhile.  Each handler, callback or restart under way is a *)
(* job; a job's step is the Redis command (or synchronous code) it does    *)
(* next.  Of the game only the turn, paused and gameOver matter here.      *)
(*                                                                         *)
(* Time is counted in ticks.  Definitions Mut_X are X with a plausible bug *)
(* and are used by no behaviour.                                           *)
(***************************************************************************)
EXTENDS Integers, FiniteSets

CONSTANTS
  Instance,      \* server processes
  JobId,         \* bound: the jobs under way at once
  Duration,      \* room.settings.turnTimer
  Added,         \* the seconds of a timer:addTime
  TtlBuffer,     \* TIMER_TTL_BUFFER_SECONDS
  Stale,         \* STALE_BUFFER_MS
  MaxTurns,      \* bound: turns played
  MaxCalls,      \* bound: requests of the host and hand-overs
  MaxFailures,   \* bound: expiry commands that Redis fails, timers evicted, restarts
  Calls,         \* the requests that are made, of those below
  HostWaits,     \* the host awaits the answer of one request before the next
  Prompt,        \* timeouts fire, and reach Redis, in the tick they are due
  NoJob, NoTimer, NoEntry

Call == {"endTurn", "gameOver", "start", "end", "pause", "resume", "timerPause",
         "timerResume", "timerStop", "addTime", "status"}

ASSUME TimeAssumption ==
  /\ Duration \in Nat \ {0} /\ Added \in Nat \ {0}
  /\ TtlBuffer \in Nat \ {0} /\ Stale \in Nat
  /\ MaxTurns \in Nat /\ MaxCalls \in Nat /\ MaxFailures \in Nat
ASSUME CallsAssumption ==
  Calls \subseteq Call /\ HostWaits \in BOOLEAN /\ Prompt \in BOOLEAN

Timer == [end : Nat, paused : BOOLEAN, left : Nat, at : Nat]
Entry == [end : Nat, paused : BOOLEAN]
Step  == {"stop", "delete", "deleteEnd", "deleteCreate", "end", "create",
          "start", "set", "pause", "resume",
          "fired", "expire", "endTurn", "check"}
\* n is the seconds to start with, the endTime a timeout was armed for, or the
\* team whose turn an expiry means to end.
Job == [step : Step, at : Instance, n : Nat]

\* What can leave a turn without a timer: the expiry fails, the process forgets
\* the timeout, the game is paused when the turn is to be ended, a timer that has
\* run out is deleted instead, the timer is stopped for a request that is then
\* refused, or an older request to stop or pause meets the new timer.
Cause == {"failed", "forgotten", "paused", "dropped", "refused", "overtaken"}

ASSUME NullsAssumption ==
  NoJob \notin Job /\ NoTimer \notin Timer /\ NoEntry \notin Entry

VARIABLES
  now,
  timer,       \* the key timer:<code>
  entry,       \* localTimers.get(code), by instance
  timeouts,    \* the endTimes pending timeouts were armed for, by instance
  jobs,
  turn,        \* the number of the turn; its parity is the team
  live,        \* a game exists and is not over
  gamePaused,
  calls,       \* bound: requests so far
  failures,    \* bound: of those, so far
  began,       \* history: when the turn began
  granted,     \* history: timers started
  spent,       \* history: turns the timer ended
  waived,      \* history: the host has stopped or paused the turn's timer
  raced,       \* history: a turn was ended by hand, the host did not wait, or
               \* an expiry under way met a new game
  stranded     \* history: what has left the turn without somebody to end it,
               \* since its timer was started

gameVars  == <<turn, live, gamePaused, began>>
localVars == <<entry, timeouts>>
history   == <<granted, spent, waived, raced, stranded>>
vars == <<now, timer, localVars, jobs, gameVars, calls, failures, history>>

Team(n)   == n % 2
Running   == timer # NoTimer /\ ~timer.paused
At(j, s)  == jobs[j] # NoJob /\ jobs[j].step = s
Steps(S)  == {j \in JobId : jobs[j] # NoJob /\ jobs[j].step \in S}

Init ==
  /\ now = 0
  /\ timer = NoTimer
  /\ entry = [i \in Instance |-> NoEntry]
  /\ timeouts = [i \in Instance |-> {}]
  /\ jobs = [j \in JobId |-> NoJob]
  /\ turn = 0 /\ live = FALSE /\ gamePaused = FALSE /\ began = 0
  /\ calls = 0 /\ failures = 0
  /\ granted = 0 /\ spent = 0 /\ waived = FALSE /\ raced = FALSE
  /\ stranded = {}

-----------------------------------------------------------------------------
(* Parts of the operations                                                 *)

Begin(j, s, i, n) ==
  /\ jobs[j] = NoJob
  /\ jobs' = [jobs EXCEPT ![j] = [step |-> s, at |-> i, n |-> n]]
Become(j, s, n) == jobs' = [jobs EXCEPT ![j].step = s, ![j].n = n]
Done(j) == jobs' = [jobs EXCEPT ![j] = NoJob]

\* clearTimeout of the room's entry
Cleared(i) ==
  IF entry[i] = NoEntry THEN timeouts[i] ELSE timeouts[i] \ {entry[i].end}

Forget(i) ==
  /\ entry' = [entry EXCEPT ![i] = NoEntry]
  /\ timeouts' = [timeouts EXCEPT ![i] = Cleared(i)]

Arm(i, end, paused) ==
  /\ entry' = [entry EXCEPT ![i] = [end |-> end, paused |-> paused]]
  /\ timeouts' = [timeouts EXCEPT ![i] = Cleared(i) \cup {end}]

NewTurn(n) == turn' = n /\ began' = now

Strand(c) == stranded' = stranded \cup {c}
\* A request is refused after it has stopped the timer of the turn.
Refused == IF timer = NoTimer THEN Strand("refused") ELSE UNCHANGED stranded

\* Assumed of clients, not kept by the code: with HostWaits a request waits for this.
Answered == Steps(Step \ {"fired", "expire", "endTurn", "check"}) = {}

\* A request of the host's client.
Host(c) ==
  /\ c \in Calls
  /\ calls < MaxCalls
  /\ HostWaits => Answered
  /\ calls' = calls + 1
  /\ raced' = (raced \/ ~Answered)

-----------------------------------------------------------------------------
(* The game and its handlers                                               *)

\* game:endTurn, or a reveal that hands the turn over.
EndTurn(j, i) ==
  /\ "endTurn" \in Calls
  /\ live /\ ~gamePaused
  /\ turn < MaxTurns /\ calls < MaxCalls
  /\ calls' = calls + 1
  /\ NewTurn(turn + 1)
  /\ raced' = TRUE
  /\ Begin(j, "start", i, Duration)
  /\ UNCHANGED <<now, timer, localVars, live, gamePaused, failures, granted,
                 spent, waived, stranded>>

\* A reveal that ends the game.
GameOver(j, i) ==
  /\ "gameOver" \in Calls
  /\ live /\ ~gamePaused
  /\ live' = FALSE
  /\ Begin(j, "stop", i, 0)
  /\ UNCHANGED <<now, timer, localVars, turn, gamePaused, began, calls, failures,
                 history>>

\* game:start and game:nextRound, on a game read as over: stop the timer, then
\* create the board, then start the timer.
StartGame(j, i) ==
  /\ Host("start")
  /\ ~live
  /\ Begin(j, "deleteCreate", i, 0)
  /\ Forget(i)
  /\ UNCHANGED <<now, timer, gameVars, failures, granted, spent,
                 waived, stranded>>

CreateGame(j) ==
  /\ At(j, "create")
  /\ turn < MaxTurns
  /\ \/ /\ ~live
        /\ live' = TRUE
        /\ gamePaused' = FALSE
        /\ \E n \in {turn + 1, turn + 2} : NewTurn(n)
        /\ Become(j, "start", Duration)
        /\ UNCHANGED stranded
     \/ /\ live
        /\ Done(j)
        /\ Refused
        /\ UNCHANGED gameVars
  /\ raced' = (raced \/ Steps({"expire", "endTurn", "check"}) # {})
  /\ UNCHANGED <<now, timer, localVars, calls, failures, granted, spent, waived>>

\* game:abandon and game:forfeit stop the timer before the transaction that
\* ends the game, which refuses a paused one.
HostEndsGame(j, i) ==
  /\ Host("end")
  /\ live
  /\ Begin(j, "deleteEnd", i, 0)
  /\ Forget(i)
  /\ UNCHANGED <<now, timer, gameVars, failures, granted, spent,
                 waived, stranded>>

EndGame(j) ==
  /\ At(j, "end")
  /\ live' = (live /\ gamePaused)
  /\ IF live' THEN Refused ELSE UNCHANGED stranded
  /\ Done(j)
  /\ UNCHANGED <<now, timer, localVars, turn, gamePaused, began, calls, failures,
                 granted, spent, waived, raced>>

PauseGame(j, i) ==
  /\ Host("pause")
  /\ live
  /\ gamePaused' = TRUE
  /\ Begin(j, "pause", i, 0)
  /\ UNCHANGED <<now, timer, localVars, turn, live, began, failures, granted, spent,
                 waived, stranded>>

ResumeGame(j, i) ==
  /\ Host("resume")
  /\ live
  /\ gamePaused' = FALSE
  /\ Begin(j, "resume", i, 0)
  /\ UNCHANGED <<now, timer, localVars, turn, live, began, failures, granted, spent,
                 waived, stranded>>

-----------------------------------------------------------------------------
(* The timer's own handlers                                                *)

TimerPause(j, i) ==
  /\ Host("timerPause")
  /\ live
  /\ waived' = TRUE
  /\ Begin(j, "pause", i, 0)
  /\ UNCHANGED <<now, timer, localVars, gameVars, failures, granted, spent, stranded>>

TimerResume(j, i) ==
  /\ Host("timerResume")
  /\ live /\ ~gamePaused
  /\ Begin(j, "resume", i, 0)
  /\ UNCHANGED <<now, timer, localVars, gameVars, failures, granted, spent,
                 waived, stranded>>

TimerStop(j, i) ==
  /\ Host("timerStop")
  /\ live
  /\ waived' = TRUE
  /\ Begin(j, "delete", i, 0)
  /\ Forget(i)
  /\ UNCHANGED <<now, timer, gameVars, failures, granted, spent, stranded>>

\* addTimeLocal extends the key and re-arms the timeout if this process has
\* one.  Redis answers a process in the order it was asked, so nothing of the
\* same process comes between the two.
Mut_AddTime(i) ==
  /\ Host("addTime")
  /\ live
  /\ Running /\ now < timer.end
  /\ timer' = [timer EXCEPT !.end = @ + Added]
  /\ UNCHANGED <<now, localVars, jobs, gameVars, failures, granted, spent,
                 waived, stranded>>
\* Mutant: the time added counts from now, not from the end of the turn.
Mut_AddTimeAnew(i) ==
  /\ Host("addTime")
  /\ live
  /\ Running /\ now < timer.end
  /\ timer' = [timer EXCEPT !.end = now + Added]
  /\ IF entry[i] = NoEntry THEN UNCHANGED localVars
                           ELSE Arm(i, timer'.end, entry[i].paused)
  /\ UNCHANGED <<now, jobs, gameVars, failures, granted, spent,
                 waived, stranded>>
AddTime(i) ==
  /\ Host("addTime")
  /\ live
  /\ Running /\ now < timer.end
  /\ timer' = [timer EXCEPT !.end = @ + Added]
  /\ IF entry[i] = NoEntry THEN UNCHANGED localVars
                           ELSE Arm(i, timer'.end, entry[i].paused)
  /\ UNCHANGED <<now, jobs, gameVars, failures, granted, spent,
                 waived, stranded>>

\* getTimerStatus, when somebody joins or resyncs: it deletes a timer that has
\* been paused for longer than it had left.
GetTimerStatus(i) ==
  /\ "status" \in Calls
  /\ timer # NoTimer /\ timer.paused
  /\ now - timer.at >= timer.left
  /\ timer' = NoTimer
  /\ entry' = [entry EXCEPT ![i] = NoEntry]
  /\ Strand("dropped")
  /\ UNCHANGED <<now, timeouts, jobs, gameVars, calls, failures, granted, spent, waived,
                 raced>>

-----------------------------------------------------------------------------
(* timerService                                                            *)

\* stopTimer clears the timeout of its process, then deletes the key.
StopTimer(j) ==
  /\ At(j, "stop")
  /\ Forget(jobs[j].at)
  /\ Become(j, "delete", 0)
  /\ IF live THEN Strand("overtaken") ELSE UNCHANGED stranded
  /\ UNCHANGED <<now, timer, gameVars, calls, failures, granted, spent, waived, raced>>

DeleteTimer(j) ==
  /\ \/ At(j, "delete") /\ Done(j)
     \/ At(j, "deleteEnd") /\ Become(j, "end", 0)
     \/ At(j, "deleteCreate") /\ Become(j, "create", 0)
  /\ timer' = NoTimer
  /\ IF At(j, "delete") /\ live /\ ~waived /\ timer # NoTimer
     THEN Strand("overtaken") ELSE UNCHANGED stranded
  /\ UNCHANGED <<now, localVars, gameVars, calls, failures, granted, spent, waived, raced>>

\* startTimer, under the lock timer:<code>: stopTimer, then the new key and the
\* timeout that goes with it.
StartTimer(j) ==
  /\ At(j, "start")
  /\ Steps({"set"}) = {}
  /\ Forget(jobs[j].at)
  /\ timer' = NoTimer
  /\ Become(j, "set", jobs[j].n)
  /\ UNCHANGED <<now, gameVars, calls, failures, history>>

SetTimer(j) ==
  /\ At(j, "set")
  /\ timer' = [end |-> now + jobs[j].n, paused |-> FALSE, left |-> 0, at |-> 0]
  /\ Arm(jobs[j].at, now + jobs[j].n, FALSE)
  /\ granted' = granted + 1
  /\ waived' = FALSE
  /\ stranded' = {}
  /\ Done(j)
  /\ UNCHANGED <<now, gameVars, calls, failures, spent, raced>>

\* pauseTimer: a timer that has run out is deleted, nobody ends its turn.
PauseTimer(j) ==
  LET i == jobs[j].at IN
  /\ At(j, "pause")
  /\ Done(j)
  /\ \/ /\ ~Running
        /\ UNCHANGED <<timer, localVars, stranded>>
     \/ /\ Running /\ timer.end <= now
        /\ timer' = NoTimer
        /\ Strand("dropped")
        /\ UNCHANGED localVars
     \/ /\ Running /\ now < timer.end
        /\ timer' = [timer EXCEPT !.paused = TRUE, !.left = timer.end - now,
                                  !.at = now]
        /\ timeouts' = [timeouts EXCEPT ![i] = Cleared(i)]
        /\ entry' = IF entry[i] = NoEntry THEN entry
                                          ELSE [entry EXCEPT ![i].paused = TRUE]
        /\ IF gamePaused \/ waived THEN UNCHANGED stranded ELSE Strand("overtaken")
  /\ UNCHANGED <<now, gameVars, calls, failures, granted, spent, waived, raced>>

Mut_ResumeTimer(j) ==
  /\ At(j, "resume")
  /\ IF timer = NoTimer \/ Running THEN Done(j) /\ UNCHANGED spent
     ELSE IF now - timer.at >= timer.left
          THEN Become(j, "expire", 0) /\ spent' = spent + 1
          ELSE Become(j, "start", timer.left) /\ UNCHANGED spent
  /\ UNCHANGED <<now, timer, localVars, gameVars, calls, failures, granted, waived,
                 raced, stranded>>
\* resumeTimer: a timer paused for longer than it had left runs out at once.
ResumeTimer(j) ==
  /\ At(j, "resume")
  /\ \/ /\ timer = NoTimer \/ Running
        /\ Done(j)
        /\ UNCHANGED <<timer, localVars, spent>>
     \/ /\ timer # NoTimer /\ timer.paused
        /\ now - timer.at >= timer.left
        /\ timer' = NoTimer
        /\ entry' = [entry EXCEPT ![jobs[j].at] = NoEntry]
        /\ spent' = spent + 1
        /\ Become(j, "expire", 0)
        /\ UNCHANGED timeouts
     \/ /\ timer # NoTimer /\ timer.paused
        /\ now - timer.at < timer.left
        /\ Become(j, "start", timer.left)
        /\ UNCHANGED <<timer, localVars, spent>>
  /\ UNCHANGED <<now, gameVars, calls, failures, granted, waived,
                 raced, stranded>>

-----------------------------------------------------------------------------
(* Running out                                                             *)

TimeoutFires(j, i) ==
  /\ \E e \in timeouts[i] :
       /\ e <= now
       /\ timeouts' = [timeouts EXCEPT ![i] = @ \ {e}]
       /\ Begin(j, "fired", i, e)
  /\ UNCHANGED <<now, timer, entry, gameVars, calls, failures, history>>

\* atomicExpireTimer.lua lets a timeout expire only the timer it was armed for.
Mut_Matches(e) == Running
Matches(e) == Running /\ timer.end = e

ExpireTimer(j) ==
  LET i == jobs[j].at IN
  /\ At(j, "fired")
  /\ \/ /\ ~Matches(jobs[j].n)
        /\ Done(j)
        /\ UNCHANGED <<timer, entry, spent>>
     \/ /\ Matches(jobs[j].n)
        /\ timer' = NoTimer
        /\ entry' = IF entry[i] # NoEntry /\ entry[i].end = jobs[j].n
                    THEN [entry EXCEPT ![i] = NoEntry] ELSE entry
        /\ spent' = spent + 1
        /\ Become(j, "expire", 0)
  /\ UNCHANGED <<now, timeouts, gameVars, calls, failures, granted, waived,
                 raced, stranded>>

\* The command fails or times out: the callback gives up.
ExpireFails(j) ==
  /\ failures < MaxFailures
  /\ At(j, "fired")
  /\ failures' = failures + 1
  /\ Done(j)
  /\ IF Matches(jobs[j].n) THEN Strand("failed") ELSE UNCHANGED stranded
  /\ UNCHANGED <<now, timer, localVars, gameVars, calls, granted, spent, waived, raced>>

\* The expire callback, under the lock timer-expire:<code>: read whose turn it
\* is, and end the turn if it is still theirs.
Mut_ReadTurn(j) ==
  /\ At(j, "expire")
  /\ Steps({"endTurn"}) = {}
  /\ IF live THEN Become(j, "endTurn", Team(turn + 1)) ELSE Done(j)
  /\ UNCHANGED <<now, timer, localVars, gameVars, calls, failures, history>>
ReadTurn(j) ==
  /\ At(j, "expire")
  /\ Steps({"endTurn"}) = {}
  /\ IF live THEN Become(j, "endTurn", Team(turn)) ELSE Done(j)
  /\ UNCHANGED <<now, timer, localVars, gameVars, calls, failures, history>>

EndExpiredTurn(j) ==
  /\ At(j, "endTurn")
  /\ turn < MaxTurns
  /\ \/ /\ live /\ ~gamePaused /\ Team(turn) = jobs[j].n
        /\ NewTurn(turn + 1)
        /\ Become(j, "check", 0)
        /\ UNCHANGED stranded
     \/ /\ ~(live /\ ~gamePaused /\ Team(turn) = jobs[j].n)
        /\ Done(j)
        /\ IF live /\ gamePaused /\ Team(turn) = jobs[j].n /\ timer = NoTimer
           THEN Strand("paused") ELSE UNCHANGED stranded
        /\ UNCHANGED <<turn, began>>
  /\ UNCHANGED <<now, timer, localVars, live, gamePaused, calls, failures, granted, spent,
                 waived, raced>>

\* setImmediate: the next turn's timer, unless the game is over.
Mut_RestartTimer(j) ==
  /\ At(j, "check")
  /\ Done(j)
  /\ UNCHANGED <<now, timer, localVars, gameVars, calls, failures, history>>
RestartTimer(j) ==
  /\ At(j, "check")
  /\ IF live THEN Become(j, "start", Duration) ELSE Done(j)
  /\ UNCHANGED <<now, timer, localVars, gameVars, calls, failures, history>>

\* sweepStaleTimers: an entry long past its end is dropped and expired again.
SweepStaleTimers(j, i) ==
  /\ entry[i] # NoEntry /\ ~entry[i].paused
  /\ entry[i].end + Stale < now
  /\ Forget(i)
  /\ Begin(j, "fired", i, entry[i].end)
  /\ UNCHANGED <<now, timer, gameVars, calls, failures, history>>

\* A full map of local timers drops the room's entry for another room's.
EvictTimer(i) ==
  /\ failures < MaxFailures
  /\ entry[i] # NoEntry
  /\ Forget(i)
  /\ failures' = failures + 1
  /\ Strand("forgotten")
  /\ UNCHANGED <<now, timer, jobs, gameVars, calls, granted, spent, waived, raced>>

\* A process restarts: what it kept and what it was doing is gone, the key is not.
RestartProcess(i) ==
  /\ failures < MaxFailures
  /\ entry' = [entry EXCEPT ![i] = NoEntry]
  /\ timeouts' = [timeouts EXCEPT ![i] = {}]
  /\ jobs' = [j \in JobId |-> IF jobs[j] # NoJob /\ jobs[j].at = i THEN NoJob ELSE jobs[j]]
  /\ failures' = failures + 1
  /\ Strand("forgotten")
  /\ UNCHANGED <<now, timer, gameVars, calls, granted, spent, waived, raced>>

\* Time passes while something waits for it.  Redis drops a running timer
\* TtlBuffer after its end; a paused one lives for hours.
Waiting ==
  \/ Running
  \/ timer # NoTimer /\ now <= timer.at + timer.left
  \/ \E i \in Instance : \E e \in timeouts[i] : now < e
  \/ \E i \in Instance : entry[i] # NoEntry /\ now <= entry[i].end + Stale

Tick ==
  /\ Waiting
  /\ Prompt => Steps({"fired"}) = {} /\ \A i \in Instance : \A e \in timeouts[i] : now < e
  /\ now' = now + 1
  /\ timer' = IF Running /\ now + 1 >= timer.end + TtlBuffer THEN NoTimer ELSE timer
  /\ UNCHANGED <<localVars, jobs, gameVars, calls, failures, history>>

-----------------------------------------------------------------------------

HandlerStep(j) == StopTimer(j) \/ DeleteTimer(j) \/ CreateGame(j) \/ EndGame(j)
                    \/ StartTimer(j) \/ SetTimer(j) \/ PauseTimer(j) \/ ResumeTimer(j)
ExpiryStep(j)  == ExpireTimer(j) \/ ReadTurn(j) \/ EndExpiredTurn(j) \/ RestartTimer(j)

Next ==
  \/ \E j \in JobId, i \in Instance :
       \/ EndTurn(j, i) \/ GameOver(j, i) \/ StartGame(j, i) \/ HostEndsGame(j, i)
       \/ PauseGame(j, i) \/ ResumeGame(j, i)
       \/ TimerPause(j, i) \/ TimerResume(j, i) \/ TimerStop(j, i)
       \/ TimeoutFires(j, i) \/ SweepStaleTimers(j, i)
  \/ \E i \in Instance : \/ AddTime(i) \/ GetTimerStatus(i)
                         \/ EvictTimer(i) \/ RestartProcess(i)
  \/ \E j \in JobId : HandlerStep(j) \/ ExpiryStep(j) \/ ExpireFails(j)
  \/ Tick

Spec == Init /\ [][Next]_vars

\* Handlers and callbacks go on, timeouts fire, the sweep runs, time passes.
\* Nobody has to make a request.
FairSpec ==
  /\ Spec
  /\ WF_vars(Tick)
  /\ \A j \in JobId : WF_vars(HandlerStep(j)) /\ WF_vars(ExpiryStep(j))
  /\ \A i \in Instance :
       /\ WF_vars(\E j \in JobId : TimeoutFires(j, i))
       /\ WF_vars(\E j \in JobId : SweepStaleTimers(j, i))

-----------------------------------------------------------------------------
(* Properties                                                              *)

TypeOK ==
  /\ now \in Nat /\ turn \in Nat /\ began \in Nat
  /\ timer \in Timer \cup {NoTimer}
  /\ entry \in [Instance -> Entry \cup {NoEntry}]
  /\ timeouts \in [Instance -> SUBSET Nat]
  /\ jobs \in [JobId -> Job \cup {NoJob}]
  /\ live \in BOOLEAN /\ gamePaused \in BOOLEAN
  /\ waived \in BOOLEAN /\ raced \in BOOLEAN
  /\ stranded \subseteq Cause
  /\ calls \in Nat /\ failures \in Nat /\ granted \in Nat /\ spent \in Nat

\* A timeout expires the stored timer only when that timer is running and its
\* own time is up, whichever process, extension, pause or restart the timeout
\* was left behind by.
OnlyRunOutTimersExpire ==
  [][\A j \in JobId : At(j, "fired") /\ At(j, "expire")'
                        => Running /\ timer.end <= now]_vars

\* Every timer that was started ends at most one turn: no two timeouts, sweeps,
\* resumes or processes expire the same one.
OneTurnPerTimer == spent + (IF timer = NoTimer THEN 0 ELSE 1) <= granted

\* With one process, a running timer always has somebody to end it: the
\* process holds its entry and a timeout for exactly its end, pending or under
\* way, unless it is just being stopped, its expiry has failed, or the process
\* was restarted or has dropped the entry.
TimerIsArmed ==
  Running /\ stranded \cap {"failed", "forgotten"} = {}
    /\ Steps({"delete", "deleteEnd", "deleteCreate"}) = {} =>
    \E i \in Instance :
      /\ entry[i] = [end |-> timer.end, paused |-> FALSE]
      /\ \/ timer.end \in timeouts[i]
         \/ \E j \in Steps({"fired"}) : jobs[j].n = timer.end

\* When nothing is under way, a turn of a timed game has a running timer, unless
\* the game is paused, the host stopped or paused the timer, or it was lost in one
\* of the ways that Cause names.
QuietTurnIsTimed ==
  live /\ ~gamePaused /\ ~waived /\ stranded = {} /\ Steps(Step) = {} => Running

\* No turn is ended by a timer before it has lasted its full time, whatever is
\* paused, resumed, stopped, extended or expired meanwhile, as long as the host
\* awaits each answer, no turn is ended by hand and no game is replaced while an
\* expiry, or the new timer after one, is under way: otherwise the expiry of one
\* turn can fall on the next.
TurnLastsItsTime ==
  [][\A j \in JobId : ~raced /\ At(j, "endTurn") /\ At(j, "check")'
                        => began + Duration <= now]_vars

\* A turn of a timed game ends, unless the game stays paused, the host has stopped
\* or paused its timer, or one of C has stranded it.
TurnEndsBut(C) ==
  \A n \in 1 .. MaxTurns - 1 :
    []<>(~(live /\ turn = n) \/ gamePaused \/ waived \/ stranded \cap C # {})

\* Whatever players and host ask for, and although an expiry fails or the process
\* forgets its timeouts: only what Cause names leaves a turn without an end.
TurnEnds == TurnEndsBut(Cause)

\* sweepStaleTimers: recovery of an expire callback "that never ran (e.g. the CAD
\* eval threw on a Redis blip)", which "prevents turns from hanging indefinitely".
\* The sweep comes when the key is gone, and finds nothing to expire.
SweepRecovers == TurnEndsBut(Cause \ {"failed"})

\* The expiry callback, of a game paused meanwhile: "the paused game keeps its turn;
\* game:resume restarts the timer".  The expiry has taken the timer, so there is
\* none to resume.
ResumeRestarts == TurnEndsBut(Cause \ {"paused"})
=============================================================================
