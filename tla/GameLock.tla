------------------------------ MODULE GameLock ------------------------------
(***************************************************************************)
(* withLock of utils/distributedLock.ts: one lock key in Redis and the     *)
(* calls that compete for it, each with an owner id of its own.            *)
(*                                                                         *)
(* Redis drops the key when its time is up, whoever holds it.  The caller  *)
(* awaits its body for a time that starts when the reply to SET arrives,   *)
(* later than the key's own; when that time is up it releases the lock and *)
(* gives up, and the body goes on without it.                              *)
(*                                                                         *)
(* The names every specification has (LockInit, LockNext, ...) carry the   *)
(* module's, for GameStoreProofs extends this module and GameStore.        *)
(* Definitions Mut_X are X with a plausible bug and used by no behaviour.  *)
(***************************************************************************)
EXTENDS Integers, FiniteSets

CONSTANTS
  Caller,
  LockTimeout,    \* options.lockTimeout
  MinTimeout,     \* MIN_LOCK_TIMEOUT
  Margin,         \* the 500 ms withLock keeps of the lock's time
  MaxRetries,     \* options.maxRetries
  MaxDelay,       \* the longest a reply of Redis takes
  MaxLost,        \* bound: commands whose reply is lost or that fail
  Free

ASSUME TimeAssumption ==
  /\ LockTimeout \in Nat \ {0} /\ MinTimeout \in Nat \ {0}
  /\ MaxRetries \in Nat \ {0}
  /\ Margin \in Nat /\ MaxDelay \in Nat /\ MaxLost \in Nat

Lock == [owner : Caller, left : Nat]
ASSUME FreeAssumption == Free \notin Lock

VARIABLES
  lock,      \* the key lock:<lockKey> and the time it has left
  step,      \* where each call is
  tries,     \* its attempts so far
  time,      \* how long its reply has been under way, or its body has left
  running,   \* the calls whose body runs
  lost       \* bound: replies lost so far

lockVars == <<lock, step, tries, time, running, lost>>

LockStep == {"trying", "won", "body", "release", "done", "refused"}

\* acquire raises a short timeout to MIN_LOCK_TIMEOUT; withLock takes the
\* margin off the timeout it was given, but not below MIN_LOCK_TIMEOUT.
AtLeast(n, m) == IF n >= m THEN n ELSE m
Lease == AtLeast(LockTimeout, MinTimeout)
Mut_OperationTimeout == Lease
OperationTimeout == AtLeast(LockTimeout - Margin, MinTimeout)

Owns(c) == lock # Free /\ lock.owner = c

LockInit ==
  /\ lock = Free
  /\ step = [c \in Caller |-> "trying"]
  /\ tries = [c \in Caller |-> 0]
  /\ time = [c \in Caller |-> 0]
  /\ running = {}
  /\ lost = 0

StepTo(c, s, t) ==
  /\ step' = [step EXCEPT ![c] = s]
  /\ time' = [time EXCEPT ![c] = t]

\* A failed attempt: sleep and try again, or give up after MaxRetries.
Retry(c) ==
  /\ tries' = [tries EXCEPT ![c] = @ + 1]
  /\ StepTo(c, IF tries[c] + 1 < MaxRetries THEN "trying" ELSE "refused", 0)

-----------------------------------------------------------------------------
(* acquire                                                                 *)

\* SET NX PX finds the key free and sets it.
SetLock(c) ==
  /\ step[c] = "trying"
  /\ lock = Free
  /\ lock' = [owner |-> c, left |-> Lease]
  /\ StepTo(c, "won", 0)
  /\ UNCHANGED <<tries, running, lost>>

\* It finds the key there, even if the owner is this call itself, whose first
\* SET went through without its reply.
LockTaken(c) ==
  /\ step[c] = "trying"
  /\ lock # Free
  /\ Retry(c)
  /\ UNCHANGED <<lock, running, lost>>

\* The reply arrives: withLock calls the body.
StartBody(c) ==
  /\ step[c] = "won"
  /\ StepTo(c, "body", OperationTimeout)
  /\ running' = running \cup {c}
  /\ UNCHANGED <<lock, tries, lost>>

\* The connection fails before the reply: acquire catches the error and tries
\* again with the same owner id.
ReplyLost(c) ==
  /\ step[c] = "won"
  /\ lost < MaxLost
  /\ lost' = lost + 1
  /\ Retry(c)
  /\ UNCHANGED <<lock, running>>

-----------------------------------------------------------------------------
(* The body and the release                                                *)

\* The body returns or throws; the caller may have given it up before.
BodyEnds(c) ==
  /\ c \in running
  /\ running' = running \ {c}
  /\ IF step[c] = "body" THEN StepTo(c, "release", 0) ELSE UNCHANGED <<step, time>>
  /\ UNCHANGED <<lock, tries, lost>>

\* withTimeout rejects; the body is not cancelled.
Mut_GiveUp(c) ==
  /\ step[c] = "body" /\ c \notin running
  /\ time[c] = 0
  /\ StepTo(c, "release", 0)
  /\ UNCHANGED <<lock, tries, running, lost>>
GiveUp(c) ==
  /\ step[c] = "body"
  /\ time[c] = 0
  /\ StepTo(c, "release", 0)
  /\ UNCHANGED <<lock, tries, running, lost>>

\* releaseLock.lua deletes the key only for its owner.
Release(c) ==
  /\ step[c] = "release"
  /\ lock' = IF Owns(c) THEN Free ELSE lock
  /\ StepTo(c, "done", 0)
  /\ UNCHANGED <<tries, running, lost>>

\* The command fails; release logs it and returns false.
ReleaseFails(c) ==
  /\ step[c] = "release"
  /\ lost < MaxLost
  /\ lost' = lost + 1
  /\ StepTo(c, "done", 0)
  /\ UNCHANGED <<lock, tries, running>>

-----------------------------------------------------------------------------
(* Time                                                                    *)

\* Time does not pass a reply that is due, nor a timeout of the event loop.
Due(c) ==
  \/ step[c] = "won" /\ time[c] >= MaxDelay
  \/ step[c] = "body" /\ time[c] = 0

Passed(c) == CASE step[c] = "won"  -> time[c] + 1
               [] step[c] = "body" -> time[c] - 1
               [] OTHER            -> time[c]

Tick ==
  /\ lock # Free \/ \E c \in Caller : step[c] = "body"
  /\ \A c \in Caller : ~Due(c)
  /\ time' = [c \in Caller |-> Passed(c)]
  /\ lock' = IF lock = Free \/ lock.left <= 1 THEN Free
                                           ELSE [lock EXCEPT !.left = @ - 1]
  /\ UNCHANGED <<step, tries, running, lost>>

-----------------------------------------------------------------------------

CallStep(c) == SetLock(c) \/ LockTaken(c) \/ StartBody(c) \/ GiveUp(c) \/ Release(c)

LockNext ==
  \/ \E c \in Caller : CallStep(c) \/ ReplyLost(c) \/ BodyEnds(c) \/ ReleaseFails(c)
  \/ Tick

LockSpec == LockInit /\ [][LockNext]_lockVars

\* Replies arrive, timeouts fire, time passes.  No body has to end.
LockFairSpec == LockSpec /\ WF_lockVars(Tick) /\ \A c \in Caller : WF_lockVars(CallStep(c))

-----------------------------------------------------------------------------
(* Properties                                                              *)

LockTypeOK ==
  /\ lost \in Nat
  /\ lock \in Lock \cup {Free}
  /\ step \in [Caller -> LockStep]
  /\ tries \in [Caller -> 0 .. MaxRetries]
  /\ time \in [Caller -> Nat]
  /\ running \in SUBSET Caller

\* Two calls never await their bodies at once, however late the replies are
\* within the margin, and although the key may run out and releases and replies
\* may be lost (withLock: "so the lock is never held past its own TTL").
Exclusive ==
  \A c, d \in Caller : step[c] = "body" /\ step[d] = "body" => c = d

\* While a call awaits its body the key is its own: neither a release nor a
\* retry of another call takes it away, and it does not run out.
BodyHasLock == \A c \in Caller : step[c] = "body" => Owns(c)

\* Every call comes to an answer, though bodies may hang and replies be lost.
EveryoneIsAnswered ==
  \A c \in Caller : <>(step[c] \in {"done", "refused"})
=============================================================================
