---------------------------- MODULE SeatsProofs ----------------------------
(***************************************************************************)
(* Theorems of Seats, for any number of people, bots, handlers under way,  *)
(* games and requests.                                                     *)
(***************************************************************************)
EXTENDS Seats, TLAPS

Step0 == {"idle", "check", "switch", "seat", "undo", "failed", "view", "read", "prune",
          "wipe", "join", "list", "evict"}

\* A handler moves on.
LEMMA JobType ==
  ASSUME TypeOK, NEW j \in JobId, NEW r \in Job, JobOK(r), jobs' = [jobs EXCEPT ![j] = r]
  PROVE  jobs' \in [JobId -> Job] /\ \A i \in JobId : JobOK(jobs'[i])
BY DEF TypeOK

LEMMA IdleType == Idle \in Job /\ JobOK(Idle)
BY CountsAssumption DEF Idle, Handler, Job, JobOK, Glance, Role, SeatRole, Guarded

LEMMA EndType ==
  ASSUME TypeOK, NEW j \in JobId, End(j)
  PROVE  jobs' \in [JobId -> Job] /\ \A i \in JobId : JobOK(jobs'[i])
BY IdleType, JobType DEF End

LEMMA LookType == TypeOK => Look \in Glance
BY DEF TypeOK, Look, Game, Glance

LEMMA PlayerType ==
  ASSUME NEW p \in Player
  PROVE  /\ p.here \in BOOLEAN /\ p.connected \in BOOLEAN
         /\ p.team \in Team \cup {NoTeam} /\ p.role \in Role
         /\ \A t \in Team \cup {NoTeam}, r \in Role, c \in BOOLEAN :
              /\ [p EXCEPT !.team = t, !.role = r] \in Player
              /\ [p EXCEPT !.role = r] \in Player
              /\ [p EXCEPT !.connected = c] \in Player
BY DEF Player

LEMMA AbsentType == Absent \in Player /\ Fresh \in Player /\ Absent.role \notin SeatRole /\ Fresh.role \notin SeatRole
BY DEF Absent, Fresh, Player, Role, SeatRole

\* The records, and that a seat goes with a team.
Records ==
  /\ player \in [Session -> Player]
  /\ \A s \in Session : player[s].role \in SeatRole => player[s].team # NoTeam

LEMMA SwitchType ==
  ASSUME TypeOK, NEW s \in Session, NEW t \in Team \cup {NoTeam}, SwitchTeam(s, t)
  PROVE  /\ Records' /\ teamSet' \in [Team -> SUBSET Session] /\ unlisted' \subseteq Session
         /\ doubled' \subseteq Human /\ reclaimed' \subseteq Human
<1> DEFINE r == IF player[s].team # t /\ player[s].role \in SeatRole THEN "spectator"
                ELSE player[s].role
<1>1. player[s] \in Player /\ r \in Role
  BY PlayerType DEF TypeOK, Role, SeatRole
<1>2. player' = [player EXCEPT ![s] = [player[s] EXCEPT !.team = t, !.role = r]]
  BY DEF SwitchTeam, TypeOK
<1>3. Records'
  <2>1. player' \in [Session -> Player]
    BY <1>1, <1>2, PlayerType DEF TypeOK
  <2>2. player'[s].role = r /\ player'[s].team = t
    BY <1>1, <1>2 DEF TypeOK, Player
  <2>3. r \in SeatRole => t # NoTeam
    BY <1>1 DEF TypeOK, SeatRole
  <2>4. \A u \in Session \ {s} : player'[u] = player[u]
    BY <1>2 DEF TypeOK
  <2>5. QED BY <2>1, <2>2, <2>3, <2>4 DEF TypeOK, Records
<1>4. QED BY <1>3 DEF SwitchTeam, TypeOK, Moves

LEMMA ForgetType ==
  ASSUME TypeOK, NEW s \in Session, Forget(s)
  PROVE  /\ Records' /\ unlisted' \subseteq Session
         /\ doubled' \subseteq Human /\ reclaimed' \subseteq Human
         /\ seen' \subseteq Human /\ leaked' \subseteq Human /\ raced' \subseteq Bot
BY AbsentType DEF Forget, Records, TypeOK, Moves

\* A step that moves on to another one.
LEMMA GoType ==
  ASSUME TypeOK, NEW j \in JobId, NEW step \in Step0, JobOK([jobs[j] EXCEPT !.at = step]),
         Go(j, step)
  PROVE  jobs' \in [JobId -> Job] /\ \A i \in JobId : JobOK(jobs'[i])
<1>1. [jobs[j] EXCEPT !.at = step] \in Job
  BY DEF TypeOK, Job, Step0
<1>2. jobs' = [jobs EXCEPT ![j] = [jobs[j] EXCEPT !.at = step]]
  BY DEF Go, TypeOK
<1>3. QED BY <1>1, <1>2, JobType

\* What is known of a handler at a step.
LEMMA HandlerType ==
  ASSUME TypeOK, NEW j \in JobId
  PROVE  /\ jobs[j] \in Job /\ JobOK(jobs[j])
         /\ jobs[j].team \in Team \cup {NoTeam} /\ jobs[j].old \in Team \cup {NoTeam}
         /\ jobs[j].role \in Role /\ jobs[j].s \in Session \cup {Nobody}
         /\ jobs[j].bot \in Bot \cup {Nobody}
         /\ jobs[j].gone \subseteq Session /\ jobs[j].lost \subseteq Session
         /\ (jobs[j].at \in {"check", "switch", "seat", "undo"} => jobs[j].s \in Human)
BY DEF TypeOK, Job, JobOK

\* A handler that begins.
LEMMA BeginType ==
  ASSUME NEW k \in Guarded \cup {"idle", "approve", "start", "back", "add", "roster"},
         NEW a \in Step0, NEW s \in Session \cup {Nobody}, NEW t \in Team \cup {NoTeam},
         NEW r \in Role, NEW b \in Bot \cup {Nobody}, NEW g \in Glance
  PROVE  /\ Handler(k, a, s, t, r) \in Job
         /\ [Handler(k, a, s, t, r) EXCEPT !.bot = b] \in Job
         /\ [Handler(k, a, s, t, r) EXCEPT !.game = g] \in Job
<1>1. [live |-> FALSE, number |-> 0] \in Glance
  BY CountsAssumption DEF Glance
<1>2. Handler(k, a, s, t, r) \in Job
  BY <1>1 DEF Handler, Job, Step0
<1>3. QED BY <1>2 DEF Job

\* Steps that set one field of a record.
LEMMA ConnectType ==
  ASSUME TypeOK, NEW s \in Session, NEW c \in BOOLEAN, player' = [player EXCEPT ![s].connected = c]
  PROVE  Records'
BY DEF TypeOK, Records, Player

LEMMA RoleType ==
  ASSUME TypeOK, NEW s \in Session, NEW r \in Role, r \in SeatRole => player[s].team # NoTeam,
         player' = [player EXCEPT ![s].role = r]
  PROVE  Records'
BY DEF TypeOK, Records, Player

\* What the caller of getTeamMembers goes on with.
LEMMA ProceedType ==
  ASSUME NEW h \in Job, JobOK(h), h.at \in {"read", "prune", "wipe"}
  PROVE  Proceed(h) \in Job /\ JobOK(Proceed(h))
<1>1. CASE h.kind = "back"
  BY <1>1 DEF Proceed, Job, JobOK, Guarded
<1>2. CASE h.kind = "add" /\ h.bot # Nobody
  BY <1>2 DEF Proceed, Job, JobOK, Guarded
<1>3. CASE ~(h.kind = "back") /\ ~(h.kind = "add" /\ h.bot # Nobody)
  BY <1>3, IdleType DEF Proceed
<1>4. QED BY <1>1, <1>2, <1>3

-----------------------------------------------------------------------------
(* Type correctness                                                        *)

LEMMA InitType == Init => TypeOK
<1>1. Init => Records
  BY AbsentType DEF Init, Records, Session
<1>2. ASSUME Init PROVE jobs \in [JobId -> Job] /\ \A j \in JobId : JobOK(jobs[j])
  BY <1>2, IdleType DEF Init
<1>3. QED BY <1>1, <1>2, CountsAssumption DEF Init, Records, TypeOK, NoGame, Game, Session

LEMMA NextType == TypeOK /\ [Next]_vars => TypeOK'
<1> SUFFICES ASSUME TypeOK, [Next]_vars PROVE TypeOK'
  OBVIOUS
<1>1. ASSUME NEW j \in JobId, NEW s \in Human, NEW kind \in Guarded, NEW t \in
     Team \cup {NoTeam}, NEW r \in Role, StartChange(j, s, kind, t, r) PROVE
     TypeOK'
  <2>1. Handler(kind, "check", s, t, r) \in Job /\ JobOK(Handler(kind, "check", s, t, r))
    BY <1>1, BeginType, LookType, PlayerType
      DEF Handler, JobOK, Guarded, Step0, Role, SeatRole, Session
  <2>2. jobs' \in [JobId -> Job] /\ \A i \in JobId : JobOK(jobs'[i])
    BY <1>1, <2>1, JobType
      DEF StartChange, TypeOK
  <2>3. QED
    BY <1>1, <2>2, CountsAssumption
      DEF StartChange, TypeOK, Asks, history
<1>2. ASSUME NEW j \in JobId, NEW s \in Human, NEW t \in Team, StartApprove(j,
     s, t) PROVE TypeOK'
  <2>1. Handler("approve", "switch", s, t, "clicker") \in Job /\ JobOK(Handler("approve", "switch", s, t, "clicker"))
    BY <1>2, BeginType, LookType, PlayerType
      DEF Handler, JobOK, Guarded, Step0, Role, SeatRole, Session
  <2>2. jobs' \in [JobId -> Job] /\ \A i \in JobId : JobOK(jobs'[i])
    BY <1>2, <2>1, JobType
      DEF StartApprove, TypeOK
  <2>3. QED
    BY <1>2, <2>2, CountsAssumption
      DEF StartApprove, TypeOK, Asks, history
<1>3. ASSUME NEW j \in JobId, NEW t \in Team, StartRoster(j, t) PROVE TypeOK'
  <2>1. Handler("roster", "read", Nobody, t, "spectator") \in Job /\ JobOK(Handler("roster", "read", Nobody, t, "spectator"))
    BY <1>3, BeginType, LookType, PlayerType
      DEF Handler, JobOK, Guarded, Step0, Role, SeatRole
  <2>2. jobs' \in [JobId -> Job] /\ \A i \in JobId : JobOK(jobs'[i])
    BY <1>3, <2>1, JobType
      DEF StartRoster, TypeOK
  <2>3. QED
    BY <1>3, <2>2, CountsAssumption
      DEF StartRoster, TypeOK, Asks, history
<1>4. ASSUME NEW j \in JobId, NEW b \in Bot, NEW t \in Team, NEW r \in Role,
     StartAdd(j, b, t, r) PROVE TypeOK'
  <2>1. [Handler("add", "read", Nobody, t, r) EXCEPT !.bot = b] \in Job /\ JobOK([Handler("add", "read", Nobody, t, r) EXCEPT !.bot = b])
    BY ZenonT(40), <1>4, BeginType, LookType, PlayerType
      DEF Handler, JobOK, Guarded, Step0, Role, SeatRole
  <2>2. jobs' \in [JobId -> Job] /\ \A i \in JobId : JobOK(jobs'[i])
    BY <1>4, <2>1, JobType
      DEF StartAdd, TypeOK
  <2>3. QED
    BY <1>4, <2>2, CountsAssumption
      DEF StartAdd, TypeOK, Asks, history
<1>5. ASSUME NEW j \in JobId, StartGame(j) PROVE TypeOK'
  <2>1. game' \in Game /\ Look' \in Glance
    BY <1>5, CountsAssumption
      DEF StartGame, TypeOK, Game, Look, Glance
  <2>2. LET h == [Handler("start", "view", Nobody, NoTeam, "spectator") EXCEPT !.game = Look']
       IN  h \in Job /\ JobOK(h)
    BY <2>1, BeginType
      DEF Handler, JobOK, Guarded, Step0, Role, SeatRole
  <2>3. jobs' \in [JobId -> Job] /\ \A i \in JobId : JobOK(jobs'[i])
    BY <1>5, <2>2, JobType
      DEF StartGame
  <2>4. QED
    BY <1>5, <2>1, <2>3
      DEF StartGame, TypeOK
<1>6. ASSUME NEW j \in JobId, NEW s \in Human, Reconnect(j, s) PROVE TypeOK'
  <2>1. player[s].team \in Team \cup {NoTeam} /\ player[s].role \in Role /\ s \in Session
    BY PlayerType
      DEF TypeOK, Session
  <2>2. Handler("back", "read", s, player[s].team, player[s].role) \in Job
    BY <2>1, BeginType, LookType
      DEF Step0
  <2>3. JobOK(Handler("back", "read", s, player[s].team, player[s].role))
    BY DEF Handler, JobOK, Guarded
  <2>4. jobs' \in [JobId -> Job] /\ \A i \in JobId : JobOK(jobs'[i])
    BY <1>6, <2>2, <2>3, JobType
      DEF Reconnect
  <2>5. Records'
    BY <1>6, <2>1, ConnectType
      DEF Reconnect, ComesBack
  <2>6. QED
    BY <1>6, <2>4, <2>5, CountsAssumption
      DEF Reconnect, ComesBack, TypeOK, Records, Asks
<1>7. ASSUME NEW j \in JobId, Check(j) PROVE TypeOK'
  <2>1. jobs[j] \in Job /\ JobOK(jobs[j]) /\ jobs[j].s \in Human /\ jobs[j].kind \in Guarded \cup {"approve"}
    BY <1>7, HandlerType
      DEF Check, At, JobOK
  <2>2. ASSUME NEW a \in {"switch", "seat"}, NEW o \in Team \cup {NoTeam}, NEW g \in Glance
      PROVE  LET h == [jobs[j] EXCEPT !.game = g, !.old = o, !.at = a]
             IN  h \in Job /\ JobOK(h)
    <3> DEFINE h == [jobs[j] EXCEPT !.game = g, !.old = o, !.at = a]
    <3>1. h \in Job
      BY <2>1 DEF Job
    <3>2. /\ h.at = a /\ h.kind = jobs[j].kind /\ h.s = jobs[j].s /\ h.role = jobs[j].role
          /\ h.team = jobs[j].team
      BY <2>1 DEF Job
    <3>3. JobOK(h)
      BY <2>1, <3>2 DEF JobOK, Guarded
    <3>4. QED BY <3>1, <3>3
  <2>3. player[jobs[j].s].team \in Team \cup {NoTeam} /\ Look \in Glance
    BY <2>1, PlayerType, LookType
      DEF TypeOK, Session
  <2>4. jobs' \in [JobId -> Job] /\ \A i \in JobId : JobOK(jobs'[i])
    <3>1. CASE End(j)
      BY <3>1, EndType
    <3>2. CASE ~End(j)
      <4>1. PICK a \in {"switch", "seat"} :
              jobs' = [jobs EXCEPT ![j].game = Look, ![j].old = player[jobs[j].s].team, ![j].at = a]
        BY <1>7, <3>2 DEF Check
      <4>2. jobs' = [jobs EXCEPT ![j] =
                       [jobs[j] EXCEPT !.game = Look, !.old = player[jobs[j].s].team, !.at = a]]
        BY <4>1 DEF TypeOK
      <4>3. QED BY <4>2, <2>2, <2>3, JobType
    <3>3. QED BY <3>1, <3>2
  <2>5. QED
    BY <1>7, <2>4
      DEF Check, TypeOK, history
<1>8. ASSUME NEW j \in JobId, Switch(j) PROVE TypeOK'
  <2>1. jobs[j] \in Job /\ JobOK(jobs[j]) /\ jobs[j].s \in Human /\ jobs[j].s \in Session
    BY <1>8, HandlerType
      DEF Switch, At, Session
  <2>2. jobs[j].kind # "team" => JobOK([jobs[j] EXCEPT !.at = "seat"])
    BY <1>8, <2>1
      DEF Switch, At, Job, JobOK
  <2>3. jobs' \in [JobId -> Job] /\ \A i \in JobId : JobOK(jobs'[i])
    BY <1>8, <2>2, GoType, EndType
      DEF Switch, Step0
  <2>4. /\ Records' /\ teamSet' \in [Team -> SUBSET Session] /\ unlisted' \subseteq Session
      /\ doubled' \subseteq Human /\ reclaimed' \subseteq Human
    BY <1>8, <2>1, SwitchType, HandlerType
      DEF Switch, TypeOK, Records
  <2>5. QED
    BY <1>8, <2>1, <2>3, <2>4
      DEF Switch, TypeOK, Records, Leaks
<1>9. ASSUME NEW j \in JobId, Seat(j) PROVE TypeOK'
  <2>1. jobs[j] \in Job /\ JobOK(jobs[j]) /\ jobs[j].s \in Human /\ jobs[j].s \in Session /\ jobs[j].role \in Role
    BY <1>9, HandlerType
      DEF Seat, At, Session
  <2>2. ASSUME NEW a \in {"undo", "view"}, jobs[j].kind \in Guarded \/ a = "undo"
      PROVE  JobOK([jobs[j] EXCEPT !.at = a])
    BY <1>9, <2>1, <2>2
      DEF Seat, At, Job, JobOK
  <2>3. jobs[j].kind \in Guarded \cup {"approve"}
    BY <1>9, <2>1
      DEF Seat, At, JobOK
  <2>4. jobs' \in [JobId -> Job] /\ \A i \in JobId : JobOK(jobs'[i])
    BY <1>9, <2>2, <2>3, GoType, EndType
      DEF Seat, Step0, Guarded
  <2>5. Records'
    BY <1>9, <2>1, RoleType
      DEF Seat, Refused, TypeOK, Records
  <2>6. QED
    BY <1>9, <2>1, <2>4, <2>5
      DEF Seat, TypeOK, Records, Leaks, Moves
<1>10. ASSUME NEW j \in JobId, Undo(j) PROVE TypeOK'
  <2>1. jobs[j] \in Job /\ JobOK(jobs[j]) /\ jobs[j].s \in Human /\ jobs[j].s \in Session /\ jobs[j].old \in Team \cup {NoTeam}
    BY <1>10, HandlerType
      DEF Undo, At, Session
  <2>2. /\ Records' /\ teamSet' \in [Team -> SUBSET Session] /\ unlisted' \subseteq Session
      /\ doubled' \subseteq Human /\ reclaimed' \subseteq Human
    BY <1>10, <2>1, SwitchType
      DEF Undo, TypeOK, Records
  <2>3. jobs' \in [JobId -> Job] /\ \A i \in JobId : JobOK(jobs'[i])
    BY <1>10, EndType
      DEF Undo
  <2>4. QED
    BY <1>10, <2>1, <2>2, <2>3
      DEF Undo, TypeOK, Records, Leaks
<1>11. ASSUME NEW j \in JobId, View(j) PROVE TypeOK'
  <2>1. jobs[j].s \in Human
    BY <1>11, HandlerType
      DEF View, At, JobOK
  <2>2. jobs' \in [JobId -> Job] /\ \A i \in JobId : JobOK(jobs'[i])
    BY <1>11, EndType
      DEF View
  <2>3. QED
    BY <1>11, <2>1, <2>2
      DEF View, TypeOK
<1>12. ASSUME NEW j \in JobId, SendViews(j) PROVE TypeOK'
  <2>1. jobs' \in [JobId -> Job] /\ \A i \in JobId : JobOK(jobs'[i])
    BY <1>12, EndType
      DEF SendViews
  <2>2. QED
    BY <1>12, <2>1
      DEF SendViews, TypeOK
<1>13. CASE EndTurn
  BY <1>13
    DEF EndTurn, TypeOK, Game, history
<1>14. CASE EndGame
  BY <1>14
    DEF EndGame, TypeOK, Game
<1>15. ASSUME NEW s \in Human, Drop(s) PROVE TypeOK'
  <2>1. Records'
    BY <1>15, ConnectType
      DEF Drop, Session
  <2>2. QED
    BY <1>15, <2>1
      DEF Drop, TypeOK, Records, Moves
<1>16. ASSUME NEW s \in Human, Rejoin(s) PROVE TypeOK'
  <2>1. Records'
    BY <1>16, ConnectType
      DEF Rejoin, ComesBack, Session
  <2>2. QED
    BY <1>16, <2>1, CountsAssumption
      DEF Rejoin, ComesBack, TypeOK, Records, Asks
<1>17. ASSUME NEW s \in Session, Remove(s) PROVE TypeOK'
  BY <1>17, ForgetType
    DEF Remove, TypeOK, Records
<1>18. ASSUME NEW s \in Human, Lapse(s) PROVE TypeOK'
  BY <1>18, ForgetType
    DEF Lapse, TypeOK, Records, Session
<1>19. ASSUME NEW s \in Human, Join(s) PROVE TypeOK'
  <2>1. Records'
    BY <1>19, AbsentType
      DEF Join, TypeOK, Records, Session
  <2>2. QED
    BY <1>19, <2>1, CountsAssumption
      DEF Join, TypeOK, Records, Asks, history
<1>20. ASSUME NEW j \in JobId, Read(j) PROVE TypeOK'
  <2>1. jobs[j] \in Job /\ JobOK(jobs[j]) /\ jobs[j].team \in Team \cup {NoTeam}
    BY <1>20, HandlerType
  <2>2. \A b \in IF BotsFor(jobs[j]) = {} THEN {Nobody} ELSE BotsFor(jobs[j]) : b \in Bot \cup {Nobody}
    BY <2>1
      DEF BotsFor, Job
  <2>3. ASSUME NEW b \in Bot \cup {Nobody}, NEW g \in SUBSET Session, NEW l \in SUBSET Session
      PROVE  LET h == [jobs[j] EXCEPT !.bot = b, !.gone = g, !.lost = l]
             IN  /\ h \in Job /\ JobOK(h) /\ h.at = "read" /\ h.team = jobs[j].team
                 /\ Proceed(h) \in Job /\ JobOK(Proceed(h))
                 /\ [h EXCEPT !.at = "prune"] \in Job
                 /\ jobs[j].team \in Team => JobOK([h EXCEPT !.at = "prune"])
    <3> DEFINE h == [jobs[j] EXCEPT !.bot = b, !.gone = g, !.lost = l]
    <3>1. h \in Job /\ JobOK(h) /\ h.at = "read" /\ h.team = jobs[j].team
      <4>1. /\ h \in Job /\ h.at = "read" /\ h.team = jobs[j].team
            /\ h.kind = jobs[j].kind /\ h.s = jobs[j].s /\ h.role = jobs[j].role
        BY <1>20, <2>1 DEF Read, At, Job
      <4>2. QED BY <4>1, <2>1 DEF JobOK
    <3>2. Proceed(h) \in Job /\ JobOK(Proceed(h))
      BY <3>1, ProceedType
    <3>3. [h EXCEPT !.at = "prune"] \in Job
      BY <3>1 DEF Job
    <3>4. ASSUME jobs[j].team \in Team PROVE JobOK([h EXCEPT !.at = "prune"])
      BY <3>1, <3>4 DEF Job, JobOK
    <3>5. QED BY <3>1, <3>2, <3>3, <3>4
  <2>4. PICK b \in Bot \cup {Nobody}, g \in SUBSET Session, l \in SUBSET Session, r \in Job :
        /\ jobs' = [jobs EXCEPT ![j] = r] /\ JobOK(r)
    <3> DEFINE list == IF jobs[j].team = NoTeam THEN {} ELSE teamSet[jobs[j].team]
    <3> DEFINE g0 == {m \in list : ~player[m].here}
    <3> DEFINE l0 == {m \in list : player[m].here /\ player[m].team # jobs[j].team}
    <3>1. PICK b0 \in IF BotsFor(jobs[j]) = {} THEN {Nobody} ELSE BotsFor(jobs[j]) :
            LET found == [jobs[j] EXCEPT !.bot = b0, !.gone = g0, !.lost = l0] IN
            jobs' = [jobs EXCEPT ![j] = IF g0 \cup l0 # {} THEN [found EXCEPT !.at = "prune"]
                                                           ELSE Proceed(found)]
      BY <1>20 DEF Read
    <3>2. b0 \in Bot \cup {Nobody}
      BY <2>2
    <3>3. g0 \in SUBSET Session /\ l0 \in SUBSET Session /\ (g0 \cup l0 # {} => jobs[j].team \in Team)
      BY <2>1 DEF TypeOK
    <3> HIDE DEF g0, l0
    <3>4. QED BY <3>1, <3>2, <3>3, <2>3
  <2>5. jobs' \in [JobId -> Job] /\ \A i \in JobId : JobOK(jobs'[i])
    BY <2>4, JobType
  <2>6. raced' \subseteq Bot
    BY <1>20
      DEF Read, TypeOK
  <2>7. QED
    BY <1>20, <2>5, <2>6
      DEF Read, TypeOK
<1>21. ASSUME NEW j \in JobId, Prune(j) PROVE TypeOK'
  <2>1. jobs[j] \in Job /\ JobOK(jobs[j]) /\ jobs[j].team \in Team /\ jobs[j].at = "prune"
    BY <1>21, HandlerType
      DEF Prune, At, JobOK
  <2>2. [jobs[j] EXCEPT !.at = "wipe"] \in Job /\ JobOK([jobs[j] EXCEPT !.at = "wipe"])
    BY <2>1
      DEF Job, JobOK
  <2>3. Proceed(jobs[j]) \in Job /\ JobOK(Proceed(jobs[j]))
    BY <2>1, ProceedType
  <2>4. jobs' \in [JobId -> Job] /\ \A i \in JobId : JobOK(jobs'[i])
    BY <1>21, <2>2, <2>3, JobType
      DEF Prune, TypeOK
  <2>5. Records'
    BY <1>21, AbsentType
      DEF Prune, TypeOK, Records
  <2>6. teamSet' \in [Team -> SUBSET Session]
    BY <1>21, <2>1
      DEF Prune, TypeOK
  <2>7. unlisted' \subseteq Session
    BY <1>21, <2>1, HandlerType
      DEF Prune, TypeOK
  <2>8. QED
    BY <1>21, <2>4, <2>5, <2>6, <2>7
      DEF Prune, TypeOK, Records
<1>22. ASSUME NEW j \in JobId, Wipe(j) PROVE TypeOK'
  <2>1. jobs[j] \in Job /\ JobOK(jobs[j]) /\ jobs[j].team \in Team /\ jobs[j].at = "wipe"
    BY <1>22, HandlerType
      DEF Wipe, At, JobOK
  <2>2. Proceed(jobs[j]) \in Job /\ JobOK(Proceed(jobs[j]))
    BY <2>1, ProceedType
  <2>3. jobs' \in [JobId -> Job] /\ \A i \in JobId : JobOK(jobs'[i])
    BY <1>22, <2>2, JobType
      DEF Wipe
  <2>4. QED
    BY <1>22, <2>1, <2>3
      DEF Wipe, TypeOK, Members
<1>23. ASSUME NEW j \in JobId, JoinBot(j) PROVE TypeOK'
  <2>1. jobs[j] \in Job /\ JobOK(jobs[j]) /\ jobs[j].team \in Team /\ jobs[j].bot \in Bot /\ jobs[j].role \in Role
    BY <1>23, HandlerType
      DEF JoinBot, At, JobOK
  <2>2. JobOK([jobs[j] EXCEPT !.at = "list"])
    BY <1>23, <2>1
      DEF JoinBot, At, Job, JobOK
  <2>3. jobs' \in [JobId -> Job] /\ \A i \in JobId : JobOK(jobs'[i])
    BY <1>23, <2>2, GoType
      DEF JoinBot, Step0
  <2>4. Records'
    BY <1>23, <2>1, TeamsAssumption
      DEF JoinBot, TypeOK, Records, Player, Session
  <2>5. QED
    BY <1>23, <2>1, <2>3, <2>4
      DEF JoinBot, TypeOK, Records
<1>24. ASSUME NEW j \in JobId, ListBot(j) \/ ListFails(j) PROVE TypeOK'
  <2>1. jobs[j].team \in Team /\ jobs[j].bot \in Bot /\ jobs[j].bot \in Session
    BY <1>24, HandlerType
      DEF ListBot, ListFails, At, JobOK, Session
  <2>2. jobs' \in [JobId -> Job] /\ \A i \in JobId : JobOK(jobs'[i])
    BY <1>24, EndType
      DEF ListBot, ListFails
  <2>3. teamSet' \in [Team -> SUBSET Session] /\ UNCHANGED <<game, asked>>
    BY <1>24, <2>1
      DEF ListBot, ListFails, TypeOK
  <2>4. CASE Forget(jobs[j].bot)
    BY <2>1, <2>2, <2>3, <2>4, ForgetType
      DEF TypeOK, Records
  <2>5. CASE ~Forget(jobs[j].bot)
    <3>1. /\ UNCHANGED <<player, seen, leaked, doubled, raced, reclaimed>>
          /\ unlisted' \subseteq unlisted \cup {jobs[j].bot}
      BY <1>24, <2>5
        DEF ListBot, ListFails, history
    <3>2. QED
      BY <2>1, <2>2, <2>3, <3>1
        DEF TypeOK
  <2>6. QED
    BY <2>4, <2>5
<1>25. ASSUME NEW j \in JobId, Evict(j) PROVE TypeOK'
  <2>1. jobs[j].s \in Human /\ jobs[j].bot \in Bot \cup {Nobody}
    BY <1>25, HandlerType
      DEF Evict, At, JobOK
  <2>2. jobs' \in [JobId -> Job] /\ \A i \in JobId : JobOK(jobs'[i])
    BY <1>25, EndType
      DEF Evict
  <2>3. Records'
    BY <1>25, AbsentType
      DEF Evict, TypeOK, Records
  <2>4. teamSet' \in [Team -> SUBSET Session]
    BY <1>25
      DEF Evict, TypeOK
  <2>5. QED
    BY <1>25, <2>1, <2>2, <2>3, <2>4
      DEF Evict, TypeOK, Records
<1>26. ASSUME NEW j \in JobId, UndoFails(j) PROVE TypeOK'
  <2>1. jobs[j] \in Job /\ JobOK([jobs[j] EXCEPT !.at = "failed"])
    BY <1>26, HandlerType
      DEF UndoFails, At, Job, JobOK
  <2>2. jobs' \in [JobId -> Job] /\ \A i \in JobId : JobOK(jobs'[i])
    BY <1>26, <2>1, GoType
      DEF UndoFails, Step0
  <2>3. QED
    BY <1>26, <2>2
      DEF UndoFails, TypeOK, history
<1>27. ASSUME NEW j \in JobId, AnswerError(j) PROVE TypeOK'
  BY <1>27, EndType
    DEF AnswerError, TypeOK, history
<1>28. CASE UNCHANGED vars
  BY <1>28 DEF vars, history, TypeOK
<1>29. QED
  BY <1>1, <1>2, <1>3, <1>4, <1>5, <1>6, <1>7, <1>8, <1>9, <1>10, <1>11,
     <1>12, <1>13, <1>14, <1>15, <1>16, <1>17, <1>18, <1>19, <1>20, <1>21,
     <1>22, <1>23, <1>24, <1>25, <1>26, <1>27, <1>28, RolesAssumption
  DEF Next, Step, Change, Guarded, Role, SeatRole

\* Types, and that seats go with teams, for every instance.
THEOREM TypeIsRight == Spec => []TypeOK
<1>1. TypeOK /\ [Next]_vars => TypeOK' BY NextType
<1>2. QED BY <1>1, InitType, PTL DEF Spec

-----------------------------------------------------------------------------
(* One holder per seat: who takes a seat does so while nobody connected has  *)
(* it, or is written down as doubled or raced.                               *)

\* Nobody takes a seat, and who is excused stays so while it has its seat.
LEMMA SeatsKept ==
  ASSUME TypeOK, OneHolder,
         \A s \in Session :
           (player'[s].here /\ player'[s].connected /\ player'[s].role \in SeatRole)
             => /\ player[s].here /\ player[s].connected
                /\ player'[s].team = player[s].team /\ player'[s].role = player[s].role
                /\ (s \in doubled => s \in doubled') /\ (s \in raced => s \in raced')
  PROVE  OneHolder'
BY DEF OneHolder, Up, SameSeat

\* One session takes a seat that is free, or is excused.
LEMMA SeatTaken ==
  ASSUME TypeOK, OneHolder, NEW s \in Session,
         \A u \in Session \ {s} :
           /\ player'[u] = player[u]
           /\ (u \in doubled => u \in doubled') /\ (u \in raced => u \in raced'),
         \/ s \in doubled' \cup raced'
         \/ player'[s].role \notin SeatRole
         \/ Holders(player'[s].team, player'[s].role) \ {s} = {}
  PROVE  OneHolder'
BY DEF OneHolder, Up, SameSeat, Holders

LEMMA SwitchKeeps ==
  ASSUME TypeOK, OneHolder, NEW s \in Session, NEW t, SwitchTeam(s, t), UNCHANGED raced
  PROVE  OneHolder'
<1>1. \A u \in Session \ {s} : player'[u] = player[u] /\ (u \in doubled => u \in doubled')
  BY DEF SwitchTeam, TypeOK, Moves
<1>2. /\ player'[s].here = player[s].here /\ player'[s].connected = player[s].connected
      /\ player'[s].team = t
      /\ player'[s].role = IF player[s].team # t /\ player[s].role \in SeatRole
                             THEN "spectator" ELSE player[s].role
  BY DEF SwitchTeam, TypeOK, Player
<1>3. player'[s].role \in SeatRole => player[s].team = t /\ player'[s].role = player[s].role
  BY <1>2 DEF SeatRole
<1>4. player'[s].role \in SeatRole => (s \in doubled => s \in doubled')
  BY <1>2, <1>3 DEF SwitchTeam
<1>5. QED BY <1>1, <1>2, <1>3, <1>4, SeatsKept

LEMMA ForgetKeeps ==
  ASSUME TypeOK, OneHolder, NEW s \in Session, Forget(s)
  PROVE  OneHolder'
BY SeatsKept DEF Forget, Absent, Moves, TypeOK

LEMMA ReturnKeeps ==
  ASSUME TypeOK, OneHolder, NEW s \in Session, ComesBack(s), ~player[s].connected, UNCHANGED raced
  PROVE  OneHolder'
<1>1. \A u \in Session \ {s} : player'[u] = player[u] /\ (u \in doubled => u \in doubled')
  BY DEF ComesBack
<1>2. player'[s].role = player[s].role /\ player'[s].team = player[s].team
  BY DEF ComesBack, TypeOK, Player
<1>3. CASE player[s].role \in SeatRole /\ Holders(player[s].team, player[s].role) # {}
  BY <1>1, <1>3, SeatTaken DEF ComesBack
<1>4. CASE ~(player[s].role \in SeatRole /\ Holders(player[s].team, player[s].role) # {})
  BY <1>1, <1>2, <1>4, SeatTaken
<1>5. QED BY <1>3, <1>4

LEMMA SeatsUntouched ==
  ASSUME TypeOK, OneHolder, UNCHANGED <<player, doubled, raced>>
  PROVE  OneHolder'
BY SeatsKept

LEMMA HolderStep == TypeOK /\ OneHolder /\ [Next]_vars => OneHolder'
<1> SUFFICES ASSUME TypeOK, OneHolder, [Next]_vars PROVE OneHolder'
  OBVIOUS
<1>1. ASSUME NEW j \in JobId, NEW s \in Human, NEW kind \in Guarded, NEW t \in
     Team \cup {NoTeam}, NEW r \in Role, StartChange(j, s, kind, t, r) PROVE
     OneHolder'
  BY <1>1, SeatsUntouched DEF StartChange, history
<1>2. ASSUME NEW j \in JobId, NEW s \in Human, NEW t \in Team, StartApprove(j,
     s, t) PROVE OneHolder'
  BY <1>2, SeatsUntouched DEF StartApprove, history
<1>3. ASSUME NEW j \in JobId, NEW t \in Team, StartRoster(j, t) PROVE
     OneHolder'
  BY <1>3, SeatsUntouched DEF StartRoster, history
<1>4. ASSUME NEW j \in JobId, NEW b \in Bot, NEW t \in Team, NEW r \in Role,
     StartAdd(j, b, t, r) PROVE OneHolder'
  BY <1>4, SeatsUntouched DEF StartAdd, history
<1>5. ASSUME NEW j \in JobId, StartGame(j) PROVE OneHolder'
  BY <1>5, SeatsUntouched DEF StartGame, history
<1>6. ASSUME NEW j \in JobId, NEW s \in Human, Reconnect(j, s) PROVE
     OneHolder'
  BY <1>6, ReturnKeeps DEF Reconnect, Session
<1>7. ASSUME NEW j \in JobId, Check(j) PROVE OneHolder'
  BY <1>7, SeatsUntouched DEF Check, history
<1>8. ASSUME NEW j \in JobId, Switch(j) PROVE OneHolder'
  <2>1. jobs[j].s \in Session
    BY <1>8, HandlerType DEF Switch, At, Session
  <2>2. QED BY <1>8, <2>1, SwitchKeeps, SeatsUntouched DEF Switch
<1>9. ASSUME NEW j \in JobId, Seat(j) PROVE OneHolder'
  <2>1. jobs[j].s \in Session /\ jobs[j].role \in Role
    BY <1>9, HandlerType DEF Seat, At, Session
  <2>2. CASE ~player[jobs[j].s].here \/ Refused(jobs[j].s, jobs[j].role)
    BY <1>9, <2>2, SeatsUntouched DEF Seat
  <2>3. CASE ~(~player[jobs[j].s].here \/ Refused(jobs[j].s, jobs[j].role))
    <3>1. player' = [player EXCEPT ![jobs[j].s].role = jobs[j].role] /\ Moves(jobs[j].s)
          /\ UNCHANGED raced
      BY <1>9, <2>3 DEF Seat
    <3>2. /\ player'[jobs[j].s].role = jobs[j].role
          /\ player'[jobs[j].s].team = player[jobs[j].s].team
      BY <2>1, <3>1 DEF TypeOK, Player
    <3>3. QED BY <2>1, <2>3, <3>1, <3>2, SeatTaken DEF Refused, Moves
  <2>4. QED BY <2>2, <2>3
<1>10. ASSUME NEW j \in JobId, Undo(j) PROVE OneHolder'
  <2>1. jobs[j].s \in Session
    BY <1>10, HandlerType DEF Undo, At, Session
  <2>2. QED BY <1>10, <2>1, SwitchKeeps, SeatsUntouched DEF Undo
<1>11. ASSUME NEW j \in JobId, View(j) PROVE OneHolder'
  BY <1>11, SeatsUntouched DEF View, history
<1>12. ASSUME NEW j \in JobId, SendViews(j) PROVE OneHolder'
  BY <1>12, SeatsUntouched DEF SendViews, history
<1>13. CASE EndTurn
  BY <1>13, SeatsUntouched DEF EndTurn, history
<1>14. CASE EndGame
  BY <1>14, SeatsUntouched DEF EndGame, history
<1>15. ASSUME NEW s \in Human, Drop(s) PROVE OneHolder'
  BY <1>15, SeatsKept DEF Drop, Moves, TypeOK, Player, Session
<1>16. ASSUME NEW s \in Human, Rejoin(s) PROVE OneHolder'
  BY <1>16, ReturnKeeps DEF Rejoin, Session
<1>17. ASSUME NEW s \in Session, Remove(s) PROVE OneHolder'
  BY <1>17, ForgetKeeps DEF Remove
<1>18. ASSUME NEW s \in Human, Lapse(s) PROVE OneHolder'
  BY <1>18, ForgetKeeps DEF Lapse, Session
<1>19. ASSUME NEW s \in Human, Join(s) PROVE OneHolder'
  BY <1>19, SeatsKept DEF Join, Fresh, Absent, SeatRole, TypeOK, history
<1>20. ASSUME NEW j \in JobId, Read(j) PROVE OneHolder'
  <2>1. UNCHANGED <<player, doubled>> /\ raced \subseteq raced'
    BY <1>20 DEF Read
  <2>2. QED BY <2>1, SeatsKept
<1>21. ASSUME NEW j \in JobId, Prune(j) PROVE OneHolder'
  <2>1. \A s \in Session : player'[s] = IF s \in jobs[j].gone THEN Absent ELSE player[s]
    BY <1>21 DEF Prune
  <2>2. \A s \in Session : player'[s].here =>
          /\ player'[s] = player[s]
          /\ (s \in doubled => s \in doubled') /\ (s \in raced => s \in raced')
    <3>1. /\ doubled' = doubled \ jobs[j].gone /\ raced' = raced \ jobs[j].gone
          /\ ~Absent.here
      BY <1>21 DEF Prune, Absent
    <3>2. QED BY <2>1, <3>1
  <2>3. QED BY <2>2, SeatsKept
<1>22. ASSUME NEW j \in JobId, Wipe(j) PROVE OneHolder'
  BY <1>22, SeatsUntouched DEF Wipe, history
<1>23. ASSUME NEW j \in JobId, JoinBot(j) PROVE OneHolder'
  <2>1. jobs[j].bot \in Bot /\ jobs[j].bot \in Session
    BY <1>23, HandlerType DEF JoinBot, At, JobOK, Session
  <2>2. CASE Holders(jobs[j].team, jobs[j].role) # {}
    BY <1>23, <2>1, <2>2, SeatTaken DEF JoinBot
  <2>3. CASE Holders(jobs[j].team, jobs[j].role) = {}
    BY <1>23, <2>1, <2>3, SeatTaken DEF JoinBot, TypeOK
  <2>4. QED BY <2>2, <2>3
<1>24. ASSUME NEW j \in JobId, ListBot(j) \/ ListFails(j) PROVE OneHolder'
  <2>1. jobs[j].bot \in Session
    BY <1>24, HandlerType DEF ListBot, ListFails, At, JobOK, Session
  <2>2. Forget(jobs[j].bot) \/ UNCHANGED <<player, doubled, raced>>
    BY <1>24 DEF ListBot, ListFails, history
  <2>3. QED BY <2>1, <2>2, ForgetKeeps, SeatsUntouched
<1>25. ASSUME NEW j \in JobId, Evict(j) PROVE OneHolder'
  <2>1. \A s \in Session : player'[s].here =>
          /\ player'[s] = player[s]
          /\ (s \in doubled => s \in doubled') /\ (s \in raced => s \in raced')
    BY <1>25 DEF Evict, Absent, TypeOK
  <2>2. QED BY <2>1, SeatsKept
<1>26. ASSUME NEW j \in JobId, UndoFails(j) \/ AnswerError(j) PROVE OneHolder'
  BY <1>26, SeatsUntouched DEF UndoFails, AnswerError, history
<1>27. CASE UNCHANGED vars
  BY <1>27, SeatsUntouched DEF vars, history
<1>28. QED
  BY <1>1, <1>2, <1>3, <1>4, <1>5, <1>6, <1>7, <1>8, <1>9, <1>10, <1>11,
     <1>12, <1>13, <1>14, <1>15, <1>16, <1>17, <1>18, <1>19, <1>20, <1>21,
     <1>22, <1>23, <1>24, <1>25, <1>26, <1>27, RolesAssumption
  DEF Next, Step, Change, Guarded, Role, SeatRole

\* One connected holder per seat, but for the returns and bots that raced.
THEOREM OneHolderPerSeat == Spec => []OneHolder
<1>1. Init => OneHolder
  <2> SUFFICES ASSUME Init, NEW a \in Session, NEW b \in Session, a # b, Up(a), Up(b),
                      SameSeat(a, b)
               PROVE  FALSE
    BY DEF OneHolder
  <2>1. a \in Human /\ b \in Human
    BY DEF Init, Up, Session, Absent
  <2>2. player[a] = player[b] /\ player[a].role \in SeatRole
    BY <2>1 DEF Init, Up, SameSeat, Session, Player
  <2>3. QED BY <2>1, <2>2 DEF Init
<1>2. TypeOK /\ OneHolder /\ [Next]_vars => OneHolder'
  BY HolderStep
<1>3. QED BY <1>1, <1>2, TypeIsRight, PTL DEF Spec

-----------------------------------------------------------------------------
(* The board stays secret.  A guarded handler between its check and its last *)
(* write works for a player whose role has not seen the board, as long as    *)
(* the game it looked at is still the one that is played.                    *)

\* The player-mutation lock.
Alone ==
  \A i, k \in JobId :
    i # k /\ jobs[i].kind \in Guarded /\ jobs[k].kind \in Guarded => jobs[i].s # jobs[k].s

\* Handlers that may take a role from who has it.
Risky(job) ==
  \/ job.at \in {"switch", "undo"}
  \/ /\ job.at = "seat"
     /\ job.role \notin Seeing \/ (job.kind = "both" /\ job.old \notin {NoTeam, job.team})

Blind ==
  \A j \in JobId :
    jobs[j].kind \in Guarded /\ Risky(jobs[j]) /\ game.live /\ jobs[j].game = Look
      => player[jobs[j].s].role \notin Seeing

Older  == \A j \in JobId : jobs[j].game.number <= game.number
Gone   == \A s \in Session : ~player[s].here => player[s].role = "spectator"
Secret == game.live => \A s \in seen \ leaked : player[s].role \in Seeing

\* A step of a handler leaves the others alone, and whom it is for.
MovesOn(j) ==
  /\ \A i \in JobId \ {j} : jobs'[i] = jobs[i]
  /\ \/ jobs'[j] = Idle
     \/ /\ jobs'[j].kind = jobs[j].kind /\ jobs'[j].s = jobs[j].s
        /\ jobs'[j].game = jobs[j].game

LEMMA EndMoves ==
  ASSUME TypeOK, NEW j \in JobId, End(j)
  PROVE  MovesOn(j) /\ jobs'[j] = Idle
BY DEF TypeOK, End, MovesOn

LEMMA GoMoves ==
  ASSUME TypeOK, NEW j \in JobId, NEW step, Go(j, step)
  PROVE  /\ MovesOn(j) /\ jobs'[j].at = step /\ jobs'[j].role = jobs[j].role
         /\ jobs'[j].old = jobs[j].old /\ jobs'[j].team = jobs[j].team
BY DEF TypeOK, Go, MovesOn, Job

LEMMA IdleFacts == Idle.kind \notin Guarded /\ Idle.game.number = 0
BY DEF Idle, Handler, Guarded

LEMMA ProceedMoves ==
  ASSUME NEW h \in Job
  PROVE  \/ Proceed(h) = Idle
         \/ /\ Proceed(h).kind = h.kind /\ Proceed(h).s = h.s /\ Proceed(h).game = h.game
            /\ h.kind \in {"back", "add"}
BY DEF Proceed, Job

LEMMA ReadMoves ==
  ASSUME TypeOK, NEW j \in JobId, Read(j)
  PROVE  MovesOn(j)
<1> DEFINE list == IF jobs[j].team = NoTeam THEN {} ELSE teamSet[jobs[j].team]
<1> DEFINE g0 == {m \in list : ~player[m].here}
<1> DEFINE l0 == {m \in list : player[m].here /\ player[m].team # jobs[j].team}
<1>1. PICK b \in IF BotsFor(jobs[j]) = {} THEN {Nobody} ELSE BotsFor(jobs[j]) :
        LET found == [jobs[j] EXCEPT !.bot = b, !.gone = g0, !.lost = l0] IN
        jobs' = [jobs EXCEPT ![j] = IF g0 \cup l0 # {} THEN [found EXCEPT !.at = "prune"]
                                                       ELSE Proceed(found)]
  BY DEF Read
<1> DEFINE found == [jobs[j] EXCEPT !.bot = b, !.gone = g0, !.lost = l0]
<1>2. jobs[j] \in Job /\ b \in Bot \cup {Nobody} /\ g0 \in SUBSET Session /\ l0 \in SUBSET Session
  BY HandlerType DEF BotsFor, TypeOK, Job
<1> HIDE DEF g0, l0
<1>3. /\ found \in Job /\ found.kind = jobs[j].kind /\ found.s = jobs[j].s
      /\ found.game = jobs[j].game
  BY <1>2 DEF Job
<1>4. CASE g0 \cup l0 # {}
  <2>1. jobs' = [jobs EXCEPT ![j] = [found EXCEPT !.at = "prune"]]
    BY <1>1, <1>4
  <2>2. QED BY <1>3, <2>1 DEF TypeOK, MovesOn, Job
<1>5. CASE g0 \cup l0 = {}
  <2>1. jobs' = [jobs EXCEPT ![j] = Proceed(found)]
    BY <1>1, <1>5
  <2>2. QED BY <1>3, <2>1, ProceedMoves DEF TypeOK, MovesOn
<1>6. QED BY <1>4, <1>5

LEMMA StepMoves ==
  ASSUME TypeOK, NEW j \in JobId, Step(j), ~Check(j)
  PROVE  MovesOn(j)
<1>1. CASE Switch(j)    BY <1>1, EndMoves, GoMoves DEF Switch
<1>2. CASE Seat(j)      BY <1>2, EndMoves, GoMoves DEF Seat
<1>3. CASE Undo(j)      BY <1>3, EndMoves DEF Undo
<1>4. CASE View(j)      BY <1>4, EndMoves DEF View
<1>5. CASE SendViews(j) BY <1>5, EndMoves DEF SendViews
<1>6. CASE Read(j)      BY <1>6, ReadMoves
<1>7. CASE Prune(j)
  <2>1. jobs[j] \in Job BY HandlerType
  <2>2. \/ jobs' = [jobs EXCEPT ![j] = [jobs[j] EXCEPT !.at = "wipe"]]
        \/ jobs' = [jobs EXCEPT ![j] = Proceed(jobs[j])]
    BY <1>7 DEF Prune
  <2>3. QED BY <2>1, <2>2, ProceedMoves DEF TypeOK, MovesOn, Job
<1>8. CASE Wipe(j)
  BY <1>8, HandlerType, ProceedMoves DEF Wipe, TypeOK, MovesOn
<1>9. CASE JoinBot(j)   BY <1>9, GoMoves DEF JoinBot
<1>10. CASE ListBot(j) \/ ListFails(j)
  BY <1>10, EndMoves DEF ListBot, ListFails
<1>11. CASE Evict(j)    BY <1>11, EndMoves DEF Evict
<1>12. CASE UndoFails(j) \/ AnswerError(j)
  BY <1>12, EndMoves, GoMoves DEF UndoFails, AnswerError
<1>13. QED
  BY <1>1, <1>2, <1>3, <1>4, <1>5, <1>6, <1>7, <1>8, <1>9, <1>10, <1>11, <1>12 DEF Step

\* What Check writes down.
LEMMA CheckMoves ==
  ASSUME TypeOK, NEW j \in JobId, Check(j)
  PROVE  \/ MovesOn(j) /\ jobs'[j] = Idle
         \/ LET job  == jobs[j]
                p    == player[job.s]
                move == job.kind = "team" \/ (job.kind = "both" /\ p.team # job.team)
            IN
            /\ \A i \in JobId \ {j} : jobs'[i] = jobs[i]
            /\ jobs'[j] = [job EXCEPT !.game = Look, !.old = p.team,
                                      !.at = IF move THEN "switch" ELSE "seat"]
            /\ move => CanChange(game, p, TRUE, NoRole)
            /\ (job.kind = "both" \/ (job.kind = "role" /\ p.role # job.role))
                  => CanChange(game, p, FALSE, job.role)
<1>1. CASE End(j)
  BY <1>1, EndMoves
<1>2. CASE ~End(j)
  BY <1>2 DEF Check, TypeOK
<1>3. QED BY <1>1, <1>2

LEMMA CheckKeeps ==
  ASSUME TypeOK, NEW j \in JobId, Check(j)
  PROVE  /\ \A i \in JobId \ {j} : jobs'[i] = jobs[i]
         /\ jobs'[j] = Idle \/ (/\ jobs'[j].kind = jobs[j].kind /\ jobs'[j].s = jobs[j].s
                                /\ jobs'[j].role = jobs[j].role /\ jobs'[j].team = jobs[j].team
                                /\ jobs'[j].game = Look /\ jobs'[j].old = player[jobs[j].s].team
                                /\ jobs'[j].at \in {"switch", "seat"})
<1>1. CASE MovesOn(j) /\ jobs'[j] = Idle
  BY <1>1 DEF MovesOn
<1>2. CASE ~(MovesOn(j) /\ jobs'[j] = Idle)
  <2>1. PICK a \in {"switch", "seat"} :
          /\ \A i \in JobId \ {j} : jobs'[i] = jobs[i]
          /\ jobs'[j] = [jobs[j] EXCEPT !.game = Look, !.old = player[jobs[j].s].team, !.at = a]
    BY <1>2, CheckMoves
  <2>2. jobs[j] \in Job
    BY DEF TypeOK
  <2>3. QED BY <2>1, <2>2 DEF Job
<1>3. QED BY <1>1, <1>2

\* Handlers that begin.
Begins(j) ==
  /\ \A i \in JobId \ {j} : jobs'[i] = jobs[i]
  /\ jobs'[j].kind \in Guarded => jobs'[j].at = "check"
  /\ jobs'[j].game = [live |-> FALSE, number |-> 0] \/ jobs'[j].game = Look'
  /\ jobs'[j].kind \in Guarded => ~Locked(jobs'[j].s)

LEMMA AskBegins ==
  ASSUME TypeOK, NEW j \in JobId, NEW s, NEW kind, NEW t, NEW r, NEW b,
         \/ StartChange(j, s, kind, t, r) \/ StartApprove(j, s, t) \/ StartGame(j)
         \/ StartRoster(j, t) \/ StartAdd(j, b, t, r) \/ Reconnect(j, s)
  PROVE  Begins(j)
<1> USE DEF TypeOK, Begins, Guarded, Handler
<1>1. CASE StartChange(j, s, kind, t, r) BY <1>1 DEF StartChange
<1>2. CASE StartApprove(j, s, t)         BY <1>2 DEF StartApprove
<1>3. CASE StartGame(j)                  BY <1>3 DEF StartGame
<1>4. CASE StartRoster(j, t)             BY <1>4 DEF StartRoster
<1>5. CASE StartAdd(j, b, t, r)          BY <1>5 DEF StartAdd
<1>6. CASE Reconnect(j, s)               BY <1>6 DEF Reconnect
<1>7. QED BY <1>1, <1>2, <1>3, <1>4, <1>5, <1>6

\* A step is one of a handler, or begins one, or leaves them as they are.
LEMMA StepKinds ==
  ASSUME TypeOK, [Next]_vars
  PROVE  \/ \E j \in JobId : Step(j)
         \/ \E j \in JobId : Begins(j)
         \/ UNCHANGED jobs
<1>1. ASSUME NEW j \in JobId, StartGame(j) PROVE Begins(j)
  BY <1>1, AskBegins
<1>2. ASSUME NEW j \in JobId, NEW s \in Human, Change(j, s) \/ Reconnect(j, s) PROVE Begins(j)
  BY <1>2, AskBegins DEF Change
<1>3. ASSUME NEW j \in JobId, NEW t \in Team, StartRoster(j, t) PROVE Begins(j)
  BY <1>3, AskBegins
<1>4. ASSUME NEW j \in JobId, NEW b, NEW t, NEW r, StartAdd(j, b, t, r) PROVE Begins(j)
  BY <1>4, AskBegins
<1>5. QED
  BY <1>1, <1>2, <1>3, <1>4
  DEF Next, vars, Drop, Rejoin, Lapse, Join, Remove, EndTurn, EndGame

LEMMA AloneStep == TypeOK /\ Alone /\ [Next]_vars => Alone'
<1> SUFFICES ASSUME TypeOK, Alone, [Next]_vars PROVE Alone'
  OBVIOUS
<1>1. ASSUME NEW j \in JobId, Step(j) PROVE Alone'
  <2>1. CASE Check(j)
    BY <2>1, CheckKeeps, IdleFacts DEF Alone
  <2>2. CASE ~Check(j)
    BY <1>1, <2>2, StepMoves, IdleFacts DEF Alone, MovesOn
  <2>3. QED BY <2>1, <2>2
<1>2. ASSUME NEW j \in JobId, Begins(j) PROVE Alone'
  BY <1>2 DEF Alone, Begins, Locked
<1>3. CASE UNCHANGED jobs
  BY <1>3 DEF Alone
<1>4. QED BY <1>1, <1>2, <1>3, StepKinds

\* The number of the game only grows.
LEMMA GameGrows ==
  ASSUME TypeOK, [Next]_vars
  PROVE  /\ game.number \in Nat /\ game'.number \in Nat /\ game.number <= game'.number
         /\ (game'.live /\ game'.number = game.number) => game.live
<1> USE DEF TypeOK, Game
<1>1. ASSUME NEW j \in JobId, StartGame(j) PROVE game'.number = game.number + 1
  BY <1>1 DEF StartGame
<1>2. CASE EndTurn \/ EndGame
  BY <1>2, CountsAssumption DEF EndTurn, EndGame
<1>3. CASE UNCHANGED game
  BY <1>3, CountsAssumption
<1>4. (\E j \in JobId : StartGame(j)) \/ EndTurn \/ EndGame \/ UNCHANGED game
  BY ZenonT(40) DEF Next, Step, Change, vars, Check, Switch, Seat, Undo, UndoFails, AnswerError, View,
         SendViews, Read, Prune, Wipe, JoinBot, ListBot, ListFails, Evict, StartChange, StartApprove, Reconnect, StartRoster, StartAdd,
         Drop, Rejoin, Lapse, Join, Remove
<1>5. game.number \in Nat
  BY CountsAssumption
<1>6. QED BY <1>1, <1>2, <1>3, <1>4, <1>5

LEMMA OlderStep == TypeOK /\ Older /\ [Next]_vars => Older'
<1> SUFFICES ASSUME TypeOK, Older, [Next]_vars PROVE Older'
  OBVIOUS
<1>1. \A j \in JobId : jobs[j].game.number \in Nat
  BY CountsAssumption DEF TypeOK, Job, Glance
<1>2. ASSUME NEW j \in JobId, Step(j) PROVE Older'
  <2>1. CASE Check(j)
    <3>1. jobs'[j].game \in {Idle.game, Look}
      BY <2>1, CheckKeeps
    <3>2. \A i \in JobId \ {j} : jobs'[i] = jobs[i]
      BY <2>1, CheckKeeps
    <3>3. QED BY <1>1, <3>1, <3>2, IdleFacts, GameGrows DEF Older, Look
  <2>2. CASE ~Check(j)
    BY <1>1, <1>2, <2>2, StepMoves, IdleFacts, GameGrows DEF Older, MovesOn
  <2>3. QED BY <2>1, <2>2
<1>3. ASSUME NEW j \in JobId, Begins(j) PROVE Older'
  BY <1>1, <1>3, GameGrows DEF Older, Begins, Look
<1>4. CASE UNCHANGED jobs
  BY <1>1, <1>4, GameGrows DEF Older
<1>5. QED BY <1>2, <1>3, <1>4, StepKinds

\* Which steps put a session among those who see the board: a change of role.
Dull == \A s \in Human : player'[s].role \in Seeing => player[s].role \in Seeing

LEMMA SwitchDulls ==
  ASSUME TypeOK, NEW s \in Session, NEW t, SwitchTeam(s, t)
  PROVE  /\ Dull /\ \A u \in Session \ {s} : player'[u] = player[u]
         /\ player'[s].here = player[s].here
         /\ player'[s].role \in {"spectator", player[s].role}
BY DEF SwitchTeam, TypeOK, Player, Dull, Seeing, Session

LEMMA GoneStep == TypeOK /\ Gone /\ [Next]_vars => Gone'
<1> SUFFICES ASSUME TypeOK, Gone, [Next]_vars PROVE Gone'
  OBVIOUS
<1>1. ASSUME NEW s \in Session, NEW t, SwitchTeam(s, t) PROVE Gone'
  BY <1>1, SwitchDulls DEF Gone
<1>2. ASSUME NEW s \in Session, NEW r \in Role, player[s].here,
             player' = [player EXCEPT ![s].role = r]
      PROVE  Gone'
  BY <1>2 DEF Gone, TypeOK, Player
<1>3. ASSUME NEW s \in Session, ComesBack(s) PROVE Gone'
  BY <1>3 DEF Gone, TypeOK, Player, ComesBack
<1>4. ASSUME NEW j \in JobId, Switch(j) \/ Undo(j) PROVE Gone'
  <2>1. jobs[j].s \in Session
    BY <1>4, HandlerType DEF Switch, Undo, At, Session
  <2>2. QED BY <1>1, <1>4, <2>1 DEF Switch, Undo, Gone
<1>5. ASSUME NEW j \in JobId, Seat(j) PROVE Gone'
  <2>1. jobs[j].s \in Session /\ jobs[j].role \in Role
    BY <1>5, HandlerType DEF Seat, At, Session
  <2>2. QED BY <1>2, <1>5, <2>1 DEF Seat, Gone
<1>6. ASSUME NEW j \in JobId, Prune(j) \/ JoinBot(j) \/ ListFails(j) \/ Evict(j) PROVE Gone'
  BY <1>6 DEF Prune, JoinBot, ListFails, Evict, Forget, Gone, Absent, TypeOK
<1>7. ASSUME NEW j \in JobId,
             \/ Check(j) \/ UndoFails(j) \/ AnswerError(j) \/ View(j) \/ SendViews(j)
             \/ Read(j) \/ Wipe(j) \/ ListBot(j)
      PROVE  Gone'
  BY <1>7
  DEF Check, UndoFails, AnswerError, View, SendViews, Read, Wipe, ListBot, Gone, history
<1>8. ASSUME NEW j \in JobId, NEW s, NEW k, NEW t, NEW r, NEW b,
             \/ StartChange(j, s, k, t, r) \/ StartApprove(j, s, t) \/ StartGame(j)
             \/ StartRoster(j, t) \/ StartAdd(j, b, t, r)
      PROVE  Gone'
  BY <1>8 DEF StartChange, StartApprove, StartGame, StartRoster, StartAdd, Gone, history
<1>9. ASSUME NEW s \in Human, Drop(s) \/ Rejoin(s) \/ Lapse(s) \/ Join(s) PROVE Gone'
  <2>1. CASE Drop(s)   BY <2>1 DEF Drop, Gone, TypeOK, Player, Session
  <2>2. CASE Rejoin(s) BY <2>2, <1>3 DEF Rejoin, Session
  <2>3. CASE Lapse(s)  BY <2>3 DEF Lapse, Forget, Gone, Absent, TypeOK
  <2>4. CASE Join(s)   BY <2>4 DEF Join, Gone, Fresh, Absent, TypeOK
  <2>5. QED BY <1>9, <2>1, <2>2, <2>3, <2>4
<1>10. ASSUME NEW s \in Session, Remove(s) PROVE Gone'
  BY <1>10 DEF Remove, Forget, Gone, Absent, TypeOK
<1>11. ASSUME NEW j \in JobId, NEW s \in Human, Reconnect(j, s) PROVE Gone'
  BY <1>11, <1>3 DEF Reconnect, Session
<1>12. CASE EndTurn \/ EndGame \/ UNCHANGED vars
  BY <1>12 DEF EndTurn, EndGame, vars, history, Gone
<1>13. QED
  BY <1>4, <1>5, <1>6, <1>7, <1>8, <1>9, <1>10, <1>11, <1>12 DEF Next, Step, Change

\* Steps of other handlers, and those that leave a guarded handler less risky.
LEMMA BlindKept ==
  ASSUME TypeOK, Blind, NEW j \in JobId, Dull, game'.live => game.live /\ Look' = Look,
         \A i \in JobId \ {j} : jobs'[i] = jobs[i],
         (jobs'[j].kind \in Guarded /\ Risky(jobs'[j]))
           => /\ jobs[j].kind \in Guarded /\ Risky(jobs[j])
              /\ jobs'[j].s = jobs[j].s /\ jobs'[j].game = jobs[j].game
  PROVE  Blind'
<1>1. \A i \in JobId : jobs[i].kind \in Guarded => jobs[i].s \in Human
  BY DEF TypeOK, JobOK
<1>2. QED BY <1>1 DEF Blind, Dull

LEMMA BlindSame ==
  ASSUME TypeOK, Blind, Dull, game'.live => game.live /\ Look' = Look, UNCHANGED jobs
  PROVE  Blind'
<1>1. \A i \in JobId : jobs[i].kind \in Guarded => jobs[i].s \in Human
  BY DEF TypeOK, JobOK
<1>2. QED BY <1>1 DEF Blind, Dull

LEMMA LookSame == UNCHANGED game => Look' = Look /\ game'.live = game.live
BY DEF Look

LEMMA DullSame == UNCHANGED player => Dull
BY DEF Dull

LEMMA Spectates == Absent.role \notin Seeing /\ Fresh.role \notin Seeing
BY DEF Absent, Fresh, Seeing

LEMMA IdleIsSafe == ~(Idle.kind \in Guarded /\ Risky(Idle))
BY IdleFacts

LEMMA BlindStep == TypeOK /\ Alone /\ Older /\ Blind /\ [Next]_vars => Blind'
<1> SUFFICES ASSUME TypeOK, Alone, Older, Blind, [Next]_vars PROVE Blind'
  OBVIOUS
<1>1. ASSUME NEW j \in JobId, Check(j) PROVE Blind'
  <2>1. CASE MovesOn(j) /\ jobs'[j] = Idle
    BY <1>1, <2>1, BlindKept, LookSame, DullSame, IdleIsSafe DEF MovesOn, Check
  <2>2. CASE ~(MovesOn(j) /\ jobs'[j] = Idle)
    <3> DEFINE p == player[jobs[j].s]
               move == jobs[j].kind = "team" \/ (jobs[j].kind = "both" /\ p.team # jobs[j].team)
    <3>1. /\ move => CanChange(game, p, TRUE, NoRole)
          /\ (jobs[j].kind = "both" \/ (jobs[j].kind = "role" /\ p.role # jobs[j].role))
                => CanChange(game, p, FALSE, jobs[j].role)
          /\ jobs'[j] = [jobs[j] EXCEPT !.game = Look, !.old = p.team,
                                        !.at = IF move THEN "switch" ELSE "seat"]
          /\ \A i \in JobId \ {j} : jobs'[i] = jobs[i]
      BY <1>1, <2>2, CheckMoves
    <3>2. /\ jobs'[j].kind = jobs[j].kind /\ jobs'[j].s = jobs[j].s
          /\ jobs'[j].role = jobs[j].role /\ jobs'[j].team = jobs[j].team
          /\ jobs'[j].old = p.team
          /\ jobs'[j].at = IF move THEN "switch" ELSE "seat"
      BY <3>1 DEF TypeOK, Job
    <3>3. UNCHANGED <<game, player>> /\ NoRole \notin Role /\ jobs[j].role \in Role
      BY <1>1, HandlerType DEF Check, NoRole, Role, SeatRole
    <3>4. ASSUME game.live, jobs[j].kind \in Guarded, Risky(jobs'[j]) PROVE p.role \notin Seeing
      <4>1. CASE move
        BY <3>1, <3>4, <4>1 DEF CanChange
      <4>2. CASE ~move
        <5>1. jobs[j].role \notin Seeing /\ jobs[j].kind \in {"role", "both"}
          BY <3>2, <3>4, <4>2 DEF Risky, Guarded
        <5>2. p.role = jobs[j].role \/ CanChange(game, p, FALSE, jobs[j].role)
          BY <3>1, <5>1
        <5>3. jobs[j].role # NoRole
          BY <3>3
        <5>4. CanChange(game, p, FALSE, jobs[j].role)
                => (p.role \in Seeing => jobs[j].role = p.role)
          BY <3>4, <5>3 DEF CanChange
        <5>5. QED BY <5>1, <5>2, <5>4
      <4>3. QED BY <4>1, <4>2
    <3>5. SUFFICES ASSUME NEW i \in JobId, jobs'[i].kind \in Guarded, Risky(jobs'[i]), game'.live,
                          jobs'[i].game = Look'
                   PROVE  player'[jobs'[i].s].role \notin Seeing
      BY DEF Blind, Risky
    <3>6. Look' = Look /\ game.live
      BY <3>3, <3>5 DEF Look
    <3>7. CASE i = j
      BY <3>2, <3>3, <3>4, <3>5, <3>6, <3>7
    <3>8. CASE i # j
      BY <3>1, <3>3, <3>5, <3>6, <3>8 DEF Blind
    <3>9. QED BY <3>7, <3>8
  <2>3. QED BY <2>1, <2>2
<1>2. ASSUME NEW j \in JobId, Switch(j) PROVE Blind'
  <2>1. jobs[j].s \in Session /\ UNCHANGED game /\ jobs[j].at = "switch"
    BY <1>2, HandlerType DEF Switch, At, Session
  <2>2. Dull
    BY <1>2, <2>1, SwitchDulls, DullSame DEF Switch
  <2>3. MovesOn(j)
    BY <1>2, StepMoves DEF Step, Switch, Check, At
  <2>4. Risky(jobs[j])
    BY <2>1 DEF Risky
  <2>5. QED BY <2>1, <2>2, <2>3, <2>4, BlindKept, LookSame, IdleIsSafe DEF MovesOn
<1>3. ASSUME NEW j \in JobId, Seat(j) PROVE Blind'
  <2>1. /\ jobs[j].s \in Human /\ jobs[j].s \in Session /\ UNCHANGED game
        /\ jobs[j].at = "seat" /\ jobs[j].kind \in Guarded \cup {"approve"}
        /\ (jobs[j].kind = "approve" => jobs[j].role = "clicker")
    BY <1>3, HandlerType DEF Seat, At, Session, JobOK
  <2>2. MovesOn(j)
    BY <1>3, StepMoves DEF Step, Seat, Check, At
  <2>3. (jobs'[j].kind \in Guarded /\ Risky(jobs'[j])) => jobs[j].kind \in Guarded /\ Risky(jobs[j])
    <3>1. CASE End(j)
      BY <3>1, EndMoves, IdleIsSafe
    <3>2. CASE Go(j, "view")
      BY <3>2, GoMoves DEF Risky
    <3>3. CASE Go(j, "undo") /\ ~End(j)
      <4>1. jobs[j].kind = "approve"
              \/ (jobs[j].kind = "both" /\ jobs[j].old \notin {NoTeam, jobs[j].team})
        BY <1>3, <3>3 DEF Seat, Go, TypeOK, Job
      <4>2. jobs'[j].kind \in Guarded => jobs[j].kind = "both"
        BY <2>2, <4>1, IdleFacts DEF MovesOn, Guarded
      <4>3. QED BY <2>1, <4>1, <4>2 DEF Risky, Guarded
    <3>4. QED BY <1>3, <3>1, <3>2, <3>3 DEF Seat
  <2>4. CASE UNCHANGED player
    BY <2>1, <2>2, <2>3, <2>4, BlindKept, LookSame, DullSame, IdleIsSafe DEF MovesOn
  <2>5. CASE ~UNCHANGED player
    <3>1. player' = [player EXCEPT ![jobs[j].s].role = jobs[j].role]
      BY <1>3, <2>5 DEF Seat
    <3>2. \A u \in Session \ {jobs[j].s} : player'[u] = player[u]
      BY <3>1
    <3>3. player'[jobs[j].s].role = jobs[j].role
      BY <2>1, <3>1 DEF TypeOK, Player
    <3>4. CASE jobs[j].role \notin Seeing
      <4>1. Dull BY <3>2, <3>3, <3>4 DEF Dull, Session
      <4>2. QED BY <2>1, <2>2, <2>3, <4>1, BlindKept, LookSame, IdleIsSafe DEF MovesOn
    <3>5. CASE jobs[j].role \in Seeing
      <4>1. jobs[j].kind \in Guarded
        BY <2>1, <3>5 DEF Seeing
      <4>2. \A i \in JobId \ {j} : jobs[i].kind \in Guarded => jobs[i].s \in Session \ {jobs[j].s}
        BY <4>1 DEF Alone, TypeOK, JobOK, Session
      <4>3. ~(jobs'[j].kind \in Guarded /\ Risky(jobs'[j]))
        <5>1. ~(~player[jobs[j].s].here \/ Refused(jobs[j].s, jobs[j].role))
          BY <1>3, <2>5 DEF Seat
        <5>2. Go(j, "view") \/ End(j)
          BY <1>3, <5>1 DEF Seat
        <5>3. QED BY <5>2, GoMoves, EndMoves, IdleIsSafe DEF Risky
      <4>4. QED BY <2>1, <2>2, <3>2, <4>2, <4>3, LookSame DEF Blind, MovesOn
    <3>6. QED BY <3>4, <3>5
  <2>6. QED BY <2>4, <2>5
<1>4. ASSUME NEW j \in JobId, Undo(j) PROVE Blind'
  <2>1. jobs[j].s \in Session /\ UNCHANGED game
    BY <1>4, HandlerType DEF Undo, At, Session
  <2>2. Dull
    BY <1>4, <2>1, SwitchDulls, DullSame DEF Undo
  <2>3. MovesOn(j) /\ jobs'[j] = Idle
    BY <1>4, EndMoves DEF Undo
  <2>4. QED BY <2>1, <2>2, <2>3, BlindKept, LookSame, IdleIsSafe DEF MovesOn
<1>5. ASSUME NEW j \in JobId,
             \/ UndoFails(j) \/ AnswerError(j) \/ View(j) \/ SendViews(j) \/ Read(j)
             \/ Prune(j) \/ Wipe(j) \/ JoinBot(j) \/ ListBot(j) \/ ListFails(j) \/ Evict(j)
      PROVE  Blind'
  <2>1. UNCHANGED game
    BY <1>5
    DEF UndoFails, AnswerError, View, SendViews, Read, Prune, Wipe, JoinBot, ListBot, ListFails,
        Evict
  <2>2. Dull
    <3>1. CASE \/ UndoFails(j) \/ AnswerError(j) \/ View(j) \/ SendViews(j) \/ Read(j)
               \/ Wipe(j) \/ ListBot(j)
      BY <3>1, DullSame DEF UndoFails, AnswerError, View, SendViews, Read, Wipe, ListBot
    <3>2. CASE Prune(j)
      BY <3>2, Spectates DEF Prune, Dull, Session
    <3>3. CASE JoinBot(j) \/ ListFails(j) \/ Evict(j)
      <4>1. jobs[j].bot \in Bot \cup {Nobody}
        BY HandlerType
      <4>2. \A s \in Human : player'[s] = player[s]
        BY <3>3, <4>1, SessionsAssumption DEF JoinBot, ListFails, Evict, Forget, Session, TypeOK
      <4>3. QED BY <4>2 DEF Dull
    <3>4. QED BY <1>5, <3>1, <3>2, <3>3
  <2>3. MovesOn(j)
    BY <1>5, StepMoves
    DEF Step, Check, At, UndoFails, AnswerError, View, SendViews, Read, Prune, Wipe, JoinBot,
        ListBot, ListFails, Evict
  <2>4. jobs'[j].at \notin {"switch", "undo", "seat"}
    <3>1. CASE AnswerError(j) \/ View(j) \/ SendViews(j) \/ ListBot(j) \/ ListFails(j) \/ Evict(j)
      BY <3>1, EndMoves
      DEF AnswerError, View, SendViews, ListBot, ListFails, Evict, Idle, Handler
    <3>2. CASE JoinBot(j) \/ UndoFails(j)
      BY <3>2, GoMoves DEF JoinBot, UndoFails
    <3>3. CASE Read(j) \/ Prune(j) \/ Wipe(j)
      <4>1. \A h \in Job : Proceed(h).at \in {"evict", "join", "idle"}
        BY DEF Proceed, Job, Idle, Handler
      <4>2. jobs[j] \in Job BY HandlerType
      <4>3. \A b \in Bot \cup {Nobody}, g \in SUBSET Session, l \in SUBSET Session :
              LET h == [jobs[j] EXCEPT !.bot = b, !.gone = g, !.lost = l]
              IN  h \in Job /\ [h EXCEPT !.at = "prune"].at = "prune"
        BY <4>2 DEF Job
      <4>4. CASE Read(j)
        <5> DEFINE list == IF jobs[j].team = NoTeam THEN {} ELSE teamSet[jobs[j].team]
        <5> DEFINE g0 == {m \in list : ~player[m].here}
        <5> DEFINE l0 == {m \in list : player[m].here /\ player[m].team # jobs[j].team}
        <5>1. PICK b \in IF BotsFor(jobs[j]) = {} THEN {Nobody} ELSE BotsFor(jobs[j]) :
                LET found == [jobs[j] EXCEPT !.bot = b, !.gone = g0, !.lost = l0] IN
                jobs' = [jobs EXCEPT ![j] = IF g0 \cup l0 # {} THEN [found EXCEPT !.at = "prune"]
                                                               ELSE Proceed(found)]
          BY <4>4 DEF Read
        <5>2. b \in Bot \cup {Nobody} /\ g0 \in SUBSET Session /\ l0 \in SUBSET Session
          BY HandlerType DEF BotsFor, TypeOK, Job
        <5> HIDE DEF g0, l0
        <5>3. QED BY <4>1, <4>3, <5>1, <5>2 DEF TypeOK
      <4>5. CASE Prune(j)
        BY <4>1, <4>2, <4>5 DEF Prune, TypeOK, Job
      <4>6. CASE Wipe(j)
        BY <4>1, <4>2, <4>6 DEF Wipe, TypeOK
      <4>7. QED BY <3>3, <4>4, <4>5, <4>6
    <3>4. QED BY <1>5, <3>1, <3>2, <3>3
  <2>5. ~Risky(jobs'[j])
    BY <2>4 DEF Risky
  <2>6. QED BY <2>1, <2>2, <2>3, <2>5, BlindKept, LookSame DEF MovesOn
<1>6. ASSUME NEW j \in JobId, StartGame(j) PROVE Blind'
  <2>1. Begins(j) /\ UNCHANGED player /\ game'.number = game.number + 1
    <3>1. Begins(j)
      BY <1>6, AskBegins
    <3>2. QED BY <1>6, <3>1 DEF StartGame
  <2>2. \A i \in JobId : jobs[i].game.number \in Nat /\ game.number \in Nat
    BY CountsAssumption DEF TypeOK, Job, Glance, Game
  <2>3. \A i \in JobId \ {j} : jobs'[i] = jobs[i] /\ jobs'[i].game # Look'
    BY <2>1, <2>2 DEF Begins, Older, Look
  <2>4. ~(jobs'[j].kind \in Guarded /\ Risky(jobs'[j]))
    BY <2>1 DEF Begins, Risky
  <2>5. QED BY <2>3, <2>4 DEF Blind
<1>7. ASSUME NEW j \in JobId, NEW s, NEW k, NEW t, NEW r, NEW b,
             \/ StartChange(j, s, k, t, r) \/ StartApprove(j, s, t)
             \/ StartRoster(j, t) \/ StartAdd(j, b, t, r)
      PROVE  Blind'
  <2>1. Begins(j)
    BY <1>7, AskBegins
  <2>2. UNCHANGED <<game, player>>
    BY <1>7 DEF StartChange, StartApprove, StartRoster, StartAdd
  <2>3. QED BY <2>1, <2>2, BlindKept, LookSame, DullSame DEF Begins, Risky
<1>8. ASSUME NEW j \in JobId, NEW s \in Human, Reconnect(j, s) PROVE Blind'
  <2>1. Begins(j) /\ UNCHANGED game
    BY <1>8, AskBegins DEF Reconnect
  <2>2. Dull
    BY <1>8 DEF Reconnect, ComesBack, Dull, TypeOK, Player, Session
  <2>3. QED BY <2>1, <2>2, BlindKept, LookSame DEF Begins, Risky
<1>9. ASSUME NEW s \in Session, Remove(s) \/ (s \in Human /\ (Drop(s) \/ Rejoin(s) \/ Lapse(s) \/ Join(s)))
      PROVE  Blind'
  <2>1. UNCHANGED <<game, jobs>>
    BY <1>9 DEF Drop, Rejoin, Lapse, Join, Remove
  <2>2. Dull
    <3>1. CASE Drop(s)   BY <3>1 DEF Drop, Dull, TypeOK, Player, Session
    <3>2. CASE Rejoin(s) BY <3>2 DEF Rejoin, ComesBack, Dull, TypeOK, Player, Session
    <3>3. CASE Lapse(s)  BY <3>3, Spectates DEF Lapse, Forget, Dull, TypeOK, Session
    <3>4. CASE Join(s)   BY <3>4, Spectates DEF Join, Dull, TypeOK, Session
    <3>5. CASE Remove(s) BY <3>5, Spectates DEF Remove, Forget, Dull, TypeOK, Session
    <3>6. QED BY <1>9, <3>1, <3>2, <3>3, <3>4, <3>5
  <2>3. QED BY <2>1, <2>2, BlindSame, LookSame
<1>10. CASE EndTurn \/ EndGame \/ UNCHANGED vars
  <2>1. UNCHANGED <<jobs, player>>
    BY <1>10 DEF EndTurn, EndGame, vars
  <2>2. game'.live => game.live /\ Look' = Look
    BY <1>10 DEF EndTurn, EndGame, vars, Look, TypeOK, Game
  <2>3. QED BY <2>1, <2>2, BlindSame, DullSame
<1>11. QED
  BY <1>1, <1>2, <1>3, <1>4, <1>5, <1>6, <1>7, <1>8, <1>9, <1>10 DEF Next, Step, Change, Session

\* Nobody learns anything, and who knows the board keeps its role.
LEMMA SecretKept ==
  ASSUME Secret, game'.live => game.live,
         \A s \in seen' \ leaked' :
           /\ s \in seen \ leaked
           /\ player[s].role \in Seeing => player'[s].role \in Seeing
  PROVE  Secret'
BY DEF Secret

\* The writes of the handlers of teams and roles.
LEMMA LeaksKeeps ==
  ASSUME TypeOK, Blind, Secret, NEW j \in JobId, Leaks(j), UNCHANGED <<game, seen>>,
         jobs[j].kind \in Guarded \cup {"approve"},
         \A u \in Session \ {jobs[j].s} : player'[u] = player[u],
         \/ Risky(jobs[j]) \/ player'[jobs[j].s] = player[jobs[j].s]
         \/ player'[jobs[j].s].role \in Seeing
  PROVE  Secret'
<1> DEFINE s == jobs[j].s
<1>1. leaked \subseteq leaked' /\ (s \in seen /\ player'[s].role \notin Seeing /\ Stale(jobs[j]) => s \in leaked')
  BY DEF Leaks
<1>2. SUFFICES ASSUME game'.live, NEW u \in seen' \ leaked' PROVE player'[u].role \in Seeing
  BY DEF Secret
<1>3. u \in Session /\ u \in seen \ leaked /\ game.live
  BY <1>1, <1>2 DEF TypeOK, Session
<1>4. player[u].role \in Seeing
  BY <1>3 DEF Secret
<1>5. CASE u # s
  BY <1>3, <1>4, <1>5
<1>6. CASE u = s /\ player'[s].role \notin Seeing
  <2>1. ~Stale(jobs[j])
    BY <1>1, <1>2, <1>3, <1>6
  <2>2. jobs[j].kind \in Guarded /\ jobs[j].game = Look
    BY <2>1 DEF Stale
  <2>3. Risky(jobs[j])
    BY <1>4, <1>6
  <2>4. QED BY <1>3, <1>4, <1>6, <2>2, <2>3 DEF Blind
<1>7. QED BY <1>5, <1>6

LEMMA SecretStep == TypeOK /\ Gone /\ Blind /\ Secret /\ [Next]_vars => Secret'
<1> SUFFICES ASSUME TypeOK, Gone, Blind, Secret, [Next]_vars PROVE Secret'
  OBVIOUS
<1>1. ASSUME NEW j \in JobId, Switch(j) \/ Undo(j) PROVE Secret'
  <2>1. /\ jobs[j].s \in Session /\ jobs[j].kind \in Guarded \cup {"approve"}
        /\ Risky(jobs[j]) /\ Leaks(j) /\ UNCHANGED <<game, seen>>
    BY <1>1, HandlerType DEF Switch, Undo, At, Session, JobOK, Risky
  <2>2. \A u \in Session \ {jobs[j].s} : player'[u] = player[u]
    BY <1>1, <2>1, SwitchDulls DEF Switch, Undo
  <2>3. QED BY <2>1, <2>2, LeaksKeeps
<1>2. ASSUME NEW j \in JobId, Seat(j) PROVE Secret'
  <2>1. /\ jobs[j].s \in Session /\ jobs[j].kind \in Guarded \cup {"approve"}
        /\ jobs[j].at = "seat" /\ Leaks(j) /\ UNCHANGED <<game, seen>>
    BY <1>2, HandlerType DEF Seat, At, Session, JobOK
  <2>2. CASE UNCHANGED player
    BY <2>1, <2>2, LeaksKeeps
  <2>3. CASE ~UNCHANGED player
    <3>1. player' = [player EXCEPT ![jobs[j].s].role = jobs[j].role]
      BY <1>2, <2>3 DEF Seat
    <3>2. player'[jobs[j].s].role = jobs[j].role
      BY <2>1, <3>1 DEF TypeOK, Player
    <3>3. jobs[j].role \notin Seeing => Risky(jobs[j])
      BY <2>1 DEF Risky
    <3>4. QED BY <2>1, <3>1, <3>2, <3>3, LeaksKeeps
  <2>4. QED BY <2>2, <2>3
<1>3. ASSUME NEW j \in JobId, View(j) PROVE Secret'
  BY <1>3 DEF View, Secret
<1>4. ASSUME NEW j \in JobId, SendViews(j) PROVE Secret'
  BY <1>4 DEF SendViews, Secret
<1>5. ASSUME NEW j \in JobId, Evict(j) PROVE Secret'
  <2>1. \A s \in Human : player'[s] = player[s]
    BY <1>5, HandlerType, SessionsAssumption DEF Evict, Session, TypeOK
  <2>2. /\ leaked' = IF jobs[j].s \in seen' /\ player[jobs[j].s].role \notin Seeing
                       THEN leaked \cup {jobs[j].s} ELSE leaked
        /\ seen' \subseteq seen \cup {jobs[j].s} /\ UNCHANGED game
    BY <1>5 DEF Evict
  <2>3. seen' \subseteq Human
    BY NextType DEF TypeOK
  <2>4. QED BY <2>1, <2>2, <2>3 DEF Secret
<1>6. ASSUME NEW s \in Human, Rejoin(s) PROVE Secret'
  <2>1. \A u \in Session : player'[u].role = player[u].role
    BY <1>6 DEF Rejoin, ComesBack, TypeOK, Player
  <2>2. /\ seen' \ leaked' \subseteq (seen \ leaked) \cup (IF player[s].role \in Seeing THEN {s} ELSE {})
        /\ UNCHANGED game /\ seen \subseteq Session /\ s \in Session
    BY <1>6 DEF Rejoin, TypeOK, Session
  <2>3. QED BY <2>1, <2>2 DEF Secret
<1>7. ASSUME NEW j \in JobId, NEW s \in Human, Reconnect(j, s) PROVE Secret'
  <2>1. \A u \in Session : player'[u].role = player[u].role
    BY <1>7 DEF Reconnect, ComesBack, TypeOK, Player
  <2>2. UNCHANGED <<game, seen, leaked>> /\ seen \subseteq Session
    BY <1>7 DEF Reconnect, TypeOK, Session
  <2>3. QED BY <2>1, <2>2 DEF Secret
<1>8. ASSUME NEW s \in Human, Drop(s) PROVE Secret'
  <2>1. \A u \in Session : player'[u].role = player[u].role
    BY <1>8 DEF Drop, TypeOK, Player
  <2>2. UNCHANGED <<game, seen, leaked>> /\ seen \subseteq Session
    BY <1>8 DEF Drop, TypeOK, Session
  <2>3. QED BY <2>1, <2>2 DEF Secret
<1>9. ASSUME NEW s \in Session, Forget(s), UNCHANGED game PROVE Secret'
  <2>1. \A u \in Session \ {s} : player'[u] = player[u]
    BY <1>9 DEF Forget
  <2>2. seen' = seen \ {s} /\ leaked' = leaked \ {s} /\ seen \subseteq Session
    BY <1>9 DEF Forget, TypeOK, Session
  <2>3. QED BY <1>9, <2>1, <2>2 DEF Secret
<1>10. ASSUME NEW s \in Session, Remove(s) \/ Lapse(s) PROVE Secret'
  BY <1>9, <1>10 DEF Remove, Lapse
<1>11. ASSUME NEW s \in Human, Join(s) PROVE Secret'
  <2>1. player[s].role \notin Seeing
    BY <1>11 DEF Join, Gone, Session, Seeing
  <2>2. \A u \in Session \ {s} : player'[u] = player[u]
    BY <1>11 DEF Join
  <2>3. UNCHANGED <<game, seen, leaked>> /\ seen \subseteq Session
    BY <1>11 DEF Join, TypeOK, Session, history
  <2>4. QED BY <2>1, <2>2, <2>3 DEF Secret
<1>12. ASSUME NEW j \in JobId, Prune(j) PROVE Secret'
  <2>1. \A u \in Session \ jobs[j].gone : player'[u] = player[u]
    BY <1>12 DEF Prune
  <2>2. /\ seen' = seen \ jobs[j].gone /\ leaked' = leaked \ jobs[j].gone /\ UNCHANGED game
        /\ seen \subseteq Session
    BY <1>12 DEF Prune, TypeOK, Session
  <2>3. QED BY <2>1, <2>2 DEF Secret
<1>13. ASSUME NEW j \in JobId, JoinBot(j) PROVE Secret'
  <2>1. jobs[j].bot \in Bot
    BY <1>13, HandlerType DEF JoinBot, At, JobOK
  <2>2. \A s \in Human : player'[s] = player[s]
    BY <1>13, <2>1, SessionsAssumption DEF JoinBot, Session, TypeOK
  <2>3. QED BY <1>13, <2>2 DEF JoinBot, Secret, TypeOK
<1>14. ASSUME NEW j \in JobId, ListFails(j) PROVE Secret'
  <2>1. jobs[j].bot \in Session
    BY <1>14, HandlerType DEF ListFails, At, JobOK, Session
  <2>2. CASE Forget(jobs[j].bot)
    BY <1>9, <1>14, <2>1, <2>2 DEF ListFails
  <2>3. CASE ~Forget(jobs[j].bot)
    BY <1>14, <2>3 DEF ListFails, Secret
  <2>4. QED BY <2>2, <2>3
<1>15. ASSUME NEW j \in JobId, StartGame(j) PROVE Secret'
  BY <1>15 DEF StartGame, Secret
<1>16. CASE EndGame
  BY <1>16 DEF EndGame, Secret, TypeOK, Game
<1>17. CASE EndTurn \/ UNCHANGED vars
  BY <1>17 DEF EndTurn, vars, history, Secret, TypeOK, Game
<1>18. ASSUME NEW j \in JobId,
             \/ Check(j) \/ UndoFails(j) \/ AnswerError(j) \/ Read(j) \/ Wipe(j) \/ ListBot(j)
      PROVE  Secret'
  BY <1>18 DEF Check, UndoFails, AnswerError, Read, Wipe, ListBot, history, Secret
<1>19. ASSUME NEW j \in JobId, NEW s, NEW k, NEW t, NEW r, NEW b,
             \/ StartChange(j, s, k, t, r) \/ StartApprove(j, s, t)
             \/ StartRoster(j, t) \/ StartAdd(j, b, t, r)
      PROVE  Secret'
  BY <1>19 DEF StartChange, StartApprove, StartRoster, StartAdd, history, Secret
<1>20. QED
  BY <1>1, <1>2, <1>3, <1>4, <1>5, <1>6, <1>7, <1>8, <1>10, <1>11, <1>12, <1>13, <1>14,
     <1>15, <1>16, <1>17, <1>18, <1>19
  DEF Next, Step, Change, Session

\* Who was sent the whole board plays no guessing part in that game: for any
\* number of sessions and of handlers under way, but for what leaked.
THEOREM BoardIsSecret == Spec => []BoardStaysSecret
<1> DEFINE IInv == TypeOK /\ Alone /\ Older /\ Gone /\ Blind /\ Secret
<1>1. Init => IInv
  <2> SUFFICES ASSUME Init PROVE IInv
    OBVIOUS
  <2>1. TypeOK
    BY InitType
  <2>2. \A j \in JobId : jobs[j] = Idle
    BY DEF Init
  <2>3. Alone /\ Older /\ Blind
    BY <2>2, IdleFacts DEF Alone, Older, Blind, Init, NoGame
  <2>4. Gone /\ Secret
    BY DEF Init, Gone, Secret, NoGame, Session, Absent
  <2>5. QED BY <2>1, <2>3, <2>4
<1>2. IInv /\ [Next]_vars => IInv'
  BY NextType, AloneStep, OlderStep, GoneStep, BlindStep, SecretStep
<1>3. IInv => BoardStaysSecret
  BY DEF Secret, BoardStaysSecret
<1>4. QED BY <1>1, <1>2, <1>3, PTL DEF Spec

-----------------------------------------------------------------------------
(* Whoever is on a team is in its set.  Only a bot is in between: its record *)
(* has its team before the set lists it, so a handler that adds a bot must   *)
(* be the only one, and its bot absent until it joins.                       *)

Adds(i) == jobs[i].kind = "add"
OneAdd  == \A i, k \in JobId : i # k => ~(Adds(i) /\ Adds(k))
NewBot  ==
  \A i \in JobId : Adds(i) /\ jobs[i].bot \in Bot /\ player[jobs[i].bot].here
    => jobs[i].at = "list" /\ player[jobs[i].bot].team = jobs[i].team

\* A bot keeps its team as long as it is there, and none appears.
BotsStay == \A b \in Bot : player'[b].here => player[b].here /\ player'[b].team = player[b].team

\* Who is missing from the set of its team was so before, or is being added.
NobodyDelisted ==
  \A s \in Session, t \in Team : player'[s].here /\ player'[s].team = t =>
    \/ s \in teamSet'[t] \cup unlisted'
    \/ \E j \in JobId : jobs'[j].kind = "add" /\ jobs'[j].bot = s
    \/ player[s].here /\ player[s].team = t /\ s \notin teamSet[t] \cup unlisted

\* A handler that adds a bot goes on with it, until the bot is listed, gone or
\* known not to be listed.
AddsGoOn ==
  \A j \in JobId : LET b == jobs[j].bot IN
    Adds(j) /\ b \in Session /\ player'[b].here =>
      \/ jobs'[j].kind = "add" /\ jobs'[j].bot = b
      \/ \A t \in Team : player'[b].team = t => b \in teamSet'[t] \cup unlisted'

LEMMA ListedIsEnough ==
  ASSUME SeatedIsListed, NobodyDelisted, AddsGoOn
  PROVE  SeatedIsListed'
BY DEF SeatedIsListed, NobodyDelisted, AddsGoOn, Adds

LEMMA SwitchLists ==
  ASSUME TypeOK, NEW s \in Human, NEW t \in Team \cup {NoTeam}, SwitchTeam(s, t)
  PROVE  NobodyDelisted /\ BotsStay
<1>1. \A u \in Session \ {s} : player'[u] = player[u]
  BY DEF SwitchTeam, TypeOK
<1>2. player'[s].team = t
  BY DEF SwitchTeam, TypeOK, Player, Session
<1>3. \A u \in Session \ {s}, v \in Team : u \in teamSet[v] => u \in teamSet'[v]
  BY DEF SwitchTeam, TypeOK
<1>4. t \in Team => s \in teamSet'[t]
  BY DEF SwitchTeam, TypeOK
<1>5. unlisted' = unlisted \ {s}
  BY DEF SwitchTeam
<1>6. NobodyDelisted
  BY <1>1, <1>2, <1>3, <1>4, <1>5 DEF NobodyDelisted
<1>7. QED
  BY <1>1, <1>6, SessionsAssumption DEF BotsStay, Session

LEMMA ForgetLists ==
  ASSUME TypeOK, NEW s \in Session, Forget(s),
         \A u \in Session \ {s}, t \in Team : u \in teamSet[t] => u \in teamSet'[t]
  PROVE  NobodyDelisted /\ BotsStay
<1>1. \A u \in Session \ {s} : player'[u] = player[u]
  BY DEF Forget, TypeOK
<1>2. ~player'[s].here /\ unlisted' = unlisted \ {s}
  BY DEF Forget, TypeOK, Absent
<1>3. QED BY <1>1, <1>2 DEF NobodyDelisted, BotsStay, Session

LEMMA ListsUntouched ==
  ASSUME UNCHANGED <<player, teamSet, unlisted>>
  PROVE  NobodyDelisted /\ BotsStay
BY DEF NobodyDelisted, BotsStay

\* The steps that write a record, a set or the history of the pruned; all but
\* the arrival of a bot leave the bots as they are.
LEMMA StepLists ==
  ASSUME TypeOK, NEW j \in JobId, Step(j)
  PROVE  NobodyDelisted /\ (BotsStay \/ JoinBot(j))
<1>1. CASE Check(j) \/ UndoFails(j) \/ AnswerError(j)
  BY <1>1, ListsUntouched DEF Check, UndoFails, AnswerError, history
<1>2. CASE Switch(j)
  <2>1. jobs[j].s \in Human /\ jobs[j].team \in Team \cup {NoTeam}
    BY <1>2, HandlerType DEF Switch, At
  <2>2. QED BY <1>2, <2>1, SwitchLists, ListsUntouched DEF Switch
<1>3. CASE Seat(j)
  <2>1. \A s \in Session : player'[s].here = player[s].here /\ player'[s].team = player[s].team
    BY <1>3 DEF Seat, TypeOK, Player
  <2>2. UNCHANGED <<teamSet, unlisted>>
    BY <1>3 DEF Seat
  <2>3. QED BY <2>1, <2>2 DEF NobodyDelisted, BotsStay, Session
<1>4. CASE Undo(j)
  <2>1. jobs[j].s \in Human /\ jobs[j].old \in Team \cup {NoTeam}
    BY <1>4, HandlerType DEF Undo, At
  <2>2. QED BY <1>4, <2>1, SwitchLists, ListsUntouched DEF Undo
<1>5. CASE View(j)      BY <1>5, ListsUntouched DEF View
<1>6. CASE SendViews(j) BY <1>6, ListsUntouched DEF SendViews
<1>7. CASE Read(j)      BY <1>7, ListsUntouched DEF Read
<1>8. CASE Prune(j)
  <2> DEFINE t == jobs[j].team
             out == jobs[j].gone \cup jobs[j].lost
             hit == {m \in out : player[m].here /\ player[m].team = t}
  <2>1. \A s \in Session : player'[s] = IF s \in jobs[j].gone THEN Absent ELSE player[s]
    BY <1>8 DEF Prune
  <2>2. \A u \in Team : teamSet'[u] = IF u = t THEN teamSet[u] \ out ELSE teamSet[u]
    BY <1>8 DEF Prune, TypeOK
  <2>3. unlisted' = (unlisted \cup hit) \ jobs[j].gone
    BY <1>8 DEF Prune
  <2>4. ~Absent.here
    BY DEF Absent
  <2>5. BotsStay
    BY <2>1, <2>4 DEF BotsStay, Session
  <2>6. NobodyDelisted
    <3> SUFFICES ASSUME NEW s \in Session, NEW u \in Team, player'[s].here, player'[s].team = u,
                        s \in teamSet[u] \cup unlisted
                 PROVE  s \in teamSet'[u] \cup unlisted'
      BY <2>1, <2>4 DEF NobodyDelisted
    <3>1. s \notin jobs[j].gone /\ player[s].here /\ player[s].team = u
      BY <2>1, <2>4
    <3>2. CASE s \in unlisted
      BY <2>3, <3>1, <3>2
    <3>3. CASE s \in teamSet[u]
      BY <2>2, <2>3, <3>1, <3>3
    <3>4. QED BY <3>2, <3>3
  <2>7. QED BY <2>5, <2>6
<1>9. CASE Wipe(j)
  <2>1. \A u \in Team : teamSet'[u] = IF u = jobs[j].team THEN {} ELSE teamSet[u]
    BY <1>9 DEF Wipe, TypeOK
  <2>2. unlisted' = unlisted \cup Members(jobs[j].team) /\ player' = player
    BY <1>9 DEF Wipe
  <2>3. QED BY <2>1, <2>2 DEF NobodyDelisted, BotsStay, Members
<1>10. CASE JoinBot(j)
  <2>1. jobs[j].bot \in Bot /\ jobs[j].kind = "add"
    BY <1>10, HandlerType DEF JoinBot, At, JobOK
  <2>2. jobs'[j].kind = "add" /\ jobs'[j].bot = jobs[j].bot
    BY <1>10, <2>1 DEF JoinBot, Go, TypeOK, Job
  <2>3. \A s \in Session \ {jobs[j].bot} : player'[s] = player[s]
    BY <1>10 DEF JoinBot, TypeOK
  <2>4. UNCHANGED <<teamSet, unlisted>>
    BY <1>10 DEF JoinBot
  <2>5. QED BY <1>10, <2>2, <2>3, <2>4 DEF NobodyDelisted
<1>11. CASE ListBot(j) \/ ListFails(j)
  <2>1. jobs[j].bot \in Session
    BY <1>11, HandlerType DEF ListBot, ListFails, At, JobOK, Session
  <2>2. \A t \in Team : teamSet[t] \subseteq teamSet'[t]
    BY <1>11 DEF ListBot, ListFails, TypeOK
  <2>3. CASE Forget(jobs[j].bot)
    BY <2>1, <2>2, <2>3, ForgetLists
  <2>4. CASE ~Forget(jobs[j].bot)
    <3>1. UNCHANGED player /\ unlisted \subseteq unlisted'
      BY <1>11, <2>4 DEF ListBot, ListFails, history
    <3>2. QED BY <2>2, <3>1 DEF NobodyDelisted, BotsStay
  <2>5. QED BY <2>3, <2>4
<1>12. CASE Evict(j)
  <2> DEFINE b == jobs[j].bot
  <2>1. CASE UNCHANGED <<player, teamSet, unlisted>>
    BY <2>1, ListsUntouched
  <2>2. CASE ~UNCHANGED <<player, teamSet, unlisted>>
    <3>1. \A s \in Session : player'[s] = IF s = b THEN Absent ELSE player[s]
      BY <1>12, <2>2 DEF Evict, TypeOK
    <3>2. /\ unlisted' = unlisted \ {b} /\ ~Absent.here
          /\ \A t \in Team : teamSet[t] \ {b} \subseteq teamSet'[t]
      BY <1>12, <2>2 DEF Evict, Absent, TypeOK
    <3>3. QED BY <3>1, <3>2 DEF NobodyDelisted, BotsStay, Session
  <2>3. QED BY <2>1, <2>2
<1>13. QED
  BY <1>1, <1>2, <1>3, <1>4, <1>5, <1>6, <1>7, <1>8, <1>9, <1>10, <1>11, <1>12 DEF Step

LEMMA ProceedAdds ==
  ASSUME NEW h \in Job
  PROVE  \/ Proceed(h) = Idle /\ (h.kind = "add" => h.bot = Nobody)
         \/ /\ h.kind = "add" => h.bot # Nobody
            /\ Proceed(h).kind = h.kind /\ Proceed(h).bot = h.bot /\ Proceed(h).team = h.team
            /\ Proceed(h).at # "list"
         \/ h.kind # "add" /\ Proceed(h) = Idle
BY DEF Proceed, Job

\* What a step of a handler does to a handler that adds a bot: the look may
\* drop the bot, arriving brings it to its listing, which ends it.
LEMMA StepAdds ==
  ASSUME TypeOK, NEW j \in JobId, Step(j)
  PROVE  /\ \A i \in JobId \ {j} : jobs'[i] = jobs[i]
         /\ jobs'[j].kind = "add" =>
              /\ jobs[j].kind = "add" /\ jobs'[j].team = jobs[j].team
              /\ jobs'[j].bot \in {jobs[j].bot, Nobody}
              /\ jobs[j].at # "list"
              /\ jobs'[j].at = "list" => JoinBot(j)
         /\ jobs[j].kind = "add" =>
              \/ ListBot(j) \/ ListFails(j)
              \/ jobs'[j].kind = "add" /\ jobs'[j].bot = jobs[j].bot
              \/ jobs[j].bot = Nobody
              \/ Read(j)
<1>0. jobs[j] \in Job /\ JobOK(jobs[j])
  BY HandlerType
<1>1. CASE Check(j)
  <2>1. jobs[j].kind # "add" /\ Idle.kind # "add"
    BY <1>0, <1>1 DEF JobOK, Check, At, Guarded, Idle, Handler
  <2>2. QED BY <1>1, <2>1, CheckKeeps
<1>2. CASE Switch(j) \/ Seat(j) \/ Undo(j) \/ UndoFails(j) \/ AnswerError(j)
  <2>1. jobs[j].kind # "add"
    BY <1>0, <1>2 DEF JobOK, Switch, Seat, Undo, UndoFails, AnswerError, At, Guarded
  <2>2. MovesOn(j)
    BY <1>2, EndMoves, GoMoves DEF Switch, Seat, Undo, UndoFails, AnswerError
  <2>3. QED BY <2>1, <2>2 DEF MovesOn, Idle, Handler
<1>3. CASE View(j) \/ SendViews(j) \/ Evict(j)
  <2>1. jobs[j].kind # "add"
    BY <1>0, <1>3 DEF JobOK, View, SendViews, Evict, At, Guarded
  <2>2. MovesOn(j)
    BY <1>3, EndMoves DEF View, SendViews, Evict
  <2>3. QED BY <2>1, <2>2 DEF MovesOn, Idle, Handler
<1>4. CASE Read(j)
  <2> DEFINE list == IF jobs[j].team = NoTeam THEN {} ELSE teamSet[jobs[j].team]
             g0 == {m \in list : ~player[m].here}
             l0 == {m \in list : player[m].here /\ player[m].team # jobs[j].team}
  <2>1. PICK b \in IF BotsFor(jobs[j]) = {} THEN {Nobody} ELSE BotsFor(jobs[j]) :
          LET found == [jobs[j] EXCEPT !.bot = b, !.gone = g0, !.lost = l0] IN
          jobs' = [jobs EXCEPT ![j] = IF g0 \cup l0 # {} THEN [found EXCEPT !.at = "prune"]
                                                         ELSE Proceed(found)]
    BY <1>4 DEF Read
  <2> DEFINE found == [jobs[j] EXCEPT !.bot = b, !.gone = g0, !.lost = l0]
  <2>2. b \in Bot \cup {Nobody} /\ g0 \in SUBSET Session /\ l0 \in SUBSET Session
    BY HandlerType DEF BotsFor, TypeOK, Job
  <2>3. jobs[j].kind = "add" => b \in {jobs[j].bot, Nobody}
    BY DEF BotsFor
  <2> HIDE DEF g0, l0
  <2>4. /\ found \in Job /\ found.kind = jobs[j].kind /\ found.team = jobs[j].team
        /\ found.bot = b
    BY <1>0, <2>2 DEF Job
  <2>5. jobs[j].at # "list" /\ Idle.kind # "add"
    BY <1>4 DEF Read, At, Idle, Handler
  <2>6. CASE g0 \cup l0 # {}
    <3>1. jobs' = [jobs EXCEPT ![j] = [found EXCEPT !.at = "prune"]]
      BY <2>1, <2>6
    <3>2. QED BY <1>4, <2>3, <2>4, <2>5, <3>1 DEF TypeOK, Job
  <2>7. CASE g0 \cup l0 = {}
    <3>1. jobs' = [jobs EXCEPT ![j] = Proceed(found)]
      BY <2>1, <2>7
    <3>2. QED BY <1>4, <2>3, <2>4, <2>5, <3>1, ProceedAdds DEF TypeOK
  <2>8. QED BY <2>6, <2>7
<1>5. CASE Prune(j)
  <2>1. \/ jobs' = [jobs EXCEPT ![j] = [jobs[j] EXCEPT !.at = "wipe"]]
        \/ jobs' = [jobs EXCEPT ![j] = Proceed(jobs[j])]
    BY <1>5 DEF Prune
  <2>2. jobs[j].at # "list" /\ Idle.kind # "add"
    BY <1>5 DEF Prune, At, Idle, Handler
  <2>3. QED BY <1>0, <2>1, <2>2, ProceedAdds DEF TypeOK, Job
<1>6. CASE Wipe(j)
  <2>1. jobs' = [jobs EXCEPT ![j] = Proceed(jobs[j])]
    BY <1>6 DEF Wipe
  <2>2. jobs[j].at # "list" /\ Idle.kind # "add"
    BY <1>6 DEF Wipe, At, Idle, Handler
  <2>3. QED BY <1>0, <2>1, <2>2, ProceedAdds DEF TypeOK
<1>7. CASE JoinBot(j)
  <2>1. jobs' = [jobs EXCEPT ![j] = [jobs[j] EXCEPT !.at = "list"]] /\ jobs[j].at = "join"
    BY <1>7 DEF JoinBot, Go, At
  <2>2. QED BY <1>0, <1>7, <2>1 DEF TypeOK, Job
<1>8. CASE ListBot(j) \/ ListFails(j)
  BY <1>8, EndMoves DEF ListBot, ListFails, MovesOn, Idle, Handler
<1>9. QED BY <1>1, <1>2, <1>3, <1>4, <1>5, <1>6, <1>7, <1>8 DEF Step

\* What begins: a handler that adds a bot only when there is none, for a bot
\* that is not there.
Commences(j) ==
  /\ \A i \in JobId \ {j} : jobs'[i] = jobs[i]
  /\ jobs'[j].kind = "add" =>
       /\ ~Adding /\ jobs'[j].at = "read"
       /\ jobs'[j].bot \in Bot /\ ~player[jobs'[j].bot].here
  /\ jobs[j].at = "idle"

LEMMA StepSorts ==
  ASSUME TypeOK, [Next]_vars
  PROVE  \/ \E j \in JobId : Step(j)
         \/ NobodyDelisted /\ BotsStay /\ ((\E j \in JobId : Commences(j)) \/ UNCHANGED jobs)
<1> USE DEF TypeOK, Commences, Handler
<1>1. ASSUME NEW j \in JobId, StartGame(j)
      PROVE  Commences(j) /\ NobodyDelisted /\ BotsStay
  BY <1>1, ListsUntouched DEF StartGame, At
<1>2. ASSUME NEW j \in JobId, NEW s \in Human, Change(j, s)
      PROVE  Commences(j) /\ NobodyDelisted /\ BotsStay
  <2>1. ASSUME NEW kind \in Guarded, NEW t, NEW r, StartChange(j, s, kind, t, r)
        PROVE  Commences(j) /\ NobodyDelisted /\ BotsStay
    BY <2>1, ListsUntouched DEF StartChange, At, Guarded, history
  <2>2. ASSUME NEW t \in Team, StartApprove(j, s, t)
        PROVE  Commences(j) /\ NobodyDelisted /\ BotsStay
    BY <2>2, ListsUntouched DEF StartApprove, At, history
  <2>3. QED BY <1>2, <2>1, <2>2 DEF Change, Guarded
<1>3. ASSUME NEW j \in JobId, NEW s \in Human, Reconnect(j, s)
      PROVE  Commences(j) /\ NobodyDelisted /\ BotsStay
  <2>1. Commences(j)
    BY <1>3 DEF Reconnect, At
  <2>2. \A u \in Session : player'[u].here = player[u].here /\ player'[u].team = player[u].team
    BY <1>3 DEF Reconnect, ComesBack, Player, Session
  <2>3. UNCHANGED <<teamSet, unlisted>>
    BY <1>3 DEF Reconnect
  <2>4. QED BY <2>1, <2>2, <2>3 DEF NobodyDelisted, BotsStay, Session
<1>4. ASSUME NEW j \in JobId, NEW t \in Team, StartRoster(j, t)
      PROVE  Commences(j) /\ NobodyDelisted /\ BotsStay
  BY <1>4, ListsUntouched DEF StartRoster, At, history
<1>5. ASSUME NEW j \in JobId, NEW b \in Bot, NEW t \in Team, NEW r, StartAdd(j, b, t, r)
      PROVE  Commences(j) /\ NobodyDelisted /\ BotsStay
  <2>1. jobs' = [jobs EXCEPT ![j] = [Handler("add", "read", Nobody, t, r) EXCEPT !.bot = b]]
        /\ ~player[b].here /\ ~Adding /\ jobs[j].at = "idle"
    BY <1>5 DEF StartAdd, At
  <2>2. Commences(j)
    BY <2>1
  <2>3. QED BY <1>5, <2>2, ListsUntouched DEF StartAdd, history
<1>6. ASSUME NEW s \in Human, Drop(s) \/ Rejoin(s)
      PROVE  NobodyDelisted /\ BotsStay /\ UNCHANGED jobs
  <2>1. \A u \in Session : player'[u].here = player[u].here /\ player'[u].team = player[u].team
    BY <1>6 DEF Drop, Rejoin, ComesBack, Player, Session
  <2>2. UNCHANGED <<teamSet, unlisted, jobs>>
    BY <1>6 DEF Drop, Rejoin
  <2>3. QED BY <2>1, <2>2 DEF NobodyDelisted, BotsStay, Session
<1>7. ASSUME NEW s \in Human, Lapse(s)
      PROVE  NobodyDelisted /\ BotsStay /\ UNCHANGED jobs
  BY <1>7, ForgetLists DEF Lapse, Session
<1>8. ASSUME NEW s \in Human, Join(s)
      PROVE  NobodyDelisted /\ BotsStay /\ UNCHANGED jobs
  <2>1. \A u \in Session \ {s} : player'[u] = player[u]
    BY <1>8 DEF Join
  <2>2. player'[s].team = NoTeam
    BY <1>8 DEF Join, Fresh, Absent, Session
  <2>3. UNCHANGED <<teamSet, unlisted, jobs>>
    BY <1>8 DEF Join, history
  <2>4. QED
    BY <2>1, <2>2, <2>3, SessionsAssumption, TeamsAssumption
    DEF NobodyDelisted, BotsStay, Session
<1>9. ASSUME NEW s \in Session, Remove(s)
      PROVE  NobodyDelisted /\ BotsStay /\ UNCHANGED jobs
  <2>1. \A u \in Session \ {s}, t \in Team : u \in teamSet[t] => u \in teamSet'[t]
    BY <1>9 DEF Remove
  <2>2. QED BY <1>9, <2>1, ForgetLists DEF Remove
<1>10. CASE EndTurn \/ EndGame
  BY <1>10, ListsUntouched DEF EndTurn, EndGame, history
<1>11. CASE UNCHANGED vars
  BY <1>11, ListsUntouched DEF vars, history
<1>12. QED
  BY <1>1, <1>2, <1>3, <1>4, <1>5, <1>6, <1>7, <1>8, <1>9, <1>10, <1>11 DEF Next

LEMMA AddStep ==
  TypeOK /\ OneAdd /\ NewBot /\ SeatedIsListed /\ [Next]_vars
    => OneAdd' /\ NewBot' /\ SeatedIsListed'
<1> SUFFICES ASSUME TypeOK, OneAdd, NewBot, SeatedIsListed, [Next]_vars
             PROVE  OneAdd' /\ NewBot' /\ SeatedIsListed'
  OBVIOUS
<1>1. ASSUME NEW j \in JobId, Step(j) PROVE OneAdd' /\ NewBot' /\ SeatedIsListed'
  <2>1. OneAdd'
    BY <1>1, StepAdds DEF OneAdd, Adds
  <2>2. ASSUME BotsStay PROVE NewBot'
    <3>1. CASE JoinBot(j)
      <4>1. jobs'[j].at = "list"
        BY <3>1, GoMoves DEF JoinBot
      <4>2. jobs[j].bot \in Bot /\ jobs[j].kind = "add"
        BY <3>1, HandlerType DEF JoinBot, At, JobOK
      <4>3. player'[jobs[j].bot].here /\ ~player[jobs[j].bot].here
        BY <3>1, <4>2 DEF JoinBot, NewBot, Adds, At, TypeOK, Session
      <4>4. QED BY <2>2, <4>2, <4>3 DEF BotsStay
    <3>2. CASE ~JoinBot(j)
      <4> SUFFICES ASSUME NEW i \in JobId, jobs'[i].kind = "add", jobs'[i].bot \in Bot,
                          player'[jobs'[i].bot].here
                   PROVE  jobs'[i].at = "list" /\ player'[jobs'[i].bot].team = jobs'[i].team
        BY DEF NewBot, Adds
      <4>1. CASE i # j
        <5>1. jobs'[i] = jobs[i]
          BY <1>1, <4>1, StepAdds
        <5>2. player[jobs[i].bot].here /\ player'[jobs[i].bot].team = player[jobs[i].bot].team
          BY <2>2, <5>1 DEF BotsStay
        <5>3. QED BY <5>1, <5>2 DEF NewBot, Adds
      <4>2. CASE i = j
        <5>1. jobs[j].kind = "add" /\ jobs'[j].bot = jobs[j].bot /\ jobs[j].at # "list"
          BY <1>1, <4>2, StepAdds, SessionsAssumption DEF Session
        <5>2. player[jobs[j].bot].here
          BY <2>2, <4>2, <5>1 DEF BotsStay
        <5>3. QED BY <4>2, <5>1, <5>2 DEF NewBot, Adds
      <4>3. QED BY <4>1, <4>2
    <3>3. QED BY <3>1, <3>2
  <2>3. ASSUME JoinBot(j) PROVE NewBot'
    <3>1. jobs[j].bot \in Bot /\ jobs[j].kind = "add"
      BY <2>3, HandlerType DEF JoinBot, At, JobOK
    <3>2. /\ \A b \in Bot \ {jobs[j].bot} : player'[b] = player[b]
          /\ player'[jobs[j].bot].team = jobs[j].team
      BY <2>3, <3>1 DEF JoinBot, TypeOK, Session
    <3>3. jobs'[j].at = "list" /\ jobs'[j].team = jobs[j].team /\ jobs'[j].bot = jobs[j].bot
      BY <2>3 DEF JoinBot, Go, TypeOK, Job
    <3>4. \A i \in JobId \ {j} : jobs'[i] = jobs[i] /\ ~Adds(i)
      BY <1>1, <3>1, StepAdds DEF OneAdd, Adds
    <3>5. \A i \in JobId : jobs'[i].kind = "add" => i = j
      BY <3>4 DEF Adds
    <3>6. \A i \in JobId : jobs'[i].kind = "add" =>
            jobs'[i].at = "list" /\ player'[jobs'[i].bot].team = jobs'[i].team
      BY <3>2, <3>3, <3>5
    <3>7. QED BY <3>6 DEF NewBot, Adds
  <2>4. NewBot'
    BY <1>1, <2>2, <2>3, StepLists
  <2>5. AddsGoOn
    <3> SUFFICES ASSUME NEW i \in JobId, jobs[i].kind = "add", jobs[i].bot \in Session,
                        player'[jobs[i].bot].here
                 PROVE  \/ jobs'[i].kind = "add" /\ jobs'[i].bot = jobs[i].bot
                        \/ \A t \in Team : player'[jobs[i].bot].team = t
                                  => jobs[i].bot \in teamSet'[t] \cup unlisted'
      BY DEF AddsGoOn, Adds
    <3>1. CASE i # j
      BY <1>1, <3>1, StepAdds
    <3>2. CASE i = j /\ (ListBot(j) \/ ListFails(j))
      <4>1. jobs[j].bot \in Bot /\ jobs[j].team \in Team
        BY <3>2, HandlerType DEF ListBot, ListFails, At, JobOK
      <4>2. player' = player
        BY <3>2, <4>1 DEF ListBot, ListFails, Forget, Absent, TypeOK, Session
      <4>3. jobs[j].bot \in teamSet'[jobs[j].team] \cup unlisted'
        BY <3>2, <4>1, <4>2 DEF ListBot, ListFails, Forget, Absent, TypeOK, Session
      <4>4. player[jobs[j].bot].team = jobs[j].team
        BY <3>2, <4>1, <4>2 DEF NewBot, Adds
      <4>5. QED BY <3>2, <4>1, <4>2, <4>3, <4>4
    <3>3. CASE i = j /\ Read(j)
      <4>1. jobs[j].bot \in Bot
        BY <3>3, HandlerType, SessionsAssumption
      <4>2. player' = player /\ jobs[j].at = "read"
        BY <3>3 DEF Read, At
      <4>3. QED BY <3>3, <4>1, <4>2 DEF NewBot, Adds
    <3>4. QED BY <1>1, <3>1, <3>2, <3>3, StepAdds, SessionsAssumption
  <2>6. QED BY <1>1, <2>1, <2>4, <2>5, StepLists, ListedIsEnough
<1>2. ASSUME NobodyDelisted, BotsStay, NEW j \in JobId, Commences(j)
      PROVE  OneAdd' /\ NewBot' /\ SeatedIsListed'
  <2>1. OneAdd'
    BY <1>2 DEF OneAdd, Adds, Commences, Adding
  <2>2. NewBot'
    BY <1>2 DEF NewBot, Adds, Commences, BotsStay
  <2>3. ASSUME jobs[j].kind = "add", jobs[j].bot \in Session PROVE ~player'[jobs[j].bot].here
    <3>1. jobs[j].bot \in Bot
      BY <2>3, HandlerType, SessionsAssumption
    <3>2. QED BY <1>2, <2>3, <3>1 DEF Commences, NewBot, Adds, BotsStay
  <2>4. AddsGoOn
    BY <1>2, <2>3 DEF AddsGoOn, Adds, Commences
  <2>5. QED BY <1>2, <2>1, <2>2, <2>4, ListedIsEnough
<1>3. ASSUME NobodyDelisted, BotsStay, UNCHANGED jobs
      PROVE  OneAdd' /\ NewBot' /\ SeatedIsListed'
  <2>1. OneAdd' /\ NewBot' /\ AddsGoOn
    BY <1>3 DEF OneAdd, NewBot, BotsStay, AddsGoOn, Adds
  <2>2. QED BY <1>3, <2>1, ListedIsEnough
<1>4. QED BY <1>1, <1>2, <1>3, StepSorts

\* The team sets lose nobody who is on the team: for any number of sessions and
\* handlers, but for who was pruned on the strength of an older record, and for
\* a bot whose rollback failed.
THEOREM TeamsAreListed == Spec => []SeatedIsListed
<1>1. Init => OneAdd /\ NewBot /\ SeatedIsListed
  <2> SUFFICES ASSUME Init PROVE OneAdd /\ NewBot /\ SeatedIsListed
    OBVIOUS
  <2>1. \A i \in JobId : ~Adds(i)
    BY DEF Init, Adds, Idle, Handler
  <2>2. SeatedIsListed
    BY DEF Init, SeatedIsListed, Session, Absent
  <2>3. QED BY <2>1, <2>2 DEF OneAdd, NewBot
<1>2. TypeOK /\ (OneAdd /\ NewBot /\ SeatedIsListed) /\ [Next]_vars
        => (OneAdd /\ NewBot /\ SeatedIsListed)'
  BY AddStep
<1>3. QED BY <1>1, <1>2, TypeIsRight, PTL DEF Spec

-----------------------------------------------------------------------------
(* What a change of team may do.  A handler that is under way moves by its   *)
(* own steps only, and one that holds the lock of its session is at one of   *)
(* the steps of a change.                                                    *)

LEMMA OwnStep ==
  ASSUME TypeOK, [Next]_vars, NEW j \in JobId, jobs'[j] # jobs[j], jobs[j].at # "idle"
  PROVE  Step(j)
BY StepSorts, StepAdds DEF Commences

Placed ==
  \A j \in JobId :
    jobs[j].kind \in Guarded => jobs[j].at \in {"check", "switch", "seat", "undo", "failed", "view"}

LEMMA PlacedStep == TypeOK /\ Placed /\ [Next]_vars => Placed'
<1> SUFFICES ASSUME TypeOK, Placed, [Next]_vars, NEW j \in JobId, jobs'[j].kind \in Guarded
             PROVE  jobs'[j].at \in {"check", "switch", "seat", "undo", "failed", "view"}
  BY DEF Placed
<1>1. ASSUME NEW k, Step(k), k \in JobId
      PROVE  jobs'[j].at \in {"check", "switch", "seat", "undo", "failed", "view"}
  <2>1. CASE Check(k)
    BY <1>1, <2>1, CheckKeeps, IdleFacts DEF Placed
  <2>2. CASE ~Check(k)
    <3>1. MovesOn(k)
      BY <1>1, <2>2, StepMoves
    <3>2. CASE k # j
      BY <3>1, <3>2 DEF MovesOn, Placed
    <3>3. CASE k = j
      <4>1. jobs[j].kind \in Guarded /\ jobs'[j] # Idle
        BY <3>1, <3>3, IdleFacts DEF MovesOn
      <4>2. jobs[j].at \in {"check", "switch", "seat", "undo", "failed", "view"} /\ jobs[j].kind # "start"
        BY <4>1 DEF Placed, Guarded
      <4>3. ~Undo(j) /\ ~AnswerError(j) /\ ~View(j)
        BY <4>1, EndMoves DEF Undo, AnswerError, View
      <4>4. ~SendViews(j) /\ ~Read(j) /\ ~Prune(j) /\ ~Wipe(j) /\ ~JoinBot(j) /\ ~ListBot(j)
             /\ ~ListFails(j) /\ ~Evict(j)
        BY <4>2 DEF At, SendViews, Read, Prune, Wipe, JoinBot, ListBot, ListFails, Evict
      <4>5. Switch(j) \/ Seat(j) \/ UndoFails(j)
        BY <1>1, <2>2, <3>3, <4>3, <4>4 DEF Step
      <4>6. CASE Switch(j)
        BY <4>1, <4>6, EndMoves, GoMoves DEF Switch
      <4>7. CASE Seat(j)
        BY <4>1, <4>7, EndMoves, GoMoves DEF Seat
      <4>8. CASE UndoFails(j)
        BY <4>8, GoMoves DEF UndoFails
      <4>9. QED BY <4>5, <4>6, <4>7, <4>8
    <3>4. QED BY <3>2, <3>3
  <2>3. QED BY <2>1, <2>2
<1>2. ASSUME NEW k \in JobId, Begins(k)
      PROVE  jobs'[j].at \in {"check", "switch", "seat", "undo", "failed", "view"}
  BY <1>2 DEF Begins, Placed
<1>3. CASE UNCHANGED jobs
  BY <1>3 DEF Placed
<1>4. QED BY <1>1, <1>2, <1>3, StepKinds

\* What the three steps that write the team of a player who changes write.
LEMMA SwitchWrites ==
  ASSUME TypeOK, NEW s \in Session, NEW t \in Team \cup {NoTeam}, SwitchTeam(s, t)
  PROVE  player'[s].team = t /\ \A u \in Session \ {s} : player'[u] = player[u]
BY DEF SwitchTeam, TypeOK, Player

\* No change of team that a member asks for, in the game its handler looked at,
\* leaves its team without a connected player: another one was seen in the set.
THEOREM TeamsAreManned == Spec => TeamsStayManned
<1> DEFINE A == \A j \in JobId, s \in Human, t \in Team :
       (/\ At(j, "switch") /\ jobs'[j].at # "switch" /\ jobs[j].s = s /\ ~Stale(jobs[j])
        /\ player[s].team = t /\ jobs[j].old = t /\ game.live
        /\ player'[s].here /\ player'[s].team # t
        /\ Manned(t) /\ Ghosts(t) = {})
         => Manned(t)'
<1>1. TypeOK /\ [Next]_vars => A
  <2> SUFFICES ASSUME TypeOK, [Next]_vars, NEW j \in JobId, NEW s \in Human, NEW t \in Team,
                      jobs[j].at = "switch", jobs'[j].at # "switch", jobs[j].s = s,
                      ~Stale(jobs[j]), player[s].team = t, jobs[j].old = t, game.live,
                      player'[s].team # t, Ghosts(t) = {}
               PROVE  Manned(t)'
    BY DEF At
  <2>1. Switch(j)
    BY OwnStep
    DEF Step, At, Check, Seat, Undo, UndoFails, AnswerError, View, SendViews, Read, Prune, Wipe,
        JoinBot, ListBot, ListFails, Evict
  <2>2. SwitchTeam(s, jobs[j].team) /\ ~(ChecksEmpty(jobs[j]) /\ WouldBeEmpty(s, jobs[j].team))
    BY <2>1 DEF Switch
  <2>3. jobs[j].team \in Team \cup {NoTeam} /\ s \in Session
    BY HandlerType DEF Session
  <2>4. jobs[j].team # t
    BY <2>2, <2>3, SwitchWrites
  <2>5. ChecksEmpty(jobs[j])
    BY <2>4, TeamsAssumption DEF ChecksEmpty, Stale, Look
  <2>6. PICK m \in teamSet[t] \ {s} : Up(m)
    BY <2>2, <2>4, <2>5, TeamsAssumption DEF WouldBeEmpty
  <2>7. m \in Session /\ player[m].team = t
    BY <2>6 DEF Ghosts, Up, TypeOK
  <2>8. player'[m] = player[m]
    BY <2>2, <2>3, <2>6, <2>7, SwitchWrites
  <2>9. QED BY <2>6, <2>7, <2>8 DEF Manned, Up
<1>2. QED BY <1>1, TypeIsRight, PTL DEF Spec, TeamsStayManned

\* A combined change that is refused leaves a player on the team it came from:
\* the rollback, the refusals before the switch and those after it; only a
\* rollback that has failed answers otherwise.
THEOREM RefusalsKeepTheTeam == Spec => RefusedKeepsTeam
<1> DEFINE A == \A j \in JobId : LET s == jobs[j].s IN
       (jobs[j].kind = "both" /\ jobs'[j] = Idle /\ jobs[j].old # NoTeam /\ player'[s].here
          /\ jobs[j].at \notin {"check", "view", "failed"} /\ player'[s].role # jobs[j].role)
         => player'[s].team # jobs[j].team \/ jobs[j].old = jobs[j].team
<1>1. TypeOK /\ Placed /\ [Next]_vars => A
  <2> SUFFICES ASSUME TypeOK, Placed, [Next]_vars, NEW j \in JobId,
                      jobs[j].kind = "both", jobs'[j] = Idle, jobs[j].old # NoTeam,
                      player'[jobs[j].s].here, jobs[j].at \notin {"check", "view", "failed"},
                      player'[jobs[j].s].role # jobs[j].role
               PROVE  player'[jobs[j].s].team # jobs[j].team \/ jobs[j].old = jobs[j].team
    OBVIOUS
  <2> DEFINE s == jobs[j].s
  <2>1. jobs[j].at \in {"switch", "seat", "undo"} /\ jobs'[j] # jobs[j]
    BY IdleFacts DEF Placed, Guarded
  <2>2. Switch(j) \/ Seat(j) \/ Undo(j)
    <3>1. ~UndoFails(j)
      BY GoMoves DEF UndoFails, Idle, Handler
    <3>2. QED
      BY <2>1, <3>1, OwnStep
      DEF Step, At, Check, AnswerError, View, SendViews, Read, Prune, Wipe, JoinBot, ListBot,
          ListFails, Evict
  <2>3. s \in Human /\ s \in Session /\ jobs[j].old \in Team
    BY <2>1, HandlerType DEF Session
  <2>4. CASE Switch(j)
    <3>1. jobs'[j] = Idle => ~Go(j, "seat")
      BY GoMoves DEF Idle, Handler
    <3>2. UNCHANGED player /\ (ChecksEmpty(jobs[j]) /\ WouldBeEmpty(s, jobs[j].team))
      BY <2>4, <3>1 DEF Switch
    <3>3. QED BY <3>2 DEF WouldBeEmpty
  <2>5. CASE Seat(j)
    <3>1. ~Go(j, "undo")
      BY GoMoves DEF Idle, Handler
    <3>2. CASE ~player[s].here \/ Refused(s, jobs[j].role)
      BY <2>3, <2>5, <3>1, <3>2 DEF Seat
    <3>3. CASE ~(~player[s].here \/ Refused(s, jobs[j].role))
      <4>1. player' = [player EXCEPT ![s].role = jobs[j].role]
        BY <2>5, <3>3 DEF Seat
      <4>2. player'[s].role = jobs[j].role
        BY <2>3, <4>1 DEF TypeOK, Player
      <4>3. QED BY <4>2
    <3>4. QED BY <3>2, <3>3
  <2>6. CASE Undo(j)
    <3>1. CASE player[s].here
      <4>1. SwitchTeam(s, jobs[j].old)
        BY <2>6, <3>1 DEF Undo
      <4>2. QED BY <2>3, <4>1, SwitchWrites
    <3>2. CASE ~player[s].here
      BY <2>6, <3>2 DEF Undo
    <3>3. QED BY <3>1, <3>2
  <2>7. QED BY <2>2, <2>4, <2>5, <2>6
<1>2. Init => Placed
  BY IdleFacts DEF Init, Placed
<1>3. TypeOK /\ Placed /\ [Next]_vars => Placed'
  BY PlacedStep
<1>4. QED BY <1>1, <1>2, <1>3, TypeIsRight, PTL DEF Spec, RefusedKeepsTeam

-----------------------------------------------------------------------------
(* The stand-in yields.  The handler of a return asks the team set for the   *)
(* bot in the seat and evicts one: which is enough because no two bots that  *)
(* are listed have one seat (a bot is seated under bot-manage, by a handler  *)
(* that found nobody listed there), and who is not listed is noted as raced. *)

In(s, t, r) == Up(s) /\ player[s].team = t /\ player[s].role = r

BackIsUp == \A s \in reclaimed : Up(s)

OneListed ==
  \A a, b \in Bot :
    a # b /\ Up(a) /\ Up(b) /\ SameSeat(a, b)
      => ~(a \in teamSet[player[a].team] /\ b \in teamSet[player[a].team])

\* A handler that has found its seat free: no other bot is listed in it, and
\* its own sits there once it has joined.
FreeFor(job) ==
  /\ \A b \in Bot \ {job.bot} : In(b, job.team, job.role) => b \notin teamSet[job.team]
  /\ job.at = "list" /\ player[job.bot].here => player[job.bot].role = job.role

SeatIsFree ==
  \A j \in JobId : Adds(j) /\ jobs[j].bot \in Bot /\ jobs[j].at # "read" => FreeFor(jobs[j])

\* The handler of the return of s will come upon b, or has.
Awaits(job, s, b) ==
  /\ job.kind = "back" /\ job.s = s
  /\ job.team = player[s].team /\ job.role = player[s].role
  /\ \/ job.at = "read"
     \/ job.bot = b /\ job.at \in {"prune", "wipe", "evict"}

StandInIsAwaited ==
  \A s \in reclaimed, b \in Bot :
    Up(b) /\ SameSeat(s, b) /\ b \notin raced => \E j \in JobId : Awaits(jobs[j], s, b)

\* What a step leaves alone: bots do not come or move, raced ones are noted as
\* long as they are there, who came back keeps the seat, no bot is listed.
BotsRest   == \A b \in Bot : player'[b] = player[b] \/ ~player'[b].here
RacedLast  == \A b \in raced : b \in raced' \/ ~player'[b].here
KeepsSeat(s) ==
  /\ s \in reclaimed
  /\ player'[s].here = player[s].here /\ player'[s].connected = player[s].connected
  /\ player'[s].role \in SeatRole
       => player'[s].role = player[s].role /\ player'[s].team = player[s].team
SeatsLast  == \A s \in reclaimed' : KeepsSeat(s)
NoneListed == \A b \in Bot, t \in Team : b \in teamSet'[t] => b \in teamSet[t]
Rests      == BotsRest /\ RacedLast /\ SeatsLast

LEMMA SwitchRests ==
  ASSUME TypeOK, NEW s \in Human, NEW t \in Team \cup {NoTeam}, SwitchTeam(s, t), UNCHANGED raced
  PROVE  Rests /\ NoneListed
<1>1. s \in Session /\ s \notin Bot
  BY SessionsAssumption DEF Session
<1>2. \A u \in Session \ {s} : player'[u] = player[u]
  BY <1>1, SwitchWrites
<1>3. BotsRest /\ RacedLast
  BY <1>1, <1>2 DEF BotsRest, RacedLast, Session
<1>4. \A u \in Bot, v \in Team : u \in teamSet'[v] => u \in teamSet[v]
  BY <1>1 DEF SwitchTeam, TypeOK
<1>5. /\ player'[s].here = player[s].here /\ player'[s].connected = player[s].connected
      /\ player'[s].team = t
      /\ player'[s].role = IF player[s].team # t /\ player[s].role \in SeatRole
                             THEN "spectator" ELSE player[s].role
  BY <1>1 DEF SwitchTeam, TypeOK, Player
<1>6. reclaimed' \subseteq reclaimed
      /\ (player[s].team # t /\ player[s].role \in SeatRole => s \notin reclaimed')
  BY DEF SwitchTeam, Moves
<1>7. s \in reclaimed' => KeepsSeat(s)
  BY <1>5, <1>6 DEF KeepsSeat
<1>8. \A u \in reclaimed' \ {s} : KeepsSeat(u)
  BY <1>2, <1>6 DEF KeepsSeat, TypeOK, Session
<1>9. QED BY <1>3, <1>4, <1>7, <1>8 DEF Rests, SeatsLast, NoneListed

LEMMA ForgetRests ==
  ASSUME TypeOK, NEW s \in Session, Forget(s)
  PROVE  Rests /\ ((\A t \in Team : teamSet'[t] \subseteq teamSet[t]) => NoneListed)
<1>1. \A u \in Session \ {s} : player'[u] = player[u]
  BY DEF Forget, TypeOK
<1>2. ~player'[s].here /\ raced' = raced \ {s} /\ reclaimed' = reclaimed \ {s}
  BY DEF Forget, TypeOK, Absent, Moves
<1>3. BotsRest /\ RacedLast
  BY <1>1, <1>2 DEF BotsRest, RacedLast, Session, TypeOK
<1>4. SeatsLast
  BY <1>1, <1>2 DEF SeatsLast, KeepsSeat, TypeOK, Session
<1>5. QED BY <1>3, <1>4 DEF Rests, NoneListed

LEMMA UntouchedRests ==
  ASSUME UNCHANGED <<player, raced, reclaimed, teamSet>>
  PROVE  Rests /\ NoneListed
BY DEF Rests, BotsRest, RacedLast, SeatsLast, KeepsSeat, NoneListed

\* All steps of handlers but those that bring a bot in.
LEMMA StepRests ==
  ASSUME TypeOK, NEW j \in JobId, Step(j), ~JoinBot(j), ~ListBot(j), ~ListFails(j)
  PROVE  Rests /\ NoneListed
<1>1. CASE Check(j) \/ UndoFails(j) \/ AnswerError(j)
  BY <1>1, UntouchedRests DEF Check, UndoFails, AnswerError, history
<1>2. CASE Switch(j)
  <2>1. jobs[j].s \in Human /\ jobs[j].team \in Team \cup {NoTeam}
    BY <1>2, HandlerType DEF Switch, At
  <2>2. QED BY <1>2, <2>1, SwitchRests, UntouchedRests DEF Switch
<1>3. CASE Seat(j)
  <2>1. CASE UNCHANGED <<player, doubled, reclaimed>>
    BY <1>3, <2>1, UntouchedRests DEF Seat
  <2>2. CASE ~UNCHANGED <<player, doubled, reclaimed>>
    <3>1. /\ player' = [player EXCEPT ![jobs[j].s].role = jobs[j].role]
          /\ reclaimed' = reclaimed \ {jobs[j].s} /\ UNCHANGED <<raced, teamSet>>
      BY <1>3, <2>2 DEF Seat, Moves
    <3>2. jobs[j].s \in Human /\ jobs[j].s \notin Bot
      BY <1>3, HandlerType, SessionsAssumption DEF Seat, At
    <3>3. \A u \in Session \ {jobs[j].s} : player'[u] = player[u]
      BY <3>1 DEF TypeOK
    <3>4. QED
      BY <3>1, <3>2, <3>3
      DEF Rests, BotsRest, RacedLast, SeatsLast, KeepsSeat, NoneListed, TypeOK, Session
  <2>3. QED BY <2>1, <2>2
<1>4. CASE Undo(j)
  <2>1. jobs[j].s \in Human /\ jobs[j].old \in Team \cup {NoTeam}
    BY <1>4, HandlerType DEF Undo, At
  <2>2. QED BY <1>4, <2>1, SwitchRests, UntouchedRests DEF Undo
<1>5. CASE View(j)      BY <1>5, UntouchedRests DEF View
<1>6. CASE SendViews(j) BY <1>6, UntouchedRests DEF SendViews
<1>7. CASE Read(j)
  <2>1. UNCHANGED <<player, teamSet, reclaimed>> /\ raced \subseteq raced'
    BY <1>7 DEF Read
  <2>2. QED BY <2>1 DEF Rests, BotsRest, RacedLast, SeatsLast, KeepsSeat, NoneListed
<1>8. CASE Prune(j)
  <2>1. \A s \in Session : player'[s] = IF s \in jobs[j].gone THEN Absent ELSE player[s]
    BY <1>8 DEF Prune
  <2>2. raced' = raced \ jobs[j].gone /\ reclaimed' = reclaimed \ jobs[j].gone
    BY <1>8 DEF Prune
  <2>3. \A t \in Team : teamSet'[t] \subseteq teamSet[t]
    BY <1>8 DEF Prune, TypeOK
  <2>4. ~Absent.here
    BY DEF Absent
  <2>5. BotsRest /\ RacedLast /\ NoneListed
    BY <2>1, <2>2, <2>3, <2>4 DEF BotsRest, RacedLast, NoneListed, Session, TypeOK
  <2>6. SeatsLast
    BY <2>1, <2>2 DEF SeatsLast, KeepsSeat, Session, TypeOK
  <2>7. QED BY <2>5, <2>6 DEF Rests
<1>9. CASE Wipe(j)
  <2>1. UNCHANGED <<player, raced, reclaimed>> /\ \A t \in Team : teamSet'[t] \subseteq teamSet[t]
    BY <1>9 DEF Wipe, TypeOK
  <2>2. QED BY <2>1 DEF Rests, BotsRest, RacedLast, SeatsLast, KeepsSeat, NoneListed
<1>10. CASE Evict(j)
  <2> DEFINE b == jobs[j].bot
  <2>0. reclaimed' \subseteq reclaimed
    BY <1>10 DEF Evict
  <2>1. CASE UNCHANGED <<player, teamSet, raced>>
    BY <2>0, <2>1 DEF Rests, BotsRest, RacedLast, SeatsLast, KeepsSeat, NoneListed
  <2>2. CASE ~UNCHANGED <<player, teamSet, raced>>
    <3>1. /\ player' = [player EXCEPT ![b] = Absent] /\ raced' = raced \ {b} /\ b # Nobody
          /\ \A t \in Team : teamSet'[t] \subseteq teamSet[t]
      BY <1>10, <2>2 DEF Evict, TypeOK
    <3>2. b \in Bot /\ b \notin Human
      BY <3>1, HandlerType, SessionsAssumption
    <3>3. /\ \A s \in Session \ {b} : player'[s] = player[s]
          /\ ~player'[b].here
      BY <3>1, <3>2 DEF TypeOK, Absent, Session
    <3>4. BotsRest /\ RacedLast /\ NoneListed
      BY <3>1, <3>3 DEF BotsRest, RacedLast, NoneListed, Session, TypeOK
    <3>5. SeatsLast
      BY <2>0, <3>2, <3>3 DEF SeatsLast, KeepsSeat, Session, TypeOK
    <3>6. QED BY <3>4, <3>5 DEF Rests
  <2>3. QED BY <2>1, <2>2
<1>11. QED
  BY <1>1, <1>2, <1>3, <1>4, <1>5, <1>6, <1>7, <1>8, <1>9, <1>10 DEF Step

\* What the step of a handler that asks the team set goes on with.
LEMMA ProceedKeeps ==
  ASSUME NEW h \in Job, h.kind \in {"back", "add"}
  PROVE  \/ Proceed(h) = Idle /\ h.kind = "add" /\ h.bot = Nobody
         \/ /\ Proceed(h).kind = h.kind /\ Proceed(h).s = h.s /\ Proceed(h).team = h.team
            /\ Proceed(h).role = h.role /\ Proceed(h).bot = h.bot
            /\ Proceed(h).at = IF h.kind = "back" THEN "evict" ELSE "join"
BY DEF Proceed, Job

LEMMA ReadFinds ==
  ASSUME TypeOK, NEW j \in JobId, Read(j), jobs[j].kind \in {"back", "add"}
  PROVE  \E b \in IF BotsFor(jobs[j]) = {} THEN {Nobody} ELSE BotsFor(jobs[j]) :
           \/ jobs'[j] = Idle /\ jobs[j].kind = "add" /\ b = Nobody
           \/ /\ jobs'[j].kind = jobs[j].kind /\ jobs'[j].s = jobs[j].s
              /\ jobs'[j].team = jobs[j].team /\ jobs'[j].role = jobs[j].role
              /\ jobs'[j].bot = b
              /\ jobs'[j].at \in {"prune", IF jobs[j].kind = "back" THEN "evict" ELSE "join"}
<1> DEFINE list == IF jobs[j].team = NoTeam THEN {} ELSE teamSet[jobs[j].team]
           g0 == {m \in list : ~player[m].here}
           l0 == {m \in list : player[m].here /\ player[m].team # jobs[j].team}
<1>1. PICK b \in IF BotsFor(jobs[j]) = {} THEN {Nobody} ELSE BotsFor(jobs[j]) :
        LET found == [jobs[j] EXCEPT !.bot = b, !.gone = g0, !.lost = l0] IN
        jobs' = [jobs EXCEPT ![j] = IF g0 \cup l0 # {} THEN [found EXCEPT !.at = "prune"]
                                                       ELSE Proceed(found)]
  BY DEF Read
<1> DEFINE found == [jobs[j] EXCEPT !.bot = b, !.gone = g0, !.lost = l0]
<1>2. jobs[j] \in Job /\ b \in Bot \cup {Nobody} /\ g0 \in SUBSET Session /\ l0 \in SUBSET Session
  BY HandlerType DEF BotsFor, TypeOK, Job
<1> HIDE DEF g0, l0
<1>3. /\ found \in Job /\ found.kind = jobs[j].kind /\ found.s = jobs[j].s
      /\ found.team = jobs[j].team /\ found.role = jobs[j].role /\ found.bot = b
  BY <1>2 DEF Job
<1>4. CASE g0 \cup l0 # {}
  <2>1. jobs' = [jobs EXCEPT ![j] = [found EXCEPT !.at = "prune"]]
    BY <1>1, <1>4
  <2>2. jobs'[j] = [found EXCEPT !.at = "prune"]
    BY <2>1 DEF TypeOK
  <2> HIDE DEF found
  <2>3. /\ jobs'[j].kind = jobs[j].kind /\ jobs'[j].s = jobs[j].s
        /\ jobs'[j].team = jobs[j].team /\ jobs'[j].role = jobs[j].role
        /\ jobs'[j].bot = b /\ jobs'[j].at = "prune"
    BY <1>3, <2>2 DEF Job
  <2>4. QED BY <2>3
<1>5. CASE g0 \cup l0 = {}
  <2>1. jobs' = [jobs EXCEPT ![j] = Proceed(found)]
    BY <1>1, <1>5
  <2>2. jobs'[j] = Proceed(found)
    BY <2>1 DEF TypeOK
  <2> HIDE DEF found
  <2>3. \/ jobs'[j] = Idle /\ jobs[j].kind = "add" /\ b = Nobody
        \/ /\ jobs'[j].kind = jobs[j].kind /\ jobs'[j].s = jobs[j].s
           /\ jobs'[j].team = jobs[j].team /\ jobs'[j].role = jobs[j].role
           /\ jobs'[j].bot = b
           /\ jobs'[j].at = IF jobs[j].kind = "back" THEN "evict" ELSE "join"
    BY <1>3, <2>2, ProceedKeeps
  <2>4. QED BY <2>3
<1>6. QED BY <1>4, <1>5

LEMMA PruningGoesOn ==
  ASSUME TypeOK, NEW j \in JobId, Prune(j) \/ Wipe(j), jobs[j].kind \in {"back", "add"}
  PROVE  \/ jobs'[j] = Idle /\ jobs[j].kind = "add" /\ jobs[j].bot = Nobody
         \/ /\ jobs'[j].kind = jobs[j].kind /\ jobs'[j].s = jobs[j].s
            /\ jobs'[j].team = jobs[j].team /\ jobs'[j].role = jobs[j].role
            /\ jobs'[j].bot = jobs[j].bot
            /\ jobs'[j].at \in {"wipe", IF jobs[j].kind = "back" THEN "evict" ELSE "join"}
<1>1. jobs[j] \in Job
  BY HandlerType
<1>2. \/ jobs' = [jobs EXCEPT ![j] = [jobs[j] EXCEPT !.at = "wipe"]]
      \/ jobs' = [jobs EXCEPT ![j] = Proceed(jobs[j])]
  BY DEF Prune, Wipe
<1>3. CASE jobs' = [jobs EXCEPT ![j] = [jobs[j] EXCEPT !.at = "wipe"]]
  BY <1>1, <1>3 DEF TypeOK, Job
<1>4. CASE jobs' = [jobs EXCEPT ![j] = Proceed(jobs[j])]
  <2>1. jobs'[j] = Proceed(jobs[j])
    BY <1>4 DEF TypeOK
  <2>2. QED BY <1>1, <2>1, ProceedKeeps
<1>5. QED BY <1>2, <1>3, <1>4

\* The steps that are not at rest.
LEMMA JoinComes ==
  ASSUME TypeOK, NEW j \in JobId, JoinBot(j)
  PROVE  LET b == jobs[j].bot IN
         /\ b \in Bot /\ Adds(j) /\ jobs[j].at = "join"
         /\ \A s \in Session \ {b} : player'[s] = player[s]
         /\ In(b, jobs[j].team, jobs[j].role)'
         /\ raced \subseteq raced' /\ (Holders(jobs[j].team, jobs[j].role) # {} => b \in raced')
         /\ UNCHANGED <<teamSet, reclaimed>>
         /\ \A i \in JobId \ {j} : jobs'[i] = jobs[i]
         /\ jobs'[j] = [jobs[j] EXCEPT !.at = "list"]
<1>1. jobs[j].bot \in Bot /\ Adds(j) /\ jobs[j].at = "join"
  BY HandlerType DEF JoinBot, At, JobOK, Adds
<1>2. jobs' = [jobs EXCEPT ![j] = [jobs[j] EXCEPT !.at = "list"]]
  BY DEF JoinBot, Go, TypeOK
<1>3. player' = [player EXCEPT ![jobs[j].bot] = [here |-> TRUE, connected |-> TRUE,
                                      team |-> jobs[j].team, role |-> jobs[j].role]]
  BY DEF JoinBot
<1>4. \A i \in JobId \ {j} : jobs'[i] = jobs[i]
  BY <1>2 DEF TypeOK
<1>5. jobs'[j] = [jobs[j] EXCEPT !.at = "list"] /\ jobs'[j].team = jobs[j].team
      /\ jobs'[j].role = jobs[j].role
  BY <1>2 DEF TypeOK, Job
<1>6. /\ \A s \in Session \ {jobs[j].bot} : player'[s] = player[s]
      /\ player'[jobs[j].bot].here /\ player'[jobs[j].bot].connected
      /\ player'[jobs[j].bot].team = jobs[j].team /\ player'[jobs[j].bot].role = jobs[j].role
  BY <1>1, <1>3 DEF TypeOK, Session
<1>7. /\ raced \subseteq raced' /\ UNCHANGED <<teamSet, reclaimed>>
      /\ (Holders(jobs[j].team, jobs[j].role) # {} => jobs[j].bot \in raced')
  BY DEF JoinBot
<1>8. QED BY <1>1, <1>4, <1>5, <1>6, <1>7 DEF In, Up

LEMMA ListComes ==
  ASSUME TypeOK, NEW j \in JobId, ListBot(j) \/ ListFails(j)
  PROVE  /\ Rests /\ jobs[j].bot \in Bot /\ jobs[j].team \in Team /\ Adds(j) /\ jobs[j].at = "list"
         /\ \A b \in Bot, t \in Team : b \in teamSet'[t] =>
              b \in teamSet[t] \/ (b = jobs[j].bot /\ t = jobs[j].team)
         /\ \A i \in JobId \ {j} : jobs'[i] = jobs[i]
         /\ jobs'[j] = Idle
<1>1. jobs[j].bot \in Bot /\ jobs[j].team \in Team /\ Adds(j) /\ jobs[j].at = "list"
  BY HandlerType DEF ListBot, ListFails, At, JobOK, Adds
<1>2. MovesOn(j) /\ jobs'[j] = Idle
  BY EndMoves DEF ListBot, ListFails
<1>3. \A b \in Bot, t \in Team : b \in teamSet'[t] =>
        b \in teamSet[t] \/ (b = jobs[j].bot /\ t = jobs[j].team)
  BY DEF ListBot, ListFails, TypeOK
<1>4. Forget(jobs[j].bot) \/ UNCHANGED <<player, raced, reclaimed>>
  BY DEF ListBot, ListFails, history
<1>5. Rests
  BY <1>1, <1>4, ForgetRests
  DEF Rests, BotsRest, RacedLast, SeatsLast, KeepsSeat, Session
<1>6. QED BY <1>1, <1>2, <1>3, <1>5 DEF MovesOn

LEMMA ReturnComes ==
  ASSUME TypeOK, NEW j \in JobId, NEW s \in Human, Reconnect(j, s)
  PROVE  /\ BotsRest /\ RacedLast /\ NoneListed
         /\ \A u \in reclaimed' \ {s} : KeepsSeat(u)
         /\ Up(s)' /\ player'[s].team = player[s].team /\ player'[s].role = player[s].role
         /\ \A i \in JobId \ {j} : jobs'[i] = jobs[i]
         /\ jobs[j].at = "idle"
         /\ jobs'[j] = Handler("back", "read", s, player[s].team, player[s].role)
<1>1. s \in Session /\ s \notin Bot
  BY SessionsAssumption DEF Session
<1>2. /\ player' = [player EXCEPT ![s].connected = TRUE] /\ player[s].here
      /\ UNCHANGED <<raced, teamSet>> /\ reclaimed' = reclaimed \cup {s}
      /\ jobs' = [jobs EXCEPT ![j] =
                    Handler("back", "read", s, player[s].team, player[s].role)]
      /\ jobs[j].at = "idle"
  BY DEF Reconnect, ComesBack, At
<1>3. \A u \in Session \ {s} : player'[u] = player[u]
  BY <1>2 DEF TypeOK
<1>4. /\ player'[s].here /\ player'[s].connected
      /\ player'[s].team = player[s].team /\ player'[s].role = player[s].role
  BY <1>1, <1>2 DEF TypeOK, Player
<1>5. BotsRest /\ RacedLast /\ NoneListed
  BY <1>1, <1>2, <1>3 DEF BotsRest, RacedLast, NoneListed, Session
<1>6. \A u \in reclaimed' \ {s} : KeepsSeat(u)
  BY <1>2, <1>3 DEF KeepsSeat, TypeOK, Session
<1>7. /\ \A i \in JobId \ {j} : jobs'[i] = jobs[i]
      /\ jobs'[j] = Handler("back", "read", s, player[s].team, player[s].role)
  BY <1>2 DEF TypeOK
<1>8. QED BY <1>2, <1>4, <1>5, <1>6, <1>7 DEF Up

\* Every other step is at rest.
LEMMA NextRests ==
  ASSUME TypeOK, BackIsUp, [Next]_vars
  PROVE  \/ \E j \in JobId : JoinBot(j) \/ ListBot(j) \/ ListFails(j)
         \/ \E j \in JobId, s \in Human : Reconnect(j, s)
         \/ Rests /\ NoneListed
<1>1. ASSUME NEW j \in JobId, StartGame(j) PROVE Rests /\ NoneListed
  BY <1>1, UntouchedRests DEF StartGame
<1>2. ASSUME NEW j \in JobId, NEW s \in Human, Change(j, s) PROVE Rests /\ NoneListed
  BY <1>2, UntouchedRests DEF Change, StartChange, StartApprove, history
<1>3. ASSUME NEW j \in JobId, NEW t \in Team, StartRoster(j, t) PROVE Rests /\ NoneListed
  BY <1>3, UntouchedRests DEF StartRoster, history
<1>4. ASSUME NEW j \in JobId, NEW b, NEW t, NEW r, StartAdd(j, b, t, r) PROVE Rests /\ NoneListed
  BY <1>4, UntouchedRests DEF StartAdd, history
<1>5. ASSUME NEW s \in Human, Drop(s) PROVE Rests /\ NoneListed
  <2>1. /\ \A u \in Session \ {s} : player'[u] = player[u]
        /\ reclaimed' = reclaimed \ {s} /\ UNCHANGED <<raced, teamSet>>
    BY <1>5 DEF Drop, Moves, TypeOK
  <2>2. QED
    BY <2>1, SessionsAssumption
    DEF Rests, BotsRest, RacedLast, SeatsLast, KeepsSeat, NoneListed, TypeOK, Session
<1>6. ASSUME NEW s \in Human, Rejoin(s) \/ Join(s) PROVE Rests /\ NoneListed
  <2>1. /\ \A u \in Session \ {s} : player'[u] = player[u]
        /\ UNCHANGED <<raced, teamSet, reclaimed>> /\ ~Up(s)
    BY <1>6 DEF Rejoin, ComesBack, Join, Up, TypeOK, history
  <2>2. s \notin reclaimed
    BY <2>1 DEF BackIsUp
  <2>3. QED
    BY <2>1, <2>2, SessionsAssumption
    DEF Rests, BotsRest, RacedLast, SeatsLast, KeepsSeat, NoneListed, TypeOK, Session
<1>7. ASSUME NEW s \in Human, Lapse(s) PROVE Rests /\ NoneListed
  BY <1>7, ForgetRests DEF Lapse, Session
<1>8. ASSUME NEW s \in Session, Remove(s) PROVE Rests /\ NoneListed
  <2>1. \A t \in Team : teamSet'[t] \subseteq teamSet[t]
    BY <1>8 DEF Remove
  <2>2. QED BY <1>8, <2>1, ForgetRests DEF Remove
<1>9. CASE EndTurn \/ EndGame
  BY <1>9, UntouchedRests DEF EndTurn, EndGame, history
<1>10. CASE UNCHANGED vars
  BY <1>10, UntouchedRests DEF vars, history
<1>11. QED
  BY <1>1, <1>2, <1>3, <1>4, <1>5, <1>6, <1>7, <1>8, <1>9, <1>10, StepRests DEF Next

LEMMA BackStep == TypeOK /\ BackIsUp /\ [Next]_vars => BackIsUp'
<1> SUFFICES ASSUME TypeOK, BackIsUp, [Next]_vars PROVE BackIsUp'
  OBVIOUS
<1>1. ASSUME SeatsLast PROVE BackIsUp'
  BY <1>1 DEF BackIsUp, SeatsLast, KeepsSeat, Up
<1>2. ASSUME NEW j \in JobId, JoinBot(j) PROVE BackIsUp'
  <2>1. jobs[j].bot \notin reclaimed
    BY <1>2, JoinComes, SessionsAssumption DEF TypeOK
  <2>2. \A s \in reclaimed : player'[s] = player[s] /\ reclaimed' = reclaimed
    BY <1>2, <2>1, JoinComes DEF TypeOK, Session
  <2>3. QED BY <2>2, <1>2, JoinComes DEF BackIsUp, Up
<1>3. ASSUME NEW j \in JobId, NEW s \in Human, Reconnect(j, s) PROVE BackIsUp'
  BY <1>3, ReturnComes DEF BackIsUp, KeepsSeat, Up
<1>4. QED BY <1>1, <1>2, <1>3, NextRests, ListComes DEF Rests

LEMMA ListedStep ==
  TypeOK /\ BackIsUp /\ NewBot /\ SeatIsFree /\ OneListed /\ [Next]_vars => OneListed'
<1> SUFFICES ASSUME TypeOK, BackIsUp, NewBot, SeatIsFree, OneListed, [Next]_vars,
                    NEW a \in Bot, NEW b \in Bot, a # b, Up(a)', Up(b)', SameSeat(a, b)'
             PROVE  ~(a \in teamSet'[player'[a].team] /\ b \in teamSet'[player'[a].team])
  BY DEF OneListed
<1>1. player'[a].team \in Team /\ player'[b].team = player'[a].team
      /\ player'[b].role = player'[a].role /\ player'[a].role \in SeatRole
  BY NextType DEF SameSeat, TypeOK, Player, Session
<1>2. ASSUME BotsRest, NoneListed
      PROVE  ~(a \in teamSet'[player'[a].team] /\ b \in teamSet'[player'[a].team])
  <2>1. player'[a] = player[a] /\ player'[b] = player[b]
    BY <1>2 DEF BotsRest, Up
  <2>2. Up(a) /\ Up(b) /\ SameSeat(a, b)
    BY <2>1 DEF Up, SameSeat
  <2>3. QED BY <1>1, <1>2, <2>1, <2>2 DEF OneListed, NoneListed
<1>3. ASSUME NEW j \in JobId, JoinBot(j)
      PROVE  ~(a \in teamSet'[player'[a].team] /\ b \in teamSet'[player'[a].team])
  <2> DEFINE c == jobs[j].bot
  <2>1. /\ c \in Bot /\ Adds(j) /\ jobs[j].at = "join"
        /\ \A s \in Session \ {c} : player'[s] = player[s]
        /\ In(c, jobs[j].team, jobs[j].role)'
        /\ teamSet' = teamSet /\ jobs'[j] = [jobs[j] EXCEPT !.at = "list"]
    BY <1>3, JoinComes
  <2>2. jobs'[j].team = jobs[j].team /\ jobs'[j].role = jobs[j].role
    BY <2>1, HandlerType DEF Job
  <2>3. player'[c].team = jobs[j].team /\ player'[c].role = jobs[j].role
    BY <2>1, <2>2 DEF In
  <2>4. \A d \in Bot \ {c} : In(d, jobs[j].team, jobs[j].role) => d \notin teamSet[jobs[j].team]
    BY <2>1 DEF SeatIsFree, FreeFor
  <2>5. ASSUME NEW d \in Bot \ {c}, Up(d)', player'[d].team = jobs[j].team,
               player'[d].role = jobs[j].role
        PROVE  d \notin teamSet'[jobs[j].team]
    <3>1. player'[d] = player[d]
      BY <2>1 DEF Session
    <3>2. In(d, jobs[j].team, jobs[j].role)
      BY <2>5, <3>1 DEF In, Up
    <3>3. QED BY <2>1, <2>4, <3>2
  <2>6. CASE a = c
    BY <1>1, <2>3, <2>5, <2>6
  <2>7. CASE b = c
    BY <1>1, <2>3, <2>5, <2>7
  <2>8. CASE a # c /\ b # c
    <3>1. player'[a] = player[a] /\ player'[b] = player[b]
      BY <2>1, <2>8 DEF Session
    <3>2. Up(a) /\ Up(b) /\ SameSeat(a, b)
      BY <3>1 DEF Up, SameSeat
    <3>3. QED BY <2>1, <3>1, <3>2 DEF OneListed
  <2>9. QED BY <2>6, <2>7, <2>8
<1>4. ASSUME NEW j \in JobId, ListBot(j) \/ ListFails(j)
      PROVE  ~(a \in teamSet'[player'[a].team] /\ b \in teamSet'[player'[a].team])
  <2> DEFINE c == jobs[j].bot
  <2>1. /\ c \in Bot /\ Adds(j) /\ jobs[j].at = "list" /\ BotsRest
        /\ \A d \in Bot, t \in Team : d \in teamSet'[t] =>
             d \in teamSet[t] \/ (d = c /\ t = jobs[j].team)
    BY <1>4, ListComes DEF Rests
  <2>2. Up(a) /\ Up(b) /\ SameSeat(a, b) /\ player'[a].team = player[a].team
    <3>1. player'[a] = player[a] /\ player'[b] = player[b]
      BY <2>1 DEF BotsRest, Up
    <3>2. QED BY <3>1 DEF Up, SameSeat
  <2>3. /\ \A d \in Bot \ {c} : In(d, jobs[j].team, jobs[j].role) => d \notin teamSet[jobs[j].team]
        /\ player[c].here => player[c].role = jobs[j].role /\ player[c].team = jobs[j].team
    BY <2>1 DEF SeatIsFree, FreeFor, NewBot
  <2>4. CASE a # c /\ b # c
    BY <1>1, <2>1, <2>2, <2>4 DEF OneListed
  <2>5. CASE a = c
    <3>1. In(b, jobs[j].team, jobs[j].role) /\ player[a].team = jobs[j].team
      BY <2>2, <2>3, <2>5 DEF In, SameSeat, Up
    <3>2. b \notin teamSet[jobs[j].team]
      BY <2>3, <2>5, <3>1
    <3>3. QED BY <1>1, <2>1, <2>2, <2>5, <3>1, <3>2
  <2>6. CASE b = c
    <3>1. In(a, jobs[j].team, jobs[j].role) /\ player[a].team = jobs[j].team
      BY <2>2, <2>3, <2>6 DEF In, SameSeat, Up
    <3>2. a \notin teamSet[jobs[j].team]
      BY <2>3, <2>6, <3>1
    <3>3. QED BY <1>1, <2>1, <2>2, <2>6, <3>1, <3>2
  <2>7. QED BY <2>4, <2>5, <2>6
<1>5. QED BY <1>2, <1>3, <1>4, NextRests, ListComes, ReturnComes DEF Rests

\* A handler that has found its seat free, and goes on, still finds it so.
LEMMA StaysFree ==
  ASSUME TypeOK, BotsRest, NoneListed, NEW i \in JobId, jobs[i].team \in Team, jobs[i].bot \in Bot,
         FreeFor(jobs[i]),
         jobs'[i].team = jobs[i].team, jobs'[i].role = jobs[i].role, jobs'[i].bot = jobs[i].bot,
         jobs'[i].at = "list" => jobs[i].at = "list"
  PROVE  FreeFor(jobs[i])'
<1>1. ASSUME NEW b \in Bot \ {jobs'[i].bot}, Up(b)', player'[b].team = jobs'[i].team,
             player'[b].role = jobs'[i].role
      PROVE  b \notin teamSet'[jobs'[i].team]
  <2>1. player'[b] = player[b]
    BY <1>1 DEF BotsRest, Up
  <2>2. In(b, jobs[i].team, jobs[i].role)
    BY <1>1, <2>1 DEF In, Up
  <2>3. b \notin teamSet[jobs[i].team]
    BY <1>1, <2>2 DEF FreeFor
  <2>4. QED BY <2>3 DEF NoneListed
<1>2. jobs'[i].at = "list" /\ player'[jobs'[i].bot].here
        => player'[jobs'[i].bot].role = jobs'[i].role
  BY DEF FreeFor, BotsRest
<1>3. QED BY <1>1, <1>2 DEF FreeFor, In

LEMMA FreeStep == TypeOK /\ BackIsUp /\ OneAdd /\ SeatIsFree /\ [Next]_vars => SeatIsFree'
<1> SUFFICES ASSUME TypeOK, BackIsUp, OneAdd, SeatIsFree, [Next]_vars, NEW i \in JobId,
                    jobs'[i].kind = "add", jobs'[i].bot \in Bot, jobs'[i].at # "read"
             PROVE  FreeFor(jobs[i])'
  BY DEF SeatIsFree, Adds
<1>0. jobs'[i] \in Job /\ jobs'[i].team \in Team
  BY NextType DEF TypeOK, JobOK
<1>1. ASSUME BotsRest, NoneListed, ~JoinBot(i) PROVE FreeFor(jobs[i])'
  <2>1. CASE jobs'[i] = jobs[i]
    <3>1. FreeFor(jobs[i])
      BY <2>1 DEF SeatIsFree, Adds
    <3>2. QED BY <1>0, <1>1, <2>1, <3>1, StaysFree
  <2>2. CASE jobs'[i] # jobs[i]
    <3>1. Step(i)
      <4>1. ASSUME NEW k \in JobId, Commences(k) PROVE Step(i)
        BY <2>2, <4>1 DEF Commences
      <4>2. QED BY <2>2, <4>1, StepSorts, StepAdds
    <3>2. /\ jobs[i].kind = "add" /\ jobs'[i].bot = jobs[i].bot
          /\ jobs[i].at # "list" /\ jobs'[i].at # "list"
      BY <1>1, <3>1, StepAdds, SessionsAssumption DEF Session
    <3>3. CASE Read(i)
      <4>1. PICK b \in IF BotsFor(jobs[i]) = {} THEN {Nobody} ELSE BotsFor(jobs[i]) :
              /\ jobs'[i].team = jobs[i].team /\ jobs'[i].role = jobs[i].role
              /\ jobs'[i].bot = b /\ jobs'[i].at # "list"
        BY <3>2, <3>3, ReadFinds DEF Idle, Handler
      <4>2. b # Nobody
        BY <4>1, SessionsAssumption DEF Session
      <4>3. Seated(jobs[i].team, jobs[i].role) = {}
        BY <3>2, <4>1, <4>2 DEF BotsFor
      <4>4. ASSUME NEW d \in Bot, In(d, jobs[i].team, jobs[i].role)'
            PROVE  d \notin teamSet'[jobs'[i].team]
        <5>1. UNCHANGED <<player, teamSet>>
          BY <3>3 DEF Read
        <5>2. In(d, jobs[i].team, jobs[i].role)
          BY <4>1, <4>4, <5>1 DEF In, Up
        <5>3. d \notin teamSet[jobs[i].team]
          BY <4>3, <5>2 DEF In, Up, Seated, Members
        <5>4. QED BY <4>1, <5>1, <5>3
      <4>5. QED BY <4>1, <4>4 DEF FreeFor, In
    <3>4. CASE Prune(i) \/ Wipe(i)
      <4>1. /\ jobs'[i].team = jobs[i].team /\ jobs'[i].role = jobs[i].role
            /\ jobs'[i].bot = jobs[i].bot /\ jobs'[i].at # "list"
        BY <3>2, <3>4, PruningGoesOn DEF Idle, Handler
      <4>2. FreeFor(jobs[i])
        BY <3>2, <3>4 DEF SeatIsFree, Adds, Prune, Wipe, At
      <4>3. FreeFor(jobs[i])'
        BY <1>0, <1>1, <3>2, <4>1, <4>2, StaysFree
      <4>4. QED BY <4>3
    <3>5. /\ ~Check(i) /\ ~Switch(i) /\ ~Seat(i) /\ ~Undo(i) /\ ~UndoFails(i) /\ ~AnswerError(i)
          /\ ~View(i) /\ ~SendViews(i) /\ ~Evict(i)
      BY <3>2, HandlerType
      DEF JobOK, Guarded, At, Check, Switch, Seat, Undo, UndoFails, AnswerError, View, SendViews,
          Evict
    <3>6. ~ListBot(i) /\ ~ListFails(i)
      BY ListComes DEF Idle, Handler
    <3>7. QED
      BY <1>1, <3>1, <3>3, <3>4, <3>5, <3>6 DEF Step
  <2>3. QED BY <2>1, <2>2
<1>2. ASSUME NEW j \in JobId, JoinBot(j) PROVE FreeFor(jobs[i])'
  <2> DEFINE c == jobs[j].bot
  <2>1. /\ c \in Bot /\ Adds(j) /\ jobs[j].at = "join"
        /\ \A s \in Session \ {c} : player'[s] = player[s]
        /\ In(c, jobs[j].team, jobs[j].role)'
        /\ teamSet' = teamSet /\ jobs'[j] = [jobs[j] EXCEPT !.at = "list"]
        /\ \A k \in JobId \ {j} : jobs'[k] = jobs[k]
    BY <1>2, JoinComes
  <2>2. i = j
    BY <2>1 DEF OneAdd, Adds
  <2>3. jobs'[j].team = jobs[j].team /\ jobs'[j].role = jobs[j].role /\ jobs'[j].bot = c
    BY <2>1, HandlerType DEF Job
  <2>4. \A d \in Bot \ {c} : In(d, jobs[j].team, jobs[j].role) => d \notin teamSet[jobs[j].team]
    BY <2>1 DEF SeatIsFree, FreeFor
  <2>5. ASSUME NEW d \in Bot \ {c}, In(d, jobs[j].team, jobs[j].role)'
        PROVE  d \notin teamSet'[jobs[j].team]
    <3>1. player'[d] = player[d]
      BY <2>1 DEF Session
    <3>2. In(d, jobs[j].team, jobs[j].role)
      BY <2>1, <2>3, <2>5, <3>1 DEF In, Up
    <3>3. QED BY <2>1, <2>4, <3>2
  <2>6. QED BY <2>1, <2>2, <2>3, <2>5 DEF FreeFor, In
<1>3. ASSUME NEW j \in JobId, ListBot(j) \/ ListFails(j) PROVE FreeFor(jobs[i])'
  <2>1. Adds(j) /\ jobs'[j] = Idle /\ \A k \in JobId \ {j} : jobs'[k] = jobs[k]
    BY <1>3, ListComes
  <2>2. FALSE
    BY <2>1 DEF OneAdd, Adds, Idle, Handler
  <2>3. QED BY <2>2
<1>4. QED BY <1>1, <1>2, <1>3, NextRests, ListComes, ReturnComes DEF Rests

LEMMA AwaitedStep ==
  TypeOK /\ BackIsUp /\ OneListed /\ StandInIsAwaited /\ [Next]_vars => StandInIsAwaited'
<1> SUFFICES ASSUME TypeOK, BackIsUp, OneListed, StandInIsAwaited, [Next]_vars,
                    NEW s \in reclaimed', NEW b \in Bot, Up(b)', SameSeat(s, b)', b \notin raced'
             PROVE  \E j \in JobId : Awaits(jobs[j], s, b)'
  BY DEF StandInIsAwaited
<1>0. s \in Human /\ s \in Session /\ b \in Session /\ s # b
  BY NextType, SessionsAssumption DEF TypeOK, Session
<1>1. ASSUME BotsRest, RacedLast, KeepsSeat(s),
             \A i \in JobId : jobs'[i] # jobs[i] /\ jobs[i].at # "idle" => Step(i)
      PROVE  \E j \in JobId : Awaits(jobs[j], s, b)'
  <2>1. player'[b] = player[b] /\ Up(b) /\ b \notin raced
    BY <1>1 DEF BotsRest, RacedLast, Up
  <2>2. /\ s \in reclaimed /\ player'[s].role = player[s].role /\ player'[s].team = player[s].team
        /\ SameSeat(s, b)
    BY <1>1, <2>1 DEF KeepsSeat, SameSeat
  <2>3. PICK i \in JobId : Awaits(jobs[i], s, b)
    BY <2>1, <2>2 DEF StandInIsAwaited
  <2>4. CASE jobs'[i] = jobs[i]
    BY <2>2, <2>3, <2>4 DEF Awaits
  <2>5. CASE jobs'[i] # jobs[i]
    <3>1. Step(i) /\ jobs[i].kind = "back" /\ jobs[i].s = s
          /\ jobs[i].team = player[s].team /\ jobs[i].role = player[s].role
      BY <1>1, <2>3, <2>5 DEF Awaits
    <3>2. CASE Read(i)
      <4>1. PICK c \in IF BotsFor(jobs[i]) = {} THEN {Nobody} ELSE BotsFor(jobs[i]) :
              /\ jobs'[i].kind = "back" /\ jobs'[i].s = s
              /\ jobs'[i].team = jobs[i].team /\ jobs'[i].role = jobs[i].role
              /\ jobs'[i].bot = c /\ jobs'[i].at \in {"prune", "evict"}
        BY <3>1, <3>2, ReadFinds
      <4>2. jobs[i].team \in Team /\ jobs[i].role \in SeatRole
            /\ player[b].team = jobs[i].team /\ player[b].role = jobs[i].role
        BY <2>2, <3>1, HandlerType DEF SameSeat
      <4>3. b \in teamSet[jobs[i].team]
        <5>1. raced' = raced \cup
                {d \in Bot : jobs[i].kind = "back" /\ Up(d) /\ SameSeat(d, jobs[i].s)
                   /\ d \notin IF jobs[i].team = NoTeam THEN {} ELSE teamSet[jobs[i].team]}
          BY <3>2 DEF Read
        <5>2. SameSeat(b, s)
          BY <2>2 DEF SameSeat
        <5>3. QED BY <2>1, <3>1, <4>2, <5>1, <5>2, TeamsAssumption
      <4>4. b \in Seated(jobs[i].team, jobs[i].role)
        BY <2>1, <4>2, <4>3 DEF Seated, Members, Up
      <4>5. BotsFor(jobs[i]) = Seated(jobs[i].team, jobs[i].role) \cap Bot
        BY <3>1, <4>2, TeamsAssumption DEF BotsFor
      <4>6. c \in Bot /\ c \in Seated(jobs[i].team, jobs[i].role)
        BY <4>1, <4>4, <4>5
      <4>7. c = b
        <5>1. Up(c) /\ c \in teamSet[jobs[i].team] /\ player[c].team = jobs[i].team
              /\ player[c].role = jobs[i].role
          BY <4>6 DEF Seated, Members, Up
        <5>2. SameSeat(c, b)
          BY <4>2, <5>1, TeamsAssumption DEF SameSeat
        <5>3. QED BY <2>1, <4>2, <4>3, <4>6, <5>1, <5>2 DEF OneListed
      <4>8. QED BY <2>2, <3>1, <4>1, <4>7 DEF Awaits
    <3>3. CASE Prune(i) \/ Wipe(i)
      <4>1. /\ jobs'[i].kind = "back" /\ jobs'[i].s = s
            /\ jobs'[i].team = jobs[i].team /\ jobs'[i].role = jobs[i].role
            /\ jobs'[i].bot = jobs[i].bot /\ jobs'[i].at \in {"wipe", "evict"}
        BY <3>1, <3>3, PruningGoesOn
      <4>2. jobs[i].bot = b
        BY <2>3, <3>3 DEF Awaits, Prune, Wipe, At
      <4>3. QED BY <2>2, <3>1, <4>1, <4>2 DEF Awaits
    <3>4. CASE Evict(i)
      <4>1. jobs[i].bot = b /\ b # Nobody /\ player[b].here
        BY <2>1, <2>3, <3>4, SessionsAssumption DEF Awaits, Evict, At, Up, Session
      <4>2. ~Adding
        BY <3>1, <3>4, <4>1 DEF Evict
      <4>3. player' = [player EXCEPT ![b] = Absent]
        BY <3>4, <4>1, <4>2 DEF Evict
      <4>4. ~player'[b].here
        BY <1>0, <4>3 DEF TypeOK, Absent
      <4>5. QED BY <4>4 DEF Up
    <3>5. QED
      <4>1. jobs[i].at \in {"read", "prune", "wipe", "evict"}
        BY <2>3 DEF Awaits
      <4>2. /\ ~Check(i) /\ ~Switch(i) /\ ~Seat(i) /\ ~Undo(i) /\ ~UndoFails(i)
            /\ ~AnswerError(i) /\ ~View(i) /\ ~SendViews(i)
            /\ ~JoinBot(i) /\ ~ListBot(i) /\ ~ListFails(i)
        BY <4>1
        DEF At, Check, Switch, Seat, Undo, UndoFails, AnswerError, View, SendViews, JoinBot,
            ListBot, ListFails
      <4>3. QED BY <3>1, <3>2, <3>3, <3>4, <4>2 DEF Step
  <2>6. QED BY <2>4, <2>5
<1>2. \A i \in JobId : jobs'[i] # jobs[i] /\ jobs[i].at # "idle" => Step(i)
  BY OwnStep
<1>3. ASSUME NEW j \in JobId, JoinBot(j) PROVE \E i \in JobId : Awaits(jobs[i], s, b)'
  <2> DEFINE c == jobs[j].bot
  <2>1. /\ c \in Bot /\ Adds(j)
        /\ \A u \in Session \ {c} : player'[u] = player[u]
        /\ In(c, jobs[j].team, jobs[j].role)'
        /\ raced \subseteq raced' /\ (Holders(jobs[j].team, jobs[j].role) # {} => c \in raced')
        /\ reclaimed' = reclaimed
        /\ \A i \in JobId \ {j} : jobs'[i] = jobs[i]
        /\ jobs'[j] = [jobs[j] EXCEPT !.at = "list"]
    BY <1>3, JoinComes
  <2>2. player'[s] = player[s] /\ Up(s)
    BY <1>0, <2>1, SessionsAssumption DEF BackIsUp
  <2>3. b # c
    <3>1. SUFFICES ASSUME b = c PROVE FALSE
      OBVIOUS
    <3>2. jobs'[j].team = jobs[j].team /\ jobs'[j].role = jobs[j].role
      BY <2>1, HandlerType DEF Job
    <3>3. player'[b].team = jobs[j].team /\ player'[b].role = jobs[j].role
      BY <2>1, <3>1, <3>2 DEF In
    <3>4. player[s].team = jobs[j].team /\ player[s].role = jobs[j].role
      BY <2>2, <3>3 DEF SameSeat
    <3>5. s \in Holders(jobs[j].team, jobs[j].role)
      BY <1>0, <2>2, <3>4 DEF Holders
    <3>6. QED BY <2>1, <3>1, <3>5
  <2>4. player'[b] = player[b] /\ Up(b) /\ SameSeat(s, b) /\ b \notin raced
    BY <1>0, <2>1, <2>2, <2>3 DEF Up, SameSeat
  <2>5. PICK i \in JobId : Awaits(jobs[i], s, b)
    BY <2>1, <2>4 DEF StandInIsAwaited
  <2>6. jobs'[i] = jobs[i]
    BY <2>1, <2>5 DEF Awaits, Adds
  <2>7. QED BY <2>2, <2>5, <2>6 DEF Awaits
<1>4. ASSUME NEW j \in JobId, NEW u \in Human, Reconnect(j, u)
      PROVE  \E i \in JobId : Awaits(jobs[i], s, b)'
  <2>1. CASE s = u
    <3>1. /\ player'[s].team = player[s].team /\ player'[s].role = player[s].role
          /\ jobs'[j] = Handler("back", "read", s, player[s].team, player[s].role)
      BY <1>4, <2>1, ReturnComes
    <3>2. QED BY <3>1 DEF Awaits, Handler
  <2>2. CASE s # u
    BY <1>1, <1>2, <1>4, <2>2, ReturnComes
  <2>3. QED BY <2>1, <2>2
<1>5. ASSUME Rests PROVE \E j \in JobId : Awaits(jobs[j], s, b)'
  BY <1>1, <1>2, <1>5 DEF Rests, SeatsLast
<1>6. QED BY <1>3, <1>4, <1>5, NextRests, ListComes

\* Once the handler of its return is over, a player who came back by a token
\* shares its seat with no bot, for any number of people, bots and handlers, but
\* for a bot let in after the seat was looked at.
THEOREM StandInsYield == Spec => []StandInYields
<1> DEFINE IInv == BackIsUp /\ OneListed /\ SeatIsFree /\ StandInIsAwaited
<1>1. Init => OneAdd /\ NewBot /\ IInv
  <2> SUFFICES ASSUME Init PROVE OneAdd /\ NewBot /\ IInv
    OBVIOUS
  <2>1. \A i \in JobId : ~Adds(i)
    BY DEF Init, Adds, Idle, Handler
  <2>2. reclaimed = {} /\ \A b \in Bot : ~Up(b)
    BY DEF Init, Up, Absent
  <2>3. QED
    BY <2>1, <2>2 DEF OneAdd, NewBot, BackIsUp, OneListed, SeatIsFree, StandInIsAwaited
<1>2. TypeOK /\ SeatedIsListed /\ (OneAdd /\ NewBot /\ IInv) /\ [Next]_vars
        => (OneAdd /\ NewBot /\ IInv)'
  BY AddStep, BackStep, ListedStep, FreeStep, AwaitedStep
<1>3. IInv => StandInYields
  BY DEF StandInIsAwaited, StandInYields, Awaits
<1>4. QED BY <1>1, <1>2, <1>3, TypeIsRight, TeamsAreListed, PTL DEF Spec
=============================================================================
