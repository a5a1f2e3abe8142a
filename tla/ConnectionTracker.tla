-------------------------- MODULE ConnectionTracker --------------------------
(* How many sockets an address may hold: the counters of one process, the   *)
(* handshake that takes a place before it knows who is calling, and the     *)
(* sweep every five minutes that sets each counter to the sockets it sees.  *)
(* TrackerInit, TrackerNext, ...: ConnectionProofs extends ClientSync, too. *)
EXTENDS Naturals, FiniteSets, SequencesExt

CONSTANTS
  IP, SocketId,     \* addresses, and bound: the sockets alive at once
  MaxPerIP,         \* SOCKET.MAX_CONNECTIONS_PER_IP
  MaxTracked,       \* MAX_TRACKED_IPS
  Batch,            \* LRU_EVICTION_BATCH
  NoIP

ASSUME LimitsAssumption == /\ MaxPerIP \in Nat \ {0}
                           /\ MaxTracked \in Nat /\ Batch \in 0 .. MaxTracked - 1
ASSUME SocketsAssumption == IsFiniteSet(SocketId) /\ NoIP \notin IP

VARIABLES
  ip,            \* the address of each socket
  stage,         \* "none", in "handshake", "open", or "gone": left in its handshake
  connections,   \* connectionsPerIP, 0 for an address that is not there
  lastSeen,      \* the addresses of ipLastSeen, oldest first
  shuttingDown,
  slack          \* history: per address, why its counter may be off since the last clean sweep

trackerVars == <<ip, stage, connections, lastSeen, shuttingDown, slack>>

SocketsOf(a)  == {s \in SocketId : ip[s] = a}
OpenOf(a)     == {s \in SocketsOf(a) : stage[s] = "open"}
PendingOf(a)  == {s \in SocketsOf(a) : stage[s] \in {"handshake", "gone"}}
Cause         == {"evicted", "swept", "left"}

TrackerTypeOK ==
  /\ ip \in [SocketId -> IP \cup {NoIP}]
  /\ stage \in [SocketId -> {"none", "handshake", "open", "gone"}]
  /\ \A s \in SocketId : (ip[s] = NoIP) <=> (stage[s] = "none")
  /\ connections \in [IP -> Nat]
  /\ lastSeen \in Seq(IP)
  /\ ToSet(lastSeen) = {a \in IP : connections[a] > 0} /\ IsInjective(lastSeen)
  /\ shuttingDown \in BOOLEAN
  /\ slack \in [IP -> SUBSET Cause]

TrackerInit ==
  /\ ip = [s \in SocketId |-> NoIP]
  /\ stage = [s \in SocketId |-> "none"]
  /\ connections = [a \in IP |-> 0]
  /\ lastSeen = <<>>
  /\ shuttingDown = FALSE
  /\ slack = [a \in IP |-> {}]

-----------------------------------------------------------------------------
IsConnectionLimitReached(a) == connections[a] >= MaxPerIP

\* The entries that stay when a new address finds the map full: no entry has a
\* count of zero, so it is the oldest that go, whatever their counts.
Kept(a) ==
  IF connections[a] = 0 /\ Len(lastSeen) >= MaxTracked
  THEN LET n == MaxTracked - Batch - 1
       IN  SubSeq(lastSeen, Len(lastSeen) - n + 1, Len(lastSeen))
  ELSE lastSeen

\* Map.delete: the order of the other entries stays.
Without(q, a) ==
  IF a \in ToSet(q) THEN RemoveAt(q, CHOOSE i \in 1 .. Len(q) : q[i] = a) ELSE q

IncrementConnectionCount(a) ==
  LET kept    == Kept(a)
      evicted == ToSet(lastSeen) \ ToSet(kept)
  IN  /\ connections' = [b \in IP |-> IF b = a THEN connections[a] + 1
                                      ELSE IF b \in evicted THEN 0 ELSE connections[b]]
      /\ lastSeen' = Append(Without(kept, a), a)
      /\ slack' = [b \in IP |-> slack[b] \cup IF b \in evicted THEN {"evicted"} ELSE {}]

DecrementConnectionCount(a) ==
  /\ connections' = [connections EXCEPT ![a] = IF @ > 1 THEN @ - 1 ELSE 0]
  /\ lastSeen' = Without(lastSeen, a) \o IF connections[a] > 1 THEN <<a>> ELSE <<>>

Free(s) == ip' = [ip EXCEPT ![s] = NoIP] /\ stage' = [stage EXCEPT ![s] = "none"]

-----------------------------------------------------------------------------
\* The first middleware: a socket below the limit takes its place, then waits
\* for its session to be read.
Connect(s, a) ==
  /\ stage[s] = "none"
  /\ ~IsConnectionLimitReached(a)
  /\ ip' = [ip EXCEPT ![s] = a]
  /\ stage' = [stage EXCEPT ![s] = "handshake"]
  /\ IncrementConnectionCount(a)
  /\ UNCHANGED shuttingDown

\* The client leaves while its handshake is under way: nobody is told yet.
LeaveHandshake(s) ==
  /\ stage[s] = "handshake"
  /\ stage' = [stage EXCEPT ![s] = "gone"]
  /\ UNCHANGED <<ip, connections, lastSeen, shuttingDown, slack>>

\* Authentication failed, whether or not the client is still there.
AuthFails(s) ==
  /\ stage[s] \in {"handshake", "gone"}
  /\ Free(s)
  /\ DecrementConnectionCount(ip[s])
  /\ UNCHANGED <<shuttingDown, slack>>

\* The session is accepted: handlers are registered, the disconnect one included.
\* In a shutdown, or when registering fails, the place is given back at once.
Accept(s) ==
  /\ stage[s] = "handshake"
  /\ \/ /\ ~shuttingDown
        /\ stage' = [stage EXCEPT ![s] = "open"]
        /\ UNCHANGED <<ip, connections, lastSeen>>
     \/ Free(s) /\ DecrementConnectionCount(ip[s])
  /\ UNCHANGED <<shuttingDown, slack>>

\* The session is accepted for a client that left: no connection event, no
\* disconnect handler, and the place stays taken.
AcceptNobody(s) ==
  /\ stage[s] = "gone"
  /\ Free(s)
  /\ slack' = [slack EXCEPT ![ip[s]] = @ \cup {"left"}]
  /\ UNCHANGED <<connections, lastSeen, shuttingDown>>

Mut_Disconnect(s) ==
  /\ stage[s] = "open"
  /\ Free(s)
  /\ connections' = [connections EXCEPT ![ip[s]] = 0]
  /\ lastSeen' = Without(lastSeen, ip[s])
  /\ UNCHANGED <<shuttingDown, slack>>
Disconnect(s) ==
  /\ stage[s] = "open"
  /\ Free(s)
  /\ DecrementConnectionCount(ip[s])
  /\ UNCHANGED <<shuttingDown, slack>>

\* The periodic sweep: counts are those of the connected sockets alone, and the
\* entries it leaves were all last seen now, in the order they were met.
Mut_Reconcile ==
  /\ ~shuttingDown
  /\ connections' = [a \in IP |-> IF OpenOf(a) = {} THEN connections[a]
                                  ELSE Cardinality(OpenOf(a))]
  /\ slack' = [a \in IP |-> IF PendingOf(a) = {} THEN {} ELSE {"swept"}]
  /\ UNCHANGED <<ip, stage, lastSeen, shuttingDown>>
Reconcile ==
  /\ ~shuttingDown
  /\ connections' = [a \in IP |-> Cardinality(OpenOf(a))]
  /\ lastSeen' \in SetToSeqs({a \in IP : OpenOf(a) # {}})
  /\ slack' = [a \in IP |-> IF PendingOf(a) = {} THEN {} ELSE {"swept"}]
  /\ UNCHANGED <<ip, stage, shuttingDown>>

\* cleanupSocketModule: the sweep stops; each socket is then disconnected.
ShutDown ==
  /\ ~shuttingDown
  /\ shuttingDown' = TRUE
  /\ UNCHANGED <<ip, stage, connections, lastSeen, slack>>

TrackerNext ==
  \/ \E s \in SocketId :
       \/ \E a \in IP : Connect(s, a)
       \/ LeaveHandshake(s) \/ AuthFails(s) \/ Accept(s) \/ AcceptNobody(s)
       \/ Disconnect(s)
  \/ Reconcile
  \/ ShutDown

\* The sweep is an interval that runs as long as the process does; clients and
\* the session store owe nothing.
TrackerSpec == TrackerInit /\ [][TrackerNext]_trackerVars /\ WF_trackerVars(Reconcile)

-----------------------------------------------------------------------------
\* Types hold, and a counter is the number of sockets of its address, those in
\* their handshake included, in every interleaving of handshakes, failures and
\* disconnections: only a sweep or an eviction lets it fall behind, and only a
\* client that left in its handshake costs its address a place it does not use.
CountsMatch ==
  /\ TrackerTypeOK
  /\ \A a \in IP :
       /\ slack[a] \cap {"evicted", "swept"} = {} =>
            Cardinality(SocketsOf(a)) <= connections[a]
       /\ "left" \notin slack[a] => connections[a] <= Cardinality(SocketsOf(a))

\* An address that holds no socket is let in again: a place that leaked is
\* given back by the sweep, not kept until the process restarts.
LockoutEnds ==
  \A a \in IP : (IsConnectionLimitReached(a) /\ SocketsOf(a) = {})
                  ~> (~IsConnectionLimitReached(a) \/ shuttingDown)
=============================================================================
