-------------------------- MODULE ConnectionProofs --------------------------
(***************************************************************************)
(* Theorems of ClientSync, for any cards and any numbers of games, moves,  *)
(* silent commits, lost connections and resyncs; and of ConnectionTracker, *)
(* for any addresses, sockets and limits.                                  *)
(***************************************************************************)
EXTENDS ClientSync, ConnectionTracker, SequenceTheorems, FiniteSetTheorems, TLAPS

-----------------------------------------------------------------------------
(* The page and its game.                                                  *)

Pauses    == {"gamePaused", "gameResumed"}
JoinReply == {"roomJoined", "refused"}
Wire      == Message(Prompt \cup Slow \cup Reply)

\* A board is what a reveal, a clue and the end of a turn change; v comes
\* before g when it shows an earlier game, or fewer cards of the same.
SameBoard(v, g) == v.revealed = g.revealed /\ v.turn = g.turn /\ v.clue = g.clue
Below(v, g) ==
  v.number < g.number \/ (v.number = g.number /\ v.revealed \subseteq g.revealed)

\* TypeOK, but for the number of prompt announcements.
Types ==
  /\ game \in Games /\ view \in Games
  /\ owed \subseteq Message(Prompt \cup Slow)
  /\ channel \in Seq(Wire)
  /\ count \in [moves : 0 .. MaxMoves, mutes : 0 .. MaxMutes,
                drops : 0 .. MaxDrops, asks : 0 .. MaxAsks]
  /\ link \in BOOLEAN /\ member \in BOOLEAN /\ resync \in BOOLEAN
  /\ mode \in {"joining", "in", "rejoining", "out"}
  /\ job \in {"none", "asked", "read", "entered"}
  /\ snap \in Games
  /\ causes \subseteq {"stale", "overtaken", "unannounced", "leftover"}
  /\ (member \/ resync \/ job # "none" \/ channel # <<>>) => link
  /\ (job # "none") => (mode \in {"joining", "rejoining"})

\* What a committed change does to the game, by its kind; the end of a game that
\* a reveal brought about is announced once more.
Change(a) ==
  /\ a.kind = "gameStarted" =>
       /\ a.was.number = 0 \/ a.was.over
       /\ a.then.number = a.was.number + 1
       /\ a.then.revealed = {} /\ ~a.then.clue /\ ~a.then.over /\ ~a.then.paused
  /\ a.kind = "cardRevealed" =>
       /\ a.card \in Card \ a.was.revealed /\ a.was.clue
       /\ a.then.revealed = a.was.revealed \cup {a.card}
       /\ a.then.number = a.was.number /\ a.then.paused = a.was.paused
       /\ a.then.over => a.then.clue
  /\ a.kind = "clueGiven"   => a.then = [a.was EXCEPT !.clue = TRUE]
  /\ a.kind = "turnEnded"   => a.then = [a.was EXCEPT !.turn = Other(@), !.clue = FALSE]
  /\ a.kind = "abandoned"   => a.then = [a.was EXCEPT !.over = TRUE]
  /\ a.kind = "gamePaused"  => a.then = [a.was EXCEPT !.paused = TRUE]
  /\ a.kind = "gameResumed" => a.then = [a.was EXCEPT !.paused = FALSE]
  /\ a.kind = "gameOver"    => /\ a.then.over
                               /\ a.was.clue \/ a.then = [a.was EXCEPT !.over = TRUE]

\* What is still to be announced was true once; a prompt one is true still.
OwedIs(a) ==
  /\ Change(a)
  /\ a.then.number > 0 /\ Below(a.then, game)
  /\ a.kind \in Prompt => a.then = game /\ \A b \in owed : b.kind \in Prompt => b = a
  /\ (a.then.number = game.number /\ a.then.over) => game.over
OwedRight == \A a \in owed : OwedIs(a)

\* Before the first game there is nothing to announce and nothing to show.
EmptyRoom ==
  game.number = 0 =>
    /\ game = NoGame /\ owed = {} /\ causes \subseteq {"leftover"}
    /\ view \in {NoGame, [NoGame EXCEPT !.paused = TRUE]}
    /\ view.paused => "leftover" \in causes
    /\ \A i \in 1 .. Len(channel) : channel[i].kind \in Reply /\ channel[i].then.number = 0

InChannel(kinds) == \E i \in 1 .. Len(channel) : channel[i].kind \in kinds

\* One reply ends one join, and the socket is in the room when it arrives.
OnlyReply(i) == \A j \in 1 .. Len(channel) : j # i => channel[j].kind \notin Reply
Phase ==
  /\ mode = "out" => channel = <<>> /\ ~member
  /\ resync => mode = "in"
  /\ (link /\ mode = "in") => member /\ ~InChannel(JoinReply)
  /\ job \in {"asked", "read"} => ~member /\ channel = <<>>
  /\ job = "entered" => member /\ ~InChannel(Reply)
  /\ (job = "none" /\ link /\ mode \in {"joining", "rejoining"}) =>
       \E i \in 1 .. Len(channel) :
          /\ channel[i].kind \in JoinReply
          /\ channel[i].kind = "roomJoined" => member
          /\ OnlyReply(i)

\* What v shows differs from the game in nothing that an owed announcement does
\* not put right, whatever is announced before it.
StartOwed == \E s \in owed : s.kind = "gameStarted" /\ s.then.number = game.number
BoardOwed(v) == \E b \in owed : b.kind \in Prompt /\ SameBoard(v, b.was)
OverOwed ==
  \E b \in owed : /\ b.kind \in {"gameOver", "abandoned", "cardRevealed"}
                  /\ b.then.over /\ b.then.number = game.number
PauseOwed == \E b \in owed : b.kind \in Pauses /\ b.then.paused = game.paused
Fields(v) ==
  /\ v.number = game.number
  /\ SameBoard(v, game) \/ BoardOwed(v)
  /\ v.over # game.over => game.over /\ OverOwed
  /\ v.paused # game.paused => PauseOwed
Near(v)   == IF v.number = game.number THEN Fields(v) ELSE StartOwed
Mended(v) == StartOwed \/ Fields(v)

\* The game a join read is near the stored one as long as no announcement that
\* it does not include has gone by.
Read ==
  job \in {"read", "entered"} =>
    /\ Below(snap, game)
    /\ snap.number = 0 => snap = NoGame
    /\ causes = {} => /\ Near(snap)
                      /\ snap.number = 0 => view = NoGame /\ channel = <<>>

\* What the page will show after each message on its way.
Seen(md, v, m) ==
  CASE m.kind = "roomJoined"   -> Synced(IF md = "joining" THEN Reset(v) ELSE v, m.then)
    [] m.kind = "roomResynced" -> Synced(v, m.then)
    [] m.kind = "refused"      -> v
    [] OTHER                   -> Applied(v, m)
Views(w) ==
  /\ w \in [0 .. Len(channel) -> Games] /\ w[0] = view
  /\ \A i \in 1 .. Len(channel) : w[i] = Seen(mode, w[i - 1], channel[i])
Ordered(w) ==
  /\ \A j \in 0 .. Len(channel) : Below(w[j], game)
  /\ \A i \in 1 .. Len(channel) : channel[i].kind = "roomResynced" =>
        \A j \in 0 .. i - 1 : Below(w[j], channel[i].then)
Following == link /\ job = "none" /\ mode # "out" /\ ~InChannel({"refused"})
CatchesUp(w) == (Following /\ causes = {}) => Mended(w[Len(channel)])
Traced == \E w : Views(w) /\ Ordered(w) /\ CatchesUp(w)

IInv == Types /\ OwedRight /\ EmptyRoom /\ Phase /\ Read /\ Traced

-----------------------------------------------------------------------------
LEMMA NoGameType == NoGame \in Games /\ \A p \in BOOLEAN : [NoGame EXCEPT !.paused = p] \in Games
<1>1. 0 \in 0 .. MaxGames /\ {} \in SUBSET Card /\ "red" \in Turn
  BY BoundsAssumption DEF Turn
<1>2. NoGame \in Games
  BY <1>1 DEF NoGame, Games
<1>3. QED BY <1>2 DEF Games

LEMMA GameFields ==
  ASSUME NEW v \in Games
  PROVE  /\ v.number \in Nat /\ v.number \in 0 .. MaxGames /\ v.revealed \in SUBSET Card
         /\ v.turn \in Turn
         /\ v.clue \in BOOLEAN /\ v.over \in BOOLEAN /\ v.paused \in BOOLEAN
BY BoundsAssumption DEF Games

LEMMA MessageFields ==
  ASSUME NEW K, NEW m \in Message(K)
  PROVE  m.kind \in K /\ m.card \in Card \cup {NoCard} /\ m.was \in Games /\ m.then \in Games
BY DEF Message

LEMMA SameGame ==
  ASSUME NEW v \in Games, NEW g \in Games, v.number = g.number, SameBoard(v, g),
         v.over = g.over, v.paused = g.paused
  PROVE  v = g
BY DEF Games, SameBoard

LEMMA BelowTrans ==
  ASSUME NEW u \in Games, NEW v \in Games, NEW g \in Games, Below(u, v), Below(v, g)
  PROVE  Below(u, g)
BY GameFields DEF Below

\* A message applied to a game gives a game.
LEMMA ResetType ==
  ASSUME NEW v \in Games
  PROVE  /\ Reset(v) \in Games /\ Reset(v).number = 0 /\ Reset(v).revealed = {}
         /\ Reset(v).paused = v.paused
         /\ v \in {NoGame, [NoGame EXCEPT !.paused = TRUE]} => Reset(v) = v
BY GameFields, NoGameType DEF Reset, NoGame, Games

LEMMA SyncedType ==
  ASSUME NEW v \in Games, NEW g \in Games
  PROVE  /\ Synced(v, g) \in Games
         /\ g.number > 0 => Synced(v, g) = g
         /\ g.number = 0 => Synced(v, g) = v
BY GameFields DEF Synced

LEMMA AppliedType ==
  ASSUME NEW v \in Games, NEW m \in Message(Prompt \cup Slow),
         m.kind = "cardRevealed" => m.card \in Card
  PROVE  Applied(v, m) \in Games
<1>1. m.then \in Games /\ m.kind \in Prompt \cup Slow
  BY MessageFields
<1>2. Revealed(v, m) \in Games \/ m.kind # "cardRevealed"
  BY <1>1, GameFields DEF Revealed, Games
<1>3. Synced(v, m.then) \in Games
  BY <1>1, SyncedType
<1>4. m.then.turn \in Turn
  BY <1>1, GameFields
<1>5. /\ [v EXCEPT !.clue = TRUE] \in Games /\ [v EXCEPT !.over = TRUE] \in Games
      /\ [v EXCEPT !.paused = TRUE] \in Games /\ [v EXCEPT !.paused = FALSE] \in Games
      /\ [v EXCEPT !.turn = m.then.turn, !.clue = FALSE] \in Games
  BY <1>4 DEF Games
<1>6. QED BY <1>1, <1>2, <1>3, <1>5 DEF Applied, Prompt, Slow

LEMMA SeenType ==
  ASSUME NEW md, NEW v \in Games, NEW m \in Wire, m.kind = "cardRevealed" => m.card \in Card
  PROVE  Seen(md, v, m) \in Games
<1>1. m.then \in Games /\ m.kind \in Prompt \cup Slow \cup Reply
  BY MessageFields DEF Wire
<1>2. CASE m.kind \in Reply
  BY <1>1, <1>2, ResetType, SyncedType DEF Seen, Reply
<1>3. CASE m.kind \notin Reply
  <2>1. m \in Message(Prompt \cup Slow)
    BY <1>1, <1>3 DEF Wire, Message
  <2>2. Applied(v, m) \in Games
    BY <2>1, AppliedType
  <2>3. QED BY <2>2, <1>3 DEF Seen, Reply
<1>4. QED BY <1>2, <1>3

-----------------------------------------------------------------------------
(* The messages on their way, and the views they lead to.                  *)

\* A message is sent: the views before it stay as they are.
LEMMA TraceAppend ==
  ASSUME Types, NEW w, Views(w), NEW m \in Wire,
         m.kind = "cardRevealed" => m.card \in Card,
         channel' = Append(channel, m), UNCHANGED <<view, mode>>
  PROVE  /\ Len(channel) \in Nat /\ Len(channel') = Len(channel) + 1
         /\ channel' \in Seq(Wire)
         /\ \A i \in 1 .. Len(channel) : channel'[i] = channel[i]
         /\ channel'[Len(channel) + 1] = m
         /\ w[Len(channel)] \in Games
         /\ \E u : /\ Views(u)'
                  /\ \A j \in 0 .. Len(channel) : u[j] = w[j]
                  /\ u[Len(channel) + 1] = Seen(mode, w[Len(channel)], m)
<1> DEFINE n == Len(channel)
<1>0. PICK u : u = [j \in 0 .. n + 1 |-> IF j <= n THEN w[j] ELSE Seen(mode, w[n], m)]
  OBVIOUS
<1>1. /\ n \in Nat /\ Len(channel') = n + 1 /\ channel' \in Seq(Wire)
      /\ \A i \in 1 .. n : channel'[i] = channel[i]
      /\ channel'[n + 1] = m
  BY AppendProperties, LenProperties DEF Types
<1>2. w \in [0 .. n -> Games] /\ w[0] = view
      /\ \A i \in 1 .. n : w[i] = Seen(mode, w[i - 1], channel[i])
  BY DEF Views
<1> HIDE DEF n
<1>3. w[n] \in Games /\ Seen(mode, w[n], m) \in Games
  BY <1>1, <1>2, SeenType
<1>4. u \in [0 .. n + 1 -> Games]
  BY <1>0, <1>1, <1>2, <1>3
<1>5. /\ \A j \in 0 .. n : u[j] = w[j]
      /\ u[n + 1] = Seen(mode, w[n], m)
  BY <1>0, <1>1
<1>6. u[0] = view'
  BY <1>1, <1>2, <1>5
<1>7. ASSUME NEW i \in 1 .. n + 1 PROVE u[i] = Seen(mode', u[i - 1], channel'[i])
  <2>1. CASE i = n + 1
    <3>1. u[i - 1] = w[n] /\ channel'[i] = m
      BY <2>1, <1>1, <1>5
    <3>2. QED BY <3>1, <2>1, <1>5
  <2>2. CASE i # n + 1
    <3>1. i \in 1 .. n /\ i - 1 \in 0 .. n /\ i \in 0 .. n
      BY <2>2, <1>1
    <3>2. u[i] = w[i] /\ u[i - 1] = w[i - 1] /\ channel'[i] = channel[i]
      BY <3>1, <1>1, <1>5
    <3>3. QED BY <3>1, <3>2, <1>2
  <2>3. QED BY <2>1, <2>2
<1>8. Views(u)'
  BY <1>1, <1>4, <1>6, <1>7 DEF Views
<1>9. QED BY <1>1, <1>3, <1>5, <1>8 DEF n

\* A message arrives: the page shows the next view.
LEMMA TraceTail ==
  ASSUME Types, NEW w, Views(w), channel # <<>>, channel' = Tail(channel),
         view' = Seen(mode, view, Head(channel)),
         mode' = mode \/ \A i \in 2 .. Len(channel) : channel[i].kind # "roomJoined"
  PROVE  /\ Len(channel) \in Nat \ {0} /\ Len(channel') = Len(channel) - 1
         /\ channel' \in Seq(Wire) /\ view' \in Games /\ Head(channel) = channel[1]
         /\ \A i \in 1 .. Len(channel) - 1 : channel'[i] = channel[i + 1]
         /\ \E u : /\ Views(u)'
                  /\ \A j \in 0 .. Len(channel) - 1 : u[j] = w[j + 1]
<1> DEFINE n == Len(channel)
<1>0. PICK u : u = [j \in 0 .. n - 1 |-> w[j + 1]]
  OBVIOUS
<1>1. /\ n \in Nat \ {0} /\ Len(channel') = n - 1 /\ channel' \in Seq(Wire)
      /\ \A i \in 1 .. n - 1 : channel'[i] = channel[i + 1]
      /\ Head(channel) = channel[1]
  BY HeadTailProperties, LenProperties, EmptySeq DEF Types
<1>2. w \in [0 .. n -> Games] /\ w[0] = view
      /\ \A i \in 1 .. n : w[i] = Seen(mode, w[i - 1], channel[i])
  BY DEF Views
<1> HIDE DEF n
<1>3. view' = w[1] /\ w[1] \in Games
  <2>1. w[1] = Seen(mode, w[1 - 1], channel[1]) /\ 1 - 1 = 0 /\ w[1] \in Games
    BY <1>1, <1>2
  <2>2. QED BY <2>1, <1>1, <1>2
<1>4. u \in [0 .. n - 1 -> Games]
  BY <1>0, <1>1, <1>2
<1>5. \A j \in 0 .. n - 1 : u[j] = w[j + 1]
  BY <1>0
<1>6. u[0] = view'
  BY <1>1, <1>3, <1>5
<1>7. ASSUME NEW i \in 1 .. n - 1 PROVE u[i] = Seen(mode', u[i - 1], channel'[i])
  <2>1. i + 1 \in 1 .. n /\ i + 1 \in 2 .. n /\ i - 1 \in 0 .. n - 1 /\ i \in 0 .. n - 1
        /\ (i + 1) - 1 = i /\ (i - 1) + 1 = i
    BY <1>1
  <2>2. u[i] = w[i + 1] /\ u[i - 1] = w[i] /\ channel'[i] = channel[i + 1]
    BY <2>1, <1>1, <1>5
  <2>3. w[i + 1] = Seen(mode, w[i], channel[i + 1])
    BY <2>1, <1>2
  <2>4. CASE mode' = mode
    BY <2>2, <2>3, <2>4
  <2>5. CASE \A k \in 2 .. n : channel[k].kind # "roomJoined"
    <3>1. channel[i + 1].kind # "roomJoined"
      BY <2>1, <2>5
    <3>2. Seen(mode', w[i], channel[i + 1]) = Seen(mode, w[i], channel[i + 1])
      BY <3>1 DEF Seen
    <3>3. QED BY <2>2, <2>3, <3>2
  <2>6. QED BY <2>4, <2>5 DEF n
<1>8. Views(u)'
  BY <1>1, <1>4, <1>6, <1>7 DEF Views
<1>9. QED BY <1>1, <1>3, <1>5, <1>8 DEF n

\* With nothing on its way there is one view.
LEMMA TraceEmpty ==
  ASSUME channel' = <<>>, view' \in Games
  PROVE  \E u : Views(u)' /\ u[0] = view' /\ Len(channel') = 0
<1>0. PICK u : u = [j \in 0 .. 0 |-> view']
  OBVIOUS
<1>1. Len(channel') = 0
  BY EmptySeq
<1>2. u \in [0 .. 0 -> Games] /\ u[0] = view'
  BY <1>0
<1>3. 1 .. Len(channel') = {}
  BY <1>1
<1>4. Views(u)'
  BY <1>1, <1>2, <1>3 DEF Views
<1>5. QED BY <1>1, <1>2, <1>4

-----------------------------------------------------------------------------
(* A commit.                                                               *)

\* A change of the game: the next game, or one more step of the same.
Move(kind, g) ==
  /\ g.number > 0 /\ Below(game, g)
  /\ kind = "gameStarted" => g.number = game.number + 1
  /\ kind # "gameStarted" =>
       /\ g.number = game.number
       /\ SameBoard(game, g) \/ kind \in Prompt
       /\ g.paused = game.paused \/ kind \in Pauses
       /\ g.over = game.over \/ (g.over /\ kind \in {"gameOver", "abandoned", "cardRevealed"})
Record(kind, card, g) == [kind |-> kind, card |-> card, was |-> game, then |-> g]

LEMMA RecordType ==
  ASSUME Types, NEW kind \in Prompt \cup Slow, NEW card \in Card \cup {NoCard}, NEW g \in Games
  PROVE  Record(kind, card, g) \in Message(Prompt \cup Slow)
BY DEF Types, Record, Message

\* A view that what is owed puts right stays one when more is owed.
LEMMA CommitFields ==
  ASSUME Types, NEW kind \in Prompt \cup Slow, NEW card \in Card \cup {NoCard}, NEW g \in Games,
         Move(kind, g), kind # "gameStarted", \A b \in owed : b.kind \notin Prompt,
         game' = g, owed' = owed \cup {Record(kind, card, g)},
         NEW v \in Games, Fields(v)
  PROVE  Fields(v)'
<1>0. PICK r : r = Record(kind, card, g)
  OBVIOUS
<1>1. r \in owed' /\ r.kind = kind /\ r.was = game /\ r.then = g /\ owed \subseteq owed'
  BY <1>0 DEF Record
<1>2. SameBoard(v, game) /\ v.number = game.number
  BY DEF Fields, BoardOwed
<1>3. SameBoard(v, game)' \/ BoardOwed(v)'
  <2>1. CASE kind \in Prompt
    BY <1>1, <1>2, <2>1 DEF BoardOwed
  <2>2. CASE kind \notin Prompt
    BY <1>2, <2>2 DEF Move, SameBoard
  <2>3. QED BY <2>1, <2>2
<1>4. v.over # g.over => g.over /\ OverOwed'
  <2>1. CASE g.over = game.over
    BY <1>1, <2>1 DEF Move, Fields, OverOwed
  <2>2. CASE g.over # game.over
    BY <1>1, <2>2 DEF Move, OverOwed
  <2>3. QED BY <2>1, <2>2
<1>5. v.paused # g.paused => PauseOwed'
  <2>1. CASE g.paused = game.paused
    BY <1>1, <2>1 DEF Fields, PauseOwed
  <2>2. CASE g.paused # game.paused
    BY <1>1, <2>2 DEF Move, PauseOwed
  <2>3. QED BY <2>1, <2>2
<1>6. QED BY <1>2, <1>3, <1>4, <1>5 DEF Fields, Move

LEMMA CommitStarts ==
  ASSUME NEW kind, NEW card, NEW g, Move(kind, g), game' = g,
         owed' = owed \cup {Record(kind, card, g)},
         kind = "gameStarted" \/ StartOwed
  PROVE  StartOwed'
<1>0. PICK r : r = Record(kind, card, g)
  OBVIOUS
<1>1. CASE kind = "gameStarted"
  <2>1. r \in owed' /\ r.kind = "gameStarted" /\ r.then = game'
    BY <1>0, <1>1 DEF Record
  <2>2. QED BY <2>1 DEF StartOwed
<1>2. CASE kind # "gameStarted" /\ StartOwed
  BY <1>2 DEF StartOwed, Move
<1>3. QED BY <1>1, <1>2

LEMMA CommitOwed ==
  ASSUME Types, OwedRight, NEW kind \in Prompt \cup Slow, NEW card \in Card \cup {NoCard},
         NEW g \in Games, Move(kind, g), Change(Record(kind, card, g)),
         (g.number = game.number /\ game.over) => g.over,
         \A b \in owed : b.kind \notin Prompt,
         game' = g, owed' \in {owed, owed \cup {Record(kind, card, g)}}
  PROVE  OwedRight'
<1>0. PICK r : r = Record(kind, card, g)
  OBVIOUS
<1>1. r.kind = kind /\ r.was = game /\ r.then = g
  BY <1>0 DEF Record
<1>2. game.number \in Nat /\ g.number \in Nat /\ g.revealed \in SUBSET Card
  BY GameFields DEF Types
<1>3. ASSUME NEW a \in owed PROVE OwedIs(a)'
  <2>1. a.then \in Games /\ OwedIs(a) /\ a.then.number \in Nat
    BY MessageFields, GameFields DEF Types, OwedRight
  <2>2. Below(a.then, g)
    BY <2>1, BelowTrans DEF OwedIs, Move, Types
  <2>3. (a.then.number = g.number /\ a.then.over) => g.over
    BY <2>1, <1>2 DEF OwedIs, Move, Below
  <2>4. Change(a)' /\ a.kind \notin Prompt
    BY <2>1 DEF OwedIs, Change
  <2>5. QED BY <2>1, <2>2, <2>3, <2>4 DEF OwedIs
<1>4. ASSUME r \in owed' PROVE OwedIs(r)'
  <2>1. \A b \in owed' : b.kind \in Prompt => b = r
    BY <1>0
  <2>2. Below(r.then, g)
    BY <1>1, <1>2 DEF Below
  <2>3. Change(r)
    BY <1>0
  <2>4. QED BY <1>1, <2>1, <2>2, <2>3 DEF OwedIs, Move
<1>5. QED BY <1>0, <1>3, <1>4 DEF OwedRight

LEMMA CommitTypes ==
  ASSUME Types, NEW kind \in Prompt \cup Slow, NEW card \in Card \cup {NoCard},
         NEW g \in Games, Commit(kind, card, g)
  PROVE  /\ Types'
         /\ owed' \in {owed, owed \cup {Record(kind, card, g)}}
         /\ causes' = {} => causes = {} /\ owed' = owed \cup {Record(kind, card, g)}
         /\ causes \subseteq causes' /\ game' = g
         /\ UNCHANGED <<mode, view, link, member, job, resync, snap, channel>>
<1>1. Record(kind, card, g) \in Message(Prompt \cup Slow)
  BY RecordType
<1>2. /\ owed' \in {owed, owed \cup {Record(kind, card, g)}}
      /\ causes' \in {causes, causes \cup {"unannounced"}}
      /\ causes' = {} => causes = {} /\ owed' = owed \cup {Record(kind, card, g)}
      /\ game' = g
      /\ UNCHANGED <<mode, view, link, member, job, resync, snap, channel>>
  <2>1. CASE owed' = owed \cup {Record(kind, card, g)} /\ UNCHANGED causes
    BY <2>1 DEF Commit, page, socket
  <2>2. CASE owed' = owed /\ causes' = causes \cup {"unannounced"}
    <3>1. causes' # {}
      BY <2>2
    <3>2. QED BY <2>2, <3>1 DEF Commit, page, socket
  <2>3. QED BY <2>1, <2>2 DEF Commit, Record
<1>3. count' \in [moves : 0 .. MaxMoves, mutes : 0 .. MaxMutes,
                  drops : 0 .. MaxDrops, asks : 0 .. MaxAsks]
  <2>1. /\ count \in [moves : 0 .. MaxMoves, mutes : 0 .. MaxMutes,
                      drops : 0 .. MaxDrops, asks : 0 .. MaxAsks]
        /\ count.moves + 1 \in 0 .. MaxMoves
    BY BoundsAssumption DEF Commit, Types
  <2>2. CASE count' = [count EXCEPT !.moves = @ + 1]
    BY <2>1, <2>2
  <2>3. CASE count.mutes < MaxMutes /\ count' = [count EXCEPT !.moves = @ + 1, !.mutes = @ + 1]
    <3>1. count.mutes + 1 \in 0 .. MaxMutes
      BY <2>1, <2>3, BoundsAssumption
    <3>2. QED BY <2>1, <2>3, <3>1
  <2>4. QED BY <2>2, <2>3 DEF Commit
<1>4. QED BY <1>1, <1>2, <1>3 DEF Types

LEMMA CommitStep ==
  ASSUME IInv, NEW kind \in Prompt \cup Slow, NEW card \in Card \cup {NoCard},
         NEW g \in Games, Move(kind, g), Change(Record(kind, card, g)),
         (g.number = game.number /\ game.over) => g.over,
         Commit(kind, card, g)
  PROVE  IInv'
<1>1. /\ Types /\ OwedRight /\ Phase /\ Read
      /\ \A b \in owed : b.kind \notin Prompt
  BY DEF IInv, Commit
<1>2. /\ Types'
      /\ owed' \in {owed, owed \cup {Record(kind, card, g)}}
      /\ causes' = {} => causes = {} /\ owed' = owed \cup {Record(kind, card, g)}
      /\ causes \subseteq causes' /\ game' = g
      /\ UNCHANGED <<mode, view, link, member, job, resync, snap, channel>>
  BY <1>1, CommitTypes
<1>3. OwedRight'
  BY <1>1, <1>2, CommitOwed
<1>4. EmptyRoom'
  BY <1>2 DEF EmptyRoom, Move
<1>5. Phase'
  BY <1>1, <1>2 DEF Phase, InChannel, OnlyReply
<1>6. ASSUME NEW v \in Games, causes' = {}, Mended(v) PROVE Mended(v)'
  <2>1. CASE kind = "gameStarted" \/ StartOwed
    BY <2>1, <1>2, <1>6, CommitStarts DEF Mended
  <2>2. CASE ~(kind = "gameStarted" \/ StartOwed)
    BY <2>2, <1>1, <1>2, <1>6, CommitFields DEF Mended
  <2>3. QED BY <2>1, <2>2
<1>7. ASSUME NEW v \in Games, Below(v, game) PROVE Below(v, g)
  BY <1>1, <1>7, BelowTrans DEF Move, Types
<1>8. ASSUME NEW v \in Games, causes' = {}, Near(v), Below(v, game) PROVE Near(v)'
  <2>1. v.number \in Nat /\ game.number \in Nat /\ g.number \in Nat
    BY <1>1, GameFields DEF Types
  <2>2. CASE kind = "gameStarted"
    <3>1. v.number # g.number
      BY <2>1, <2>2, <1>8 DEF Move, Below
    <3>2. QED BY <2>2, <3>1, <1>2, <1>8, CommitStarts DEF Near
  <2>3. CASE kind # "gameStarted" /\ v.number = game.number
    <3>1. Fields(v)'
      BY <2>3, <1>1, <1>2, <1>8, CommitFields DEF Near
    <3>2. QED BY <3>1 DEF Near, Fields
  <2>4. CASE kind # "gameStarted" /\ v.number # game.number
    <3>1. StartOwed'
      BY <2>4, <1>2, <1>8, CommitStarts DEF Near
    <3>2. QED BY <2>4, <3>1, <1>2 DEF Near, Move
  <2>5. QED BY <2>2, <2>3, <2>4
<1>9. Read'
  <2>1. PICK v \in Games : v = snap
    BY <1>1 DEF Types
  <2>2. QED BY <2>1, <1>1, <1>2, <1>7, <1>8 DEF Read
<1>10. Traced'
  <2>1. PICK w : Views(w) /\ Ordered(w) /\ CatchesUp(w)
    BY DEF IInv, Traced
  <2>2. \A j \in 0 .. Len(channel) : w[j] \in Games
    BY <2>1 DEF Views
  <2>3. Views(w)'
    BY <2>1, <1>2 DEF Views
  <2>4. Ordered(w)'
    BY <2>1, <2>2, <1>2, <1>7 DEF Ordered
  <2>5. CatchesUp(w)'
    <3>1. Len(channel) \in Nat
      BY <1>1, LenProperties DEF Types
    <3>2. PICK v \in Games : v = w[Len(channel)]
      BY <2>2, <3>1
    <3>3. (Following /\ causes = {}) => Mended(v)
      BY <2>1, <3>2 DEF CatchesUp
    <3>4. Following' => Following
      BY <1>2 DEF Following, InChannel
    <3>5. (Following' /\ causes' = {}) => Mended(v)'
      BY <3>3, <3>4, <1>2, <1>6
    <3>6. v = w[Len(channel)]'
      BY <3>2, <1>2
    <3>7. QED BY <3>5, <3>6 DEF CatchesUp
  <2>6. QED BY <2>3, <2>4, <2>5 DEF Traced
<1>11. QED BY <1>2, <1>3, <1>4, <1>5, <1>9, <1>10 DEF IInv

-----------------------------------------------------------------------------
(* The moves.                                                              *)

LEMMA MoveStep ==
  ASSUME IInv,
         Clue \/ (\E c \in Card : Reveal(c)) \/ EndTurn \/ Forfeit \/ Abandon
           \/ Pause \/ Resume \/ StartGame
  PROVE  IInv'
<1> USE DEF Move, Change, Record, Below, SameBoard, Pauses, Prompt, Slow
<1>1. /\ game \in Games /\ game.number \in Nat /\ game.number \in 0 .. MaxGames
      /\ game.revealed \in SUBSET Card /\ game.turn \in Turn
      /\ game.clue \in BOOLEAN /\ game.over \in BOOLEAN /\ game.paused \in BOOLEAN
      /\ Other(game.turn) \in Turn
  <2>1. game \in Games
    BY DEF IInv, Types
  <2>2. QED BY <2>1, GameFields DEF Other, Turn
<1>2. CASE Clue
  <2> DEFINE g == [game EXCEPT !.clue = TRUE]
  <2>1. Commit("clueGiven", NoCard, g) /\ game.number > 0
    BY <1>2 DEF Clue, Playing
  <2>2. g \in Games
    BY <1>1 DEF Games
  <2>3. Move("clueGiven", g) /\ Change(Record("clueGiven", NoCard, g))
        /\ ((g.number = game.number /\ game.over) => g.over)
    BY <1>1, <2>1 DEF Games
  <2>4. QED BY <2>1, <2>2, <2>3, CommitStep
<1>3. ASSUME NEW c \in Card, Reveal(c) PROVE IInv'
  <2> DEFINE shown == [game EXCEPT !.revealed = @ \cup {c}]
             passed == [shown EXCEPT !.turn = Other(@), !.clue = FALSE]
             ended == [shown EXCEPT !.over = TRUE]
  <2>1. PICK g \in {shown, passed, ended} : Commit("cardRevealed", c, g)
    BY <1>3 DEF Reveal
  <2>2. game.number > 0 /\ game.clue /\ ~game.over /\ c \notin game.revealed
    BY <1>3 DEF Reveal, Playing
  <2>3. shown \in Games /\ passed \in Games /\ ended \in Games
    BY <1>1 DEF Games
  <2>4. /\ g \in Games /\ g.number = game.number /\ g.paused = game.paused
        /\ g.revealed = game.revealed \cup {c}
        /\ g.over => g.clue
    BY <1>1, <2>1, <2>2, <2>3 DEF Games
  <2> HIDE DEF shown, passed, ended
  <2>5. Move("cardRevealed", g) /\ Change(Record("cardRevealed", c, g))
        /\ ((g.number = game.number /\ game.over) => g.over)
    BY <1>1, <2>2, <2>4, GameFields
  <2>6. QED BY <2>1, <2>4, <2>5, CommitStep
<1>4. CASE EndTurn
  <2> DEFINE g == [game EXCEPT !.turn = Other(@), !.clue = FALSE]
  <2>1. Commit("turnEnded", NoCard, g) /\ game.number > 0
    BY <1>4 DEF EndTurn, Playing
  <2>2. g \in Games
    BY <1>1 DEF Games
  <2>3. Move("turnEnded", g) /\ Change(Record("turnEnded", NoCard, g))
        /\ ((g.number = game.number /\ game.over) => g.over)
    BY <1>1, <2>1 DEF Games
  <2>4. QED BY <2>1, <2>2, <2>3, CommitStep
<1>5. CASE Forfeit \/ Abandon
  <2> DEFINE g == [game EXCEPT !.over = TRUE]
  <2>1. PICK k \in {"gameOver", "abandoned"} : Commit(k, NoCard, g)
    BY <1>5 DEF Forfeit, Abandon
  <2>2. g \in Games /\ game.number > 0
    BY <1>1, <1>5 DEF Games, Forfeit, Abandon, Playing
  <2>3. Move(k, g) /\ Change(Record(k, NoCard, g))
        /\ ((g.number = game.number /\ game.over) => g.over)
    BY <1>1, <2>1, <2>2 DEF Games
  <2>4. QED BY <2>1, <2>2, <2>3, CommitStep
<1>6. CASE Pause
  <2> DEFINE g == [game EXCEPT !.paused = TRUE]
  <2>1. Commit("gamePaused", NoCard, g) /\ game.number > 0
    BY <1>6 DEF Pause
  <2>2. g \in Games
    BY <1>1 DEF Games
  <2>3. Move("gamePaused", g) /\ Change(Record("gamePaused", NoCard, g))
        /\ ((g.number = game.number /\ game.over) => g.over)
    BY <1>1, <2>1 DEF Games
  <2>4. QED BY <2>1, <2>2, <2>3, CommitStep
<1>7. CASE Resume
  <2> DEFINE g == [game EXCEPT !.paused = FALSE]
  <2>1. Commit("gameResumed", NoCard, g) /\ game.number > 0
    BY <1>7 DEF Resume
  <2>2. g \in Games
    BY <1>1 DEF Games
  <2>3. Move("gameResumed", g) /\ Change(Record("gameResumed", NoCard, g))
        /\ ((g.number = game.number /\ game.over) => g.over)
    BY <1>1, <2>1 DEF Games
  <2>4. QED BY <2>1, <2>2, <2>3, CommitStep
<1>8. CASE StartGame
  <2>1. PICK t \in Turn :
          Commit("gameStarted", NoCard, [NoGame EXCEPT !.number = game.number + 1, !.turn = t])
    BY <1>8 DEF StartGame
  <2>2. (game.number = 0 \/ game.over) /\ game.number < MaxGames
    BY <1>8 DEF StartGame
  <2> DEFINE g == [NoGame EXCEPT !.number = game.number + 1, !.turn = t]
  <2>3. /\ g \in Games /\ g.number = game.number + 1 /\ g.revealed = {}
        /\ ~g.clue /\ ~g.over /\ ~g.paused
    <3>1. game.number + 1 \in 0 .. MaxGames
      BY <1>1, <2>2, BoundsAssumption
    <3>2. QED BY <3>1 DEF NoGame, Games
  <2>4. Commit("gameStarted", NoCard, g)
    BY <2>1
  <2> HIDE DEF g
  <2>5. Move("gameStarted", g) /\ Change(Record("gameStarted", NoCard, g))
        /\ ((g.number = game.number /\ game.over) => g.over)
    BY <1>1, <2>2, <2>3
  <2>6. QED BY <2>3, <2>4, <2>5, CommitStep
<1>9. QED BY <1>2, <1>3, <1>4, <1>5, <1>6, <1>7, <1>8

-----------------------------------------------------------------------------
(* An announcement.                                                        *)

\* What is owed once a has been announced.
OwedAfter(a) ==
  (owed \ {a}) \cup
    IF a.kind = "cardRevealed" /\ a.then.over THEN {[a EXCEPT !.kind = "gameOver"]} ELSE {}

LEMMA AnnounceOwed ==
  ASSUME Types, OwedRight, NEW a \in owed, owed' = OwedAfter(a), game' = game
  PROVE  /\ owed' \subseteq Message(Prompt \cup Slow)
         /\ OwedRight'
         /\ owed \ {a} \subseteq owed'
         /\ \A b \in owed' : b \notin owed =>
              /\ b.kind = "gameOver" /\ a.kind = "cardRevealed" /\ a.then.over
              /\ b.then = a.then /\ b.was = a.was
         /\ (a.kind = "cardRevealed" /\ a.then.over) =>
              \E b \in owed' : b.kind = "gameOver" /\ b.then = a.then
<1>1. a \in Message(Prompt \cup Slow) /\ OwedIs(a)
  BY DEF Types, OwedRight
<1>2. PICK c : c = [a EXCEPT !.kind = "gameOver"]
  OBVIOUS
<1>3. /\ c \in Message(Prompt \cup Slow) /\ c.kind = "gameOver"
      /\ c.was = a.was /\ c.then = a.then
  BY <1>1, <1>2 DEF Message, Slow
<1>4. \/ owed' = owed \ {a}
      \/ owed' = (owed \ {a}) \cup {c} /\ a.kind = "cardRevealed" /\ a.then.over
  BY <1>2 DEF OwedAfter
<1>5. (a.kind = "cardRevealed" /\ a.then.over) => c \in owed'
  BY <1>2 DEF OwedAfter
<1>6. owed \ {a} \subseteq owed'
  BY DEF OwedAfter
<1>7. OwedRight'
  <2>1. ASSUME NEW b \in owed
        PROVE  (\A d \in owed' : d.kind \in Prompt => d = b) \/ b.kind \notin Prompt
    <3>1. OwedIs(b)
      BY DEF OwedRight
    <3>2. QED BY <3>1, <1>3, <1>4 DEF OwedIs, Prompt
  <2>2. ASSUME NEW b \in owed PROVE OwedIs(b)'
    <3>1. OwedIs(b)
      BY DEF OwedRight
    <3>2. QED BY <2>1, <3>1 DEF OwedIs, Change
  <2>3. ASSUME a.kind = "cardRevealed", a.then.over PROVE OwedIs(c)'
    BY <2>3, <1>1, <1>3 DEF OwedIs, Change, Prompt
  <2>4. QED BY <1>4, <2>2, <2>3 DEF OwedRight
<1>8. QED BY <1>1, <1>3, <1>4, <1>5, <1>6, <1>7 DEF Types

\* An announcement that is not out of date puts right what it was owed for.
LEMMA AnnounceStart ==
  ASSUME Types, OwedRight, NEW a \in owed, owed' = OwedAfter(a), game' = game,
         a.kind = "gameStarted", ~Outdated(a)
  PROVE  Fields(a.then)'
<1>1. /\ a.then \in Games /\ a.was \in Games /\ game \in Games /\ a.then.number \in Nat
      /\ a.was.number \in Nat /\ OwedIs(a) /\ owed \ {a} \subseteq owed'
  BY AnnounceOwed, MessageFields, GameFields DEF Types, OwedRight
<1>2. CASE a.then = game
  BY <1>2 DEF Fields, SameBoard
<1>3. CASE a.then # game
  <2>1. PICK b \in owed : b.was = a.then /\ b.then = game
    BY <1>3 DEF Outdated
  <2>2. /\ OwedIs(b) /\ b.kind \in Prompt \cup Slow
    BY MessageFields DEF Types, OwedRight
  <2>3. /\ a.then.number = a.was.number + 1 /\ ~a.then.clue /\ ~a.then.over /\ ~a.then.paused
        /\ a.then.number > 0
    BY <1>1 DEF OwedIs, Change
  <2>4. b \in owed'
    BY <1>1, <2>1, <2>3
  <2>5. b.kind \notin {"gameStarted", "cardRevealed"}
    BY <1>1, <2>1, <2>2, <2>3 DEF OwedIs, Change
  <2> DEFINE v == a.then
  <2>6. /\ v \in Games /\ v.number \in Nat /\ v.clue = FALSE /\ v.over = FALSE /\ v.paused = FALSE
    BY <1>1, <2>3, GameFields
  <2> HIDE DEF v
  <2>7. CASE b.kind = "clueGiven"
    <3>1. game = [v EXCEPT !.clue = TRUE]
      BY <2>1, <2>2, <2>7 DEF OwedIs, Change, v
    <3>2. game.number = v.number /\ game.over = v.over /\ game.paused = v.paused
      BY <3>1, <2>6 DEF Games
    <3>3. BoardOwed(a.then)'
      BY <2>1, <2>4, <2>7 DEF BoardOwed, SameBoard, Prompt
    <3>4. QED BY <3>2, <3>3 DEF Fields, v
  <2>8. CASE b.kind = "turnEnded"
    <3>1. game = [v EXCEPT !.turn = Other(@), !.clue = FALSE]
      BY <2>1, <2>2, <2>8 DEF OwedIs, Change, v
    <3>2. game.number = v.number /\ game.over = v.over /\ game.paused = v.paused
      BY <3>1, <2>6 DEF Games
    <3>3. BoardOwed(a.then)'
      BY <2>1, <2>4, <2>8 DEF BoardOwed, SameBoard, Prompt
    <3>4. QED BY <3>2, <3>3 DEF Fields, v
  <2>9. CASE b.kind \in {"abandoned", "gameOver"}
    <3>1. game = [v EXCEPT !.over = TRUE]
      BY <2>1, <2>2, <2>6, <2>9 DEF OwedIs, Change, v
    <3>2. game.number = v.number /\ SameBoard(v, game) /\ game.paused = v.paused /\ game.over
      BY <3>1, <2>6 DEF Games, SameBoard
    <3>3. OverOwed'
      BY <2>1, <2>4, <2>9, <3>2 DEF OverOwed
    <3>4. QED BY <3>2, <3>3 DEF Fields, SameBoard, v
  <2>10. CASE b.kind \in Pauses
    <3>1. \E p \in BOOLEAN : game = [v EXCEPT !.paused = p]
      BY <2>1, <2>2, <2>10 DEF OwedIs, Change, Pauses, v
    <3>2. game.number = v.number /\ SameBoard(v, game) /\ game.over = v.over
      BY <3>1, <2>6 DEF Games, SameBoard
    <3>3. PauseOwed'
      BY <2>1, <2>4, <2>10 DEF PauseOwed
    <3>4. QED BY <3>2, <3>3 DEF Fields, SameBoard, v
  <2>11. QED BY <2>2, <2>5, <2>7, <2>8, <2>9, <2>10 DEF Prompt, Slow, Pauses
<1>4. QED BY <1>2, <1>3

\* The owed announcements that put v right still do once a is gone, unless a
\* was one of them.
LEMMA AnnounceOthers ==
  ASSUME Types, OwedRight, NEW a \in owed, owed' = OwedAfter(a), game' = game
  PROVE  /\ a.kind # "gameStarted" /\ StartOwed => StartOwed'
         /\ OverOwed /\ a.kind \notin {"gameOver", "abandoned"} => OverOwed'
         /\ PauseOwed /\ (a.kind \notin Pauses \/ a.then.paused # game.paused) => PauseOwed'
<1>1. /\ owed \ {a} \subseteq owed'
      /\ (a.kind = "cardRevealed" /\ a.then.over) =>
           \E b \in owed' : b.kind = "gameOver" /\ b.then = a.then
  BY AnnounceOwed
<1>2. ASSUME a.kind # "gameStarted", StartOwed PROVE StartOwed'
  BY <1>1, <1>2 DEF StartOwed
<1>3. ASSUME OverOwed, a.kind \notin {"gameOver", "abandoned"} PROVE OverOwed'
  <2>1. PICK b \in owed : /\ b.kind \in {"gameOver", "abandoned", "cardRevealed"}
                          /\ b.then.over /\ b.then.number = game.number
    BY <1>3 DEF OverOwed
  <2>2. CASE b # a
    BY <1>1, <2>1, <2>2 DEF OverOwed
  <2>3. CASE b = a
    <3>1. a.kind = "cardRevealed" /\ a.then.over
      BY <1>3, <2>1, <2>3
    <3>2. QED BY <1>1, <2>1, <2>3, <3>1 DEF OverOwed
  <2>4. QED BY <2>2, <2>3
<1>4. ASSUME PauseOwed, a.kind \notin Pauses \/ a.then.paused # game.paused PROVE PauseOwed'
  BY <1>1, <1>4 DEF PauseOwed
<1>5. QED BY <1>2, <1>3, <1>4

\* A prompt announcement: the board it was made on becomes the board of the game.
LEMMA AnnouncePrompt ==
  ASSUME Types, OwedRight, NEW a \in owed, a.kind \in Prompt,
         NEW v \in Games, Fields(v),
         NEW m, m.kind = a.kind, m.card = a.card, m.then = a.then,
         NEW u, u = Applied(v, m)
  PROVE  /\ u.number = v.number /\ u.paused = v.paused
         /\ SameBoard(u, game)
         /\ \/ u.over = v.over
            \/ u.over = game.over /\ a.kind # "turnEnded" /\ a.kind # "clueGiven"
         /\ a.kind = "abandoned" => u.over = game.over
<1>1. /\ OwedIs(a) /\ a.then = game /\ game \in Games /\ a.was \in Games
      /\ \A b \in owed : b.kind \in Prompt => b = a
  BY MessageFields DEF Types, OwedRight, OwedIs
<1>2. /\ v.number = game.number /\ game.number \in Nat \ {0}
      /\ SameBoard(v, game) \/ SameBoard(v, a.was)
      /\ v.over # game.over => game.over
  BY <1>1, GameFields DEF Fields, BoardOwed, OwedIs
<1>3. /\ v.clue \in BOOLEAN /\ game.clue \in BOOLEAN /\ a.was.clue \in BOOLEAN
      /\ v.over \in BOOLEAN /\ game.over \in BOOLEAN
  BY <1>1, GameFields
<1>4. CASE a.kind = "clueGiven"
  <2>1. game = [a.was EXCEPT !.clue = TRUE]
    BY <1>1, <1>4 DEF OwedIs, Change
  <2>2. game.clue = TRUE /\ game.revealed = a.was.revealed /\ game.turn = a.was.turn
    BY <1>1, <2>1 DEF Games
  <2>3. u = [v EXCEPT !.clue = TRUE]
    BY <1>4 DEF Applied
  <2>4. /\ u.clue = TRUE /\ u.revealed = v.revealed /\ u.turn = v.turn /\ u.number = v.number
        /\ u.paused = v.paused /\ u.over = v.over
    BY <2>3 DEF Games
  <2>5. QED BY <1>2, <1>4, <2>2, <2>4 DEF SameBoard
<1>5. CASE a.kind = "turnEnded"
  <2>1. game = [a.was EXCEPT !.turn = Other(@), !.clue = FALSE]
    BY <1>1, <1>5 DEF OwedIs, Change
  <2>2. game.clue = FALSE /\ game.revealed = a.was.revealed
    BY <1>1, <2>1 DEF Games
  <2>3. u = [v EXCEPT !.turn = game.turn, !.clue = FALSE]
    BY <1>1, <1>5 DEF Applied
  <2>4. /\ u.clue = FALSE /\ u.revealed = v.revealed /\ u.turn = game.turn /\ u.number = v.number
        /\ u.paused = v.paused /\ u.over = v.over
    BY <2>3 DEF Games
  <2>5. QED BY <1>2, <1>5, <2>2, <2>4 DEF SameBoard
<1>6. CASE a.kind = "abandoned"
  <2>1. game = [a.was EXCEPT !.over = TRUE]
    BY <1>1, <1>6 DEF OwedIs, Change
  <2>2. game.over = TRUE /\ SameBoard(v, game)
    BY <1>1, <1>2, <2>1 DEF Games, SameBoard
  <2>3. u = [v EXCEPT !.over = TRUE]
    BY <1>6 DEF Applied
  <2>4. u.over = TRUE /\ SameBoard(u, v) /\ u.number = v.number /\ u.paused = v.paused
    BY <2>3 DEF Games, SameBoard
  <2>5. QED BY <1>6, <2>2, <2>4 DEF SameBoard
<1>7. CASE a.kind = "cardRevealed"
  <2>1. /\ a.card \notin a.was.revealed /\ a.was.clue
        /\ game.revealed = a.was.revealed \cup {a.card}
        /\ game.over => game.clue
    BY <1>1, <1>7 DEF OwedIs, Change
  <2>2. u = Revealed(v, m)
    BY <1>7 DEF Applied
  <2>3. CASE a.card \in v.revealed
    <3>1. u = v
      BY <2>2, <2>3 DEF Revealed
    <3>2. SameBoard(v, game)
      BY <1>2, <2>1, <2>3 DEF SameBoard
    <3>3. QED BY <1>7, <3>1, <3>2
  <2>4. CASE a.card \notin v.revealed
    <3>1. SameBoard(v, a.was)
      BY <1>2, <2>1, <2>4 DEF SameBoard
    <3>2. u = [v EXCEPT !.revealed = @ \cup {a.card}, !.turn = game.turn, !.over = game.over,
                        !.clue = @ /\ (game.clue \/ game.over)]
      BY <1>1, <1>2, <2>2, <2>4 DEF Revealed
    <3>3. /\ u.revealed = v.revealed \cup {a.card} /\ u.turn = game.turn /\ u.over = game.over
          /\ u.clue = (v.clue /\ (game.clue \/ game.over))
          /\ u.number = v.number /\ u.paused = v.paused
      BY <3>2 DEF Games
    <3>4. v.clue = TRUE /\ v.revealed = a.was.revealed
      BY <1>3, <2>1, <3>1 DEF SameBoard
    <3>5. u.clue = game.clue
      BY <1>3, <2>1, <3>3, <3>4
    <3>6. QED BY <1>7, <2>1, <3>3, <3>4, <3>5 DEF SameBoard
  <2>5. QED BY <2>3, <2>4
<1>8. QED BY <1>4, <1>5, <1>6, <1>7 DEF Prompt

LEMMA AnnounceMends ==
  ASSUME Types, OwedRight, NEW a \in owed, owed' = OwedAfter(a), game' = game, ~Outdated(a),
         NEW v \in Games, Mended(v),
         NEW m, m.kind = a.kind, m.card = a.card, m.then = a.then,
         NEW u, u = Applied(v, m)
  PROVE  Mended(u)'
<1>1. /\ a.kind \in Prompt \cup Slow /\ a.then \in Games /\ a.then.number > 0 /\ OwedIs(a)
      /\ game \in Games
  BY MessageFields DEF Types, OwedRight, OwedIs
<1>2. /\ a.kind # "gameStarted" /\ StartOwed => StartOwed'
      /\ OverOwed /\ a.kind \notin {"gameOver", "abandoned"} => OverOwed'
      /\ PauseOwed /\ (a.kind \notin Pauses \/ a.then.paused # game.paused) => PauseOwed'
  BY AnnounceOthers
<1>3. CASE a.kind = "gameStarted"
  <2>1. u = a.then
    BY <1>1, <1>3 DEF Applied, Synced
  <2>2. QED BY <1>3, <2>1, AnnounceStart DEF Mended
<1>4. CASE a.kind # "gameStarted" /\ StartOwed
  BY <1>2, <1>4 DEF Mended
<1> SUFFICES ASSUME a.kind # "gameStarted", Fields(v) PROVE Fields(u)' \/ StartOwed'
  BY <1>3, <1>4 DEF Mended
<1>5. CASE a.kind \in Prompt
  <2>1. /\ u.number = v.number /\ u.paused = v.paused
        /\ SameBoard(u, game)
        /\ u.over = v.over \/ (u.over = game.over /\ a.kind # "turnEnded" /\ a.kind # "clueGiven")
        /\ a.kind = "abandoned" => u.over = game.over
    BY <1>5, AnnouncePrompt
  <2>2. u.paused # game.paused => PauseOwed'
    BY <1>2, <1>5, <2>1 DEF Fields, Prompt, Pauses
  <2>3. u.over # game.over => game.over /\ OverOwed'
    BY <1>2, <1>5, <2>1 DEF Fields, Prompt
  <2>4. QED BY <2>1, <2>2, <2>3 DEF Fields, SameBoard
<1>6. ASSUME a.kind \in Slow PROVE SameBoard(v, game)' \/ BoardOwed(v)'
  <2>1. owed \ {a} \subseteq owed' /\ a.kind \notin Prompt
    BY <1>6, AnnounceOwed DEF Prompt, Slow
  <2>2. QED BY <2>1 DEF Fields, BoardOwed, SameBoard
<1>7. CASE a.kind = "gameOver"
  <2>1. u = [v EXCEPT !.over = TRUE]
    BY <1>7 DEF Applied
  <2>2. u.over = TRUE /\ SameBoard(u, v) /\ u.number = v.number /\ u.paused = v.paused
    BY <2>1 DEF Games, SameBoard
  <2>3. SameBoard(u, game)' \/ BoardOwed(u)'
    BY <1>6, <1>7, <2>2 DEF SameBoard, BoardOwed, Slow
  <2>4. u.paused # game.paused => PauseOwed'
    BY <1>2, <1>7, <2>2 DEF Fields, Pauses
  <2>5. CASE a.then.number = game.number
    <3>1. game.over \in BOOLEAN /\ game.over
      BY <1>1, <1>7, <2>5, GameFields DEF OwedIs, Change
    <3>2. QED BY <2>2, <2>3, <2>4, <3>1 DEF Fields
  <2>6. CASE a.then.number # game.number
    <3>1. StartOwed
      BY <1>7, <2>6 DEF Outdated, StartOwed
    <3>2. QED BY <1>2, <1>7, <3>1
  <2>7. QED BY <2>5, <2>6
<1>8. CASE a.kind \in Pauses
  <2>1. a.then.paused = (a.kind = "gamePaused")
    <3>1. a.was \in Games
      BY MessageFields DEF Types
    <3>2. QED BY <1>1, <1>8, <3>1 DEF OwedIs, Change, Pauses, Games
  <2>2. u = [v EXCEPT !.paused = (a.kind = "gamePaused")]
    BY <1>8 DEF Applied, Pauses
  <2>3. /\ u.paused = a.then.paused /\ u.over = v.over /\ SameBoard(u, v)
        /\ u.number = v.number
    BY <2>1, <2>2 DEF Games, SameBoard
  <2>4. SameBoard(u, game)' \/ BoardOwed(u)'
    BY <1>6, <1>8, <2>3 DEF SameBoard, BoardOwed, Slow, Pauses
  <2>5. u.over # game.over => game.over /\ OverOwed'
    BY <1>2, <1>8, <2>3 DEF Fields, Pauses
  <2>6. u.paused # game.paused => PauseOwed'
    <3>1. ASSUME a.then.paused # game.paused PROVE PauseOwed
      BY <1>8, <3>1 DEF Outdated, Pauses, PauseOwed
    <3>2. QED BY <1>2, <2>3, <3>1
  <2>7. QED BY <2>3, <2>4, <2>5, <2>6 DEF Fields
<1>9. QED BY <1>1, <1>5, <1>7, <1>8 DEF Slow, Pauses

\* No announcement takes a view further than the game.
LEMMA AnnounceBelow ==
  ASSUME Types, OwedRight, NEW a \in owed, NEW v \in Games, Below(v, game),
         NEW m, m.kind = a.kind, m.card = a.card, m.then = a.then
  PROVE  Below(Applied(v, m), game)
<1>1. /\ a.kind \in Prompt \cup Slow /\ a.then \in Games /\ OwedIs(a) /\ game \in Games
  BY MessageFields DEF Types, OwedRight
<1>2. CASE a.kind = "gameStarted"
  BY <1>1, <1>2 DEF Applied, Synced, OwedIs
<1>3. CASE a.kind = "cardRevealed"
  <2>1. a.card \in game.revealed
    BY <1>1, <1>3 DEF OwedIs, Change, Prompt
  <2>2. Applied(v, m) = Revealed(v, m)
    BY <1>3 DEF Applied
  <2>3. CASE Revealed(v, m) = v
    BY <2>2, <2>3
  <2>4. CASE Revealed(v, m) # v
    <3>1. Revealed(v, m) = [v EXCEPT !.revealed = @ \cup {a.card}, !.turn = m.then.turn,
                              !.over = m.then.over, !.clue = @ /\ (m.then.clue \/ m.then.over)]
      BY <2>4 DEF Revealed
    <3>2. Revealed(v, m).number = v.number /\ Revealed(v, m).revealed = v.revealed \cup {a.card}
      BY <3>1 DEF Games
    <3>3. QED BY <2>1, <2>2, <3>2 DEF Below
  <2>5. QED BY <2>3, <2>4
<1>4. CASE a.kind \notin {"gameStarted", "cardRevealed"}
  <2>1. Applied(v, m).number = v.number /\ Applied(v, m).revealed = v.revealed
    BY <1>1, <1>4 DEF Applied, Prompt, Slow, Games
  <2>2. QED BY <2>1 DEF Below
<1>5. QED BY <1>2, <1>3, <1>4

\* A game that was read stays near the stored one when what is announced is what
\* was read.
LEMMA AnnounceNear ==
  ASSUME Types, OwedRight, NEW a \in owed, owed' = OwedAfter(a), game' = game, Near(a.then)
  PROVE  Near(a.then)'
<1> DEFINE v == a.then
<1>1. /\ a.kind \in Prompt \cup Slow /\ v \in Games /\ OwedIs(a) /\ game \in Games
      /\ owed \ {a} \subseteq owed'
  BY MessageFields, AnnounceOwed DEF Types, OwedRight
<1>2. /\ OverOwed /\ a.kind \notin {"gameOver", "abandoned"} => OverOwed'
      /\ PauseOwed /\ (a.kind \notin Pauses \/ a.then.paused # game.paused) => PauseOwed'
  BY AnnounceOthers
<1>3. CASE v.number # game.number
  <2>1. StartOwed'
    BY <1>1, <1>3 DEF Near, StartOwed
  <2>2. QED BY <1>3, <2>1 DEF Near
<1>4. CASE v.number = game.number /\ a.kind \in Prompt
  <2>1. v = game
    BY <1>1, <1>4 DEF OwedIs
  <2>2. QED BY <2>1 DEF Near, Fields, SameBoard
<1>5. CASE v.number = game.number /\ a.kind \in Slow
  <2>1. Fields(v)
    BY <1>5 DEF Near
  <2>2. SameBoard(v, game) \/ BoardOwed(v)'
    BY <1>1, <1>5, <2>1 DEF Fields, BoardOwed, Prompt, Slow
  <2>3. v.paused # game.paused => PauseOwed'
    BY <1>2, <2>1 DEF Fields
  <2>4. v.over # game.over => game.over /\ OverOwed'
    <3>1. CASE a.kind = "gameOver"
      <4>1. v.over /\ v.over \in BOOLEAN /\ game.over \in BOOLEAN
        BY <1>1, <3>1, GameFields DEF OwedIs, Change
      <4>2. QED BY <2>1, <4>1 DEF Fields
    <3>2. CASE a.kind # "gameOver"
      BY <1>2, <1>5, <2>1, <3>2 DEF Fields, Slow
    <3>3. QED BY <3>1, <3>2
  <2>5. Fields(v)'
    BY <1>5, <2>2, <2>3, <2>4 DEF Fields, SameBoard, BoardOwed
  <2>6. QED BY <1>5, <2>5 DEF Near
<1>6. QED BY <1>1, <1>3, <1>4, <1>5

LEMMA FollowingIsMember ==
  ASSUME Types, Phase, Following
  PROVE  member
BY DEF Types, Phase, Following, InChannel, JoinReply

\* The channel after a message is sent.
LEMMA SentChannel ==
  ASSUME Types, NEW m \in Wire, channel' = Append(channel, m)
  PROVE  /\ \A K : InChannel(K)' <=> (InChannel(K) \/ m.kind \in K)
         /\ m.kind \notin Reply => \A i \in 1 .. Len(channel) : OnlyReply(i) => OnlyReply(i)'
<1>1. /\ Len(channel) \in Nat /\ Len(channel') = Len(channel) + 1
      /\ \A i \in 1 .. Len(channel) : channel'[i] = channel[i]
      /\ channel'[Len(channel) + 1] = m
  BY AppendProperties, LenProperties DEF Types
<1>2. 1 .. Len(channel') = 1 .. Len(channel) \cup {Len(channel) + 1}
  BY <1>1
<1>3. ASSUME NEW K PROVE InChannel(K)' <=> (InChannel(K) \/ m.kind \in K)
  BY <1>1, <1>2 DEF InChannel
<1>4. ASSUME m.kind \notin Reply, NEW i \in 1 .. Len(channel), OnlyReply(i) PROVE OnlyReply(i)'
  BY <1>1, <1>2, <1>4 DEF OnlyReply
<1>5. QED BY <1>3, <1>4

LEMMA AnnounceStep ==
  ASSUME IInv, NEW a \in owed, Announce(a)
  PROVE  IInv'
<1>1. Types /\ OwedRight /\ EmptyRoom /\ Phase /\ Read /\ Traced
  BY DEF IInv
<1>2. PICK m : m = [a EXCEPT !.was = NoGame]
  OBVIOUS
<1>3. /\ m.kind = a.kind /\ m.card = a.card /\ m.then = a.then /\ m \in Wire
      /\ a.kind \in Prompt \cup Slow /\ a.kind \notin Reply
      /\ a.kind = "cardRevealed" => a.card \in Card
      /\ a.then \in Games /\ a.then.number > 0 /\ game.number # 0
  <2>1. a \in Message(Prompt \cup Slow) /\ OwedIs(a)
    BY <1>1 DEF Types, OwedRight
  <2>2. game.number # 0
    BY <1>1 DEF EmptyRoom
  <2>3. m \in Wire /\ m.kind = a.kind /\ m.card = a.card /\ m.then = a.then
    BY <1>2, <2>1, NoGameType DEF Message, Wire
  <2>4. a.kind \in Prompt \cup Slow /\ a.kind \notin Reply /\ a.then \in Games
    BY <2>1, MessageFields DEF Prompt, Slow, Reply
  <2>5. QED BY <2>1, <2>2, <2>3, <2>4 DEF OwedIs, Change
<1>4. /\ owed' = OwedAfter(a) /\ mode # "out"
      /\ channel' = IF member THEN Append(channel, m) ELSE channel
      /\ game' = game /\ view' = view /\ mode' = mode /\ link' = link /\ member' = member
      /\ job' = job /\ resync' = resync /\ snap' = snap /\ count' = count
  BY <1>2 DEF Announce, OwedAfter, page, socket
<1>5. /\ causes \subseteq causes'
      /\ causes' \subseteq causes \cup {"stale", "overtaken"}
      /\ causes' = {} => /\ causes = {}
                         /\ job \in {"read", "entered"} => a.then = snap
                         /\ member => ~Outdated(a)
  BY DEF Announce
<1>6. OwedRight' /\ owed' \subseteq Message(Prompt \cup Slow)
  BY <1>1, <1>4, AnnounceOwed
<1>7. Types'
  <2>1. channel' \in Seq(Wire)
    BY <1>1, <1>3, <1>4, AppendProperties DEF Types
  <2>2. (channel' # <<>>) => link
    BY <1>1, <1>4 DEF Types
  <2>3. QED BY <1>1, <1>4, <1>5, <1>6, <2>1, <2>2 DEF Types
<1>8. EmptyRoom'
  BY <1>3, <1>4 DEF EmptyRoom
<1>9. Phase'
  <2>1. CASE ~member
    BY <1>1, <1>4, <2>1 DEF Phase, InChannel, OnlyReply
  <2>2. CASE member
    <3>1. \A K : K \subseteq Reply => (InChannel(K)' <=> InChannel(K))
      BY <1>1, <1>3, <1>4, <2>2, SentChannel
    <3>2. JoinReply \subseteq Reply
      BY DEF JoinReply, Reply
    <3>3. \A i \in 1 .. Len(channel) : OnlyReply(i) => OnlyReply(i)'
      BY <1>1, <1>3, <1>4, <2>2, SentChannel
    <3>4. \A i \in 1 .. Len(channel) : i \in 1 .. Len(channel)' /\ channel'[i] = channel[i]
      BY <1>1, <1>3, <1>4, <2>2, AppendProperties, LenProperties DEF Types
    <3>5. (job = "none" /\ link /\ mode \in {"joining", "rejoining"}) =>
             \E i \in 1 .. Len(channel)' :
                /\ channel'[i].kind \in JoinReply
                /\ channel'[i].kind = "roomJoined" => member
                /\ OnlyReply(i)'
      BY <1>1, <3>3, <3>4 DEF Phase
    <3>6. InChannel(JoinReply)' <=> InChannel(JoinReply)
      BY <3>1, <3>2
    <3>7. InChannel(Reply)' <=> InChannel(Reply)
      BY <3>1
    <3>8. QED BY <1>1, <1>4, <2>2, <3>5, <3>6, <3>7 DEF Phase
  <2>3. QED BY <2>1, <2>2, <1>1 DEF Types
<1>10. Read'
  <2>1. ASSUME job \in {"read", "entered"}, causes' = {}
        PROVE  Near(snap)' /\ snap.number # 0
    <3>1. a.then = snap /\ Near(snap)
      BY <1>1, <1>5, <2>1 DEF Read
    <3>2. Near(a.then)'
      BY <1>1, <1>4, <3>1, AnnounceNear
    <3>3. QED BY <1>3, <1>4, <3>1, <3>2
  <2>2. QED BY <1>1, <1>4, <2>1 DEF Read
<1>11. Traced'
  <2>1. PICK w : Views(w) /\ Ordered(w) /\ CatchesUp(w)
    BY <1>1 DEF Traced
  <2>2. CASE ~member
    <3>1. ~Following'
      <4>1. ~Following
        BY <1>1, <2>2, FollowingIsMember
      <4>2. QED BY <4>1, <1>4, <2>2 DEF Following, InChannel
    <3>2. Views(w)' /\ Ordered(w)'
      BY <1>4, <2>1, <2>2 DEF Views, Ordered
    <3>3. QED BY <3>1, <3>2 DEF Traced, CatchesUp
  <2>3. CASE member
    <3>0. PICK n \in Nat : n = Len(channel)
      BY <1>1, LenProperties DEF Types
    <3>1. channel' = Append(channel, m)
      BY <1>4, <2>3
    <3>2. /\ n \in Nat /\ Len(channel') = n + 1
          /\ \A i \in 1 .. n : channel'[i] = channel[i]
          /\ channel'[n + 1] = m /\ w[n] \in Games
          /\ \E u : /\ Views(u)'
                   /\ \A j \in 0 .. n : u[j] = w[j]
                   /\ u[n + 1] = Seen(mode, w[n], m)
      BY <1>1, <1>3, <1>4, <2>1, <3>0, <3>1, TraceAppend
    <3>3. PICK u : /\ Views(u)'
                   /\ \A j \in 0 .. n : u[j] = w[j]
                   /\ u[n + 1] = Seen(mode, w[n], m)
      BY <3>2
    <3>4. PICK v : v = w[n]
      OBVIOUS
    <3>5. v \in Games /\ Below(v, game) /\ u[n + 1] = Applied(v, m)
      BY <1>3, <2>1, <3>0, <3>2, <3>3, <3>4 DEF Ordered, Seen, Reply
    <3>6. Below(u[n + 1], game)
      BY <1>1, <1>3, <3>5, AnnounceBelow
    <3>7. \A j \in 0 .. n + 1 : Below(u[j], game)
      BY <2>1, <3>0, <3>2, <3>3, <3>6 DEF Ordered
    <3>8. ASSUME NEW i \in 1 .. n + 1, channel'[i].kind = "roomResynced"
          PROVE  \A j \in 0 .. i - 1 : Below(u[j], channel'[i].then)
      <4>1. i \in 1 .. n
        BY <1>3, <3>2, <3>8 DEF Reply
      <4>2. \A j \in 0 .. i - 1 : j \in 0 .. n
        BY <3>2, <4>1
      <4>3. QED BY <2>1, <3>0, <3>2, <3>3, <3>8, <4>1, <4>2 DEF Ordered
    <3>9. Ordered(u)'
      <4>1. Len(channel)' = n + 1
        BY <3>2
      <4>2. \A j \in 0 .. n + 1 : Below(u[j], game')
        BY <3>7, <1>4
      <4>3. QED BY <3>8, <4>1, <4>2 DEF Ordered
    <3>10. CatchesUp(u)'
      <4>1. Following' => Following
        BY <1>1, <1>3, <1>4, <3>1, SentChannel DEF Following
      <4>2. PICK x : x = u[n + 1]
        OBVIOUS
      <4>3. ASSUME Following', causes' = {} PROVE Mended(x)'
        <5>1. Mended(v) /\ ~Outdated(a)
          BY <1>5, <2>1, <2>3, <3>0, <3>4, <4>1, <4>3 DEF CatchesUp
        <5>2. QED BY <1>1, <1>3, <1>4, <3>5, <4>2, <5>1, AnnounceMends
      <4>4. x = u[Len(channel)]'
        BY <3>2, <4>2
      <4>5. QED BY <4>3, <4>4 DEF CatchesUp
    <3>11. QED BY <3>3, <3>9, <3>10 DEF Traced
  <2>4. QED BY <2>2, <2>3, <1>1 DEF Types
<1>12. QED BY <1>6, <1>7, <1>8, <1>9, <1>10, <1>11 DEF IInv

-----------------------------------------------------------------------------
(* The requests, their replies and the page.                               *)

LEMMA GameSame ==
  ASSUME UNCHANGED <<game, owed>>
  PROVE  /\ OwedRight => OwedRight'
         /\ \A v : (Near(v) => Near(v)') /\ (Mended(v) => Mended(v)')
<1>1. ASSUME NEW a, OwedIs(a) PROVE OwedIs(a)'
  BY <1>1 DEF OwedIs, Change
<1>2. OwedRight => OwedRight'
  BY <1>1 DEF OwedRight
<1>3. ASSUME NEW v PROVE Fields(v) => Fields(v)'
  BY DEF Fields, SameBoard, BoardOwed, OverOwed, PauseOwed
<1>4. StartOwed => StartOwed'
  BY DEF StartOwed
<1>5. QED BY <1>2, <1>3, <1>4 DEF Near, Mended

LEMMA GameIsNear == Near(game) /\ Mended(game)
BY DEF Near, Mended, Fields, SameBoard

LEMMA BelowItself == ASSUME NEW v PROVE Below(v, v)
BY DEF Below

LEMMA ResetBelow ==
  ASSUME NEW v \in Games, NEW g \in Games
  PROVE  Below(Reset(v), g)
BY ResetType, GameFields DEF Below

\* A page that waits for nothing, and one whose messages are gone.
LEMMA TraceStays ==
  ASSUME Traced, ~Following', UNCHANGED <<game, view, mode, channel>>
  PROVE  Traced'
<1>1. PICK w : Views(w) /\ Ordered(w)
  BY DEF Traced
<1>2. Views(w)' /\ Ordered(w)' /\ CatchesUp(w)'
  BY <1>1 DEF Views, Ordered, CatchesUp
<1>3. QED BY <1>2 DEF Traced

LEMMA TraceGone ==
  ASSUME ~Following', channel' = <<>>, view' \in Games, Below(view', game')
  PROVE  Traced'
<1>1. PICK u : Views(u)' /\ u[0] = view' /\ Len(channel') = 0
  BY TraceEmpty
<1>2. Ordered(u)'
  <2>1. 0 .. Len(channel') = {0} /\ 1 .. Len(channel') = {}
    BY <1>1
  <2>2. QED BY <1>1, <2>1 DEF Ordered
<1>3. QED BY <1>1, <1>2 DEF Traced, CatchesUp

LEMMA ViewBelow ==
  ASSUME Types, Traced
  PROVE  Below(view, game)
<1>1. Len(channel) \in Nat
  BY LenProperties DEF Types
<1>2. QED BY <1>1 DEF Traced, Views, Ordered

\* A reply is sent.
LEMMA TraceSent ==
  ASSUME Types, Traced, NEW m \in Wire, m.kind \in Reply, channel' = Append(channel, m),
         UNCHANGED <<game, view, mode>>,
         m.kind = "roomResynced" => m.then = game,
         \A v \in Games : Below(v, game) =>
           /\ Below(Seen(mode, v, m), game)
           /\ ((Following /\ causes = {}) => Mended(v)) /\ (channel = <<>> => v = view)
                 => ((Following' /\ causes' = {}) => Mended(Seen(mode, v, m))')
  PROVE  Traced'
<1>1. PICK w : Views(w) /\ Ordered(w) /\ CatchesUp(w)
  BY DEF Traced
<1>2. PICK n \in Nat : n = Len(channel)
  BY LenProperties DEF Types
<1>3. /\ Len(channel') = n + 1
      /\ \A i \in 1 .. n : channel'[i] = channel[i]
      /\ channel'[n + 1] = m /\ w[n] \in Games
      /\ \E u : /\ Views(u)'
               /\ \A j \in 0 .. n : u[j] = w[j]
               /\ u[n + 1] = Seen(mode, w[n], m)
  BY <1>1, <1>2, TraceAppend DEF Reply
<1>4. PICK u : /\ Views(u)'
               /\ \A j \in 0 .. n : u[j] = w[j]
               /\ u[n + 1] = Seen(mode, w[n], m)
  BY <1>3
<1>5. PICK v : v = w[n]
  OBVIOUS
<1>6. /\ v \in Games /\ Below(v, game)
      /\ (Following /\ causes = {}) => Mended(v)
      /\ channel = <<>> => v = view
  <2>1. channel = <<>> => n = 0
    BY <1>2, EmptySeq
  <2>2. QED BY <1>1, <1>2, <1>3, <1>5, <2>1 DEF Ordered, CatchesUp, Views
<1>7. PICK x : x = u[n + 1]
  OBVIOUS
<1>8. x = Seen(mode, v, m) /\ Below(x, game)
  BY <1>4, <1>5, <1>6, <1>7
<1>9. (Following' /\ causes' = {}) => Mended(x)'
  <2>1. x = Seen(mode, v, m)'
    BY <1>8
  <2>2. QED BY <1>6, <2>1
<1>10. Ordered(u)'
  <2>1. \A j \in 0 .. n + 1 : Below(u[j], game')
    BY <1>1, <1>2, <1>4, <1>7, <1>8 DEF Ordered
  <2>2. ASSUME NEW i \in 1 .. n + 1, channel'[i].kind = "roomResynced"
        PROVE  \A j \in 0 .. i - 1 : Below(u[j], channel'[i].then)
    <3>1. CASE i = n + 1
      BY <1>3, <2>1, <2>2, <3>1
    <3>2. CASE i # n + 1
      <4>1. i \in 1 .. n /\ \A j \in 0 .. i - 1 : j \in 0 .. n
        BY <3>2
      <4>2. QED BY <1>1, <1>2, <1>3, <1>4, <2>2, <4>1 DEF Ordered
    <3>3. QED BY <3>1, <3>2
  <2>3. Len(channel)' = n + 1
    BY <1>3
  <2>4. QED BY <2>1, <2>2, <2>3 DEF Ordered
<1>11. CatchesUp(u)'
  <2>1. x = u[Len(channel)]'
    BY <1>3, <1>7
  <2>2. QED BY <1>9, <2>1 DEF CatchesUp
<1>12. QED BY <1>4, <1>10, <1>11 DEF Traced

\* A message is received.
LEMMA TraceReceived ==
  ASSUME Types, Traced, channel # <<>>, channel' = Tail(channel),
         view' = Seen(mode, view, Head(channel)), UNCHANGED <<game, owed, causes>>,
         mode' = mode \/ \A i \in 2 .. Len(channel) : channel[i].kind # "roomJoined",
         Following' => Following
  PROVE  Traced' /\ view' \in Games /\ channel' \in Seq(Wire)
<1>1. PICK w : Views(w) /\ Ordered(w) /\ CatchesUp(w)
  BY DEF Traced
<1>2. PICK n : n = Len(channel)
  OBVIOUS
<1>3. /\ n \in Nat \ {0} /\ Len(channel') = n - 1
      /\ channel' \in Seq(Wire) /\ view' \in Games
      /\ \A i \in 1 .. n - 1 : channel'[i] = channel[i + 1]
      /\ \E u : /\ Views(u)'
               /\ \A j \in 0 .. n - 1 : u[j] = w[j + 1]
  BY <1>1, <1>2, TraceTail
<1>4. PICK u : Views(u)' /\ \A j \in 0 .. n - 1 : u[j] = w[j + 1]
  BY <1>3
<1>5. Ordered(u)'
  <2>1. \A j \in 0 .. n - 1 : Below(u[j], game')
    <3>1. \A j \in 0 .. n - 1 : j + 1 \in 0 .. n
      BY <1>3
    <3>2. QED BY <1>1, <1>2, <1>4, <3>1 DEF Ordered
  <2>2. ASSUME NEW i \in 1 .. n - 1, channel'[i].kind = "roomResynced"
        PROVE  \A j \in 0 .. i - 1 : Below(u[j], channel'[i].then)
    <3>1. /\ i + 1 \in 1 .. n /\ channel'[i] = channel[i + 1]
          /\ \A j \in 0 .. i - 1 : j \in 0 .. n - 1 /\ j + 1 \in 0 .. (i + 1) - 1
      BY <1>3
    <3>2. \A k \in 0 .. (i + 1) - 1 : Below(w[k], channel[i + 1].then)
      BY <1>1, <1>2, <2>2, <3>1 DEF Ordered
    <3>3. QED BY <1>4, <3>1, <3>2
  <2>3. Len(channel)' = n - 1
    BY <1>3
  <2>4. QED BY <2>1, <2>2, <2>3 DEF Ordered
<1>6. CatchesUp(u)'
  <2>1. PICK x : x = w[n]
    OBVIOUS
  <2>2. (n - 1) + 1 = n /\ n - 1 \in 0 .. n - 1
    BY <1>3
  <2>3. x = u[Len(channel)]'
    BY <1>3, <1>4, <2>1, <2>2
  <2>4. (Following' /\ causes' = {}) => Mended(x)
    BY <1>1, <1>2, <2>1 DEF CatchesUp
  <2>5. Mended(x) => Mended(x)'
    BY GameSame
  <2>6. QED BY <2>3, <2>4, <2>5 DEF CatchesUp
<1>7. QED BY <1>3, <1>4, <1>5, <1>6 DEF Traced

LEMMA JoinReadsStep ==
  ASSUME IInv, JoinReads
  PROVE  IInv'
<1>1. Types /\ OwedRight /\ EmptyRoom /\ Phase /\ Traced
  BY DEF IInv
<1>2. /\ job = "asked" /\ job' = "read" /\ snap' = game /\ causes' = CausesAfterRead
      /\ UNCHANGED <<game, owed, mode, view, count, channel, link, member, resync>>
  BY DEF JoinReads, server, page
<1>3. ~member /\ channel = <<>>
  BY <1>1, <1>2 DEF Phase
<1>4. Types'
  BY <1>1, <1>2 DEF Types, CausesAfterRead
<1>5. OwedRight'
  BY <1>1, <1>2, GameSame
<1>6. EmptyRoom'
  BY <1>1, <1>2 DEF EmptyRoom, CausesAfterRead
<1>7. Phase'
  BY <1>1, <1>2, <1>3 DEF Phase, InChannel
<1>8. Read'
  <2>1. Near(game)'
    BY GameIsNear, <1>2, GameSame
  <2>2. Below(game, game)
    BY BelowItself
  <2>3. ASSUME game.number = 0, causes' = {} PROVE view = NoGame
    <3>1. ~view.paused /\ view \in {NoGame, [NoGame EXCEPT !.paused = TRUE]}
      BY <1>1, <1>2, <2>3 DEF EmptyRoom, CausesAfterRead
    <3>2. [NoGame EXCEPT !.paused = TRUE].paused = TRUE
      BY DEF NoGame
    <3>3. QED BY <3>1, <3>2
  <2>4. game.number = 0 => game = NoGame
    BY <1>1 DEF EmptyRoom
  <2>5. Near(snap)' /\ Below(snap, game)'
    <3>1. PICK g : g = game
      OBVIOUS
    <3>2. Near(g)' /\ Below(g, g) /\ game' = g /\ snap' = g
      BY <2>2, <3>1, <1>2, GameIsNear, GameSame
    <3>3. QED BY <3>2
  <2>6. QED BY <1>2, <1>3, <2>3, <2>4, <2>5 DEF Read
<1>9. Traced'
  BY <1>1, <1>2, TraceStays DEF Following
<1>10. QED BY <1>4, <1>5, <1>6, <1>7, <1>8, <1>9 DEF IInv

LEMMA JoinEntersStep ==
  ASSUME IInv, JoinEnters
  PROVE  IInv'
<1>1. Types /\ OwedRight /\ EmptyRoom /\ Phase /\ Traced /\ Read
  BY DEF IInv
<1>2. /\ job = "read" /\ job' = "entered" /\ member' = TRUE
      /\ UNCHANGED <<game, owed, mode, view, count, channel, causes, link, resync, snap>>
  BY DEF JoinEnters, server, page
<1>3. channel = <<>> /\ 1 .. Len(channel) = {}
  BY <1>1, <1>2, EmptySeq DEF Phase
<1>4. Types'
  BY <1>1, <1>2 DEF Types
<1>5. OwedRight'
  BY <1>1, <1>2, GameSame
<1>6. EmptyRoom'
  BY <1>1, <1>2 DEF EmptyRoom
<1>7. Phase'
  BY <1>1, <1>2, <1>3 DEF Phase, InChannel, Types
<1>8. Read'
  <2>1. PICK g : g = snap
    OBVIOUS
  <2>2. Near(g) => Near(g)'
    BY <1>2, GameSame
  <2>3. QED BY <1>1, <1>2, <2>1, <2>2 DEF Read
<1>9. Traced'
  BY <1>1, <1>2, TraceStays DEF Following
<1>10. QED BY <1>4, <1>5, <1>6, <1>7, <1>8, <1>9 DEF IInv

\* The reply of a join is the only one on its way.
LEMMA JoinAnswered ==
  ASSUME Types, Phase, job # "none", NEW m \in Wire, m.kind \in JoinReply,
         m.kind = "roomJoined" => member, channel' = Append(channel, m),
         job' = "none", UNCHANGED <<mode, link, member, resync>>
  PROVE  Phase' /\ channel' \in Seq(Wire)
<1>1. PICK n \in Nat : n = Len(channel)
  BY LenProperties DEF Types
<1>2. /\ Len(channel') = n + 1 /\ channel' \in Seq(Wire)
      /\ \A i \in 1 .. n : channel'[i] = channel[i]
      /\ channel'[n + 1] = m
  BY <1>1, AppendProperties DEF Types
<1>3. ~InChannel(Reply)
  <2>1. CASE job = "entered"
    BY <2>1 DEF Phase
  <2>2. CASE job # "entered"
    <3>1. Len(channel) = 0
      BY <2>2, EmptySeq DEF Phase, Types
    <3>2. QED BY <3>1 DEF InChannel
  <2>3. QED BY <2>1, <2>2
<1>4. \A i \in 1 .. n : channel'[i].kind \notin Reply
  BY <1>1, <1>2, <1>3 DEF InChannel
<1>5. /\ n + 1 \in 1 .. Len(channel)' /\ channel'[n + 1].kind \in JoinReply
      /\ channel'[n + 1].kind = "roomJoined" => member'
      /\ OnlyReply(n + 1)'
  BY <1>2, <1>4 DEF OnlyReply
<1>6. link /\ mode \in {"joining", "rejoining"} /\ ~resync
  BY DEF Types, Phase
<1>7. QED BY <1>2, <1>5, <1>6 DEF Phase

LEMMA JoinRepliesStep ==
  ASSUME IInv, JoinReplies
  PROVE  IInv'
<1>1. Types /\ OwedRight /\ EmptyRoom /\ Phase /\ Traced /\ Read
  BY DEF IInv
<1>2. PICK m : m = [kind |-> "roomJoined", card |-> NoCard, was |-> NoGame, then |-> snap]
  OBVIOUS
<1>3. PICK g \in Games : g = snap
  BY <1>1 DEF Types
<1>4. m \in Wire /\ m.kind = "roomJoined" /\ m.then = g
  BY <1>2, <1>3, NoGameType DEF Wire, Message, Reply
<1>5. /\ job = "entered" /\ job' = "none" /\ snap' = NoGame /\ channel' = Append(channel, m)
      /\ UNCHANGED <<game, owed, mode, view, count, causes, link, member, resync>>
  BY <1>2 DEF JoinReplies, Send, server, page
<1>6. Phase' /\ channel' \in Seq(Wire)
  BY <1>1, <1>4, <1>5, JoinAnswered DEF JoinReply, Phase
<1>7. Types'
  BY <1>1, <1>5, <1>6, NoGameType DEF Types
<1>8. OwedRight'
  BY <1>1, <1>5, GameSame
<1>9. Below(g, game) /\ (g.number = 0 => g = NoGame)
      /\ (causes = {} => Near(g) /\ (g.number = 0 => view = NoGame /\ channel = <<>>))
  BY <1>1, <1>3, <1>5 DEF Read
<1>10. /\ Len(channel) \in Nat /\ Len(channel') = Len(channel) + 1
       /\ \A i \in 1 .. Len(channel) : channel'[i] = channel[i]
       /\ channel'[Len(channel) + 1] = m
  BY <1>1, <1>4, <1>5, AppendProperties, LenProperties DEF Types
<1>11. EmptyRoom'
  <2>1. game.number = 0 => g.number = 0
    BY <1>1, <1>9, GameFields DEF Below, Types
  <2>2. ASSUME game.number = 0, NEW i \in 1 .. Len(channel')
        PROVE  channel'[i].kind \in Reply /\ channel'[i].then.number = 0
    <3>1. CASE i = Len(channel) + 1
      BY <1>4, <1>10, <2>1, <2>2, <3>1 DEF Reply
    <3>2. CASE i # Len(channel) + 1
      BY <1>1, <1>10, <2>2, <3>2 DEF EmptyRoom
    <3>3. QED BY <3>1, <3>2
  <2>3. QED BY <1>1, <1>5, <2>2 DEF EmptyRoom
<1>12. Traced'
  <2>1. ASSUME NEW v \in Games, Below(v, game)
        PROVE  Below(Seen(mode, v, m), game)
    <3>1. Seen(mode, v, m) \in {g, v, Reset(v)}
      BY <1>4 DEF Seen, Synced
    <3>2. QED BY <1>1, <1>9, <2>1, <3>1, ResetBelow DEF Types
  <2>2. ASSUME NEW v \in Games, causes' = {}, channel = <<>> => v = view
        PROVE  Mended(Seen(mode, v, m))'
    <3>1. Seen(mode, v, m) = g
      <4>1. CASE g.number = 0
        <5>1. v = NoGame /\ Reset(v) = v /\ g = NoGame
          BY <1>5, <1>9, <2>2, <4>1, ResetType
        <5>2. QED BY <1>4, <4>1, <5>1 DEF Seen, Synced
      <4>2. CASE g.number # 0
        BY <1>4, <4>2, GameFields DEF Seen, Synced
      <4>3. QED BY <4>1, <4>2
    <3>2. Mended(g)'
      <4>1. Mended(g)
        BY <1>5, <1>9, <2>2 DEF Near, Mended
      <4>2. QED BY <1>5, <4>1, GameSame
    <3>3. Seen(mode, v, m)' = g
      BY <1>5, <3>1
    <3>4. QED BY <3>2, <3>3
  <2>3. QED BY <1>1, <1>4, <1>5, <2>1, <2>2, TraceSent DEF Reply
<1>13. Read'
  BY <1>5 DEF Read
<1>14. QED BY <1>6, <1>7, <1>8, <1>11, <1>12, <1>13 DEF IInv

LEMMA JoinRefusedStep ==
  ASSUME IInv, JoinRefused
  PROVE  IInv'
<1>1. Types /\ OwedRight /\ EmptyRoom /\ Phase /\ Traced
  BY DEF IInv
<1>2. PICK m : m = [kind |-> "refused", card |-> NoCard, was |-> NoGame, then |-> NoGame]
  OBVIOUS
<1>3. m \in Wire /\ m.kind = "refused" /\ m.then = NoGame
  BY <1>2, NoGameType DEF Wire, Message, Reply
<1>4. /\ job # "none" /\ job' = "none" /\ snap' = NoGame /\ channel' = Append(channel, m)
      /\ UNCHANGED <<game, owed, mode, view, count, causes, link, member, resync>>
  BY <1>2 DEF JoinRefused, Send, server, page
<1>5. Phase' /\ channel' \in Seq(Wire)
  BY <1>1, <1>3, <1>4, JoinAnswered DEF JoinReply
<1>6. Types'
  BY <1>1, <1>4, <1>5, NoGameType DEF Types
<1>7. OwedRight'
  BY <1>1, <1>4, GameSame
<1>8. /\ Len(channel) \in Nat /\ Len(channel') = Len(channel) + 1
      /\ \A i \in 1 .. Len(channel) : channel'[i] = channel[i]
      /\ channel'[Len(channel) + 1] = m
  BY <1>1, <1>3, <1>4, AppendProperties, LenProperties DEF Types
<1>9. EmptyRoom'
  <2>1. ASSUME game.number = 0, NEW i \in 1 .. Len(channel')
        PROVE  channel'[i].kind \in Reply /\ channel'[i].then.number = 0
    <3>1. CASE i = Len(channel) + 1
      BY <1>3, <1>8, <3>1 DEF Reply, NoGame
    <3>2. CASE i # Len(channel) + 1
      BY <1>1, <1>8, <2>1, <3>2 DEF EmptyRoom
    <3>3. QED BY <3>1, <3>2
  <2>2. QED BY <1>1, <1>4, <2>1 DEF EmptyRoom
<1>10. Traced'
  <2>1. ~Following'
    BY <1>3, <1>8 DEF Following, InChannel
  <2>2. \A v : Seen(mode, v, m) = v
    BY <1>3 DEF Seen
  <2>3. QED BY <1>1, <1>3, <1>4, <2>1, <2>2, TraceSent DEF Reply
<1>11. Read'
  BY <1>4 DEF Read
<1>12. QED BY <1>5, <1>6, <1>7, <1>9, <1>10, <1>11 DEF IInv

LEMMA ResyncRepliesStep ==
  ASSUME IInv, ResyncReplies
  PROVE  IInv'
<1>1. Types /\ OwedRight /\ EmptyRoom /\ Phase /\ Traced
  BY DEF IInv
<1>2. /\ resync /\ resync' = FALSE /\ snap' = NoGame
      /\ UNCHANGED <<game, owed, mode, view, count, link, member, job>>
  BY DEF ResyncReplies, server, page
<1>3. mode = "in" /\ job = "none" /\ link
  BY <1>1, <1>2 DEF Types, Phase
<1>4. OwedRight'
  BY <1>1, <1>2, GameSame
<1>5. Read'
  BY <1>2, <1>3 DEF Read
<1>6. CASE UNCHANGED <<channel, causes>>
  <2>1. Types'
    BY <1>1, <1>2, <1>6, NoGameType DEF Types
  <2>2. EmptyRoom'
    BY <1>1, <1>2, <1>6 DEF EmptyRoom
  <2>3. Phase'
    BY <1>1, <1>2, <1>3, <1>6 DEF Phase, InChannel
  <2>4. Traced'
    <3>1. PICK w : Views(w) /\ Ordered(w) /\ CatchesUp(w)
      BY <1>1 DEF Traced
    <3>2. PICK x : x = w[Len(channel)]
      OBVIOUS
    <3>3. Mended(x) => Mended(x)'
      BY <1>2, GameSame
    <3>4. x = w[Len(channel)]'
      BY <1>6, <3>2
    <3>5. Following' => Following
      BY <1>2, <1>6 DEF Following, InChannel
    <3>6. CatchesUp(w)'
      BY <1>6, <3>1, <3>2, <3>3, <3>4, <3>5 DEF CatchesUp
    <3>7. QED BY <1>2, <1>6, <3>1, <3>6 DEF Traced, Views, Ordered
  <2>5. QED BY <1>4, <1>5, <2>1, <2>2, <2>3, <2>4 DEF IInv
<1>7. CASE Send("roomResynced", game) /\ causes' = CausesAfterRead
  <2>1. PICK m : m = [kind |-> "roomResynced", card |-> NoCard, was |-> NoGame, then |-> game]
    OBVIOUS
  <2>2. m \in Wire /\ m.kind = "roomResynced" /\ m.then = game /\ m.kind \in Reply
    BY <1>1, <2>1, NoGameType DEF Wire, Message, Reply, Types
  <2>3. channel' = Append(channel, m)
    BY <1>7, <2>1 DEF Send
  <2>4. /\ Len(channel) \in Nat /\ Len(channel') = Len(channel) + 1 /\ channel' \in Seq(Wire)
        /\ \A i \in 1 .. Len(channel) : channel'[i] = channel[i]
        /\ channel'[Len(channel) + 1] = m
    BY <1>1, <2>2, <2>3, AppendProperties, LenProperties DEF Types
  <2>5. causes' \subseteq causes
    BY <1>7 DEF CausesAfterRead
  <2>6. Types'
    BY <1>1, <1>2, <1>3, <2>4, <2>5, NoGameType DEF Types
  <2>7. EmptyRoom'
    <3>1. ASSUME game.number = 0, NEW i \in 1 .. Len(channel')
          PROVE  channel'[i].kind \in Reply /\ channel'[i].then.number = 0
      <4>1. CASE i = Len(channel) + 1
        BY <2>2, <2>4, <3>1, <4>1
      <4>2. CASE i # Len(channel) + 1
        BY <1>1, <2>4, <3>1, <4>2 DEF EmptyRoom
      <4>3. QED BY <4>1, <4>2
    <3>2. QED BY <1>1, <1>2, <1>7, <3>1 DEF EmptyRoom, CausesAfterRead
  <2>8. InChannel(JoinReply)' <=> InChannel(JoinReply)
    BY <1>1, <2>2, <2>3, SentChannel DEF JoinReply
  <2>9. Phase'
    BY <1>1, <1>2, <1>3, <2>8 DEF Phase
  <2>10. Traced'
    <3>1. Following' => Following
      BY <1>1, <1>2, <2>2, <2>3, SentChannel DEF Following
    <3>2. ASSUME NEW v \in Games, Below(v, game)
          PROVE  Below(Seen(mode, v, m), game)
      BY <2>2, <3>2, BelowItself DEF Seen, Synced
    <3>3. ASSUME NEW v \in Games, Following', causes' = {},
                 (Following /\ causes = {}) => Mended(v)
          PROVE  Mended(Seen(mode, v, m))'
      <4>1. PICK x : x = Seen(mode, v, m)
        OBVIOUS
      <4>2. Mended(x)
        <5>1. CASE game.number > 0
          BY <2>2, <4>1, <5>1, GameIsNear DEF Seen, Synced
        <5>2. CASE game.number = 0
          <6>1. causes = {}
            BY <1>1, <1>7, <3>3, <5>2 DEF EmptyRoom, CausesAfterRead
          <6>2. x = v
            BY <2>2, <4>1, <5>2 DEF Seen, Synced
          <6>3. QED BY <3>1, <3>3, <6>1, <6>2
        <5>3. QED BY <1>1, <5>1, <5>2, GameFields DEF Types
      <4>3. x = Seen(mode, v, m)'
        BY <1>2, <4>1
      <4>4. QED BY <1>2, <4>2, <4>3, GameSame
    <3>4. QED BY <1>1, <1>2, <2>2, <2>3, <3>2, <3>3, TraceSent
  <2>11. QED BY <1>4, <1>5, <2>6, <2>7, <2>9, <2>10 DEF IInv
<1>8. QED BY <1>6, <1>7 DEF ResyncReplies

\* The channel after a message is taken from it.
LEMMA ReceivedChannel ==
  ASSUME Types, channel # <<>>, channel' = Tail(channel)
  PROVE  /\ Len(channel) \in Nat \ {0} /\ Len(channel') = Len(channel) - 1
         /\ channel' \in Seq(Wire) /\ Head(channel) = channel[1] /\ channel[1] \in Wire
         /\ \A i \in 1 .. Len(channel') : /\ i + 1 \in 1 .. Len(channel)
                                         /\ channel'[i] = channel[i + 1]
         /\ \A K : InChannel(K)' => InChannel(K)
         /\ \A K : (Head(channel).kind \notin K /\ InChannel(K)) => InChannel(K)'
         /\ \A i \in 2 .. Len(channel) : /\ i - 1 \in 1 .. Len(channel')
                                        /\ channel'[i - 1] = channel[i]
                                        /\ OnlyReply(i) => OnlyReply(i - 1)'
<1>1. PICK n : n = Len(channel)
  OBVIOUS
<1>2. /\ n \in Nat \ {0} /\ Len(channel') = n - 1 /\ channel' \in Seq(Wire)
      /\ \A i \in 1 .. n - 1 : channel'[i] = channel[i + 1]
      /\ Head(channel) = channel[1]
  BY <1>1, HeadTailProperties, LenProperties, EmptySeq DEF Types
<1>3. channel[1] \in Wire
  BY <1>1, <1>2, ElementOfSeq DEF Types
<1>4. \A i \in 1 .. n - 1 : i + 1 \in 1 .. n /\ i + 1 # 1
  BY <1>2
<1>5. \A i \in 2 .. n : i - 1 \in 1 .. n - 1 /\ (i - 1) + 1 = i
  BY <1>2
<1>6. ASSUME NEW K, InChannel(K)' PROVE InChannel(K)
  BY <1>1, <1>2, <1>4, <1>6 DEF InChannel
<1>7. ASSUME NEW K, channel[1].kind \notin K, InChannel(K) PROVE InChannel(K)'
  <2>1. PICK i \in 1 .. n : channel[i].kind \in K
    BY <1>1, <1>7 DEF InChannel
  <2>2. i \in 2 .. n
    BY <1>2, <1>7, <2>1
  <2>3. i - 1 \in 1 .. Len(channel)' /\ channel'[i - 1] = channel[i]
    BY <1>2, <1>5, <2>2
  <2>4. QED BY <2>1, <2>3 DEF InChannel
<1>8. ASSUME NEW i \in 2 .. n, OnlyReply(i) PROVE OnlyReply(i - 1)'
  <2>1. ASSUME NEW j \in 1 .. n - 1, j # i - 1 PROVE channel'[j].kind \notin Reply
    <3>1. j + 1 \in 1 .. n /\ j + 1 # i
      BY <1>2, <2>1
    <3>2. channel[j + 1].kind \notin Reply
      BY <1>1, <1>8, <3>1 DEF OnlyReply
    <3>3. QED BY <1>2, <3>2
  <2>2. Len(channel)' = n - 1
    BY <1>2
  <2>3. QED BY <2>1, <2>2 DEF OnlyReply
<1>9. QED BY <1>1, <1>2, <1>3, <1>4, <1>5, <1>6, <1>7, <1>8

LEMMA ReceiveAnnouncementStep ==
  ASSUME IInv, ReceiveAnnouncement
  PROVE  IInv'
<1>1. Types /\ OwedRight /\ EmptyRoom /\ Phase /\ Traced /\ Read
  BY DEF IInv
<1>2. PICK m : m = Head(channel)
  OBVIOUS
<1>3. /\ channel # <<>> /\ m.kind \notin Reply /\ view' = Applied(view, m)
      /\ channel' = Tail(channel)
      /\ UNCHANGED <<game, owed, mode, count, causes, link, member, job, resync, snap>>
  BY <1>2 DEF ReceiveAnnouncement, server, socket
<1>4. /\ Len(channel) \in Nat \ {0} /\ m = channel[1] /\ channel' \in Seq(Wire)
      /\ \A K : InChannel(K)' => InChannel(K)
      /\ \A K : (m.kind \notin K /\ InChannel(K)) => InChannel(K)'
      /\ \A i \in 2 .. Len(channel) : /\ i - 1 \in 1 .. Len(channel')
                                      /\ channel'[i - 1] = channel[i]
                                      /\ OnlyReply(i) => OnlyReply(i - 1)'
  BY <1>1, <1>2, <1>3, ReceivedChannel
<1>5. Traced' /\ view' \in Games
  <2>1. view' = Seen(mode, view, Head(channel))
    BY <1>2, <1>3 DEF Seen, Reply
  <2>2. Following' => Following
    BY <1>3, <1>4 DEF Following, Reply
  <2>3. QED BY <1>1, <1>3, <2>1, <2>2, TraceReceived
<1>6. Types'
  BY <1>1, <1>3, <1>4, <1>5 DEF Types
<1>7. OwedRight'
  BY <1>1, <1>3, GameSame
<1>8. EmptyRoom'
  <2>1. game.number # 0
    BY <1>1, <1>3, <1>4 DEF EmptyRoom
  <2>2. QED BY <1>3, <2>1 DEF EmptyRoom
<1>9. Phase'
  <2>1. ASSUME job = "none", link, mode \in {"joining", "rejoining"}
        PROVE  \E i \in 1 .. Len(channel)' :
                 /\ channel'[i].kind \in JoinReply
                 /\ channel'[i].kind = "roomJoined" => member
                 /\ OnlyReply(i)'
    <3>1. PICK i \in 1 .. Len(channel) :
            /\ channel[i].kind \in JoinReply
            /\ channel[i].kind = "roomJoined" => member
            /\ OnlyReply(i)
      BY <1>1, <2>1 DEF Phase
    <3>2. i \in 2 .. Len(channel)
      BY <1>3, <1>4, <3>1 DEF JoinReply, Reply
    <3>3. QED BY <1>4, <3>1, <3>2
  <2>2. mode # "out"
    BY <1>1, <1>3 DEF Phase
  <2>3. job \notin {"asked", "read"}
    BY <1>1, <1>3 DEF Phase
  <2>4. /\ resync => mode = "in"
        /\ (link /\ mode = "in") => member /\ ~InChannel(JoinReply)'
        /\ job = "entered" => member /\ ~InChannel(Reply)'
    BY <1>1, <1>4 DEF Phase
  <2>5. QED BY <1>3, <2>1, <2>2, <2>3, <2>4 DEF Phase
<1>10. Read'
  <2>1. PICK g : g = snap
    OBVIOUS
  <2>2. Near(g) => Near(g)'
    BY <1>3, GameSame
  <2>3. QED BY <1>1, <1>3, <2>1, <2>2 DEF Read
<1>11. QED BY <1>5, <1>6, <1>7, <1>8, <1>9, <1>10 DEF IInv

\* A reply arrives: the request is over.
LEMMA ReplyArrives ==
  ASSUME Types, Phase, channel # <<>>, channel' = Tail(channel), Head(channel).kind \in Reply
  PROVE  /\ job = "none" /\ link /\ mode # "out"
         /\ Head(channel).kind = "roomResynced" => mode = "in"
         /\ Head(channel).kind \in JoinReply =>
              /\ mode \in {"joining", "rejoining"}
              /\ Head(channel).kind = "roomJoined" => member
              /\ OnlyReply(1) /\ ~InChannel(Reply)'
<1>1. PICK m : m = Head(channel)
  OBVIOUS
<1>2. /\ Len(channel) \in Nat \ {0} /\ m = channel[1]
      /\ \A i \in 1 .. Len(channel') : i + 1 \in 1 .. Len(channel) /\ channel'[i] = channel[i + 1]
  BY <1>1, ReceivedChannel
<1>3. 1 \in 1 .. Len(channel) /\ InChannel({m.kind}) /\ InChannel(Reply)
  BY <1>1, <1>2 DEF InChannel
<1>4. job = "none" /\ link /\ mode # "out"
  BY <1>3 DEF Types, Phase
<1>5. ASSUME mode \in {"joining", "rejoining"}
      PROVE  m.kind \in JoinReply /\ (m.kind = "roomJoined" => member) /\ OnlyReply(1)
  <2>1. PICK i \in 1 .. Len(channel) :
          /\ channel[i].kind \in JoinReply
          /\ channel[i].kind = "roomJoined" => member
          /\ OnlyReply(i)
    BY <1>4, <1>5 DEF Phase
  <2>2. i = 1
    BY <1>1, <1>2, <1>3, <2>1 DEF OnlyReply
  <2>3. QED BY <1>2, <2>1, <2>2
<1>6. m.kind \in JoinReply => mode # "in"
  BY <1>2, <1>3, <1>4 DEF Phase, InChannel
<1>7. ASSUME OnlyReply(1) PROVE ~InChannel(Reply)'
  <2>1. ASSUME NEW i \in 1 .. Len(channel') PROVE channel'[i].kind \notin Reply
    <3>1. i + 1 \in 1 .. Len(channel) /\ i + 1 # 1 /\ channel'[i] = channel[i + 1]
      BY <1>2
    <3>2. QED BY <1>7, <3>1 DEF OnlyReply
  <2>2. QED BY <2>1 DEF InChannel
<1>8. mode \in {"joining", "in", "rejoining", "out"} /\ "roomResynced" \notin JoinReply
  BY DEF Types, JoinReply
<1>9. QED BY <1>1, <1>4, <1>5, <1>6, <1>7, <1>8

LEMMA ReceiveJoinedStep ==
  ASSUME IInv, ReceiveJoined
  PROVE  IInv'
<1>1. Types /\ OwedRight /\ EmptyRoom /\ Phase /\ Traced
  BY DEF IInv
<1>2. PICK m : m = Head(channel)
  OBVIOUS
<1>3. /\ channel # <<>> /\ m.kind = "roomJoined" /\ mode' = "in"
      /\ view' = Synced(IF mode = "joining" THEN Reset(view) ELSE view, m.then)
      /\ resync' = (mode = "rejoining")
      /\ snap' = IF mode = "rejoining" THEN game ELSE snap
      /\ channel' = Tail(channel)
      /\ UNCHANGED <<game, owed, count, causes, link, member, job>>
  BY <1>2 DEF ReceiveJoined, server
<1>4. /\ Len(channel) \in Nat \ {0} /\ m = channel[1] /\ channel' \in Seq(Wire)
      /\ \A i \in 1 .. Len(channel') : i + 1 \in 1 .. Len(channel) /\ channel'[i] = channel[i + 1]
      /\ \A K : (m.kind \notin K /\ InChannel(K)) => InChannel(K)'
  BY <1>1, <1>2, <1>3, ReceivedChannel
<1>5. /\ job = "none" /\ link /\ mode # "out" /\ mode \in {"joining", "rejoining"} /\ member
      /\ OnlyReply(1) /\ ~InChannel(Reply)'
  BY <1>1, <1>2, <1>3, ReplyArrives DEF Reply, JoinReply
<1>6. Traced' /\ view' \in Games
  <2>1. view' = Seen(mode, view, Head(channel))
    BY <1>2, <1>3 DEF Seen
  <2>2. Following' => Following
    BY <1>3, <1>4, <1>5 DEF Following
  <2>3. \A i \in 2 .. Len(channel) : channel[i].kind # "roomJoined"
    BY <1>5 DEF OnlyReply, Reply
  <2>4. QED BY <1>1, <1>3, <2>1, <2>2, <2>3, TraceReceived
<1>7. Types'
  BY <1>1, <1>3, <1>4, <1>5, <1>6 DEF Types
<1>8. OwedRight'
  BY <1>1, <1>3, GameSame
<1>9. EmptyRoom'
  <2>1. ASSUME game.number = 0 PROVE view' = view
    <3>1. m.then.number = 0 /\ view \in {NoGame, [NoGame EXCEPT !.paused = TRUE]}
      BY <1>1, <1>4, <2>1 DEF EmptyRoom
    <3>2. Reset(view) = view
      BY <1>1, <3>1, ResetType DEF Types
    <3>3. QED BY <1>3, <3>1, <3>2 DEF Synced
  <2>2. ASSUME game.number = 0, NEW i \in 1 .. Len(channel')
        PROVE  channel'[i].kind \in Reply /\ channel'[i].then.number = 0
    <3>1. i + 1 \in 1 .. Len(channel) /\ channel'[i] = channel[i + 1]
      BY <1>4
    <3>2. QED BY <1>1, <2>2, <3>1 DEF EmptyRoom
  <2>3. QED BY <1>1, <1>3, <2>1, <2>2 DEF EmptyRoom
<1>10. Phase'
  <2>1. ~InChannel(JoinReply)'
    BY <1>5 DEF InChannel, Reply, JoinReply
  <2>2. QED BY <1>3, <1>5, <2>1 DEF Phase
<1>11. Read'
  BY <1>3, <1>5 DEF Read
<1>12. QED BY <1>6, <1>7, <1>8, <1>9, <1>10, <1>11 DEF IInv

LEMMA ReceiveResyncedStep ==
  ASSUME IInv, ReceiveResynced
  PROVE  IInv'
<1>1. Types /\ OwedRight /\ EmptyRoom /\ Phase /\ Traced
  BY DEF IInv
<1>2. PICK m : m = Head(channel)
  OBVIOUS
<1>3. /\ channel # <<>> /\ m.kind = "roomResynced" /\ view' = Synced(view, m.then)
      /\ channel' = Tail(channel)
      /\ UNCHANGED <<game, owed, mode, count, causes, link, member, job, resync, snap>>
  BY <1>2 DEF ReceiveResynced, server, socket
<1>4. /\ Len(channel) \in Nat \ {0} /\ m = channel[1] /\ channel' \in Seq(Wire)
      /\ \A i \in 1 .. Len(channel') : i + 1 \in 1 .. Len(channel) /\ channel'[i] = channel[i + 1]
      /\ \A K : InChannel(K)' => InChannel(K)
      /\ \A K : (m.kind \notin K /\ InChannel(K)) => InChannel(K)'
  BY <1>1, <1>2, <1>3, ReceivedChannel
<1>5. job = "none" /\ link /\ mode = "in"
  BY <1>1, <1>2, <1>3, ReplyArrives DEF Reply
<1>6. Traced' /\ view' \in Games
  <2>1. view' = Seen(mode, view, Head(channel))
    BY <1>2, <1>3 DEF Seen
  <2>2. Following' => Following
    BY <1>3, <1>4 DEF Following
  <2>3. QED BY <1>1, <1>3, <2>1, <2>2, TraceReceived
<1>7. Types'
  BY <1>1, <1>3, <1>4, <1>6 DEF Types
<1>8. OwedRight'
  BY <1>1, <1>3, GameSame
<1>9. EmptyRoom'
  <2>1. ASSUME game.number = 0 PROVE view' = view
    BY <1>1, <1>3, <1>4, <2>1 DEF EmptyRoom, Synced
  <2>2. ASSUME game.number = 0, NEW i \in 1 .. Len(channel')
        PROVE  channel'[i].kind \in Reply /\ channel'[i].then.number = 0
    <3>1. i + 1 \in 1 .. Len(channel) /\ channel'[i] = channel[i + 1]
      BY <1>4
    <3>2. QED BY <1>1, <2>2, <3>1 DEF EmptyRoom
  <2>3. QED BY <1>1, <1>3, <2>1, <2>2 DEF EmptyRoom
<1>10. Phase'
  BY <1>1, <1>3, <1>4, <1>5 DEF Phase
<1>11. Read'
  BY <1>3, <1>5 DEF Read
<1>12. QED BY <1>6, <1>7, <1>8, <1>9, <1>10, <1>11 DEF IInv

LEMMA LeaveStep ==
  ASSUME IInv, Leave
  PROVE  IInv'
<1>1. Types /\ OwedRight /\ EmptyRoom
  BY DEF IInv
<1>2. /\ mode' = "out" /\ view' = Reset(view) /\ ~member' /\ job' = "none" /\ ~resync'
      /\ member' = FALSE /\ resync' = FALSE /\ snap' = NoGame /\ channel' = <<>>
      /\ UNCHANGED <<game, owed, count, link, causes>>
  BY DEF Leave, server
<1>3. view' \in Games /\ Below(view', game') /\ Len(channel') = 0 /\ channel' \in Seq(Wire)
  BY <1>1, <1>2, ResetType, ResetBelow, EmptySeq DEF Types
<1>4. Types'
  BY <1>1, <1>2, <1>3, NoGameType DEF Types
<1>5. OwedRight'
  BY <1>1, <1>2, GameSame
<1>6. EmptyRoom'
  <2>1. game.number = 0 => view' = view
    BY <1>1, <1>2, ResetType DEF EmptyRoom, Types
  <2>2. QED BY <1>1, <1>2, <1>3, <2>1 DEF EmptyRoom
<1>7. Phase'
  BY <1>2 DEF Phase
<1>8. Read'
  BY <1>2 DEF Read
<1>9. Traced'
  BY <1>2, <1>3, TraceGone DEF Following
<1>10. QED BY <1>4, <1>5, <1>6, <1>7, <1>8, <1>9 DEF IInv

LEMMA TraceKept ==
  ASSUME Traced, Following' => Following, UNCHANGED <<game, owed, view, mode, channel, causes>>
  PROVE  Traced'
<1>1. PICK w : Views(w) /\ Ordered(w) /\ CatchesUp(w)
  BY DEF Traced
<1>2. PICK x : x = w[Len(channel)]
  OBVIOUS
<1>3. Mended(x) => Mended(x)'
  BY GameSame
<1>4. x = w[Len(channel)]'
  BY <1>2
<1>5. CatchesUp(w)'
  BY <1>1, <1>2, <1>3, <1>4 DEF CatchesUp
<1>6. Views(w)' /\ Ordered(w)'
  BY <1>1 DEF Views, Ordered
<1>7. QED BY <1>5, <1>6 DEF Traced

LEMMA AskResyncStep ==
  ASSUME IInv, AskResync
  PROVE  IInv'
<1>1. Types /\ OwedRight /\ EmptyRoom /\ Phase /\ Traced
  BY DEF IInv
<1>2. /\ mode = "in" /\ link /\ count.asks < MaxAsks /\ resync' = TRUE /\ snap' = game
      /\ count' = [count EXCEPT !.asks = @ + 1]
      /\ UNCHANGED <<game, owed, mode, view, link, member, job, channel, causes>>
  BY DEF AskResync, server, page
<1>3. job = "none"
  BY <1>1, <1>2 DEF Types
<1>4. Types'
  <2>1. count' \in [moves : 0 .. MaxMoves, mutes : 0 .. MaxMutes,
                    drops : 0 .. MaxDrops, asks : 0 .. MaxAsks]
    BY <1>1, <1>2, BoundsAssumption DEF Types
  <2>2. QED BY <1>1, <1>2, <2>1 DEF Types
<1>5. OwedRight'
  BY <1>1, <1>2, GameSame
<1>6. EmptyRoom'
  BY <1>1, <1>2 DEF EmptyRoom
<1>7. Phase'
  BY <1>1, <1>2 DEF Phase, InChannel, OnlyReply
<1>8. Read'
  BY <1>2, <1>3 DEF Read
<1>9. Traced'
  BY <1>1, <1>2, TraceKept DEF Following, InChannel
<1>10. QED BY <1>4, <1>5, <1>6, <1>7, <1>8, <1>9 DEF IInv

LEMMA DropStep ==
  ASSUME IInv, Drop
  PROVE  IInv'
<1>1. Types /\ OwedRight /\ EmptyRoom /\ Traced
  BY DEF IInv
<1>2. /\ mode # "out" /\ count.drops < MaxDrops
      /\ link' = FALSE /\ member' = FALSE /\ job' = "none" /\ resync' = FALSE
      /\ snap' = NoGame /\ channel' = <<>>
      /\ mode' = IF mode = "joining" THEN "out" ELSE mode
      /\ view' = IF mode = "joining" THEN Reset(view) ELSE view
      /\ count' = [count EXCEPT !.drops = @ + 1]
      /\ UNCHANGED <<game, owed, causes>>
  BY DEF Drop, server
<1>3. view' \in Games /\ Below(view', game') /\ Len(channel') = 0 /\ channel' \in Seq(Wire)
  BY <1>1, <1>2, ResetType, ResetBelow, ViewBelow, EmptySeq DEF Types
<1>4. Types'
  <2>1. count' \in [moves : 0 .. MaxMoves, mutes : 0 .. MaxMutes,
                    drops : 0 .. MaxDrops, asks : 0 .. MaxAsks]
    BY <1>1, <1>2, BoundsAssumption DEF Types
  <2>2. QED BY <1>1, <1>2, <1>3, <2>1, NoGameType DEF Types
<1>5. OwedRight'
  BY <1>1, <1>2, GameSame
<1>6. EmptyRoom'
  <2>1. game.number = 0 => view' = view
    BY <1>1, <1>2, ResetType DEF EmptyRoom, Types
  <2>2. QED BY <1>1, <1>2, <1>3, <2>1 DEF EmptyRoom
<1>7. Phase'
  BY <1>2 DEF Phase
<1>8. Read'
  BY <1>2 DEF Read
<1>9. Traced'
  BY <1>2, <1>3, TraceGone DEF Following
<1>10. QED BY <1>4, <1>5, <1>6, <1>7, <1>8, <1>9 DEF IInv

LEMMA ReconnectStep ==
  ASSUME IInv, Reconnect
  PROVE  IInv'
<1>1. Types /\ OwedRight /\ EmptyRoom /\ Traced
  BY DEF IInv
<1>2. /\ ~link /\ link' = TRUE /\ mode' = "rejoining" /\ job' = "asked"
      /\ UNCHANGED <<game, owed, count, view, member, resync, snap, channel, causes>>
  BY DEF Reconnect, server
<1>3. channel = <<>> /\ ~member /\ ~resync /\ Below(view, game)
  BY <1>1, <1>2, ViewBelow DEF Types
<1>4. Types'
  BY <1>1, <1>2 DEF Types
<1>5. OwedRight'
  BY <1>1, <1>2, GameSame
<1>6. EmptyRoom'
  BY <1>1, <1>2 DEF EmptyRoom
<1>7. Phase'
  BY <1>2, <1>3 DEF Phase
<1>8. Read'
  BY <1>2 DEF Read
<1>9. Traced'
  BY <1>1, <1>2, <1>3, TraceGone DEF Following, Types
<1>10. QED BY <1>4, <1>5, <1>6, <1>7, <1>8, <1>9 DEF IInv

LEMMA StayStep ==
  ASSUME IInv, UNCHANGED vars
  PROVE  IInv'
<1>1. Types /\ OwedRight /\ EmptyRoom /\ Phase /\ Read /\ Traced
  BY DEF IInv
<1>2. /\ UNCHANGED <<game, owed, mode, view, link, member, job, resync, snap>>
      /\ UNCHANGED <<count, channel, causes>>
  BY DEF vars, server, page, socket
<1>3. Types' /\ EmptyRoom' /\ OwedRight'
  BY <1>1, <1>2, GameSame DEF Types, EmptyRoom
<1>4. Phase'
  BY <1>1, <1>2 DEF Phase, InChannel, OnlyReply
<1>5. Read'
  <2>1. PICK g : g = snap
    OBVIOUS
  <2>2. Near(g) => Near(g)'
    BY <1>2, GameSame
  <2>3. QED BY <1>1, <1>2, <2>1, <2>2 DEF Read
<1>6. Traced'
  BY <1>1, <1>2, TraceKept DEF Following, InChannel
<1>7. QED BY <1>3, <1>4, <1>5, <1>6 DEF IInv

-----------------------------------------------------------------------------
LEMMA InitIInv == Init => IInv
<1> SUFFICES ASSUME Init PROVE IInv
  OBVIOUS
<1>1. Len(channel) = 0 /\ channel = <<>> /\ channel \in Seq(Wire)
  BY EmptySeq DEF Init
<1>0. PICK first : first = [NoGame EXCEPT !.number = 1]
  OBVIOUS
<1>2. PICK left : left = [NoGame EXCEPT !.paused = TRUE]
  OBVIOUS
<1>3. game \in {NoGame, first} /\ view \in {NoGame, left}
  BY <1>0, <1>2 DEF Init
<1>4. /\ NoGame.number = 0 /\ NoGame.revealed = {} /\ NoGame.paused = FALSE
      /\ first.number = 1 /\ left.number = 0 /\ left.revealed = {} /\ left.paused = TRUE
      /\ first \in Games /\ left \in Games /\ NoGame \in Games
  <2>1. first \in Games
    <3>1. 1 \in 0 .. MaxGames
      BY BoundsAssumption
    <3>2. NoGame \in Games
      BY NoGameType
    <3>3. QED BY <1>0, <3>1, <3>2 DEF Games
  <2>2. left \in Games
    BY <1>2, NoGameType
  <2>3. QED BY <1>0, <1>2, <2>1, <2>2, NoGameType DEF NoGame
<1>5. game \in Games /\ view \in Games /\ snap \in Games /\ Below(view, game)
  BY <1>3, <1>4 DEF Init, Below
<1>6. causes \subseteq {"leftover"} /\ (view.paused => "leftover" \in causes)
  BY DEF Init
<1>7. Types
  <2>1. count \in [moves : 0 .. MaxMoves, mutes : 0 .. MaxMutes,
                   drops : 0 .. MaxDrops, asks : 0 .. MaxAsks]
    BY BoundsAssumption DEF Init
  <2>2. /\ owed = {} /\ link = TRUE /\ member = FALSE /\ resync = FALSE
        /\ mode = "joining" /\ job = "asked"
    BY DEF Init
  <2>3. causes \subseteq {"stale", "overtaken", "unannounced", "leftover"}
    BY <1>6
  <2>4. owed \subseteq Message(Prompt \cup Slow)
    BY <2>2
  <2>5. QED BY <1>1, <1>5, <2>1, <2>2, <2>3, <2>4 DEF Types
<1>8. OwedRight /\ Phase /\ Read
  BY <1>1 DEF Init, OwedRight, Phase, Read
<1>9. EmptyRoom
  <2>1. owed = {}
    BY DEF Init
  <2>2. 1 .. Len(channel) = {}
    BY <1>1
  <2>3. QED BY <1>2, <1>3, <1>4, <1>6, <2>1, <2>2 DEF EmptyRoom
<1>10. Traced
  <2>1. PICK w : w = [j \in 0 .. 0 |-> view]
    OBVIOUS
  <2>2. 0 .. Len(channel) = {0} /\ 1 .. Len(channel) = {}
    BY <1>1
  <2>3. w \in [0 .. Len(channel) -> Games] /\ w[0] = view
    BY <1>5, <2>1, <2>2
  <2>4. Views(w) /\ Ordered(w)
    BY <1>5, <2>2, <2>3 DEF Views, Ordered
  <2>5. ~Following
    BY DEF Init, Following
  <2>6. QED BY <2>4, <2>5 DEF Traced, CatchesUp
<1>11. QED BY <1>7, <1>8, <1>9, <1>10 DEF IInv

LEMMA NextIInv == IInv /\ [Next]_vars => IInv'
<1> SUFFICES ASSUME IInv, [Next]_vars PROVE IInv'
  OBVIOUS
<1>1. CASE \/ Clue \/ (\E c \in Card : Reveal(c)) \/ EndTurn \/ Forfeit \/ Abandon
           \/ Pause \/ Resume \/ StartGame
  BY <1>1, MoveStep
<1>2. CASE JoinReads
  BY <1>2, JoinReadsStep
<1>3. CASE JoinEnters
  BY <1>3, JoinEntersStep
<1>4. CASE JoinReplies
  BY <1>4, JoinRepliesStep
<1>5. CASE ResyncReplies
  BY <1>5, ResyncRepliesStep
<1>6. CASE \E a \in owed : Announce(a)
  BY <1>6, AnnounceStep
<1>7. CASE JoinRefused
  BY <1>7, JoinRefusedStep
<1>8. CASE ReceiveAnnouncement
  BY <1>8, ReceiveAnnouncementStep
<1>9. CASE ReceiveJoined
  BY <1>9, ReceiveJoinedStep
<1>10. CASE ReceiveResynced
  BY <1>10, ReceiveResyncedStep
<1>11. CASE ReceiveRefused \/ JoinTimesOut
  BY <1>11, LeaveStep DEF ReceiveRefused, JoinTimesOut
<1>12. CASE AskResync
  BY <1>12, AskResyncStep
<1>13. CASE Drop
  BY <1>13, DropStep
<1>14. CASE Reconnect
  BY <1>14, ReconnectStep
<1>15. CASE UNCHANGED vars
  BY <1>15, StayStep
<1>16. QED
  BY <1>1, <1>2, <1>3, <1>4, <1>5, <1>6, <1>7, <1>8, <1>9, <1>10, <1>11, <1>12, <1>13, <1>14,
     <1>15 DEF Next, Serve, Receive

\* No more than one announcement is owed at a time that the next move waits for.
LEMMA OnePrompt ==
  ASSUME OwedRight
  PROVE  Cardinality({a \in owed : a.kind \in Prompt}) <= 1
<1>1. PICK P : P = {a \in owed : a.kind \in Prompt}
  OBVIOUS
<1>2. \A a, b \in P : a = b
  BY <1>1 DEF OwedRight, OwedIs
<1>3. CASE P = {}
  <2>1. Cardinality(P) = 0
    BY <1>3, FS_EmptySet
  <2>2. QED BY <1>1, <2>1
<1>4. CASE P # {}
  <2>1. PICK a : a \in P
    BY <1>4
  <2>2. P = {a}
    BY <1>2, <2>1
  <2>3. Cardinality(P) = 1
    BY <2>2, FS_Singleton
  <2>4. QED BY <1>1, <2>3
<1>5. QED BY <1>3, <1>4

LEMMA IInvAlways == Spec => []IInv
BY InitIInv, NextIInv, PTL DEF Spec

\* With nothing under way and no window of the protocol met since the last
\* snapshot, the page shows the stored game: whatever was dropped, announced
\* late or read early.
THEOREM Caught == Spec => []InStep
<1>1. IInv => InStep
  <2> SUFFICES ASSUME IInv PROVE InStep
    OBVIOUS
  <2>1. Types /\ OwedRight /\ Traced
    BY DEF IInv
  <2>2. TypeOK
    BY <2>1, OnePrompt DEF Types, TypeOK, Wire
  <2>3. ASSUME Settled, causes = {} PROVE view = game
    <3>1. Len(channel) = 0 /\ owed = {} /\ Following
      BY <2>3, EmptySeq DEF Settled, Following, InChannel
    <3>2. Mended(view)
      BY <2>1, <2>3, <3>1 DEF Traced, CatchesUp, Views
    <3>3. Fields(view)
      BY <3>1, <3>2 DEF Mended, StartOwed
    <3>4. /\ view.number = game.number /\ SameBoard(view, game)
          /\ view.over = game.over /\ view.paused = game.paused
      BY <3>1, <3>3 DEF Fields, BoardOwed, OverOwed, PauseOwed
    <3>5. QED BY <2>1, <3>4, SameGame DEF Types
  <2>4. QED BY <2>2, <2>3 DEF InStep
<1>2. QED BY <1>1, IInvAlways, PTL

\* A resync takes no card back: what the page shows when the reply arrives, and
\* showed in between, is no further than what the reply was read from.
THEOREM NoCardTurnsBack == Spec => SeenStaysSeen
<1>1. IInv /\ [Next]_vars =>
        ((ReceiveResynced /\ view'.number = view.number) =>
           view.revealed \subseteq view'.revealed)
  <2> SUFFICES ASSUME IInv, ReceiveResynced, view'.number = view.number
               PROVE  view.revealed \subseteq view'.revealed
    OBVIOUS
  <2>1. Types /\ Traced
    BY DEF IInv
  <2>2. PICK w : Views(w) /\ Ordered(w)
    BY <2>1 DEF Traced
  <2>3. /\ Len(channel) \in Nat \ {0} /\ Head(channel) = channel[1] /\ channel[1] \in Wire
    BY <2>1, ReceivedChannel DEF ReceiveResynced
  <2>4. /\ channel[1].kind = "roomResynced" /\ channel[1].then \in Games
        /\ view' = Synced(view, channel[1].then)
    BY <2>3, MessageFields DEF ReceiveResynced, Wire
  <2>5. Below(view, channel[1].then)
    <3>1. 1 \in 1 .. Len(channel) /\ 0 \in 0 .. 1 - 1
      BY <2>3
    <3>2. Below(w[0], channel[1].then) /\ w[0] = view
      BY <2>2, <2>4, <3>1 DEF Views, Ordered
    <3>3. QED BY <3>2
  <2>6. view.number \in Nat
    BY <2>1, GameFields DEF Types
  <2>7. CASE channel[1].then.number > 0
    <3>1. view' = channel[1].then
      BY <2>4, <2>7 DEF Synced
    <3>2. ~(view.number < view'.number)
      BY <2>6
    <3>3. QED BY <2>5, <3>1, <3>2 DEF Below
  <2>8. CASE ~(channel[1].then.number > 0)
    BY <2>4, <2>8 DEF Synced
  <2>9. QED BY <2>7, <2>8
<1>2. QED BY <1>1, IInvAlways, PTL DEF Spec, SeenStaysSeen

-----------------------------------------------------------------------------
(* The sockets of an address: lists without repetitions.                   *)

\* A sequence without repetitions, and what a step makes of one.
Lists(q, S) == q \in Seq(S) /\ IsInjective(q)

LEMMA ToSetOf ==
  ASSUME NEW S, NEW q \in Seq(S)
  PROVE  ToSet(q) = {q[i] : i \in 1 .. Len(q)} /\ ToSet(q) \subseteq S
BY LenProperties, ElementOfSeq DEF ToSet

LEMMA InjectiveOf ==
  ASSUME NEW S, NEW q \in Seq(S)
  PROVE  IsInjective(q) <=> \A i, j \in 1 .. Len(q) : q[i] = q[j] => i = j
BY LenProperties DEF IsInjective

\* Appending what is not there keeps a sequence free of repetitions.
LEMMA ListAppend ==
  ASSUME NEW S, NEW q, Lists(q, S), NEW e \in S, e \notin ToSet(q)
  PROVE  Lists(Append(q, e), S) /\ ToSet(Append(q, e)) = ToSet(q) \cup {e}
<1> DEFINE r == Append(q, e)
<1> USE DEF Lists
<1>1. /\ r \in Seq(S) /\ Len(r) = Len(q) + 1 /\ Len(q) \in Nat
      /\ \A i \in 1 .. Len(q) : r[i] = q[i]
      /\ r[Len(q) + 1] = e
  BY AppendProperties, LenProperties
<1>2. \A i \in 1 .. Len(q) : q[i] # e
  BY ToSetOf
<1> HIDE DEF r
<1>3. IsInjective(r)
  <2>1. \A i, j \in 1 .. Len(q) : q[i] = q[j] => i = j
    BY InjectiveOf
  <2>2. SUFFICES ASSUME NEW i \in 1 .. Len(r), NEW j \in 1 .. Len(r), r[i] = r[j]
                 PROVE  i = j
    BY <1>1, InjectiveOf
  <2>3. CASE i \in 1 .. Len(q) /\ j \in 1 .. Len(q)
    BY <2>1, <2>2, <2>3, <1>1
  <2>4. CASE i = Len(q) + 1 \/ j = Len(q) + 1
    BY <2>2, <2>4, <1>1, <1>2
  <2>5. QED BY <2>3, <2>4, <1>1
<1>4. ToSet(r) = ToSet(q) \cup {e}
  <2>1. ToSet(r) = {r[i] : i \in 1 .. Len(r)} /\ ToSet(q) = {q[i] : i \in 1 .. Len(q)}
    BY <1>1, ToSetOf
  <2>2. 1 .. Len(r) = 1 .. Len(q) \cup {Len(q) + 1}
    BY <1>1
  <2>3. QED BY <2>1, <2>2, <1>1
<1>5. QED BY <1>1, <1>3, <1>4 DEF r

\* What Map.delete leaves.
LEMMA ListWithout ==
  ASSUME NEW S, NEW q, Lists(q, S), NEW e
  PROVE  Lists(Without(q, e), S) /\ ToSet(Without(q, e)) = ToSet(q) \ {e}
<1> USE DEF Lists
<1>1. CASE e \notin ToSet(q)
  BY <1>1 DEF Without
<1>2. CASE e \in ToSet(q)
  <2> DEFINE k == CHOOSE i \in 1 .. Len(q) : q[i] = e
             r == RemoveAt(q, k)
  <2>1. k \in 1 .. Len(q) /\ q[k] = e
    BY <1>2, ToSetOf
  <2> HIDE DEF k
  <2>2. Len(q) \in Nat /\ \A i \in 1 .. Len(q) : q[i] \in S
    BY LenProperties, ElementOfSeq
  <2>3. /\ SubSeq(q, 1, k - 1) \in Seq(S) /\ Len(SubSeq(q, 1, k - 1)) = k - 1
        /\ \A i \in 1 .. k - 1 : SubSeq(q, 1, k - 1)[i] = q[i]
    <3>1. \A i \in 1 .. k - 1 : q[i] \in S
      BY <2>1, <2>2
    <3>2. k - 1 \in Int /\ 1 \in Int /\ (IF 1 <= k - 1 THEN (k - 1) - 1 + 1 ELSE 0) = k - 1
      BY <2>1, <2>2
    <3>3. /\ SubSeq(q, 1, k - 1) \in Seq(S)
          /\ Len(SubSeq(q, 1, k - 1)) = IF 1 <= k - 1 THEN (k - 1) - 1 + 1 ELSE 0
          /\ \A i \in 1 .. (k - 1) - 1 + 1 : SubSeq(q, 1, k - 1)[i] = q[1 + i - 1]
      BY <3>1, <3>2, SubSeqProperties
    <3>4. QED BY <3>2, <3>3, <2>1, <2>2
  <2>4. /\ SubSeq(q, k + 1, Len(q)) \in Seq(S)
        /\ Len(SubSeq(q, k + 1, Len(q))) = Len(q) - k
        /\ \A i \in 1 .. Len(q) - k : SubSeq(q, k + 1, Len(q))[i] = q[k + i]
    <3>1. \A i \in k + 1 .. Len(q) : q[i] \in S
      BY <2>1, <2>2
    <3>2. k + 1 \in Int /\ Len(q) \in Int
          /\ (IF k + 1 <= Len(q) THEN Len(q) - (k + 1) + 1 ELSE 0) = Len(q) - k
      BY <2>1, <2>2
    <3>3. /\ SubSeq(q, k + 1, Len(q)) \in Seq(S)
          /\ Len(SubSeq(q, k + 1, Len(q))) =
               IF k + 1 <= Len(q) THEN Len(q) - (k + 1) + 1 ELSE 0
          /\ \A i \in 1 .. Len(q) - (k + 1) + 1 :
               SubSeq(q, k + 1, Len(q))[i] = q[(k + 1) + i - 1]
      BY <3>1, <3>2, SubSeqProperties
    <3>4. QED BY <3>2, <3>3, <2>1, <2>2
  <2>5. /\ r \in Seq(S) /\ Len(r) = Len(q) - 1
        /\ \A i \in 1 .. Len(q) - 1 : r[i] = IF i < k THEN q[i] ELSE q[i + 1]
    <3> DEFINE f == SubSeq(q, 1, k - 1)
               b == SubSeq(q, k + 1, Len(q))
    <3>1. /\ f \o b \in Seq(S) /\ Len(f \o b) = Len(f) + Len(b)
          /\ \A i \in 1 .. Len(f) + Len(b) :
               (f \o b)[i] = IF i <= Len(f) THEN f[i] ELSE b[i - Len(f)]
      BY <2>3, <2>4, ConcatProperties
    <3>2. r = f \o b
      BY DEF RemoveAt
    <3> HIDE DEF f, b, r
    <3>3. /\ Len(f) = k - 1 /\ Len(b) = Len(q) - k
          /\ \A i \in 1 .. k - 1 : f[i] = q[i]
          /\ \A i \in 1 .. Len(q) - k : b[i] = q[k + i]
      BY <2>3, <2>4 DEF f, b
    <3>4. ASSUME NEW i \in 1 .. Len(q) - 1
          PROVE  r[i] = IF i < k THEN q[i] ELSE q[i + 1]
      <4>1. r[i] = IF i <= k - 1 THEN f[i] ELSE b[i - (k - 1)]
        <5>1. i \in 1 .. Len(f) + Len(b)
          BY <3>3, <2>1, <2>2
        <5>2. QED BY <5>1, <3>1, <3>2, <3>3
      <4>2. CASE i < k
        <5>1. i \in 1 .. k - 1 /\ i <= k - 1
          BY <4>2, <2>1, <2>2
        <5>2. QED BY <5>1, <4>1, <4>2, <3>3
      <4>3. CASE ~(i < k)
        <5>1. i - (k - 1) \in 1 .. Len(q) - k /\ k + (i - (k - 1)) = i + 1
          BY <4>3, <2>1, <2>2
        <5>2. QED BY <5>1, <4>1, <4>3, <3>3, <2>1, <2>2
      <4>4. QED BY <4>2, <4>3
    <3>5. r \in Seq(S) /\ Len(r) = (k - 1) + (Len(q) - k)
      BY <3>1, <3>2, <3>3
    <3>6. (k - 1) + (Len(q) - k) = Len(q) - 1
      BY <2>1, <2>2
    <3>7. QED BY <3>4, <3>5, <3>6
  <2>6. r = Without(q, e)
    BY <1>2 DEF Without, k
  <2> HIDE DEF r
  <2>7. \A i, j \in 1 .. Len(q) : q[i] = q[j] => i = j
    BY InjectiveOf
  <2>8. IsInjective(r)
    <3>1. SUFFICES ASSUME NEW i \in 1 .. Len(r), NEW j \in 1 .. Len(r), r[i] = r[j]
                   PROVE  i = j
      BY <2>5, InjectiveOf
    <3>2. i \in 1 .. Len(q) - 1 /\ j \in 1 .. Len(q) - 1
      BY <2>5
    <3>3. CASE i < k /\ j < k
      BY <3>1, <3>2, <3>3, <2>1, <2>2, <2>5, <2>7
    <3>4. CASE ~(i < k) /\ ~(j < k)
      BY <3>1, <3>2, <3>4, <2>1, <2>2, <2>5, <2>7
    <3>5. CASE i < k /\ ~(j < k)
      BY <3>1, <3>2, <3>5, <2>1, <2>2, <2>5, <2>7
    <3>6. CASE ~(i < k) /\ j < k
      BY <3>1, <3>2, <3>6, <2>1, <2>2, <2>5, <2>7
    <3>7. QED BY <3>3, <3>4, <3>5, <3>6
  <2>9. ToSet(r) = ToSet(q) \ {e}
    <3>1. ToSet(r) = {r[i] : i \in 1 .. Len(r)} /\ ToSet(q) = {q[i] : i \in 1 .. Len(q)}
      BY <2>5, ToSetOf
    <3>2. ASSUME NEW i \in 1 .. Len(r) PROVE r[i] \in ToSet(q) \ {e}
      <4>1. CASE i < k
        BY <4>1, <3>1, <2>1, <2>2, <2>5, <2>7
      <4>2. CASE ~(i < k)
        BY <4>2, <3>1, <2>1, <2>2, <2>5, <2>7
      <4>3. QED BY <4>1, <4>2
    <3>3. ASSUME NEW i \in 1 .. Len(q), q[i] # e PROVE q[i] \in ToSet(r)
      <4>1. CASE i < k
        <5>1. i \in 1 .. Len(r) /\ r[i] = q[i]
          BY <4>1, <2>1, <2>2, <2>5
        <5>2. QED BY <5>1, <3>1
      <4>2. CASE i > k
        <5>1. i - 1 \in 1 .. Len(r) /\ r[i - 1] = q[i]
          BY <4>2, <2>1, <2>2, <2>5
        <5>2. QED BY <5>1, <3>1
      <4>3. QED BY <4>1, <4>2, <3>3, <2>1, <2>2
    <3>4. QED BY <3>1, <3>2, <3>3
  <2>10. QED BY <2>5, <2>6, <2>8, <2>9
<1>3. QED BY <1>1, <1>2

\* The end of a sequence is one without repetitions, of what was there.
LEMMA ListEnd ==
  ASSUME NEW S, NEW q, Lists(q, S), NEW n \in Nat, n <= Len(q)
  PROVE  LET r == SubSeq(q, Len(q) - n + 1, Len(q))
         IN  Lists(r, S) /\ ToSet(r) \subseteq ToSet(q)
<1> USE DEF Lists
<1> DEFINE m == Len(q) - n + 1
           r == SubSeq(q, m, Len(q))
<1>1. Len(q) \in Nat /\ m \in Int /\ m >= 1 /\ \A i \in 1 .. Len(q) : q[i] \in S
  BY LenProperties, ElementOfSeq
<1>2. /\ r \in Seq(S) /\ Len(r) = n
      /\ \A i \in 1 .. n : r[i] = q[Len(q) - n + i]
  <2>1. /\ r \in Seq(S) /\ Len(r) = IF m <= Len(q) THEN Len(q) - m + 1 ELSE 0
        /\ \A i \in 1 .. Len(q) - m + 1 : r[i] = q[m + i - 1]
    <3>1. \A i \in m .. Len(q) : q[i] \in S
      BY <1>1
    <3>2. QED BY <1>1, <3>1, SubSeqProperties
  <2> HIDE DEF r
  <2>2. (IF m <= Len(q) THEN Len(q) - m + 1 ELSE 0) = n /\ Len(q) - m + 1 = n
    BY <1>1
  <2>3. \A i \in 1 .. n : m + i - 1 = Len(q) - n + i
    BY <1>1
  <2>4. QED BY <2>1, <2>2, <2>3
<1> HIDE DEF r, m
<1>3. \A i, j \in 1 .. Len(q) : q[i] = q[j] => i = j
  BY InjectiveOf
<1>4. \A i \in 1 .. n : Len(q) - n + i \in 1 .. Len(q)
  BY <1>1
<1>5. IsInjective(r)
  <2>1. SUFFICES ASSUME NEW i \in 1 .. n, NEW j \in 1 .. n, r[i] = r[j] PROVE i = j
    BY <1>2, InjectiveOf
  <2>2. q[Len(q) - n + i] = q[Len(q) - n + j]
    BY <2>1, <1>2
  <2>3. Len(q) - n + i = Len(q) - n + j
    BY <2>2, <1>3, <1>4
  <2>4. QED BY <2>3, <1>1
<1>6. ToSet(r) \subseteq ToSet(q)
  BY <1>2, <1>4, ToSetOf
<1>7. QED BY <1>2, <1>5, <1>6 DEF r, m

\* Any order of a finite set lists that set.
LEMMA ListOfSet ==
  ASSUME NEW S, IsFiniteSet(S), NEW q \in SetToSeqs(S)
  PROVE  Lists(q, S) /\ ToSet(q) = S
<1> DEFINE n == Cardinality(S)
<1>1. n \in Nat
  BY FS_CardinalityType
<1>2. /\ q \in [1 .. n -> S]
      /\ \A i, j \in 1 .. n : i # j => q[i] # q[j]
  BY DEF SetToSeqs
<1> HIDE DEF n
<1>3. q \in Seq(S) /\ Len(q) = n
  BY <1>1, <1>2
<1>4. IsInjective(q)
  BY <1>2 DEF IsInjective
<1>5. q \in Injection(1 .. n, S)
  BY <1>2 DEF Injection, IsInjective
<1>6. IsFiniteSet(1 .. n) /\ Cardinality(1 .. n) = n
  <2>1. IsFiniteSet(1 .. n) /\ Cardinality(1 .. n) = IF 1 > n THEN 0 ELSE n - 1 + 1
    BY <1>1, FS_Interval
  <2>2. QED BY <2>1, <1>1
<1>7. q \in Surjection(1 .. n, S)
  BY <1>5, <1>6, FS_Injection DEF n
<1>8. ToSet(q) = S
  BY <1>2, <1>7 DEF Surjection, ToSet
<1>9. QED BY <1>3, <1>4, <1>8 DEF Lists

-----------------------------------------------------------------------------
(* The counters.                                                           *)
Listed == Lists(lastSeen, IP) /\ ToSet(lastSeen) = {a \in IP : connections[a] > 0}

LEMMA SocketSets ==
  ASSUME NEW a
  PROVE  /\ IsFiniteSet(SocketsOf(a)) /\ Cardinality(SocketsOf(a)) \in Nat
         /\ IsFiniteSet(OpenOf(a)) /\ Cardinality(OpenOf(a)) \in Nat
         /\ Cardinality(OpenOf(a)) <= Cardinality(SocketsOf(a))
<1>1. SocketsOf(a) \subseteq SocketId /\ OpenOf(a) \subseteq SocketsOf(a)
  BY DEF SocketsOf, OpenOf
<1>2. IsFiniteSet(SocketsOf(a)) /\ IsFiniteSet(OpenOf(a))
  BY <1>1, SocketsAssumption, FS_Subset
<1>3. QED BY <1>1, <1>2, FS_Subset, FS_CardinalityType

\* A socket that comes or goes counts for its own address alone.
LEMMA Arrives ==
  ASSUME TrackerTypeOK, NEW s \in SocketId, NEW a \in IP, stage[s] = "none",
         ip' = [ip EXCEPT ![s] = a]
  PROVE  \A b \in IP : Cardinality(SocketsOf(b)') =
           IF b = a THEN Cardinality(SocketsOf(b)) + 1 ELSE Cardinality(SocketsOf(b))
<1>1. s \notin SocketsOf(a)
  BY SocketsAssumption DEF TrackerTypeOK, SocketsOf
<1>2. SocketsOf(a)' = SocketsOf(a) \cup {s}
  BY DEF TrackerTypeOK, SocketsOf
<1>3. Cardinality(SocketsOf(a)') = Cardinality(SocketsOf(a)) + 1
  BY <1>1, <1>2, SocketSets, FS_AddElement
<1>4. ASSUME NEW b \in IP, b # a PROVE SocketsOf(b)' = SocketsOf(b)
  BY <1>4, SocketsAssumption DEF TrackerTypeOK, SocketsOf
<1>5. QED BY <1>3, <1>4

LEMMA Leaves ==
  ASSUME TrackerTypeOK, NEW s \in SocketId, NEW a \in IP, ip[s] = a, Free(s)
  PROVE  /\ \A b \in IP : Cardinality(SocketsOf(b)') =
              IF b = a THEN Cardinality(SocketsOf(b)) - 1 ELSE Cardinality(SocketsOf(b))
         /\ Cardinality(SocketsOf(a)) >= 1
<1>1. \A t \in SocketId : ip'[t] = IF t = s THEN NoIP ELSE ip[t]
  BY DEF TrackerTypeOK, Free
<1>2. SocketsOf(a)' = SocketsOf(a) \ {s} /\ s \in SocketsOf(a)
  BY <1>1, SocketsAssumption DEF SocketsOf
<1>3. ASSUME NEW b \in IP, b # a PROVE SocketsOf(b)' = SocketsOf(b)
  BY <1>1, <1>3, SocketsAssumption DEF SocketsOf
<1>4. Cardinality(SocketsOf(a)') = Cardinality(SocketsOf(a)) - 1
  BY <1>2, SocketSets, FS_RemoveElement
<1>5. Cardinality(SocketsOf(a)) >= 1
  BY <1>2, SocketSets, FS_EmptySet
<1>6. QED BY <1>3, <1>4, <1>5

\* What the counters do when a place is given back.
LEMMA Decremented ==
  ASSUME TrackerTypeOK, NEW a \in IP, DecrementConnectionCount(a)
  PROVE  /\ connections' \in [IP -> Nat]
         /\ \A b \in IP : connections'[b] =
              IF b # a THEN connections[b]
              ELSE IF connections[a] > 1 THEN connections[a] - 1 ELSE 0
         /\ Listed'
<1>1. connections \in [IP -> Nat] /\ Lists(lastSeen, IP)
      /\ ToSet(lastSeen) = {b \in IP : connections[b] > 0}
  BY DEF TrackerTypeOK, Lists
<1>2. /\ connections' \in [IP -> Nat]
      /\ \A b \in IP : connections'[b] =
           IF b # a THEN connections[b] ELSE IF connections[a] > 1 THEN connections[a] - 1 ELSE 0
  BY <1>1 DEF DecrementConnectionCount
<1> DEFINE w == Without(lastSeen, a)
<1>3. Lists(w, IP) /\ ToSet(w) = ToSet(lastSeen) \ {a}
  BY <1>1, ListWithout
<1> HIDE DEF w
<1>4. lastSeen' = w \o IF connections[a] > 1 THEN <<a>> ELSE <<>>
  BY DEF DecrementConnectionCount, w
<1>5. CASE connections[a] > 1
  <2>1. lastSeen' = Append(w, a)
    BY <1>3, <1>4, <1>5, AppendIsConcat DEF Lists
  <2>2. Lists(lastSeen', IP) /\ ToSet(lastSeen') = ToSet(lastSeen)
    BY <2>1, <1>1, <1>3, <1>5, ListAppend
  <2>3. \A b \in IP : connections'[b] > 0 <=> connections[b] > 0
    BY <1>1, <1>2, <1>5
  <2>4. QED BY <2>2, <2>3, <1>1, <1>2 DEF Listed
<1>6. CASE ~(connections[a] > 1)
  <2>1. lastSeen' = w
    BY <1>3, <1>4, <1>6, ConcatEmptySeq DEF Lists
  <2>2. \A b \in IP : connections'[b] > 0 <=> (connections[b] > 0 /\ b # a)
    BY <1>1, <1>2, <1>6
  <2>3. QED BY <2>1, <2>2, <1>1, <1>2, <1>3 DEF Listed
<1>7. QED BY <1>2, <1>5, <1>6

\* What they do when a place is taken.
LEMMA Incremented ==
  ASSUME TrackerTypeOK, NEW a \in IP, IncrementConnectionCount(a)
  PROVE  /\ connections' \in [IP -> Nat] /\ slack' \in [IP -> SUBSET Cause]
         /\ connections'[a] = connections[a] + 1 /\ slack'[a] = slack[a]
         /\ \A b \in IP : b # a =>
              \/ connections'[b] = connections[b] /\ slack'[b] = slack[b]
              \/ connections'[b] = 0 /\ slack'[b] = slack[b] \cup {"evicted"}
         /\ Listed'
<1>1. /\ connections \in [IP -> Nat] /\ slack \in [IP -> SUBSET Cause]
      /\ Lists(lastSeen, IP) /\ ToSet(lastSeen) = {b \in IP : connections[b] > 0}
  BY DEF TrackerTypeOK, Lists
<1> DEFINE kept == Kept(a)
           w == Without(kept, a)
<1>2. Lists(kept, IP) /\ ToSet(kept) \subseteq ToSet(lastSeen)
  <2>1. CASE connections[a] = 0 /\ Len(lastSeen) >= MaxTracked
    <3>1. MaxTracked - Batch - 1 \in Nat /\ MaxTracked - Batch - 1 <= Len(lastSeen)
      BY <2>1, <1>1, LenProperties, LimitsAssumption DEF Lists
    <3>2. kept = SubSeq(lastSeen, Len(lastSeen) - (MaxTracked - Batch - 1) + 1, Len(lastSeen))
      BY <2>1 DEF Kept
    <3>3. QED BY <3>1, <3>2, <1>1, ListEnd
  <2>2. CASE ~(connections[a] = 0 /\ Len(lastSeen) >= MaxTracked)
    BY <2>2, <1>1 DEF Kept
  <2>3. QED BY <2>1, <2>2
<1>3. a \notin ToSet(lastSeen) \ ToSet(kept)
  BY <1>1 DEF Kept
<1>4. /\ connections' = [b \in IP |-> IF b = a THEN connections[a] + 1
                            ELSE IF b \in ToSet(lastSeen) \ ToSet(kept) THEN 0
                            ELSE connections[b]]
      /\ slack' = [b \in IP |-> slack[b] \cup
                     IF b \in ToSet(lastSeen) \ ToSet(kept) THEN {"evicted"} ELSE {}]
      /\ lastSeen' = Append(w, a)
  BY DEF IncrementConnectionCount
<1>5. Lists(w, IP) /\ ToSet(w) = ToSet(kept) \ {a}
  BY <1>2, ListWithout
<1> HIDE DEF kept, w
<1>6. Lists(lastSeen', IP) /\ ToSet(lastSeen') = ToSet(kept) \cup {a}
  BY <1>4, <1>5, ListAppend
<1>7. connections' \in [IP -> Nat] /\ slack' \in [IP -> SUBSET Cause]
  BY <1>1, <1>4 DEF Cause
<1>8. connections'[a] = connections[a] + 1 /\ slack'[a] = slack[a]
  BY <1>1, <1>3, <1>4
<1>9. \A b \in IP : b # a =>
        \/ connections'[b] = connections[b] /\ slack'[b] = slack[b]
        \/ connections'[b] = 0 /\ slack'[b] = slack[b] \cup {"evicted"}
  BY <1>4
<1>10. \A b \in IP : connections'[b] > 0 <=> b \in ToSet(kept) \cup {a}
  BY <1>1, <1>2, <1>3, <1>4
<1>11. ToSet(kept) \cup {a} \subseteq IP
  BY <1>1, <1>2
<1>12. Listed'
  BY <1>6, <1>10, <1>11 DEF Listed
<1>13. QED BY <1>7, <1>8, <1>9, <1>12

\* The addresses the sweep lists are those of the sockets that are open.
LEMMA SweepLists ==
  ASSUME TrackerTypeOK, Reconcile
  PROVE  connections' \in [IP -> Nat] /\ Listed'
<1> DEFINE S == {a \in IP : OpenOf(a) # {}}
           T == {s \in SocketId : stage[s] = "open"}
           f == [s \in T |-> ip[s]]
<1>1. f \in Surjection(T, S)
  <2>1. \A s \in T : ip[s] \in S
    BY DEF TrackerTypeOK, OpenOf, SocketsOf
  <2>2. \A a \in S : \E s \in T : f[s] = a
    BY DEF OpenOf, SocketsOf
  <2>3. QED BY <2>1, <2>2 DEF Surjection
<1>2. IsFiniteSet(S)
  BY <1>1, SocketsAssumption, FS_Subset, FS_Surjection
<1>3. lastSeen' \in SetToSeqs(S) /\ connections' = [a \in IP |-> Cardinality(OpenOf(a))]
  BY DEF Reconcile
<1> HIDE DEF f, T
<1>4. connections' \in [IP -> Nat]
  BY <1>3, SocketSets
<1>5. \A a \in IP : connections'[a] > 0 <=> OpenOf(a) # {}
  <2>1. \A a \in IP : Cardinality(OpenOf(a)) > 0 <=> OpenOf(a) # {}
    BY SocketSets, FS_EmptySet
  <2>2. QED BY <2>1, <1>3
<1>6. Lists(lastSeen', S) /\ ToSet(lastSeen') = S
  BY <1>2, <1>3, ListOfSet
<1>7. Lists(lastSeen', IP)
  BY <1>6, SeqMonotonic DEF Lists
<1>8. QED BY <1>4, <1>5, <1>6, <1>7 DEF Listed

-----------------------------------------------------------------------------
Counted(a) ==
  /\ slack[a] \cap {"evicted", "swept"} = {} => Cardinality(SocketsOf(a)) <= connections[a]
  /\ "left" \notin slack[a] => connections[a] <= Cardinality(SocketsOf(a))

LEMMA CountsMatchIs == CountsMatch <=> TrackerTypeOK /\ \A a \in IP : Counted(a)
BY DEF CountsMatch, Counted

LEMMA InitCounts == TrackerInit => CountsMatch
<1> SUFFICES ASSUME TrackerInit PROVE CountsMatch
  OBVIOUS
<1>1. lastSeen \in Seq(IP) /\ IsInjective(lastSeen) /\ ToSet(lastSeen) = {}
  <2>1. lastSeen = <<>>
    BY DEF TrackerInit
  <2>2. lastSeen \in Seq(IP) /\ Len(lastSeen) = 0
    BY <2>1, EmptySeq
  <2>3. 1 .. Len(lastSeen) = {}
    BY <2>2
  <2>4. ToSet(lastSeen) = {}
    <3>1. ToSet(lastSeen) = {lastSeen[i] : i \in 1 .. Len(lastSeen)}
      BY <2>2, ToSetOf
    <3>2. QED BY <2>3, <3>1
  <2>5. IsInjective(lastSeen)
    BY <2>2, <2>3, InjectiveOf
  <2>6. QED BY <2>2, <2>4, <2>5
<1>2. TrackerTypeOK
  <2>1. {a \in IP : connections[a] > 0} = {}
    BY DEF TrackerInit
  <2>2. QED BY <1>1, <2>1 DEF TrackerInit, TrackerTypeOK, Cause
<1>3. \A a \in IP : SocketsOf(a) = {}
  BY SocketsAssumption DEF TrackerInit, SocketsOf
<1>4. \A a \in IP : Cardinality(SocketsOf(a)) = 0 /\ connections[a] = 0
  BY <1>3, FS_EmptySet DEF TrackerInit
<1>5. QED BY <1>2, <1>4, CountsMatchIs DEF Counted

\* A socket frees its place and the counter of its address follows.
LEMMA PlaceGivenBack ==
  ASSUME CountsMatch, NEW s \in SocketId, stage[s] # "none", Free(s),
         DecrementConnectionCount(ip[s]), UNCHANGED <<shuttingDown, slack>>
  PROVE  CountsMatch'
<1>1. TrackerTypeOK /\ \A a \in IP : Counted(a)
  BY CountsMatchIs
<1>2. PICK a \in IP : ip[s] = a
  BY <1>1 DEF TrackerTypeOK
<1>3. /\ connections' \in [IP -> Nat]
      /\ \A b \in IP : connections'[b] =
           IF b # a THEN connections[b] ELSE IF connections[a] > 1 THEN connections[a] - 1 ELSE 0
      /\ Listed'
  BY <1>1, <1>2, Decremented
<1>4. /\ \A b \in IP : Cardinality(SocketsOf(b)') =
           IF b = a THEN Cardinality(SocketsOf(b)) - 1 ELSE Cardinality(SocketsOf(b))
      /\ Cardinality(SocketsOf(a)) >= 1
  BY <1>1, <1>2, Leaves
<1>5. TrackerTypeOK'
  BY <1>1, <1>3, SocketsAssumption DEF TrackerTypeOK, Free, Listed, Lists
<1>6. ASSUME NEW b \in IP PROVE Counted(b)'
  <2>1. /\ Cardinality(SocketsOf(b)) \in Nat /\ connections[b] \in Nat
        /\ slack'[b] = slack[b] /\ Counted(b)
    BY <1>1, SocketSets DEF TrackerTypeOK
  <2>2. QED BY <2>1, <1>3, <1>4 DEF Counted
<1>7. QED BY <1>5, <1>6 DEF CountsMatch, Counted

LEMMA ConnectCounts ==
  ASSUME CountsMatch, NEW s \in SocketId, NEW a \in IP, Connect(s, a)
  PROVE  CountsMatch'
<1>1. TrackerTypeOK /\ \A b \in IP : Counted(b)
  BY CountsMatchIs
<1>2. /\ connections' \in [IP -> Nat] /\ slack' \in [IP -> SUBSET Cause]
      /\ connections'[a] = connections[a] + 1 /\ slack'[a] = slack[a]
      /\ \A b \in IP : b # a =>
           \/ connections'[b] = connections[b] /\ slack'[b] = slack[b]
           \/ connections'[b] = 0 /\ slack'[b] = slack[b] \cup {"evicted"}
      /\ Listed'
  BY <1>1, Incremented DEF Connect
<1>3. \A b \in IP : Cardinality(SocketsOf(b)') =
        IF b = a THEN Cardinality(SocketsOf(b)) + 1 ELSE Cardinality(SocketsOf(b))
  BY <1>1, Arrives DEF Connect
<1>4. TrackerTypeOK'
  BY <1>1, <1>2, SocketsAssumption DEF TrackerTypeOK, Connect, Listed, Lists
<1>5. ASSUME NEW b \in IP PROVE Counted(b)'
  <2>1. /\ Cardinality(SocketsOf(b)) \in Nat /\ connections[b] \in Nat /\ Counted(b)
    BY <1>1, SocketSets DEF TrackerTypeOK
  <2>2. QED BY <2>1, <1>2, <1>3 DEF Counted
<1>6. QED BY <1>4, <1>5 DEF CountsMatch, Counted

LEMMA SweepCounts ==
  ASSUME CountsMatch, Reconcile
  PROVE  CountsMatch'
<1>1. TrackerTypeOK
  BY CountsMatchIs
<1>2. connections' \in [IP -> Nat] /\ Listed'
  BY <1>1, SweepLists
<1>3. TrackerTypeOK'
  BY <1>1, <1>2 DEF TrackerTypeOK, Reconcile, Listed, Lists, Cause
<1>4. ASSUME NEW a \in IP PROVE Counted(a)'
  <2>1. /\ connections'[a] = Cardinality(OpenOf(a))
        /\ slack'[a] = IF PendingOf(a) = {} THEN {} ELSE {"swept"}
        /\ SocketsOf(a)' = SocketsOf(a)
    BY DEF Reconcile, SocketsOf
  <2>2. PendingOf(a) = {} => OpenOf(a) = SocketsOf(a)
    BY <1>1, SocketsAssumption DEF TrackerTypeOK, PendingOf, OpenOf, SocketsOf
  <2>3. /\ Cardinality(SocketsOf(a)) \in Nat /\ Cardinality(OpenOf(a)) \in Nat
        /\ Cardinality(OpenOf(a)) <= Cardinality(SocketsOf(a))
    BY SocketSets
  <2>4. QED BY <2>1, <2>2, <2>3 DEF Counted
<1>5. QED BY <1>3, <1>4 DEF CountsMatch, Counted

\* A client that leaves in its handshake, and the session accepted for it.
LEMMA NobodyCounts ==
  ASSUME CountsMatch, NEW s \in SocketId, AcceptNobody(s)
  PROVE  CountsMatch'
<1>1. TrackerTypeOK /\ \A a \in IP : Counted(a)
  BY CountsMatchIs
<1>2. PICK a \in IP : ip[s] = a
  BY <1>1 DEF TrackerTypeOK, AcceptNobody
<1>3. slack' = [slack EXCEPT ![a] = @ \cup {"left"}] /\ connections' = connections
  BY <1>2 DEF AcceptNobody
<1>4. \A b \in IP : Cardinality(SocketsOf(b)') =
        IF b = a THEN Cardinality(SocketsOf(b)) - 1 ELSE Cardinality(SocketsOf(b))
  BY <1>1, <1>2, Leaves DEF AcceptNobody
<1>5. TrackerTypeOK'
  BY <1>1, <1>3, SocketsAssumption DEF TrackerTypeOK, AcceptNobody, Free, Cause
<1>6. ASSUME NEW b \in IP PROVE Counted(b)'
  <2>1. /\ Cardinality(SocketsOf(b)) \in Nat /\ connections[b] \in Nat /\ Counted(b)
        /\ slack'[b] = IF b = a THEN slack[b] \cup {"left"} ELSE slack[b]
    BY <1>1, <1>3, SocketSets DEF TrackerTypeOK
  <2>2. QED BY <2>1, <1>3, <1>4 DEF Counted
<1>7. QED BY <1>5, <1>6 DEF CountsMatch, Counted

\* A step that moves no socket from address to address and no counter.
LEMMA StageCounts ==
  ASSUME CountsMatch, TrackerTypeOK', UNCHANGED <<ip, connections, slack>>
  PROVE  CountsMatch'
<1>1. ASSUME NEW a \in IP PROVE Counted(a)'
  BY CountsMatchIs DEF Counted, SocketsOf
<1>2. QED BY <1>1 DEF CountsMatch, Counted

LEMMA NextCounts == CountsMatch /\ [TrackerNext]_trackerVars => CountsMatch'
<1> SUFFICES ASSUME CountsMatch, [TrackerNext]_trackerVars PROVE CountsMatch'
  OBVIOUS
<1>1. TrackerTypeOK
  BY CountsMatchIs
<1>2. ASSUME NEW s \in SocketId, NEW a \in IP, Connect(s, a) PROVE CountsMatch'
  BY <1>2, ConnectCounts
<1>3. ASSUME NEW s \in SocketId, LeaveHandshake(s) PROVE CountsMatch'
  <2>1. TrackerTypeOK'
    BY <1>1, <1>3 DEF TrackerTypeOK, LeaveHandshake
  <2>2. QED BY <1>3, <2>1, StageCounts DEF LeaveHandshake
<1>4. ASSUME NEW s \in SocketId, AuthFails(s) PROVE CountsMatch'
  BY <1>4, PlaceGivenBack DEF AuthFails
<1>5. ASSUME NEW s \in SocketId, Accept(s) PROVE CountsMatch'
  <2>1. CASE stage' = [stage EXCEPT ![s] = "open"] /\ UNCHANGED <<ip, connections, lastSeen>>
    <3>1. TrackerTypeOK'
      BY <1>1, <1>5, <2>1 DEF TrackerTypeOK, Accept
    <3>2. QED BY <1>5, <2>1, <3>1, StageCounts DEF Accept
  <2>2. CASE Free(s) /\ DecrementConnectionCount(ip[s])
    BY <1>5, <2>2, PlaceGivenBack DEF Accept
  <2>3. QED BY <1>5, <2>1, <2>2 DEF Accept
<1>6. ASSUME NEW s \in SocketId, AcceptNobody(s) PROVE CountsMatch'
  BY <1>6, NobodyCounts
<1>7. ASSUME NEW s \in SocketId, Disconnect(s) PROVE CountsMatch'
  BY <1>7, PlaceGivenBack DEF Disconnect
<1>8. ASSUME Reconcile PROVE CountsMatch'
  BY <1>8, SweepCounts
<1>9. ASSUME ShutDown PROVE CountsMatch'
  <2>1. TrackerTypeOK'
    BY <1>1, <1>9 DEF TrackerTypeOK, ShutDown
  <2>2. QED BY <1>9, <2>1, StageCounts DEF ShutDown
<1>10. ASSUME UNCHANGED trackerVars PROVE CountsMatch'
  <2>1. TrackerTypeOK'
    BY <1>1, <1>10 DEF TrackerTypeOK, trackerVars
  <2>2. QED BY <1>10, <2>1, StageCounts DEF trackerVars
<1>11. QED
  BY <1>2, <1>3, <1>4, <1>5, <1>6, <1>7, <1>8, <1>9, <1>10 DEF TrackerNext

\* Types hold and a counter is the number of its address's sockets, but for an
\* eviction, a sweep or a client that left in its handshake.
THEOREM CountsAreRight == TrackerSpec => []CountsMatch
<1>1. TrackerInit => CountsMatch
  BY InitCounts
<1>2. CountsMatch /\ [TrackerNext]_trackerVars => CountsMatch'
  BY NextCounts
<1>3. QED BY <1>1, <1>2, PTL DEF TrackerSpec
=============================================================================
