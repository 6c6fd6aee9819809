------------------------- MODULE GameServerLogProofs --------------------------
(***************************************************************************)
(* What the log of the server says, proved from the rules it plays by.     *)
(* Since the server implements GameRules and both snakes live while a game *)
(* runs, the log changes in three ways only: a game of two starts, a free  *)
(* pixel is announced, or an elimination ends the game.                    *)
(***************************************************************************)
EXTENDS GameServerRefinement, FiniteSetTheorems

LEMMA LogSteps ==
    ASSUME IInv, IInv', [Next]_vars
    PROVE  \/ UNCHANGED <<events, pixels, inProgress>>
           \/ /\ inProgress' /\ pixels' = {}
              /\ \E roster : Len(roster) = 2 /\ events' = <<NewGame(roster)>>
           \/ /\ inProgress /\ inProgress'
              /\ \E i \in {1, 2}, pos \in Board \ pixels :
                    events' = Append(events, Pixel(i, pos)) /\ pixels' = pixels \cup {pos}
           \/ /\ inProgress /\ ~inProgress' /\ pixels' = {}
              /\ \E i \in {1, 2} : events' = events \o <<PlayerEliminated(i), GameOver>>
<1>1. Rules!Next \/ UNCHANGED Rules!vars
  BY NextRules
<1>2. /\ Living(players) = IF inProgress THEN {1, 2} ELSE {}
      /\ Living(players)' = IF inProgress' THEN {1, 2} ELSE {}
  BY LivingSnakes, LivingSnakesNext
<1>3. CASE Rules!Start
  <2>1. PICK roster \in Rosters :
           /\ events' = <<[type |-> "NEW_GAME", roster |-> roster]>>
           /\ Living(players)' = DOMAIN roster
           /\ pixels' = {} /\ inProgress'
    BY <1>3 DEF Rules!Start
  <2>2. DOMAIN roster = {1, 2}
    BY <1>2, <2>1
  <2>3. PICK n \in Nat : roster \in [1..n -> Names]
    BY ServerAssumption DEF Rosters
  <2>4. n = 2
    <3>1. 1 \in 1..n /\ 2 \in 1..n /\ 3 \notin 1..n
      BY <2>2, <2>3
    <3>. QED  BY <3>1
  <2>5. Len(roster) = 2
    BY <2>3, <2>4, FunctionIsSequence
  <2>. QED  BY <2>1, <2>5 DEF NewGame
<1>4. ASSUME NEW i \in Living(players), NEW pos \in Board, Rules!Claim(i, pos)
      PROVE  /\ inProgress /\ inProgress' /\ i \in {1, 2} /\ pos \in Board \ pixels
             /\ events' = Append(events, Pixel(i, pos)) /\ pixels' = pixels \cup {pos}
  BY <1>2, <1>4 DEF Rules!Claim, Pixel
<1>5. ASSUME NEW i \in Living(players), Rules!Eliminate(i)
      PROVE  FALSE
  BY <1>2, <1>5 DEF Rules!Eliminate
<1>6. ASSUME NEW i \in Living(players), Rules!Finish(i)
      PROVE  /\ inProgress /\ ~inProgress' /\ i \in {1, 2} /\ pixels' = {}
             /\ events' = events \o <<PlayerEliminated(i), GameOver>>
  BY <1>2, <1>6 DEF Rules!Finish, Rules!Out, PlayerEliminated, GameOver
<1>7. CASE UNCHANGED Rules!vars
  BY <1>7 DEF Rules!vars
<1>8. CASE Rules!Next
  BY <1>3, <1>4, <1>5, <1>6, <1>8 DEF Rules!Next
<1>. QED  BY <1>1, <1>7, <1>8

-----------------------------------------------------------------------------
(* A longer log begins as the old one did. *)
LEMMA LogAppended ==
    ASSUME IInv, LogInv, inProgress, NEW e, events' = Append(events, e)
    PROVE  /\ Len(events) \in Nat \ {0} /\ DOMAIN events = 1 .. Len(events)
           /\ Len(events') = Len(events) + 1 /\ DOMAIN events' = 1 .. Len(events) + 1
           /\ \A k \in DOMAIN events : events'[k] = events[k]
           /\ events'[Len(events) + 1] = e
           /\ PlayersAtStart' = PlayersAtStart
<1>1. events \in Seq(Event) /\ events # << >>
  BY DEF IInv, TypeOK, LogInv, LogWellFormed
<1>. QED  BY <1>1 DEF PlayersAtStart

LEMMA LogEnded ==
    ASSUME IInv, LogInv, inProgress, NEW e, NEW f, events' = events \o <<e, f>>
    PROVE  /\ Len(events) \in Nat \ {0} /\ DOMAIN events = 1 .. Len(events)
           /\ Len(events') = Len(events) + 2 /\ DOMAIN events' = 1 .. Len(events) + 2
           /\ \A k \in DOMAIN events : events'[k] = events[k]
           /\ events'[Len(events) + 1] = e /\ events'[Len(events) + 2] = f
           /\ PlayersAtStart' = PlayersAtStart
<1>1. events \in Seq(Event) /\ events # << >>
  BY DEF IInv, TypeOK, LogInv, LogWellFormed
<1>. QED  BY <1>1 DEF PlayersAtStart

LEMMA StartLog ==
    ASSUME IInv', inProgress', pixels' = {},
           NEW roster, Len(roster) = 2, events' = <<NewGame(roster)>>
    PROVE  LogInv'
<1>1. /\ DOMAIN events' = {1} /\ Len(events') = 1 /\ events' # << >>
      /\ events'[1].type = "NEW_GAME" /\ events'[1].roster = roster
  BY DEF NewGame
<1>2. PlayersAtStart' = 2
  BY <1>1 DEF PlayersAtStart
<1>3. LogWellFormed'
  BY <1>1, <1>2 DEF LogWellFormed, IInv, TwoSnakes
<1>4. PixelsMatchLog'
  BY <1>1 DEF PixelsMatchLog, PixelEvents
<1>5. LogState'
  BY <1>1, <1>2 DEF LogState
<1>. QED  BY <1>3, <1>4, <1>5 DEF LogInv

LEMMA PixelLog ==
    ASSUME IInv, IInv', LogInv, inProgress, inProgress',
           NEW i \in {1, 2}, NEW pos \in Board \ pixels,
           events' = Append(events, Pixel(i, pos)), pixels' = pixels \cup {pos}
    PROVE  LogInv'
<1>1. /\ Len(events) \in Nat \ {0} /\ DOMAIN events = 1 .. Len(events)
      /\ Len(events') = Len(events) + 1 /\ DOMAIN events' = 1 .. Len(events) + 1
      /\ \A k \in DOMAIN events : events'[k] = events[k]
      /\ events'[Len(events) + 1].type = "PIXEL" /\ events'[Len(events) + 1].pos = pos
      /\ PlayersAtStart' = PlayersAtStart
  BY LogAppended DEF Pixel
<1>2. events # << >> /\ PlayersAtStart = 2
  BY <1>1 DEF LogInv, LogState
<1>3. LogWellFormed'
  BY <1>1, <1>2 DEF LogInv, LogWellFormed, IInv, TwoSnakes
<1>4. /\ PixelEvents' = PixelEvents \cup {Len(events) + 1}
      /\ PixelEvents \subseteq DOMAIN events
  BY <1>1 DEF PixelEvents
<1>5. PixelsMatchLog'
  <2>1. pixels = {events[k].pos : k \in PixelEvents}
    BY DEF LogInv, PixelsMatchLog
  <2>2. pixels' = {events'[k].pos : k \in PixelEvents'}
    BY <1>1, <1>4, <2>1
  <2>3. \A j, k \in PixelEvents' : events'[j].pos = events'[k].pos => j = k
    BY <1>1, <1>4, <2>1 DEF LogInv, PixelsMatchLog
  <2>. QED  BY <2>2, <2>3 DEF PixelsMatchLog
<1>6. LogState'
  BY <1>1, <1>2 DEF LogInv, LogState
<1>. QED  BY <1>3, <1>5, <1>6 DEF LogInv

LEMMA EndLog ==
    ASSUME IInv, IInv', LogInv, inProgress, ~inProgress', pixels' = {},
           NEW i \in {1, 2}, events' = events \o <<PlayerEliminated(i), GameOver>>
    PROVE  LogInv'
<1>1. /\ Len(events) \in Nat \ {0} /\ DOMAIN events = 1 .. Len(events)
      /\ Len(events') = Len(events) + 2 /\ DOMAIN events' = 1 .. Len(events) + 2
      /\ \A k \in DOMAIN events : events'[k] = events[k]
      /\ events'[Len(events) + 1].type = "PLAYER_ELIMINATED"
      /\ events'[Len(events) + 1].player = i
      /\ events'[Len(events) + 2].type = "GAME_OVER"
      /\ PlayersAtStart' = PlayersAtStart
  BY LogEnded DEF PlayerEliminated, GameOver
<1>2. events # << >> /\ PlayersAtStart = 2
  BY <1>1 DEF LogInv, LogState
<1>3. phase' # "placing"
  BY DEF IInv, LoopState
<1>4. LogWellFormed'
  BY <1>1, <1>2, <1>3 DEF LogInv, LogWellFormed
<1>5. PixelEvents' = PixelEvents /\ PixelEvents \subseteq DOMAIN events
  BY <1>1 DEF PixelEvents
<1>6. PixelsMatchLog'
  BY <1>1, <1>5 DEF LogInv, PixelsMatchLog
<1>7. LogState'
  <2>. DEFINE k == Len(events) + 1
  <2>1. \A j \in DOMAIN events : events[j].type # "PLAYER_ELIMINATED"
    BY <1>2 DEF LogInv, LogState
  <2>2. /\ k \in DOMAIN events' /\ events'[k].player \in {1, 2}
        /\ \A j \in DOMAIN events' : events'[j].type = "PLAYER_ELIMINATED" <=> j = k
    BY <1>1, <2>1
  <2>. QED  BY <1>1, <1>2, <2>2 DEF LogState
<1>. QED  BY <1>4, <1>6, <1>7 DEF LogInv

LEMMA SameLog ==
    ASSUME IInv, IInv', LogInv, UNCHANGED <<events, pixels, inProgress>>
    PROVE  LogInv'
<1>1. PlayersAtStart' = PlayersAtStart /\ PixelEvents' = PixelEvents
  BY DEF PlayersAtStart, PixelEvents
<1>2. phase' = "placing" => inProgress' /\ Len(players') = PlayersAtStart'
  BY DEF IInv, LoopState, TwoSnakes
<1>3. LogWellFormed' /\ PixelsMatchLog' /\ LogState'
  BY <1>1, <1>2 DEF LogInv, LogWellFormed, PixelsMatchLog, LogState
<1>. QED  BY <1>3 DEF LogInv

LEMMA LogInvariance == Spec => []LogInv
<1>1. Init => LogInv
  <2>. SUFFICES ASSUME Init PROVE LogInv
    OBVIOUS
  <2>1. events = << >> /\ DOMAIN events = {} /\ ~inProgress /\ pixels = {} /\ phase = "unlocked"
    BY DEF Init
  <2>. QED  BY <2>1 DEF LogInv, LogWellFormed, PixelsMatchLog, PixelEvents, LogState
<1>2. IInv /\ IInv' /\ LogInv /\ [Next]_vars => LogInv'
  BY LogSteps, SameLog, StartLog, PixelLog, EndLog
<1>. QED  BY <1>1, <1>2, Invariance, PTL DEF Spec

-----------------------------------------------------------------------------
(* The log of a game starts with NEW_GAME, ends with GAME_OVER when it is  *)
(* over, and has neither elsewhere, even when the game ends inside the     *)
(* loop of try_start_game that places the snakes.                          *)
THEOREM LogsAreWellFormed == Spec => []LogWellFormed
<1>1. LogInv => LogWellFormed
  BY DEF LogInv
<1>. QED  BY <1>1, LogInvariance, PTL

(* The map has the pixels that the log of the running game announced, each *)
(* of them once.                                                           *)
THEOREM MapMatchesLog == Spec => []PixelsMatchLog
<1>1. LogInv => PixelsMatchLog
  BY DEF LogInv
<1>. QED  BY <1>1, LogInvariance, PTL

LEMMA SurvivorsOfLog ==
    ASSUME IInv, LogInv
    PROVE  OneSurvivor
<1>. SUFFICES ASSUME events # << >> PROVE
        /\ \A i \in 1 .. PlayersAtStart : Cardinality(EliminationsOf(i)) <= 1
        /\ inProgress => Survivors = Living(players) /\ Cardinality(Survivors) > 1
        /\ ~inProgress => Cardinality(Survivors) = 1
  BY DEF OneSurvivor
<1>1. 1 .. PlayersAtStart = {1, 2}
  BY DEF LogInv, LogState
<1>2. CASE inProgress
  <2>1. \A i \in {1, 2} : EliminationsOf(i) = {}
    BY <1>2 DEF LogInv, LogState, EliminationsOf
  <2>2. Survivors = {1, 2}
    BY <1>1, <2>1 DEF Survivors
  <2>3. Cardinality(1..2) = 2 /\ 1..2 = {1, 2}
    <3>1. Cardinality(1..2) = IF 1 > 2 THEN 0 ELSE 2 - 1 + 1
      BY ONLY FS_Interval, 1 \in Int, 2 \in Int, Zenon
    <3>. QED  BY <3>1
  <2>4. Cardinality(Survivors) = 2
    BY <2>2, <2>3
  <2>5. \A i \in 1 .. PlayersAtStart : Cardinality(EliminationsOf(i)) = 0
    BY <1>1, <2>1, FS_EmptySet
  <2>6. Survivors = Living(players)
    BY <1>2, <2>2, LivingSnakes
  <2>. QED  BY <1>2, <2>4, <2>5, <2>6
<1>3. CASE ~inProgress
  <2>1. PICK k \in DOMAIN events :
           /\ events[k].player \in {1, 2}
           /\ \A j \in DOMAIN events : events[j].type = "PLAYER_ELIMINATED" <=> j = k
    BY <1>3 DEF LogInv, LogState
  <2>2. PICK winner \in {1, 2} : winner # events[k].player
    BY <2>1
  <2>3. EliminationsOf(events[k].player) = {k} /\ EliminationsOf(winner) = {}
    BY <2>1, <2>2 DEF EliminationsOf
  <2>4. {1, 2} = {events[k].player, winner}
    BY <2>1, <2>2
  <2>5. Survivors = {winner}
    BY <1>1, <2>3, <2>4 DEF Survivors
  <2>6. Cardinality({}) = 0 /\ Cardinality({k}) = 1 /\ Cardinality({winner}) = 1
    BY FS_EmptySet, FS_Singleton
  <2>7. \A i \in 1 .. PlayersAtStart : Cardinality(EliminationsOf(i)) \in {0, 1}
    BY <1>1, <2>3, <2>4, <2>6
  <2>8. Cardinality(Survivors) = 1
    BY <2>5, <2>6
  <2>. QED  BY <1>3, <2>7, <2>8
<1>. QED  BY <1>2, <1>3

(* Who is out can be read from the log: nobody while the game runs, and    *)
(* one of the two, once, when it is over.                                  *)
THEOREM OneSurvivorRemains == Spec => []OneSurvivor
<1>1. IInv /\ LogInv => OneSurvivor
  BY SurvivorsOfLog
<1>. QED  BY <1>1, Invariance, LogInvariance, PTL

-----------------------------------------------------------------------------
(***************************************************************************)
(* Where the snakes are.                                                   *)
(***************************************************************************)

(* Neither steering a snake nor losing its client moves it. *)
LEMMA SamePlace ==
    ASSUME NEW p \in Player, NEW byte
    PROVE  PosOf(Steered(p, byte)) = PosOf(p) /\ PosOf(Disconnected(p)) = PosOf(p)
BY DEF Player, PosOf, Steered, Disconnected

(* The steps of a running game that announce no pixel leave every snake in *)
(* its pixel.                                                              *)
LEMMA SnakesStay ==
    ASSUME IInv, inProgress, inProgress', [Next]_vars, events' = events
    PROVE  /\ phase # "placing" \/ UNCHANGED <<phase, cursor>>
           /\ phase' = "placing" => UNCHANGED <<phase, cursor>>
           /\ \A i \in {1, 2} : PosOf(players'[i]) = PosOf(players[i])
<1>1. /\ DOMAIN players = {1, 2} /\ \A i \in {1, 2} : players[i] \in Player
      /\ events \in Seq(Event) /\ phase # "selecting"
  BY PlayersDomain DEF IInv, TypeOK, LoopState
<1>2. \A e : Append(events, e) # events
  BY <1>1
<1>3. CASE UNCHANGED <<players, phase, cursor>>
  BY <1>3
<1>4. CASE UNCHANGED vars
  BY <1>3, <1>4 DEF vars
<1>5. ASSUME NEW s \in Sockets, NEW m \in Message, Steer(s, m)
      PROVE  phase = "unlocked" /\ UNCHANGED <<phase, cursor>>
             /\ \A i \in {1, 2} : PosOf(players'[i]) = PosOf(players[i])
  <2>. DEFINE n == Recorded(s, m).player
  <2>1. /\ phase = "unlocked" /\ UNCHANGED <<phase, cursor>>
        /\ players' = [players EXCEPT ![n] = Steered(players[n], m.turn)]
    BY <1>5 DEF Steer
  <2>. HIDE DEF n
  <2>2. \A i \in {1, 2} :
           players'[i] = IF i = n THEN Steered(players[n], m.turn) ELSE players[i]
    BY <1>1, <2>1
  <2>. QED  BY <1>1, <2>1, <2>2, SamePlace
<1>6. CASE Receive
  BY <1>1, <1>3, <1>5, <1>6 DEF Receive, PressArrow, KeepAlive, Presses
<1>7. CASE TryStartGame
  <2>1. CASE PlaceSnake
    <3>1. PICK pos, ps : GenerateElimination(cursor, ps) \/ GeneratePixel(cursor, pos, ps)
      BY <2>1 DEF PlaceSnake
    <3>. QED  BY <1>1, <1>2, <3>1 DEF GenerateElimination, GeneratePixel, CleanupGame
  <2>. QED  BY <1>1, <1>7, <2>1 DEF TryStartGame, SelectClient, TooFewPlayers, StartGame
<1>8. CASE BeginRound
  BY <1>8 DEF BeginRound
<1>9. CASE MoveSnake
  <2>. DEFINE snake == Moved(players[cursor])
              moved == [players EXCEPT ![cursor] = snake]
  <2>1. \/ PosOf(players[cursor]) = PosOf(snake) /\ players' = moved
        \/ GenerateElimination(cursor, moved)
        \/ GeneratePixel(cursor, PosOf(snake), moved)
    BY <1>9 DEF MoveSnake, SamePixel
  <2>. HIDE DEF snake
  <2>2. PosOf(players[cursor]) = PosOf(snake) /\ players' = moved
    BY <1>2, <2>1 DEF GenerateElimination, GeneratePixel, CleanupGame
  <2>3. \A i \in {1, 2} : players'[i] = IF i = cursor THEN snake ELSE players[i]
    BY <1>1, <2>2
  <2>. QED  BY <1>9, <2>2, <2>3 DEF MoveSnake
<1>10. CASE EndRound
  <2>1. phase = "pruning" /\ phase' = "unlocked"
    BY <1>10 DEF EndRound, Unlock
  <2>2. CASE UNCHANGED players
    BY <2>1, <2>2
  <2>3. CASE PruneInactiveClients
    <3>1. \A i \in {1, 2} : players'[i] \in {players[i], Disconnected(players[i])}
      BY <1>1, <2>3 DEF PruneInactiveClients
    <3>. QED  BY <1>1, <2>1, <3>1, SamePlace
  <2>. QED  BY <1>10, <2>2, <2>3 DEF EndRound
<1>11. CASE TakeSnapshot \/ TimePasses
  BY <1>3, <1>11 DEF TakeSnapshot, TimePasses
<1>. QED
  BY <1>4, <1>6, <1>7, <1>8, <1>9, <1>10, <1>11 DEF Next, Round

(* The disjunction HeadIsLastPixel states of one snake. *)
LEMMA HeadsByPlayer ==
    ASSUME IInv
    PROVE  HeadIsLastPixel <=>
             (inProgress =>
                \A i \in {1, 2} :
                   \/ phase = "placing" /\ i >= cursor
                   \/ \E k \in PixelEvents :
                         /\ events[k].player = i /\ events[k].pos = PosOf(players[i])
                         /\ \A j \in PixelEvents : events[j].player = i => j <= k)
<1>1. Living(players) = IF inProgress THEN {1, 2} ELSE {}
  BY LivingSnakes
<1>. QED  BY <1>1 DEF HeadIsLastPixel

LEMMA HeadsByPlayerNext ==
    ASSUME IInv'
    PROVE  HeadIsLastPixel' <=>
             (inProgress' =>
                \A i \in {1, 2} :
                   \/ phase' = "placing" /\ i >= cursor'
                   \/ \E k \in PixelEvents' :
                         /\ events'[k].player = i /\ events'[k].pos = PosOf(players'[i])
                         /\ \A j \in PixelEvents' : events'[j].player = i => j <= k)
<1>1. Living(players)' = IF inProgress' THEN {1, 2} ELSE {}
  BY LivingSnakesNext
<1>. QED  BY <1>1 DEF HeadIsLastPixel, PosOf

(* A step that announces the pixel of the snake at the cursor. *)
LEMMA SnakeAdvances ==
    ASSUME IInv, IInv', LogInv, HeadIsLastPixel, inProgress, inProgress',
           NEW pos, NEW q, q \in Player, PosOf(q) = pos,
           phase \in {"placing", "moving"},
           GeneratePixel(cursor, pos, [players EXCEPT ![cursor] = q]),
           phase = "placing" /\ cursor = 1 => phase' = "placing" /\ cursor' = 2
    PROVE  HeadIsLastPixel'
<1>1. cursor \in {1, 2} /\ DOMAIN players = {1, 2}
  BY PlayersDomain DEF IInv, LoopState
<1>2. /\ players'[cursor] = q
      /\ \A i \in {1, 2} : i # cursor => players'[i] = players[i]
      /\ events' = Append(events, Pixel(cursor, pos))
  BY <1>1 DEF GeneratePixel
<1>. DEFINE n == Len(events) + 1
<1>3. /\ n \in Nat /\ DOMAIN events = 1 .. n - 1 /\ DOMAIN events' = 1 .. n
      /\ \A k \in DOMAIN events : events'[k] = events[k]
      /\ events'[n] = Pixel(cursor, pos)
  BY <1>2, LogAppended
<1>0. n >= 1
  BY PlayersDomain DEF IInv, TypeOK
<1>. HIDE DEF n
<1>4. /\ PixelEvents' = PixelEvents \cup {n} /\ PixelEvents \subseteq 1 .. n - 1
      /\ events'[n].player = cursor /\ events'[n].pos = pos
      /\ \A k \in PixelEvents : events'[k] = events[k]
  <2>1. /\ events'[n].type = "PIXEL" /\ events'[n].player = cursor
        /\ events'[n].pos = pos
    BY <1>3 DEF Pixel
  <2>2. DOMAIN events' = DOMAIN events \cup {n} /\ n \notin DOMAIN events
    <3>1. \A k \in Int : k \in 1 .. n <=> k \in 1 .. n - 1 \/ k = n
      BY <1>3, <1>0
    <3>2. 1 .. n = (1 .. n - 1) \cup {n}
      BY <1>3, <1>0, <3>1
    <3>. QED  BY <1>3, <3>2
  <2>3. PixelEvents' = PixelEvents \cup {n}
    BY <1>3, <2>1, <2>2 DEF PixelEvents
  <2>4. PixelEvents \subseteq DOMAIN events
    BY DEF PixelEvents
  <2>. QED  BY <1>3, <2>1, <2>3, <2>4
<1>5. ASSUME NEW i \in {1, 2}
      PROVE  \/ phase' = "placing" /\ i >= cursor'
             \/ \E k \in PixelEvents' :
                   /\ events'[k].player = i /\ events'[k].pos = PosOf(players'[i])
                   /\ \A j \in PixelEvents' : events'[j].player = i => j <= k
  <2>1. CASE i = cursor
    BY <1>2, <1>3, <1>4, <2>1
  <2>2. CASE i # cursor
    <3>1. \/ phase = "placing" /\ i >= cursor
          \/ \E k \in PixelEvents :
                /\ events[k].player = i /\ events[k].pos = PosOf(players[i])
                /\ \A j \in PixelEvents : events[j].player = i => j <= k
      BY HeadsByPlayer
    <3>2. CASE phase = "placing" /\ i >= cursor
      <4>1. cursor = 1 /\ i = 2
        BY <1>1, <2>2, <3>2
      <4>. QED  BY <3>2, <4>1
    <3>3. CASE \E k \in PixelEvents :
                  /\ events[k].player = i /\ events[k].pos = PosOf(players[i])
                  /\ \A j \in PixelEvents : events[j].player = i => j <= k
      BY <1>2, <1>4, <2>2, <3>3
    <3>. QED  BY <3>1, <3>2, <3>3
  <2>. QED  BY <2>1, <2>2
<1>. QED  BY <1>5, HeadsByPlayerNext

(* In a game of two no elimination lets it go on. *)
LEMMA EliminationEnds ==
    ASSUME IInv, inProgress, phase \in {"placing", "moving"}, NEW q \in Player,
           q.eliminated = players[cursor].eliminated,
           GenerateElimination(cursor, [players EXCEPT ![cursor] = q])
    PROVE  ~inProgress'
<1>. DEFINE ps == [players EXCEPT ![cursor] = q]
<1>1. /\ cursor \in {1, 2} /\ ps \in Seq(Player) /\ DOMAIN ps = {1, 2}
      /\ \A j \in {1, 2} : ~ps[j].eliminated
  BY SnakeReplaced
<1>. HIDE DEF ps
<1>2. GenerateElimination(cursor, ps)
  BY DEF ps
<1>. QED  BY <1>1, <1>2, FirstEliminationEndsGame DEF CleanupGame

LEMMA HeadNext ==
    ASSUME IInv, IInv', LogInv, HeadIsLastPixel, [Next]_vars
    PROVE  HeadIsLastPixel'
<1>1. CASE ~inProgress'
  BY <1>1, HeadsByPlayerNext
<1>2. CASE inProgress' /\ ~inProgress
  <2>1. StartGame
    BY <1>2 DEF Next, Receive, TryStartGame, Round, Steer, PressArrow, KeepAlive,
                SelectClient, TooFewPlayers, PlaceSnake, BeginRound, MoveSnake, EndRound,
                TakeSnapshot, TimePasses, GenerateElimination, GeneratePixel, CleanupGame,
                vars, game, IInv, LoopState
  <2>2. phase' = "placing" /\ cursor' = 1
    BY <2>1 DEF StartGame
  <2>. QED  BY <2>2, HeadsByPlayerNext
<1>3. CASE inProgress' /\ inProgress /\ events' = events
  <2>1. /\ phase # "placing" \/ UNCHANGED <<phase, cursor>>
        /\ \A i \in {1, 2} : PosOf(players'[i]) = PosOf(players[i])
    BY <1>3, SnakesStay
  <2>2. PixelEvents' = PixelEvents
    BY <1>3 DEF PixelEvents
  <2>. QED  BY <1>3, <2>1, <2>2, HeadsByPlayer, HeadsByPlayerNext
<1>4. CASE inProgress' /\ inProgress /\ events' # events
  <2>1. /\ cursor \in {1, 2} \/ phase \notin {"placing", "moving"}
        /\ phase \in {"placing", "moving"} => players[cursor] \in Player
        /\ phase # "selecting"
    BY <1>4, PlayersDomain DEF IInv, LoopState
  <2>2. PlaceSnake \/ MoveSnake
    BY <1>4, <2>1 DEF Next, Receive, TryStartGame, Round, Steer, PressArrow, KeepAlive,
                SelectClient, TooFewPlayers, StartGame, BeginRound, EndRound,
                TakeSnapshot, TimePasses, vars, game
  <2>3. CASE PlaceSnake
    <3>1. phase = "placing" /\ cursor \in {1, 2} /\ PlayersAtStart = 2
      BY <2>1, <2>3 DEF PlaceSnake, IInv, LoopState
    <3>2. PICK kx \in 0 .. Width - 1, ky \in 0 .. Height - 1, heading \in StartHeadings :
             LET snake == Placed(players[cursor], kx, ky, heading)
                 placed == [players EXCEPT ![cursor] = snake]
             IN  \/ GenerateElimination(cursor, placed)
                 \/ GeneratePixel(cursor, PosOf(snake), placed)
      BY <2>3 DEF PlaceSnake
    <3>. DEFINE snake == Placed(players[cursor], kx, ky, heading)
    <3>3. kx \in Nat /\ ky \in Nat /\ heading \in Degrees
      BY GeometryAssumption, ServerAssumption
    <3>4. snake \in Player /\ snake.eliminated = players[cursor].eliminated
      BY ONLY <2>1, <3>1, <3>3, PlacedPlayer
    <3>. HIDE DEF snake
    <3>5. GeneratePixel(cursor, PosOf(snake), [players EXCEPT ![cursor] = snake])
      BY <1>4, <3>1, <3>2, <3>4, EliminationEnds DEF snake
    <3>6. cursor = 1 => phase' = "placing" /\ cursor' = 2
      BY <2>3, <3>1 DEF PlaceSnake
    <3>. QED  BY <1>4, <3>1, <3>4, <3>5, <3>6, SnakeAdvances
  <2>4. CASE MoveSnake
    <3>. DEFINE snake == Moved(players[cursor])
    <3>1. /\ phase = "moving" /\ cursor \in {1, 2}
          /\ snake \in Player /\ snake.eliminated = players[cursor].eliminated
      BY <2>1, <2>4, PlayerUpdates DEF MoveSnake
    <3>2. \/ GenerateElimination(cursor, [players EXCEPT ![cursor] = snake])
          \/ GeneratePixel(cursor, PosOf(snake), [players EXCEPT ![cursor] = snake])
      BY <1>4, <2>4 DEF MoveSnake
    <3>. HIDE DEF snake
    <3>3. GeneratePixel(cursor, PosOf(snake), [players EXCEPT ![cursor] = snake])
      BY <1>4, <3>1, <3>2, EliminationEnds DEF snake
    <3>. QED  BY <1>4, <3>1, <3>3, SnakeAdvances
  <2>. QED  BY <2>2, <2>3, <2>4
<1>. QED  BY <1>1, <1>2, <1>3, <1>4

(* A client that draws the log sees every snake where the server has it,   *)
(* whatever way it has come there.                                         *)
THEOREM HeadsAreDrawn == Spec => []HeadIsLastPixel
<1>1. Init => HeadIsLastPixel
  BY DEF Init, HeadIsLastPixel, Living
<1>2. IInv /\ IInv' /\ LogInv /\ HeadIsLastPixel /\ [Next]_vars => HeadIsLastPixel'
  BY HeadNext
<1>. QED  BY <1>1, <1>2, Invariance, LogInvariance, PTL DEF Spec

=============================================================================
