------------------------ MODULE GameServerRefinement -------------------------
(***************************************************************************)
(* The server implements GameRules: each of its steps is a step of the     *)
(* rules on the log, the living players and the claimed pixels, or leaves  *)
(* all of them alone.                                                      *)
(***************************************************************************)
EXTENDS GameServerProofs

(* What the invariant says of the living: both snakes or, between games,   *)
(* nobody.                                                                 *)
LEMMA LivingSnakes ==
    ASSUME IInv
    PROVE  Living(players) = IF inProgress THEN {1, 2} ELSE {}
<1>1. CASE inProgress
  <2>1. DOMAIN players = {1, 2}
    BY <1>1, PlayersDomain
  <2>. QED  BY <1>1, <2>1 DEF Living, IInv, LoopState
<1>2. CASE ~inProgress
  <2>1. DOMAIN players = {}
    BY <1>2, PlayersDomain
  <2>. QED  BY <1>2, <2>1 DEF Living
<1>. QED  BY <1>1, <1>2

LEMMA LivingSnakesNext ==
    ASSUME IInv'
    PROVE  Living(players)' = IF inProgress' THEN {1, 2} ELSE {}
<1>1. CASE inProgress'
  <2>1. DOMAIN players' = {1, 2}
    BY <1>1, LenProperties DEF IInv, TypeOK, TwoSnakes
  <2>. QED  BY <1>1, <2>1 DEF Living, IInv, LoopState
<1>2. CASE ~inProgress'
  <2>1. DOMAIN players' = {}
    BY <1>2 DEF IInv, TwoSnakes
  <2>. QED  BY <1>2, <2>1 DEF Living
<1>. QED  BY <1>1, <1>2

LEMMA StutterStep ==
    ASSUME IInv, IInv', UNCHANGED <<events, pixels, inProgress>>
    PROVE  UNCHANGED Rules!vars
<1>1. Living(players)' = Living(players)
  BY LivingSnakes, LivingSnakesNext
<1>. QED  BY <1>1 DEF Rules!vars

LEMMA StartStep ==
    ASSUME IInv, IInv', StartGame
    PROVE  Rules!Next
<1>. DEFINE roster == [i \in DOMAIN players' |-> players'[i].name]
<1>1. /\ phase = "selecting" /\ cursor > NumSockets /\ Len(readyClients) >= 2
      /\ inProgress' /\ pixels' = pixels /\ events' = <<NewGame(roster)>>
  BY DEF StartGame, MinPlayers
<1>2. ~inProgress /\ pixels = {}
  BY <1>1 DEF IInv, LoopState
<1>3. /\ DOMAIN players' = 1..2
      /\ \A i \in 1..2 : players'[i] \in Player
  BY <1>1, LenProperties DEF IInv, TypeOK, TwoSnakes
<1>4. roster \in [1..2 -> Names] /\ DOMAIN roster = {1, 2}
  BY <1>3 DEF Player
<1>5. Len(roster) = 2
  BY <1>4, FunctionIsSequence
<1>6. 2 <= NumSockets
  <2>1. readyClients \in Seq(Sockets) /\ DOMAIN readyClients = 1 .. Len(readyClients)
        /\ Len(readyClients) \in Nat
    BY LenProperties DEF IInv, TypeOK
  <2>2. 1 \in DOMAIN readyClients /\ 2 \in DOMAIN readyClients
    BY <1>1, <2>1
  <2>3. readyClients[1] # readyClients[2]
    BY <1>1, <2>2 DEF IInv, SelectionState
  <2>4. readyClients[1] \in 1..NumSockets /\ readyClients[2] \in 1..NumSockets
    BY <2>1, <2>2, ElementOfSeq DEF Sockets
  <2>. QED  BY <2>3, <2>4, ServerAssumption
<1>7. roster \in Rosters
  BY <1>4, <1>6, ServerAssumption DEF Rosters
<1>. HIDE DEF roster
<1>8. Living(players)' = DOMAIN roster
  BY <1>1, <1>4, LivingSnakesNext
<1>9. Rules!Start
  <2>1. events' = <<[type |-> "NEW_GAME", roster |-> roster]>>
    BY <1>1 DEF NewGame
  <2>. QED  BY <1>1, <1>2, <1>5, <1>7, <1>8, <2>1 DEF Rules!Start
<1>. QED  BY <1>9 DEF Rules!Next

LEMMA PixelStep ==
    ASSUME IInv, IInv', inProgress, NEW i \in {1, 2}, NEW pos, NEW ps,
           pos \notin pixels, GeneratePixel(i, pos, ps)
    PROVE  Rules!Next
<1>1. /\ events' = Append(events, [type |-> "PIXEL", player |-> i, pos |-> pos])
      /\ pixels' = pixels \cup {pos} /\ inProgress' = inProgress
  BY DEF GeneratePixel, Pixel
<1>2. pos \in Board
  BY <1>1 DEF IInv, TypeOK
<1>3. Living(players) = {1, 2} /\ Living(players)' = {1, 2}
  BY <1>1, LivingSnakes, LivingSnakesNext
<1>4. Rules!Claim(i, pos)
  BY <1>1, <1>2, <1>3 DEF Rules!Claim
<1>. QED  BY <1>2, <1>3, <1>4 DEF Rules!Next

LEMMA EliminationStep ==
    ASSUME IInv, IInv', inProgress, NEW i \in {1, 2},
           NEW ps \in Seq(Player), DOMAIN ps = {1, 2},
           \A j \in {1, 2} : ~ps[j].eliminated,
           GenerateElimination(i, ps)
    PROVE  Rules!Next
<1>1. CleanupGame /\ events' = events \o <<PlayerEliminated(i), GameOver>>
  BY FirstEliminationEndsGame
<1>2. pixels' = {} /\ inProgress' = FALSE
  BY <1>1 DEF CleanupGame
<1>3. Living(players) = {1, 2} /\ Living(players)' = {}
  BY <1>2, LivingSnakes, LivingSnakesNext
<1>4. \E winner \in {1, 2} : winner # i /\ {1, 2} = {i, winner}
  OBVIOUS
<1>5. events' = events \o <<Rules!Out(i), [type |-> "GAME_OVER"]>>
  BY <1>1 DEF PlayerEliminated, GameOver, Rules!Out
<1>6. Rules!Finish(i)
  BY <1>2, <1>3, <1>4, <1>5 DEF Rules!Finish
<1>. QED  BY <1>3, <1>6 DEF Rules!Next

(* A snake that is placed or moved, whatever it becomes, is one of two     *)
(* living ones.                                                            *)
LEMMA SnakeReplaced ==
    ASSUME IInv, inProgress, phase \in {"placing", "moving"}, NEW q,
           q \in Player, q.eliminated = players[cursor].eliminated
    PROVE  LET ps == [players EXCEPT ![cursor] = q]
           IN  /\ cursor \in {1, 2} /\ ps \in Seq(Player) /\ DOMAIN ps = {1, 2}
               /\ \A j \in {1, 2} : ~ps[j].eliminated
<1>1. cursor \in {1, 2} /\ players \in Seq(Player) /\ DOMAIN players = {1, 2}
  BY PlayersDomain DEF IInv, TypeOK, LoopState
<1>2. \A j \in {1, 2} : ~players[j].eliminated
  BY <1>1 DEF IInv, LoopState
<1>. QED  BY <1>1, <1>2, PlayersReplace

LEMMA PlaceStep ==
    ASSUME IInv, IInv', PlaceSnake
    PROVE  Rules!Next
<1>1. /\ phase = "placing" /\ inProgress /\ cursor \in {1, 2}
      /\ players[cursor] \in Player
  BY PlayersDomain DEF PlaceSnake, IInv, LoopState
<1>2. PICK kx \in 0 .. Width - 1, ky \in 0 .. Height - 1, heading \in StartHeadings :
         LET snake == Placed(players[cursor], kx, ky, heading)
             placed == [players EXCEPT ![cursor] = snake]
             pos == PosOf(snake)
         IN  \/ pos \in pixels /\ GenerateElimination(cursor, placed)
             \/ pos \notin pixels /\ GeneratePixel(cursor, pos, placed)
  BY DEF PlaceSnake
<1>. DEFINE snake == Placed(players[cursor], kx, ky, heading)
<1>3. kx \in Nat /\ ky \in Nat /\ heading \in Degrees
  BY GeometryAssumption, ServerAssumption
<1>4. snake \in Player /\ snake.eliminated = players[cursor].eliminated
  BY ONLY <1>1, <1>3, PlacedPlayer
<1>. HIDE DEF snake
<1>5. CASE GenerateElimination(cursor, [players EXCEPT ![cursor] = snake])
  BY <1>1, <1>4, <1>5, SnakeReplaced, EliminationStep
<1>6. CASE /\ PosOf(snake) \notin pixels
           /\ GeneratePixel(cursor, PosOf(snake), [players EXCEPT ![cursor] = snake])
  BY <1>1, <1>6, PixelStep
<1>. QED  BY <1>2, <1>5, <1>6 DEF snake

LEMMA MoveStep ==
    ASSUME IInv, IInv', MoveSnake
    PROVE  Rules!Next \/ UNCHANGED Rules!vars
<1>. DEFINE snake == Moved(players[cursor])
<1>1. /\ phase = "moving" /\ inProgress /\ cursor \in {1, 2}
      /\ players[cursor] \in Player
  BY PlayersDomain DEF MoveSnake, IInv, LoopState
<1>2. snake \in Player /\ snake.eliminated = players[cursor].eliminated
  BY <1>1, PlayerUpdates
<1>3. \/ UNCHANGED <<events, inProgress, pixels>>
      \/ GenerateElimination(cursor, [players EXCEPT ![cursor] = snake])
      \/ /\ PosOf(snake) \notin pixels
         /\ GeneratePixel(cursor, PosOf(snake), [players EXCEPT ![cursor] = snake])
  BY DEF MoveSnake, Crashes
<1>. HIDE DEF snake
<1>4. CASE UNCHANGED <<events, inProgress, pixels>>
  BY <1>4, StutterStep
<1>5. CASE GenerateElimination(cursor, [players EXCEPT ![cursor] = snake])
  BY <1>1, <1>2, <1>5, SnakeReplaced, EliminationStep
<1>6. CASE /\ PosOf(snake) \notin pixels
           /\ GeneratePixel(cursor, PosOf(snake), [players EXCEPT ![cursor] = snake])
  BY <1>1, <1>6, PixelStep
<1>. QED  BY <1>3, <1>4, <1>5, <1>6

LEMMA InitRules == Init => Rules!Init
BY DEF Init, Rules!Init, Living

LEMMA NextRules == IInv /\ IInv' /\ [Next]_vars => [Rules!Next]_(Rules!vars)
<1>. SUFFICES ASSUME IInv, IInv', [Next]_vars
              PROVE  Rules!Next \/ UNCHANGED Rules!vars
  OBVIOUS
<1>1. CASE UNCHANGED <<events, pixels, inProgress>>
  BY <1>1, StutterStep
<1>2. CASE StartGame
  BY <1>2, StartStep
<1>3. CASE PlaceSnake
  BY <1>3, PlaceStep
<1>4. CASE MoveSnake
  BY <1>4, MoveStep
<1>5. CASE UNCHANGED vars
  BY <1>1, <1>5 DEF vars, game
<1>6. CASE Receive
  BY <1>1, <1>6 DEF Receive, Steer, PressArrow, KeepAlive, game
<1>7. CASE SelectClient \/ TooFewPlayers
  BY <1>1, <1>7 DEF SelectClient, TooFewPlayers, game
<1>8. CASE BeginRound \/ EndRound
  BY <1>1, <1>8 DEF BeginRound, EndRound, game
<1>9. CASE TakeSnapshot \/ TimePasses
  BY <1>1, <1>9 DEF TakeSnapshot, TimePasses, game
<1>. QED
  BY <1>2, <1>3, <1>4, <1>5, <1>6, <1>7, <1>8, <1>9 DEF Next, TryStartGame, Round

(* The log a client reads follows the rules of the game: it only grows, a  *)
(* pixel is claimed once and by a living snake, and GAME_OVER comes with   *)
(* the elimination that leaves one survivor and ends the log.              *)
THEOREM ServerPlaysByTheRules == Spec => PlaysByTheRules
<1>1. Init => Rules!Init
  BY InitRules
<1>2. IInv /\ IInv' /\ [Next]_vars => [Rules!Next]_(Rules!vars)
  BY NextRules
<1>. QED  BY <1>1, <1>2, Invariance, PTL DEF Spec, PlaysByTheRules, Rules!Spec

=============================================================================
