-------------------------- MODULE GameServerProofs ---------------------------
(***************************************************************************)
(* The invariants of GameServer, proved for any number of clients, any     *)
(* names and sessions, any board, speed and timeout.                       *)
(*                                                                         *)
(* One lemma per action shows that it preserves IInv.                      *)
(***************************************************************************)
EXTENDS GameServer, SequenceTheorems, TLAPS

(***************************************************************************)
(* What the proofs need of the geometry, for a board of any size and any   *)
(* table of unit vectors.                                                  *)
(***************************************************************************)

(* A heading stays a number of degrees after any turn of any speed. *)
LEMMA TurnedType ==
    ASSUME NEW r \in Degrees, NEW t \in 0..255
    PROVE  Turned(r, t) \in Degrees
<1>1. t * TurningSpeed \in Int
  BY GeometryAssumption
<1>2. (t * TurningSpeed) % UintRange \in Int
  BY <1>1, GeometryAssumption
<1>. QED
  BY <1>2 DEF Turned, Degrees

(* A head that moves keeps integer coordinates. *)
LEMMA MovedType ==
    ASSUME NEW v \in Int, NEW r \in Degrees
    PROVE  MovedX(v, r) \in Int /\ MovedY(v, r) \in Int
<1>1. (-r) % 360 \in Degrees
  BY DEF Degrees
<1>2. Scale \in Int
  BY GeometryAssumption DEF Scale
<1>3. Cos[(-r) % 360] \in -Scale .. Scale /\ Sin[(-r) % 360] \in -Scale .. Scale
  BY <1>1, GeometryAssumption
<1>. QED
  BY <1>2, <1>3 DEF MovedX, MovedY

(* The pixel of any head has natural coordinates, so one that is_inside    *)
(* accepts is a pixel of the board.                                        *)
LEMMA MakePosType ==
    ASSUME NEW x \in Int, NEW y \in Int
    PROVE  /\ MakePos(x, y) \in Nat \X Nat
           /\ IsInside(MakePos(x, y)) => MakePos(x, y) \in Board
<1>1. Scale \in Nat \ {0}
  BY GeometryAssumption DEF Scale
<1>2. Truncated(x) \in Int /\ Truncated(y) \in Int
  BY <1>1 DEF Truncated
<1>3. Truncated(x) % UintRange \in Nat /\ Truncated(y) % UintRange \in Nat
  BY <1>2, GeometryAssumption
<1>. QED
  BY <1>3, GeometryAssumption DEF MakePos, IsInside, Board

(* A snake starts inside the pixel that was drawn for it. *)
LEMMA MiddlePixel ==
    ASSUME NEW k \in Nat
    PROVE  Middle(k) \in Nat /\ Truncated(Middle(k)) = k
<1>. DEFINE h == HalfPixel
<1>1. h \in Nat \ {0} /\ Scale = 2 * h /\ Scale \in Nat \ {0}
  BY GeometryAssumption DEF Scale
<1>2. Middle(k) \in Nat /\ Middle(k) = Scale * k + h
  BY <1>1 DEF Middle
<1>3. (Scale * k + h) \div Scale = k
  BY <1>1
<1>. QED
  BY <1>2, <1>3 DEF Truncated

-----------------------------------------------------------------------------
(***************************************************************************)
(* Facts about the operators of the model.                                 *)
(***************************************************************************)
LEMMA ClientUpdates ==
    ASSUME NEW c \in Client
    PROVE  /\ Released(c) \in Client
           /\ Released(c).state = "waiting" /\ Released(c).player = Nobody
           /\ Released(c).ready = FALSE /\ Released(c).name = c.name
           /\ ReadyToPlay(c) \in Client /\ ReadyToPlay(c).state = c.state
           /\ ReadyToPlay(c).player = c.player
           /\ \A i \in Nat : /\ PlayingAs(c, i) \in Client
                             /\ PlayingAs(c, i).state = "playing"
                             /\ PlayingAs(c, i).player = i
           /\ c.age <= Timeout => Older(c) \in Client
           /\ Older(c).state = c.state /\ Older(c).player = c.player
           /\ Older(c).ready = c.ready /\ Older(c).name = c.name
<1>1. Released(c) \in Client
  BY DEF Client, Released, Nobody
<1>2. /\ Released(c).state = "waiting" /\ Released(c).player = Nobody
      /\ Released(c).ready = FALSE /\ Released(c).name = c.name
  BY DEF Client, Released
<1>3. /\ ReadyToPlay(c) \in Client /\ ReadyToPlay(c).state = c.state
      /\ ReadyToPlay(c).player = c.player
  BY DEF Client, ReadyToPlay
<1>4. \A i \in Nat : /\ PlayingAs(c, i) \in Client
                    /\ PlayingAs(c, i).state = "playing"
                    /\ PlayingAs(c, i).player = i
  BY DEF Client, PlayingAs
<1>5. c.age <= Timeout => Older(c) \in Client
  BY ServerAssumption DEF Client, Older
<1>6. /\ Older(c).state = c.state /\ Older(c).player = c.player
      /\ Older(c).ready = c.ready /\ Older(c).name = c.name
  BY DEF Client, Older
<1>. QED  BY <1>1, <1>2, <1>3, <1>4, <1>5, <1>6

LEMMA PlayingClient ==
    ASSUME NEW c \in Client, NEW i \in {1, 2}
    PROVE  /\ PlayingAs(c, i) \in Client
           /\ PlayingAs(c, i).state = "playing" /\ PlayingAs(c, i).player = i
<1>1. i \in Nat
  OBVIOUS
<1>. QED  BY <1>1 DEF Client, PlayingAs

LEMMA PlayerUpdates ==
    ASSUME NEW p \in Player
    PROVE  /\ Eliminated(p) \in Player /\ Eliminated(p).eliminated = TRUE
           /\ \A byte \in 0..255 : /\ Steered(p, byte) \in Player
                                   /\ Steered(p, byte).eliminated = p.eliminated
           /\ Moved(p) \in Player /\ Moved(p).eliminated = p.eliminated
           /\ Disconnected(p) \in Player /\ Disconnected(p).eliminated = p.eliminated
<1>1. Eliminated(p) \in Player /\ Eliminated(p).eliminated = TRUE
  BY DEF Player, Eliminated
<1>2. \A byte \in 0..255 : /\ Steered(p, byte) \in Player
                          /\ Steered(p, byte).eliminated = p.eliminated
  BY DEF Player, Steered
<1>3. Moved(p) \in Player /\ Moved(p).eliminated = p.eliminated
  <2>. DEFINE r == Turned(p.rotation, p.turn)
  <2>1. r \in Degrees /\ MovedX(p.x, r) \in Int /\ MovedY(p.y, r) \in Int
    BY TurnedType, MovedType DEF Player
  <2>. HIDE DEF r
  <2>2. [p EXCEPT !.rotation = r, !.x = MovedX(p.x, r), !.y = MovedY(p.y, r)] \in Player
    BY <2>1 DEF Player
  <2>3. [p EXCEPT !.rotation = r, !.x = MovedX(p.x, r),
                  !.y = MovedY(p.y, r)].eliminated = p.eliminated
    BY DEF Player
  <2>. QED  BY <2>2, <2>3 DEF Moved, r
<1>4. Disconnected(p) \in Player /\ Disconnected(p).eliminated = p.eliminated
  BY ServerAssumption DEF Player, Disconnected, Nobody
<1>. QED  BY <1>1, <1>2, <1>3, <1>4

LEMMA PlacedPlayer ==
    ASSUME NEW p \in Player, NEW kx \in Nat, NEW ky \in Nat, NEW h \in Degrees
    PROVE  /\ Placed(p, kx, ky, h) \in Player
           /\ Placed(p, kx, ky, h).eliminated = p.eliminated
           /\ PosOf(Placed(p, kx, ky, h)) = MakePos(Middle(kx), Middle(ky))
<1>1. Middle(kx) \in Int /\ Middle(ky) \in Int
  BY MiddlePixel
<1>. QED  BY <1>1 DEF Player, Placed, PosOf

LEMMA FunctionIsSequence ==
    ASSUME NEW S, NEW n \in Nat, NEW f \in [1..n -> S]
    PROVE  f \in Seq(S) /\ Len(f) = n
<1>1. f = [i \in 1..n |-> f[i]] /\ \A i \in 1..n : f[i] \in S
  OBVIOUS
<1>. QED  BY <1>1

LEMMA PlayersReplace ==
    ASSUME NEW ps \in Seq(Player), NEW i \in DOMAIN ps, NEW q \in Player
    PROVE  /\ [ps EXCEPT ![i] = q] \in Seq(Player)
           /\ DOMAIN [ps EXCEPT ![i] = q] = DOMAIN ps
           /\ Len([ps EXCEPT ![i] = q]) = Len(ps)
           /\ \A j \in DOMAIN ps : [ps EXCEPT ![i] = q][j] = IF j = i THEN q ELSE ps[j]
<1>1. i \in 1 .. Len(ps) /\ DOMAIN ps = 1 .. Len(ps)
  BY LenProperties
<1>. DEFINE e == [ps EXCEPT ![i] = q]
<1>2. e \in Seq(Player) /\ Len(e) = Len(ps)
  BY <1>1, ExceptSeq
<1>3. DOMAIN e = DOMAIN ps
  OBVIOUS
<1>4. \A j \in DOMAIN ps : e[j] = IF j = i THEN q ELSE ps[j]
  OBVIOUS
<1>. QED  BY <1>2, <1>3, <1>4

LEMMA PlayersDomain ==
    ASSUME IInv
    PROVE  /\ players \in [DOMAIN players -> Player]
           /\ inProgress => DOMAIN players = {1, 2} /\ Len(players) = 2
           /\ ~inProgress => DOMAIN players = {}
<1>. USE DEF IInv, TypeOK, TwoSnakes
<1>1. DOMAIN players = 1 .. Len(players) /\ players \in [1 .. Len(players) -> Player]
  OBVIOUS
<1>2. CASE inProgress
  BY <1>1, <1>2
<1>3. CASE ~inProgress
  BY <1>1, <1>3
<1>. QED  BY <1>1, <1>2, <1>3

LEMMA RecordedType ==
    ASSUME IInv, NEW s \in Sockets, NEW m \in Message
    PROVE  /\ Recorded(s, m) \in Client
           /\ Recorded(s, m).player # Nobody =>
                 Known(s) /\ Recorded(s, m).player = clients[s].player
           /\ With(s, Recorded(s, m)) \in [DOMAIN clients \cup {s} -> Client]
<1>1. Known(s) => clients[s] \in Client
  BY DEF IInv, TypeOK, Known
<1>2. m.session \in Sessions /\ m.name \in Names /\ m.turn \in 0..255
  BY ServerAssumption DEF Message
<1>3. Timeout \in Nat
  BY ServerAssumption
<1>4. Recorded(s, m) \in Client
  BY <1>1, <1>2, <1>3 DEF Recorded, Client, Nobody, Reconnects
<1>5. DOMAIN clients \subseteq Sockets /\ clients \in [DOMAIN clients -> Client]
  BY DEF IInv, TypeOK
<1>6. With(s, Recorded(s, m)) \in [DOMAIN clients \cup {s} -> Client]
  BY <1>4, <1>5 DEF With
<1>. QED  BY <1>4, <1>6 DEF Recorded, Nobody

(* A message never makes a client play, never gives it a pointer it did    *)
(* not have, and never makes it ready.                                     *)
LEMMA RecordedKeeps ==
    ASSUME IInv, NEW s \in Sockets, NEW m \in Message
    PROVE  /\ IsActive(Recorded(s, m)) <=> Recorded(s, m).player # Nobody
           /\ IsActive(Recorded(s, m)) => Known(s) /\ IsActive(clients[s])
           /\ WantsToStart(Recorded(s, m)) => Known(s) /\ WantsToStart(clients[s])
<1>1. Known(s) => (IsActive(clients[s]) <=> clients[s].player # Nobody)
  BY DEF IInv, PlayerPointersValid, Known
<1>2. m.name # NoName
  BY ServerAssumption DEF Message
<1>. QED
  BY <1>1, <1>2 DEF Recorded, IsActive, WantsToStart, Reconnects, Nobody

-----------------------------------------------------------------------------
LEMMA InitInv == Init => IInv
<1>. SUFFICES ASSUME Init PROVE IInv
  OBVIOUS
<1>1. DOMAIN clients = {} /\ DOMAIN players = {} /\ Len(players) = 0
  BY DEF Init
<1>2. TypeOK
  <2>1. clients \in [DOMAIN clients -> Client] /\ DOMAIN clients \subseteq Sockets
    BY <1>1 DEF Init
  <2>2. 1 % PruneEvery \in 0 .. PruneEvery - 1
    BY ServerAssumption
  <2>3. players \in Seq(Player) /\ events \in Seq(Event) /\ readyClients \in Seq(Sockets)
    BY DEF Init
  <2>. QED  BY <2>1, <2>2, <2>3 DEF Init, TypeOK
<1>3. PlayerPointersValid /\ TwoSnakes
  BY <1>1 DEF Init, PlayerPointersValid, TwoSnakes
<1>4. LoopState /\ ReadyState /\ SelectionState
  BY <1>1 DEF Init, LoopState, ReadyState, SelectionState
<1>. QED  BY <1>2, <1>3, <1>4 DEF IInv

(***************************************************************************)
(* The receiving thread.                                                   *)
(***************************************************************************)
LEMMA KeepAliveInv ==
    ASSUME IInv, NEW s \in Sockets, NEW m \in Message, KeepAlive(s, m)
    PROVE  IInv'
<1>. DEFINE c == Recorded(s, m)
<1>1. /\ clients' = With(s, c) /\ phase = "unlocked" /\ c.player = Nobody
      /\ UNCHANGED <<players, game, tickCount, phase, cursor, selection>>
  BY DEF KeepAlive
<1>2. /\ DOMAIN clients' = DOMAIN clients \cup {s} /\ clients'[s] = c
      /\ \A k \in DOMAIN clients \ {s} : clients'[k] = clients[k]
  BY <1>1 DEF With
<1>3. TypeOK'
  <2>1. clients' \in [DOMAIN clients' -> Client] /\ DOMAIN clients' \subseteq Sockets
    BY <1>1, <1>2, RecordedType DEF IInv, TypeOK
  <2>. QED  BY <1>1, <2>1 DEF IInv, TypeOK, game, selection
<1>4. PlayerPointersValid'
  BY <1>1, <1>2, RecordedKeeps DEF IInv, PlayerPointersValid, game, Nobody, IsActive
<1>5. TwoSnakes' /\ LoopState' /\ SelectionState'
  BY <1>1 DEF IInv, TwoSnakes, LoopState, SelectionState, game, selection, PlayersAtStart
<1>6. ReadyState'
  BY <1>1, <1>2, RecordedKeeps DEF IInv, ReadyState, game, Known
<1>. QED  BY <1>3, <1>4, <1>5, <1>6 DEF IInv

LEMMA SteerInv ==
    ASSUME IInv, NEW s \in Sockets, NEW m \in Message, Steer(s, m)
    PROVE  IInv'
<1>. DEFINE c == Recorded(s, m)
<1>1. /\ clients' = With(s, c) /\ phase = "unlocked" /\ c.player # Nobody
      /\ players' = [players EXCEPT ![c.player] = Steered(players[c.player], m.turn)]
      /\ UNCHANGED <<game, tickCount, phase, cursor, selection>>
  BY DEF Steer
<1>2. /\ DOMAIN clients' = DOMAIN clients \cup {s} /\ clients'[s] = c
      /\ \A k \in DOMAIN clients \ {s} : clients'[k] = clients[k]
  BY <1>1 DEF With
<1>3. players' \in Seq(Player) /\ DOMAIN players' = DOMAIN players /\ Len(players') = Len(players)
  <2>1. m.turn \in 0..255
    BY ServerAssumption DEF Message
  <2>2. c.player \in DOMAIN players /\ players[c.player] \in Player
    BY <1>1, RecordedKeeps, RecordedType, PlayersDomain
       DEF IInv, PlayerPointersValid, Nobody, Known
  <2>3. Steered(players[c.player], m.turn) \in Player
    BY <2>1, <2>2, PlayerUpdates
  <2>. QED  BY <1>1, <2>2, <2>3, PlayersReplace DEF IInv, TypeOK
<1>4. \A i \in DOMAIN players' : players'[i].eliminated = players[i].eliminated
  <2>1. m.turn \in 0..255
    BY ServerAssumption DEF Message
  <2>2. c.player \in DOMAIN players /\ players[c.player] \in Player
    BY <1>1, RecordedKeeps, RecordedType, PlayersDomain
       DEF IInv, PlayerPointersValid, Nobody, Known
  <2>3. /\ Steered(players[c.player], m.turn) \in Player
        /\ Steered(players[c.player], m.turn).eliminated = players[c.player].eliminated
    BY <2>1, <2>2, PlayerUpdates
  <2>. QED  BY <1>1, <1>3, <2>2, <2>3, PlayersReplace DEF IInv, TypeOK
<1>5. TypeOK'
  <2>1. clients' \in [DOMAIN clients' -> Client] /\ DOMAIN clients' \subseteq Sockets
    BY <1>1, <1>2, RecordedType DEF IInv, TypeOK
  <2>. QED  BY <1>1, <1>3, <2>1 DEF IInv, TypeOK, game, selection
<1>6. PlayerPointersValid'
  <2>1. /\ s \in DOMAIN clients /\ IsActive(clients[s]) /\ IsActive(c)
        /\ c.player = clients[s].player
    BY <1>1, RecordedKeeps, RecordedType DEF Known
  <2>2. DOMAIN clients' = DOMAIN clients /\ UNCHANGED inProgress
    BY <1>1, <1>2, <2>1 DEF game
  <2>3. \A k \in DOMAIN clients :
           /\ clients'[k].player = clients[k].player
           /\ IsActive(clients'[k]) <=> IsActive(clients[k])
    BY <1>2, <2>1
  <2>. QED  BY <1>3, <2>2, <2>3 DEF IInv, PlayerPointersValid
<1>7. TwoSnakes'
  BY <1>1, <1>3, PlayersDomain DEF IInv, TwoSnakes, game, TypeOK
<1>8. LoopState' /\ SelectionState'
  BY <1>1, <1>3, <1>4 DEF IInv, LoopState, SelectionState, game, selection, PlayersAtStart
<1>9. ReadyState'
  BY <1>1, <1>2, RecordedKeeps DEF IInv, ReadyState, game, Known
<1>. QED  BY <1>5, <1>6, <1>7, <1>8, <1>9 DEF IInv

(* The client that presses an arrow is the only one ready besides, at      *)
(* most, the one that was ready before.                                    *)
LEMMA PressArrowInv ==
    ASSUME IInv, NEW s \in Sockets, NEW m \in Message, PressArrow(s, m)
    PROVE  IInv'
<1>. DEFINE c == ReadyToPlay(Recorded(s, m))
<1>1. /\ clients' = With(s, c) /\ phase = "unlocked" /\ Recorded(s, m).player = Nobody
      /\ ~inProgress /\ phase' = "selecting" /\ cursor' = 1
      /\ readyClients' = << >> /\ namesLen' = 0
      /\ UNCHANGED <<players, game, tickCount>>
  BY DEF PressArrow, Presses
<1>2. /\ DOMAIN clients' = DOMAIN clients \cup {s} /\ clients'[s] = c
      /\ \A k \in DOMAIN clients \ {s} : clients'[k] = clients[k]
  BY <1>1 DEF With
<1>3. c \in Client /\ c.player = Nobody /\ ~IsActive(c)
  <2>1. Recorded(s, m) \in Client /\ ~IsActive(Recorded(s, m))
    BY <1>1, RecordedType, RecordedKeeps
  <2>. QED  BY <1>1, <2>1, ClientUpdates DEF IsActive
<1>4. TypeOK'
  <2>1. clients' \in [DOMAIN clients' -> Client] /\ DOMAIN clients' \subseteq Sockets
    BY <1>1, <1>2, <1>3 DEF With, IInv, TypeOK
  <2>2. readyClients' \in Seq(Sockets)
    BY <1>1
  <2>. QED  BY <1>1, <2>1, <2>2 DEF IInv, TypeOK, game
<1>5. PlayerPointersValid'
  BY <1>1, <1>2, <1>3 DEF IInv, PlayerPointersValid, game, Nobody, IsActive
<1>6. TwoSnakes' /\ LoopState'
  BY <1>1, ServerAssumption DEF IInv, TwoSnakes, LoopState, game
<1>7. SelectionState'
  <2>1. DOMAIN readyClients' = {} /\ Len(readyClients') = 0
    BY <1>1
  <2>2. \A k \in Sockets : ~(k < cursor')
    BY <1>1 DEF Sockets
  <2>. QED  BY <1>1, <2>1, <2>2 DEF SelectionState
<1>8. ReadyState'
  <2>1. PICK b \in Sockets : \A k \in DOMAIN clients : WantsToStart(clients[k]) => k = b
    BY <1>1 DEF IInv, ReadyState, TypeOK
  <2>2. \A k \in DOMAIN clients' : WantsToStart(clients'[k]) => k \in {s, b}
    BY <1>2, <2>1
  <2>. QED  BY <1>1, <2>2 DEF ReadyState
<1>. QED  BY <1>4, <1>5, <1>6, <1>7, <1>8 DEF IInv

-----------------------------------------------------------------------------
(***************************************************************************)
(* Steps that change neither the game nor who is ready.                    *)
(***************************************************************************)
(* What the invariant says of the clients depends on their pointers,       *)
(* states and flags alone, and survives when clients are dropped.          *)
LEMMA ClientsRefreshed ==
    ASSUME IInv, DOMAIN clients' \subseteq DOMAIN clients,
           phase # "selecting", phase' # "selecting", inProgress' <=> inProgress,
           DOMAIN players' = DOMAIN players,
           \A s \in DOMAIN clients' : /\ clients'[s].player = clients[s].player
                                      /\ clients'[s].state = clients[s].state
                                      /\ clients'[s].ready = clients[s].ready
    PROVE  PlayerPointersValid' /\ ReadyState' /\ SelectionState'
<1>1. \A s \in DOMAIN clients' : /\ IsActive(clients'[s]) <=> IsActive(clients[s])
                                 /\ WantsToStart(clients'[s]) <=> WantsToStart(clients[s])
  BY DEF IsActive, WantsToStart
<1>2. PlayerPointersValid'
  BY <1>1 DEF IInv, PlayerPointersValid
<1>3. ReadyState'
  BY <1>1 DEF IInv, ReadyState
<1>4. SelectionState'
  BY DEF SelectionState
<1>. QED  BY <1>2, <1>3, <1>4

LEMMA TimePassesInv ==
    ASSUME IInv, TimePasses
    PROVE  IInv'
<1>1. /\ phase = "unlocked" /\ DOMAIN clients' = DOMAIN clients
      /\ UNCHANGED <<players, game, tickCount, phase, cursor, selection>>
  BY DEF TimePasses
<1>2. ASSUME NEW s \in DOMAIN clients
      PROVE  /\ clients'[s] \in Client
             /\ clients'[s].player = clients[s].player
             /\ clients'[s].state = clients[s].state
             /\ clients'[s].ready = clients[s].ready
  <2>1. clients[s] \in Client
    BY DEF IInv, TypeOK
  <2>2. clients'[s] = IF IsInactive(clients[s]) THEN clients[s] ELSE Older(clients[s])
    BY DEF TimePasses
  <2>3. ~IsInactive(clients[s]) => clients[s].age <= Timeout
    BY <2>1, ServerAssumption DEF IsInactive, Client
  <2>4. CASE IsInactive(clients[s])
    BY <2>1, <2>2, <2>4
  <2>5. CASE ~IsInactive(clients[s])
    <3>. DEFINE c == clients[s]
    <3>1. clients'[s] = Older(c)
      BY <2>2, <2>5
    <3>2. c.age <= Timeout
      BY <2>3, <2>5
    <3>3. /\ Older(c) \in Client /\ Older(c).state = c.state
          /\ Older(c).player = c.player /\ Older(c).ready = c.ready
      BY <2>1, <3>2, ClientUpdates
    <3>. QED  BY <3>1, <3>3
  <2>. QED  BY <2>4, <2>5
<1>3. clients' \in [DOMAIN clients' -> Client] /\ DOMAIN clients' \subseteq Sockets
  <2>1. clients' = [s \in DOMAIN clients |-> clients'[s]]
    BY DEF TimePasses
  <2>. QED  BY <1>1, <1>2, <2>1 DEF IInv, TypeOK
<1>4. TypeOK'
  BY <1>1, <1>3 DEF IInv, TypeOK, game, selection
<1>5. TwoSnakes' /\ LoopState'
  BY <1>1 DEF IInv, TwoSnakes, LoopState, game, PlayersAtStart
<1>6. PlayerPointersValid' /\ ReadyState' /\ SelectionState'
  BY <1>1, <1>2, ClientsRefreshed DEF game
<1>. QED  BY <1>4, <1>5, <1>6 DEF IInv

LEMMA TakeSnapshotInv ==
    ASSUME IInv, TakeSnapshot
    PROVE  IInv'
<1>. USE DEF TakeSnapshot
<1>1. TypeOK'
  <2>1. sendNewEvents' \in BOOLEAN
    OBVIOUS
  <2>2. UNCHANGED <<clients, players, events, gameId, inProgress, pixels,
                    tickCount, phase, cursor, selection>>
    OBVIOUS
  <2>. QED  BY ONLY IInv, <2>1, <2>2 DEF IInv, TypeOK, selection
<1>2. PlayerPointersValid' /\ TwoSnakes'
  BY DEF IInv, PlayerPointersValid, TwoSnakes
<1>3. LoopState' /\ ReadyState' /\ SelectionState'
  BY DEF IInv, LoopState, ReadyState, SelectionState, PlayersAtStart, Known
<1>. QED  BY <1>1, <1>2, <1>3 DEF IInv

LEMMA BeginRoundInv ==
    ASSUME IInv, BeginRound
    PROVE  IInv'
<1>. USE DEF BeginRound, game, selection
<1>1. TypeOK'
  BY DEF IInv, TypeOK
<1>2. PlayerPointersValid' /\ TwoSnakes'
  BY DEF IInv, PlayerPointersValid, TwoSnakes
<1>3. LoopState' /\ ReadyState' /\ SelectionState'
  BY DEF IInv, LoopState, ReadyState, SelectionState, PlayersAtStart
<1>. QED  BY <1>1, <1>2, <1>3 DEF IInv

LEMMA EndRoundInv ==
    ASSUME IInv, EndRound
    PROVE  IInv'
<1>1. /\ phase \in {"pruning", "unlocked"} /\ phase' = "unlocked" /\ cursor' = 0
      /\ tickCount' = (tickCount + 1) % PruneEvery
      /\ UNCHANGED <<game, selection>>
  BY DEF EndRound, Unlock
<1>2. /\ DOMAIN clients' \subseteq DOMAIN clients
      /\ \A s \in DOMAIN clients' : clients'[s] = clients[s]
      /\ clients' \in [DOMAIN clients' -> Client]
  BY DEF EndRound, PruneInactiveClients, IInv, TypeOK
<1>3. /\ DOMAIN players' = DOMAIN players /\ players' \in Seq(Player)
      /\ Len(players') = Len(players)
      /\ \A i \in DOMAIN players : players'[i].eliminated = players[i].eliminated
  <2>1. CASE UNCHANGED players
    BY <2>1 DEF IInv, TypeOK
  <2>2. CASE PruneInactiveClients
    <3>1. Len(players) \in Nat /\ DOMAIN players = 1 .. Len(players)
      BY LenProperties DEF IInv, TypeOK
    <3>2. ASSUME NEW i \in DOMAIN players
          PROVE  /\ players'[i] \in Player
                 /\ players'[i].eliminated = players[i].eliminated
      <4>1. players[i] \in Player
        BY PlayersDomain
      <4>2. players'[i] = players[i] \/ players'[i] = Disconnected(players[i])
        BY <2>2 DEF PruneInactiveClients
      <4>. QED  BY <4>1, <4>2, PlayerUpdates
    <3>3. players' = [i \in 1 .. Len(players) |-> players'[i]]
      BY <2>2, <3>1 DEF PruneInactiveClients
    <3>. QED  BY <3>1, <3>2, <3>3
  <2>. QED  BY <2>1, <2>2 DEF EndRound
<1>4. TypeOK'
  <2>1. tickCount' \in 0 .. PruneEvery - 1
    BY <1>1, ServerAssumption DEF IInv, TypeOK
  <2>2. DOMAIN clients' \subseteq Sockets
    BY <1>2 DEF IInv, TypeOK
  <2>. QED  BY <1>1, <1>2, <1>3, <2>1, <2>2 DEF IInv, TypeOK, game, selection
<1>5. TwoSnakes' /\ LoopState'
  <2>1. ~inProgress => Len(players') = 0
    BY <1>3 DEF IInv, TwoSnakes
  <2>. QED  BY <1>1, <1>3, <2>1 DEF IInv, TwoSnakes, LoopState, game
<1>6. PlayerPointersValid' /\ ReadyState' /\ SelectionState'
  BY <1>1, <1>2, <1>3, ClientsRefreshed DEF game
<1>. QED  BY <1>4, <1>5, <1>6 DEF IInv

-----------------------------------------------------------------------------
(***************************************************************************)
(* try_start_game.                                                         *)
(***************************************************************************)
(* At most two clients are ready, so a client the loop has not reached is  *)
(* joined by at most one it has collected, and the two names fit.          *)
LEMMA NamesAlwaysFit ==
    ASSUME IInv, phase = "selecting", cursor \in Sockets,
           Known(cursor), WantsToStart(clients[cursor])
    PROVE  Fits(cursor) /\ Len(readyClients) < 2
<1>1. readyClients \in Seq(Sockets) /\ Len(readyClients) \in Nat
      /\ DOMAIN readyClients = 1 .. Len(readyClients)
  BY LenProperties DEF IInv, TypeOK
<1>2. PICK a \in Sockets, b \in Sockets :
         \A s \in DOMAIN clients : WantsToStart(clients[s]) => s \in {a, b}
  BY DEF IInv, ReadyState
<1>3. \A i \in DOMAIN readyClients :
         /\ readyClients[i] \in Sockets /\ readyClients[i] < cursor
         /\ readyClients[i] \in DOMAIN clients
         /\ WantsToStart(clients[readyClients[i]])
  BY <1>1 DEF IInv, SelectionState, Known
<1>4. Len(readyClients) < 2
  <2>. SUFFICES ASSUME Len(readyClients) >= 2 PROVE FALSE
    BY <1>1
  <2>1. 1 \in DOMAIN readyClients /\ 2 \in DOMAIN readyClients
    BY <1>1
  <2>2. readyClients[1] # readyClients[2]
    BY <2>1 DEF IInv, SelectionState
  <2>3. readyClients[1] # cursor /\ readyClients[2] # cursor
    BY <1>3, <2>1 DEF Sockets
  <2>. QED  BY <1>2, <1>3, <2>1, <2>2, <2>3 DEF Known
<1>5. clients[cursor].name \in Names
  BY DEF IInv, TypeOK, Client, Known
<1>6. CASE Len(readyClients) = 0
  <2>1. namesLen = 0
    BY <1>6 DEF IInv, SelectionState
  <2>2. PICK n \in Names : n = clients[cursor].name
    BY <1>5
  <2>3. NameLen[n] \in Nat /\ NameLen[n] + NameLen[n] <= MaxNamesLen /\ MaxNamesLen \in Nat
    BY ServerAssumption
  <2>. QED  BY <1>4, <2>1, <2>2, <2>3 DEF Fits
<1>7. CASE Len(readyClients) = 1
  <2>1. namesLen = NameLen[clients[readyClients[1]].name]
    BY <1>7 DEF IInv, SelectionState
  <2>2. clients[readyClients[1]].name \in Names
    BY <1>1, <1>3, <1>7 DEF IInv, TypeOK, Client
  <2>. QED  BY <1>4, <1>5, <2>1, <2>2, ServerAssumption DEF Fits
<1>. QED  BY <1>1, <1>4, <1>6, <1>7

LEMMA SelectClientInv ==
    ASSUME IInv, SelectClient
    PROVE  IInv'
<1>1. /\ phase = "selecting" /\ cursor \in Sockets /\ cursor' = cursor + 1
      /\ UNCHANGED <<clients, players, game, tickCount, phase>>
  BY DEF SelectClient
<1>2. readyClients \in Seq(Sockets) /\ Len(readyClients) \in Nat
      /\ DOMAIN readyClients = 1 .. Len(readyClients)
  BY LenProperties DEF IInv, TypeOK
<1>3. Chosen(cursor) <=> Known(cursor) /\ WantsToStart(clients[cursor])
  BY <1>1, NamesAlwaysFit DEF Chosen
<1>4. PlayerPointersValid' /\ TwoSnakes' /\ LoopState' /\ ReadyState'
  <2>1. cursor' \in 1 .. NumSockets + 1
    BY <1>1, ServerAssumption DEF Sockets
  <2>. QED
    BY <1>1, <2>1 DEF IInv, PlayerPointersValid, TwoSnakes, LoopState, ReadyState,
                      game, PlayersAtStart
<1>5. CASE Chosen(cursor)
  <2>1. /\ readyClients' = Append(readyClients, cursor)
        /\ namesLen' = namesLen + NameLen[clients[cursor].name]
    BY <1>5 DEF SelectClient
  <2>2. /\ readyClients' \in Seq(Sockets) /\ Len(readyClients') = Len(readyClients) + 1
        /\ DOMAIN readyClients' = 1 .. Len(readyClients) + 1
        /\ \A i \in 1 .. Len(readyClients) : readyClients'[i] = readyClients[i]
        /\ readyClients'[Len(readyClients) + 1] = cursor
    BY <1>1, <1>2, <2>1, AppendProperties, LenProperties
  <2>3. NameLen[clients[cursor].name] \in Nat
    BY <1>3, <1>5, ServerAssumption DEF IInv, TypeOK, Client, Known
  <2>4. TypeOK'
    BY <1>1, <2>1, <2>2, <2>3 DEF IInv, TypeOK, game, Sockets
  <2>5. SelectionState'
    <3>1. \A s \in Sockets :
             (\E i \in DOMAIN readyClients' : readyClients'[i] = s)
                 <=> (s < cursor' /\ s \in DOMAIN clients /\ WantsToStart(clients[s]))
      <4>1. \A s \in Sockets :
               (\E i \in DOMAIN readyClients' : readyClients'[i] = s)
                   <=> (\E i \in DOMAIN readyClients : readyClients[i] = s) \/ s = cursor
        BY <1>2, <2>2
      <4>. QED
        BY <1>1, <1>3, <1>5, <4>1 DEF IInv, SelectionState, Known, Sockets
    <3>2. \A i, j \in DOMAIN readyClients' : readyClients'[i] = readyClients'[j] => i = j
      <4>1. \A i \in DOMAIN readyClients : readyClients[i] # cursor
        BY <1>1, <1>2 DEF IInv, SelectionState, Sockets
      <4>. QED  BY <1>1, <1>2, <2>2, <4>1 DEF IInv, SelectionState
    <3>3. Len(readyClients') = 1 => namesLen' = NameLen[clients[readyClients'[1]].name]
      BY <1>1, <1>2, <2>1, <2>2, <2>3 DEF IInv, SelectionState
    <3>. QED  BY <1>1, <1>2, <2>2, <3>1, <3>2, <3>3 DEF SelectionState, Known
  <2>. QED  BY <1>4, <2>4, <2>5 DEF IInv
<1>6. CASE ~Chosen(cursor)
  <2>1. UNCHANGED <<readyClients, namesLen>>
    BY <1>6 DEF SelectClient, selection
  <2>2. TypeOK'
    BY <1>1, <2>1 DEF IInv, TypeOK, game, Sockets
  <2>3. SelectionState'
    BY <1>1, <1>3, <1>6, <2>1 DEF IInv, SelectionState, Known, Sockets
  <2>. QED  BY <1>4, <2>2, <2>3 DEF IInv
<1>. QED  BY <1>5, <1>6

LEMMA TooFewPlayersInv ==
    ASSUME IInv, TooFewPlayers
    PROVE  IInv'
<1>1. /\ phase = "selecting" /\ cursor > NumSockets /\ Len(readyClients) < 2
      /\ phase' = "unlocked" /\ cursor' = 0 /\ readyClients' = << >> /\ namesLen' = 0
      /\ UNCHANGED <<clients, players, game, tickCount>>
  BY DEF TooFewPlayers, Unlock, DropSelection, MinPlayers
<1>2. TypeOK'
  BY <1>1 DEF IInv, TypeOK, game
<1>3. PlayerPointersValid' /\ TwoSnakes' /\ LoopState' /\ SelectionState'
  BY <1>1 DEF IInv, PlayerPointersValid, TwoSnakes, LoopState, SelectionState, game
<1>4. ReadyState'
  <2>1. Len(readyClients) \in Nat /\ DOMAIN readyClients = 1 .. Len(readyClients)
    BY LenProperties DEF IInv, TypeOK
  <2>2. \A s \in DOMAIN clients : s \in Sockets /\ s < cursor
    BY <1>1, ServerAssumption DEF IInv, TypeOK, Sockets
  <2>3. \A s \in DOMAIN clients : WantsToStart(clients[s]) =>
           \E i \in DOMAIN readyClients : readyClients[i] = s
    BY <1>1, <2>2 DEF IInv, SelectionState, Known
  <2>4. \A i, j \in DOMAIN readyClients : i = j
    BY <1>1, <2>1
  <2>5. \A s, t \in DOMAIN clients :
           WantsToStart(clients[s]) /\ WantsToStart(clients[t]) => s = t
    BY <2>3, <2>4
  <2>6. ~inProgress
    BY <1>1 DEF IInv, LoopState
  <2>. QED  BY <1>1, <2>5, <2>6 DEF ReadyState, game
<1>. QED  BY <1>2, <1>3, <1>4 DEF IInv


(* The two ready clients become the players: every one of them gets a slot *)
(* of its own, and nobody is left waiting.                                 *)
LEMMA StartGameInv ==
    ASSUME IInv, StartGame
    PROVE  IInv'
<1>1. /\ phase = "selecting" /\ cursor > NumSockets /\ Len(readyClients) >= 2
      /\ gameId' \in GameIds /\ inProgress' = TRUE /\ sendNewEvents' = TRUE
      /\ phase' = "placing" /\ cursor' = 1 /\ readyClients' = << >> /\ namesLen' = 0
      /\ UNCHANGED <<pixels, tickCount>>
  BY DEF StartGame, DropSelection, MinPlayers
<1>2. /\ readyClients \in Seq(Sockets) /\ Len(readyClients) \in Nat
      /\ DOMAIN readyClients = 1 .. Len(readyClients)
  BY LenProperties DEF IInv, TypeOK
<1>3. \A s \in DOMAIN clients : s \in Sockets /\ s < cursor /\ clients[s] \in Client
  BY <1>1, ServerAssumption DEF IInv, TypeOK, Sockets
<1>4. \A i \in DOMAIN readyClients :
         /\ readyClients[i] \in DOMAIN clients
         /\ WantsToStart(clients[readyClients[i]])
  BY <1>1, <1>2 DEF IInv, SelectionState, Known
<1>5. DOMAIN readyClients = {1, 2}
  <2>1. PICK a \in Sockets, b \in Sockets :
           \A s \in DOMAIN clients : WantsToStart(clients[s]) => s \in {a, b}
    BY <1>1 DEF IInv, ReadyState
  <2>2. \A i, j \in DOMAIN readyClients : readyClients[i] = readyClients[j] => i = j
    BY <1>1 DEF IInv, SelectionState
  <2>3. \A i \in DOMAIN readyClients : readyClients[i] \in {a, b}
    BY <1>4, <2>1
  <2>4. Len(readyClients) < 3
    <3>. SUFFICES ASSUME Len(readyClients) >= 3 PROVE FALSE
      BY <1>2
    <3>1. 1 \in DOMAIN readyClients /\ 2 \in DOMAIN readyClients /\ 3 \in DOMAIN readyClients
      BY <1>2
    <3>. QED  BY <2>2, <2>3, <3>1
  <2>. QED  BY <1>1, <1>2, <2>4
<1>6. /\ players' \in Seq(Player) /\ Len(players') = 2 /\ DOMAIN players' = {1, 2}
      /\ \A i \in DOMAIN players' : ~players'[i].eliminated
  <2>1. PICK order \in NameOrders :
           players' = [i \in DOMAIN readyClients |-> NewPlayer(readyClients[order[i]])]
    BY DEF StartGame
  <2>2. order \in [{1, 2} -> {1, 2}]
    BY <1>5 DEF NameOrders
  <2>3. \A i \in {1, 2} : /\ NewPlayer(readyClients[order[i]]) \in Player
                          /\ ~NewPlayer(readyClients[order[i]]).eliminated
    <3>. SUFFICES ASSUME NEW k \in {1, 2}
                  PROVE  NewPlayer(readyClients[k]) \in Player
                         /\ ~NewPlayer(readyClients[k]).eliminated
      BY <2>2
    <3>1. /\ clients[readyClients[k]].name \in Names
          /\ readyClients[k] \in 0 .. NumSockets
      BY <1>3, <1>4, <1>5, ServerAssumption DEF Client, Sockets
    <3>. QED  BY <3>1 DEF NewPlayer, Player, Degrees
  <2>4. players' \in [1..2 -> Player]
    BY <1>5, <2>1, <2>3
  <2>5. players' \in Seq(Player)
    BY <2>4, FunctionIsSequence
  <2>. QED  BY <1>5, <2>1, <2>3, <2>4, <2>5
<1>7. events' \in Seq(Event) /\ events' # << >> /\ PlayersAtStart' = 2
  <2>. DEFINE roster == [i \in DOMAIN players' |-> players'[i].name]
  <2>1. events' = <<NewGame(roster)>>
    BY DEF StartGame
  <2>2. \A i \in 1..2 : players'[i].name \in Names
    <3>1. \A i \in 1..2 : players'[i] \in Player
      BY <1>6, LenProperties
    <3>. QED  BY <3>1 DEF Player
  <2>3. roster = [i \in 1..2 |-> players'[i].name]
    BY <1>6
  <2>4. roster \in Seq(Names) /\ Len(roster) = 2
    BY <2>2, <2>3
  <2>. HIDE DEF roster
  <2>5. NewGame(roster) \in Event /\ NewGame(roster).roster = roster
    BY <2>4 DEF NewGame, Event
  <2>. QED  BY <2>1, <2>4, <2>5 DEF PlayersAtStart
<1>8. /\ DOMAIN clients' = DOMAIN clients
      /\ \A s \in DOMAIN clients :
            \/ /\ \E i \in {1, 2} : readyClients[i] = s
               /\ SlotOf(s) \in {1, 2} /\ readyClients[SlotOf(s)] = s
               /\ clients'[s] = PlayingAs(clients[s], SlotOf(s))
            \/ ~WantsToStart(clients[s]) /\ clients'[s] = clients[s]
  <2>1. \A s \in DOMAIN clients : WantsToStart(clients[s]) =>
           \E i \in {1, 2} : readyClients[i] = s
    BY <1>1, <1>3, <1>5 DEF IInv, SelectionState, Known
  <2>. QED  BY <1>5, <2>1 DEF StartGame, SlotOf
<1>9. clients' \in [DOMAIN clients' -> Client] /\ DOMAIN clients' \subseteq Sockets
  <2>1. ASSUME NEW s \in DOMAIN clients PROVE clients'[s] \in Client
    <3>1. CASE SlotOf(s) \in {1, 2} /\ clients'[s] = PlayingAs(clients[s], SlotOf(s))
      BY <1>3, <3>1, PlayingClient
    <3>2. CASE clients'[s] = clients[s]
      BY <1>3, <3>2
    <3>. QED  BY <1>8, <3>1, <3>2
  <2>2. clients' = [s \in DOMAIN clients |-> clients'[s]]
    BY DEF StartGame
  <2>. QED  BY <1>3, <1>8, <2>1, <2>2
<1>10. TypeOK'
  <2>1. readyClients' \in Seq(Sockets)
    BY <1>1
  <2>2. gameId' \in Nat
    BY <1>1, ServerAssumption
  <2>. QED  BY <1>1, <1>6, <1>7, <1>9, <2>1, <2>2 DEF IInv, TypeOK
<1>11. \A s \in DOMAIN clients : ~IsActive(clients[s]) /\ clients[s].player = Nobody
  BY <1>1 DEF IInv, PlayerPointersValid, LoopState
<1>12. PlayerPointersValid'
  <2>1. ASSUME NEW s \in DOMAIN clients
        PROVE  \/ /\ IsActive(clients'[s]) /\ SlotOf(s) \in {1, 2}
                  /\ clients'[s].player = SlotOf(s) /\ readyClients[SlotOf(s)] = s
               \/ ~IsActive(clients'[s]) /\ clients'[s].player = Nobody
    <3>1. CASE /\ SlotOf(s) \in {1, 2} /\ readyClients[SlotOf(s)] = s
               /\ clients'[s] = PlayingAs(clients[s], SlotOf(s))
      BY <1>3, <3>1, PlayingClient DEF IsActive
    <3>2. CASE clients'[s] = clients[s]
      BY <1>11, <3>2
    <3>. QED  BY <1>8, <3>1, <3>2
  <2>. QED  BY <1>1, <1>6, <1>8, <2>1 DEF PlayerPointersValid, Nobody, IsActive
<1>13. TwoSnakes' /\ LoopState'
  BY <1>1, <1>6, <1>7 DEF IInv, TwoSnakes, LoopState
<1>14. ReadyState' /\ SelectionState'
  <2>1. \A s \in DOMAIN clients' : ~WantsToStart(clients'[s])
    <3>1. ASSUME NEW s \in DOMAIN clients, SlotOf(s) \in {1, 2},
                 clients'[s] = PlayingAs(clients[s], SlotOf(s))
          PROVE  ~WantsToStart(clients'[s])
      BY <1>3, <3>1, PlayingClient DEF WantsToStart
    <3>2. ASSUME NEW s \in DOMAIN clients, ~WantsToStart(clients[s]), clients'[s] = clients[s]
          PROVE  ~WantsToStart(clients'[s])
      BY <3>2
    <3>. QED  BY <1>8, <3>1, <3>2
  <2>. QED  BY <1>1, <2>1 DEF ReadyState, SelectionState
<1>. QED  BY <1>10, <1>12, <1>13, <1>14 DEF IInv


-----------------------------------------------------------------------------
(***************************************************************************)
(* The events of a running game.                                           *)
(***************************************************************************)
(* Both snakes are alive, so the first elimination leaves one survivor:    *)
(* it generates GAME_OVER and with it the cleanup.                         *)
LEMMA FirstEliminationEndsGame ==
    ASSUME NEW ps \in Seq(Player), DOMAIN ps = {1, 2},
           \A j \in {1, 2} : ~ps[j].eliminated,
           NEW i \in {1, 2}, GenerateElimination(i, ps)
    PROVE  /\ CleanupGame
           /\ events' = events \o <<PlayerEliminated(i), GameOver>>
<1>. DEFINE after == [ps EXCEPT ![i] = Eliminated(ps[i])]
<1>1. ps[1] \in Player /\ ps[2] \in Player
  BY LenProperties
<1>2. Eliminated(ps[i]).eliminated = TRUE
  BY <1>1, PlayerUpdates
<1>3. \E j \in {1, 2} : /\ j # i /\ ~after[j].eliminated
                        /\ after[i].eliminated /\ {1, 2} = {i, j}
  BY <1>2
<1>4. DOMAIN after = {1, 2}
  OBVIOUS
<1>. HIDE DEF after
<1>5. \E j \in DOMAIN after : Living(after) = {j}
  BY <1>3, <1>4 DEF Living
<1>. QED  BY <1>5 DEF GenerateElimination, LeavesOneSurvivor, after

(* cleanup_game leaves no client with a pointer and none ready. *)
LEMMA CleanupLeavesNobody ==
    ASSUME IInv, inProgress, phase # "selecting", CleanupGame
    PROVE  /\ clients' \in [DOMAIN clients' -> Client] /\ DOMAIN clients' \subseteq Sockets
           /\ players' = << >> /\ pixels' = {} /\ inProgress' = FALSE
           /\ \A s \in DOMAIN clients' : /\ ~IsActive(clients'[s])
                                         /\ clients'[s].player = Nobody
                                         /\ ~WantsToStart(clients'[s])
<1>1. /\ players' = << >> /\ pixels' = {} /\ inProgress' = FALSE
      /\ DOMAIN clients' = DOMAIN clients
      /\ \A s \in DOMAIN clients :
            clients'[s] = IF IsActive(clients[s]) THEN Released(clients[s]) ELSE clients[s]
      /\ clients' = [s \in DOMAIN clients |-> clients'[s]]
  BY DEF CleanupGame, ReleasedClients
<1>2. ASSUME NEW s \in DOMAIN clients
      PROVE  /\ clients'[s] \in Client /\ ~IsActive(clients'[s])
             /\ clients'[s].player = Nobody /\ ~WantsToStart(clients'[s])
  <2>1. clients[s] \in Client
    BY DEF IInv, TypeOK
  <2>2. CASE IsActive(clients[s])
    <3>1. clients'[s] = Released(clients[s])
      BY <1>1, <2>2
    <3>2. /\ Released(clients[s]) \in Client /\ Released(clients[s]).player = Nobody
          /\ Released(clients[s]).state = "waiting" /\ ~Released(clients[s]).ready
      BY <2>1, ClientUpdates
    <3>. QED  BY <3>1, <3>2 DEF IsActive, WantsToStart
  <2>3. CASE ~IsActive(clients[s])
    <3>1. clients'[s] = clients[s]
      BY <1>1, <2>3
    <3>2. clients[s].player = Nobody
      BY <2>3 DEF IInv, PlayerPointersValid
    <3>3. ~WantsToStart(clients[s])
      BY DEF IInv, ReadyState
    <3>. QED  BY <2>1, <2>3, <3>1, <3>2, <3>3
  <2>. QED  BY <2>2, <2>3
<1>3. clients' \in [DOMAIN clients' -> Client]
  BY <1>1, <1>2
<1>4. DOMAIN clients' \subseteq Sockets
  BY <1>1 DEF IInv, TypeOK
<1>. QED  BY <1>1, <1>2, <1>3, <1>4

(* The invariant after the step that ended the game. *)
LEMMA GameOverInv ==
    ASSUME IInv, inProgress, phase # "selecting", CleanupGame,
           NEW i \in {1, 2},
           events' = events \o <<PlayerEliminated(i), GameOver>>,
           phase' \in {"unlocked", "pruning"}, cursor' = 0,
           UNCHANGED <<gameId, sendNewEvents, tickCount, selection>>
    PROVE  IInv'
<1>1. PlayerEliminated(i) \in Event /\ GameOver \in Event
  BY DEF PlayerEliminated, GameOver, Event
<1>2. events' \in Seq(Event)
  BY <1>1 DEF IInv, TypeOK
<1>3. players' \in Seq(Player) /\ Len(players') = 0 /\ DOMAIN players' = {}
  BY CleanupLeavesNobody
<1>4. TypeOK'
  BY <1>2, <1>3, CleanupLeavesNobody DEF IInv, TypeOK, selection
<1>5. PlayerPointersValid' /\ ReadyState' /\ SelectionState'
  BY CleanupLeavesNobody DEF PlayerPointersValid, ReadyState, SelectionState,
                             IsActive, WantsToStart
<1>6. TwoSnakes' /\ LoopState'
  BY <1>3, CleanupLeavesNobody DEF TwoSnakes, LoopState
<1>. QED  BY <1>4, <1>5, <1>6 DEF IInv

(* The invariant after a step that goes on with the game: the players move *)
(* and the log may grow, and neither changes who plays.                    *)
LEMMA GameGoesOnInv ==
    ASSUME IInv, inProgress, phase \in {"placing", "moving"},
           UNCHANGED <<clients, inProgress>>,
           players' \in Seq(Player), DOMAIN players' = {1, 2}, Len(players') = 2,
           \A j \in {1, 2} : ~players'[j].eliminated,
           events' = events \/ \E e \in Event : events' = Append(events, e),
           pixels' \subseteq Board,
           \/ phase' = phase /\ cursor = 1 /\ cursor' = 2
           \/ phase' \in {"unlocked", "pruning"} /\ cursor' = 0,
           UNCHANGED <<gameId, sendNewEvents, tickCount, selection>>
    PROVE  IInv'
<1>1. events \in Seq(Event)
  BY DEF IInv, TypeOK
<1>2. /\ events' \in Seq(Event)
      /\ phase = "placing" => events' # << >> /\ PlayersAtStart' = PlayersAtStart
  <2>1. CASE events' = events
    BY <1>1, <2>1 DEF PlayersAtStart, IInv, LoopState
  <2>2. CASE \E e \in Event : events' = Append(events, e)
    <3>1. PICK e \in Event : events' = Append(events, e)
      BY <2>2
    <3>2. /\ events' \in Seq(Event) /\ events' # << >>
          /\ \A k \in 1 .. Len(events) : events'[k] = events[k]
      BY <1>1, <3>1, AppendProperties
    <3>3. events # << >> => 1 \in 1 .. Len(events)
      BY <1>1
    <3>. QED  BY <3>2, <3>3 DEF PlayersAtStart, IInv, LoopState
  <2>. QED  BY <2>1, <2>2
<1>3. TypeOK'
  BY <1>2 DEF IInv, TypeOK, selection
<1>4. DOMAIN players = {1, 2}
  BY PlayersDomain
<1>5. PlayerPointersValid' /\ ReadyState' /\ SelectionState'
  BY <1>4, ClientsRefreshed
<1>6. TwoSnakes' /\ LoopState'
  BY <1>2 DEF IInv, TwoSnakes, LoopState
<1>. QED  BY <1>3, <1>5, <1>6 DEF IInv


-----------------------------------------------------------------------------
LEMMA PlaceSnakeInv ==
    ASSUME IInv, PlaceSnake
    PROVE  IInv'
<1>1. /\ phase = "placing" /\ inProgress /\ cursor \in {1, 2} /\ PlayersAtStart = 2
      /\ cursor = 1 => pixels = {}
      /\ \/ cursor = 2 /\ phase' = "unlocked" /\ cursor' = 0
         \/ cursor = 1 /\ cursor' = 2 /\ phase' = phase
      /\ UNCHANGED <<gameId, sendNewEvents, tickCount, selection>>
  BY DEF PlaceSnake, IInv, LoopState, Unlock
<1>2. PICK kx \in 0 .. Width - 1, ky \in 0 .. Height - 1, heading \in StartHeadings :
         LET snake == Placed(players[cursor], kx, ky, heading)
             placed == [players EXCEPT ![cursor] = snake]
             pos == PosOf(snake)
         IN  \/ pos \in pixels /\ GenerateElimination(cursor, placed)
             \/ pos \notin pixels /\ GeneratePixel(cursor, pos, placed)
  BY DEF PlaceSnake
<1>. DEFINE snake == Placed(players[cursor], kx, ky, heading)
            placed == [players EXCEPT ![cursor] = snake]
            pos == PosOf(snake)
<1>3. /\ players \in Seq(Player) /\ DOMAIN players = {1, 2} /\ Len(players) = 2
      /\ \A j \in {1, 2} : players[j] \in Player /\ ~players[j].eliminated
  BY <1>1, PlayersDomain DEF IInv, TypeOK, LoopState
<1>4. kx \in Nat /\ ky \in Nat /\ heading \in Degrees
  BY GeometryAssumption, ServerAssumption
<1>5. /\ snake \in Player /\ snake.eliminated = players[cursor].eliminated
      /\ pos = MakePos(Middle(kx), Middle(ky))
  <2>1. players[cursor] \in Player
    BY <1>1, <1>3
  <2>. QED  BY ONLY <1>4, <2>1, PlacedPlayer
<1>6. pos \in Board
  <2>1. kx % UintRange = kx /\ ky % UintRange = ky
    BY GeometryAssumption
  <2>2. Truncated(Middle(kx)) = kx /\ Truncated(Middle(ky)) = ky
    BY <1>4, MiddlePixel
  <2>. QED  BY <1>5, <2>1, <2>2 DEF MakePos, Board
<1>. HIDE DEF snake, pos
<1>7. /\ placed \in Seq(Player) /\ DOMAIN placed = {1, 2} /\ Len(placed) = 2
      /\ \A j \in {1, 2} : ~placed[j].eliminated
  BY <1>1, <1>3, <1>5, PlayersReplace
<1>. HIDE DEF placed
<1>8. CASE pos \in pixels /\ GenerateElimination(cursor, placed)
  <2>1. cursor = 2 /\ phase' = "unlocked" /\ cursor' = 0
    BY <1>1, <1>8
  <2>2. /\ CleanupGame
        /\ events' = events \o <<PlayerEliminated(cursor), GameOver>>
    BY <1>1, <1>7, <1>8, FirstEliminationEndsGame
  <2>. QED  BY <1>1, <2>1, <2>2, GameOverInv
<1>9. CASE pos \notin pixels /\ GeneratePixel(cursor, pos, placed)
  <2>1. Pixel(cursor, pos) \in Event
    BY <1>1, <1>6 DEF Pixel, Event
  <2>2. /\ events' = Append(events, Pixel(cursor, pos)) /\ players' = placed
        /\ pixels' = pixels \cup {pos} /\ UNCHANGED <<clients, inProgress>>
    BY <1>9 DEF GeneratePixel
  <2>3. pixels' \subseteq Board
    BY <1>6, <2>2 DEF IInv, TypeOK
  <2>4. \E e \in Event : events' = Append(events, e)
    BY <2>1, <2>2
  <2>. QED  BY <1>1, <1>7, <2>2, <2>3, <2>4, GameGoesOnInv
<1>. QED  BY <1>2, <1>8, <1>9 DEF snake, placed, pos

LEMMA MoveSnakeInv ==
    ASSUME IInv, MoveSnake
    PROVE  IInv'
<1>. DEFINE snake == Moved(players[cursor])
            moved == [players EXCEPT ![cursor] = snake]
            old == PosOf(players[cursor])
            new == PosOf(snake)
<1>1. /\ phase = "moving" /\ inProgress /\ cursor \in {1, 2}
      /\ UNCHANGED <<gameId, sendNewEvents, tickCount, selection>>
  BY DEF MoveSnake, IInv, LoopState
<1>2. /\ players \in Seq(Player) /\ DOMAIN players = {1, 2} /\ Len(players) = 2
      /\ \A j \in {1, 2} : players[j] \in Player /\ ~players[j].eliminated
  BY <1>1, PlayersDomain DEF IInv, TypeOK, LoopState
<1>3. \/ (cursor = 2 \/ ~inProgress') /\ phase' = "pruning" /\ cursor' = 0
      \/ cursor = 1 /\ inProgress' /\ cursor' = 2 /\ phase' = phase
  BY <1>1, <1>2 DEF MoveSnake
<1>4. snake \in Player /\ snake.eliminated = players[cursor].eliminated
  BY <1>1, <1>2, PlayerUpdates
<1>5. IsInside(new) => new \in Board
  BY <1>4, MakePosType DEF PosOf, Player
<1>6. \/ old = new /\ players' = moved /\ UNCHANGED <<clients, events, inProgress, pixels>>
      \/ GenerateElimination(cursor, moved)
      \/ IsInside(new) /\ GeneratePixel(cursor, new, moved)
  BY DEF MoveSnake, SamePixel, Crashes
<1>. HIDE DEF snake, old, new
<1>7. /\ moved \in Seq(Player) /\ DOMAIN moved = {1, 2} /\ Len(moved) = 2
      /\ \A j \in {1, 2} : ~moved[j].eliminated
  BY <1>1, <1>2, <1>4, PlayersReplace
<1>. HIDE DEF moved
<1>8. CASE players' = moved /\ UNCHANGED <<clients, events, inProgress, pixels>>
  <2>1. pixels' \subseteq Board
    BY <1>8 DEF IInv, TypeOK
  <2>2. \/ phase' = phase /\ cursor = 1 /\ cursor' = 2
        \/ phase' \in {"unlocked", "pruning"} /\ cursor' = 0
    BY <1>3
  <2>. QED  BY <1>1, <1>7, <1>8, <2>1, <2>2, GameGoesOnInv
<1>9. CASE GenerateElimination(cursor, moved)
  <2>1. /\ CleanupGame
        /\ events' = events \o <<PlayerEliminated(cursor), GameOver>>
    BY <1>1, <1>7, <1>9, FirstEliminationEndsGame
  <2>2. phase' = "pruning" /\ cursor' = 0
    BY <1>3, <2>1 DEF CleanupGame
  <2>. QED  BY <1>1, <2>1, <2>2, GameOverInv
<1>10. CASE IsInside(new) /\ GeneratePixel(cursor, new, moved)
  <2>1. /\ events' = Append(events, Pixel(cursor, new)) /\ players' = moved
        /\ pixels' = pixels \cup {new} /\ UNCHANGED <<clients, inProgress>>
    BY <1>10 DEF GeneratePixel
  <2>2. Pixel(cursor, new) \in Event
    BY <1>1, <1>5, <1>10 DEF Pixel, Event
  <2>3. pixels' \subseteq Board
    BY <1>5, <1>10, <2>1 DEF IInv, TypeOK
  <2>4. \E e \in Event : events' = Append(events, e)
    BY <2>1, <2>2
  <2>5. \/ phase' = phase /\ cursor = 1 /\ cursor' = 2
        \/ phase' \in {"unlocked", "pruning"} /\ cursor' = 0
    BY <1>3
  <2>. QED  BY <1>1, <1>7, <2>1, <2>3, <2>4, <2>5, GameGoesOnInv
<1>. QED  BY <1>6, <1>8, <1>9, <1>10

-----------------------------------------------------------------------------
(***************************************************************************)
(* IInv is an invariant of the server, and with it what it is made of.     *)
(***************************************************************************)
LEMMA NextInv == IInv /\ [Next]_vars => IInv'
<1>. SUFFICES ASSUME IInv, [Next]_vars PROVE IInv'
  OBVIOUS
<1>1. CASE UNCHANGED vars
  <2>1. UNCHANGED <<clients, players, events, gameId, inProgress, pixels,
                    sendNewEvents, tickCount, phase, cursor, readyClients, namesLen>>
    BY <1>1 DEF vars, game, selection
  <2>2. TypeOK' /\ TwoSnakes'
    BY <2>1 DEF IInv, TypeOK, TwoSnakes
  <2>3. PlayerPointersValid' /\ LoopState'
    BY <2>1 DEF IInv, PlayerPointersValid, LoopState, PlayersAtStart
  <2>4. ReadyState' /\ SelectionState'
    BY <2>1 DEF IInv, ReadyState, SelectionState, Known
  <2>. QED  BY <2>2, <2>3, <2>4 DEF IInv
<1>2. CASE Receive
  BY <1>2, SteerInv, PressArrowInv, KeepAliveInv DEF Receive
<1>3. CASE TryStartGame
  BY <1>3, SelectClientInv, TooFewPlayersInv, StartGameInv, PlaceSnakeInv DEF TryStartGame
<1>4. CASE Round
  BY <1>4, BeginRoundInv, MoveSnakeInv, EndRoundInv DEF Round
<1>5. CASE TakeSnapshot
  BY <1>5, TakeSnapshotInv
<1>6. CASE TimePasses
  BY <1>6, TimePassesInv
<1>. QED  BY <1>1, <1>2, <1>3, <1>4, <1>5, <1>6 DEF Next

THEOREM Invariance == Spec => []IInv
<1>1. Init => IInv
  BY InitInv
<1>2. IInv /\ [Next]_vars => IInv'
  BY NextInv
<1>. QED  BY <1>1, <1>2, PTL DEF Spec

(* Every variable keeps its type, for every value of the constants. *)
THEOREM TypeCorrect == Spec => []TypeOK
<1>1. IInv => TypeOK
  BY DEF IInv
<1>. QED  BY <1>1, Invariance, PTL

(* The pointers of the clients are never dangling. *)
THEOREM PointersStayValid == Spec => []PlayerPointersValid
<1>1. IInv => PlayerPointersValid
  BY DEF IInv
<1>. QED  BY <1>1, Invariance, PTL

(* Every game has exactly two snakes, however many clients are connected. *)
THEOREM GamesHaveTwoSnakes == Spec => []TwoSnakes
<1>1. IInv => TwoSnakes
  BY DEF IInv
<1>. QED  BY <1>1, Invariance, PTL

(* Two clients that have both pressed an arrow are never left without a    *)
(* game when the lock is free.                                             *)
THEOREM ReadyPairIsServed == Spec => []NoReadyPairLeftWaiting
<1>1. IInv => NoReadyPairLeftWaiting
  BY DEF IInv, ReadyState, NoReadyPairLeftWaiting
<1>. QED  BY <1>1, Invariance, PTL

-----------------------------------------------------------------------------
(***************************************************************************)
(* What a step of the server may never do to its clients.  Few steps       *)
(* change them at all, and ClientsChange says how.                         *)
(***************************************************************************)

LEMMA ClientsChange ==
    ASSUME IInv, [Next]_vars
    PROVE  \/ UNCHANGED clients
           \/ /\ UNCHANGED inProgress /\ Len(players') = Len(players)
              /\ \E t \in Sockets, m \in Message : \E c :
                    /\ ~Ignored(t, m) /\ clients' = With(t, c)
                    /\ c.session = m.session
                    /\ IsActive(c) => Known(t) /\ IsActive(clients[t])
           \/ ~inProgress' /\ clients' = ReleasedClients
           \/ StartGame
           \/ PruneInactiveClients
           \/ TimePasses
<1>1. CASE UNCHANGED vars
  BY <1>1 DEF vars
<1>2. ASSUME NEW t \in Sockets, NEW m \in Message,
             Steer(t, m) \/ PressArrow(t, m) \/ KeepAlive(t, m)
      PROVE  /\ UNCHANGED inProgress /\ Len(players') = Len(players)
             /\ \E c : /\ ~Ignored(t, m) /\ clients' = With(t, c)
                       /\ c.session = m.session
                       /\ IsActive(c) => Known(t) /\ IsActive(clients[t])
  <2>. DEFINE r == Recorded(t, m)
  <2>1. /\ r \in Client /\ r.session = m.session
        /\ IsActive(r) => Known(t) /\ IsActive(clients[t])
    BY RecordedType, RecordedKeeps DEF Recorded
  <2>2. /\ ReadyToPlay(r).session = r.session
        /\ IsActive(ReadyToPlay(r)) <=> IsActive(r)
    <3>. HIDE DEF r
    <3>. QED  BY <2>1 DEF ReadyToPlay, IsActive, Client
  <2>3. /\ UNCHANGED inProgress /\ ~Ignored(t, m)
        /\ clients' = With(t, r) \/ clients' = With(t, ReadyToPlay(r))
    BY <1>2 DEF Steer, PressArrow, KeepAlive, game
  <2>4. Len(players') = Len(players)
    <3>. HIDE DEF r
    <3>1. CASE UNCHANGED players
      BY <3>1
    <3>2. CASE Steer(t, m)
      <4>1. players \in Seq(Player)
        BY DEF IInv, TypeOK
      <4>2. \A i, q : Len([players EXCEPT ![i] = q]) = Len(players)
        BY <4>1
      <4>. QED  BY <3>2, <4>2 DEF Steer
    <3>. QED  BY <1>2, <3>1, <3>2 DEF PressArrow, KeepAlive
  <2>. HIDE DEF r
  <2>. QED  BY <2>1, <2>2, <2>3, <2>4
<1>3. ASSUME NEW i, NEW ps, GenerateElimination(i, ps)
      PROVE  UNCHANGED clients \/ (~inProgress' /\ clients' = ReleasedClients)
  BY <1>3 DEF GenerateElimination, CleanupGame
<1>4. CASE Receive
  BY <1>2, <1>4 DEF Receive
<1>5. CASE TryStartGame
  <2>1. CASE PlaceSnake
    <3>1. PICK pos, ps : GenerateElimination(cursor, ps) \/ GeneratePixel(cursor, pos, ps)
      BY <2>1 DEF PlaceSnake
    <3>. QED  BY <1>3, <3>1 DEF GeneratePixel
  <2>. QED  BY <1>5, <2>1 DEF TryStartGame, SelectClient, TooFewPlayers
<1>6. CASE Round
  <2>1. CASE MoveSnake
    <3>1. \/ UNCHANGED clients
          \/ \E ps : GenerateElimination(cursor, ps)
          \/ \E pos, ps : GeneratePixel(cursor, pos, ps)
      BY <2>1 DEF MoveSnake
    <3>. QED  BY <1>3, <3>1 DEF GeneratePixel
  <2>. QED  BY <1>6, <2>1 DEF Round, BeginRound, EndRound
<1>7. CASE TakeSnapshot \/ TimePasses
  BY <1>7 DEF TakeSnapshot
<1>. QED  BY <1>1, <1>4, <1>5, <1>6, <1>7 DEF Next

-----------------------------------------------------------------------------
LEMMA NobodyJoinsMidGame ==
    ASSUME IInv, [Next]_vars, inProgress, inProgress',
           NEW s \in DOMAIN clients', IsActive(clients'[s])
    PROVE  s \in DOMAIN clients /\ IsActive(clients[s])
<1>1. CASE UNCHANGED clients
  BY <1>1
<1>2. ASSUME NEW t \in Sockets, NEW c, clients' = With(t, c),
             IsActive(c) => Known(t) /\ IsActive(clients[t])
      PROVE  s \in DOMAIN clients /\ IsActive(clients[s])
  BY <1>2 DEF With, Known
<1>3. ~StartGame
  BY DEF StartGame, IInv, LoopState
<1>4. CASE PruneInactiveClients
  BY <1>4 DEF PruneInactiveClients
<1>5. CASE TimePasses
  <2>1. /\ s \in DOMAIN clients /\ clients[s] \in Client
        /\ clients'[s] = IF IsInactive(clients[s]) THEN clients[s] ELSE Older(clients[s])
    BY <1>5 DEF TimePasses, IInv, TypeOK
  <2>2. clients'[s].state = clients[s].state
    BY <2>1 DEF Older, Client
  <2>. QED  BY <2>1, <2>2 DEF IsActive
<1>. QED  BY <1>1, <1>2, <1>3, <1>4, <1>5, ClientsChange

(* Whoever connects, or reconnects with a newer session, while a game runs *)
(* waits for the next one.                                                 *)
THEOREM GamesAreJoinedAtTheirStart == Spec => NoMidGameJoin
<1>. DEFINE Join == inProgress /\ inProgress' =>
                \A s \in DOMAIN clients' :
                    IsActive(clients'[s]) => s \in DOMAIN clients /\ IsActive(clients[s])
<1>1. IInv /\ [Next]_vars => [Join]_vars
  BY NobodyJoinsMidGame
<1>. QED  BY <1>1, Invariance, PTL DEF Spec, NoMidGameJoin

-----------------------------------------------------------------------------
LEMMA SessionsAndSilence ==
    ASSUME IInv, [Next]_vars, NEW s \in DOMAIN clients
    PROVE  IF s \in DOMAIN clients'
           THEN clients'[s].session >= clients[s].session
           ELSE IsInactive(clients[s]) /\ Len(players') = Len(players)
<1>1. clients[s] \in Client /\ clients[s].session \in Nat
  BY ServerAssumption DEF IInv, TypeOK, Client
<1>2. CASE s \in DOMAIN clients' /\ clients'[s].session = clients[s].session
  BY <1>1, <1>2
<1>3. CASE UNCHANGED clients
  BY <1>2, <1>3
<1>4. ASSUME NEW t \in Sockets, NEW m \in Message, NEW c, ~Ignored(t, m),
             clients' = With(t, c), c.session = m.session
      PROVE  s \in DOMAIN clients' /\ clients'[s].session >= clients[s].session
  <2>1. s \in DOMAIN clients' /\ clients'[s] = IF s = t THEN c ELSE clients[s]
    BY <1>4 DEF With
  <2>2. m.session \in Nat
    BY ServerAssumption DEF Message
  <2>3. s = t => ~(m.session < clients[s].session)
    BY <1>4 DEF Ignored, Known
  <2>. QED  BY <1>1, <1>4, <2>1, <2>2, <2>3
<1>5. CASE clients' = ReleasedClients
  <2>1. s \in DOMAIN clients' /\ clients'[s] \in {clients[s], Released(clients[s])}
    BY <1>5 DEF ReleasedClients
  <2>2. Released(clients[s]).session = clients[s].session
    BY <1>1 DEF Released, Client
  <2>. QED  BY <1>2, <2>1, <2>2
<1>6. CASE StartGame
  <2>1. /\ s \in DOMAIN clients'
        /\ clients'[s] \in {clients[s], PlayingAs(clients[s], SlotOf(s))}
    BY <1>6 DEF StartGame
  <2>2. \A i : PlayingAs(clients[s], i).session = clients[s].session
    BY <1>1 DEF PlayingAs, Client
  <2>. QED  BY <1>2, <2>1, <2>2
<1>7. CASE PruneInactiveClients
  <2>1. /\ s \in DOMAIN clients' => clients'[s] = clients[s]
        /\ s \notin DOMAIN clients' => IsInactive(clients[s])
    BY <1>7 DEF PruneInactiveClients, Dropped
  <2>2. Len(players') = Len(players)
    <3>1. Len(players) \in Nat /\ DOMAIN players = 1 .. Len(players)
      BY LenProperties DEF IInv, TypeOK
    <3>2. DOMAIN players' = 1 .. Len(players)
      BY <1>7, <3>1 DEF PruneInactiveClients
    <3>3. players' = [i \in 1 .. Len(players) |-> players'[i]]
      BY <1>7, <3>1 DEF PruneInactiveClients
    <3>. QED  BY <3>1, <3>3
  <2>. QED  BY <1>2, <2>1, <2>2
<1>8. CASE TimePasses
  <2>1. s \in DOMAIN clients' /\ clients'[s] \in {clients[s], Older(clients[s])}
    BY <1>8 DEF TimePasses
  <2>2. Older(clients[s]).session = clients[s].session
    BY <1>1 DEF Older, Client
  <2>. QED  BY <1>2, <2>1, <2>2
<1>. QED  BY <1>3, <1>4, <1>5, <1>6, <1>7, <1>8, ClientsChange

(* Only a client that has been silent for longer than the timeout is       *)
(* dropped, its snake stays, and sessions never go back.                   *)
THEOREM OnlyTheSilentAreDropped == Spec => OnlySilentClientsDropped
<1>. DEFINE Keep == \A s \in DOMAIN clients :
                IF s \in DOMAIN clients'
                THEN clients'[s].session >= clients[s].session
                ELSE IsInactive(clients[s]) /\ Len(players') = Len(players)
<1>1. IInv /\ [Next]_vars => [Keep]_vars
  BY SessionsAndSilence
<1>. QED  BY <1>1, Invariance, PTL DEF Spec, OnlySilentClientsDropped

-----------------------------------------------------------------------------
(***************************************************************************)
(* Turning.  A byte from 128 up is a negative number kept unsigned, and it *)
(* turns the snake by 256 turning speeds too many: a number of full turns  *)
(* if the turning speed is a multiple of 45 degrees.                       *)
(***************************************************************************)

(* A number of full turns more leaves the heading. *)
LEMMA FullTurns ==
    ASSUME NEW a \in Int, NEW n \in Int
    PROVE  (a + 360 * n) % 360 = a % 360
<1>1. a % 360 \in 0..359 /\ a \div 360 \in Int /\ a = 360 * (a \div 360) + (a % 360)
  OBVIOUS
<1>2. a + 360 * n = 360 * (a \div 360 + n) + (a % 360)
  BY <1>1
<1>. QED  BY <1>1, <1>2

LEMMA TurnedAsAsked ==
    ASSUME TurningSpeed % 45 = 0, 255 * TurningSpeed < UintRange,
           NEW heading \in Degrees, NEW turn \in 0..255
    PROVE  Turned(heading, turn) = (heading + Signed(turn) * TurningSpeed) % 360
<1>. DEFINE x == turn * TurningSpeed
            n == 32 * (TurningSpeed \div 45)
<1>1. TurningSpeed \in Nat /\ UintRange \in Nat \ {0} /\ heading \in Int /\ turn \in Int
  BY GeometryAssumption DEF Degrees
<1>2. n \in Int /\ 256 * TurningSpeed = 360 * n
  <2>1. TurningSpeed \div 45 \in Int /\ TurningSpeed = 45 * (TurningSpeed \div 45)
    BY <1>1
  <2>. QED  BY <2>1
<1>3. x \in Nat /\ x < UintRange
  <2>1. x \in Nat /\ (255 - turn) * TurningSpeed \in Nat
    BY <1>1
  <2>2. (255 - turn) * TurningSpeed = 255 * TurningSpeed - x
    BY <1>1
  <2>. QED  BY <1>1, <2>1, <2>2
<1>4. Turned(heading, turn) = (heading + x) % 360
  <2>1. x % UintRange = x
    <3>. HIDE DEF x
    <3>. QED  BY <1>1, <1>3
  <2>. QED  BY <2>1 DEF Turned
<1>5. CASE turn < 128
  BY <1>4, <1>5 DEF Signed
<1>6. CASE ~(turn < 128)
  <2>1. Signed(turn) * TurningSpeed = (turn - 256) * TurningSpeed
    BY <1>6 DEF Signed
  <2>2. (turn - 256) * TurningSpeed = x - 256 * TurningSpeed
    BY <1>1
  <2>. HIDE DEF x, n
  <2>3. heading + x = (heading + Signed(turn) * TurningSpeed) + 360 * n
    BY <1>1, <1>2, <1>3, <2>1, <2>2
  <2>4. heading + Signed(turn) * TurningSpeed \in Int
    BY <1>1, <1>3, <2>1, <2>2
  <2>. QED  BY <1>2, <1>4, <2>3, <2>4, FullTurns
<1>. QED  BY <1>5, <1>6

LEMMA RoundsTurn ==
    ASSUME IInv, [Next]_vars, ~UNCHANGED vars, phase = "moving", inProgress',
           TurningSpeed % 45 = 0, 255 * TurningSpeed < UintRange
    PROVE  players'[cursor].rotation =
              (players[cursor].rotation + Signed(players[cursor].turn) * TurningSpeed) % 360
<1>. DEFINE p == players[cursor]
<1>1. MoveSnake
  BY DEF Next, Receive, Steer, PressArrow, KeepAlive, TryStartGame, SelectClient,
         TooFewPlayers, StartGame, PlaceSnake, Round, BeginRound, EndRound,
         TakeSnapshot, TimePasses
<1>2. cursor \in DOMAIN players /\ p \in Player /\ players \in Seq(Player)
  BY <1>1, PlayersDomain DEF IInv, TypeOK, LoopState
<1>3. players'[cursor] = Moved(p)
  <2>. DEFINE moved == [players EXCEPT ![cursor] = Moved(p)]
  <2>1. moved \in Seq(Player) /\ DOMAIN moved = {1, 2} /\ \A j \in {1, 2} : ~moved[j].eliminated
    <3>1. Moved(p) \in Player /\ Moved(p).eliminated = p.eliminated
      BY <1>2, PlayerUpdates
    <3>2. DOMAIN players = {1, 2} /\ Len(players) = 2 /\ \A j \in {1, 2} : ~players[j].eliminated
      BY <1>1, PlayersDomain DEF MoveSnake, IInv, LoopState
    <3>. QED  BY <1>2, <3>1, <3>2, PlayersReplace
  <2>2. ~GenerateElimination(cursor, moved)
    <3>1. cursor \in {1, 2}
      BY <1>1 DEF MoveSnake, IInv, LoopState
    <3>. HIDE DEF moved
    <3>. QED  BY <2>1, <3>1, FirstEliminationEndsGame DEF CleanupGame
  <2>3. players' = moved
    BY <1>1, <2>2 DEF MoveSnake, GeneratePixel
  <2>. QED  BY <1>2, <2>3
<1>4. Moved(p).rotation = Turned(p.rotation, p.turn)
  BY <1>2 DEF Moved, Player
<1>5. p.rotation \in Degrees /\ p.turn \in 0..255
  BY <1>2 DEF Player
<1>. QED  BY <1>3, <1>4, <1>5, TurnedAsAsked

(* A snake turns by the turning speed to the side its player asked for, if *)
(* the turning speed is a multiple of 45 degrees.                          *)
THEOREM SnakesTurnAsAsked ==
    ASSUME TurningSpeed % 45 = 0, 255 * TurningSpeed < UintRange
    PROVE  Spec => TurnsAsAsked
<1>. DEFINE Turns == phase = "moving" /\ inProgress' =>
                players'[cursor].rotation =
                   (players[cursor].rotation + Signed(players[cursor].turn) * TurningSpeed) % 360
<1>1. IInv /\ [Next]_vars => [Turns]_vars
  BY RoundsTurn
<1>. QED  BY <1>1, Invariance, PTL DEF Spec, TurnsAsAsked

=============================================================================
