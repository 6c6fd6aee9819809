----------------------------- MODULE GameServer ------------------------------
(***************************************************************************)
(* The game server of src/server.cc: the shared game_state and the three   *)
(* threads that change it under game_state.lock.                           *)
(*                                                                         *)
(*   - the receiving thread registers clients, steers snakes and starts    *)
(*     games (handle_client_message, try_start_game);                      *)
(*   - the update thread moves the snakes and drops silent clients         *)
(*     (do_game_tick, prune_inactive_clients);                             *)
(*   - the sending thread consumes send_new_events.                        *)
(*                                                                         *)
(* A critical section is one action, except that its loops over clients or *)
(* players take one step per element: phase and cursor say where the       *)
(* thread that holds the lock is.  No other thread acts meanwhile.         *)
(*                                                                         *)
(* Sockets are numbered in the order of game_state.clients, and names in   *)
(* alphabetical order.  A pointer to a player is its index in players (0   *)
(* for nullptr), a pointer to a client is its socket (0 for nullptr).      *)
(***************************************************************************)
EXTENDS SnakeMotion, Sequences, FiniteSets

CONSTANTS
    NumSockets,      \* addresses datagrams may come from
    MaxClients,      \* MAX_CLIENTS
    Names,           \* the names client_message::from accepts
    NameLen,         \* bytes of a name with its terminating zero
    MaxNamesLen,     \* MAX_PLAYER_NAMES_LEN
    Sessions,        \* session identifiers in use
    TurnBytes,       \* turn_direction bytes in use: 1 right, 255 left
    Timeout,         \* CLIENT_CONNECTION_TIMEOUT, in units of MIN_MESSAGE_DELAY
    PruneEvery,      \* PRUNE_EVERY_TICKS
    StartHeadings,   \* the values rand() % 360 may give a new snake
    GameIds          \* the values rand() may give a new game

Nobody == 0
NoName == 0
(* Fault: a game waits for a third player. *)
MinPlayers_Three == 3
MinPlayers == 2
Sockets == 1..NumSockets

(***************************************************************************)
(* client_message::from rejects the empty name, so NoName is not a name a  *)
(* message carries.  A name has at most 64 characters and the roster may   *)
(* take 476 bytes, so any two names fit.                                   *)
(***************************************************************************)
ASSUME ServerAssumption ==
    /\ NumSockets \in Nat /\ MaxClients \in Nat
    /\ Names \subseteq Nat \ {NoName}
    /\ MaxNamesLen \in Nat /\ NameLen \in [Names -> Nat]
    /\ \A m, n \in Names : NameLen[m] + NameLen[n] <= MaxNamesLen
    /\ Sessions \subseteq Nat /\ TurnBytes \subseteq 0..255
    /\ Timeout \in Nat \ {0} /\ PruneEvery \in Nat \ {0}
    /\ StartHeadings \subseteq Degrees /\ GameIds \subseteq Nat

VARIABLES
    clients,         \* game_state.clients: socket -> client_connection
    players,         \* game_state.players
    events,          \* game_state.events; event_no is the index minus one
    gameId,          \* game_state.game_id
    inProgress,      \* game_state.in_progress
    pixels,          \* game_state.map.pixels
    sendNewEvents,   \* game_state.send_new_events
    tickCount,       \* tick_count of the update thread
    phase,           \* what the holder of game_state.lock is doing
    cursor,          \* the element its loop has reached
    readyClients,    \* ready_clients of try_start_game
    namesLen         \* player_names_len of try_start_game

game == <<events, gameId, inProgress, pixels, sendNewEvents>>
selection == <<readyClients, namesLen>>
vars == <<clients, players, game, tickCount, phase, cursor, selection>>

(***************************************************************************)
(* The events of a game.                                                   *)
(***************************************************************************)
NewGame(roster) == [type |-> "NEW_GAME", roster |-> roster]
Pixel(i, pos) == [type |-> "PIXEL", player |-> i, pos |-> pos]
PlayerEliminated(i) == [type |-> "PLAYER_ELIMINATED", player |-> i]
GameOver == [type |-> "GAME_OVER"]

Message == [session : Sessions, name : Names, turn : TurnBytes]

Client == [name : Names, session : Sessions, age : 0 .. Timeout + 1,
           player : Nat, ready : BOOLEAN,
           state : {"playing", "waiting", "spectating"}]

Player == [name : Names, x : Int, y : Int, rotation : Degrees,
           turn : 0..255, eliminated : BOOLEAN, connection : 0..NumSockets]

Event == [type : {"NEW_GAME"}, roster : Seq(Names)]
            \cup [type : {"PIXEL"}, player : Nat, pos : Board]
            \cup [type : {"PLAYER_ELIMINATED"}, player : Nat]
            \cup [type : {"GAME_OVER"}]

Living(ps) == {i \in DOMAIN ps : ~ps[i].eliminated}
IsActive(c) == c.state = "playing"
WantsToStart(c) == c.state = "waiting" /\ c.ready
IsInactive(c) == c.age > Timeout

(***************************************************************************)
(* The assignments to single clients and players.                          *)
(***************************************************************************)

(* Fault: a client stays ready after its game. *)
Released_KeepsReady(c) == [c EXCEPT !.state = "waiting", !.player = Nobody]

Released(c) == [c EXCEPT !.state = "waiting", !.player = Nobody, !.ready = FALSE]
ReadyToPlay(c) == [c EXCEPT !.ready = TRUE]
PlayingAs(c, i) == [c EXCEPT !.state = "playing", !.player = i]
Older(c) == [c EXCEPT !.age = @ + 1]

Eliminated(p) == [p EXCEPT !.eliminated = TRUE]
Steered(p, byte) == [p EXCEPT !.turn = byte]
Placed(p, kx, ky, heading) ==
    [p EXCEPT !.x = Middle(kx), !.y = Middle(ky), !.rotation = heading]
Moved(p) == LET r == Turned(p.rotation, p.turn)
            IN  [p EXCEPT !.rotation = r, !.x = MovedX(p.x, r), !.y = MovedY(p.y, r)]
Disconnected(p) == [p EXCEPT !.connection = Nobody]
PosOf(p) == MakePos(p.x, p.y)

Init ==
    /\ clients = << >> /\ players = << >> /\ events = << >>
    /\ gameId = 0 /\ inProgress = FALSE /\ pixels = {}
    /\ sendNewEvents = FALSE /\ tickCount = 1 % PruneEvery
    /\ phase = "unlocked" /\ cursor = 0
    /\ readyClients = << >> /\ namesLen = 0

-----------------------------------------------------------------------------
(***************************************************************************)
(* generate_event.  Each of these is called with the players as the        *)
(* caller has left them.  The elimination that leaves one snake alive      *)
(* generates GAME_OVER and with it cleanup_game.                           *)
(***************************************************************************)
GeneratePixel(i, pos, ps) ==
    /\ events' = Append(events, Pixel(i, pos))
    /\ pixels' = pixels \cup {pos}
    /\ players' = ps
    /\ UNCHANGED <<clients, inProgress>>

ReleasedClients ==
    [s \in DOMAIN clients |->
        IF IsActive(clients[s]) THEN Released(clients[s]) ELSE clients[s]]

(* Faults: the map of the last game is kept; the game is not marked as over. *)
CleanupGame_KeepsMap ==
    /\ inProgress' = FALSE /\ players' = << >> /\ clients' = ReleasedClients
    /\ UNCHANGED pixels
CleanupGame_KeepsRunning ==
    /\ pixels' = {} /\ players' = << >> /\ clients' = ReleasedClients
    /\ UNCHANGED inProgress

CleanupGame ==
    /\ inProgress' = FALSE /\ pixels' = {}
    /\ clients' = ReleasedClients
    /\ players' = << >>

(* Fault: the game goes on until nobody is left. *)
LeavesOneSurvivor_None(ps) == Living(ps) = {}

LeavesOneSurvivor(ps) == \E i \in DOMAIN ps : Living(ps) = {i}

GenerateElimination(i, ps) ==
    LET after == [ps EXCEPT ![i] = Eliminated(ps[i])]
    IN  \/ /\ LeavesOneSurvivor(after)
           /\ events' = events \o <<PlayerEliminated(i), GameOver>>
           /\ CleanupGame
        \/ /\ ~LeavesOneSurvivor(after)
           /\ events' = Append(events, PlayerEliminated(i))
           /\ players' = after
           /\ UNCHANGED <<clients, inProgress, pixels>>

-----------------------------------------------------------------------------
(***************************************************************************)
(* The receiving thread: handle_client_message.                            *)
(*                                                                         *)
(* Ignored: a lower session than the socket's client has, a second message *)
(* within MIN_MESSAGE_DELAY, a new socket when the server is full or when  *)
(* a client has its name.  Such a message changes nothing.                 *)
(***************************************************************************)
Known(s) == s \in DOMAIN clients
Reconnects(s, m) == Known(s) /\ m.session > clients[s].session

Ignored(s, m) ==
    \/ Known(s) /\ m.session < clients[s].session
    \/ Known(s) /\ m.session = clients[s].session /\ clients[s].age = 0
    \/ ~Known(s) /\ Cardinality(DOMAIN clients) >= MaxClients
    \/ ~Known(s) /\ \E c \in DOMAIN clients : clients[c].name = m.name

(* Fault: a client that reconnects keeps the snake of its old session. *)
Recorded_KeepsSnake(s, m) ==
    [name |-> m.name, session |-> m.session, age |-> 0,
     player |-> IF Known(s) THEN clients[s].player ELSE Nobody,
     ready |-> Known(s) /\ ~Reconnects(s, m) /\ clients[s].ready,
     state |-> IF Known(s) /\ ~Reconnects(s, m) THEN clients[s].state ELSE "waiting"]

(***************************************************************************)
(* The client after the message has been recorded, and after it has become *)
(* a spectator if its name is empty.                                       *)
(***************************************************************************)
Recorded(s, m) ==
    LET spectates == m.name = NoName
        keeps == Known(s) /\ ~Reconnects(s, m)
    IN  [name |-> m.name, session |-> m.session, age |-> 0,
         player |-> IF keeps /\ ~spectates THEN clients[s].player ELSE Nobody,
         ready |-> keeps /\ ~spectates /\ clients[s].ready,
         state |-> IF spectates THEN "spectating"
                   ELSE IF keeps THEN clients[s].state ELSE "waiting"]

With(s, c) == [k \in DOMAIN clients \cup {s} |-> IF k = s THEN c ELSE clients[k]]

(* Fault: a running game is no obstacle to starting one. *)
Presses_Anytime(s, m) ==
    Recorded(s, m).player = Nobody /\ m.name # NoName /\ m.turn # 0

Presses(s, m) == /\ Recorded(s, m).player = Nobody /\ m.name # NoName
                 /\ ~inProgress /\ m.turn # 0

(* A playing client: the snake its pointer designates takes the turn. *)
Steer(s, m) ==
    /\ phase = "unlocked" /\ ~Ignored(s, m)
    /\ Recorded(s, m).player # Nobody
    /\ clients' = With(s, Recorded(s, m))
    /\ players' = LET i == Recorded(s, m).player
                IN  [players EXCEPT ![i] = Steered(players[i], m.turn)]
    /\ UNCHANGED <<game, tickCount, phase, cursor, selection>>

(* A client that is not playing presses an arrow while no game runs. *)
PressArrow(s, m) ==
    /\ phase = "unlocked" /\ ~Ignored(s, m)
    /\ Presses(s, m)
    /\ clients' = With(s, ReadyToPlay(Recorded(s, m)))
    /\ phase' = "selecting" /\ cursor' = 1
    /\ readyClients' = << >> /\ namesLen' = 0
    /\ UNCHANGED <<players, game, tickCount>>

(* Any other message only registers the client or keeps it connected. *)
KeepAlive(s, m) ==
    /\ phase = "unlocked" /\ ~Ignored(s, m)
    /\ Recorded(s, m).player = Nobody /\ ~Presses(s, m)
    /\ clients' = With(s, Recorded(s, m))
    /\ UNCHANGED <<players, game, tickCount, phase, cursor, selection>>

-----------------------------------------------------------------------------
(***************************************************************************)
(* try_start_game: the loop that collects the ready clients whose names    *)
(* still fit, one client a step.                                           *)
(***************************************************************************)
Fits(s) == namesLen + NameLen[clients[s].name] <= MaxNamesLen
Chosen(s) == Known(s) /\ WantsToStart(clients[s]) /\ Fits(s)

SelectClient ==
    /\ phase = "selecting" /\ cursor \in Sockets
    /\ cursor' = cursor + 1
    /\ \/ /\ Chosen(cursor)
          /\ readyClients' = Append(readyClients, cursor)
          /\ namesLen' = namesLen + NameLen[clients[cursor].name]
       \/ ~Chosen(cursor) /\ UNCHANGED selection
    /\ UNCHANGED <<clients, players, game, tickCount, phase>>

Unlock == phase' = "unlocked" /\ cursor' = 0
DropSelection == readyClients' = << >> /\ namesLen' = 0

TooFewPlayers ==
    /\ phase = "selecting" /\ cursor > NumSockets
    /\ Len(readyClients) < MinPlayers
    /\ Unlock /\ DropSelection
    /\ UNCHANGED <<clients, players, game, tickCount>>

(***************************************************************************)
(* The game starts.  Slot i of players is given to the i-th ready client   *)
(* in address order, and that client's pointer to &players[i]; only then   *)
(* std::sort moves the players into name order, each with its connection.  *)
(***************************************************************************)
SlotOf(s) == CHOOSE i \in DOMAIN readyClients : readyClients[i] = s

NewPlayer(s) == [name |-> clients[s].name, x |-> 0, y |-> 0, rotation |-> 0,
                 turn |-> 0, eliminated |-> FALSE, connection |-> s]

NameOrders ==
    LET slots == DOMAIN readyClients
        NameAt(i) == clients[readyClients[i]].name
    IN  {order \in [slots -> slots] :
            \A i, j \in slots : i < j => /\ order[i] # order[j]
                                         /\ NameAt(order[i]) <= NameAt(order[j])}

StartGame ==
    /\ phase = "selecting" /\ cursor > NumSockets
    /\ Len(readyClients) >= MinPlayers
    /\ \E order \in NameOrders :
          players' = [i \in DOMAIN readyClients |-> NewPlayer(readyClients[order[i]])]
    /\ clients' = [s \in DOMAIN clients |->
                      IF \E i \in DOMAIN readyClients : readyClients[i] = s
                      THEN PlayingAs(clients[s], SlotOf(s))
                      ELSE clients[s]]
    /\ gameId' \in GameIds
    /\ inProgress' = TRUE
    /\ sendNewEvents' = TRUE
    /\ events' = <<NewGame([i \in DOMAIN players' |-> players'[i].name])>>
    /\ phase' = "placing" /\ cursor' = 1
    /\ DropSelection
    /\ UNCHANGED <<pixels, tickCount>>

(***************************************************************************)
(* The loop that puts the snakes on the board.  Its end is fixed when it   *)
(* begins, at the number of players of the game, whatever cleanup_game     *)
(* does to the vector meanwhile, and it does not look at in_progress.      *)
(***************************************************************************)
PlayersAtStart == Len(events[1].roster)

PlaceSnake ==
    /\ phase = "placing"
    /\ \E kx \in 0 .. Width - 1, ky \in 0 .. Height - 1, heading \in StartHeadings :
          LET snake == Placed(players[cursor], kx, ky, heading)
              placed == [players EXCEPT ![cursor] = snake]
              pos == PosOf(snake)
          IN  \/ pos \in pixels /\ GenerateElimination(cursor, placed)
              \/ pos \notin pixels /\ GeneratePixel(cursor, pos, placed)
    /\ \/ cursor = PlayersAtStart /\ Unlock
       \/ cursor < PlayersAtStart /\ cursor' = cursor + 1 /\ UNCHANGED phase
    /\ UNCHANGED <<gameId, sendNewEvents, tickCount, selection>>

-----------------------------------------------------------------------------
(***************************************************************************)
(* The update thread: update_game_job.                                     *)
(***************************************************************************)
BeginRound ==
    /\ phase = "unlocked" /\ inProgress
    /\ phase' = "moving" /\ cursor' = 1
    /\ UNCHANGED <<clients, players, game, tickCount, selection>>

(* Fault: only the column is compared. *)
SamePixel_Column(old, new) == old[1] = new[1]
SamePixel(old, new) == old = new

(* Fault: an occupied pixel does not stop a snake. *)
Crashes_OnWallsOnly(pos) == ~IsInside(pos)
Crashes(pos) == ~IsInside(pos) \/ pos \in pixels

(***************************************************************************)
(* do_game_tick for one player.  A snake that stays in its pixel only      *)
(* moves; one that hits something or leaves the board is eliminated; any   *)
(* other marks its new pixel.  The loop ends early when the game does.     *)
(***************************************************************************)
MoveSnake ==
    /\ phase = "moving"
    /\ LET snake == Moved(players[cursor])
           moved == [players EXCEPT ![cursor] = snake]
           old == PosOf(players[cursor])
           new == PosOf(snake)
       IN  \/ /\ SamePixel(old, new)
              /\ players' = moved
              /\ UNCHANGED <<clients, events, inProgress, pixels>>
           \/ ~SamePixel(old, new) /\ Crashes(new) /\ GenerateElimination(cursor, moved)
           \/ ~SamePixel(old, new) /\ ~Crashes(new) /\ GeneratePixel(cursor, new, moved)
    /\ \/ /\ cursor = Len(players) \/ ~inProgress'
          /\ phase' = "pruning" /\ cursor' = 0
       \/ /\ cursor < Len(players) /\ inProgress'
          /\ cursor' = cursor + 1 /\ UNCHANGED phase
    /\ UNCHANGED <<gameId, sendNewEvents, tickCount, selection>>

(* Fault: the client is only erased along with its pointer. *)
Dropped_OnlyPlaying ==
    {s \in DOMAIN clients : IsInactive(clients[s]) /\ clients[s].player # Nobody}

(* Fault: a client is dropped as soon as the timeout is reached. *)
Dropped_Early == {s \in DOMAIN clients : clients[s].age >= Timeout}

(***************************************************************************)
(* prune_inactive_clients: a playing client that is dropped takes its      *)
(* pointer with it, and the slot that pointer designates forgets its own.  *)
(***************************************************************************)
Dropped == {s \in DOMAIN clients : IsInactive(clients[s])}

PruneInactiveClients ==
    /\ clients' = [s \in DOMAIN clients \ Dropped |-> clients[s]]
    /\ players' = [i \in DOMAIN players |->
                      IF \E s \in Dropped : clients[s].player = i
                      THEN Disconnected(players[i]) ELSE players[i]]

EndRound ==
    /\ phase = "pruning" \/ (phase = "unlocked" /\ ~inProgress)
    /\ tickCount' = (tickCount + 1) % PruneEvery
    /\ \/ tickCount' = 0 /\ PruneInactiveClients
       \/ tickCount' # 0 /\ UNCHANGED <<clients, players>>
    /\ Unlock
    /\ UNCHANGED <<game, selection>>

-----------------------------------------------------------------------------
(* The sending thread takes its snapshot of the state. *)
TakeSnapshot ==
    /\ phase = "unlocked" /\ sendNewEvents
    /\ sendNewEvents' = FALSE
    /\ UNCHANGED <<clients, players, events, gameId, inProgress, pixels,
                   tickCount, phase, cursor, selection>>

(* The clock advances by MIN_MESSAGE_DELAY; no critical section takes so long. *)
TimePasses ==
    /\ phase = "unlocked"
    /\ \E s \in DOMAIN clients : clients[s].age <= Timeout
    /\ clients' = [s \in DOMAIN clients |->
                      IF IsInactive(clients[s]) THEN clients[s]
                      ELSE Older(clients[s])]
    /\ UNCHANGED <<players, game, tickCount, phase, cursor, selection>>

-----------------------------------------------------------------------------
Receive == \E s \in Sockets, m \in Message :
              Steer(s, m) \/ PressArrow(s, m) \/ KeepAlive(s, m)
TryStartGame == SelectClient \/ TooFewPlayers \/ StartGame \/ PlaceSnake
Round == BeginRound \/ MoveSnake \/ EndRound

Next == Receive \/ TryStartGame \/ Round \/ TakeSnapshot \/ TimePasses

Spec == Init /\ [][Next]_vars

(***************************************************************************)
(* A thread that has the lock runs on (weak fairness).  The lock is a      *)
(* std::recursive_mutex, which promises no order; strong fairness of the   *)
(* update thread says that it gets the lock eventually, which holds        *)
(* because the other threads block on the socket or sleep between their    *)
(* critical sections.  Time passes; no client need ever send.              *)
(***************************************************************************)
Fairness == /\ WF_vars(TryStartGame) /\ WF_vars(MoveSnake)
            /\ SF_vars(BeginRound) /\ SF_vars(EndRound)
            /\ WF_vars(TakeSnapshot) /\ SF_vars(TimePasses)

FairSpec == Spec /\ Fairness

-----------------------------------------------------------------------------
(***************************************************************************)
(* Properties.                                                             *)
(***************************************************************************)

(* Every variable keeps its type; in the middle of a loop over the players *)
(* or the clients the cursor designates one of them, or the loop's end.    *)
TypeOK ==
    /\ DOMAIN clients \subseteq Sockets /\ clients \in [DOMAIN clients -> Client]
    /\ players \in Seq(Player) /\ events \in Seq(Event)
    /\ gameId \in Nat /\ inProgress \in BOOLEAN /\ pixels \subseteq Board
    /\ sendNewEvents \in BOOLEAN /\ tickCount \in 0 .. PruneEvery - 1
    /\ phase \in {"unlocked", "selecting", "placing", "moving", "pruning"}
    /\ readyClients \in Seq(Sockets) /\ namesLen \in Nat
    /\ cursor \in Nat

(* A client_connection::player pointer is never left dangling by the code  *)
(* that clears or reallocates the players, drops clients or reconnects     *)
(* them: clients hold a pointer exactly while they play, it designates a   *)
(* player of the running game, and no two clients share one.               *)
PlayerPointersValid ==
    \A s \in DOMAIN clients :
        /\ IsActive(clients[s]) <=> clients[s].player # Nobody
        /\ IsActive(clients[s]) => /\ inProgress
                                   /\ clients[s].player \in DOMAIN players
        /\ \A t \in DOMAIN clients :
              (t # s /\ IsActive(clients[s])) => clients[t].player # clients[s].player

(* Since the second client that presses an arrow starts the game, there is *)
(* never a game of more than two snakes, whatever clients join, reconnect  *)
(* or are dropped; and the code that starts, moves and ends a game always  *)
(* finds both players there while it loops over them.                      *)
TwoSnakes ==
    /\ inProgress => Len(players) = 2
    /\ ~inProgress => players = << >>

(* No two clients are left waiting for each other: whenever the lock is    *)
(* free at most one client has asked for a game, and none while one runs.  *)
NoReadyPairLeftWaiting ==
    phase = "unlocked" =>
        \A s, t \in DOMAIN clients :
            WantsToStart(clients[s]) /\ WantsToStart(clients[t]) => s = t /\ ~inProgress

(* The log of a game starts with NEW_GAME and a finished one ends with     *)
(* GAME_OVER; neither occurs elsewhere.  No event follows GAME_OVER even   *)
(* when it comes up inside the loop that places the snakes, which does not *)
(* look at in_progress, and that loop never outlives the players.          *)
LogWellFormed ==
    /\ \A k \in DOMAIN events :
          /\ events[k].type = "NEW_GAME" <=> k = 1
          /\ events[k].type = "GAME_OVER" <=> (k = Len(events) /\ ~inProgress)
    /\ inProgress => events # << >>
    /\ phase = "placing" => inProgress /\ Len(players) = PlayersAtStart

(* Who is out can be read from the log alone: the players marked as        *)
(* eliminated are those with a PLAYER_ELIMINATED, each has just one, and a *)
(* game ends exactly when it has left one survivor.                        *)
EliminationsOf(i) ==
    {k \in DOMAIN events : events[k].type = "PLAYER_ELIMINATED" /\ events[k].player = i}
Survivors == {i \in 1 .. PlayersAtStart : EliminationsOf(i) = {}}

OneSurvivor ==
    events # << >> =>
        /\ \A i \in 1 .. PlayersAtStart : Cardinality(EliminationsOf(i)) <= 1
        /\ inProgress => Survivors = Living(players) /\ Cardinality(Survivors) > 1
        /\ ~inProgress => Cardinality(Survivors) = 1

(* The occupied pixels of the map are those the log of the running game    *)
(* announced, each announced once: nothing of an earlier game is left and  *)
(* no pixel is claimed twice.  Between games the map is empty.             *)
PixelEvents == {k \in DOMAIN events : events[k].type = "PIXEL"}

PixelsMatchLog ==
    /\ pixels = IF inProgress THEN {events[k].pos : k \in PixelEvents} ELSE {}
    /\ \A j, k \in PixelEvents : events[j].pos = events[k].pos => j = k

(* A client that draws the log sees every snake where the server has it:   *)
(* the head of a living snake is in the last pixel announced for it.       *)
HeadIsLastPixel ==
    \A i \in Living(players) :
        LET trail == {k \in PixelEvents : events[k].player = i}
        IN  \/ phase = "placing" /\ i >= cursor
            \/ \E k \in trail : /\ \A j \in trail : j <= k
                                /\ events[k].pos = PosOf(players[i])

(* A client takes part in a game from its start or not at all: whoever     *)
(* connects, or reconnects with a newer session, while a game runs waits   *)
(* for the next one.                                                       *)
NoMidGameJoin ==
    [][inProgress /\ inProgress' =>
          \A s \in DOMAIN clients' :
              IsActive(clients'[s]) => s \in DOMAIN clients /\ IsActive(clients[s])]_vars

(* Only a client that has been silent for more than the timeout is ever    *)
(* dropped, its snake stays in the game, and a client that is not dropped  *)
(* never goes back to an older session.                                    *)
OnlySilentClientsDropped ==
    [][\A s \in DOMAIN clients :
          IF s \in DOMAIN clients'
          THEN clients'[s].session >= clients[s].session
          ELSE IsInactive(clients[s]) /\ Len(players') = Len(players)]_vars

(* What the server promises to those who read its events: it plays by the  *)
(* rules of GameRules, the log being events, the living players those of   *)
(* game_state.players and the claimed pixels those of the map.             *)
Rosters == UNION {[1..n -> Names] : n \in 0..NumSockets}

Rules == INSTANCE GameRules WITH log <- events, alive <- Living(players),
                                 claimed <- pixels, running <- inProgress

PlaysByTheRules == Rules!Spec

(* A snake turns by the turning speed to the side its player asked for:    *)
(* the byte 255 is the -1 the client sent.                                 *)
Signed(turn) == IF turn < 128 THEN turn ELSE turn - 256

TurnsAsAsked ==
    [][phase = "moving" /\ inProgress' =>
          players'[cursor].rotation =
             (players[cursor].rotation + Signed(players[cursor].turn) * TurningSpeed) % 360]_vars

(* The inductive strengthening the proofs use.  LoopState says where each  *)
(* critical section stands: the snakes are placed on an empty map and both *)
(* are alive whenever a game is in progress.  ReadyState and               *)
(* SelectionState say why no third client can be ready with the two that   *)
(* start a game, and that the names of two clients always fit.             *)
LoopState ==
    /\ phase = "selecting" => ~inProgress /\ cursor \in 1 .. NumSockets + 1
    /\ phase \in {"placing", "moving"} => inProgress /\ cursor \in 1..2
    /\ phase = "placing" => /\ events # << >> /\ PlayersAtStart = 2
                            /\ cursor = 1 => pixels = {}
    /\ ~inProgress => pixels = {}
    /\ \A i \in DOMAIN players : ~players[i].eliminated

ReadyState ==
    /\ phase = "selecting" =>
          \E a, b \in Sockets : \A s \in DOMAIN clients :
              WantsToStart(clients[s]) => s \in {a, b}
    /\ phase # "selecting" =>
          \A s, t \in DOMAIN clients :
              WantsToStart(clients[s]) /\ WantsToStart(clients[t]) => s = t /\ ~inProgress

SelectionState ==
    phase = "selecting" =>
        /\ \A s \in Sockets :
              (\E i \in DOMAIN readyClients : readyClients[i] = s)
                  <=> (s < cursor /\ Known(s) /\ WantsToStart(clients[s]))
        /\ \A i, j \in DOMAIN readyClients :
              readyClients[i] = readyClients[j] => i = j
        /\ Len(readyClients) = 0 => namesLen = 0
        /\ Len(readyClients) = 1 => namesLen = NameLen[clients[readyClients[1]].name]

IInv == /\ TypeOK /\ PlayerPointersValid /\ TwoSnakes
        /\ LoopState /\ ReadyState /\ SelectionState

(* What the log has to add to it.  While a game runs nobody is eliminated  *)
(* in its log; one that is over has a single elimination, of one of two.   *)
LogState ==
    events # << >> =>
        /\ PlayersAtStart = 2
        /\ inProgress => \A k \in DOMAIN events : events[k].type # "PLAYER_ELIMINATED"
        /\ ~inProgress => \E k \in DOMAIN events :
              /\ \A j \in DOMAIN events : events[j].type = "PLAYER_ELIMINATED" <=> j = k
              /\ events[k].player \in {1, 2}

LogInv == LogWellFormed /\ PixelsMatchLog /\ LogState

(* Every game ends: the snakes run out of board, whatever the clients do.  *)
GameEnds == inProgress ~> ~inProgress

(* A client that stays silent is dropped. *)
SilentClientIsDropped ==
    \A s \in Sockets :
        (s \in DOMAIN clients /\ IsInactive(clients[s]))
            ~> (s \notin DOMAIN clients \/ ~IsInactive(clients[s]))

-----------------------------------------------------------------------------
(***************************************************************************)
(* What the specification of the game (private/zadanie_2.txt) or a comment *)
(* of the code says and the code does not do.                              *)
(***************************************************************************)

(* The turn a playing client sends is that of its own snake (zadanie_2,    *)
(* lines 285 to 288; the connection of server_player says which that is).  *)
ClientSteersItsOwnSnake ==
    phase = "unlocked" =>
        \A s \in DOMAIN clients :
            IsActive(clients[s]) => players[clients[s].player].connection = s

=============================================================================
