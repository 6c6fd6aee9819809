# A verification development for netacka-clone

netacka-clone is a UDP multiplayer "snake" game (after the polish *Netacka*):
a game server (`server.cc`), a client (`client.cc`) that stands between the server
and a graphical front end, and three demonstration front ends (`private/gui`).
This directory holds TLA+ models of it, the TLC runs that check them and the TLAPS
proofs about them. Line numbers refer to the files under `src/`.

## 1. Inventory

### Components, their state and their operations

| component | files | state | operations |
|---|---|---|---|
| game server | `server.cc` | `game_state` (182-197): clients by address, players, events, map, `game_id`, `in_progress`, `send_new_events`, guarded by one recursive mutex; the socket; the configuration | `handle_client_message`, `try_start_game`, `generate_event`, `cleanup_game`, `do_game_tick`, `prune_inactive_clients`, `broadcast_events`, and the three thread bodies `receive_messages_job`, `update_game_job`, `send_events_job` |
| board | `map.cc/h` | the set of occupied pixels | `make_pos`, `is_inside`, `is_occupied` |
| random generator | `rand.cc/h` | the last number | `next` |
| wire protocol | `protocol.cc/h` | none | serialisation and parsing of client messages, server messages and the four events |
| client | `client.cc` | globals 73-86: `next_expected_event`, `queued_events`, `active_player_names`, `maxx`/`maxy`, `turn_direction`; `events_lock` guards the queue only in part | four threads: `send_game_job`, `receive_game_job`, `send_gui_job`, `receive_gui_job` |
| utilities | `util.cc/h` | none | bounded number parsing, name validation, `fatal` |
| CRC | `crc32.cc/h` | a constant table | `xcrc32` (third-party code) |
| front ends | `private/gui` | `gsock`, `started`, the table of players (`kolgracz`), the size of the field and its pixmap | `readLine`, `process_command`, the GTK callbacks (idle, keyboard, arrow buttons, configure, destroy) |

### How they interact

* client -> server: a datagram every 20 ms with the session, the turn and the number of the
  next event the client expects. It is a heartbeat, a steering command, the wish to start a
  game and an acknowledgement at once. The network may lose, repeat and reorder it.
* server -> client: a third thread copies the events of the current game and every client's
  last `next_expected_event` every 5 ms and sends each client up to five events.
* inside the server the three threads share `game_state` under one lock; a critical section
  is never interleaved with another, but it calls deep: moving a snake may generate an
  elimination, which may generate the end of the game, which destroys the players the caller
  is iterating over.
* inside the client the four threads share globals, only some of them under a lock.
* client <-> front end: lines of text over TCP. The client tells of new games, pixels and eliminations; the front end
  tells which arrow key goes down or up. TCP keeps the order and cuts the lines anywhere; the front end reads without
  blocking, in the idle moments of its main loop, and only after a key or a button has been used once.
* command lines: the options of the server become its configuration, the arguments of the client the addresses it connects to.

### What is hard here

* **Re-entrant clean-up.** `generate_event` calls itself and `cleanup_game` from inside loops
  over `game_state.players`.
* **Pointers into a vector** that is resized, sorted and cleared (`client_connection::player`),
  and pointers back into a map whose elements are erased.
* **Sessions.** A newer session replaces a client at any moment, whatever the old one was doing.
* **Time.** Timeouts and the flood limit race with messages; pruning runs every 15 ticks only.
* **Arithmetic.** A signed byte kept unsigned, unsigned products, floating coordinates converted to
  unsigned integers, an axis that points downwards.
* **Delivery.** Lost, repeated and late datagrams between a server that forgets what it sent
  and a client that filters by number only.
* **Unlocked sharing** in the client.
* **Streams.** Lines cut by TCP on both ends, a reader that forgets what it has read when the rest is late, and two programs
  each of which may end while the other is sending.

`PROJECT.json` lists each hazard with the line where it bites and the properties that look for it.

### What makes each component correct

* server: pointers and back pointers agree; the log of a game is well formed and tells the same
  story as the map, the players and `in_progress`; nobody joins in the middle; only silent
  clients are dropped; games start when they can and end always; a snake does what its
  player asked for.
* board: what is claimed is inside; a head is in the pixel last announced for it.
* protocol: what is written is read back; what is sent fits a datagram.
* client: what the front end is told is a prefix of the server's log, without gap or repetition.
* client and front end: the arrow that is held turns the snake that way on the screen, and is heard of.
* front end: lines are interpreted as they were sent, whatever the way TCP cuts them; the field shows one game.
* start-up: options and addresses mean what they say, and what is wrong starts nothing.

## 2. The modules

| module | models |
|---|---|
| `SnakeMotion` | the arithmetic of `do_game_tick` 514-525 and `map.cc`: turning, moving, conversion to a pixel |
| `GameServer` | `game_state` and the critical sections of the three server threads |
| `GameRules` | the abstract specification: what the reader of the log may rely on |
| `MCGameServer` | instances of `GameServer` for TLC |
| `EventRecords` | the events as the protocol packs them: their lengths, the limits, the reader of a datagram |
| `EventSender` | the sending thread: `send_events_job` and `broadcast_events`, beside a server reduced to what the sender sees |
| `GameClient` | three of the four threads of `client.cc` and the globals they share |
| `GameSession` | `EventSender`, a network with faults and one `GameClient`, composed |
| `LogFollower` | the abstract specification of the client: it follows the logs of the games |
| `Arguments` | the pure algorithms of `util.cc`, of `split_hostname` and of the name in a client message |
| `StartUp` | the command lines of the server and of the client: `main` of `server.cc` and of `client.cc` |
| `ArrowKeys` | `receive_gui_job`, the fourth thread of the client |
| `FrontEnd` | the front end of `private/gui` |
| `PlayerStation` | `StartUp`, then `ArrowKeys`, what the client tells, `FrontEnd` and the TCP connection between them, composed |
| `MCPlayerStation` | instances of `PlayerStation` for TLC |
| `GameServerProofs`, `GameServerRefinement`, `GameServerLogProofs` | the proofs about the game server |
| `EventSenderProofs`, `GameSessionProofs`, `GameSessionRefinement` | the proofs about the sender and the session |
| `StartUpProofs`, `PlayerStationProofs` | the proofs about the command lines and the player's side |

### SnakeMotion

The code keeps heads in doubles. A coordinate is here an integer number of units of `1/Scale`
pixel, and the unit vector of a heading is looked up in the tables `Cos` and `Sin`, about
which only one thing is assumed: a step is at most one pixel along an axis. Nothing that is
proved depends on the tables being the cosine and the sine. The turn is an unsigned byte and
the product with the turning speed an unsigned 32-bit number (516). The conversion to a pixel
(map.cc 28-33) drops the fraction, so the open interval (-1, 0) is pixel 0; from -1 down the C++
conversion is undefined, and the model takes what x86-64 does: convert to 64 bits and keep the low 32.

### GameServer

One action per critical section, split where the section loops: `phase` and `cursor` record which
loop the holder of the lock is in and the element it has reached, and no other thread acts until
`phase` is `"unlocked"` again. The lines each definition stands for are in `PROJECT.json`, "map".

| action | code |
|---|---|
| `Steer`, `PressArrow`, `KeepAlive` | `handle_client_message` by outcome: the snake takes the turn; a client asks for a game; neither. `Ignored` holds its early returns, `Recorded` what it does to the client |
| `SelectClient`, `TooFewPlayers`, `StartGame`, `PlaceSnake` | `try_start_game`: the selection loop, its two outcomes, the placement loop |
| `BeginRound`, `MoveSnake`, `EndRound` | `update_game_job`: the test of `in_progress`, `do_game_tick` one player a step, pruning |
| `TakeSnapshot` | the critical section of `send_events_job` |
| `TimePasses` | the clock |

`GeneratePixel`, `GenerateElimination` and `CleanupGame` are `generate_event` and `cleanup_game`,
called from `PlaceSnake` and `MoveSnake` as in the code, so the end of a game happens
in the middle of a loop.

How data is represented:

* `clients` is a function from socket to `client_connection`. Sockets are numbered in the order of
  the map's comparison, which is the order both loops over the clients follow.
* A pointer to a player is its index in `players`, a pointer to a client is its socket. After `std::sort`
  an index still designates the slot, exactly as the address does.
* A name is a number, numbered alphabetically. The sort is unstable: `NameOrders` is the set of all
  permutations that put equal names in any order (two clients may have one name, because a known
  client may change its name).
* Time is the `age` of a client: units of `MIN_MESSAGE_DELAY` since its last message, capped one past the
  timeout. Age 0 is the flood limit. `TimePasses` is enabled only between critical sections: none of
  them blocks, and the shortest time the code measures is 2 ms.
* Random numbers are chosen from the board, `StartHeadings` and `GameIds`, which covers every seed.
* `next_expected_event` plays no part in the critical sections and is left to the model of the sender.
* `client_message::from` rejects messages of 14 bytes or fewer (protocol.cc 376), so the empty name never
  arrives and the branch that makes a spectator cannot be taken. The branch is modelled; `Names` has no `NoName`.
* A name is one whose zero is kept, of 2 to 63 characters. One of 64 is kept without it (protocol.cc 391-397), and what `strlen`,
  `strcmp` and `std::string` then read (server.cc 356, 386, 472) is up to the bytes that follow: see `EventRecords`.

### GameRules

Four actions: a game starts, a living player claims a free pixel, a player is eliminated, the second
last player is eliminated and the game is over. The mapping is `log <- events`, `alive <- Living(players)`,
`claimed <- pixels`, `running <- inProgress`.

### EventRecords

A record is as long as `len`, `event_no`, `event_type`, the data and the checksum together; of a roster only the length
of its names matters, each with its terminating zero, and the longest of them. `MaxNamesLen` is the limit `try_start_game` applies to
rosters. `ReadCount` is the loop of `server_message::from`: it stops at an event that does not fit into the limit
*beside the whole datagram* (protocol.cc 357 adds to `len`, not to `message_len`), and at an event that `event::parse` refuses (351-354):
a NEW_GAME with a name of more than 64 characters (224-225, `IsRefused`). Nothing is given of a datagram whose first event is refused.

The first does no harm. A name has up to 70 characters in a roster: one of 64 is kept without its zero (protocol.cc 391-397), and the server reads on into
`last_message_time`, which follows it in `client_connection`: milliseconds since 1970, whose seventh byte is 0 if none before it is. Two names take at most 142 bytes with their zeros,
so the datagram with the roster has at most 4 + 163 + 4 * 22 = 255 bytes, and 255 + 163 < 512.

The second does: unless the first byte of that time happens to be 0, the roster with such a name is longer than the reader takes, the client drops every datagram that begins with
it, and nobody hears of the game (section 3, disagreements).

### EventSender

| action | code |
|---|---|
| `StartGame`, `PlayRound` | what a game start and a round append to `events` between two critical sections of the sender (`GameServer` has them in full) |
| `Hear`, `Drop` | a message replaces `next_expected_event`; pruning erases a client |
| `TakeSnapshot` | the critical section of `send_events_job`: events, game number and clients are copied, `send_new_events` turns every request into 0 and is cleared |
| `SendDatagram`, `NothingToSend` | one turn of the outer loop of `broadcast_events`, without the lock: the server goes on between any two |

Clients are served in the order of their addresses, which is the order of the map that is copied. `snapshot` is
forgotten after the last client because nothing reads it any more. `games` keeps the logs of all games (the code keeps the
last one) so that a datagram can be compared with the log it claims to come from, and `owed` is a ghost: who was
connected when the last game started and has not been sent its first event.

### GameClient

| action | code |
|---|---|
| `Receive` | a datagram has been parsed; its events are handled one at a time |
| `BeginGame`, `AdoptRoster` | NEW_GAME in `receive_game_job`: `next_expected_event = 0`, then the names (two steps, since other threads read both without a lock) |
| `RejectNonsense` | a player number that is in no roster: `util::fatal` |
| `Enqueue`, `Skip` | the comparison of numbers; on equality, under the lock, the increment and the queue |
| `TakeQueue`, `Tell` | `send_gui_job`: it polls the size without the lock, then keeps the lock until all is told and cleared |

`send_game_job` only reads and is `Heartbeat` of `GameSession`. While the receiver is replacing the names, whoever
reads them gets the old ones, the new ones or none (`RostersRead`): the vector is copied without a lock. A roster is the number
of its game; that it has two players is proved of the server (`GamesHaveTwoSnakes`), so a roster serves every player number of
the server's events. `told` is the last line for the front end with the roster its name came from.

### GameSession and LogFollower

The sender and the client act as in their modules; `Send`, `Deliver`, `Heartbeat` and `Hear` put a datagram on
the network or take one off. `Faults` says what the network may do: lose, let one overtake another, deliver twice. That the
server drops a silent client and takes it back is, for the client, the loss of what it was not sent, so there is no separate action
for it. A message of the client is `next_expected_event` alone; the rest of it concerns `GameServer`.

`LogFollower` has three actions: the logs grow; the first event of this or a later game is told; the next event of the same game is told.
The mapping is `at <- Accepted`, the event that was queued last. `Begin` admits that the *same* game is told again, because the code does it:
a NEW_GAME that comes twice (client.cc 192 resets the number whatever game it is of), or a heartbeat sent
between the reset and the increment, which asks the server to begin again.

### Arguments and StartUp

A text is a sequence of characters. `Parsed` is the loop of `util::parse` (24-51) with the wrap of its 64-bit number, which is built
as a negative one; `SplitHostname` is `client.cc` 110-128. `MessageLen` and `NameLenRead` are the two sides of the name in a client message: the writer
sends no terminating zero (protocol.cc 317) and the reader counts on one (374, 391).

| action | code |
|---|---|
| `ConfigureServer` | the loop over the options in `main` of `server.cc` (`WithOption` is one turn of it), and the socket, which may fail to be bound |
| `StartClient` | the player types a command line |
| `ConfigureClient` | `main` of `client.cc` 362-395 |
| `Connect` | both names are resolved, both sockets connected, or the client ends |

`configuration` is forgotten when the client starts and `settings` when it is connected: what becomes of them is the business of the other modules.
`OptionsAreAsWritten` and `SettingsAreAsWritten` compare with the number the digits mean, computed without width or sign tricks. `TextsAssumption` says
what the texts are: a host has no colon, or it is an IPv6 address, which has several and no brackets; a port has none.

### ArrowKeys

| action | code |
|---|---|
| `Receive` | what one `recv` returns: every piece is matched (`Matched` is one turn of the inner loop, 329-356), then the turn is computed |
| `ReceiveError`, `ReceiveEnd` | `recv` fails; `recv` returns 0, which ends the client only if `errno` is set |

A key line is cut into two pieces, the side and the change with the newline. `errno` belongs to the thread: it is 0 until a call of this thread fails, and stays set
afterwards. `Ends` is the end of the client, by `exit` or by SIGPIPE.

### FrontEnd

| action | code |
|---|---|
| `IdleCallback` | `idle_callback` with `readLine`: up to the newline; or, when the newline has not arrived, what there is is read and forgotten (read_line.c 45-49, `Forget`); or, at the end of the stream, what there is is returned as if it were a line (54-55) |
| `ReadEnd` | `readLine` returns 0, or fails, with nothing read |
| `ConfigureEvent` | `configure_event`: a new, white pixmap |
| `ArrowPressed`, `ArrowReleased`, `SendMessageFails` | the callbacks of keys and buttons |
| `DestroyWindow` | the window is closed |

`NewGame`, `Pixel` and the third disjunct of `Execute` are the three commands of `process_command`. A command is a record with its game and the game whose names are
in it (they differ for a line that the client has misnamed, run `session_misnamed`). `table` and `field` keep the game, because the properties only tell games apart.
A command line is cut into three pieces: the words before the names, the names, the newline. `ProcessCommand` gets what `readLine` returns, a line or a part of one, and
may take it for a command if it begins with the first piece and has some of the second; a name that is cut short (`CutName`) may or may not be in the table. A part
that begins with the names is passed over, with one exception: the rest of NEW_GAME is the names of two players, and if the first is, or by the cut ends in, PLAYER_ELIMINATED it
is that command (`IsImpostor`). The other two commands need more words than two. `Impostors` are the games with such a player. `cut` is a ghost, the first piece of a part that has been carried out.

`process_command` asks for a new size twice, the size less two and the size (cmd.c 18-19), so that GTK sees a change and configures the field anew. If the window stays as
large as it is, the drawing area is allocated again, and so configured, before the loop is idle again (`resizing = "queued"`: `IsIdle` is false). The
first game makes the window grow, for which the window manager has to be asked (`"asked"`): the loop is idle meanwhile and pixels may come first.
A field that is about to be wiped may hold anything, hence `resizing = "no"` in `FieldHoldsOneGame`.

gui2 and gui3 are copies of gui1 that paint a point of nine pixels with Cairo. Nothing in `FrontEnd` depends on the difference.

### PlayerStation

| action | code |
|---|---|
| `Start` | the four actions of `StartUp` |
| `Tell`, `ContinueLine` | `send_gui_job`: `send` begins a line and copies some of it, waits while the buffers are full (290), and goes on; it fails or the client is killed when the front end is gone |
| `Recv` | `receive_gui_job` with any part of what is under way |
| `ReadLine`, `Configure`, `UseArrow`, `CloseWindow` | the callbacks of the front end, with what they take off the connection or put on it |
| `StopClient`, `Arrive` | the client ends, because the player stops it or because it cannot talk with the server (151, 174); TCP delivers |

`connection` is what the client's kernel knows of the other end: `open`; `finished`, closed in order; `refused`, data has been sent after that; `reset`, closed with data
unread. The first line after an orderly end is accepted, the second is not; a reset gives the next `recv` an error, which sets `errno`, and the one after that an end
that is believed. When a program ends, its variables go back to their initial values. The player uses the key of a side or its button, not both at once (a
press of one and the release of the other would leave the program with an honest misunderstanding).

`commands` has whole lines, `copied` says how much of them the send buffer has taken and `arrived` how much of that the front end may read. Any thread of the client may end it while `send` waits: then
what has been copied is all the front end will ever get (`EndsSending`), and its last line may lack its end. A client that ends with key lines unread resets the connection, which the front end may
see before or after the bytes under way; otherwise the end of the stream comes after them (`StreamEnds`).
Which events are told, and when, is left open: `GameSession` has that.

## 3. The runs

| run | instance | question |
|---|---|---|
| `server_play` | 3x2 board, two clients, quarter turns left, pruning every round | do log, map and players tell one story, through whole games one after the other? |
| `server_lobby` | 2x1 board, three sockets and clients, two names, room for three names, pruning every second round | who gets into a game? |
| `server_live` | `FairSpec`, 2x1 board, two sessions, two names | do pointers survive reconnection, renaming, pruning and the end of games? does a newer session wait for the next game? does every game end, is every silent client, and no other, dropped? |
| `server_swapped`, `server_left_turn` | small | two places where the assignment text and the server disagree (violations) |
| `sender` | two clients, two games, rosters of 476 and 500 bytes, two events a reply | are datagrams genuine, do they fit, is nobody forgotten, does the loop end? |
| `session_lossy` | loss, overtaking, repetition, rosters that the client reads and rosters it refuses | what holds whatever the network does |
| `session_live` | `FairSpec`, no faults, roster of 128 bytes, five events a reply | does the client read all it is sent, follow the logs (`LogFollower`) and get to know the current game? |
| `session_stranded` | the same with loss | no: a lost NEW_GAME is not sent again (violation) |
| `session_misnamed` | in-order network | a line with a name of the next game (violation) |
| `station` | `FairSpec`, 16-bit words, two games, the second with a player called PLAYER_ELIMINATED, one line in the buffers and part of it not | what do the command lines mean? what becomes of keys and commands that TCP cuts, whoever ends first? |
| `station_closed` | the same with one command line and one game | no: closing the window does not end the client (violation) |

Why the bounds are enough:

* **Two snakes.** A game starts inside the very message that makes the second client ready, so no third
  client is ever ready with them. `TwoSnakes` checks it with three clients and is *proved* for any number.
  The first elimination therefore ends the game; the code that moves eliminated players is never reached.
* **Boards** of 1 to 6 pixels let snakes meet, run into walls on each side, be placed on one another and
  survive on pixel 0 with a negative coordinate. Snakes move along the axes, half a pixel being one unit.
* **Timeout = 1, PruneEvery = 1 or 2** give every order of message, ageing and pruning.
* **Events** of `GameServer` need no bound: a board fills up. No other quantity grows.
* **UintRange = 65536** stands for 2^32: what matters is that the wrapped value lies off the board.

* **MaxGames = 2, MaxLog = 3 or 4** (sender, sessions): a snapshot can be outdated by the rest of its game, by the end of
  it and by the start of the next, and an old datagram can meet a new game. Rounds stop at `MaxLog`, so a game may also stay as it is
  for ever, as one does whose snakes the run never lets move again; games over at once have four events in any case.
* **MaxSend = 2** stands for `max_send_count` 5, so that logs of four events take several replies; `session_live` uses 5.
* **NamesLens**: 476 is what the check of `try_start_game` lets pass and puts the packing at its limit; 500 must be refused. Two real names
  take 6 to 142 bytes. **LongestNames**: 63 characters is the longest name that arrives as it is, 70 the longest that a name of 64 becomes. All session runs have two names of 63,
  128 bytes; `session_lossy` has rosters with a name of 70 as well, which the client refuses.
* **MaxWire, MaxUplink = 1 or 2, MaxQueue = 1 or 2**: where the network misbehaves a datagram can overtake one other or meet an old one; in order and without loss one under way is
  enough, because only the order of sending and receiving counts; the queue may hold two events
  where that matters (`session_misnamed`). Threads wait for room only in the model; a real queue is longer, so these are bounds on how far one
  thread runs ahead of another.
* **IntHalf = 32768, OptionRange = 16384, PortRange = 14000** (station) stand for 2^63, 2^32 and 2^16, in the same order. The texts are chosen at the
  edges: 16383 and 13999 are the last option and port, 32768 needs the sign, 65537 wraps to 1; empty texts, lone signs, letters,
  repeated, unknown and unfinished options; hosts with and without colons; names of 0, 1, 2, 3, 63, 64 and 65 characters.
* **MaxKeyPieces = 3** (station): a line of two pieces and half of another, so that a `recv` can find part of a line, a line, or more than a line.
  **MaxPieces = 3**: what the send buffer takes is a line of commands, or the rest of one and the beginning of the next; `send` waits with one or two pieces of a line copied. One that
  waits with nothing copied counts as not begun.
  **Impostors = {2}**: the second game has a player whose name is a command, the first has none.
  **MaxGames = 2**: a field of one game meets the commands of another, an old name a new table.

Fairness of the server (`FairSpec`). A thread that holds the lock goes on (weak fairness of the loop actions). The mutex
promises no order, so the update thread gets *strong* fairness of taking it: the receiving thread blocks in
`recvfrom` and the sending thread sleeps 5 ms between their critical sections, so the lock is free again and again.
Time passes. Nothing is assumed of the clients. `GameEnds` is checked for snakes that move along axes only; a
turning speed of 180 lets a snake go to and fro inside one pixel: with a diagonal heading anywhere, along an axis in pixel 0, which is wider than the others because coordinates between
-1 and 0 belong to it. A speed of 0 is admitted and covered (a straight snake leaves the board).

Fairness of the sender. The thread takes its snapshot every 5 ms and goes through the datagrams without waiting (`MSG_DONTWAIT`), so weak fairness of
both. Here the snapshot is enabled whenever the sender is idle; that the lock can be had is the business of `GameServer`.
`AskedEventIsSent` assumes nothing of the clients but that the one it speaks of does not change its mind.

Fairness of a session. The network delivers again and again what is sent again and again, hence strong fairness of the steps at its two ends,
which the bounds on the datagrams under way disable and enable, and of the receiver, which waits for the queue. The
other steps have weak fairness. What is *not* claimed is that the client reaches the last event: if every heartbeat happens to fall
between the reset and the increment of the number, the server begins the game again each time.

Fairness of the station: the receiving thread of the client, TCP and the main loop of the front end go on; a size that has been asked for without changing the window is
configured. Nothing is assumed of the player, of the window manager, or of the events the client has to tell, not even that a `send` that waits ever goes on. In particular a key that repeats for ever keeps lines under way
for ever, and `HeldKeyIsHeard` holds all the same. Both properties of the station are of the form "again and again, if the key is held" (`[]<>`).

### Disagreements with the assignment text

Five are runs that TLC must find violated (quotations in `PROJECT.json`, "findings"): pointers to players taken before the sort
(`server_swapped`), left turns by 255 times the turning speed (`server_left_turn`), the announcement that is made once
(`session_stranded`), names looked up in the roster of another game (`session_misnamed`), and the end of the front end that the client
does not notice (`station_closed`).

Seen while modelling, true of the model, and without a run (`zadanie_2` is `private/zadanie_2.txt`):

* a game starts with two ready clients, not when all with a name are ready (server.cc 366; zadanie_2 253-255);
* negative coordinates are truncated towards pixel 0 instead of rounded down (map.cc 30; zadanie_2 217-219);
* the y axis is mirrored (server.cc 523; zadanie_2 214-215, 223-224);
* a reply has at most five events, not all that are wanted (server.cc 248; zadanie_2 125-127);
* the client stores `game_id` and never compares it, so events of two games can make one gapless run when datagrams overtake each
  other (client.cc 191; zadanie_2 140-141, 324-325). This is why `FollowsTheLogs` is checked on an in-order network;
* a repeated NEW_GAME makes the client tell the game again (client.cc 192; zadanie_2 32-33);
* the left key is +1 and the right key -1 (client.cc 358; zadanie_2 97-98). Together with the mirrored axis the snake turns as the player sees it: `HeldKeySteersThatWay`;
* `session_id` is in seconds, not microseconds (client.cc 364; zadanie_2 114-116), so that a client started twice within a second looks like the same one;
* a name of 64 characters is allowed (client.cc 48 and 371; protocol.h 75: "each name is up to 64 chars"; zadanie_2 100, 364), but it is kept without its zero (protocol.cc 391-397) and is longer than 64 in
  the roster (server.cc 386), which the reader refuses (protocol.cc 224-225, 353-354): but for one time in 256 nobody is told of a game with such a player, and a client that goes on asking for the numbers of the last game gets those of the new one after them. Uniqueness of such names
  is not reliable either (server.cc 472 compares past their ends);
* `readLine` loses the part of a line that came without its newline (read_line.c 48; its comment, 20-26, promises to read until a newline);
* at the end of the stream it returns such a part (read_line.c 54-55), and the front end carries it out: when the client ends in the midst of a `send`, a PIXEL or a PLAYER_ELIMINATED with a name
  cut short, or a NEW_GAME with one, is the last command (the exception in `ExecutesWholeLines`);
* the rest of a NEW_GAME whose beginning was lost is a command if its first player is called PLAYER_ELIMINATED (cmd.c 47-49; the other exception);
* a lone newline ends the front end, because `tokens[0]` is then a null pointer (cmd.c 7; zadanie_2 349: a wrong message is ignored). The client never sends one, but the rest
  of a line whose beginning was lost may be just that;
* PLAYER_ELIMINATED with a name that is not in the table, because its NEW_GAME was lost, reaches for `kolgracz[-1]` (cmd.c 50-56);
* a number too long for 64 bits may wrap into the range and be accepted, and a lone sign is 0 (util.cc 30-48, whose exceptions are called overflow and invalid argument);
* while the front end does not read, the client waits in `send` with `events_lock` held, and its receiver waits for that (client.cc 240, 290): the lines
  for the picture stop, heartbeats do not. Before the first key nothing is read at all;
* messages of 14 bytes are refused, so one-character names and the spectator's empty name never get through (protocol.cc 376; zadanie_2 100, 111).

## 4. The proofs

The theorems about the game server hold for every value of the constants that `GeometryAssumption` and `ServerAssumption` allow:
any board, any tables, any turning speed, any number of sockets, any set of names of which any two fit a roster
(a name takes at most 71 bytes, zero included, and the roster 476).

* `Invariance` — `Spec => []IInv`. `IInv` is the conjunction of `TypeOK`, `PlayerPointersValid`,
  `TwoSnakes` and three parts that make it inductive. `LoopState` says where each critical section stands
  (while snakes are placed the map is empty before the first; nobody in `players` is eliminated, because the first
  elimination ends the game). `ReadyState` says that between critical sections at most one client is ready and none during
  a game, and that during the selection at most two are. `SelectionState` says what the selection loop has
  collected: exactly the ready clients below the cursor, without repetition, and their names' length, so that a second name always fits.
  `PlayerPointersValid` is not inductive without them: that `StartGame` resizes the vector to two needs
  `TwoSnakes`, which needs `ReadyState`, which needs `SelectionState`.
* `TypeCorrect`, `PointersStayValid`, `GamesHaveTwoSnakes`, `ReadyPairIsServed` follow from it.
* `ServerPlaysByTheRules` (`GameServerRefinement`) — `Spec => Rules!Spec`. Each action of the server is matched:
  `StartGame` is `Start`, a `GeneratePixel` is `Claim`, a `GenerateElimination` is `Finish` (`Eliminate` is the rule for more
  than two players), all others stutter. It rests on `IInv`: a placed or moved snake is alive, its pixel is inside the board
  and free, and there is exactly one other snake.
* `GameServerProofs` begins with the lemmas about turning, moving and pixels these need.
* `LogsAreWellFormed`, `MapMatchesLog`, `OneSurvivorRemains` and `HeadsAreDrawn` (`GameServerLogProofs`) - what the log, the map and the
  players have to do with each other. The refinement leaves only four things that can happen to the log (a game starts, a
  pixel is claimed, the game is finished, nothing), and two snakes leave the eliminations no room: `LogInv` adds to `LogWellFormed` and
  `PixelsMatchLog` that the log of a running game has no elimination and that of a finished one a single one, of the first or the second snake (`LogState`). That a head is in its snake's last pixel is kept by the snakes that stay (`SnakesStay`) and restored by the one that moves
  (`SnakeAdvances`): either it stays in its pixel, or the pixel it enters is announced by the same step.
* `GamesAreJoinedAtTheirStart` and `OnlyTheSilentAreDropped` (at the end of `GameServerProofs`) - the action properties `NoMidGameJoin` and `OnlySilentClientsDropped`:
  each action changes the clients in one of a few ways (`ClientsChange`), and a player index changes only where a game starts or ends.
* `SnakesTurnAsAsked` (there too) - `TurnsAsAsked`, under the hypothesis it needs: the byte for a turn to the right is 256 too large, and 256 turning speeds are full turns exactly for multiples
  of 45 degrees. The default, 6, is none, which is the finding of `server_left_turn`.

`EventSenderProofs` assumes only `SenderAssumption`: any number of clients, any rosters, any limit of a reply, any number and length of games.

* `Invariance` - `Spec => []IInv`. `SnapshotIsPast`: the copy is empty or a prefix of some game's log, because logs only
  grow. It gives `SentEventsAreGenuine`. For `NewGamesAreAnnounced` the invariant adds that the owed are connected, that logs are never empty (so
  the snapshot of a running game has a first event), and `FirstEventIsSentFirst`: once the sender has sent part of a reply after the flag was consumed,
  the client it serves is owed nothing. Without it a new game that starts in mid-reply could not be told from one already announced.
* `TypeCorrect`, `NewGamesAreAnnounced` and `SentEventsAreGenuine` follow. The client served next exists by the lemma `LeastNumber`
  (every non-empty set of numbers has a least one), and a datagram's choice `Packed` by `PackedBounds`, because no events always fit.
* `RepliesFitDatagrams` - whatever is packed has at most 512 bytes. The length of a sequence of events is a recursive function; that it exists and is a
  number (`CountsExist`, `PrefixLenCounts`) is proved without an induction scheme, by looking at the least length at which it would fail. The same argument bounds it
  (`PrefixLenBound`: the names once and 22 bytes an event), which the theorems about sessions use.

`GameSessionProofs` assumes `SessionAssumption`: any of the faults, any rosters, any limits of replies, wire and queue. The lemmas about the sender are
those of `EventSenderProofs`, taken over by an instance (`SenderKeeps`).

* `NumbersHaveNoGaps` and `AcceptedEventsAreGenuine` hold whatever the network does. Their invariant `IInv` says that whatever is under way or waits in the client is part of the
  log of some game (`WireIsGenuine`, `EventsAreGenuine`), that logs are only made longer and have NEW_GAME at their beginning and nowhere else
  (`LogsBegin`), and that `next_expected_event` is 0 or one past the last accepted event (`NextIsExpected`), which alone would not survive the reset in the middle of
  a datagram were it not for the comparison that follows.
* `ClientStaysAlive` holds under `RepliesAreShort`: five events and the roster, with the first event counted twice as `server_message::from` does, fit 512 bytes (the longest two names
  make 4 + 142 + 110 + 164 = 420, see `EventRecords`). `ShortRepliesAreRead` needs `NamesAreReadable` as well: no name is longer than 64 characters, because a roster with one that is longer is refused.
  Then every reply is one datagram, begins with the event that was asked for and, if its names are readable, is read whole (`ReadableLogs`: of a log only the first event can be refused); a client without a roster has never asked
  for anything but event 0 (`FirstContact`), so the first event it handles is a NEW_GAME and no event names a player it does not know.

* `ClientFollowsTheLogs` (`GameSessionRefinement`) - `Spec => FollowsTheLogs`: a session implements `LogFollower` if `RepliesAreShort`, `NamesAreReadable` and the network has no faults (`Orderly`).
  `OrderInv` follows the games through the session: what is on the wire and in the inbox never goes back to an older game, and enters a newer one with its first event
  (`Follows`). At the sender's end (`SenderInOrder`) a game that the wire has not reached is either announced by `send_new_events`, or in the sender's hands from event 0, or there is
  nothing the client has ever been sent (`Fresh`); that last case, of a client that connects after the flag has been consumed, is why `FirstContact` is needed again. At the client's end
  an event with a number other than 0 is then of the game of the last accepted event, and `NextIsExpected` makes it the next of its log.

`StartUpProofs` assumes `WordAssumption`, `StartUpAssumption` and `TextsAssumption`: any texts for the command lines, the names, hosts and ports, and any width of numbers.

* `ParsedIsMeant` - `util::parse`, which builds the number negated in 64 bits and turns it round at the end, gives the number a text means, or refuses it if it is
  none, unless it is a lone sign or too long for 64 bits (`Plain`). Parsing and meaning are two folds over the digits. No induction rule takes part: each fold goes
  through a sequence of values (`FoldExists`, `FirstOnes`), and that the two sequences agree up to every position (`UpTo`) follows from the least number at which they would not (`LeastNumber`). A number that fits does not wrap on the way either, because the sums only move away from zero (`ReadingGrows`).
* The loop over the options is a third fold: as long as every option is good it has the last word on each, and one bad option makes and keeps it `NoConfiguration`; its
  numbers are always of the accepted ranges, whatever wraps. `SplitHostname` undoes `TextOf`, since the last colon is the one before the port.
* `StartUpInv` says where the programs are while they start: what is read is a line that may be given, what a running server has is of accepted numbers, a name is a text.

`PlayerStationProofs` needs these assumptions, those of the geometry and `StationAssumption`, and nothing else: any number of games the client tells of, any room for what is under way.

* `ConfigurationsAreSound`, `OptionsAreTakenAsWritten`, `SettingsAreTakenAsWritten` and `NamesReachTheServer` follow from `StartUpInv`: each step of the station is one of the
  start or leaves its variables alone (`StartsUp`).
* `KeysComeToWhatIsHeld` and `HeldKeySteers`. `KeysInv`: while both programs are there, reading all that is under way, from whatever part of a line has been matched, gives the keys as they
  are held. `recv` keeps it because pieces may be read in two parts (`ReadInParts`), a key because one whole line more changes one key (`ReadOneMoreLine`, `WholeLineIsMatched`).
  The turn on the screen depends on the turning speed: `SpeedSteers` says that a turn by it goes left and one by 255 times it, the byte -1, right. `SteeringSpeeds` says which speeds these
  are when nothing overflows, and `DefaultSpeedDoesNotSteer` that the default, 6, is not among them: 255 * 6 is 90 modulo 360, so the right key turns
  left. That is the disagreement of the run `server_left_turn` seen from the keyboard. The instance `station` has 90, which steers.
* `LinesAreExecutedWhole` and `PictureIsOfOneGame`. `ScreenInv` puts the order of what is under way beside the two properties: pieces follow one another within a line, lines of one game are together,
  and the next game begins with a NEW_GAME (`IsStream`, `Follows`). The reader takes the pieces up to a newline or all that have arrived, so what it leaves is a stream again (`StreamSuffix`), and it sees a
  line from its first piece exactly if it has not forgotten its beginning (`LineIsTaken`). What a client leaves that ends in the midst of a `send` is the beginning of a stream and so one itself (`StreamPrefix`); without its
  newline the reader takes all of it, so that a part that is carried out is the last. `PictureInv` connects the table with the stream: unless a NEW_GAME was lost, the next line is
  of the game in the table, or it is a NEW_GAME; the field alone could be mixed by the next pixel.

Only model-checked: liveness (`ENABLED` is out of the prover's reach). `TurnsAsAsked` and `HeldKeySteersThatWay` are proved under their hypotheses about the turning speed, which are not assumptions of the model
because the code does not make them.

## 5. Plan

Done: `SnakeMotion`, `GameServer`, `GameRules` and their proofs; `EventRecords`, `EventSender` and its proofs; `GameClient`,
`GameSession`, `LogFollower` and their proofs, the refinement among them; `Arguments`, `StartUp`, `ArrowKeys`, `FrontEnd` and `PlayerStation`, which compose the player's side.

The safety of the player's side is proved as well (`StartUpProofs`, `PlayerStationProofs`).

Next: that the keys, as `ArrowKeys` keeps them, implement an abstract keyboard whose steps are those of the player, and that the station implements an abstract screen, which is told the
games in order and shows the last one it has heard of.

## 6. Not modelled

The checksum (third-party, stateless: a damaged datagram is a lost one), the parsing of damaged records for the same reason, how the front ends build their window and
paint (colours, labels, the nine pixels of gui2 and gui3), the arithmetic of the random generator (any value is allowed instead), and
the build files. Data races of the client are modelled where their outcome matters (the names); the numbers that several threads share are
words that the supported builds read and write at once. The receiver of the client that waits for `events_lock` while a line is being sent is not composed with
`GameSession`: there the front end always reads.
