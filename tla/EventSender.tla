----------------------------- MODULE EventSender -----------------------------
(***************************************************************************)
(* The sending thread of src/server.cc: send_events_job copies the events  *)
(* of the current game and the event each client expects next under the    *)
(* lock, then broadcast_events packs and sends them without it, while the  *)
(* other threads go on.                                                    *)
(*                                                                         *)
(* The rest of the server is here only what the sender sees of it between  *)
(* critical sections (GameServer has it in full): a game starts, a round   *)
(* adds events, a client is heard or dropped.  A client is its place in    *)
(* the order of addresses.                                                 *)
(***************************************************************************)
EXTENDS EventRecords, FiniteSets

CONSTANTS
    NumClients,      \* addresses messages may come from
    NamesLens,       \* lengths of the rosters of games
    LongestNames,    \* and of the longest names in them
    MaxSend,         \* max_send_count
    MaxGames,        \* bound: games that are started
    MaxLog           \* bound: events of a game that rounds add to

ASSUME SenderAssumption ==
    /\ NumClients \in Nat /\ NamesLens \subseteq Nat /\ LongestNames \subseteq Nat
    /\ MaxSend \in Nat \ {0} /\ MaxGames \in Nat /\ MaxLog \in Nat

Clients == 1..NumClients

VARIABLES
    games,           \* the logs of all games; the last is game_state.events
    sendNewEvents,   \* game_state.send_new_events
    clients,         \* connected client -> its last next_expected_event
    snapshot,        \* the sender's copy: a game and its events so far
                     \* (not used, and forgotten here, once all are served)
    todo,            \* clients not served yet -> the event to begin with
    sent,            \* events already sent to the client being served
    owed             \* clients connected since the last game started that
                     \* its first event has not been sent to (a ghost)

server == <<games, sendNewEvents, clients>>
vars == <<server, snapshot, todo, sent, owed>>

Log == IF games = << >> THEN << >> ELSE games[Len(games)]
NoSnapshot == [game |-> 0, events |-> << >>]
Busy == DOMAIN todo # {}
InProgress == Log # << >> /\ Log[Len(Log)].type # "GAME_OVER"

Init ==
    /\ games = << >> /\ sendNewEvents = FALSE /\ clients = << >>
    /\ snapshot = NoSnapshot
    /\ todo = << >> /\ sent = 0
    /\ owed = {}

-----------------------------------------------------------------------------
(***************************************************************************)
(* The server.  A game starts with two pixels or, when the second snake is *)
(* put on the first, is over at once; a round may move one snake or both   *)
(* into a new pixel and may end the game, with GAME_OVER right after the   *)
(* elimination.                                                            *)
(***************************************************************************)
Placements == {<<Pixel, Pixel>>, <<Pixel, Eliminated, GameOver>>}
Moves == {<<Pixel>>, <<Pixel, Pixel>>,
          <<Eliminated, GameOver>>, <<Pixel, Eliminated, GameOver>>}
(* Fault: a roster of any length is taken. *)
Rosters_Any == NamesLens
(* try_start_game leaves out clients whose names do not fit a datagram. *)
Rosters == {n \in NamesLens : n <= MaxNamesLen}

StartGame ==
    /\ ~InProgress /\ Len(games) < MaxGames
    /\ \E n \in Rosters, longest \in LongestNames, placed \in Placements :
          /\ longest < n
          /\ games' = Append(games, <<NewGame(n, longest)>> \o placed)
    /\ sendNewEvents' = TRUE
    /\ owed' = DOMAIN clients
    /\ UNCHANGED <<clients, snapshot, todo, sent>>

PlayRound ==
    /\ InProgress
    /\ \E moved \in Moves :
          /\ Len(Log \o moved) <= MaxLog
          /\ games' = [games EXCEPT ![Len(games)] = Log \o moved]
    /\ UNCHANGED <<sendNewEvents, clients, snapshot, todo, sent, owed>>

(* A message of a client replaces the last one. *)
Hear(c, next) ==
    /\ clients' = [d \in DOMAIN clients \cup {c} |->
                      IF d = c THEN next ELSE clients[d]]
    /\ UNCHANGED <<games, sendNewEvents, snapshot, todo, sent, owed>>

Drop(c) ==
    /\ c \in DOMAIN clients
    /\ clients' = [d \in DOMAIN clients \ {c} |-> clients[d]]
    /\ owed' = owed \ {c}
    /\ UNCHANGED <<games, sendNewEvents, snapshot, todo, sent>>

-----------------------------------------------------------------------------
(* Fault: the flag is forgotten. *)
FirstWanted_AsAsked(c) == clients[c]

(***************************************************************************)
(* send_events_job: the critical section.  The flag makes every client     *)
(* hear the current game from its first event, whatever it asked for.      *)
(***************************************************************************)
FirstWanted(c) == IF sendNewEvents THEN 0 ELSE clients[c]

TakeSnapshot ==
    /\ ~Busy
    /\ snapshot' = IF DOMAIN clients = {} THEN NoSnapshot
                   ELSE [game |-> Len(games), events |-> Log]
    /\ todo' = [c \in DOMAIN clients |-> FirstWanted(c)]
    /\ sent' = 0
    /\ sendNewEvents' = FALSE
    /\ UNCHANGED <<games, clients, owed>>

(***************************************************************************)
(* broadcast_events for the next client of the snapshot: it is sent at     *)
(* most MaxSend events, in datagrams that take as many as fit.             *)
(***************************************************************************)
Served == CHOOSE c \in DOMAIN todo : \A d \in DOMAIN todo : c <= d
Available == Len(snapshot.events)

(* Fault: the last event is never sent. *)
SendCount_NotLast(next) ==
    IF next + 1 >= Available THEN 0
    ELSE IF Available - next < MaxSend THEN Available - next ELSE MaxSend

SendCount(next) ==
    IF next > Available THEN 0
    ELSE IF Available - next < MaxSend THEN Available - next ELSE MaxSend

(* Fault: the events are taken from the log, which may have moved on. *)
Cut_Live(first, count) == SubSeq(Log, first + 1, first + count)
Cut(first, count) == SubSeq(snapshot.events, first + 1, first + count)

Fits(events) == EventsLen(events) <= MaxEventsLen

(* Fault: the size of a datagram is not limited. *)
Packed_All(first, count) == count

(* The number of events, at most count, that the next datagram takes. *)
Packed(first, count) ==
    CHOOSE k \in 0..count :
        /\ Fits(Cut(first, k))
        /\ k = count \/ ~Fits(Cut(first, k + 1))

Finish(c) ==
    /\ todo' = [d \in DOMAIN todo \ {c} |-> todo[d]]
    /\ sent' = 0
    /\ snapshot' = IF DOMAIN todo = {c} THEN NoSnapshot ELSE snapshot

Sends == Busy /\ sent < SendCount(todo[Served])

(* Fault: the number of the game is read after the lock is released. *)
NextDatagram_LiveGame ==
    LET first == todo[Served] + sent
    IN  [to |-> Served, game |-> Len(games), first |-> first,
         events |-> Cut(first, Packed(first, SendCount(todo[Served]) - sent))]

NextDatagram ==
    LET first == todo[Served] + sent
    IN  [to |-> Served, game |-> snapshot.game, first |-> first,
         events |-> Cut(first, Packed(first, SendCount(todo[Served]) - sent))]

SendDatagram ==
    /\ Sends
    /\ LET c == Served
           done == sent + Len(NextDatagram.events)
       IN  /\ owed' = IF NextDatagram.first = 0 /\ snapshot.game = Len(games)
                      THEN owed \ {c} ELSE owed
           /\ \/ done = SendCount(todo[c]) /\ Finish(c)
              \/ done < SendCount(todo[c]) /\ sent' = done /\ UNCHANGED <<todo, snapshot>>
    /\ UNCHANGED server

NothingToSend ==
    /\ Busy /\ SendCount(todo[Served]) = 0
    /\ Finish(Served)
    /\ UNCHANGED <<server, owed>>

-----------------------------------------------------------------------------
Server == \/ StartGame \/ PlayRound
          \/ \E c \in Clients : Drop(c) \/ \E next \in 0..MaxLog : Hear(c, next)
Broadcast == SendDatagram \/ NothingToSend

Next == Server \/ TakeSnapshot \/ Broadcast

Spec == Init /\ [][Next]_vars

(* The thread sleeps 5 ms between rounds and otherwise runs on; sendto is  *)
(* called with MSG_DONTWAIT and does not wait.                             *)
FairSpec == Spec /\ WF_vars(TakeSnapshot) /\ WF_vars(Broadcast)

-----------------------------------------------------------------------------
(***************************************************************************)
(* Properties.                                                             *)
(***************************************************************************)

(* Every variable keeps its type. *)
TypeOK ==
    /\ games \in Seq(Seq(Events)) /\ sendNewEvents \in BOOLEAN
    /\ DOMAIN clients \subseteq Clients /\ clients \in [DOMAIN clients -> Nat]
    /\ snapshot \in [game : 0 .. Len(games), events : Seq(Events)]
    /\ DOMAIN todo \subseteq Clients /\ todo \in [DOMAIN todo -> Nat]
    /\ sent \in 0 .. MaxSend - 1
    /\ owed \subseteq Clients

(* A datagram holds consecutive events of one game, under that game's      *)
(* number, even if the game has ended and the next has begun since the     *)
(* snapshot was taken.                                                     *)
DatagramsAreGenuine ==
    Sends => LET d == NextDatagram
             IN  /\ d.game \in DOMAIN games
                 /\ d.first + Len(d.events) <= Len(games[d.game])
                 /\ d.events = SubSeq(games[d.game], d.first + 1, d.first + Len(d.events))

(* No datagram exceeds the 512 bytes of MAX_EVENT_PACKET_DATA_SIZE. *)
DatagramsFit ==
    Sends => GameIdLen + EventsLen(NextDatagram.events) <= MaxDatagramLen

(* A new game is announced to everybody who was connected when it started  *)
(* and still is: until the flag is consumed it says so, and from then on   *)
(* the client is among those the sender has still to serve from event 0 of *)
(* this game.  A game that starts while the sender is busy is not lost.    *)
AnnouncementsArePending ==
    owed # {} /\ ~sendNewEvents =>
        /\ snapshot.game = Len(games)
        /\ \A c \in owed : c \in DOMAIN todo /\ todo[c] = 0

-----------------------------------------------------------------------------
(***************************************************************************)
(* The inductive invariant.  The copy is a past of some game's log, which  *)
(* only grows; a client that has been sent something after the flag was    *)
(* consumed has been sent the first event.                                 *)
(***************************************************************************)
LogsHaveBegun ==
    /\ \A g \in DOMAIN games : games[g] # << >>
    /\ owed # {} => games # << >>

SnapshotIsPast ==
    \/ snapshot = NoSnapshot
    \/ /\ snapshot.game \in DOMAIN games
       /\ Available \in 1 .. Len(games[snapshot.game])
       /\ snapshot.events = SubSeq(games[snapshot.game], 1, Available)

FirstEventIsSentFirst ==
    sent > 0 /\ ~sendNewEvents => Busy /\ Served \notin owed

IInv == /\ TypeOK /\ LogsHaveBegun /\ SnapshotIsPast
        /\ owed \subseteq DOMAIN clients
        /\ AnnouncementsArePending /\ FirstEventIsSentFirst

-----------------------------------------------------------------------------
(* The sender serves all clients of a snapshot and takes the next: the     *)
(* packing loop always gets on, because every event fits a datagram.       *)
RoundsEnd == Busy ~> ~Busy

(* A client that goes on asking for an event is sent it, as long as the    *)
(* current game, which may become another one meanwhile, has it.           *)
Asks(c, n) == c \in DOMAIN clients /\ clients[c] = n
Gets(c, n) ==
    Sends /\ LET d == NextDatagram
             IN  /\ d.to = c /\ d.game = Len(games)
                 /\ n \in d.first .. d.first + Len(d.events) - 1

AskedEventIsSent ==
    \A c \in Clients, n \in 0 .. MaxLog - 1 :
        (Asks(c, n) /\ n < Len(Log)) ~> (~Asks(c, n) \/ n >= Len(Log) \/ Gets(c, n))

=============================================================================
