----------------------------- MODULE GameSession -----------------------------
(***************************************************************************)
(* One client and the server's sending thread with the network between     *)
(* them.  Datagrams to the client are on the wire in the order they were   *)
(* sent; Faults says what may happen to them and to the client's own:      *)
(* "loss", "delay" (one overtakes another) and "repeat" (one comes twice). *)
(* That the server drops a silent client and takes it back is to the       *)
(* client as if what it would have been sent meanwhile had been lost.      *)
(***************************************************************************)
EXTENDS Integers, Sequences

CONSTANTS
    Faults,                                         \* of the network
    MaxWire, MaxUplink,                             \* bounds: datagrams under way
    NumClients, NamesLens, LongestNames, MaxSend, MaxGames, MaxLog, MaxQueue

ASSUME SessionAssumption ==
    /\ Faults \subseteq {"loss", "delay", "repeat"}
    /\ NumClients = 1 /\ MaxWire \in Nat \ {0} /\ MaxUplink \in Nat \ {0}
    /\ NamesLens \subseteq Nat /\ LongestNames \subseteq Nat /\ MaxSend \in Nat \ {0}
    /\ MaxGames \in Nat /\ MaxLog \in Nat

VARIABLES
    games, sendNewEvents, clients, snapshot, todo, sent, owed,
    nextExpected, roster, inbox, receiving, queue, telling, told, quit,
    wire,            \* datagrams under way to the client
    uplink           \* next_expected_event of the messages under way

Sender == INSTANCE EventSender
Client == INSTANCE GameClient

server == <<games, sendNewEvents, clients, snapshot, todo, sent, owed>>
client == <<nextExpected, roster, inbox, receiving, queue, telling, told, quit>>
network == <<wire, uplink>>
vars == <<server, client, network>>

Init == Sender!Init /\ Client!Init /\ wire = << >> /\ uplink = << >>

Without(s, k) == SubSeq(s, 1, k - 1) \o SubSeq(s, k + 1, Len(s))
Arriving(s) == IF "delay" \in Faults THEN DOMAIN s ELSE DOMAIN s \cap {1}

-----------------------------------------------------------------------------
(* The server by itself. *)
Play ==
    /\ Sender!StartGame \/ Sender!PlayRound \/ Sender!TakeSnapshot \/ Sender!NothingToSend
    /\ UNCHANGED <<client, network>>

(* A datagram goes on the wire. *)
Send ==
    /\ Len(wire) < MaxWire
    /\ Sender!SendDatagram
    /\ wire' = Append(wire, Sender!NextDatagram)
    /\ UNCHANGED <<client, uplink>>

(* The events read from a datagram, with the numbers they were generated   *)
(* under.                                                                  *)
EventsOf(d) ==
    [k \in 1 .. Sender!ReadCount(d.events) |->
        Client!Event(d.game, d.first + k - 1, d.events[k].type)]

(* A datagram reaches the client. *)
Deliver ==
    /\ \E k \in Arriving(wire) :
          /\ Client!Receive(EventsOf(wire[k]))
          /\ \/ wire' = Without(wire, k)
             \/ "repeat" \in Faults /\ UNCHANGED wire
    /\ UNCHANGED <<server, uplink>>

ClientStep == Client!Step /\ UNCHANGED <<server, network>>

(* send_game_job: the message carries next_expected_event as it is just now. *)
Heartbeat ==
    /\ ~quit /\ Len(uplink) < MaxUplink
    /\ uplink' = Append(uplink, nextExpected)
    /\ UNCHANGED <<server, client, wire>>

(* The message reaches the server. *)
Hear ==
    /\ \E k \in Arriving(uplink) :
          /\ Sender!Hear(1, uplink[k])
          /\ \/ uplink' = Without(uplink, k)
             \/ "repeat" \in Faults /\ UNCHANGED uplink
    /\ UNCHANGED <<client, wire>>

(* A datagram is lost. *)
Lose ==
    /\ "loss" \in Faults
    /\ \/ /\ \E k \in DOMAIN wire : wire' = Without(wire, k)
          /\ UNCHANGED uplink
       \/ /\ \E k \in DOMAIN uplink : uplink' = Without(uplink, k)
          /\ UNCHANGED wire
    /\ UNCHANGED <<server, client>>

Next == Play \/ Send \/ Deliver \/ ClientStep \/ Heartbeat \/ Hear \/ Lose

Spec == Init /\ [][Next]_vars

(* Every thread runs on, and the network delivers what is sent again and   *)
(* again.                                                                  *)
Fairness ==
    /\ WF_vars(Sender!TakeSnapshot /\ UNCHANGED <<client, network>>)
    /\ WF_vars(Sender!NothingToSend /\ UNCHANGED <<client, network>>)
    /\ SF_vars(Send) /\ SF_vars(Deliver) /\ SF_vars(Hear) /\ SF_vars(Heartbeat)
    /\ SF_vars(Client!ReceiverStep /\ UNCHANGED <<server, network>>)
    /\ WF_vars(Client!GuiStep /\ UNCHANGED <<server, network>>)

FairSpec == Spec /\ Fairness

-----------------------------------------------------------------------------
(***************************************************************************)
(* Properties.                                                             *)
(***************************************************************************)

(* The last event the client has accepted. *)
Accepted == LET last == IF queue = << >> THEN told ELSE queue[Len(queue)]
            IN  [game |-> last.game, no |-> last.no]

(* With a network that delivers in order and loses nothing, what the       *)
(* client accepts follows the logs of the games.                           *)
Follower == INSTANCE LogFollower WITH at <- Accepted
FollowsTheLogs == Follower!Spec

(* Whatever the network does, the numbers of the accepted events have no   *)
(* gaps: each is one more than the one before or that of a NEW_GAME.       *)
NumbersAreGapless ==
    /\ \A k \in 1 .. Len(queue) - 1 :
          queue[k + 1].no \in {queue[k].no + 1, 0}
    /\ queue # << >> => Head(queue).no \in {told.no + 1, 0}

(* Whatever the network does, no datagram of the server makes the client   *)
(* end: it never hears of a player before it knows a roster.               *)
NeverQuits == ~quit

(* What has been accepted is what the server generated: the type of an     *)
(* event told or queued is that of the event of this number in its game.   *)
AcceptsGenuineEvents ==
    \A e \in {queue[k] : k \in DOMAIN queue} \cup {told} :
        e = Client!Nothing \/ /\ e.game \in DOMAIN games
                              /\ e.no + 1 \in DOMAIN games[e.game]
                              /\ e.type = games[e.game][e.no + 1].type

(* The client is given every event of every datagram that reaches it: the  *)
(* reader counts the length of a datagram against the limit twice, but the *)
(* names of two players and the events of one reply leave room for that.   *)
(* This is so for names of up to 63 characters.  One of 64 is kept without *)
(* a terminating zero, so that the server reads on into what comes after   *)
(* it; the name in its NEW_GAME is then longer than the client takes.      *)
DatagramsAreReadInFull ==
    \A k \in DOMAIN wire : Sender!ReadCount(wire[k].events) = Len(wire[k].events)

(* However the games go on, there comes a time when the client knows the   *)
(* roster of the game the server is in: the server has it still and sends  *)
(* it in need (zadanie_2, lines 16 to 18).                                 *)
KnowsTheCurrentGame == games # << >> ~> roster = Len(games)

-----------------------------------------------------------------------------
(***************************************************************************)
(* The inductive invariant.  Whatever is on its way to the client or has   *)
(* reached it is part of the log of some game, which only grows.           *)
(***************************************************************************)
EventTypes == {"NEW_GAME", "PIXEL", "PLAYER_ELIMINATED", "GAME_OVER"}
NumberedEvents == [game : Nat, no : Nat, type : EventTypes]
Datagrams == [to : Nat, game : Nat, first : Nat, events : Seq(Sender!Events)]

(* Every variable of the client and the network keeps its type. *)
TypeOK ==
    /\ wire \in Seq(Datagrams) /\ uplink \in Seq(Nat)
    /\ inbox \in Seq(NumberedEvents) /\ queue \in Seq(NumberedEvents)
    /\ nextExpected \in Nat /\ roster \in Nat
    /\ receiving \in {"event", "roster", "compare"}
    /\ telling \in BOOLEAN /\ quit \in BOOLEAN
    /\ told \in {Client!Nothing}
                   \cup [game : Nat, no : Nat, type : EventTypes, named : Nat]

LogsBegin ==
    \A g \in DOMAIN games : \A k \in DOMAIN games[g] :
        /\ games[g][k].type = "NEW_GAME" <=> k = 1
        /\ k = 1 => games[g][k].namesLen \in NamesLens /\ games[g][k].longest \in LongestNames

IsGenuine(e) == /\ e.game \in DOMAIN games /\ e.no + 1 \in DOMAIN games[e.game]
                /\ e.type = games[e.game][e.no + 1].type

EventsAreGenuine ==
    /\ \A k \in DOMAIN inbox : IsGenuine(inbox[k])
    /\ \A k \in DOMAIN queue : IsGenuine(queue[k])
    /\ told = Client!Nothing \/ IsGenuine(told)

WireIsGenuine ==
    \A k \in DOMAIN wire :
        LET d == wire[k]
        IN  /\ d.game \in DOMAIN games /\ Len(d.events) <= MaxSend
            /\ \A j \in DOMAIN d.events :
                  /\ d.first + j \in DOMAIN games[d.game]
                  /\ d.events[j] = games[d.game][d.first + j]

ThreadsAtWork ==
    /\ receiving # "event" => inbox # << >> /\ Head(inbox).type = "NEW_GAME"
    /\ telling => queue # << >>

NextIsExpected == nextExpected \in {Accepted.no + 1, 0}

IInv == /\ Sender!IInv /\ TypeOK /\ LogsBegin
        /\ EventsAreGenuine /\ WireIsGenuine /\ ThreadsAtWork
        /\ NumbersAreGapless /\ NextIsExpected

(***************************************************************************)
(* What the real limits of a reply add: it fits one datagram, with room to *)
(* spare (5 events and the names of two players, at most 142 bytes).       *)
(***************************************************************************)
RepliesAreShort ==
    \A n \in NamesLens :
        Sender!GameIdLen + (n + 22 * MaxSend) + (n + 22) <= Sender!MaxDatagramLen

(* What nothing ensures: no player has a name of 64 characters.            *)
NamesAreReadable == \A longest \in LongestNames : longest <= Sender!MaxNameLen

(* A client without a roster has never asked for anything but event 0. *)
FirstContact ==
    roster = Client!NoRoster =>
        /\ nextExpected = 0 /\ receiving # "compare"
        /\ \A k \in DOMAIN uplink : uplink[k] = 0
        /\ \A c \in DOMAIN clients : clients[c] = 0
        /\ \A c \in DOMAIN todo : todo[c] = 0
        /\ \A k \in DOMAIN wire : wire[k].first = 0
        /\ inbox # << >> => Head(inbox).no = 0

ShortInv == sent = 0 /\ FirstContact /\ NeverQuits

(***************************************************************************)
(* What a network that keeps the order and loses nothing adds: the games   *)
(* are passed on in their order, and each begins with its first event.     *)
(***************************************************************************)
Fresh == /\ wire = << >> /\ inbox = << >> /\ queue = << >>
         /\ told = Client!Nothing /\ roster = Client!NoRoster

(* The game that the client has reached, and the one the wire has. *)
Handled == IF inbox = << >> THEN Accepted.game ELSE Head(inbox).game
Reached == IF wire = << >> THEN Handled ELSE wire[Len(wire)].game

(* Game g from event `first' on may come after what is of game `before'. *)
Follows(g, first, before) == before <= g /\ (before < g => first = 0)

InboxInOrder ==
    inbox # << >> =>
        /\ \A k \in DOMAIN inbox : inbox[k].game = Head(inbox).game
        /\ Follows(Head(inbox).game, Head(inbox).no, Accepted.game)
        /\ receiving # "event" => nextExpected = 0

WireInOrder ==
    \A k \in DOMAIN wire :
        /\ wire[k].events # << >>
        /\ Follows(wire[k].game, wire[k].first, IF k = 1 THEN Handled ELSE wire[k - 1].game)

SenderInOrder ==
    /\ DOMAIN todo \subseteq DOMAIN clients
    /\ 1 \notin DOMAIN clients => Fresh
    /\ 1 \in DOMAIN todo =>
          /\ Follows(snapshot.game, todo[1], Reached)
          /\ sendNewEvents \/ snapshot.game = Len(games)
    /\ 1 \in DOMAIN todo \/ sendNewEvents \/ Fresh \/ Reached = Len(games)

OrderInv == InboxInOrder /\ WireInOrder /\ SenderInOrder

-----------------------------------------------------------------------------
(***************************************************************************)
(* What the assignment says and the client does not do.                    *)
(***************************************************************************)

(* The name in a line for the front end is that of the player the event is *)
(* about (zadanie_2, lines 358 to 364): it is looked up in the roster of   *)
(* the event's own game.                                                   *)
LinesNameTheRightPlayer ==
    told.type \in {"PIXEL", "PLAYER_ELIMINATED"} => told.named = told.game

=============================================================================
