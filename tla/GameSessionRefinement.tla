------------------------ MODULE GameSessionRefinement ------------------------
(***************************************************************************)
(* A session implements LogFollower when the network keeps the order and   *)
(* loses and repeats nothing, for any rosters whose replies are short and  *)
(* whose names are readable, any limits of the wire, the queue and the     *)
(* logs.                                                                   *)
(***************************************************************************)
EXTENDS GameSessionProofs

Orderly == Faults = {} /\ RepliesAreShort /\ NamesAreReadable

(***************************************************************************)
(* Where the client is.                                                    *)
(***************************************************************************)
LEMMA ReachedIsKnown ==
    ASSUME IInv
    PROVE  /\ Accepted.game \in 0 .. Len(games) /\ Accepted.no \in Nat \cup {-1}
           /\ Handled \in 0 .. Len(games) /\ Reached \in 0 .. Len(games)
           /\ Len(games) \in Nat /\ DOMAIN games = 1 .. Len(games)
<1>1. Len(games) \in Nat /\ DOMAIN games = 1 .. Len(games)
  BY LenProperties DEF IInv, Sender!IInv, Sender!TypeOK
<1>2. /\ wire \in Seq(Datagrams) /\ inbox \in Seq(NumberedEvents)
      /\ queue \in Seq(NumberedEvents)
  BY DEF IInv, TypeOK
<1>3. Accepted.game \in 0 .. Len(games) /\ Accepted.no \in Nat \cup {-1}
  <2>1. CASE queue = << >> /\ told = Client!Nothing
    BY <1>1, <2>1 DEF Accepted, Client!Nothing
  <2>2. CASE queue = << >> /\ told # Client!Nothing
    <3>1. told.game \in DOMAIN games /\ told.no \in Nat
      BY <2>2 DEF IInv, TypeOK, EventsAreGenuine, IsGenuine
    <3>. QED  BY <1>1, <2>2, <3>1 DEF Accepted
  <2>3. CASE queue # << >>
    <3>. DEFINE last == queue[Len(queue)]
    <3>1. last \in NumberedEvents /\ Len(queue) \in DOMAIN queue
      BY <1>2, <2>3, RestOf
    <3>2. last.game \in DOMAIN games /\ last.no \in Nat
      BY <3>1 DEF IInv, EventsAreGenuine, IsGenuine, NumberedEvents
    <3>. QED  BY <1>1, <2>3, <3>2 DEF Accepted
  <2>. QED  BY <2>1, <2>2, <2>3
<1>4. Handled \in 0 .. Len(games)
  <2>1. ASSUME inbox # << >>
        PROVE  Head(inbox).game \in 0 .. Len(games)
    <3>1. Head(inbox) = inbox[1] /\ 1 \in DOMAIN inbox
      BY <1>2, <2>1, RestOf
    <3>. QED  BY <1>1, <3>1 DEF IInv, EventsAreGenuine, IsGenuine
  <2>. QED  BY <1>3, <2>1 DEF Handled
<1>5. Reached \in 0 .. Len(games)
  <2>1. ASSUME wire # << >>
        PROVE  wire[Len(wire)].game \in 0 .. Len(games)
    <3>1. Len(wire) \in DOMAIN wire
      BY <1>2, <2>1, RestOf
    <3>. QED  BY <1>1, <3>1 DEF IInv, WireIsGenuine
  <2>. QED  BY <1>4, <2>1 DEF Reached
<1>. QED  BY <1>1, <1>3, <1>4, <1>5

(* A client that has been sent something is connected, and all it has to   *)
(* be told of a new game is still before it.                               *)
LEMMA ConnectedIfNotFresh ==
    ASSUME OrderInv, ~Fresh
    PROVE  /\ 1 \in DOMAIN clients
           /\ 1 \in DOMAIN todo \/ sendNewEvents \/ Reached = Len(games)
BY DEF OrderInv, SenderInOrder

(* What does not move the client leaves it where it is. *)
LEMMA SamePosition ==
    ASSUME UNCHANGED <<inbox, queue, told, wire>>
    PROVE  Accepted' = Accepted /\ Handled' = Handled /\ Reached' = Reached
BY DEF Accepted, Handled, Reached

LEMMA OrderStays ==
    ASSUME InboxInOrder, WireInOrder,
           UNCHANGED <<inbox, receiving, queue, told, wire, nextExpected>>
    PROVE  InboxInOrder' /\ WireInOrder'
BY SamePosition DEF InboxInOrder, WireInOrder

-----------------------------------------------------------------------------
(***************************************************************************)
(* OrderInv is kept: the server.                                           *)
(***************************************************************************)
LEMMA ServedIsTheClient ==
    ASSUME IInv, Sender!Busy
    PROVE  Sender!Served = 1 /\ DOMAIN todo = {1}
<1>1. Sender!Clients = {1}
  BY SessionAssumption DEF Sender!Clients
<1>2. DOMAIN todo \subseteq {1} /\ DOMAIN todo # {}
  BY <1>1 DEF IInv, Sender!IInv, Sender!TypeOK, Sender!Busy
<1>3. DOMAIN todo = {1}
  BY <1>2
<1>4. Sender!Served \in DOMAIN todo
  <2>1. 1 \in DOMAIN todo /\ \A d \in DOMAIN todo : 1 <= d
    BY <1>3
  <2>. QED  BY <2>1 DEF Sender!Served
<1>. QED  BY <1>3, <1>4

LEMMA PlayOrder ==
    ASSUME IInv, ShortInv, OrderInv, Play
    PROVE  OrderInv'
<1>1. UNCHANGED <<client, wire, uplink>>
  BY DEF Play, network
<1>2. /\ UNCHANGED <<nextExpected, roster, inbox, receiving, queue, told>>
      /\ Accepted' = Accepted /\ Handled' = Handled /\ Reached' = Reached
      /\ Fresh' <=> Fresh
  <2>1. UNCHANGED <<nextExpected, roster, inbox, receiving, queue, told, wire>>
    BY <1>1 DEF client
  <2>. QED  BY <2>1, SamePosition DEF Fresh
<1>3. /\ Reached \in 0 .. Len(games) /\ Len(games) \in Nat
      /\ DOMAIN todo \subseteq {1} /\ games \in Seq(Seq(Sender!Events))
  BY ReachedIsKnown, SessionAssumption DEF IInv, Sender!IInv, Sender!TypeOK, Sender!Clients
<1>4. SenderInOrder'
  <2>1. CASE Sender!StartGame
    BY <1>2, <2>1 DEF Sender!StartGame, OrderInv, SenderInOrder
  <2>2. CASE Sender!PlayRound
    <3>1. Len(games') = Len(games)
      BY <1>3, <2>2 DEF Sender!PlayRound
    <3>. QED  BY <1>2, <2>2, <3>1 DEF Sender!PlayRound, OrderInv, SenderInOrder
  <2>3. CASE Sender!TakeSnapshot
    <3>1. /\ DOMAIN todo = {} /\ UNCHANGED <<games, clients>> /\ DOMAIN todo' = DOMAIN clients
          /\ \A c \in DOMAIN clients : todo'[c] = IF sendNewEvents THEN 0 ELSE clients[c]
          /\ DOMAIN clients # {} => snapshot'.game = Len(games)
      BY <2>3 DEF Sender!TakeSnapshot, Sender!Busy, Sender!FirstWanted
    <3>2. CASE 1 \notin DOMAIN clients
      BY <1>2, <3>1, <3>2 DEF OrderInv, SenderInOrder
    <3>3. CASE 1 \in DOMAIN clients
      <4>1. snapshot'.game = Len(games) /\ Reached <= Len(games)
        BY <1>3, <3>1, <3>3
      <4>2. Reached < Len(games) => todo'[1] = 0
        <5>1. sendNewEvents \/ Fresh \/ Reached = Len(games)
          BY <3>1 DEF OrderInv, SenderInOrder
        <5>2. Fresh => clients[1] = 0
          BY <3>3 DEF Fresh, ShortInv, FirstContact
        <5>. QED  BY <1>3, <3>1, <3>3, <5>1, <5>2
      <4>. QED
        BY <1>2, <3>1, <3>3, <4>1, <4>2 DEF SenderInOrder, Follows
    <3>. QED  BY <3>2, <3>3
  <2>4. CASE Sender!NothingToSend
    <3>1. /\ Sender!Busy /\ Sender!SendCount(todo[Sender!Served]) = 0
          /\ UNCHANGED <<games, sendNewEvents, clients>>
          /\ DOMAIN todo' = DOMAIN todo \ {Sender!Served}
      BY <2>4 DEF Sender!NothingToSend, Sender!Finish, Sender!server
    <3>2. Sender!Served = 1 /\ DOMAIN todo = {1} /\ Sender!SendCount(todo[1]) = 0
      BY <3>1, ServedIsTheClient
    <3>3. sendNewEvents \/ Reached = Len(games)
      <4>. SUFFICES ASSUME ~sendNewEvents PROVE Reached = Len(games)
        OBVIOUS
      <4>1. snapshot.game = Len(games) /\ Follows(snapshot.game, todo[1], Reached)
        BY <3>2 DEF OrderInv, SenderInOrder
      <4>. SUFFICES ASSUME Reached < Len(games) PROVE FALSE
        BY <1>3, <4>1
      <4>2. todo[1] = 0 /\ snapshot.game \in Nat \ {0}
        BY <1>3, <4>1 DEF Follows
      <4>3. Sender!Available \in Nat /\ Sender!Available > 0
        <5>1. snapshot # Sender!NoSnapshot
          BY <4>2 DEF Sender!NoSnapshot
        <5>2. games[snapshot.game] \in Seq(Sender!Events)
              /\ Sender!Available \in 1 .. Len(games[snapshot.game])
          BY <5>1, GamesHaveOneRoster DEF IInv, Sender!IInv, Sender!SnapshotIsPast
        <5>3. Len(games[snapshot.game]) \in Nat
          BY <5>2, LenProperties
        <5>. QED  BY <5>2, <5>3
      <4>. QED  BY <3>2, <4>2, <4>3, SessionAssumption DEF Sender!SendCount
    <3>. QED  BY <1>2, <3>1, <3>2, <3>3 DEF OrderInv, SenderInOrder
  <2>. QED  BY <2>1, <2>2, <2>3, <2>4 DEF Play
<1>. QED  BY <1>1, <1>2, <1>4, OrderStays DEF OrderInv

(* A datagram that is sent comes after what has been sent before. *)
LEMMA SendOrder ==
    ASSUME RepliesAreShort, IInv, ShortInv, OrderInv, Send
    PROVE  OrderInv'
<1>. DEFINE d == Sender!NextDatagram
<1>1. /\ Sender!SendDatagram /\ Sender!Busy /\ wire' = Append(wire, d)
      /\ UNCHANGED <<games, sendNewEvents, clients>>
      /\ UNCHANGED <<nextExpected, roster, inbox, receiving, queue, telling, told>>
  BY DEF Send, Sender!SendDatagram, Sender!Sends, Sender!server, client
<1>2. DOMAIN todo = {1} /\ DOMAIN todo' = {} /\ d.game = snapshot.game /\ d.first = todo[1]
  <2>1. Sender!Served = 1 /\ DOMAIN todo = {1}
    BY <1>1, ServedIsTheClient
  <2>2. Sender!Finish(1) /\ d.first = todo[1]
    BY <1>1, <2>1, ReplyIsWhole DEF ShortInv
  <2>. QED  BY <2>1, <2>2 DEF Sender!Finish, Sender!NextDatagram
<1>3. Follows(d.game, d.first, Reached) /\ (sendNewEvents \/ d.game = Len(games))
  BY <1>2 DEF OrderInv, SenderInOrder
<1>4. d.events # << >>
  <2>1. Len(d.events) > 0
    BY <1>1, ReplyIsWhole DEF ShortInv
  <2>. QED  BY <2>1
<1>. HIDE DEF d
<1>5. /\ wire' # << >> /\ Len(wire') = Len(wire) + 1 /\ DOMAIN wire' = 1 .. Len(wire) + 1
      /\ Len(wire) \in Nat /\ DOMAIN wire = 1 .. Len(wire) /\ wire'[Len(wire) + 1] = d
      /\ \A k \in 1 .. Len(wire) : wire'[k] = wire[k]
  <2>1. wire \in Seq(Datagrams)
    BY DEF IInv, TypeOK
  <2>2. wire \in Seq(Datagrams \cup {d})
    <3>1. Len(wire) \in Nat /\ wire \in [1 .. Len(wire) -> Datagrams]
      BY <2>1, LenProperties, ElementOfSeq
    <3>. QED  BY <3>1
  <2>. QED  BY <1>1, <2>2, OneMore
<1>6. Reached' = d.game /\ Handled' = Handled /\ Accepted' = Accepted
  BY <1>1, <1>5 DEF Reached, Handled, Accepted
<1>7. WireInOrder'
  <2>. SUFFICES ASSUME NEW k \in 1 .. Len(wire) + 1
                PROVE  /\ wire'[k].events # << >>
                       /\ Follows(wire'[k].game, wire'[k].first,
                                  IF k = 1 THEN Handled ELSE wire'[k - 1].game)
    BY <1>5, <1>6 DEF WireInOrder, Follows
  <2>1. CASE k \in 1 .. Len(wire)
    <3>1. k # 1 => k - 1 \in 1 .. Len(wire)
      BY <1>5, <2>1
    <3>. QED  BY <1>5, <2>1, <3>1 DEF OrderInv, WireInOrder
  <2>2. CASE k = Len(wire) + 1
    <3>1. Reached = IF k = 1 THEN Handled ELSE wire'[k - 1].game
      <4>1. CASE wire = << >>
        BY <2>2, <4>1 DEF Reached
      <4>2. CASE wire # << >>
        <5>1. Len(wire) \in 1 .. Len(wire) /\ k # 1 /\ k - 1 = Len(wire)
          BY <1>5, <2>2, <4>2, EmptySeq DEF IInv, TypeOK
        <5>. QED  BY <1>5, <4>2, <5>1 DEF Reached
      <4>. QED  BY <4>1, <4>2
    <3>. QED  BY <1>3, <1>4, <1>5, <2>2, <3>1
  <2>3. k \in 1 .. Len(wire) \/ k = Len(wire) + 1
    BY <1>5
  <2>. QED  BY <2>1, <2>2, <2>3
<1>8. InboxInOrder'
  BY <1>1, <1>6 DEF OrderInv, InboxInOrder
<1>9. SenderInOrder'
  <2>1. 1 \in DOMAIN clients
    BY <1>2 DEF OrderInv, SenderInOrder
  <2>. QED  BY <1>1, <1>2, <1>3, <1>6, <2>1 DEF SenderInOrder
<1>. QED  BY <1>7, <1>8, <1>9 DEF OrderInv

-----------------------------------------------------------------------------
(***************************************************************************)
(* OrderInv is kept: the network.                                          *)
(***************************************************************************)
LEMMA FirstOfWire ==
    ASSUME NEW s \in Seq(Datagrams), 1 \in DOMAIN s
    PROVE  Without(s, 1) = Tail(s) /\ s # << >>
<1>1. Len(s) \in Nat \ {0} /\ s # << >>
  BY LenProperties, EmptySeq
<1>2. SubSeq(s, 1, 1 - 1) = << >> /\ SubSeq(s, 1 + 1, Len(s)) = Tail(s)
  BY <1>1
<1>3. Tail(s) \in Seq(Datagrams)
  BY <1>1, HeadTailProperties
<1>4. << >> \o Tail(s) = Tail(s)
  BY <1>3, ConcatEmptySeq
<1>. QED  BY <1>1, <1>2, <1>4 DEF Without

LEMMA DeliverOrder ==
    ASSUME Orderly, IInv, ShortInv, OrderInv, Deliver
    PROVE  OrderInv'
<1>1. /\ wire \in Seq(Datagrams) /\ 1 \in DOMAIN wire
      /\ Client!Receive(EventsOf(wire[1])) /\ wire' = Without(wire, 1)
      /\ UNCHANGED server
  <2>1. wire \in Seq(Datagrams)
    BY DEF IInv, TypeOK
  <2>. QED  BY <2>1 DEF Deliver, Arriving, Orderly
<1>. DEFINE d == wire[1]
<1>2. wire' = Tail(wire) /\ wire # << >> /\ d \in Datagrams
  BY <1>1, FirstOfWire, RestOf
<1>3. /\ inbox = << >> /\ inbox' = EventsOf(d)
      /\ UNCHANGED <<nextExpected, roster, receiving, queue, telling, told>>
  BY <1>1 DEF Client!Receive
<1>4. IsGenuineDatagram(d)
  BY <1>1 DEF IInv, WireIsGenuine, IsGenuineDatagram
<1>5. /\ d.events # << >>
      /\ Follows(d.game, d.first, Accepted.game)
  BY <1>1, <1>3 DEF OrderInv, WireInOrder, Handled
<1>6. /\ inbox' \in Seq(NumberedEvents) /\ Len(inbox') > 0
      /\ \A k \in DOMAIN inbox' : inbox'[k].game = d.game
      /\ inbox' # << >> => Head(inbox').no = d.first
  <2>1. Sender!ReadCount(d.events) = Len(d.events)
    BY <1>1, ShortIsReadInFull DEF Orderly, DatagramsAreReadInFull
  <2>2. Len(d.events) > 0
    BY <1>2, <1>5, RestOf DEF Datagrams
  <2>. QED  BY <1>2, <1>3, <1>4, <2>1, <2>2, EventsOfDatagram
<1>7. inbox' # << >> /\ Head(inbox').no = d.first /\ Head(inbox').game = d.game
  <2>1. inbox' # << >>
    BY <1>6
  <2>2. Head(inbox') = inbox'[1] /\ 1 \in DOMAIN inbox'
    BY <1>6, <2>1, RestOf
  <2>. QED  BY <1>6, <2>1, <2>2
<1>8. Accepted' = Accepted /\ Handled' = d.game
  BY <1>3, <1>7 DEF Accepted, Handled
<1>9. InboxInOrder'
  <2>1. receiving = "event"
    BY <1>3 DEF IInv, ThreadsAtWork
  <2>. QED  BY <1>3, <1>5, <1>6, <1>7, <1>8, <2>1 DEF InboxInOrder
<1>10. /\ Len(wire) \in Nat \ {0} /\ DOMAIN wire = 1 .. Len(wire)
       /\ Len(wire') = Len(wire) - 1 /\ DOMAIN wire' = 1 .. Len(wire) - 1
       /\ \A k \in 1 .. Len(wire) - 1 : wire'[k] = wire[k + 1]
       /\ wire' \in Seq(Datagrams)
  BY <1>1, <1>2, RestOf
<1>11. WireInOrder'
  <2>. SUFFICES ASSUME NEW k \in 1 .. Len(wire) - 1
                PROVE  /\ wire'[k].events # << >>
                       /\ Follows(wire'[k].game, wire'[k].first,
                                  IF k = 1 THEN d.game ELSE wire'[k - 1].game)
    BY <1>8, <1>10 DEF WireInOrder, Follows
  <2>1. /\ k + 1 \in DOMAIN wire /\ k + 1 # 1 /\ k + 1 - 1 = k /\ wire'[k] = wire[k + 1]
        /\ k # 1 => k - 1 \in 1 .. Len(wire) - 1 /\ k - 1 + 1 = k
    BY <1>10
  <2>2. wire[k + 1].events # << >> /\ Follows(wire[k + 1].game, wire[k + 1].first, wire[k].game)
    BY <2>1 DEF OrderInv, WireInOrder
  <2>3. wire[k] = IF k = 1 THEN d ELSE wire'[k - 1]
    BY <1>10, <2>1
  <2>. QED  BY <2>1, <2>2, <2>3
<1>12. Reached' = Reached
  <2>1. CASE wire' = << >>
    <3>1. Len(wire) \in Nat /\ Len(wire) - 1 = 0
      BY <1>10, <2>1
    <3>2. Len(wire) = 1
      BY ONLY <3>1
    <3>. QED  BY <1>2, <1>8, <2>1, <3>2 DEF Reached
  <2>2. CASE wire' # << >>
    <3>1. Len(wire') \in 1 .. Len(wire) - 1 /\ Len(wire') + 1 = Len(wire)
      BY <1>10, <2>2, EmptySeq
    <3>2. wire'[Len(wire')] = wire[Len(wire)]
      BY <1>10, <3>1
    <3>. QED  BY <1>2, <2>2, <3>2 DEF Reached
  <2>. QED  BY <2>1, <2>2
<1>13. SenderInOrder'
  <2>1. 1 \in DOMAIN clients /\ (1 \in DOMAIN todo \/ sendNewEvents \/ Reached = Len(games))
    BY <1>2, ConnectedIfNotFresh DEF Fresh
  <2>2. UNCHANGED <<games, sendNewEvents, clients, snapshot, todo>>
    BY <1>1 DEF server
  <2>. QED  BY <1>12, <2>1, <2>2 DEF OrderInv, SenderInOrder
<1>. QED  BY <1>9, <1>11, <1>13 DEF OrderInv

LEMMA UplinkOrder ==
    ASSUME Orderly, IInv, OrderInv, Heartbeat \/ Hear \/ Lose
    PROVE  OrderInv'
<1>1. ~Lose
  BY DEF Orderly, Lose
<1>2. /\ UNCHANGED <<nextExpected, roster, inbox, receiving, queue, telling, told, wire>>
      /\ UNCHANGED <<games, sendNewEvents, snapshot, todo>>
      /\ DOMAIN clients \subseteq DOMAIN clients'
  BY <1>1 DEF Heartbeat, Hear, Sender!Hear, server, client
<1>3. Reached' = Reached /\ (Fresh' <=> Fresh)
  BY <1>2, SamePosition DEF Fresh
<1>4. SenderInOrder'
  BY <1>2, <1>3 DEF OrderInv, SenderInOrder
<1>. QED  BY <1>2, <1>4, OrderStays DEF OrderInv

-----------------------------------------------------------------------------
(***************************************************************************)
(* The client.  It accepts an event only where the log goes on.            *)
(***************************************************************************)
LEMMA CurrentEvent ==
    ASSUME IInv, OrderInv, inbox # << >>
    PROVE  /\ Client!Current \in NumberedEvents /\ IsGenuine(Client!Current)
           /\ Handled = Client!Current.game
           /\ Follows(Client!Current.game, Client!Current.no, Accepted.game)
           /\ Client!Current.type = "NEW_GAME" <=> Client!Current.no = 0
<1>. DEFINE e == Head(inbox)
<1>1. e \in NumberedEvents /\ e = inbox[1] /\ 1 \in DOMAIN inbox
  BY RestOf DEF IInv, TypeOK
<1>2. IsGenuine(e)
  BY <1>1 DEF IInv, EventsAreGenuine
<1>3. e.no \in Nat /\ (e.type = "NEW_GAME" <=> e.no + 1 = 1)
  BY <1>1, <1>2 DEF IInv, LogsBegin, IsGenuine, NumberedEvents
<1>4. e.type = "NEW_GAME" <=> e.no = 0
  BY <1>3
<1>. QED
  BY <1>1, <1>2, <1>4 DEF Client!Current, Handled, OrderInv, InboxInOrder

(* What is skipped is of the game that was accepted last. *)
LEMMA SkippedIsOld ==
    ASSUME IInv, OrderInv, Client!Skip
    PROVE  Client!Current.game = Accepted.game
<1>1. /\ inbox # << >> /\ Client!Current.no # nextExpected
      /\ receiving = "compare" \/ Client!Current.type # "NEW_GAME"
  BY DEF Client!Skip, Client!Compares, Client!Expected
<1>2. Client!Current.no # 0
  <2>1. CASE receiving = "compare"
    BY <1>1, <2>1 DEF OrderInv, InboxInOrder
  <2>2. CASE Client!Current.type # "NEW_GAME"
    BY <1>1, <2>2, CurrentEvent
  <2>. QED  BY <1>1, <2>1, <2>2
<1>3. Client!Current.game \in Nat /\ Accepted.game \in Nat
  BY <1>1, CurrentEvent, ReachedIsKnown DEF NumberedEvents
<1>. QED  BY <1>1, <1>2, <1>3, CurrentEvent DEF Follows

(* How a step of the client changes what it has accepted and what is left. *)
LEMMA ClientMoves ==
    ASSUME IInv, OrderInv, Client!Step
    PROVE  /\ ~Fresh
           /\ \/ /\ inbox' = inbox /\ Accepted' = Accepted
                 /\ receiving' # "event" =>
                       nextExpected' = 0 \/ (receiving # "event" /\ UNCHANGED nextExpected)
              \/ /\ inbox # << >> /\ inbox' = Tail(inbox) /\ receiving' = "event"
                 /\ Accepted'.game = Client!Current.game
                 /\ \/ Accepted' = Accepted
                    \/ /\ Client!Current.no = nextExpected
                       /\ Accepted' = [game |-> Client!Current.game, no |-> Client!Current.no]
<1>1. CASE Client!BeginGame \/ Client!AdoptRoster \/ Client!RejectNonsense
  <2>1. inbox # << >>
    BY <1>1 DEF Client!BeginGame, Client!AdoptRoster, Client!RejectNonsense, IInv, ThreadsAtWork
  <2>2. UNCHANGED <<inbox, queue, told>>
    BY <1>1 DEF Client!BeginGame, Client!AdoptRoster, Client!RejectNonsense, Client!reception
  <2>3. receiving' # "event" =>
            nextExpected' = 0 \/ (receiving # "event" /\ UNCHANGED nextExpected)
    BY <1>1 DEF Client!BeginGame, Client!AdoptRoster, Client!RejectNonsense, Client!reception
  <2>. QED  BY <2>1, <2>2, <2>3 DEF Fresh, Accepted
<1>2. CASE Client!Enqueue
  <2>1. /\ inbox # << >> /\ Client!Current.no = nextExpected
        /\ queue' = Append(queue, Client!Current) /\ inbox' = Tail(inbox)
        /\ receiving' = "event"
    BY <1>2 DEF Client!Enqueue, Client!Compares, Client!Expected
  <2>2. Client!Current \in NumberedEvents /\ queue \in Seq(NumberedEvents)
    BY <2>1, CurrentEvent DEF IInv, TypeOK
  <2>3. queue' # << >> /\ queue'[Len(queue')] = Client!Current
    BY <2>1, <2>2, OneMore
  <2>. QED  BY <2>1, <2>3 DEF Fresh, Accepted
<1>3. CASE Client!Skip
  <2>1. inbox # << >> /\ inbox' = Tail(inbox) /\ receiving' = "event" /\ UNCHANGED <<queue, told>>
    BY <1>3 DEF Client!Skip, Client!Compares
  <2>2. Accepted' = Accepted
    BY <2>1 DEF Accepted
  <2>. QED  BY <1>3, <2>1, <2>2, SkippedIsOld DEF Fresh
<1>4. CASE Client!TakeQueue
  <2>1. queue # << >> /\ UNCHANGED <<inbox, receiving, nextExpected, queue, told>>
    BY <1>4 DEF Client!TakeQueue, Client!reception
  <2>. QED  BY <2>1 DEF Fresh, Accepted
<1>5. CASE Client!Tell
  <2>1. /\ queue # << >> /\ queue \in Seq(NumberedEvents)
        /\ queue' = Tail(queue) /\ UNCHANGED <<inbox, receiving, nextExpected>>
        /\ told'.game = Head(queue).game /\ told'.no = Head(queue).no
    BY <1>5 DEF Client!Tell, Client!reception, IInv, TypeOK, ThreadsAtWork
  <2>2. /\ Len(queue) \in Nat \ {0} /\ Head(queue) = queue[1]
        /\ Tail(queue) \in Seq(NumberedEvents) /\ Len(Tail(queue)) = Len(queue) - 1
        /\ \A j \in 1 .. Len(queue) - 1 : Tail(queue)[j] = queue[j + 1]
    BY <2>1, RestOf
  <2>3. Accepted' = Accepted
    <3>1. CASE Tail(queue) = << >>
      <4>1. Len(queue) \in Nat /\ Len(queue) - 1 = 0
        BY <2>2, <3>1
      <4>2. Len(queue) = 1
        BY ONLY <4>1
      <4>. QED  BY <2>1, <2>2, <3>1, <4>2 DEF Accepted
    <3>2. CASE Tail(queue) # << >>
      <4>1. /\ Len(Tail(queue)) \in 1 .. Len(queue) - 1 /\ Len(Tail(queue)) + 1 = Len(queue)
        BY <2>2, <3>2, EmptySeq
      <4>2. Tail(queue)[Len(Tail(queue))] = queue[Len(queue)]
        BY <2>2, <4>1
      <4>. QED  BY <2>1, <3>2, <4>2 DEF Accepted
    <3>. QED  BY <3>1, <3>2
  <2>. QED  BY <2>1, <2>3 DEF Fresh
<1>. QED  BY <1>1, <1>2, <1>3, <1>4, <1>5 DEF Client!Step, Client!ReceiverStep, Client!GuiStep

LEMMA ClientOrder ==
    ASSUME IInv, OrderInv, ClientStep
    PROVE  OrderInv'
<1>1. Client!Step /\ UNCHANGED <<games, sendNewEvents, clients, snapshot, todo, wire>>
  BY DEF ClientStep, server, network
<1>2. InboxInOrder' /\ Handled' = Handled
  <2>1. CASE inbox' = inbox /\ Accepted' = Accepted
    <3>1. receiving' # "event" /\ inbox # << >> => nextExpected' = 0
      <4>1. receiving # "event" /\ inbox # << >> => nextExpected = 0
        BY DEF OrderInv, InboxInOrder
      <4>. QED  BY <1>1, <2>1, <4>1, ClientMoves
    <3>. QED  BY <2>1, <3>1 DEF OrderInv, InboxInOrder, Handled
  <2>2. CASE /\ inbox # << >> /\ inbox' = Tail(inbox) /\ receiving' = "event"
             /\ Accepted'.game = Client!Current.game
    <3>1. /\ inbox \in Seq(NumberedEvents) /\ Handled = Client!Current.game
          /\ \A k \in DOMAIN inbox : inbox[k].game = Client!Current.game
      BY <2>2, CurrentEvent DEF IInv, TypeOK, OrderInv, InboxInOrder, Client!Current
    <3>2. \A k \in DOMAIN inbox' : inbox'[k].game = Client!Current.game
      <4>1. \A k \in DOMAIN Tail(inbox) : k + 1 \in DOMAIN inbox /\ Tail(inbox)[k] = inbox[k + 1]
        BY <2>2, <3>1, RestOf
      <4>. QED  BY <2>2, <3>1, <4>1
    <3>3. inbox' # << >> => Head(inbox') = inbox'[1] /\ 1 \in DOMAIN inbox'
      <4>1. inbox' \in Seq(NumberedEvents)
        BY <2>2, <3>1, RestOf
      <4>. QED  BY <4>1, RestOf
    <3>4. Client!Current.game \in Nat
      BY <2>2, CurrentEvent DEF NumberedEvents
    <3>. QED  BY <2>2, <3>1, <3>2, <3>3, <3>4 DEF InboxInOrder, Handled, Follows
  <2>. QED  BY <1>1, <2>1, <2>2, ClientMoves
<1>3. Reached' = Reached
  BY <1>1, <1>2 DEF Reached
<1>4. WireInOrder'
  BY <1>1, <1>2 DEF OrderInv, WireInOrder
<1>5. SenderInOrder'
  <2>1. 1 \in DOMAIN clients /\ (1 \in DOMAIN todo \/ sendNewEvents \/ Reached = Len(games))
    BY <1>1, ClientMoves, ConnectedIfNotFresh
  <2>. QED  BY <1>1, <1>3, <2>1 DEF OrderInv, SenderInOrder
<1>. QED  BY <1>2, <1>4, <1>5 DEF OrderInv

LEMMA InitOrder == Init => OrderInv
BY DEF Init, Sender!Init, Client!Init, OrderInv, InboxInOrder, WireInOrder, SenderInOrder,
       Fresh, Reached, Handled, Accepted, Client!Nothing

LEMMA StutterOrder == OrderInv /\ UNCHANGED vars => OrderInv'
<1>. SUFFICES ASSUME OrderInv, UNCHANGED vars PROVE OrderInv'
  OBVIOUS
<1>1. /\ UNCHANGED <<nextExpected, roster, inbox, receiving, queue, told, wire>>
      /\ UNCHANGED <<games, sendNewEvents, clients, snapshot, todo>>
  BY DEF vars, server, client, network
<1>2. Reached' = Reached /\ (Fresh' <=> Fresh)
  BY <1>1, SamePosition DEF Fresh
<1>3. SenderInOrder'
  BY <1>1, <1>2 DEF OrderInv, SenderInOrder
<1>. QED  BY <1>1, <1>3, OrderStays DEF OrderInv

LEMMA OrderInvariance ==
    ASSUME Orderly
    PROVE  Spec => [](IInv /\ ShortInv /\ OrderInv)
<1>1. IInv /\ ShortInv /\ OrderInv /\ [Next]_vars => OrderInv'
  BY PlayOrder, SendOrder, DeliverOrder, UplinkOrder, ClientOrder, StutterOrder
     DEF Next, Orderly
<1>2. RepliesAreShort
  BY DEF Orderly
<1>3. Spec => []ShortInv
  BY <1>2, ShortInvariance
<1>. QED  BY <1>1, <1>3, InitOrder, Invariance, PTL DEF Spec

-----------------------------------------------------------------------------
(***************************************************************************)
(* Every step is a step of LogFollower or leaves its variables alone.      *)
(***************************************************************************)
LEMMA ServerStepsGrow ==
    ASSUME IInv, SenderActs, UNCHANGED client
    PROVE  Follower!Grow
<1>1. Accepted' = Accepted
  BY DEF client, Accepted
<1>2. LogsAreKept /\ Sender!IInv'
  BY SenderKeeps, LogsGrow DEF IInv
<1>3. /\ games \in Seq(Seq(Sender!Events)) /\ games' \in Seq(Seq(Sender!Events))
  BY <1>2 DEF IInv, Sender!IInv, Sender!TypeOK
<1>4. /\ Len(games) \in Nat /\ DOMAIN games = 1 .. Len(games)
      /\ Len(games') \in Nat /\ DOMAIN games' = 1 .. Len(games')
  BY <1>3, LenProperties
<1>5. Len(games) <= Len(games')
  <2>1. CASE Len(games) = 0
    BY <1>4, <2>1
  <2>2. CASE Len(games) # 0
    <3>1. Len(games) \in 1 .. Len(games)
      BY <1>4, <2>2
    <3>2. Len(games) \in 1 .. Len(games')
      BY <1>2, <1>4, <3>1 DEF LogsAreKept
    <3>. QED  BY <1>4, <3>2
  <2>. QED  BY <2>1, <2>2
<1>6. ASSUME NEW g \in DOMAIN games
      PROVE  Follower!Extends(games'[g], games[g])
  <2>. DEFINE old == games[g]
              new == games'[g]
  <2>1. g \in DOMAIN games' /\ \A k \in DOMAIN old : k \in DOMAIN new /\ new[k] = old[k]
    BY <1>2, <1>6 DEF LogsAreKept
  <2>2. old \in Seq(Sender!Events) /\ new \in Seq(Sender!Events)
    BY <1>3, <1>4, <1>6, <2>1, ElementOfSeq
  <2>. HIDE DEF old, new
  <2>3. /\ Len(old) \in Nat /\ DOMAIN old = 1 .. Len(old)
        /\ Len(new) \in Nat /\ DOMAIN new = 1 .. Len(new)
    BY <2>2, LenProperties
  <2>4. Len(old) <= Len(new)
    <3>1. CASE Len(old) = 0
      BY <2>3, <3>1
    <3>2. CASE Len(old) # 0
      <4>1. Len(old) \in 1 .. Len(old)
        BY <2>3, <3>2
      <4>2. Len(old) \in 1 .. Len(new)
        BY <2>1, <2>3, <4>1
      <4>. QED  BY <2>3, <4>2
    <3>. QED  BY <3>1, <3>2
  <2>5. SubSeq(new, 1, Len(old)) = old
    BY <2>1, <2>2, <2>3, <2>4
  <2>. QED  BY <2>4, <2>5 DEF Follower!Extends, old, new
<1>7. \A g \in 1 .. Len(games) - 1 : games'[g] = games[g]
  <2>1. CASE UNCHANGED games
    BY <2>1
  <2>2. ASSUME NEW n \in Sender!Rosters, NEW longest \in LongestNames,
               NEW placed \in Sender!Placements,
               games' = Append(games, <<Sender!NewGame(n, longest)>> \o placed)
        PROVE  \A g \in 1 .. Len(games) - 1 : games'[g] = games[g]
    <3>. DEFINE log == <<Sender!NewGame(n, longest)>> \o placed
    <3>. HIDE DEF log
    <3>1. games' = Append(games, log)
      BY <2>2 DEF log
    <3>2. games \in Seq(Seq(Sender!Events) \cup {log})
      <4>1. games \in [1 .. Len(games) -> Seq(Sender!Events)]
        BY <1>3, <1>4, ElementOfSeq
      <4>. QED  BY <1>4, <4>1
    <3>3. \A g \in 1 .. Len(games) : games'[g] = games[g]
      BY <3>1, <3>2, OneMore
    <3>. QED  BY <1>4, <3>3
  <2>3. ASSUME NEW moved \in Sender!Moves,
               games' = [games EXCEPT ![Len(games)] = games[Len(games)] \o moved]
        PROVE  \A g \in 1 .. Len(games) - 1 : games'[g] = games[g]
    <3>. TAKE g \in 1 .. Len(games) - 1
    <3>1. g \in 1 .. Len(games) /\ g # Len(games)
      <4>1. Len(games) \in Nat /\ g \in 1 .. Len(games) - 1
        BY <1>4
      <4>. QED  BY ONLY <4>1
    <3>. QED  BY <1>4, <2>3, <3>1
  <2>. QED  BY <2>1, <2>2, <2>3, LogsChange DEF IInv
<1>. QED  BY <1>1, <1>5, <1>6, <1>7 DEF Follower!Grow

LEMMA ClientStepFollows ==
    ASSUME IInv, OrderInv, ClientStep
    PROVE  Follower!Begin \/ Follower!Advance \/ UNCHANGED <<games, Accepted>>
<1>1. Client!Step /\ UNCHANGED games
  BY DEF ClientStep, server
<1>. DEFINE e == Client!Current
<1>2. CASE Accepted' = Accepted
  BY <1>1, <1>2
<1>3. CASE /\ inbox # << >> /\ e.no = nextExpected
           /\ Accepted' = [game |-> e.game, no |-> e.no]
  <2>1. e \in NumberedEvents /\ IsGenuine(e) /\ Follows(e.game, e.no, Accepted.game)
    BY <1>3, CurrentEvent
  <2>. HIDE DEF e
  <2>2. /\ e.game \in DOMAIN games /\ e.no \in Nat /\ e.game \in Nat
        /\ e.no + 1 \in DOMAIN games[e.game]
    BY <2>1 DEF IsGenuine, NumberedEvents
  <2>3. /\ Accepted.game \in Nat /\ Accepted.no \in Nat \cup {-1}
    BY ReachedIsKnown
  <2>4. CASE e.no = 0
    BY <1>1, <1>3, <2>1, <2>2, <2>4 DEF Follower!Begin, Follows
  <2>5. CASE e.no # 0
    <3>1. e.game = Accepted.game /\ e.no = Accepted.no + 1
      BY <1>3, <2>1, <2>2, <2>3, <2>5 DEF Follows, IInv, NextIsExpected
    <3>2. e.no < Len(games[e.game])
      <4>1. games[e.game] \in Seq(Sender!Events)
        BY <2>2, GamesHaveOneRoster
      <4>2. Len(games[e.game]) \in Nat /\ DOMAIN games[e.game] = 1 .. Len(games[e.game])
        BY <4>1, LenProperties
      <4>. QED  BY <2>2, <4>2
    <3>3. Accepted' = [Accepted EXCEPT !.no = @ + 1]
      BY <1>3, <3>1 DEF Accepted
    <3>. QED  BY <1>1, <2>2, <3>1, <3>2, <3>3 DEF Follower!Advance
  <2>. QED  BY <2>4, <2>5
<1>. QED  BY <1>1, <1>2, <1>3, ClientMoves

LEMMA NextFollows ==
    ASSUME IInv, OrderInv, [Next]_vars
    PROVE  [Follower!Next]_<<games, Accepted>>
<1>1. CASE Play \/ Send \/ Hear
  <2>1. SenderActs /\ UNCHANGED client
    <3>1. Hear => SenderActs
      <4>. SUFFICES ASSUME Hear PROVE SenderActs
        OBVIOUS
      <4>1. PICK k \in DOMAIN uplink : Sender!Hear(1, uplink[k])
        BY DEF Hear, Arriving
      <4>2. uplink \in Seq(Nat)
        BY DEF IInv, TypeOK
      <4>3. uplink[k] \in Nat
        BY <4>2, LenProperties, ElementOfSeq
      <4>. QED  BY <4>1, <4>3 DEF SenderActs
    <3>. QED  BY <1>1, <3>1 DEF Play, Send, Hear, SenderActs
  <2>. QED  BY <2>1, ServerStepsGrow DEF Follower!Next
<1>2. CASE ClientStep
  BY <1>2, ClientStepFollows DEF Follower!Next
<1>3. CASE Deliver \/ Heartbeat \/ Lose \/ UNCHANGED vars
  <2>1. UNCHANGED <<games, queue, told>>
    BY <1>3 DEF Deliver, Client!Receive, Heartbeat, Lose, vars, server, client
  <2>. QED  BY <2>1 DEF Accepted
<1>. QED  BY <1>1, <1>2, <1>3 DEF Next

(* On a network that keeps the order and loses nothing, what the client    *)
(* accepts follows the logs of the games in their order, one event after   *)
(* the other, whatever thread is ahead of whichever.                       *)
THEOREM ClientFollowsTheLogs ==
    ASSUME Orderly
    PROVE  Spec => FollowsTheLogs
<1>1. Init => Follower!Init
  BY DEF Init, Sender!Init, Client!Init, Client!Nothing, Accepted, Follower!Init
<1>2. IInv /\ OrderInv /\ [Next]_vars => [Follower!Next]_<<games, Accepted>>
  BY NextFollows
<1>. QED
  BY <1>1, <1>2, OrderInvariance, PTL DEF Spec, FollowsTheLogs, Follower!Spec
=============================================================================
