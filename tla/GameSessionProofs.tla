-------------------------- MODULE GameSessionProofs ---------------------------
(***************************************************************************)
(* The safety of GameSession, proved for a network that loses, delays and  *)
(* repeats datagrams as it likes, any rosters, any number and length of    *)
(* games, any limits of replies and queue.                                 *)
(***************************************************************************)
EXTENDS GameSession, SequenceTheorems, TLAPS

SP == INSTANCE EventSenderProofs

(***************************************************************************)
(* The sender of a session is the sender of EventSenderProofs.             *)
(***************************************************************************)
LEMMA SenderAssumed == SP!SenderAssumption
BY SessionAssumption DEF SP!SenderAssumption

LEMMA SameInvariant ==
    Sender!IInv <=> SP!IInv
BY DEF Sender!AnnouncementsArePending, SP!AnnouncementsArePending,
       Sender!Available, SP!Available, Sender!Busy, SP!Busy,
       Sender!Clients, SP!Clients, Sender!Eliminated, SP!Eliminated,
       Sender!Events, SP!Events, Sender!FirstEventIsSentFirst,
       SP!FirstEventIsSentFirst, Sender!GameIdLen, SP!GameIdLen,
       Sender!GameOver, SP!GameOver, Sender!IInv, SP!IInv,
       Sender!LogsHaveBegun, SP!LogsHaveBegun, Sender!MaxDatagramLen,
       SP!MaxDatagramLen, Sender!MaxNamesLen, SP!MaxNamesLen,
       Sender!Nameless, SP!Nameless, Sender!NoSnapshot, SP!NoSnapshot, Sender!Pixel, SP!Pixel,
       Sender!Served, SP!Served, Sender!SnapshotIsPast,
       SP!SnapshotIsPast, Sender!TypeOK, SP!TypeOK

LEMMA SameInvariantNext ==
    Sender!IInv' <=> SP!IInv'
BY DEF Sender!AnnouncementsArePending, SP!AnnouncementsArePending,
       Sender!Available, SP!Available, Sender!Busy, SP!Busy,
       Sender!Clients, SP!Clients, Sender!Eliminated, SP!Eliminated,
       Sender!Events, SP!Events, Sender!FirstEventIsSentFirst,
       SP!FirstEventIsSentFirst, Sender!GameIdLen, SP!GameIdLen,
       Sender!GameOver, SP!GameOver, Sender!IInv, SP!IInv,
       Sender!LogsHaveBegun, SP!LogsHaveBegun, Sender!MaxDatagramLen,
       SP!MaxDatagramLen, Sender!MaxNamesLen, SP!MaxNamesLen,
       Sender!Nameless, SP!Nameless, Sender!NoSnapshot, SP!NoSnapshot, Sender!Pixel, SP!Pixel,
       Sender!Served, SP!Served, Sender!SnapshotIsPast,
       SP!SnapshotIsPast, Sender!TypeOK, SP!TypeOK

LEMMA SameServerSteps ==
    /\ Sender!StartGame <=> SP!StartGame
    /\ Sender!PlayRound <=> SP!PlayRound
    /\ \A c, next : Sender!Hear(c, next) <=> SP!Hear(c, next)
    /\ Sender!TakeSnapshot <=> SP!TakeSnapshot
    /\ Sender!vars = SP!vars
BY DEF Sender!Busy, SP!Busy, Sender!Eliminated, SP!Eliminated,
       Sender!FirstWanted, SP!FirstWanted, Sender!GameIdLen,
       SP!GameIdLen, Sender!GameOver, SP!GameOver, Sender!Hear,
       SP!Hear, Sender!InProgress, SP!InProgress, Sender!Log, SP!Log,
       Sender!MaxDatagramLen, SP!MaxDatagramLen, Sender!MaxNamesLen,
       SP!MaxNamesLen, Sender!Moves, SP!Moves, Sender!Nameless,
       SP!Nameless, Sender!NewGame,
       SP!NewGame, Sender!NoSnapshot, SP!NoSnapshot, Sender!Pixel,
       SP!Pixel, Sender!Placements, SP!Placements, Sender!PlayRound,
       SP!PlayRound, Sender!Rosters, SP!Rosters, Sender!StartGame,
       SP!StartGame, Sender!TakeSnapshot, SP!TakeSnapshot,
       Sender!server, SP!server, Sender!vars, SP!vars

LEMMA SameBroadcast ==
    /\ Sender!NothingToSend <=> SP!NothingToSend
    /\ Sender!SendDatagram <=> SP!SendDatagram
    /\ Sender!Sends <=> SP!Sends
    /\ Sender!NextDatagram = SP!NextDatagram
BY DEF Sender!Available, SP!Available, Sender!Busy, SP!Busy,
       Sender!Cut, SP!Cut, Sender!DataLen, SP!DataLen,
       Sender!EventsLen, SP!EventsLen, Sender!Finish, SP!Finish,
       Sender!Fits, SP!Fits, Sender!GameIdLen, SP!GameIdLen,
       Sender!MaxDatagramLen, SP!MaxDatagramLen, Sender!MaxEventsLen,
       SP!MaxEventsLen, Sender!NextDatagram, SP!NextDatagram,
       Sender!NoSnapshot, SP!NoSnapshot, Sender!NothingToSend,
       SP!NothingToSend, Sender!Packed, SP!Packed, Sender!PrefixLen,
       SP!PrefixLen, Sender!RecordLen, SP!RecordLen, Sender!SendCount,
       SP!SendCount, Sender!SendDatagram, SP!SendDatagram,
       Sender!Sends, SP!Sends, Sender!Served, SP!Served,
       Sender!server, SP!server

LEMMA SameReader == \A s : Sender!ReadCount(s) = SP!ReadCount(s)
BY DEF Sender!ReadCount, SP!ReadCount, Sender!PrefixLen, SP!PrefixLen,
       Sender!EventsLen, SP!EventsLen, Sender!RecordLen, SP!RecordLen,
       Sender!DataLen, SP!DataLen, Sender!GameIdLen, SP!GameIdLen,
       Sender!MaxDatagramLen, SP!MaxDatagramLen, Sender!IsRefused,
       SP!IsRefused, Sender!MaxNameLen, SP!MaxNameLen

LEMMA SameEvents == Sender!Events = SP!Events
BY DEF Sender!Events, SP!Events, Sender!Nameless, SP!Nameless,
       Sender!Pixel, SP!Pixel, Sender!Eliminated,
       SP!Eliminated, Sender!GameOver, SP!GameOver, Sender!MaxNamesLen,
       SP!MaxNamesLen, Sender!MaxDatagramLen, SP!MaxDatagramLen,
       Sender!GameIdLen, SP!GameIdLen

SenderActs ==
    \/ Sender!StartGame \/ Sender!PlayRound \/ Sender!TakeSnapshot
    \/ Sender!NothingToSend \/ Sender!SendDatagram
    \/ \E n \in Nat : Sender!Hear(1, n)

LEMMA SenderKeeps ==
    ASSUME Sender!IInv, SenderActs \/ UNCHANGED server
    PROVE  Sender!IInv'
<1>. USE SenderAssumed, SameInvariant, SameInvariantNext, SameServerSteps, SameBroadcast
<1>1. CASE Sender!StartGame
  BY <1>1, SP!StartGameInv
<1>2. CASE Sender!PlayRound
  BY <1>2, SP!PlayRoundInv
<1>3. CASE Sender!TakeSnapshot
  BY <1>3, SP!TakeSnapshotInv
<1>4. CASE Sender!NothingToSend
  BY <1>4, SP!NothingToSendInv
<1>5. CASE Sender!SendDatagram
  BY <1>5, SP!SendDatagramInv
<1>6. ASSUME NEW n \in Nat, Sender!Hear(1, n)
      PROVE  Sender!IInv'
  <2>1. 1 \in SP!Clients
    BY SessionAssumption DEF SP!Clients
  <2>2. SP!Hear(1, n)
    BY <1>6
  <2>. QED  BY <2>1, <2>2, SP!HearInv
<1>7. CASE UNCHANGED server
  <2>1. UNCHANGED SP!vars
    BY <1>7 DEF server, SP!vars, SP!server
  <2>. QED  BY <2>1, SP!NextInv
<1>. QED  BY <1>1, <1>2, <1>3, <1>4, <1>5, <1>6, <1>7 DEF SenderActs

(***************************************************************************)
(* The logs of the games.                                                  *)
(***************************************************************************)
LEMMA LogsChange ==
    ASSUME Sender!IInv, SenderActs \/ UNCHANGED server
    PROVE  \/ UNCHANGED games
           \/ \E n \in Sender!Rosters, longest \in LongestNames, placed \in Sender!Placements :
                 /\ longest < n
                 /\ games' = Append(games, <<Sender!NewGame(n, longest)>> \o placed)
           \/ /\ Len(games) \in DOMAIN games
              /\ \E moved \in Sender!Moves :
                    games' = [games EXCEPT ![Len(games)] = games[Len(games)] \o moved]
<1>1. CASE Sender!StartGame
  BY <1>1 DEF Sender!StartGame
<1>2. CASE Sender!PlayRound
  <2>1. games # << >> /\ Sender!Log = games[Len(games)]
    BY <1>2 DEF Sender!PlayRound, Sender!InProgress, Sender!Log
  <2>2. games \in Seq(Seq(Sender!Events))
    BY DEF Sender!IInv, Sender!TypeOK
  <2>3. Len(games) \in DOMAIN games
    BY <2>1, <2>2, LenProperties, EmptySeq
  <2>. QED  BY <1>2, <2>1, <2>3 DEF Sender!PlayRound
<1>3. CASE Sender!TakeSnapshot \/ UNCHANGED server \/ \E n \in Nat : Sender!Hear(1, n)
  BY <1>3 DEF Sender!TakeSnapshot, server, Sender!Hear
<1>4. CASE Sender!NothingToSend \/ Sender!SendDatagram
  BY <1>4 DEF Sender!NothingToSend, Sender!SendDatagram, Sender!server
<1>. QED  BY <1>1, <1>2, <1>3, <1>4 DEF SenderActs

(* A log is only ever made longer, and by no NEW_GAME. *)
LEMMA LogMadeLonger ==
    ASSUME NEW s \in Seq(Sender!Events), NEW moved \in Sender!Moves \cup Sender!Placements
    PROVE  /\ Len(s) \in Nat /\ Len(moved) \in Nat
           /\ DOMAIN s = 1 .. Len(s) /\ DOMAIN (s \o moved) = 1 .. Len(s) + Len(moved)
           /\ \A k \in 1 .. Len(s) : (s \o moved)[k] = s[k]
           /\ \A k \in Len(s) + 1 .. Len(s) + Len(moved) : (s \o moved)[k].type # "NEW_GAME"
<1>. DEFINE p == Sender!Pixel
            e == Sender!Eliminated
            o == Sender!GameOver
<1>1. \A x \in {p, e, o} : x \in Sender!Events /\ x.type # "NEW_GAME"
  BY DEF Sender!Events, Sender!Nameless, Sender!Pixel, Sender!Eliminated, Sender!GameOver
<1>2. moved \in {<<p>>, <<p, p>>, <<e, o>>, <<p, e, o>>}
  BY DEF Sender!Moves, Sender!Placements
<1>. HIDE DEF p, e, o
<1>3. /\ moved \in Seq(Sender!Events)
      /\ \A k \in 1 .. Len(moved) : moved[k].type # "NEW_GAME"
  <2>1. CASE moved = <<p>>
    BY <1>1, <2>1
  <2>2. CASE moved = <<p, p>>
    BY <1>1, <2>2
  <2>3. CASE moved = <<e, o>>
    BY <1>1, <2>3
  <2>4. CASE moved = <<p, e, o>>
    BY <1>1, <2>4
  <2>. QED  BY <1>2, <2>1, <2>2, <2>3, <2>4
<1>4. /\ Len(s) \in Nat /\ Len(moved) \in Nat
      /\ DOMAIN s = 1 .. Len(s) /\ DOMAIN (s \o moved) = 1 .. Len(s) + Len(moved)
      /\ \A k \in 1 .. Len(s) + Len(moved) :
            (s \o moved)[k] = IF k <= Len(s) THEN s[k] ELSE moved[k - Len(s)]
  BY <1>3, LenProperties, ConcatProperties
<1>. QED  BY <1>3, <1>4

LogsAreKept ==
    \A g \in DOMAIN games :
        /\ g \in DOMAIN games'
        /\ \A k \in DOMAIN games[g] :
              k \in DOMAIN games'[g] /\ games'[g][k] = games[g][k]

LEMMA LogsGrow ==
    ASSUME Sender!IInv, LogsBegin, SenderActs \/ UNCHANGED server
    PROVE  LogsBegin' /\ LogsAreKept
<1>1. /\ games \in Seq(Seq(Sender!Events)) /\ Len(games) \in Nat
      /\ DOMAIN games = 1 .. Len(games)
      /\ \A g \in DOMAIN games : games[g] \in Seq(Sender!Events) /\ games[g] # << >>
  BY LenProperties, ElementOfSeq DEF Sender!IInv, Sender!TypeOK, Sender!LogsHaveBegun
<1>2. CASE UNCHANGED games
  BY <1>2 DEF LogsBegin, LogsAreKept
<1>3. ASSUME NEW n \in Sender!Rosters, NEW longest \in LongestNames,
             NEW placed \in Sender!Placements, longest < n,
             games' = Append(games, <<Sender!NewGame(n, longest)>> \o placed)
      PROVE  LogsBegin' /\ LogsAreKept
  <2>. DEFINE first == <<Sender!NewGame(n, longest)>>
              log == first \o placed
  <2>1. first \in Seq(Sender!Events) /\ Len(first) = 1 /\ first[1] = Sender!NewGame(n, longest)
        /\ n \in NamesLens
    BY <1>3, SessionAssumption DEF Sender!NewGame, Sender!Events, Sender!Rosters,
                             Sender!MaxNamesLen, Sender!MaxDatagramLen, Sender!GameIdLen
  <2>2. first[1].type = "NEW_GAME" /\ first[1].namesLen = n /\ first[1].longest = longest
    BY DEF Sender!NewGame
  <2>. HIDE DEF first
  <2>3. \A k \in DOMAIN log :
           /\ log[k].type = "NEW_GAME" <=> k = 1
           /\ k = 1 => log[k].namesLen \in NamesLens /\ log[k].longest \in LongestNames
    <3>1. /\ Len(placed) \in Nat /\ DOMAIN log = 1 .. 1 + Len(placed)
          /\ \A k \in 1 .. 1 : log[k] = first[k]
          /\ \A k \in 2 .. 1 + Len(placed) : log[k].type # "NEW_GAME"
      <4>1. /\ Len(placed) \in Nat /\ DOMAIN log = 1 .. Len(first) + Len(placed)
            /\ \A k \in 1 .. Len(first) : log[k] = first[k]
            /\ \A k \in Len(first) + 1 .. Len(first) + Len(placed) :
                  log[k].type # "NEW_GAME"
        <5>1. placed \in Sender!Moves \cup Sender!Placements
          OBVIOUS
        <5>. QED  BY ONLY <2>1, <5>1, LogMadeLonger
      <4>. QED  BY <2>1, <4>1
    <3>. HIDE DEF log
    <3>. QED  BY <2>1, <2>2, <3>1
  <2>. HIDE DEF log
  <2>4. /\ DOMAIN games' = 1 .. Len(games) + 1 /\ games'[Len(games) + 1] = log
        /\ \A g \in 1 .. Len(games) : games'[g] = games[g]
    BY <1>1, <1>3 DEF log, first
  <2>5. \A g \in DOMAIN games' : g \in DOMAIN games \/ g = Len(games) + 1
    BY <1>1, <2>4
  <2>. QED  BY <1>1, <2>3, <2>4, <2>5 DEF LogsBegin, LogsAreKept
<1>4. ASSUME Len(games) \in DOMAIN games, NEW moved \in Sender!Moves,
             games' = [games EXCEPT ![Len(games)] = games[Len(games)] \o moved]
      PROVE  LogsBegin' /\ LogsAreKept
  <2>. DEFINE last == games[Len(games)]
              log == last \o moved
  <2>1. /\ last \in Seq(Sender!Events) /\ last # << >>
        /\ \A k \in DOMAIN last :
              /\ last[k].type = "NEW_GAME" <=> k = 1
              /\ k = 1 => last[k].namesLen \in NamesLens /\ last[k].longest \in LongestNames
    BY <1>1, <1>4 DEF LogsBegin
  <2>. HIDE DEF last
  <2>2. /\ Len(last) \in Nat \ {0} /\ DOMAIN last = 1 .. Len(last)
        /\ DOMAIN log = 1 .. Len(last) + Len(moved) /\ Len(moved) \in Nat
        /\ \A k \in 1 .. Len(last) : log[k] = last[k]
        /\ \A k \in Len(last) + 1 .. Len(last) + Len(moved) : log[k].type # "NEW_GAME"
    BY <2>1, LogMadeLonger, LenProperties, EmptySeq
  <2>. HIDE DEF log
  <2>3. \A k \in DOMAIN log :
           /\ log[k].type = "NEW_GAME" <=> k = 1
           /\ k = 1 => log[k].namesLen \in NamesLens /\ log[k].longest \in LongestNames
    BY <2>1, <2>2
  <2>4. /\ DOMAIN games' = DOMAIN games /\ games'[Len(games)] = log
        /\ \A g \in DOMAIN games : g # Len(games) => games'[g] = games[g]
    BY <1>1, <1>4 DEF log, last
  <2>5. \A k \in DOMAIN last : k \in DOMAIN log /\ log[k] = last[k]
    BY <2>2
  <2>6. LogsBegin'
    BY <2>3, <2>4 DEF LogsBegin
  <2>7. LogsAreKept
    BY <2>4, <2>5 DEF LogsAreKept, last
  <2>. QED  BY <2>6, <2>7
<1>. QED  BY <1>2, <1>3, <1>4, LogsChange

-----------------------------------------------------------------------------
(***************************************************************************)
(* Sequences: one without an element, the rest of one, and one with one    *)
(* element more.                                                           *)
(***************************************************************************)
LEMMA WithoutOne ==
    ASSUME NEW S, NEW s \in Seq(S), NEW k \in DOMAIN s
    PROVE  /\ Without(s, k) \in Seq(S)
           /\ \A j \in DOMAIN Without(s, k) : \E i \in DOMAIN s : Without(s, k)[j] = s[i]
<1>. DEFINE front == SubSeq(s, 1, k - 1)
            back == SubSeq(s, k + 1, Len(s))
<1>1. Len(s) \in Nat /\ DOMAIN s = 1 .. Len(s) /\ k \in 1 .. Len(s)
  BY LenProperties
<1>2. /\ front \in Seq(S) /\ Len(front) = k - 1
      /\ \A j \in 1 .. k - 1 : front[j] = s[j]
  BY <1>1
<1>3. /\ back \in Seq(S) /\ Len(back) = Len(s) - k
      /\ \A j \in 1 .. Len(s) - k : back[j] = s[k + j]
  BY <1>1
<1>. HIDE DEF front, back
<1>4. /\ front \o back \in Seq(S) /\ DOMAIN (front \o back) = 1 .. Len(s) - 1
      /\ \A j \in 1 .. Len(s) - 1 :
            (front \o back)[j] = IF j <= k - 1 THEN front[j] ELSE back[j - (k - 1)]
  <2>1. /\ front \o back \in Seq(S) /\ Len(front \o back) = Len(front) + Len(back)
        /\ \A j \in 1 .. Len(front) + Len(back) :
              (front \o back)[j] = IF j <= Len(front) THEN front[j]
                                   ELSE back[j - Len(front)]
    BY <1>2, <1>3, ConcatProperties
  <2>2. Len(front) + Len(back) = Len(s) - 1
    BY <1>1, <1>2, <1>3
  <2>3. DOMAIN (front \o back) = 1 .. Len(front \o back)
    BY <2>1, LenProperties
  <2>. QED  BY <1>2, <2>1, <2>2, <2>3
<1>5. ASSUME NEW j \in 1 .. Len(s) - 1
      PROVE  \E i \in DOMAIN s : (front \o back)[j] = s[i]
  <2>1. CASE j <= k - 1
    <3>1. j \in 1 .. k - 1 /\ j \in DOMAIN s
      BY <1>1, <2>1
    <3>. QED  BY <1>2, <1>4, <2>1, <3>1
  <2>2. CASE ~(j <= k - 1)
    <3>1. j - (k - 1) \in 1 .. Len(s) - k /\ k + (j - (k - 1)) \in DOMAIN s
      BY <1>1, <2>2
    <3>. QED  BY <1>3, <1>4, <2>2, <3>1
  <2>. QED  BY <2>1, <2>2
<1>. QED  BY <1>4, <1>5 DEF Without, front, back

LEMMA RestOf ==
    ASSUME NEW S, NEW s \in Seq(S), s # << >>
    PROVE  /\ Len(s) \in Nat \ {0} /\ DOMAIN s = 1 .. Len(s)
           /\ Head(s) = s[1] /\ Head(s) \in S /\ s[Len(s)] \in S
           /\ Tail(s) \in Seq(S) /\ Len(Tail(s)) = Len(s) - 1
           /\ DOMAIN Tail(s) = 1 .. Len(s) - 1
           /\ \A j \in 1 .. Len(s) - 1 : Tail(s)[j] = s[j + 1]
<1>1. Len(s) \in Nat \ {0} /\ DOMAIN s = 1 .. Len(s)
  BY LenProperties, EmptySeq
<1>2. Tail(s) \in Seq(S) /\ Len(Tail(s)) = Len(s) - 1
  BY HeadTailProperties
<1>3. DOMAIN Tail(s) = 1 .. Len(s) - 1
  BY <1>2, LenProperties
<1>4. \A j \in 1 .. Len(s) - 1 : Tail(s)[j] = s[j + 1]
  BY <1>1, <1>2, HeadTailProperties
<1>5. Head(s) = s[1] /\ s[1] \in S /\ s[Len(s)] \in S
  BY <1>1, ElementOfSeq
<1>. QED  BY <1>1, <1>2, <1>3, <1>4, <1>5

LEMMA OneMore ==
    ASSUME NEW S, NEW s \in Seq(S), NEW e \in S
    PROVE  /\ Append(s, e) \in Seq(S) /\ Len(s) \in Nat /\ DOMAIN s = 1 .. Len(s)
           /\ Len(Append(s, e)) = Len(s) + 1 /\ DOMAIN Append(s, e) = 1 .. Len(s) + 1
           /\ Append(s, e)[Len(s) + 1] = e
           /\ \A j \in 1 .. Len(s) : Append(s, e)[j] = s[j]
           /\ Append(s, e) # << >>
<1>1. Len(s) \in Nat /\ DOMAIN s = 1 .. Len(s)
  BY LenProperties
<1>2. /\ Append(s, e) \in Seq(S) /\ Len(Append(s, e)) = Len(s) + 1
      /\ Append(s, e)[Len(s) + 1] = e
      /\ \A j \in 1 .. Len(s) : Append(s, e)[j] = s[j]
  BY <1>1, AppendProperties
<1>3. DOMAIN Append(s, e) = 1 .. Len(s) + 1 /\ Append(s, e) # << >>
  BY <1>1, <1>2, LenProperties, EmptySeq
<1>. QED  BY <1>1, <1>2, <1>3

-----------------------------------------------------------------------------
(***************************************************************************)
(* What is genuine stays so.                                               *)
(***************************************************************************)
LEMMA GenuineAfter ==
    ASSUME LogsAreKept, NEW e, IsGenuine(e)
    PROVE  /\ e.game \in DOMAIN games' /\ e.no + 1 \in DOMAIN games'[e.game]
           /\ e.type = games'[e.game][e.no + 1].type
BY DEF IsGenuine, LogsAreKept

(* A datagram of the network as WireIsGenuine says it is. *)
IsGenuineDatagram(d) ==
    /\ d.game \in DOMAIN games /\ Len(d.events) <= MaxSend
    /\ \A j \in DOMAIN d.events :
          /\ d.first + j \in DOMAIN games[d.game]
          /\ d.events[j] = games[d.game][d.first + j]

LEMMA GenuineDatagramAfter ==
    ASSUME LogsAreKept, NEW d, IsGenuineDatagram(d)
    PROVE  /\ d.game \in DOMAIN games' /\ Len(d.events) <= MaxSend
           /\ \A j \in DOMAIN d.events :
                 /\ d.first + j \in DOMAIN games'[d.game]
                 /\ d.events[j] = games'[d.game][d.first + j]
BY DEF IsGenuineDatagram, LogsAreKept

LEMMA WireAfter ==
    ASSUME LogsAreKept, WireIsGenuine,
           \A j \in DOMAIN wire' : \/ \E i \in DOMAIN wire : wire'[j] = wire[i]
                                   \/ IsGenuineDatagram(wire'[j])
    PROVE  WireIsGenuine'
<1>1. \A i \in DOMAIN wire : IsGenuineDatagram(wire[i])
  BY DEF WireIsGenuine, IsGenuineDatagram
<1>2. \A j \in DOMAIN wire' : IsGenuineDatagram(wire'[j])
  BY <1>1
<1>. QED  BY <1>2, GenuineDatagramAfter DEF WireIsGenuine

-----------------------------------------------------------------------------
(***************************************************************************)
(* IInv is kept: one lemma per action.                                     *)
(***************************************************************************)
LEMMA ServerStays ==
    ASSUME IInv, UNCHANGED server
    PROVE  Sender!IInv' /\ LogsBegin' /\ LogsAreKept
BY SenderKeeps, LogsGrow DEF IInv

LEMMA EventsStay ==
    ASSUME EventsAreGenuine, LogsAreKept, UNCHANGED <<inbox, queue, told>>
    PROVE  EventsAreGenuine'
<1>1. ASSUME NEW e, IsGenuine(e)
      PROVE  /\ e.game \in DOMAIN games' /\ e.no + 1 \in DOMAIN games'[e.game]
             /\ e.type = games'[e.game][e.no + 1].type
  BY <1>1, GenuineAfter
<1>. QED  BY <1>1 DEF EventsAreGenuine, IsGenuine

LEMMA GapsStay ==
    ASSUME NumbersAreGapless, NextIsExpected, UNCHANGED <<queue, told>>,
           nextExpected' = nextExpected \/ nextExpected' = 0
    PROVE  NumbersAreGapless' /\ NextIsExpected'
BY DEF NumbersAreGapless, NextIsExpected, Accepted

LEMMA ClientStays ==
    ASSUME IInv, LogsAreKept, UNCHANGED client
    PROVE  EventsAreGenuine' /\ ThreadsAtWork' /\ NumbersAreGapless' /\ NextIsExpected'
<1>1. UNCHANGED <<nextExpected, inbox, receiving, queue, telling, told>>
  BY DEF client
<1>2. ThreadsAtWork'
  BY <1>1 DEF IInv, ThreadsAtWork
<1>. QED  BY <1>1, <1>2, EventsStay, GapsStay DEF IInv

LEMMA WireStays ==
    ASSUME WireIsGenuine, LogsAreKept, UNCHANGED wire
    PROVE  WireIsGenuine'
BY WireAfter

LEMMA PlayInv == IInv /\ Play => IInv'
<1>. SUFFICES ASSUME IInv, Play PROVE IInv'
  OBVIOUS
<1>1. SenderActs /\ UNCHANGED <<client, network>>
  BY DEF Play, SenderActs
<1>2. Sender!IInv' /\ LogsBegin' /\ LogsAreKept
  BY <1>1, SenderKeeps, LogsGrow DEF IInv
<1>3. TypeOK'
  BY <1>1 DEF client, network, IInv, TypeOK
<1>. QED
  BY <1>1, <1>2, <1>3, ClientStays, WireStays DEF IInv, network

LEMMA SendInv == IInv /\ Send => IInv'
<1>. SUFFICES ASSUME IInv, Send PROVE IInv'
  OBVIOUS
<1>. DEFINE d == Sender!NextDatagram
<1>1. /\ SenderActs /\ Sender!SendDatagram /\ Sender!Sends
      /\ wire' = Append(wire, d) /\ UNCHANGED <<client, uplink>>
  BY DEF Send, SenderActs, Sender!SendDatagram
<1>2. Sender!IInv' /\ LogsBegin' /\ LogsAreKept
  BY <1>1, SenderKeeps, LogsGrow DEF IInv
<1>3. SP!IInv /\ SP!TypeOK /\ SP!Sends /\ d = SP!NextDatagram
  BY <1>1, SameInvariant, SameBroadcast DEF IInv, SP!IInv
<1>4. /\ d.events \in Seq(Sender!Events) /\ d.to \in SP!Clients
      /\ d.first \in Nat /\ Len(d.events) <= MaxSend
      /\ d.events = SubSeq(games[d.game], d.first + 1, d.first + Len(d.events))
      /\ d.game \in DOMAIN games /\ d.first + Len(d.events) <= Len(games[d.game])
  <2>1. /\ SP!NextDatagram.events \in Seq(SP!Events) /\ SP!NextDatagram.to \in SP!Clients
    BY <1>3, SenderAssumed, SP!NextDatagramEvents
  <2>2. /\ SP!NextDatagram.first \in Nat
        /\ Len(SP!NextDatagram.events) \in 0 .. SP!SendCount(todo[SP!Served]) - sent
        /\ SP!SendCount(todo[SP!Served]) <= MaxSend
    BY <1>3, SenderAssumed, SP!NextDatagramBounds
  <2>3. SP!DatagramsAreGenuine
    BY <1>3, SenderAssumed, SP!NextDatagramIsGenuine
  <2>4. sent \in Nat
    BY <1>3, SessionAssumption DEF SP!TypeOK
  <2>5. SP!SendCount(todo[SP!Served]) \in Nat
    BY <1>3, SenderAssumed, SP!SendCountBounds, SP!ServedIsWaiting, LenProperties
       DEF SP!Sends, SP!TypeOK, SP!Available
  <2>6. Len(SP!NextDatagram.events) <= MaxSend
    BY <2>2, <2>4, <2>5, SessionAssumption
  <2>. QED  BY <1>3, <2>1, <2>2, <2>3, <2>6, SameEvents DEF SP!DatagramsAreGenuine
<1>5. d \in Datagrams
  <2>1. d = [to |-> d.to, game |-> d.game, first |-> d.first, events |-> d.events]
    BY DEF Sender!NextDatagram
  <2>. HIDE DEF d
  <2>2. d.to \in Nat
    BY <1>4, SessionAssumption DEF SP!Clients
  <2>3. d.game \in Nat
    <3>1. DOMAIN games = 1 .. Len(games) /\ Len(games) \in Nat
      BY LenProperties DEF IInv, Sender!IInv, Sender!TypeOK
    <3>. QED  BY <1>4, <3>1
  <2>. QED  BY <1>4, <2>1, <2>2, <2>3 DEF Datagrams
<1>6. IsGenuineDatagram(d)
  <2>. HIDE DEF d
  <2>1. games[d.game] \in Seq(Sender!Events) /\ Len(d.events) \in Nat
        /\ DOMAIN d.events = 1 .. Len(d.events)
    BY <1>4, LenProperties, ElementOfSeq DEF IInv, Sender!IInv, Sender!TypeOK
  <2>2. /\ Len(games[d.game]) \in Nat /\ DOMAIN games[d.game] = 1 .. Len(games[d.game])
    BY <2>1, LenProperties
  <2>3. ASSUME NEW j \in DOMAIN d.events
        PROVE  d.first + j \in DOMAIN games[d.game]
               /\ d.events[j] = games[d.game][d.first + j]
    <3>. DEFINE log == games[d.game]
                n == Len(d.events)
                first == d.first
    <3>1. /\ log \in Seq(Sender!Events) /\ Len(log) \in Nat /\ DOMAIN log = 1 .. Len(log)
          /\ n \in Nat /\ first \in Nat /\ first + n <= Len(log) /\ j \in 1 .. n
          /\ d.events = SubSeq(log, first + 1, first + n)
      BY <1>4, <2>1, <2>2, <2>3
    <3>. HIDE DEF log, n, first
    <3>2. SubSeq(log, first + 1, first + n)[j] = log[first + 1 + j - 1]
      BY <3>1, SubSeqProperties
    <3>3. first + 1 + j - 1 = first + j /\ first + j \in 1 .. Len(log)
      BY <3>1
    <3>. QED  BY <3>1, <3>2, <3>3 DEF log, first
  <2>. QED  BY <1>4, <2>3 DEF IsGenuineDatagram
<1>. HIDE DEF d
<1>7. wire \in Seq(Datagrams)
  BY DEF IInv, TypeOK
<1>8. wire' \in Seq(Datagrams) /\ DOMAIN wire' = 1 .. Len(wire) + 1
      /\ wire'[Len(wire) + 1] = d /\ Len(wire) \in Nat /\ DOMAIN wire = 1 .. Len(wire)
      /\ \A j \in 1 .. Len(wire) : wire'[j] = wire[j]
  BY <1>1, <1>5, <1>7, OneMore
<1>9. WireIsGenuine'
  <2>1. \A j \in DOMAIN wire' : j \in DOMAIN wire \/ j = Len(wire) + 1
    BY <1>8
  <2>. QED  BY <1>2, <1>6, <1>8, <2>1, WireAfter DEF IInv
<1>10. TypeOK'
  BY <1>1, <1>8 DEF IInv, TypeOK, client
<1>. QED  BY <1>1, <1>2, <1>9, <1>10, ClientStays DEF IInv

(* The events the client is given are those of the datagram. *)
LEMMA EventsOfDatagram ==
    ASSUME IInv, NEW d \in Datagrams, IsGenuineDatagram(d)
    PROVE  /\ EventsOf(d) \in Seq(NumberedEvents)
           /\ Len(EventsOf(d)) = Sender!ReadCount(d.events)
           /\ \A k \in DOMAIN EventsOf(d) :
                 IsGenuine(EventsOf(d)[k]) /\ EventsOf(d)[k].game = d.game
           /\ EventsOf(d) # << >> => Head(EventsOf(d)).no = d.first
<1>. DEFINE n == Sender!ReadCount(d.events)
            s == EventsOf(d)
<1>1. d.events \in Seq(Sender!Events) /\ d.game \in Nat /\ d.first \in Nat
  BY DEF Datagrams
<1>2. n \in 0 .. Len(d.events) /\ Len(d.events) \in Nat
      /\ DOMAIN d.events = 1 .. Len(d.events)
  BY <1>1, SameReader, SameEvents, SenderAssumed, SP!ReadCountBounds, LenProperties
<1>3. s = [k \in 1 .. n |-> [game |-> d.game, no |-> d.first + k - 1,
                             type |-> d.events[k].type]]
  BY DEF EventsOf, Client!Event
<1>. HIDE DEF n, s
<1>4. ASSUME NEW k \in 1 .. n
      PROVE  /\ s[k] \in NumberedEvents /\ IsGenuine(s[k])
             /\ s[k].no = d.first + k - 1 /\ s[k].game = d.game
  <2>1. k \in DOMAIN d.events /\ d.events[k] \in Sender!Events
    BY <1>1, <1>2, ElementOfSeq
  <2>2. d.events[k].type \in EventTypes
    BY <2>1 DEF Sender!Events, Sender!Nameless, Sender!Pixel, Sender!Eliminated,
               Sender!GameOver, EventTypes
  <2>3. s[k].game = d.game /\ s[k].no = d.first + k - 1 /\ s[k].type = d.events[k].type
    BY <1>3
  <2>4. s[k] \in NumberedEvents
    BY <1>1, <1>2, <1>3, <2>2 DEF NumberedEvents
  <2>5. d.first + k - 1 + 1 = d.first + k
    BY <1>1, <1>2
  <2>6. IsGenuine(s[k])
    BY <2>1, <2>3, <2>5 DEF IsGenuine, IsGenuineDatagram
  <2>. QED  BY <2>3, <2>4, <2>6
<1>5. s \in Seq(NumberedEvents) /\ DOMAIN s = 1 .. n /\ Len(s) = n
  <2>1. s = [k \in 1 .. n |-> s[k]]
    BY <1>3
  <2>. QED  BY <1>2, <1>3, <1>4, <2>1
<1>6. s # << >> => Head(s).no = d.first
  <2>. SUFFICES ASSUME s # << >> PROVE Head(s).no = d.first
    OBVIOUS
  <2>1. 1 \in 1 .. n /\ Head(s) = s[1]
    BY <1>5, RestOf
  <2>. QED  BY <1>1, <1>4, <2>1
<1>. QED  BY <1>4, <1>5, <1>6 DEF s, n

LEMMA DeliverInv == IInv /\ Deliver => IInv'
<1>. SUFFICES ASSUME IInv, Deliver PROVE IInv'
  OBVIOUS
<1>1. PICK k \in Arriving(wire) :
         /\ Client!Receive(EventsOf(wire[k]))
         /\ wire' = Without(wire, k) \/ UNCHANGED wire
  BY DEF Deliver
<1>2. /\ ~quit /\ inbox = << >> /\ inbox' = EventsOf(wire[k])
      /\ UNCHANGED <<nextExpected, roster, receiving, queue, telling, told, quit>>
      /\ UNCHANGED <<server, uplink>>
  BY <1>1 DEF Client!Receive, Deliver
<1>3. Sender!IInv' /\ LogsBegin' /\ LogsAreKept /\ UNCHANGED games
  BY <1>2, ServerStays DEF server
<1>4. wire \in Seq(Datagrams) /\ k \in DOMAIN wire /\ wire[k] \in Datagrams
  <2>1. wire \in Seq(Datagrams) /\ k \in DOMAIN wire
    BY DEF IInv, TypeOK, Arriving
  <2>. QED  BY <2>1, LenProperties, ElementOfSeq
<1>5. IsGenuineDatagram(wire[k])
  BY <1>4 DEF IInv, WireIsGenuine, IsGenuineDatagram
<1>6. /\ inbox' \in Seq(NumberedEvents)
      /\ \A j \in DOMAIN inbox' : IsGenuine(inbox'[j])
  BY <1>2, <1>4, <1>5, EventsOfDatagram
<1>7. /\ wire' \in Seq(Datagrams)
      /\ \A j \in DOMAIN wire' : \E i \in DOMAIN wire : wire'[j] = wire[i]
  <2>1. CASE wire' = Without(wire, k)
    BY <1>4, <2>1, WithoutOne
  <2>2. CASE UNCHANGED wire
    BY <1>4, <2>2
  <2>. QED  BY <1>1, <2>1, <2>2
<1>8. WireIsGenuine'
  BY <1>3, <1>7, WireAfter DEF IInv
<1>9. TypeOK'
  BY <1>2, <1>6, <1>7 DEF IInv, TypeOK
<1>10. EventsAreGenuine'
  BY <1>2, <1>3, <1>6 DEF IInv, EventsAreGenuine, IsGenuine
<1>11. ThreadsAtWork'
  BY <1>2 DEF IInv, ThreadsAtWork
<1>. QED  BY <1>2, <1>3, <1>8, <1>9, <1>10, <1>11, GapsStay DEF IInv

LEMMA UplinkInv == IInv /\ (Heartbeat \/ Hear \/ Lose) => IInv'
<1>. SUFFICES ASSUME IInv, Heartbeat \/ Hear \/ Lose PROVE IInv'
  OBVIOUS
<1>1. wire \in Seq(Datagrams) /\ uplink \in Seq(Nat) /\ nextExpected \in Nat
      /\ \A k \in DOMAIN uplink : uplink[k] \in Nat
  BY LenProperties, ElementOfSeq DEF IInv, TypeOK
<1>2. /\ UNCHANGED client
      /\ SenderActs \/ UNCHANGED server
      /\ uplink' \in Seq(Nat) /\ wire' \in Seq(Datagrams)
      /\ \A j \in DOMAIN wire' : \E i \in DOMAIN wire : wire'[j] = wire[i]
  <2>1. CASE Heartbeat
    BY <1>1, <2>1, OneMore DEF Heartbeat
  <2>2. CASE Hear
    <3>1. PICK k \in DOMAIN uplink :
             /\ Sender!Hear(1, uplink[k])
             /\ uplink' = Without(uplink, k) \/ UNCHANGED uplink
      BY <2>2 DEF Hear, Arriving
    <3>2. uplink' \in Seq(Nat)
      BY <1>1, <3>1, WithoutOne
    <3>. QED  BY <1>1, <2>2, <3>1, <3>2 DEF Hear, SenderActs
  <2>3. CASE Lose
    <3>1. \/ (\E k \in DOMAIN wire : wire' = Without(wire, k)) /\ UNCHANGED uplink
          \/ (\E k \in DOMAIN uplink : uplink' = Without(uplink, k)) /\ UNCHANGED wire
      BY <2>3 DEF Lose
    <3>. QED  BY <1>1, <2>3, <3>1, WithoutOne DEF Lose
  <2>. QED  BY <2>1, <2>2, <2>3
<1>3. Sender!IInv' /\ LogsBegin' /\ LogsAreKept
  BY <1>2, SenderKeeps, LogsGrow DEF IInv
<1>4. WireIsGenuine'
  BY <1>2, <1>3, WireAfter DEF IInv
<1>5. TypeOK'
  BY <1>2 DEF IInv, TypeOK, client
<1>. QED  BY <1>2, <1>3, <1>4, <1>5, ClientStays DEF IInv


LEMMA ClientAlone ==
    ASSUME IInv, UNCHANGED <<server, network>>
    PROVE  /\ Sender!IInv' /\ LogsBegin' /\ LogsAreKept /\ WireIsGenuine'
           /\ UNCHANGED <<games, wire, uplink>>
BY ServerStays, WireStays DEF IInv, server, network

(* The receiver, where it leaves the queue alone. *)
LEMMA ReceiverInv ==
    ASSUME IInv, UNCHANGED <<server, network>>,
           Client!BeginGame \/ Client!AdoptRoster \/ Client!RejectNonsense \/ Client!Skip
    PROVE  IInv'
<1>1. /\ inbox \in Seq(NumberedEvents) /\ receiving \in {"event", "roster", "compare"}
      /\ roster \in Nat /\ nextExpected \in Nat
  BY DEF IInv, TypeOK
<1>2. inbox # << >>
  BY DEF Client!BeginGame, Client!AdoptRoster, Client!RejectNonsense, Client!Skip,
         Client!Compares, IInv, ThreadsAtWork
<1>3. /\ Head(inbox) \in NumberedEvents /\ Tail(inbox) \in Seq(NumberedEvents)
      /\ \A j \in DOMAIN Tail(inbox) : j + 1 \in DOMAIN inbox /\ Tail(inbox)[j] = inbox[j + 1]
  BY <1>1, <1>2, RestOf
<1>4. /\ UNCHANGED <<queue, telling, told>>
      /\ nextExpected' = nextExpected \/ nextExpected' = 0
      /\ inbox' = inbox \/ inbox' = Tail(inbox)
      /\ receiving' \in {"event", "roster", "compare"}
      /\ receiving' # "event" => (inbox' = inbox /\ Head(inbox).type = "NEW_GAME")
      /\ roster' \in Nat /\ quit' \in BOOLEAN
  <2>1. CASE Client!BeginGame
    BY <1>1, <2>1 DEF Client!BeginGame, Client!Current, IInv, TypeOK
  <2>2. CASE Client!AdoptRoster
    BY <1>1, <1>3, <2>2
       DEF Client!AdoptRoster, Client!Current, IInv, TypeOK, ThreadsAtWork, NumberedEvents
  <2>3. CASE Client!RejectNonsense
    BY <1>1, <2>3 DEF Client!RejectNonsense, Client!reception, IInv, TypeOK
  <2>4. CASE Client!Skip
    BY <1>1, <2>4 DEF Client!Skip, IInv, TypeOK
  <2>. QED  BY <2>1, <2>2, <2>3, <2>4
<1>5. TypeOK'
  <2>1. TypeOK /\ UNCHANGED <<wire, uplink>>
    BY ClientAlone DEF IInv
  <2>2. inbox' \in Seq(NumberedEvents) /\ nextExpected' \in Nat
    BY <1>1, <1>3, <1>4
  <2>. QED  BY <1>4, <2>1, <2>2 DEF TypeOK
<1>6. EventsAreGenuine'
  <2>1. EventsAreGenuine /\ UNCHANGED <<queue, told, games>>
    BY <1>4, ClientAlone DEF IInv
  <2>2. \A j \in DOMAIN inbox' : \E i \in DOMAIN inbox : inbox'[j] = inbox[i]
    BY <1>3, <1>4
  <2>. QED  BY <2>1, <2>2 DEF EventsAreGenuine, IsGenuine
<1>7. ThreadsAtWork'
  BY <1>2, <1>4 DEF IInv, ThreadsAtWork
<1>. QED  BY <1>4, <1>5, <1>6, <1>7, GapsStay, ClientAlone DEF IInv

(* What is queued is the event that is expected. *)
LEMMA EnqueueInv ==
    ASSUME IInv, UNCHANGED <<server, network>>, Client!Enqueue
    PROVE  IInv'
<1>. DEFINE e == Head(inbox)
<1>1. /\ inbox # << >> /\ e.no = nextExpected /\ ~telling
      /\ nextExpected' = nextExpected + 1
      /\ queue' = Append(queue, e) /\ inbox' = Tail(inbox) /\ receiving' = "event"
      /\ UNCHANGED <<roster, telling, told, quit>>
  BY DEF Client!Enqueue, Client!Compares, Client!Expected, Client!Current
<1>2. /\ inbox \in Seq(NumberedEvents) /\ queue \in Seq(NumberedEvents)
      /\ nextExpected \in Nat
  BY DEF IInv, TypeOK
<1>3. /\ e \in NumberedEvents /\ Tail(inbox) \in Seq(NumberedEvents)
      /\ 1 \in DOMAIN inbox /\ e = inbox[1]
      /\ \A j \in DOMAIN Tail(inbox) : j + 1 \in DOMAIN inbox /\ Tail(inbox)[j] = inbox[j + 1]
  BY <1>1, <1>2, RestOf
<1>4. IsGenuine(e)
  BY <1>3 DEF IInv, EventsAreGenuine
<1>. HIDE DEF e
<1>5. /\ queue' \in Seq(NumberedEvents) /\ Len(queue) \in Nat
      /\ DOMAIN queue = 1 .. Len(queue) /\ Len(queue') = Len(queue) + 1
      /\ DOMAIN queue' = 1 .. Len(queue) + 1 /\ queue'[Len(queue) + 1] = e
      /\ \A j \in 1 .. Len(queue) : queue'[j] = queue[j]
      /\ queue' # << >>
  BY <1>1, <1>2, <1>3, OneMore
<1>6. TypeOK'
  BY <1>1, <1>2, <1>3, <1>5, ClientAlone DEF IInv, TypeOK
<1>7. EventsAreGenuine'
  <2>1. EventsAreGenuine /\ UNCHANGED <<told, games>>
    BY <1>1, ClientAlone DEF IInv
  <2>2. \A j \in DOMAIN inbox' : \E i \in DOMAIN inbox : inbox'[j] = inbox[i]
    BY <1>1, <1>3
  <2>3. \A j \in DOMAIN queue' : queue'[j] = e \/ \E i \in DOMAIN queue : queue'[j] = queue[i]
    BY <1>5
  <2>. QED  BY <1>4, <2>1, <2>2, <2>3 DEF EventsAreGenuine, IsGenuine
<1>8. ThreadsAtWork'
  BY <1>1 DEF IInv, ThreadsAtWork
<1>9. NextIsExpected'
  <2>1. queue'[Len(queue')].no + 1 = nextExpected'
    BY <1>1, <1>5
  <2>. QED  BY <1>5, <2>1 DEF NextIsExpected, Accepted
<1>10. NumbersAreGapless'
  <2>1. ASSUME NEW k \in 1 .. Len(queue') - 1
        PROVE  queue'[k + 1].no \in {queue'[k].no + 1, 0}
    <3>1. CASE k < Len(queue)
      <4>1. k \in 1 .. Len(queue) - 1 /\ k \in 1 .. Len(queue) /\ k + 1 \in 1 .. Len(queue)
        BY <1>5, <2>1, <3>1
      <4>2. queue'[k + 1] = queue[k + 1] /\ queue'[k] = queue[k]
        BY <1>5, <4>1
      <4>3. queue[k + 1].no \in {queue[k].no + 1, 0}
        BY <4>1 DEF IInv, NumbersAreGapless
      <4>. QED  BY <4>2, <4>3
    <3>2. CASE k = Len(queue)
      <4>1. queue # << >> /\ queue'[k + 1] = e /\ queue'[k] = queue[Len(queue)]
        BY <1>2, <1>5, <2>1, <3>2, EmptySeq
      <4>. QED  BY <1>1, <4>1 DEF IInv, NextIsExpected, Accepted
    <3>3. k < Len(queue) \/ k = Len(queue)
      <4>1. k \in 1 .. Len(queue) + 1 - 1 /\ Len(queue) \in Nat
        BY <1>5, <2>1
      <4>. QED  BY ONLY <4>1
    <3>. QED  BY <3>1, <3>2, <3>3
  <2>2. Head(queue').no \in {told'.no + 1, 0}
    <3>1. Head(queue') = queue'[1]
      BY <1>5, RestOf
    <3>2. CASE queue = << >>
      <4>1. queue'[1] = e
        BY <1>5, <3>2
      <4>. QED  BY <1>1, <3>1, <3>2, <4>1 DEF IInv, NextIsExpected, Accepted
    <3>3. CASE queue # << >>
      <4>1. queue'[1] = queue[1] /\ Head(queue) = queue[1]
        BY <1>2, <1>5, <3>3, RestOf
      <4>. QED  BY <1>1, <3>1, <3>3, <4>1 DEF IInv, NumbersAreGapless
    <3>. QED  BY <3>2, <3>3
  <2>. QED  BY <2>1, <2>2 DEF NumbersAreGapless
<1>. QED  BY <1>6, <1>7, <1>8, <1>9, <1>10, ClientAlone DEF IInv

(* What is told leaves the queue at its head. *)
LEMMA TellInv ==
    ASSUME IInv, UNCHANGED <<server, network>>, Client!Tell
    PROVE  IInv'
<1>. DEFINE e == Head(queue)
            rest == Tail(queue)
<1>1. /\ telling /\ queue # << >> /\ queue \in Seq(NumberedEvents)
      /\ inbox \in Seq(NumberedEvents) /\ roster \in Nat
  BY DEF Client!Tell, IInv, TypeOK, ThreadsAtWork
<1>2. /\ Len(queue) \in Nat \ {0} /\ DOMAIN queue = 1 .. Len(queue)
      /\ e = queue[1] /\ e \in NumberedEvents
      /\ rest \in Seq(NumberedEvents) /\ Len(rest) = Len(queue) - 1
      /\ DOMAIN rest = 1 .. Len(queue) - 1
      /\ \A j \in 1 .. Len(queue) - 1 : rest[j] = queue[j + 1]
  BY <1>1, RestOf
<1>. HIDE DEF rest
<1>3. /\ queue' = rest /\ telling' = (Len(queue) > 1)
      /\ UNCHANGED <<nextExpected, inbox, receiving, quit>>
  BY DEF Client!Tell, Client!reception, rest
<1>4. Client!RostersRead \subseteq Nat
  <2>1. receiving = "roster" => Head(inbox).game \in Nat
    <3>1. receiving = "roster" => inbox # << >>
      BY DEF IInv, ThreadsAtWork
    <3>2. receiving = "roster" => Head(inbox) \in NumberedEvents
      BY <1>1, <3>1, RestOf
    <3>. QED  BY <3>2 DEF NumberedEvents
  <2>. QED  BY <1>1, <2>1 DEF Client!RostersRead, Client!Current, Client!NoRoster
<1>5. /\ roster' \in Nat
      /\ \E r \in Nat :
            told' = [game |-> e.game, no |-> e.no, type |-> e.type, named |-> r]
  <2>1. e.game \in Nat
    BY <1>2 DEF NumberedEvents
  <2>. QED  BY <1>1, <1>4, <2>1 DEF Client!Tell
<1>6. /\ told' \in [game : Nat, no : Nat, type : EventTypes, named : Nat]
      /\ told'.no = e.no /\ told'.game = e.game /\ told'.type = e.type
  BY <1>2, <1>5 DEF NumberedEvents
<1>. HIDE DEF e
<1>7. TypeOK'
  BY <1>2, <1>3, <1>5, <1>6, ClientAlone DEF IInv, TypeOK
<1>8. EventsAreGenuine'
  <2>1. EventsAreGenuine /\ UNCHANGED <<inbox, games>>
    BY <1>3, ClientAlone DEF IInv
  <2>2. \A j \in DOMAIN queue' : \E i \in DOMAIN queue : queue'[j] = queue[i]
    <3>1. \A j \in 1 .. Len(queue) - 1 : j + 1 \in DOMAIN queue
      BY <1>2
    <3>. QED  BY <1>2, <1>3, <3>1
  <2>3. IsGenuine(e)
    BY <1>2, <2>1 DEF EventsAreGenuine
  <2>. QED  BY <1>6, <2>1, <2>2, <2>3 DEF EventsAreGenuine, IsGenuine
<1>9. ThreadsAtWork'
  <2>1. Len(queue) > 1 => rest # << >>
    BY <1>2
  <2>. QED  BY <1>3, <2>1 DEF IInv, ThreadsAtWork
<1>10. NumbersAreGapless'
  <2>1. ASSUME NEW k \in 1 .. Len(rest) - 1
        PROVE  rest[k + 1].no \in {rest[k].no + 1, 0}
    <3>1. /\ k + 1 \in 1 .. Len(queue) - 1 /\ k \in 1 .. Len(queue) - 1
      BY <1>2, <2>1
    <3>. QED  BY <1>2, <3>1 DEF IInv, NumbersAreGapless
  <2>2. rest # << >> => Head(rest).no \in {told'.no + 1, 0}
    <3>. SUFFICES ASSUME rest # << >> PROVE Head(rest).no \in {told'.no + 1, 0}
      OBVIOUS
    <3>1. 1 \in 1 .. Len(queue) - 1 /\ Head(rest) = rest[1]
      BY <1>2, RestOf
    <3>2. Head(rest) = queue[1 + 1]
      BY <1>2, <3>1
    <3>. QED  BY <1>2, <1>6, <3>1, <3>2 DEF IInv, NumbersAreGapless
  <2>. QED  BY <1>3, <2>1, <2>2 DEF NumbersAreGapless
<1>11. NextIsExpected'
  <2>1. Accepted'.no = queue[Len(queue)].no
    <3>1. CASE rest = << >>
      <4>1. Len(queue) \in Nat /\ Len(queue) - 1 = 0
        BY <1>2, <3>1
      <4>2. Len(queue) = 1
        BY ONLY <4>1
      <4>. QED  BY <1>2, <1>3, <1>6, <3>1, <4>2 DEF Accepted
    <3>2. CASE rest # << >>
      <4>1. Len(rest) \in 1 .. Len(queue) - 1 /\ Len(rest) + 1 = Len(queue)
        BY <1>2, <3>2, EmptySeq
      <4>2. rest[Len(rest)] = queue[Len(queue)]
        BY <1>2, <4>1
      <4>. QED  BY <1>3, <3>2, <4>2 DEF Accepted
    <3>. QED  BY <3>1, <3>2
  <2>. QED  BY <1>1, <1>3, <2>1 DEF IInv, NextIsExpected, Accepted
<1>. QED  BY <1>7, <1>8, <1>9, <1>10, <1>11, ClientAlone DEF IInv

LEMMA TakeQueueInv ==
    ASSUME IInv, UNCHANGED <<server, network>>, Client!TakeQueue
    PROVE  IInv'
<1>1. /\ queue # << >> /\ telling' = TRUE
      /\ UNCHANGED <<nextExpected, inbox, receiving, roster, queue, told, quit>>
  BY DEF Client!TakeQueue, Client!reception
<1>2. TypeOK'
  BY <1>1, ClientAlone DEF IInv, TypeOK
<1>3. ThreadsAtWork'
  BY <1>1 DEF IInv, ThreadsAtWork
<1>. QED  BY <1>1, <1>2, <1>3, ClientAlone, EventsStay, GapsStay DEF IInv

LEMMA ClientStepInv == IInv /\ ClientStep => IInv'
BY ReceiverInv, EnqueueInv, TellInv, TakeQueueInv
   DEF ClientStep, Client!Step, Client!ReceiverStep, Client!GuiStep

LEMMA InitInv == Init => IInv
<1>. SUFFICES ASSUME Init PROVE IInv
  OBVIOUS
<1>1. Sender!IInv
  <2>1. SP!Init
    BY DEF Init, Sender!Init, SP!Init, Sender!NoSnapshot, SP!NoSnapshot
  <2>. QED  BY <2>1, SenderAssumed, SP!InitInv, SameInvariant
<1>2. /\ games = << >> /\ wire = << >> /\ uplink = << >> /\ inbox = << >> /\ queue = << >>
      /\ nextExpected = 0 /\ roster = 0 /\ receiving = "event" /\ telling = FALSE
      /\ told = Client!Nothing /\ quit = FALSE
  BY DEF Init, Sender!Init, Client!Init, Client!NoRoster
<1>3. TypeOK
  <2>1. \A S : << >> \in Seq(S)
    OBVIOUS
  <2>. QED  BY <1>2, <2>1 DEF TypeOK
<1>. QED
  BY <1>1, <1>2, <1>3
     DEF IInv, LogsBegin, EventsAreGenuine, WireIsGenuine, ThreadsAtWork,
         NumbersAreGapless, NextIsExpected, Accepted

LEMMA StutterInv == IInv /\ UNCHANGED vars => IInv'
<1>. SUFFICES ASSUME IInv, UNCHANGED vars PROVE IInv'
  OBVIOUS
<1>1. UNCHANGED <<server, client, network>>
  BY DEF vars
<1>2. TypeOK'
  BY <1>1 DEF client, network, IInv, TypeOK
<1>. QED  BY <1>1, <1>2, ClientAlone, ClientStays DEF IInv

LEMMA Invariance == Spec => []IInv
<1>1. IInv /\ [Next]_vars => IInv'
  BY PlayInv, SendInv, DeliverInv, ClientStepInv, UplinkInv, StutterInv DEF Next
<1>. QED  BY <1>1, InitInv, PTL DEF Spec

-----------------------------------------------------------------------------
(* Whatever the network loses, repeats or lets overtake, the events        *)
(* receive_game_job accepts have numbers without gaps.                     *)
THEOREM NumbersHaveNoGaps == Spec => []NumbersAreGapless
BY Invariance, PTL DEF IInv

(* What receive_game_job accepts and send_gui_job tells is what the server *)
(* generated under this number in this game.                               *)
THEOREM AcceptedEventsAreGenuine == Spec => []AcceptsGenuineEvents
<1>1. IInv => AcceptsGenuineEvents
  BY DEF IInv, EventsAreGenuine, IsGenuine, AcceptsGenuineEvents
<1>. QED  BY <1>1, Invariance, PTL

-----------------------------------------------------------------------------
(***************************************************************************)
(* What short replies add.                                                 *)
(***************************************************************************)
LEMMA GamesHaveOneRoster ==
    ASSUME IInv, NEW g \in DOMAIN games
    PROVE  /\ games[g] \in Seq(Sender!Events) /\ g \in Nat \ {0}
           /\ DOMAIN games[g] \subseteq Nat
           /\ \E n \in NamesLens : SP!OneRoster(games[g], n)
<1>1. /\ games \in Seq(Seq(Sender!Events)) /\ games[g] # << >>
  BY DEF IInv, Sender!IInv, Sender!TypeOK, Sender!LogsHaveBegun
<1>2. games[g] \in Seq(Sender!Events) /\ g \in Nat \ {0}
  BY <1>1, LenProperties, ElementOfSeq
<1>3. DOMAIN games[g] = 1 .. Len(games[g]) /\ Len(games[g]) \in Nat \ {0}
  BY <1>1, <1>2, LenProperties, EmptySeq
<1>4. games[g][1].namesLen \in NamesLens
  BY <1>3 DEF IInv, LogsBegin
<1>5. SP!OneRoster(games[g], games[g][1].namesLen)
  <2>1. games[g][1].namesLen <= games[g][1].namesLen
    <3>1. \A n \in Nat : n <= n
      OBVIOUS
    <3>. QED  BY <1>4, <3>1, SessionAssumption
  <2>. QED  BY <2>1 DEF IInv, LogsBegin, SP!OneRoster
<1>. QED  BY <1>2, <1>3, <1>4, <1>5

(* No event of a log is refused, if no name is too long. *)
LEMMA ReadableLogs ==
    ASSUME NamesAreReadable, IInv, NEW g \in DOMAIN games, NEW k \in DOMAIN games[g]
    PROVE  ~SP!IsRefused(games[g][k])
<1>. DEFINE e == games[g][k]
<1>1. e \in Sender!Events
  BY GamesHaveOneRoster, ElementOfSeq
<1>2. e.type = "NEW_GAME" => e.longest \in LongestNames
  BY DEF IInv, LogsBegin
<1>. HIDE DEF e
<1>3. CASE e.type = "NEW_GAME"
  <2>1. e.longest \in Nat /\ e.longest <= 64
    BY <1>2, <1>3, SessionAssumption DEF NamesAreReadable, Sender!MaxNameLen
  <2>. QED  BY <2>1 DEF SP!IsRefused, SP!MaxNameLen, e
<1>4. CASE e.type # "NEW_GAME"
  <2>1. e.longest = 0
    BY <1>1, <1>4 DEF Sender!Events, Sender!Nameless, Sender!Pixel, Sender!Eliminated, Sender!GameOver
  <2>. QED  BY <2>1 DEF SP!IsRefused, SP!MaxNameLen, e
<1>. QED  BY <1>3, <1>4

LEMMA ShortIsReadInFull ==
    RepliesAreShort /\ NamesAreReadable /\ IInv => DatagramsAreReadInFull
<1>. SUFFICES ASSUME RepliesAreShort, NamesAreReadable, IInv, NEW k \in DOMAIN wire
              PROVE  Sender!ReadCount(wire[k].events) = Len(wire[k].events)
  BY DEF DatagramsAreReadInFull
<1>. DEFINE d == wire[k]
            s == d.events
<1>1. d \in Datagrams
  <2>1. wire \in Seq(Datagrams)
    BY DEF IInv, TypeOK
  <2>. QED  BY <2>1, LenProperties, ElementOfSeq
<1>2. IsGenuineDatagram(d)
  BY DEF IInv, WireIsGenuine, IsGenuineDatagram
<1>. HIDE DEF d
<1>3. PICK n \in NamesLens : SP!OneRoster(games[d.game], n)
  BY <1>2, GamesHaveOneRoster DEF IsGenuineDatagram
<1>4. s \in Seq(Sender!Events) /\ Len(s) \in Nat /\ DOMAIN s = 1 .. Len(s)
      /\ Len(s) <= MaxSend /\ n \in Nat /\ d.first \in Nat
  BY <1>1, <1>2, LenProperties, SessionAssumption DEF Datagrams, IsGenuineDatagram
<1>5. SP!OneRoster(s, n)
  <2>. SUFFICES ASSUME NEW j \in 1 .. Len(s), s[j].type = "NEW_GAME"
                PROVE  j = 1 /\ s[j].namesLen <= n
    BY <1>4 DEF SP!OneRoster
  <2>1. d.first + j \in DOMAIN games[d.game] /\ s[j] = games[d.game][d.first + j]
    BY <1>2, <1>4 DEF IsGenuineDatagram
  <2>2. d.first + j = 1 /\ s[j].namesLen <= n
    BY <1>3, <2>1 DEF SP!OneRoster
  <2>. QED  BY <1>4, <2>2
<1>6. SP!GameIdLen + (n + 22 * Len(s)) + (n + 22) <= SP!MaxDatagramLen
  <2>1. Sender!GameIdLen + (n + 22 * MaxSend) + (n + 22) <= Sender!MaxDatagramLen
    BY DEF RepliesAreShort
  <2>2. MaxSend \in Nat
    BY SessionAssumption
  <2>3. 22 * Len(s) <= 22 * MaxSend
    BY <1>4, <2>2
  <2>. HIDE DEF s
  <2>. QED
    BY ONLY <1>4, <2>1, <2>2, <2>3
       DEF Sender!GameIdLen, Sender!MaxDatagramLen, SP!GameIdLen, SP!MaxDatagramLen
<1>7. SP!ReadCount(s) = Len(s)
  <2>1. s \in Seq(SP!Events)
    BY <1>4, SameEvents
  <2>2. \A j \in DOMAIN s : ~SP!IsRefused(s[j])
    <3>1. \A j \in DOMAIN s : /\ d.first + j \in DOMAIN games[d.game]
                             /\ s[j] = games[d.game][d.first + j]
      BY <1>2, <1>4 DEF IsGenuineDatagram
    <3>2. d.game \in DOMAIN games
      BY <1>2 DEF IsGenuineDatagram
    <3>. HIDE DEF s
    <3>. QED  BY <3>1, <3>2, ReadableLogs
  <2>. HIDE DEF s
  <2>. QED  BY ONLY <1>4, <1>5, <1>6, <2>1, <2>2, SenderAssumed, SP!ShortRepliesAreReadInFull
<1>. QED  BY <1>7, SameReader DEF d

(* The reply to a client is one datagram: none is ever sent in part. *)
LEMMA ReplyIsWhole ==
    ASSUME RepliesAreShort, IInv, sent = 0, Sender!SendDatagram
    PROVE  /\ Sender!Finish(Sender!Served)
           /\ Sender!NextDatagram.first = todo[Sender!Served]
           /\ Len(Sender!NextDatagram.events) > 0
<1>1. /\ SP!IInv /\ SP!TypeOK /\ SP!SnapshotIsPast /\ SP!Sends
  BY SameInvariant, SameBroadcast DEF IInv, SP!IInv, Sender!SendDatagram
<1>2. PICK n \in NamesLens : SP!OneRoster(snapshot.events, n)
  <2>1. CASE snapshot = SP!NoSnapshot
    <3>1. snapshot.events = << >> /\ SP!Available = 0
      BY <2>1 DEF SP!NoSnapshot, SP!Available
    <3>2. SP!Served \in DOMAIN todo /\ todo[SP!Served] \in Nat
      BY <1>1, SenderAssumed, SP!ServedIsWaiting DEF SP!Sends, SP!TypeOK
    <3>3. ~(0 < SP!SendCount(todo[SP!Served]))
      BY <3>1, <3>2, SessionAssumption DEF SP!SendCount
    <3>. QED  BY <1>1, <3>3 DEF SP!Sends
  <2>2. CASE snapshot # SP!NoSnapshot
    <3>. DEFINE log == games[snapshot.game]
                part == snapshot.events
    <3>1. /\ snapshot.game \in DOMAIN games /\ SP!Available \in 1 .. Len(log)
          /\ part = SubSeq(log, 1, SP!Available)
      BY <1>1, <2>2 DEF SP!SnapshotIsPast
    <3>2. log \in Seq(Sender!Events)
      BY <3>1, GamesHaveOneRoster
    <3>3. PICK n \in NamesLens : SP!OneRoster(log, n)
      BY <3>1, GamesHaveOneRoster
    <3>. HIDE DEF log, part
    <3>4. DOMAIN part = 1 .. SP!Available
          /\ \A j \in 1 .. SP!Available : j \in DOMAIN log /\ part[j] = log[j]
      <4>1. Len(log) \in Nat /\ DOMAIN log = 1 .. Len(log)
        BY <3>2, LenProperties
      <4>. QED  BY <3>1, <3>2, <4>1, SubSeqProperties
    <3>. QED  BY <3>3, <3>4 DEF SP!OneRoster, part
  <2>. QED  BY <2>1, <2>2
<1>3. SP!GameIdLen + (n + 22 * MaxSend) <= SP!MaxDatagramLen
  <2>1. n \in Nat /\ MaxSend \in Nat
    BY SessionAssumption
  <2>. QED
    BY <2>1 DEF RepliesAreShort, Sender!GameIdLen, Sender!MaxDatagramLen,
                SP!GameIdLen, SP!MaxDatagramLen
<1>4. Len(SP!NextDatagram.events) = SP!SendCount(todo[SP!Served])
  <2>1. n \in Nat
    BY SessionAssumption
  <2>. QED  BY ONLY <1>1, <1>2, <1>3, <2>1, SenderAssumed, sent = 0, SP!ShortRepliesAreWhole
<1>5. /\ SP!SendCount(todo[SP!Served]) \in Nat
      /\ SP!NextDatagram.first = todo[SP!Served] + sent /\ todo[SP!Served] \in Nat
  BY <1>1, SenderAssumed, SP!SendCountBounds, SP!ServedIsWaiting, SP!NextDatagramBounds,
     LenProperties DEF SP!Sends, SP!TypeOK, SP!Available
<1>6. /\ Sender!Served = SP!Served /\ Sender!NextDatagram = SP!NextDatagram
      /\ Sender!SendCount(todo[Sender!Served]) = SP!SendCount(todo[SP!Served])
  BY SameBroadcast
     DEF Sender!Served, SP!Served, Sender!SendCount, SP!SendCount,
         Sender!Available, SP!Available
<1>7. ~(sent + Len(Sender!NextDatagram.events) < Sender!SendCount(todo[Sender!Served]))
  BY <1>4, <1>5, <1>6
<1>8. Len(Sender!NextDatagram.events) > 0
  BY <1>1, <1>4, <1>5, <1>6 DEF SP!Sends
<1>. QED  BY <1>5, <1>6, <1>7, <1>8 DEF Sender!SendDatagram

(* What is genuine belongs to some game, and event 0 is its NEW_GAME. *)
LEMMA GenuineEvents ==
    ASSUME IInv, NEW e \in NumberedEvents, IsGenuine(e)
    PROVE  /\ e.game # Client!NoRoster
           /\ e.no = 0 => e.type = "NEW_GAME"
<1>1. e.game \in DOMAIN games /\ e.no + 1 \in DOMAIN games[e.game]
      /\ e.type = games[e.game][e.no + 1].type
  BY DEF IsGenuine
<1>2. e.game \in Nat \ {0}
  BY <1>1, GamesHaveOneRoster
<1>. QED  BY <1>1, <1>2 DEF Client!NoRoster, IInv, LogsBegin

LEMMA ShortServer ==
    ASSUME RepliesAreShort, IInv, ShortInv, Play \/ Send
    PROVE  ShortInv'
<1>1. /\ UNCHANGED <<client, uplink>>
      /\ sent' = 0 /\ UNCHANGED clients
      /\ \A c \in DOMAIN todo' :
            \/ c \in DOMAIN todo /\ todo'[c] = todo[c]
            \/ c \in DOMAIN clients /\ todo'[c] \in {0, clients[c]}
  <2>1. CASE Play
    <3>1. CASE Sender!StartGame \/ Sender!PlayRound
      BY <2>1, <3>1 DEF Play, network, ShortInv, Sender!StartGame, Sender!PlayRound
    <3>2. CASE Sender!TakeSnapshot
      BY <2>1, <3>2 DEF Play, network, Sender!TakeSnapshot, Sender!FirstWanted
    <3>3. CASE Sender!NothingToSend
      BY <2>1, <3>3 DEF Play, network, Sender!NothingToSend, Sender!Finish, Sender!server
    <3>. QED  BY <2>1, <3>1, <3>2, <3>3 DEF Play
  <2>2. CASE Send
    <3>1. Sender!Finish(Sender!Served) /\ UNCHANGED <<client, uplink, clients>>
      BY <2>2, ReplyIsWhole DEF ShortInv, Send, Sender!SendDatagram, Sender!server
    <3>. QED  BY <3>1 DEF Sender!Finish
  <2>. QED  BY <2>1, <2>2
<1>2. ASSUME roster = Client!NoRoster
      PROVE  \A k \in DOMAIN wire' : wire'[k].first = 0
  <2>1. \A k \in DOMAIN wire : wire[k].first = 0
    BY <1>2 DEF ShortInv, FirstContact
  <2>2. CASE Play
    BY <2>1, <2>2 DEF Play, network
  <2>3. CASE Send
    <3>. DEFINE d == Sender!NextDatagram
    <3>1. wire' = Append(wire, d) /\ Sender!SendDatagram /\ Sender!Sends
      BY <2>3 DEF Send, Sender!SendDatagram
    <3>2. Sender!Served \in DOMAIN todo
      <4>1. SP!Sends /\ SP!TypeOK
        BY <3>1, SameInvariant, SameBroadcast DEF IInv, SP!IInv
      <4>2. SP!Served \in DOMAIN todo
        BY <4>1, SenderAssumed, SP!ServedIsWaiting DEF SP!Sends
      <4>. QED  BY <4>2 DEF SP!Served, Sender!Served
    <3>3. d.first = 0
      BY <1>2, <3>1, <3>2, ReplyIsWhole DEF ShortInv, FirstContact
    <3>. HIDE DEF d
    <3>4. wire \in Seq(Datagrams)
      BY DEF IInv, TypeOK
    <3>5. wire \in Seq(Datagrams \cup {d})
      <4>1. Len(wire) \in Nat /\ wire \in [1 .. Len(wire) -> Datagrams]
        BY <3>4, LenProperties, ElementOfSeq
      <4>. QED  BY <4>1
    <3>6. \A k \in DOMAIN wire' : wire'[k] = d \/ \E i \in DOMAIN wire : wire'[k] = wire[i]
      BY <3>1, <3>5, OneMore
    <3>. QED  BY <2>1, <3>3, <3>6
  <2>. QED  BY <2>2, <2>3
<1>. QED  BY <1>1, <1>2 DEF ShortInv, FirstContact, NeverQuits, client

LEMMA ShortClient ==
    ASSUME RepliesAreShort, IInv, ShortInv, ClientStep
    PROVE  ShortInv'
<1>1. UNCHANGED <<games, clients, todo, sent, wire, uplink>> /\ Client!Step
  BY DEF ClientStep, server, network
<1>2. ASSUME inbox # << >>
      PROVE  /\ Head(inbox) \in NumberedEvents /\ Head(inbox).game # Client!NoRoster
             /\ Head(inbox).no = 0 => Head(inbox).type = "NEW_GAME"
  <2>1. inbox \in Seq(NumberedEvents)
    BY DEF IInv, TypeOK
  <2>2. Head(inbox) \in NumberedEvents /\ Head(inbox) = inbox[1] /\ 1 \in DOMAIN inbox
    BY <1>2, <2>1, RestOf
  <2>3. IsGenuine(Head(inbox))
    BY <2>2 DEF IInv, EventsAreGenuine
  <2>. QED  BY <2>2, <2>3, GenuineEvents
<1>3. inbox # << >> /\ receiving = "event" /\ roster = Client!NoRoster
          => Head(inbox).type = "NEW_GAME"
  BY <1>2 DEF ShortInv, FirstContact
<1>4. CASE Client!BeginGame
  BY <1>1, <1>4 DEF Client!BeginGame, ShortInv, FirstContact, NeverQuits
<1>5. CASE Client!AdoptRoster
  <2>1. roster' # Client!NoRoster /\ UNCHANGED quit
    BY <1>2, <1>5 DEF Client!AdoptRoster, Client!Current, IInv, ThreadsAtWork
  <2>. QED  BY <1>1, <2>1 DEF ShortInv, FirstContact, NeverQuits
<1>6. CASE Client!RejectNonsense
  BY <1>3, <1>6 DEF Client!RejectNonsense, Client!Nonsense, Client!NamesPlayer,
                    Client!Current
<1>7. CASE Client!Enqueue \/ Client!Skip
  <2>1. roster # Client!NoRoster
    BY <1>3, <1>7 DEF Client!Enqueue, Client!Skip, Client!Compares, Client!Current,
                      ShortInv, FirstContact
  <2>. QED  BY <1>1, <1>7, <2>1
            DEF Client!Enqueue, Client!Skip, ShortInv, FirstContact, NeverQuits
<1>8. CASE Client!TakeQueue
  BY <1>1, <1>8 DEF Client!TakeQueue, Client!reception, ShortInv, FirstContact, NeverQuits
<1>9. CASE Client!Tell
  <2>1. queue # << >> /\ queue \in Seq(NumberedEvents)
    BY <1>9 DEF Client!Tell, IInv, TypeOK, ThreadsAtWork
  <2>2. Head(queue) \in NumberedEvents /\ Head(queue) = queue[1] /\ 1 \in DOMAIN queue
    BY <2>1, RestOf
  <2>3. Head(queue).game # Client!NoRoster
    BY <2>2, GenuineEvents DEF IInv, EventsAreGenuine
  <2>4. roster' = roster \/ roster' # Client!NoRoster
    BY <1>9, <2>3 DEF Client!Tell
  <2>5. UNCHANGED <<nextExpected, inbox, receiving, quit>>
    BY <1>9 DEF Client!Tell, Client!reception
  <2>. QED  BY <1>1, <2>4, <2>5 DEF ShortInv, FirstContact, NeverQuits
<1>. QED  BY <1>1, <1>4, <1>5, <1>6, <1>7, <1>8, <1>9
          DEF Client!Step, Client!ReceiverStep, Client!GuiStep

LEMMA ShortNetwork ==
    ASSUME RepliesAreShort, IInv, ShortInv, Deliver \/ Heartbeat \/ Hear \/ Lose
    PROVE  ShortInv'
<1>1. /\ wire \in Seq(Datagrams) /\ uplink \in Seq(Nat) /\ nextExpected \in Nat
  BY DEF IInv, TypeOK
<1>2. CASE Deliver
  <2>1. PICK k \in Arriving(wire) :
           /\ Client!Receive(EventsOf(wire[k]))
           /\ wire' = Without(wire, k) \/ UNCHANGED wire
    BY <1>2 DEF Deliver
  <2>2. k \in DOMAIN wire /\ wire[k] \in Datagrams
    <3>1. k \in DOMAIN wire
      BY DEF Arriving
    <3>. QED  BY <1>1, <3>1, LenProperties, ElementOfSeq
  <2>3. IsGenuineDatagram(wire[k])
    BY <2>2 DEF IInv, WireIsGenuine, IsGenuineDatagram
  <2>4. inbox' # << >> => Head(inbox').no = wire[k].first
    BY <2>1, <2>2, <2>3, EventsOfDatagram DEF Client!Receive
  <2>5. \A j \in DOMAIN wire' : \E i \in DOMAIN wire : wire'[j] = wire[i]
    BY <1>1, <2>1, <2>2, WithoutOne
  <2>6. UNCHANGED <<nextExpected, roster, receiving, quit, uplink, clients, todo, sent>>
    BY <1>2, <2>1 DEF Deliver, Client!Receive, server
  <2>. QED  BY <2>2, <2>4, <2>5, <2>6 DEF ShortInv, FirstContact, NeverQuits
<1>3. CASE Heartbeat
  <2>1. /\ UNCHANGED <<nextExpected, roster, inbox, receiving, quit, wire, clients, todo, sent>>
        /\ uplink' = Append(uplink, nextExpected)
    BY <1>3 DEF Heartbeat, server, client
  <2>2. \A k \in DOMAIN uplink' :
           uplink'[k] = nextExpected \/ \E i \in DOMAIN uplink : uplink'[k] = uplink[i]
    BY <1>1, <2>1, OneMore
  <2>. QED  BY <2>1, <2>2 DEF ShortInv, FirstContact, NeverQuits
<1>4. CASE Hear
  <2>1. PICK k \in DOMAIN uplink :
           /\ Sender!Hear(1, uplink[k])
           /\ uplink' = Without(uplink, k) \/ UNCHANGED uplink
    BY <1>4 DEF Hear, Arriving
  <2>2. \A j \in DOMAIN uplink' : \E i \in DOMAIN uplink : uplink'[j] = uplink[i]
    BY <1>1, <2>1, WithoutOne
  <2>3. /\ UNCHANGED <<nextExpected, roster, inbox, receiving, quit, wire, todo, sent>>
        /\ \A c \in DOMAIN clients' :
              \/ clients'[c] = uplink[k]
              \/ c \in DOMAIN clients /\ clients'[c] = clients[c]
    BY <1>4, <2>1 DEF Hear, client, Sender!Hear
  <2>. QED  BY <2>1, <2>2, <2>3 DEF ShortInv, FirstContact, NeverQuits
<1>5. CASE Lose
  <2>1. /\ \A j \in DOMAIN wire' : \E i \in DOMAIN wire : wire'[j] = wire[i]
        /\ \A j \in DOMAIN uplink' : \E i \in DOMAIN uplink : uplink'[j] = uplink[i]
    BY <1>1, <1>5, WithoutOne DEF Lose
  <2>2. UNCHANGED <<nextExpected, roster, inbox, receiving, quit, clients, todo, sent>>
    BY <1>5 DEF Lose, server, client
  <2>. QED  BY <2>1, <2>2 DEF ShortInv, FirstContact, NeverQuits
<1>. QED  BY <1>2, <1>3, <1>4, <1>5

LEMMA ShortInvariance ==
    ASSUME RepliesAreShort
    PROVE  Spec => []ShortInv
<1>1. Init => ShortInv
  BY DEF Init, Sender!Init, Client!Init, ShortInv, FirstContact, NeverQuits
<1>2. IInv /\ ShortInv /\ [Next]_vars => ShortInv'
  <2>1. IInv /\ ShortInv /\ UNCHANGED vars => ShortInv'
    BY DEF vars, server, client, network, ShortInv, FirstContact, NeverQuits
  <2>. QED  BY <2>1, ShortServer, ShortClient, ShortNetwork DEF Next
<1>. QED  BY <1>1, <1>2, Invariance, PTL DEF Spec

(* When there is room for a roster more than a reply takes, as there is    *)
(* with two players, and no name is longer than the 64 characters that     *)
(* new_game::parse_event_data takes, server_message::from gives the client *)
(* the whole of every datagram.                                            *)
THEOREM ShortRepliesAreRead ==
    ASSUME RepliesAreShort, NamesAreReadable
    PROVE  Spec => []DatagramsAreReadInFull
BY Invariance, ShortIsReadInFull, PTL

(* With short replies alone receive_game_job never meets a player before   *)
(* it has a roster, which would end the client: it learns of event 0       *)
(* before any other, or of nothing while the roster cannot be read.        *)
THEOREM ClientStaysAlive ==
    ASSUME RepliesAreShort
    PROVE  Spec => []NeverQuits
BY ShortInvariance, PTL DEF ShortInv
=============================================================================
