-------------------------- MODULE EventSenderProofs --------------------------
(***************************************************************************)
(* The safety of EventSender, proved for any number of clients, any        *)
(* rosters, any number and length of games and any limit on the events of  *)
(* a reply.                                                                *)
(***************************************************************************)
EXTENDS EventSender, SequenceTheorems, WellFoundedInduction, TLAPS

(***************************************************************************)
(* Facts about the operators of the model.                                 *)
(***************************************************************************)
LEMMA LeastNumber ==
    ASSUME NEW T, T \subseteq Nat, T # {}
    PROVE  \E x \in T : \A y \in T : x <= y
<1>1. \E x \in T : \A y \in T : ~(<<y, x>> \in OpToRel(<, Nat))
  BY NatLessThanWellFounded, WFMin
<1>2. PICK x \in T : \A y \in T : ~(<<y, x>> \in OpToRel(<, Nat))
  BY <1>1
<1>3. ASSUME NEW y \in T PROVE x <= y
  <2>1. x \in Nat /\ y \in Nat
    OBVIOUS
  <2>2. ~(<<y, x>> \in OpToRel(<, Nat))
    BY <1>2
  <2>3. ~(y < x)
    BY <2>1, <2>2 DEF OpToRel
  <2>. QED  BY <2>1, <2>3
<1>. QED  BY <1>3

(* No events take no bytes. *)
LEMMA NoEventsFit == Fits(<< >>)
<1>. DEFINE isLength(f) ==
              f = [n \in 0..0 |-> IF n = 0 THEN 0 ELSE f[n - 1] + RecordLen(<< >>[n])]
<1>1. PrefixLen(<< >>) = CHOOSE f : isLength(f)
  BY DEF PrefixLen
<1>2. isLength([n \in 0..0 |-> 0])
  OBVIOUS
<1>3. isLength(PrefixLen(<< >>))
  BY <1>1, <1>2
<1>4. PrefixLen(<< >>)[0] = 0
  BY <1>3
<1>. QED  BY <1>4 DEF Fits, EventsLen, MaxEventsLen, MaxDatagramLen, GameIdLen

(***************************************************************************)
(* The number of bytes of a sequence of events is a number: the recursion  *)
(* of PrefixLen defines one, step by step up to the length of the sequence. *)
(***************************************************************************)
LEMMA RecordLenType ==
    ASSUME NEW e \in Events
    PROVE  RecordLen(e) \in Nat
BY DEF Events, Nameless, Pixel, Eliminated, GameOver, RecordLen, DataLen, MaxNamesLen,
       MaxDatagramLen, GameIdLen

(* f counts the bytes of the first events of s, up to m of them. *)
Counts(f, s, m) ==
    f = [n \in 0..m |-> IF n = 0 THEN 0 ELSE f[n - 1] + RecordLen(s[n])]

LEMMA CountsExist ==
    ASSUME NEW s \in Seq(Events), NEW m \in 0 .. Len(s)
    PROVE  \E f : Counts(f, s, m)
<1>. DEFINE missing == {n \in 0 .. Len(s) : ~ \E f : Counts(f, s, n)}
<1>1. Len(s) \in Nat /\ missing \subseteq Nat
  BY LenProperties
<1>2. SUFFICES missing = {}
  OBVIOUS
<1>3. SUFFICES ASSUME missing # {} PROVE FALSE
  OBVIOUS
<1>4. PICK n \in missing : \A k \in missing : n <= k
  <2>. HIDE DEF missing
  <2>. QED  BY <1>1, <1>3, LeastNumber
<1>5. n \in 0 .. Len(s) /\ ~ \E f : Counts(f, s, n)
  OBVIOUS
<1>6. Counts([k \in 0..0 |-> 0], s, 0)
  BY DEF Counts
<1>7. n # 0
  BY <1>5, <1>6
<1>8. n - 1 \in 0 .. Len(s) /\ n - 1 \notin missing
  BY <1>1, <1>4, <1>5, <1>7
<1>9. PICK f : Counts(f, s, n - 1)
  BY <1>8
<1>. DEFINE g == [k \in 0..n |-> IF k = n THEN f[n - 1] + RecordLen(s[n]) ELSE f[k]]
<1>10. \A k \in 0 .. n - 1 : f[k] = IF k = 0 THEN 0 ELSE f[k - 1] + RecordLen(s[k])
  BY <1>9 DEF Counts
<1>11. Counts(g, s, n)
  <2>1. ASSUME NEW k \in 0..n
        PROVE  g[k] = IF k = 0 THEN 0 ELSE g[k - 1] + RecordLen(s[k])
    BY <1>1, <1>5, <1>7, <1>10
  <2>2. g = [k \in 0..n |-> g[k]]
    OBVIOUS
  <2>. HIDE DEF g
  <2>. QED  BY <2>1, <2>2 DEF Counts
<1>. QED  BY <1>5, <1>11

LEMMA PrefixLenCounts ==
    ASSUME NEW s \in Seq(Events)
    PROVE  \A n \in 0 .. Len(s) :
              /\ PrefixLen(s)[n] \in Nat
              /\ PrefixLen(s)[n] = IF n = 0 THEN 0
                                   ELSE PrefixLen(s)[n - 1] + RecordLen(s[n])
<1>. DEFINE bytes == PrefixLen(s)
            wrong == {n \in 0 .. Len(s) : bytes[n] \notin Nat}
<1>1. Len(s) \in Nat /\ Len(s) \in 0 .. Len(s)
  BY LenProperties
<1>2. Counts(bytes, s, Len(s))
  <2>1. \E f : Counts(f, s, Len(s))
    BY <1>1, CountsExist
  <2>2. bytes = CHOOSE f : Counts(f, s, Len(s))
    BY DEF PrefixLen, Counts
  <2>. HIDE DEF bytes
  <2>. QED  BY <2>1, <2>2
<1>. HIDE DEF bytes
<1>3. \A n \in 0 .. Len(s) : bytes[n] = IF n = 0 THEN 0 ELSE bytes[n - 1] + RecordLen(s[n])
  BY <1>2 DEF Counts
<1>4. ASSUME wrong # {} PROVE FALSE
  <2>1. wrong \subseteq Nat
    BY <1>1
  <2>2. PICK n \in wrong : \A k \in wrong : n <= k
    <3>. HIDE DEF wrong
    <3>. QED  BY <1>4, <2>1, LeastNumber
  <2>3. n \in 1 .. Len(s) /\ n - 1 \in 0 .. Len(s) /\ bytes[n - 1] \in Nat
    BY <1>1, <1>3, <2>2
  <2>4. s[n] \in Events
    BY <2>3, ElementOfSeq
  <2>. QED  BY <1>3, <2>2, <2>3, <2>4, RecordLenType
<1>. QED  BY <1>3, <1>4 DEF bytes

LEMMA EventsLenType ==
    ASSUME NEW s \in Seq(Events)
    PROVE  EventsLen(s) \in Nat
<1>1. Len(s) \in 0 .. Len(s)
  BY LenProperties
<1>. QED  BY <1>1, PrefixLenCounts DEF EventsLen

(* Events of which only the first may be a NEW_GAME, with a roster of at   *)
(* most n bytes.                                                           *)
OneRoster(s, n) ==
    \A k \in DOMAIN s : s[k].type = "NEW_GAME" => k = 1 /\ s[k].namesLen <= n

LEMMA RecordLenBound ==
    ASSUME NEW e \in Events, NEW n \in Nat, e.type = "NEW_GAME" => e.namesLen <= n
    PROVE  /\ RecordLen(e) \in Nat /\ RecordLen(e) <= n + 22
           /\ e.type # "NEW_GAME" => RecordLen(e) <= 22
BY DEF Events, Nameless, Pixel, Eliminated, GameOver, RecordLen, DataLen, MaxNamesLen,
       MaxDatagramLen, GameIdLen

LEMMA PrefixLenBound ==
    ASSUME NEW s \in Seq(Events), NEW n \in Nat, OneRoster(s, n)
    PROVE  \A k \in 0 .. Len(s) : PrefixLen(s)[k] <= n + 22 * k
<1>. DEFINE bytes == PrefixLen(s)
            long == {k \in 0 .. Len(s) : ~(bytes[k] <= n + 22 * k)}
<1>1. Len(s) \in Nat /\ long \subseteq Nat /\ DOMAIN s = 1 .. Len(s)
  BY LenProperties
<1>2. \A k \in 0 .. Len(s) :
         /\ bytes[k] \in Nat
         /\ bytes[k] = IF k = 0 THEN 0 ELSE bytes[k - 1] + RecordLen(s[k])
  BY PrefixLenCounts
<1>. HIDE DEF bytes
<1>3. ASSUME long # {} PROVE FALSE
  <2>1. PICK k \in long : \A j \in long : k <= j
    <3>. HIDE DEF long
    <3>. QED  BY <1>1, <1>3, LeastNumber
  <2>2. k \in 0 .. Len(s) /\ ~(bytes[k] <= n + 22 * k)
    OBVIOUS
  <2>3. k # 0
    BY <1>2, <2>2
  <2>4. k \in DOMAIN s /\ s[k] \in Events /\ k - 1 \in 0 .. Len(s)
    BY <1>1, <2>2, <2>3, ElementOfSeq
  <2>5. /\ RecordLen(s[k]) \in Nat /\ RecordLen(s[k]) <= n + 22
        /\ k # 1 => RecordLen(s[k]) <= 22
    BY <2>4, RecordLenBound DEF OneRoster
  <2>6. bytes[k] = bytes[k - 1] + RecordLen(s[k]) /\ bytes[k - 1] \in Nat
    BY <1>2, <2>2, <2>3, <2>4
  <2>7. CASE k = 1
    BY <1>2, <2>2, <2>5, <2>6, <2>7
  <2>8. CASE k # 1
    <3>1. k - 1 \notin long
      BY <1>1, <2>1, <2>2
    <3>2. bytes[k - 1] <= n + 22 * (k - 1)
      BY <2>4, <3>1
    <3>. QED  BY <2>2, <2>5, <2>6, <2>8, <3>2
  <2>. QED  BY <2>7, <2>8
<1>. QED  BY <1>3 DEF bytes

(* The client is never given more than there is, and all of it if there is *)
(* room for one more of the longest events and none is refused.            *)
LEMMA ReadCountBounds ==
    ASSUME NEW s \in Seq(Events)
    PROVE  ReadCount(s) \in 0 .. Len(s)
<1>. DEFINE stops == {k \in DOMAIN s :
                        \/ GameIdLen + PrefixLen(s)[k - 1] >= MaxDatagramLen
                        \/ (GameIdLen + EventsLen(s)) + RecordLen(s[k]) > MaxDatagramLen
                        \/ IsRefused(s[k])}
<1>1. Len(s) \in Nat /\ DOMAIN s = 1 .. Len(s) /\ stops \subseteq DOMAIN s
  BY LenProperties
<1>2. ReadCount(s) = IF stops = {} THEN Len(s)
                     ELSE (CHOOSE k \in stops : \A j \in stops : k <= j) - 1
  BY DEF ReadCount
<1>. HIDE DEF stops
<1>3. CASE stops = {}
  BY <1>1, <1>2, <1>3
<1>4. CASE stops # {}
  <2>1. \E k \in stops : \A j \in stops : k <= j
    BY <1>1, <1>4, LeastNumber
  <2>2. (CHOOSE k \in stops : \A j \in stops : k <= j) \in 1 .. Len(s)
    BY <1>1, <2>1
  <2>. QED  BY <1>1, <1>2, <1>4, <2>2
<1>. QED  BY <1>3, <1>4

LEMMA ShortRepliesAreReadInFull ==
    ASSUME NEW s \in Seq(Events), NEW n \in Nat, OneRoster(s, n),
           GameIdLen + (n + 22 * Len(s)) + (n + 22) <= MaxDatagramLen,
           \A k \in DOMAIN s : ~IsRefused(s[k])
    PROVE  ReadCount(s) = Len(s)
<1>1. Len(s) \in Nat /\ DOMAIN s = 1 .. Len(s) /\ Len(s) \in 0 .. Len(s)
  BY LenProperties
<1>2. EventsLen(s) \in Nat /\ EventsLen(s) <= n + 22 * Len(s)
  BY <1>1, EventsLenType, PrefixLenBound DEF EventsLen
<1>3. ASSUME NEW k \in DOMAIN s
      PROVE  /\ ~(GameIdLen + PrefixLen(s)[k - 1] >= MaxDatagramLen)
             /\ ~((GameIdLen + EventsLen(s)) + RecordLen(s[k]) > MaxDatagramLen)
  <2>1. k \in 1 .. Len(s) /\ k - 1 \in 0 .. Len(s) /\ s[k] \in Events
    BY <1>1, ElementOfSeq
  <2>2. PrefixLen(s)[k - 1] \in Nat /\ PrefixLen(s)[k - 1] <= n + 22 * (k - 1)
    BY <2>1, PrefixLenCounts, PrefixLenBound
  <2>3. RecordLen(s[k]) \in Nat /\ RecordLen(s[k]) <= n + 22
    BY <2>1, RecordLenBound DEF OneRoster
  <2>. QED  BY <1>1, <1>2, <2>1, <2>2, <2>3 DEF GameIdLen, MaxDatagramLen
<1>4. {k \in DOMAIN s :
          \/ GameIdLen + PrefixLen(s)[k - 1] >= MaxDatagramLen
          \/ (GameIdLen + EventsLen(s)) + RecordLen(s[k]) > MaxDatagramLen
          \/ IsRefused(s[k])} = {}
  BY <1>3
<1>. QED  BY <1>4 DEF ReadCount

LEMMA ServedIsWaiting ==
    ASSUME TypeOK, Busy
    PROVE  Served \in DOMAIN todo
<1>1. DOMAIN todo \subseteq Nat
  BY SenderAssumption DEF TypeOK, Clients
<1>2. \E c \in DOMAIN todo : \A d \in DOMAIN todo : c <= d
  BY <1>1, LeastNumber DEF Busy
<1>. QED  BY <1>2 DEF Served

LEMMA SendCountBounds ==
    ASSUME NEW next \in Nat, Available \in Nat
    PROVE  /\ SendCount(next) \in Nat /\ SendCount(next) <= MaxSend
           /\ SendCount(next) > 0 => next + SendCount(next) <= Available
           /\ next = 0 /\ Available > 0 => SendCount(next) > 0
BY SenderAssumption DEF SendCount

(* As many events as are available, starting where they are. *)
LEMMA CutIsPart ==
    ASSUME snapshot.events \in Seq(Events), NEW first \in Nat, NEW k \in Nat,
           first + k <= Available
    PROVE  Cut(first, k) \in Seq(Events) /\ Len(Cut(first, k)) = k
<1>1. first + 1 \in 1 .. Available + 1 /\ first + k \in first + 1 - 1 .. Available
  BY LenProperties DEF Available
<1>2. CASE k = 0
  <2>1. Cut(first, k) = << >>
    BY <1>2, SubSeqProperties DEF Cut, Available
  <2>. QED  BY <2>1, <1>2
<1>3. CASE k > 0
  BY <1>1, <1>3, SubSeqProperties, LenProperties DEF Cut, Available
<1>. QED  BY <1>2, <1>3

(* The packing stops at a number of events that fits. *)
LEMMA PackedBounds ==
    ASSUME snapshot.events \in Seq(Events), NEW first \in Nat, NEW count \in Nat,
           first + count <= Available
    PROVE  Packed(first, count) \in 0..count /\ Fits(Cut(first, Packed(first, count)))
<1>. DEFINE tooMany == {k \in 1..count : ~Fits(Cut(first, k))}
<1>1. Available \in Nat
  BY LenProperties DEF Available
<1>2. Cut(first, 0) = << >>
  BY <1>1, SubSeqProperties DEF Cut, Available
<1>3. Fits(Cut(first, 0))
  BY <1>2, NoEventsFit
<1>4. \E k \in 0..count : /\ Fits(Cut(first, k))
                          /\ k = count \/ ~Fits(Cut(first, k + 1))
  <2>1. CASE tooMany = {}
    <3>1. Fits(Cut(first, count))
      BY <1>3, <2>1
    <3>. QED  BY <3>1
  <2>2. CASE tooMany # {}
    <3>1. tooMany \subseteq Nat
      OBVIOUS
    <3>2. PICK m \in tooMany : \A k \in tooMany : m <= k
      <4>. HIDE DEF tooMany
      <4>. QED  BY <2>2, <3>1, LeastNumber
    <3>3. m \in 1..count /\ ~Fits(Cut(first, m))
      OBVIOUS
    <3>4. m - 1 \notin tooMany
      BY <3>2, <3>3
    <3>5. Fits(Cut(first, m - 1))
      BY <1>3, <3>3, <3>4
    <3>6. m - 1 \in 0..count /\ (m - 1) + 1 = m
      BY <3>3
    <3>. QED  BY <3>3, <3>5, <3>6
  <2>. QED  BY <2>1, <2>2
<1>. QED  BY <1>4 DEF Packed

(***************************************************************************)
(* What the next datagram holds.                                           *)
(***************************************************************************)
LEMMA NextDatagramBounds ==
    ASSUME TypeOK, Sends
    PROVE  /\ NextDatagram.first = todo[Served] + sent
           /\ NextDatagram.game = snapshot.game
           /\ NextDatagram.events = Cut(NextDatagram.first, Len(NextDatagram.events))
           /\ NextDatagram.first \in Nat
           /\ Len(NextDatagram.events) \in 0 .. SendCount(todo[Served]) - sent
           /\ NextDatagram.first + Len(NextDatagram.events) <= Available
           /\ SendCount(todo[Served]) <= MaxSend
           /\ Fits(NextDatagram.events)
<1>. DEFINE next == todo[Served]
            k == Packed(next + sent, SendCount(next) - sent)
<1>1. Served \in DOMAIN todo /\ next \in Nat /\ sent \in Nat
  BY ServedIsWaiting, SenderAssumption DEF Sends, TypeOK
<1>2. snapshot.events \in Seq(Events) /\ Available \in Nat
  BY LenProperties DEF TypeOK, Available
<1>3. SendCount(next) \in Nat /\ SendCount(next) <= MaxSend
      /\ sent < SendCount(next) /\ next + SendCount(next) <= Available
  BY <1>1, <1>2, SendCountBounds DEF Sends
<1>4. SendCount(next) - sent \in Nat /\ next + sent \in Nat
      /\ (next + sent) + (SendCount(next) - sent) <= Available
  BY <1>1, <1>2, <1>3
<1>5. k \in 0 .. SendCount(next) - sent /\ Fits(Cut(next + sent, k))
  BY <1>2, <1>4, PackedBounds
<1>6. k \in Nat /\ (next + sent) + k <= Available
  BY <1>1, <1>2, <1>3, <1>5
<1>7. Len(Cut(next + sent, k)) = k
  BY <1>2, <1>4, <1>6, CutIsPart
<1>8. /\ NextDatagram.first = next + sent /\ NextDatagram.game = snapshot.game
      /\ NextDatagram.events = Cut(next + sent, k)
  BY DEF NextDatagram
<1>. HIDE DEF k, next
<1>9. Len(NextDatagram.events) = k
  BY <1>7, <1>8
<1>. QED  BY <1>3, <1>4, <1>5, <1>6, <1>8, <1>9 DEF next

(***************************************************************************)
(* The logs.                                                               *)
(***************************************************************************)
LEMMA EventsOfTheServer ==
    /\ \A n \in Rosters, longest \in LongestNames, placed \in Placements :
          longest < n => /\ <<NewGame(n, longest)>> \o placed \in Seq(Events)
                         /\ <<NewGame(n, longest)>> \o placed # << >>
    /\ \A moved \in Moves : moved \in Seq(Events)
<1>1. /\ \A n \in Rosters, longest \in LongestNames :
            longest < n => NewGame(n, longest) \in Events
      /\ Pixel \in Events /\ Eliminated \in Events /\ GameOver \in Events
  <2>1. ASSUME NEW n \in Rosters, NEW longest \in LongestNames, longest < n
        PROVE  NewGame(n, longest) \in Events
    <3>1. n \in 0 .. MaxNamesLen /\ longest \in 0 .. MaxNamesLen
      BY <2>1, SenderAssumption DEF Rosters, MaxNamesLen, MaxDatagramLen, GameIdLen
    <3>. QED  BY <3>1 DEF Events, NewGame
  <2>. QED  BY <2>1 DEF Events
<1>. HIDE DEF Events, Pixel, Eliminated, GameOver
<1>5. /\ <<Pixel>> \in Seq(Events) /\ <<Pixel, Pixel>> \in Seq(Events)
      /\ <<Eliminated, GameOver>> \in Seq(Events)
      /\ <<Pixel, Eliminated, GameOver>> \in Seq(Events)
  BY <1>1
<1>2. \A placed \in Placements : placed \in Seq(Events)
  BY <1>5 DEF Placements
<1>3. \A moved \in Moves : moved \in Seq(Events)
  BY <1>5 DEF Moves
<1>4. ASSUME NEW n \in Rosters, NEW longest \in LongestNames, longest < n, NEW placed \in Placements
      PROVE  /\ <<NewGame(n, longest)>> \o placed \in Seq(Events)
             /\ <<NewGame(n, longest)>> \o placed # << >>
  <2>. DEFINE first == <<NewGame(n, longest)>>
  <2>1. first \in Seq(Events) /\ Len(first) = 1 /\ placed \in Seq(Events)
    BY <1>1, <1>2, <1>4
  <2>. HIDE DEF first
  <2>2. first \o placed \in Seq(Events) /\ Len(first \o placed) = 1 + Len(placed)
    BY <2>1, ConcatProperties
  <2>3. Len(placed) \in Nat
    BY <2>1, LenProperties
  <2>4. first \o placed # << >>
    BY <2>2, <2>3
  <2>. QED  BY <2>2, <2>4 DEF first
<1>. QED  BY <1>3, <1>4

LEMMA PrefixOfExtension ==
    ASSUME NEW s \in Seq(Events), NEW t \in Seq(Events), NEW n \in 1 .. Len(s)
    PROVE  n <= Len(s \o t) /\ SubSeq(s \o t, 1, n) = SubSeq(s, 1, n)
<1>1. s \o t \in Seq(Events) /\ Len(s \o t) = Len(s) + Len(t)
      /\ Len(s) \in Nat /\ Len(t) \in Nat
      /\ \A i \in 1 .. Len(s) + Len(t) :
            (s \o t)[i] = IF i <= Len(s) THEN s[i] ELSE t[i - Len(s)]
  BY ConcatProperties, LenProperties
<1>2. n <= Len(s \o t)
  BY <1>1
<1>3. SubSeq(s, 1, n) = [i \in 1..n |-> s[i]]
  BY <1>1
<1>4. SubSeq(s \o t, 1, n) = [i \in 1..n |-> (s \o t)[i]]
  BY <1>1, <1>2
<1>5. \A i \in 1..n : (s \o t)[i] = s[i]
  BY <1>1
<1>. QED  BY <1>2, <1>3, <1>4, <1>5

LEMMA PartOfPart ==
    ASSUME NEW s \in Seq(Events), NEW n \in 0 .. Len(s),
           NEW first \in Nat, NEW k \in Nat, first + k <= n
    PROVE  SubSeq(SubSeq(s, 1, n), first + 1, first + k) = SubSeq(s, first + 1, first + k)
<1>. DEFINE part == SubSeq(s, 1, n)
<1>1. Len(s) \in Nat
  BY LenProperties
<1>2. part \in Seq(Events) /\ Len(part) = n /\ \A i \in 1..n : part[i] = s[i]
  BY <1>1
<1>. HIDE DEF part
<1>3. SubSeq(part, first + 1, first + k) = [i \in 1..k |-> part[i + first]]
  BY <1>1, <1>2
<1>4. SubSeq(s, first + 1, first + k) = [i \in 1..k |-> s[i + first]]
  BY <1>1
<1>5. \A i \in 1..k : part[i + first] = s[i + first]
  <2>1. \A i \in 1..k : i + first \in 1..n
    OBVIOUS
  <2>. QED  BY <1>2, <2>1
<1>. QED  BY <1>3, <1>4, <1>5 DEF part

LEMMA LogIsTheLastGame ==
    ASSUME games \in Seq(Seq(Events))
    PROVE  /\ Len(games) \in Nat /\ DOMAIN games = 1 .. Len(games)
           /\ Log \in Seq(Events)
           /\ Log # << >> => Len(games) \in DOMAIN games /\ Log = games[Len(games)]
           /\ games # << >> => Len(games) \in DOMAIN games /\ Log = games[Len(games)]
<1>1. Len(games) \in Nat /\ DOMAIN games = 1 .. Len(games)
  BY LenProperties
<1>2. games # << >> => Len(games) \in DOMAIN games
  BY <1>1, EmptySeq
<1>3. games # << >> => games[Len(games)] \in Seq(Events)
  BY <1>1, <1>2, ElementOfSeq
<1>. QED  BY <1>1, <1>2, <1>3 DEF Log

(* The events of the next datagram are those of a log under their numbers.  *)
LEMMA NextDatagramIsGenuine == IInv => DatagramsAreGenuine
<1>. SUFFICES ASSUME IInv, Sends
              PROVE  /\ NextDatagram.game \in DOMAIN games
                     /\ NextDatagram.first + Len(NextDatagram.events)
                            <= Len(games[NextDatagram.game])
                     /\ NextDatagram.events =
                           SubSeq(games[NextDatagram.game], NextDatagram.first + 1,
                                  NextDatagram.first + Len(NextDatagram.events))
  BY DEF DatagramsAreGenuine
<1>. DEFINE first == NextDatagram.first
            k == Len(NextDatagram.events)
            log == games[snapshot.game]
<1>1. /\ NextDatagram.game = snapshot.game
      /\ NextDatagram.events = Cut(first, k)
      /\ first \in Nat /\ k \in 0 .. SendCount(todo[Served]) - sent
      /\ first + k <= Available
  BY NextDatagramBounds DEF IInv
<1>2. todo[Served] \in Nat /\ Available \in Nat
  BY ServedIsWaiting, LenProperties DEF Sends, IInv, TypeOK, Available
<1>3. SendCount(todo[Served]) > 0
  <2>1. sent \in Nat /\ SendCount(todo[Served]) \in Nat
    BY <1>2, SendCountBounds, SenderAssumption DEF IInv, TypeOK
  <2>. QED  BY <2>1 DEF Sends
<1>4. Available > 0
  BY <1>2, <1>3, SendCountBounds
<1>5. snapshot # NoSnapshot
  BY <1>4, EmptySeq DEF NoSnapshot, Available
<1>6. /\ snapshot.game \in DOMAIN games
      /\ Available \in 1 .. Len(log)
      /\ snapshot.events = SubSeq(log, 1, Available)
  BY <1>5 DEF IInv, SnapshotIsPast
<1>7. k \in Nat /\ log \in Seq(Events) /\ Len(log) \in Nat
  <2>1. games \in Seq(Seq(Events))
    BY DEF IInv, TypeOK
  <2>2. log \in Seq(Events)
    BY <1>6, <2>1, LenProperties, ElementOfSeq
  <2>. QED  BY <1>1, <2>2, LenProperties
<1>8. SubSeq(SubSeq(log, 1, Available), first + 1, first + k)
        = SubSeq(log, first + 1, first + k)
  <2>1. Available \in 0 .. Len(log)
    BY <1>6, <1>7
  <2>2. first \in Nat /\ k \in Nat /\ first + k <= Available
    BY <1>1, <1>7
  <2>. HIDE DEF first, k, log
  <2>. QED  BY <1>7, <2>1, <2>2, PartOfPart
<1>. HIDE DEF first, k, log
<1>. QED  BY <1>1, <1>2, <1>6, <1>7, <1>8 DEF Cut, first, k, log

LEMMA NextDatagramEvents ==
    ASSUME TypeOK, Sends
    PROVE  NextDatagram.events \in Seq(Events) /\ NextDatagram.to \in Clients
<1>. DEFINE d == NextDatagram
<1>1. /\ d.events = Cut(d.first, Len(d.events)) /\ d.first \in Nat
      /\ Len(d.events) \in Nat /\ d.first + Len(d.events) <= Available
  BY NextDatagramBounds
<1>2. snapshot.events \in Seq(Events) /\ Served \in DOMAIN todo
  BY ServedIsWaiting DEF TypeOK, Sends
<1>3. d.to \in Clients
  BY <1>2 DEF TypeOK, NextDatagram
<1>. HIDE DEF d
<1>. QED  BY <1>1, <1>2, <1>3, CutIsPart DEF d

(* With a limit that lets the longest reply fit, a reply is one datagram.   *)
LEMMA ShortRepliesAreWhole ==
    ASSUME TypeOK, Sends, sent = 0, NEW n \in Nat, OneRoster(snapshot.events, n),
           GameIdLen + (n + 22 * MaxSend) <= MaxDatagramLen
    PROVE  Len(NextDatagram.events) = SendCount(todo[Served])
<1>. DEFINE first == todo[Served]
            count == SendCount(first)
            s == snapshot.events
<1>1. first \in Nat /\ s \in Seq(Events) /\ Available \in Nat
      /\ Len(s) = Available /\ DOMAIN s = 1 .. Available
  BY ServedIsWaiting, LenProperties DEF TypeOK, Sends, Available
<1>2. count \in Nat /\ count <= MaxSend /\ count > 0 /\ first + count <= Available
  BY <1>1, SendCountBounds DEF Sends
<1>. HIDE DEF count, first, s
<1>3. ASSUME NEW k \in 0 .. count
      PROVE  Fits(Cut(first, k)) /\ Len(Cut(first, k)) = k
  <2>. DEFINE part == Cut(first, k)
  <2>1. k \in Nat /\ k <= MaxSend /\ first + k <= Available
    BY <1>1, <1>2, SenderAssumption
  <2>2. part \in Seq(Events) /\ Len(part) = k /\ DOMAIN part = 1 .. k
    BY <1>1, <2>1, CutIsPart, LenProperties DEF s
  <2>3. \A j \in 1 .. k : part[j] = s[first + j] /\ first + j \in DOMAIN s
    <3>1. part = SubSeq(s, first + 1, first + k)
      BY DEF Cut, s
    <3>2. ASSUME NEW j \in 1 .. k
          PROVE  first + j \in DOMAIN s
      BY <1>1, <2>1
    <3>3. k = 0 \/ (first + 1 \in 1 .. Len(s) + 1 /\ first + k \in first .. Len(s))
      BY <1>1, <2>1
    <3>. HIDE DEF part
    <3>. QED  BY <1>1, <2>1, <3>1, <3>2, <3>3
  <2>4. OneRoster(part, n)
    <3>. HIDE DEF part
    <3>1. ASSUME NEW j \in 1 .. k, part[j].type = "NEW_GAME"
          PROVE  j = 1 /\ part[j].namesLen <= n
      <4>1. first + j = 1 /\ s[first + j].namesLen <= n
        BY <2>3, <3>1 DEF OneRoster, s
      <4>. QED  BY <1>1, <2>3, <4>1
    <3>. QED  BY <2>2, <3>1 DEF OneRoster
  <2>5. EventsLen(part) \in Nat /\ EventsLen(part) <= n + 22 * k
    <3>. HIDE DEF part
    <3>1. k \in 0 .. Len(part)
      BY <2>1, <2>2
    <3>. QED  BY <2>2, <2>4, <3>1, EventsLenType, PrefixLenBound DEF EventsLen
  <2>. HIDE DEF part
  <2>6. Fits(part)
    BY <2>1, <2>5, SenderAssumption DEF Fits, MaxEventsLen, GameIdLen, MaxDatagramLen
  <2>. QED  BY <2>2, <2>6 DEF part
<1>4. Packed(first, count) = count
  <2>1. \A k \in 0 .. count - 1 : k + 1 \in 0 .. count
    BY <1>2
  <2>2. \A k \in 0 .. count : k = count \/ k \in 0 .. count - 1
    BY <1>2
  <2>3. Packed(first, count) \in 0 .. count
        /\ (Packed(first, count) = count \/ ~Fits(Cut(first, Packed(first, count) + 1)))
    <3>1. count \in 0 .. count /\ Fits(Cut(first, count))
      BY <1>2, <1>3
    <3>. QED  BY <3>1 DEF Packed
  <2>. QED  BY <1>3, <2>1, <2>2, <2>3
<1>5. NextDatagram.events = Cut(first, count)
  BY <1>1, <1>2, <1>4 DEF NextDatagram, first, count
<1>. QED  BY <1>2, <1>3, <1>5 DEF count, first

(***************************************************************************)
(* One lemma per action.                                                   *)
(***************************************************************************)
LEMMA InitInv == Init => IInv
<1>. SUFFICES ASSUME Init PROVE IInv
  OBVIOUS
<1>1. DOMAIN << >> = {} /\ << >> \in [{} -> Nat] /\ << >> \in Seq(Events)
      /\ << >> \in Seq(Seq(Events)) /\ Len(<< >>) = 0
  OBVIOUS
<1>2. TypeOK
  <2>1. games = << >> /\ clients = << >> /\ todo = << >>
        /\ sendNewEvents = FALSE /\ sent = 0 /\ owed = {}
        /\ snapshot = [game |-> 0, events |-> << >>]
    BY DEF Init, NoSnapshot
  <2>2. snapshot \in [game : 0 .. Len(games), events : Seq(Events)]
    BY <1>1, <2>1
  <2>3. 0 \in 0 .. MaxSend - 1
    BY SenderAssumption
  <2>4. /\ DOMAIN clients \subseteq Clients /\ clients \in [DOMAIN clients -> Nat]
        /\ DOMAIN todo \subseteq Clients /\ todo \in [DOMAIN todo -> Nat]
    BY <1>1, <2>1
  <2>. QED  BY <1>1, <2>1, <2>2, <2>3, <2>4 DEF TypeOK
<1>3. LogsHaveBegun /\ SnapshotIsPast /\ owed \subseteq DOMAIN clients
      /\ AnnouncementsArePending /\ FirstEventIsSentFirst
  BY <1>1 DEF Init, LogsHaveBegun, SnapshotIsPast, AnnouncementsArePending, FirstEventIsSentFirst
<1>. QED  BY <1>2, <1>3 DEF IInv

LEMMA StartGameInv == IInv /\ StartGame => IInv'
<1>. SUFFICES ASSUME IInv, StartGame PROVE IInv'
  OBVIOUS
<1>1. PICK n \in Rosters, longest \in LongestNames, placed \in Placements :
         /\ longest < n
         /\ games' = Append(games, <<NewGame(n, longest)>> \o placed)
  BY DEF StartGame
<1>. DEFINE log == <<NewGame(n, longest)>> \o placed
<1>2. log \in Seq(Events) /\ log # << >>
  BY <1>1, EventsOfTheServer
<1>. HIDE DEF log
<1>3. games \in Seq(Seq(Events))
  BY DEF IInv, TypeOK
<1>4. /\ games' \in Seq(Seq(Events)) /\ Len(games') = Len(games) + 1
      /\ \A i \in 1 .. Len(games) : games'[i] = games[i]
      /\ games'[Len(games) + 1] = log
  BY <1>1, <1>2, <1>3, AppendProperties DEF log
<1>5. Len(games) \in Nat /\ DOMAIN games = 1 .. Len(games)
      /\ DOMAIN games' = 1 .. Len(games) + 1
  BY <1>3, <1>4, LenProperties
<1>6. /\ sendNewEvents' = TRUE /\ owed' = DOMAIN clients
      /\ UNCHANGED <<clients, snapshot, todo, sent>>
  BY DEF StartGame
<1>7. TypeOK'
  <2>1. snapshot' \in [game : 0 .. Len(games'), events : Seq(Events)]
    BY <1>4, <1>5, <1>6 DEF IInv, TypeOK
  <2>2. /\ DOMAIN clients' \subseteq Clients /\ clients' \in [DOMAIN clients' -> Nat]
        /\ DOMAIN todo' \subseteq Clients /\ todo' \in [DOMAIN todo' -> Nat]
        /\ sent' \in 0 .. MaxSend - 1 /\ owed' \subseteq Clients
    BY <1>6 DEF IInv, TypeOK
  <2>. QED  BY <1>4, <1>6, <2>1, <2>2 DEF TypeOK
<1>8. LogsHaveBegun'
  <2>1. \A g \in DOMAIN games' : g \in 1 .. Len(games) \/ g = Len(games) + 1
    BY <1>5
  <2>2. \A g \in DOMAIN games' : games'[g] # << >>
    BY <1>2, <1>4, <1>5, <2>1 DEF IInv, LogsHaveBegun
  <2>3. games' # << >>
    BY <1>4, <1>5, EmptySeq
  <2>. QED  BY <2>2, <2>3 DEF LogsHaveBegun
<1>9. SnapshotIsPast'
  BY <1>4, <1>5, <1>6 DEF IInv, SnapshotIsPast, Available, NoSnapshot
<1>10. (owed \subseteq DOMAIN clients)' /\ AnnouncementsArePending' /\ FirstEventIsSentFirst'
  BY <1>6 DEF AnnouncementsArePending, FirstEventIsSentFirst
<1>. QED  BY <1>7, <1>8, <1>9, <1>10 DEF IInv

LEMMA PlayRoundInv == IInv /\ PlayRound => IInv'
<1>. SUFFICES ASSUME IInv, PlayRound PROVE IInv'
  OBVIOUS
<1>1. PICK moved \in Moves : games' = [games EXCEPT ![Len(games)] = Log \o moved]
  BY DEF PlayRound
<1>2. Log # << >>
  BY DEF PlayRound, InProgress
<1>3. games \in Seq(Seq(Events)) /\ moved \in Seq(Events)
  BY EventsOfTheServer DEF IInv, TypeOK
<1>4. /\ Len(games) \in Nat /\ DOMAIN games = 1 .. Len(games)
      /\ Len(games) \in DOMAIN games /\ Log = games[Len(games)] /\ Log \in Seq(Events)
  BY <1>2, <1>3, LogIsTheLastGame
<1>5. Log \o moved \in Seq(Events) /\ Log \o moved # << >>
  BY <1>2, <1>3, <1>4, ConcatProperties, ConcatEqualIffEmpty
<1>6. /\ games' \in Seq(Seq(Events)) /\ Len(games') = Len(games)
      /\ \A i \in 1 .. Len(games) :
            games'[i] = IF i = Len(games) THEN Log \o moved ELSE games[i]
  BY <1>1, <1>3, <1>4, <1>5, ExceptSeq
<1>7. DOMAIN games' = DOMAIN games
  BY <1>4, <1>6, LenProperties
<1>8. UNCHANGED <<sendNewEvents, clients, snapshot, todo, sent, owed>>
  BY DEF PlayRound
<1>9. TypeOK'
  BY <1>6, <1>8 DEF IInv, TypeOK
<1>10. LogsHaveBegun'
  <2>1. \A g \in DOMAIN games' : games'[g] # << >>
    BY <1>4, <1>5, <1>6, <1>7 DEF IInv, LogsHaveBegun
  <2>2. DOMAIN games' # {}
    BY <1>4, <1>7
  <2>. QED  BY <2>1, <2>2 DEF LogsHaveBegun
<1>11. SnapshotIsPast'
  <2>1. CASE snapshot = NoSnapshot
    BY <1>8, <2>1 DEF SnapshotIsPast, NoSnapshot
  <2>2. CASE snapshot # NoSnapshot
    <3>1. /\ snapshot.game \in DOMAIN games
          /\ Available \in 1 .. Len(games[snapshot.game])
          /\ snapshot.events = SubSeq(games[snapshot.game], 1, Available)
      BY <2>2 DEF IInv, SnapshotIsPast
    <3>2. CASE snapshot.game = Len(games)
      <4>1. /\ Available <= Len(Log \o moved)
            /\ SubSeq(Log \o moved, 1, Available) = SubSeq(Log, 1, Available)
        BY <1>3, <1>4, <3>1, <3>2, PrefixOfExtension
      <4>2. Available \in 1 .. Len(Log \o moved)
        BY <1>4, <1>5, <3>1, <3>2, <4>1, LenProperties
      <4>. QED  BY <1>4, <1>6, <1>7, <1>8, <3>1, <3>2, <4>1, <4>2 DEF SnapshotIsPast, Available
    <3>3. CASE snapshot.game # Len(games)
      BY <1>4, <1>6, <1>7, <1>8, <3>1, <3>3 DEF SnapshotIsPast, Available
    <3>. QED  BY <3>2, <3>3
  <2>. QED  BY <2>1, <2>2
<1>12. (owed \subseteq DOMAIN clients)' /\ AnnouncementsArePending' /\ FirstEventIsSentFirst'
  BY <1>6, <1>8 DEF IInv, AnnouncementsArePending, FirstEventIsSentFirst, Busy, Served
<1>. QED  BY <1>9, <1>10, <1>11, <1>12 DEF IInv

LEMMA HearInv ==
    ASSUME NEW c \in Clients, NEW next \in Nat
    PROVE  IInv /\ Hear(c, next) => IInv'
<1>. SUFFICES ASSUME IInv, Hear(c, next) PROVE IInv'
  OBVIOUS
<1>1. /\ clients' = [d \in DOMAIN clients \cup {c} |-> IF d = c THEN next ELSE clients[d]]
      /\ UNCHANGED <<games, sendNewEvents, snapshot, todo, sent, owed>>
  BY DEF Hear
<1>2. TypeOK'
  <2>1. DOMAIN clients' \subseteq Clients /\ clients' \in [DOMAIN clients' -> Nat]
    BY <1>1 DEF IInv, TypeOK
  <2>. QED  BY <1>1, <2>1 DEF IInv, TypeOK
<1>3. (owed \subseteq DOMAIN clients)'
  BY <1>1 DEF IInv
<1>4. LogsHaveBegun' /\ SnapshotIsPast' /\ AnnouncementsArePending' /\ FirstEventIsSentFirst'
  BY <1>1 DEF IInv, LogsHaveBegun, SnapshotIsPast, Available, AnnouncementsArePending,
              FirstEventIsSentFirst, Busy, Served
<1>. QED  BY <1>2, <1>3, <1>4 DEF IInv

LEMMA DropInv ==
    ASSUME NEW c \in Clients
    PROVE  IInv /\ Drop(c) => IInv'
<1>. SUFFICES ASSUME IInv, Drop(c) PROVE IInv'
  OBVIOUS
<1>1. /\ clients' = [d \in DOMAIN clients \ {c} |-> clients[d]]
      /\ owed' = owed \ {c}
      /\ UNCHANGED <<games, sendNewEvents, snapshot, todo, sent>>
  BY DEF Drop
<1>2. TypeOK'
  <2>1. DOMAIN clients' \subseteq Clients /\ clients' \in [DOMAIN clients' -> Nat]
    BY <1>1 DEF IInv, TypeOK
  <2>. QED  BY <1>1, <2>1 DEF IInv, TypeOK
<1>3. (owed \subseteq DOMAIN clients)'
  BY <1>1 DEF IInv
<1>4. LogsHaveBegun' /\ SnapshotIsPast' /\ AnnouncementsArePending' /\ FirstEventIsSentFirst'
  BY <1>1 DEF IInv, LogsHaveBegun, SnapshotIsPast, Available, AnnouncementsArePending,
              FirstEventIsSentFirst, Busy, Served
<1>. QED  BY <1>2, <1>3, <1>4 DEF IInv

LEMMA TakeSnapshotInv == IInv /\ TakeSnapshot => IInv'
<1>. SUFFICES ASSUME IInv, TakeSnapshot PROVE IInv'
  OBVIOUS
<1>1. /\ DOMAIN todo = {}
      /\ snapshot' = IF DOMAIN clients = {} THEN NoSnapshot
                     ELSE [game |-> Len(games), events |-> Log]
      /\ todo' = [c \in DOMAIN clients |-> FirstWanted(c)]
      /\ sent' = 0 /\ sendNewEvents' = FALSE
      /\ UNCHANGED <<games, clients, owed>>
  BY DEF TakeSnapshot, Busy
<1>2. /\ games \in Seq(Seq(Events)) /\ Len(games) \in Nat /\ DOMAIN games = 1 .. Len(games)
      /\ Log \in Seq(Events)
      /\ games # << >> => Len(games) \in DOMAIN games /\ Log = games[Len(games)]
  BY LogIsTheLastGame DEF IInv, TypeOK
<1>3. \A c \in DOMAIN clients : FirstWanted(c) \in Nat
  BY DEF IInv, TypeOK, FirstWanted
<1>4. TypeOK'
  <2>1. snapshot' \in [game : 0 .. Len(games), events : Seq(Events)]
    BY <1>1, <1>2, EmptySeq DEF NoSnapshot
  <2>2. DOMAIN todo' \subseteq Clients /\ todo' \in [DOMAIN todo' -> Nat]
    BY <1>1, <1>3 DEF IInv, TypeOK
  <2>3. 0 \in 0 .. MaxSend - 1
    BY SenderAssumption
  <2>. QED  BY <1>1, <2>1, <2>2, <2>3 DEF IInv, TypeOK
<1>5. SnapshotIsPast'
  <2>1. CASE DOMAIN clients = {}
    BY <1>1, <2>1 DEF SnapshotIsPast, NoSnapshot
  <2>2. CASE DOMAIN clients # {} /\ games = << >>
    <3>1. snapshot' = [game |-> 0, events |-> << >>]
      BY <1>1, <2>2, EmptySeq DEF Log
    <3>. QED  BY <3>1 DEF SnapshotIsPast, NoSnapshot
  <2>3. CASE DOMAIN clients # {} /\ games # << >>
    <3>1. /\ Len(games) \in DOMAIN games /\ Log = games[Len(games)] /\ Log # << >>
      BY <1>2, <2>3 DEF IInv, LogsHaveBegun
    <3>2. Len(Log) \in 1 .. Len(Log)
      BY <1>2, <3>1, EmptySeq
    <3>3. Log = SubSeq(Log, 1, Len(Log))
      BY <1>2
    <3>4. snapshot' = [game |-> Len(games), events |-> Log] /\ games' = games
      BY <1>1, <2>3
    <3>. QED  BY <3>1, <3>2, <3>3, <3>4 DEF SnapshotIsPast, Available
  <2>. QED  BY <2>1, <2>2, <2>3
<1>6. AnnouncementsArePending'
  <2>. SUFFICES ASSUME owed # {}
                PROVE  /\ snapshot'.game = Len(games)
                       /\ \A c \in owed : c \in DOMAIN todo' /\ todo'[c] = 0
    BY <1>1 DEF AnnouncementsArePending
  <2>1. sendNewEvents
    BY <1>1 DEF IInv, TypeOK, AnnouncementsArePending
  <2>2. owed \subseteq DOMAIN clients
    BY DEF IInv
  <2>. QED  BY <1>1, <2>1, <2>2 DEF FirstWanted
<1>7. LogsHaveBegun' /\ (owed \subseteq DOMAIN clients)' /\ FirstEventIsSentFirst'
  BY <1>1 DEF IInv, LogsHaveBegun, FirstEventIsSentFirst
<1>. QED  BY <1>4, <1>5, <1>6, <1>7 DEF IInv

(* A client is served, and the copy forgotten after the last of them. *)
LEMMA FinishKeeps ==
    ASSUME IInv, Busy, Finish(Served), UNCHANGED server,
           owed' \subseteq owed, ~sendNewEvents => Served \notin owed'
    PROVE  IInv'
<1>. DEFINE c == Served
<1>1. /\ todo' = [d \in DOMAIN todo \ {c} |-> todo[d]] /\ sent' = 0
      /\ snapshot' = IF DOMAIN todo = {c} THEN NoSnapshot ELSE snapshot
  BY DEF Finish
<1>2. UNCHANGED <<games, sendNewEvents, clients>>
  BY DEF server
<1>. HIDE DEF c
<1>3. TypeOK'
  <2>1. DOMAIN todo' \subseteq Clients /\ todo' \in [DOMAIN todo' -> Nat]
    BY <1>1 DEF IInv, TypeOK
  <2>2. 0 \in 0 .. MaxSend - 1
    BY SenderAssumption
  <2>3. snapshot' \in [game : 0 .. Len(games), events : Seq(Events)]
    <3>1. games \in Seq(Seq(Events))
      BY DEF IInv, TypeOK
    <3>2. Len(games) \in Nat
      BY <3>1, LenProperties
    <3>3. NoSnapshot \in [game : 0 .. Len(games), events : Seq(Events)]
      BY <3>2, EmptySeq DEF NoSnapshot
    <3>. QED  BY <1>1, <3>3 DEF IInv, TypeOK
  <2>. QED  BY <1>1, <1>2, <2>1, <2>2, <2>3 DEF IInv, TypeOK
<1>4. SnapshotIsPast'
  BY <1>1, <1>2 DEF IInv, SnapshotIsPast, Available, NoSnapshot
<1>5. AnnouncementsArePending'
  <2>. SUFFICES ASSUME owed' # {}, ~sendNewEvents
                PROVE  /\ snapshot'.game = Len(games)
                       /\ \A d \in owed' : d \in DOMAIN todo' /\ todo'[d] = 0
    BY <1>2 DEF AnnouncementsArePending
  <2>1. /\ snapshot.game = Len(games)
        /\ \A d \in owed : d \in DOMAIN todo /\ todo[d] = 0
    BY DEF IInv, AnnouncementsArePending
  <2>2. \A d \in owed' : d \in DOMAIN todo /\ todo[d] = 0 /\ d # c
    BY <2>1 DEF c
  <2>3. DOMAIN todo # {c}
    BY <2>2
  <2>. QED  BY <1>1, <2>1, <2>2, <2>3
<1>6. LogsHaveBegun' /\ (owed \subseteq DOMAIN clients)' /\ FirstEventIsSentFirst'
  BY <1>1, <1>2 DEF IInv, LogsHaveBegun, FirstEventIsSentFirst
<1>. QED  BY <1>3, <1>4, <1>5, <1>6 DEF IInv

(* The client being served is owed its first event, so this is the datagram *)
(* that begins with it.                                                     *)
LEMMA OwedIsServedFirst ==
    ASSUME IInv, Busy, ~sendNewEvents, Served \in owed
    PROVE  /\ snapshot.game = Len(games) /\ todo[Served] = 0 /\ sent = 0
           /\ Available \in Nat \ {0}
<1>1. snapshot.game = Len(games) /\ todo[Served] = 0
  BY DEF IInv, AnnouncementsArePending
<1>2. sent = 0
  BY DEF IInv, TypeOK, FirstEventIsSentFirst
<1>3. games # << >>
  BY DEF IInv, LogsHaveBegun
<1>4. Len(games) \in Nat \ {0}
  BY <1>3, EmptySeq DEF IInv, TypeOK
<1>5. snapshot # NoSnapshot
  BY <1>1, <1>4 DEF NoSnapshot
<1>6. Available \in Nat \ {0}
  <2>1. /\ snapshot.game \in DOMAIN games
        /\ Available \in 1 .. Len(games[snapshot.game])
    BY <1>5 DEF IInv, SnapshotIsPast
  <2>. QED  BY <2>1
<1>. QED  BY <1>1, <1>2, <1>6

LEMMA SendDatagramInv == IInv /\ SendDatagram => IInv'
<1>. SUFFICES ASSUME IInv, SendDatagram PROVE IInv'
  OBVIOUS
<1>. DEFINE c == Served
            d == NextDatagram
            done == sent + Len(d.events)
<1>1. Sends /\ Busy /\ TypeOK
  BY DEF SendDatagram, Sends, IInv
<1>2. /\ owed' = IF d.first = 0 /\ snapshot.game = Len(games) THEN owed \ {c} ELSE owed
      /\ \/ done = SendCount(todo[c]) /\ Finish(c)
         \/ done < SendCount(todo[c]) /\ sent' = done /\ UNCHANGED <<todo, snapshot>>
      /\ UNCHANGED server
  BY DEF SendDatagram
<1>3. /\ d.first = todo[c] + sent
      /\ Len(d.events) \in 0 .. SendCount(todo[c]) - sent
      /\ SendCount(todo[c]) <= MaxSend
  BY <1>1, NextDatagramBounds
<1>. HIDE DEF d, c
<1>4. ~sendNewEvents => c \notin owed'
  <2>. SUFFICES ASSUME ~sendNewEvents, c \in owed'
                PROVE  FALSE
    OBVIOUS
  <2>1. c \in owed
    BY <1>2
  <2>2. snapshot.game = Len(games) /\ todo[c] = 0 /\ sent = 0
    BY <1>1, <2>1, OwedIsServedFirst DEF c
  <2>3. d.first = 0
    BY <1>3, <2>2
  <2>. QED  BY <1>2, <2>2, <2>3
<1>5. owed' \subseteq owed
  BY <1>2
<1>6. CASE Finish(c)
  BY <1>1, <1>2, <1>4, <1>5, <1>6, FinishKeeps DEF c
<1>7. CASE done < SendCount(todo[c]) /\ sent' = done /\ UNCHANGED <<todo, snapshot>>
  <2>1. UNCHANGED <<games, sendNewEvents, clients, todo, snapshot>>
    BY <1>2, <1>7 DEF server
  <2>2. c \in DOMAIN todo /\ todo[c] \in Nat /\ sent \in Nat /\ MaxSend \in Nat
    BY <1>1, ServedIsWaiting, SenderAssumption DEF c, TypeOK
  <2>3. SendCount(todo[c]) \in Nat
    <3>1. Available \in Nat
      BY <1>1, LenProperties DEF TypeOK, Available
    <3>. QED  BY <2>2, <3>1, SendCountBounds
  <2>4. sent' \in 0 .. MaxSend - 1
    <3>1. Len(d.events) \in Nat
      BY <1>3, <2>2, <2>3
    <3>. QED  BY <1>3, <1>7, <2>2, <2>3, <3>1
  <2>5. TypeOK'
    BY <1>1, <1>5, <2>1, <2>4 DEF TypeOK
  <2>6. LogsHaveBegun' /\ SnapshotIsPast' /\ (owed \subseteq DOMAIN clients)'
    BY <1>5, <2>1 DEF IInv, LogsHaveBegun, SnapshotIsPast, Available
  <2>7. AnnouncementsArePending'
    BY <1>5, <2>1 DEF IInv, AnnouncementsArePending
  <2>8. FirstEventIsSentFirst'
    <3>1. Busy' <=> Busy
      BY <2>1 DEF Busy
    <3>2. Served' = Served
      BY <2>1 DEF Served
    <3>. QED  BY <1>1, <1>4, <2>1, <3>1, <3>2 DEF FirstEventIsSentFirst, c
  <2>. QED  BY <2>5, <2>6, <2>7, <2>8 DEF IInv
<1>. QED  BY <1>2, <1>6, <1>7

LEMMA NothingToSendInv == IInv /\ NothingToSend => IInv'
<1>. SUFFICES ASSUME IInv, NothingToSend PROVE IInv'
  OBVIOUS
<1>1. /\ Busy /\ SendCount(todo[Served]) = 0 /\ Finish(Served)
      /\ UNCHANGED server /\ owed' = owed
  BY DEF NothingToSend
<1>2. ~sendNewEvents => Served \notin owed'
  <2>. SUFFICES ASSUME ~sendNewEvents, Served \in owed
                PROVE  FALSE
    BY <1>1
  <2>1. todo[Served] = 0 /\ Available \in Nat \ {0}
    BY <1>1, OwedIsServedFirst
  <2>2. SendCount(0) > 0
    BY <2>1, SendCountBounds
  <2>. QED  BY <1>1, <2>1, <2>2
<1>. QED  BY <1>1, <1>2, FinishKeeps

LEMMA NextInv == IInv /\ [Next]_vars => IInv'
<1>. SUFFICES ASSUME IInv, [Next]_vars PROVE IInv'
  OBVIOUS
<1>1. CASE UNCHANGED vars
  BY <1>1 DEF vars, server, IInv, TypeOK, LogsHaveBegun, SnapshotIsPast, Available,
              AnnouncementsArePending, FirstEventIsSentFirst, Busy, Served
<1>2. CASE StartGame
  BY <1>2, StartGameInv
<1>3. CASE PlayRound
  BY <1>3, PlayRoundInv
<1>4. ASSUME NEW c \in Clients, Drop(c) PROVE IInv'
  BY <1>4, DropInv
<1>5. ASSUME NEW c \in Clients, NEW next \in 0..MaxLog, Hear(c, next) PROVE IInv'
  <2>1. next \in Nat
    BY SenderAssumption
  <2>. QED  BY <1>5, <2>1, HearInv
<1>6. CASE TakeSnapshot
  BY <1>6, TakeSnapshotInv
<1>7. CASE SendDatagram
  BY <1>7, SendDatagramInv
<1>8. CASE NothingToSend
  BY <1>8, NothingToSendInv
<1>. QED  BY <1>1, <1>2, <1>3, <1>4, <1>5, <1>6, <1>7, <1>8 DEF Next, Server, Broadcast

(***************************************************************************)
(* The theorems.                                                           *)
(***************************************************************************)

(* The inductive invariant of the sending thread (send_events_job and      *)
(* broadcast_events): every step of the server or the sender keeps it.     *)
THEOREM Invariance == Spec => []IInv
<1>1. Init => IInv
  BY InitInv
<1>2. IInv /\ [Next]_vars => IInv'
  BY NextInv
<1>. QED  BY <1>1, <1>2, PTL DEF Spec

(* The variables of the sender keep their types; in particular it never    *)
(* counts past the limit of a reply.                                       *)
THEOREM TypeCorrect == Spec => []TypeOK
<1>1. IInv => TypeOK
  BY DEF IInv
<1>. QED  BY <1>1, Invariance, PTL

(* A new game is announced to everybody who was connected when it started, *)
(* whatever the sender was doing at that moment: the flag that              *)
(* send_events_job clears is never cleared in vain.                        *)
THEOREM NewGamesAreAnnounced == Spec => []AnnouncementsArePending
<1>1. IInv => AnnouncementsArePending
  BY DEF IInv
<1>. QED  BY <1>1, Invariance, PTL

(* What broadcast_events sends without the lock is part of the log of the  *)
(* game whose number it sends, however far the server has moved on.        *)
THEOREM SentEventsAreGenuine == Spec => []DatagramsAreGenuine
<1>. QED  BY NextDatagramIsGenuine, Invariance, PTL

(* No reply is longer than the 512 bytes a datagram may have, whatever the *)
(* rosters and the limit of a reply: packing stops in time.                *)
THEOREM RepliesFitDatagrams == Spec => []DatagramsFit
<1>1. IInv => DatagramsFit
  <2>. SUFFICES ASSUME IInv, Sends
                PROVE  GameIdLen + EventsLen(NextDatagram.events) <= MaxDatagramLen
    BY DEF DatagramsFit
  <2>. DEFINE d == NextDatagram
  <2>1. Fits(d.events)
    BY NextDatagramBounds DEF IInv
  <2>3. d.events \in Seq(Events)
    BY NextDatagramEvents DEF IInv
  <2>4. EventsLen(d.events) \in Nat
    BY <2>3, EventsLenType
  <2>. QED  BY <2>1, <2>4 DEF Fits, MaxEventsLen, MaxDatagramLen, GameIdLen
<1>. QED  BY <1>1, Invariance, PTL

=============================================================================
