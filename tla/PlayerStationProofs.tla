------------------------ MODULE PlayerStationProofs -------------------------
(***************************************************************************)
(* The safety of PlayerStation, proved for any lines, names and addresses, *)
(* any number of games told of and any room for what is under way.         *)
(***************************************************************************)
EXTENDS PlayerStation, StartUpProofs

(***************************************************************************)
(* The inductive invariant.  Its first part is about what is under way to  *)
(* the front end.  Pieces follow one another within a line and from line   *)
(* to line; a line about another game than the line before is a NEW_GAME.  *)
(***************************************************************************)
Commands == UNION {CommandsAbout(g) : g \in 1..MaxGames}
Pieces == [command : Commands, part : 1..Gui!NewLine]

IsNewGame(piece) == piece.part = 1 /\ piece.command.type = "NEW_GAME"

Follows(p, q) ==
    IF p.part = Gui!NewLine
    THEN q.part = 1 /\ (IsNewGame(q) \/ q.command.game = p.command.game)
    ELSE q.part = p.part + 1 /\ q.command = p.command

IsStream(pieces) ==
    /\ pieces \in Seq(Pieces)
    /\ \A k \in 1 .. Len(pieces) - 1 : Follows(pieces[k], pieces[k + 1])

(***************************************************************************)
(* Lines are told whole, by a client that goes on; one that has ended has  *)
(* no more to send than is copied.                                         *)
(***************************************************************************)
StreamInv ==
    /\ IsStream(commands)
    /\ copied \in 0 .. Len(commands) /\ arrived \in 0 .. copied /\ game \in Nat
    /\ clientEnded \in BOOLEAN /\ (clientEnded => copied = Len(commands))
    /\ (~clientEnded /\ commands # << >>) =>
          /\ commands[Len(commands)].part = Gui!NewLine
          /\ commands[Len(commands)].command.game = game

(***************************************************************************)
(* Unless a NEW_GAME is lost, what comes next is about the game of the     *)
(* table or it is a NEW_GAME.                                              *)
(***************************************************************************)
PictureInv ==
    /\ missed \in BOOLEAN
    /\ ~open => /\ commands = << >> /\ connection # "open" /\ field = {} /\ ~missed
    /\ (open /\ ~missed) =>
          IF commands = << >> THEN clientEnded \/ table = game
          ELSE IsNewGame(commands[1]) \/ commands[1].command.game = table

ScreenInv == StreamInv /\ PictureInv /\ ExecutesWholeLines /\ FieldHoldsOneGame

(***************************************************************************)
(* The other direction: once the lines that are under way are read, the    *)
(* keys are as they are held.                                              *)
(***************************************************************************)
KeyPieces == Keys!Sides \cup Keys!Changes
KeyStates == [matching : Seq(KeyPieces), pressed : [Keys!Sides -> BOOLEAN]]

AsHeld == [matching |-> << >>, pressed |-> [side \in Keys!Sides |-> side \in held]]
Read(pieces, from) == Keys!FoldLeft(Keys!Matched, from, pieces)
Now == [matching |-> matching, pressed |-> pressed]

KeysInv ==
    /\ held \subseteq Keys!Sides
    /\ keyLines \in Seq(KeyPieces) /\ Now \in KeyStates
    /\ turn = Keys!TurnOf(pressed)
    /\ (open /\ ~clientEnded) => Read(keyLines, Now) = AsHeld

(* What it comes to when nothing is under way.                             *)
KeysAreAsHeld == (Up /\ keyLines = << >>) => pressed = [side \in Keys!Sides |-> side \in held]

-----------------------------------------------------------------------------
(* The keys. *)

(* A piece that is added leaves a buffer and the state of two keys. *)
LEMMA MatchedType ==
    ASSUME NEW at \in KeyStates, NEW piece \in KeyPieces
    PROVE  Keys!Matched(at, piece) \in KeyStates
<1>. DEFINE line == Append(at.matching, piece)
            is == (piece = "_KEY_DOWN\n")
<1>1. /\ at.matching \in Seq(KeyPieces) /\ at.pressed \in [Keys!Sides -> BOOLEAN]
      /\ at = [matching |-> at.matching, pressed |-> at.pressed]
  BY DEF KeyStates
<1>2. line \in Seq(KeyPieces) /\ << >> \in Seq(KeyPieces)
  BY <1>1, AppendProperties
<1>3. is \in BOOLEAN
  OBVIOUS
<1>4. CASE piece \notin Keys!Changes
  BY <1>1, <1>2, <1>4 DEF Keys!Matched, KeyStates
<1>5. CASE piece \in Keys!Changes
  <2>. HIDE DEF line, is
  <2>1. Keys!Matched(at, piece) = [matching |-> << >>,
              pressed |-> IF line \notin Keys!Messages THEN at.pressed
                          ELSE [at.pressed EXCEPT ![line[1]] = is]]
    BY <1>5 DEF Keys!Matched, line, is
  <2>2. [at.pressed EXCEPT ![line[1]] = is] \in [Keys!Sides -> BOOLEAN]
    BY <1>1, <1>3
  <2>. QED  BY <1>1, <1>2, <2>1, <2>2 DEF KeyStates
<1>. QED  BY <1>4, <1>5

(* What a buffer goes through while pieces are added to it. *)
IsMatching(r, pieces, from) ==
    r[0] = from /\ \A k \in 1 .. Len(pieces) : r[k] = Keys!Matched(r[k - 1], pieces[k])

(* The fold of the model goes through them. *)
LEMMA MatchingRuns ==
    ASSUME NEW pieces \in Seq(KeyPieces), NEW from \in KeyStates
    PROVE  \E r : IsMatching(r, pieces, from) /\ Keys!FoldLeft(Keys!Matched, from, pieces) = r[Len(pieces)]
<1>. DEFINE n == Len(pieces)
            values == KeyStates
            step == [p \in values \X (1..n) |-> Keys!Matched(p[1], pieces[p[2]])]
            isFold(f) == f = [T \in SUBSET (1..n) |->
                                IF T = {} THEN from
                                ELSE Keys!Matched(f[T \ {Topmost(T)}], pieces[Topmost(T)])]
<1>1. n \in Nat /\ DOMAIN pieces = 1..n
  BY LenProperties
<1>2. \A at \in values, k \in 1..n : Keys!Matched(at, pieces[k]) \in values
  BY <1>1, ElementOfSeq, MatchedType
<1>3. step \in [values \X (1..n) -> values]
  BY <1>1, <1>2
<1>4. PICK g : g \in [SUBSET (1..n) -> values] /\ Folds(g, step, from, n)
  <2>1. n \in 0..n /\ from \in values
    BY <1>1
  <2>. HIDE DEF step, n, values
  <2>. QED  BY <1>1, <1>3, <2>1, FoldExists
<1>5. isFold(g)
  <2>1. ASSUME NEW T \in SUBSET (1..n), T # {}
        PROVE  step[<<g[T \ {Topmost(T)}], Topmost(T)>>]
                  = Keys!Matched(g[T \ {Topmost(T)}], pieces[Topmost(T)])
    <3>1. Topmost(T) \in 1..n
      <4>. HIDE DEF n
      <4>. QED  BY <1>1, <2>1, TopmostExists
    <3>2. g[T \ {Topmost(T)}] \in values
      BY <1>4
    <3>. HIDE DEF values
    <3>. QED  BY <3>1, <3>2
  <2>. HIDE DEF step, n, values
  <2>. QED  BY <1>4, <2>1 DEF Folds
<1>. DEFINE h == CHOOSE f : isFold(f)
<1>6. isFold(h) /\ Keys!FoldLeft(Keys!Matched, from, pieces) = h[1..n]
  <2>1. isFold(h)
    <3>. HIDE DEF isFold
    <3>. QED  BY <1>5
  <2>2. Keys!FoldLeft(Keys!Matched, from, pieces) = h[1..n]
    BY <1>1 DEF Keys!FoldLeft, Keys!MapThenFoldSet, Keys!Max, Topmost
  <2>. HIDE DEF isFold, h
  <2>. QED  BY <2>1, <2>2
<1>. HIDE DEF h
<1>. DEFINE r == [k \in 0..n |-> h[1..k]]
<1>7. r[0] = from
  <2>1. 1..0 = {} /\ 0 \in 0..n
    BY <1>1
  <2>. QED  BY <1>6, <2>1
<1>8. ASSUME NEW k \in 1..n PROVE r[k] = Keys!Matched(r[k - 1], pieces[k])
  <2>1. k \in 0..n /\ k - 1 \in 0..n
    BY <1>1
  <2>. QED  BY <1>1, <1>6, <2>1, FirstOnes
<1>9. r[n] = h[1..n]
  BY <1>1
<1>. HIDE DEF r
<1>. QED  BY <1>6, <1>7, <1>8, <1>9 DEF IsMatching

(* So reading anything leaves a buffer and the state of two keys. *)
LEMMA ReadType ==
    ASSUME NEW pieces \in Seq(KeyPieces), NEW from \in KeyStates
    PROVE  Read(pieces, from) \in KeyStates
<1>. DEFINE n == Len(pieces)
<1>1. n \in Nat
  BY LenProperties
<1>2. PICK r : IsMatching(r, pieces, from) /\ Read(pieces, from) = r[n]
  BY MatchingRuns DEF Read
<1>. DEFINE good == {k \in 0..n : r[k] \in KeyStates}
<1>3. 0 \in good
  BY <1>1, <1>2 DEF IsMatching
<1>4. ASSUME NEW k \in 1..n, k - 1 \in good PROVE k \in good
  <2>1. pieces[k] \in KeyPieces /\ k \in 0..n /\ r[k] = Keys!Matched(r[k - 1], pieces[k])
    BY <1>1, <1>2, ElementOfSeq DEF IsMatching
  <2>. QED  BY <1>4, <2>1, MatchedType
<1>5. \A k \in 0..n : k \in good
  <2>. HIDE DEF good, n
  <2>. QED  BY <1>1, <1>3, <1>4, UpTo
<1>. QED  BY <1>1, <1>2, <1>5

(* Two buffers that start alike and are given the same pieces stay alike.  *)
LEMMA MatchingsAgree ==
    ASSUME NEW m \in Nat, NEW r, NEW t, r[0] = t[0],
           NEW s, \A k \in 1..m : /\ r[k] = Keys!Matched(r[k - 1], s[k])
                                 /\ t[k] = Keys!Matched(t[k - 1], s[k])
    PROVE  r[m] = t[m]
<1>. DEFINE good == {k \in 0..m : r[k] = t[k]}
<1>1. 0 \in good
  OBVIOUS
<1>2. ASSUME NEW k \in 1..m, k - 1 \in good PROVE k \in good
  <2>1. k \in 0..m /\ r[k - 1] = t[k - 1]
    BY <1>2
  <2>. QED  BY <2>1
<1>3. \A k \in 0..m : k \in good
  <2>. HIDE DEF good
  <2>. QED  BY <1>1, <1>2, UpTo
<1>. QED  BY <1>3

(***************************************************************************)
(* It does not matter how recv divides what is under way, ...              *)
(***************************************************************************)
LEMMA ReadInParts ==
    ASSUME NEW pieces \in Seq(KeyPieces), NEW from \in KeyStates, NEW n \in 1 .. Len(pieces)
    PROVE  Read(SubSeq(pieces, n + 1, Len(pieces)), Read(SubSeq(pieces, 1, n), from))
              = Read(pieces, from)
<1>. DEFINE m == Len(pieces)
            first == SubSeq(pieces, 1, n)
            rest == SubSeq(pieces, n + 1, m)
            between == Read(first, from)
<1>1. m \in Nat /\ n \in 1..m /\ \A k \in 1..m : pieces[k] \in KeyPieces
  BY LenProperties, ElementOfSeq
<1>2. /\ first \in Seq(KeyPieces) /\ Len(first) = n
      /\ \A k \in 1..n : first[k] = pieces[k]
  <2>. HIDE DEF m
  <2>. QED  BY <1>1, SubSeqProperties
<1>3. /\ rest \in Seq(KeyPieces) /\ Len(rest) = m - n
      /\ \A k \in 1 .. m - n : rest[k] = pieces[n + k]
  <2>. HIDE DEF m
  <2>1. \A k \in n + 1 .. m : pieces[k] \in KeyPieces
    BY <1>1
  <2>. QED  BY <1>1, <2>1, SubSeqProperties
<1>. HIDE DEF first, rest
<1>4. between \in KeyStates
  BY <1>2, ReadType
<1>5. PICK r : IsMatching(r, pieces, from) /\ Read(pieces, from) = r[m]
  BY MatchingRuns DEF Read
<1>6. PICK f : IsMatching(f, first, from) /\ between = f[n]
  BY <1>2, MatchingRuns DEF Read
<1>. HIDE DEF between
<1>7. PICK g : IsMatching(g, rest, between) /\ Read(rest, between) = g[m - n]
  BY <1>3, <1>4, MatchingRuns DEF Read
<1>8. r[n] = between
  <2>1. \A k \in 1..n : /\ r[k] = Keys!Matched(r[k - 1], pieces[k])
                        /\ f[k] = Keys!Matched(f[k - 1], pieces[k])
    BY <1>1, <1>2, <1>5, <1>6 DEF IsMatching
  <2>2. r[0] = f[0]
    BY <1>5, <1>6 DEF IsMatching
  <2>. HIDE DEF m
  <2>. QED  BY <1>1, <1>6, <2>1, <2>2, MatchingsAgree
<1>9. r[m] = g[m - n]
  <2>. DEFINE later == [k \in 0 .. m - n |-> r[n + k]]
  <2>1. m - n \in Nat /\ 0 \in 0 .. m - n /\ m - n \in 0 .. m - n
           /\ n + 0 = n /\ n + (m - n) = m
    BY <1>1
  <2>2. later[0] = g[0] /\ later[m - n] = r[m]
    BY <1>7, <1>8, <2>1 DEF IsMatching
  <2>3. ASSUME NEW k \in 1 .. m - n
        PROVE  /\ later[k] = Keys!Matched(later[k - 1], rest[k])
               /\ g[k] = Keys!Matched(g[k - 1], rest[k])
    <3>1. n + k \in 1..m /\ k \in 0 .. m - n /\ k - 1 \in 0 .. m - n /\ n + (k - 1) = n + k - 1
      BY <1>1
    <3>2. r[n + k] = Keys!Matched(r[n + k - 1], pieces[n + k])
      BY <1>5, <3>1 DEF IsMatching
    <3>3. later[k] = r[n + k] /\ later[k - 1] = r[n + k - 1]
      BY <3>1
    <3>4. g[k] = Keys!Matched(g[k - 1], rest[k])
      BY <1>3, <1>7 DEF IsMatching
    <3>. HIDE DEF later, m
    <3>. QED  BY <1>3, <3>2, <3>3, <3>4
  <2>. HIDE DEF later
  <2>4. later[m - n] = g[m - n]
    <3>. DEFINE d == m - n
    <3>1. d \in Nat /\ later[0] = g[0]
      BY <2>1, <2>2
    <3>2. \A k \in 1..d : /\ later[k] = Keys!Matched(later[k - 1], rest[k])
                          /\ g[k] = Keys!Matched(g[k - 1], rest[k])
      BY <2>3
    <3>. HIDE DEF d
    <3>3. later[d] = g[d]
      BY <3>1, <3>2, MatchingsAgree
    <3>. QED  BY <3>3 DEF d
  <2>. QED  BY <2>2, <2>4
<1>. QED  BY <1>5, <1>7, <1>9 DEF between, first, rest

(* ... and a line that is written later is read later.                     *)
LEMMA ReadOneMoreLine ==
    ASSUME NEW pieces \in Seq(KeyPieces), NEW from \in KeyStates,
           NEW p \in KeyPieces, NEW q \in KeyPieces
    PROVE  /\ pieces \o <<p, q>> \in Seq(KeyPieces)
           /\ Read(pieces \o <<p, q>>, from)
                 = Keys!Matched(Keys!Matched(Read(pieces, from), p), q)
<1>. DEFINE m == Len(pieces)
            all == pieces \o <<p, q>>
<1>1. m \in Nat
  BY LenProperties
<1>2. <<p, q>> \in Seq(KeyPieces) /\ Len(<<p, q>>) = 2
  OBVIOUS
<1>3. all \in Seq(KeyPieces) /\ Len(all) = m + 2
  BY <1>2, ConcatProperties
<1>4. (\A i \in 1..m : all[i] = pieces[i]) /\ all[m + 1] = p /\ all[m + 2] = q
  BY <1>1
<1>. HIDE DEF all
<1>5. PICK r : IsMatching(r, pieces, from) /\ Read(pieces, from) = r[m]
  BY MatchingRuns DEF Read
<1>6. PICK t : IsMatching(t, all, from) /\ Read(all, from) = t[m + 2]
  BY <1>3, MatchingRuns DEF Read
<1>7. r[m] = t[m]
  <2>1. ASSUME NEW k \in 1..m
        PROVE  /\ r[k] = Keys!Matched(r[k - 1], pieces[k])
               /\ t[k] = Keys!Matched(t[k - 1], pieces[k])
    <3>1. k \in 1 .. Len(all)
      BY <1>1, <1>3
    <3>. QED  BY <1>4, <1>5, <1>6, <3>1 DEF IsMatching
  <2>2. r[0] = t[0]
    BY <1>5, <1>6 DEF IsMatching
  <2>. HIDE DEF m
  <2>. QED  BY <1>1, <2>1, <2>2, MatchingsAgree
<1>8. t[m + 1] = Keys!Matched(t[m], p) /\ t[m + 2] = Keys!Matched(t[m + 1], q)
  <2>1. m + 1 \in 1 .. Len(all) /\ m + 2 \in 1 .. Len(all) /\ m + 1 - 1 = m /\ m + 2 - 1 = m + 1
    BY <1>1, <1>3
  <2>. QED  BY <1>4, <1>6, <2>1 DEF IsMatching
<1>. QED  BY <1>3, <1>5, <1>6, <1>7, <1>8 DEF all

(* The buffer after two pieces of a line. *)
LEMMA AppendTwice ==
    ASSUME NEW S, NEW x \in S, NEW y \in S
    PROVE  Append(<< >>, x) = <<x>> /\ Append(<<x>>, y) = <<x, y>>
<1>1. << >> \in Seq(S) /\ Len(<< >>) = 0
  OBVIOUS
<1>2. <<x>> \in Seq(S) /\ Len(<<x>>) = 1 /\ <<x>>[1] = x
  OBVIOUS
<1>3. <<x, y>> \in Seq(S) /\ Len(<<x, y>>) = 2 /\ <<x, y>>[1] = x /\ <<x, y>>[2] = y
  OBVIOUS
<1>4. Append(<< >>, x) = <<x>>
  <2>1. Append(<< >>, x) \in Seq(S) /\ Len(Append(<< >>, x)) = 1 /\ Append(<< >>, x)[1] = x
    BY <1>1, AppendProperties
  <2>. QED  BY <1>2, <2>1, SeqEqual
<1>5. Append(<<x>>, y) = <<x, y>>
  <2>1. /\ Append(<<x>>, y) \in Seq(S) /\ Len(Append(<<x>>, y)) = 2
        /\ Append(<<x>>, y)[1] = x /\ Append(<<x>>, y)[2] = y
    BY <1>2, AppendProperties
  <2>2. \A i \in 1..2 : Append(<<x>>, y)[i] = <<x, y>>[i]
    BY <1>3, <2>1
  <2>. QED  BY <1>3, <2>1, <2>2, SeqEqual
<1>. QED  BY <1>4, <1>5

(***************************************************************************)
(* A line that is read from its beginning sets its key, ...                *)
(***************************************************************************)
LEMMA WholeLineIsMatched ==
    ASSUME NEW down \in [Keys!Sides -> BOOLEAN],
           NEW side \in Keys!Sides, NEW change \in Keys!Changes
    PROVE  Keys!Matched(Keys!Matched([matching |-> << >>, pressed |-> down], side), change)
              = [matching |-> << >>,
                 pressed |-> [down EXCEPT ![side] = (change = "_KEY_DOWN\n")]]
<1>. DEFINE is == (change = "_KEY_DOWN\n")
<1>1. side \notin Keys!Changes
  BY DEF Keys!Sides, Keys!Changes
<1>2. Append(<< >>, side) = <<side>> /\ Append(<<side>>, change) = <<side, change>>
  <2>1. side \in KeyPieces /\ change \in KeyPieces
    BY DEF KeyPieces
  <2>. QED  BY <2>1, AppendTwice
<1>3. Keys!Matched([matching |-> << >>, pressed |-> down], side)
         = [matching |-> <<side>>, pressed |-> down]
  BY <1>1, <1>2 DEF Keys!Matched
<1>4. <<side, change>> \in Keys!Messages /\ <<side, change>>[1] = side
  BY DEF Keys!Messages, Keys!Line
<1>. HIDE DEF is
<1>5. Keys!Matched([matching |-> <<side>>, pressed |-> down], change)
         = [matching |-> << >>, pressed |-> [down EXCEPT ![side] = is]]
  BY <1>2, <1>4 DEF Keys!Matched, is
<1>. QED  BY <1>3, <1>5 DEF is

(* ... so that the keys are as they are held once it is read.              *)
LEMMA LineIsRead ==
    ASSUME KeysInv, NEW side \in Keys!Sides, NEW change \in Keys!Changes,
           open /\ ~clientEnded, UNCHANGED keys,
           keyLines' = keyLines \o Keys!Line(side, change),
           \A s \in Keys!Sides : (s \in held') = IF s = side THEN change = "_KEY_DOWN\n" ELSE s \in held
    PROVE  Read(keyLines', Now') = AsHeld' /\ keyLines' \in Seq(KeyPieces)
<1>. DEFINE down == [s \in Keys!Sides |-> s \in held]
<1>1. side \in KeyPieces /\ change \in KeyPieces
  BY DEF KeyPieces
<1>2. keyLines' = keyLines \o <<side, change>>
  BY DEF Keys!Line
<1>3. keyLines \in Seq(KeyPieces) /\ Now \in KeyStates /\ Now' = Now
        /\ Read(keyLines, Now) = [matching |-> << >>, pressed |-> down]
  BY DEF KeysInv, keys, Now, AsHeld
<1>4. /\ keyLines \o <<side, change>> \in Seq(KeyPieces)
      /\ Read(keyLines \o <<side, change>>, Now)
            = Keys!Matched(Keys!Matched(Read(keyLines, Now), side), change)
  BY <1>1, <1>3, ReadOneMoreLine
<1>5. down \in [Keys!Sides -> BOOLEAN]
  OBVIOUS
<1>6. Keys!Matched(Keys!Matched(Read(keyLines, Now), side), change)
         = [matching |-> << >>, pressed |-> [down EXCEPT ![side] = (change = "_KEY_DOWN\n")]]
  <2>. HIDE DEF down
  <2>. QED  BY <1>3, <1>5, WholeLineIsMatched
<1>7. [down EXCEPT ![side] = (change = "_KEY_DOWN\n")] = [s \in Keys!Sides |-> s \in held']
  OBVIOUS
<1>8. AsHeld' = [matching |-> << >>, pressed |-> [s \in Keys!Sides |-> s \in held']]
  BY DEF AsHeld
<1>. HIDE DEF down
<1>. QED  BY <1>2, <1>3, <1>4, <1>6, <1>7, <1>8

(* A client that ends leaves no keys behind. *)
LEMMA EndedKeys ==
    ASSUME Keys!Ends, keyLines' = << >>, UNCHANGED held, held \subseteq Keys!Sides
    PROVE  KeysInv'
<1>1. pressed' = [side \in Keys!Sides |-> FALSE] /\ turn' = 0 /\ clientEnded' /\ matching' = << >>
  BY DEF Keys!Ends
<1>2. Keys!TurnOf(pressed)' = 0
  BY <1>1 DEF Keys!TurnOf, Keys!Sides
<1>3. Now' \in KeyStates
  BY <1>1 DEF Now, KeyStates
<1>4. keyLines' \in Seq(KeyPieces)
  OBVIOUS
<1>. QED  BY <1>1, <1>2, <1>3, <1>4 DEF KeysInv

(* The invariant of the keys holds at the beginning, ... *)
LEMMA KeysInvInit == Init => KeysInv
<1>. SUFFICES ASSUME Init PROVE KeysInv
  OBVIOUS
<1>1. /\ matching = << >> /\ pressed = [side \in Keys!Sides |-> FALSE] /\ turn = 0
      /\ held = {} /\ keyLines = << >>
  BY DEF Init, Keys!KeysInit, Gui!FrontEndInit
<1>2. Now = AsHeld /\ Now \in KeyStates /\ keyLines \in Seq(KeyPieces) /\ Len(keyLines) = 0
  <2>1. << >> \in Seq(KeyPieces) /\ Len(<< >>) = 0
    OBVIOUS
  <2>2. [side \in Keys!Sides |-> FALSE] = [side \in Keys!Sides |-> side \in held]
    <3>1. \A side \in Keys!Sides : (side \in held) = FALSE
      BY <1>1
    <3>. QED  BY <3>1
  <2>. QED  BY <1>1, <2>1, <2>2 DEF Now, AsHeld, KeyStates
<1>3. Read(keyLines, Now) = Now
  <2>1. PICK r : IsMatching(r, keyLines, Now) /\ Read(keyLines, Now) = r[Len(keyLines)]
    BY <1>2, MatchingRuns DEF Read
  <2>. QED  BY <1>2, <2>1 DEF IsMatching
<1>4. turn = Keys!TurnOf(pressed)
  BY <1>1 DEF Keys!TurnOf, Keys!Sides
<1>. QED  BY <1>1, <1>2, <1>3, <1>4 DEF KeysInv

(* The front end forgets what is held only when it ends. *)
LEMMA ReadingKeepsHeld ==
    ASSUME ReadLine
    PROVE  UNCHANGED <<keys, keyLines>> /\ open /\ (held' = held \/ (~open' /\ held' = {}))
<1>1. UNCHANGED <<keys, keyLines>>
  BY DEF ReadLine
<1>2. ASSUME NEW ended, Gui!IdleCallback(Unread, ended)
      PROVE  open /\ (held' = held \/ (~open' /\ held' = {}))
  BY <1>2 DEF Gui!IdleCallback, Gui!IsIdle, Gui!ProcessCommand, Gui!Forget, Gui!Ends
<1>3. CASE Gui!ReadEnd
  BY <1>1, <1>3 DEF Gui!ReadEnd, Gui!IsIdle, Gui!Ends
<1>. QED  BY <1>1, <1>2, <1>3 DEF ReadLine

(* A step that is about neither the keys nor their lines keeps it, ... *)
LEMMA KeysInvKept ==
    ASSUME KeysInv, UNCHANGED <<keys, keyLines>>,
           held' \subseteq Keys!Sides, (open' /\ ~clientEnded) => open /\ held' = held
    PROVE  KeysInv'
<1>1. Now' = Now /\ turn' = turn /\ pressed' = pressed /\ clientEnded' = clientEnded
        /\ keyLines' = keyLines
  BY DEF keys, Now
<1>2. ASSUME open' /\ ~clientEnded' PROVE Read(keyLines', Now') = AsHeld'
  <2>1. AsHeld' = AsHeld
    BY <1>1, <1>2 DEF AsHeld
  <2>. QED  BY <1>1, <1>2, <2>1 DEF KeysInv
<1>3. Keys!TurnOf(pressed)' = Keys!TurnOf(pressed)
  BY <1>1 DEF Keys!TurnOf
<1>. QED  BY <1>1, <1>2, <1>3 DEF KeysInv

(* ... recv does, whatever part it returns, ... *)
LEMMA RecvKeepsKeysInv ==
    ASSUME KeysInv, Recv
    PROVE  KeysInv'
<1>1. UNCHANGED <<held, open>> /\ held \subseteq Keys!Sides
  BY DEF Recv, frontEnd, KeysInv
<1>2. CASE RecvEnd /\ UNCHANGED keyLines
  <2>1. CASE Keys!Ends
    <3>1. keyLines' = << >>
      BY <1>2 DEF RecvEnd
    <3>. QED  BY <1>1, <2>1, <3>1, EndedKeys
  <2>2. CASE ~Keys!Ends
    <3>1. UNCHANGED <<matching, pressed, turn, clientEnded>>
      BY <1>2, <2>2 DEF RecvEnd, Keys!ReceiveError, Keys!ReceiveEnd, Keys!keys
    <3>2. Now' = Now /\ AsHeld' = AsHeld /\ keyLines' = keyLines
      BY <1>1, <1>2, <3>1 DEF Now, AsHeld
    <3>3. Keys!TurnOf(pressed)' = Keys!TurnOf(pressed)
      BY <3>1 DEF Keys!TurnOf
    <3>. QED  BY <1>1, <3>1, <3>2, <3>3 DEF KeysInv
  <2>. QED  BY <2>1, <2>2
<1>3. ASSUME NEW n \in DOMAIN keyLines, Keys!Receive(SubSeq(keyLines, 1, n)),
             keyLines' = SubSeq(keyLines, n + 1, Len(keyLines))
      PROVE  KeysInv'
  <2>. DEFINE first == SubSeq(keyLines, 1, n)
  <2>1. /\ keyLines \in Seq(KeyPieces) /\ n \in 1 .. Len(keyLines) /\ Len(keyLines) \in Nat
        /\ Now \in KeyStates
    BY <1>3, LenProperties DEF KeysInv
  <2>2. \A k \in 1 .. Len(keyLines) : keyLines[k] \in KeyPieces
    BY <2>1, ElementOfSeq
  <2>3. first \in Seq(KeyPieces)
    <3>1. \A k \in 1..n : keyLines[k] \in KeyPieces
      BY <2>1, <2>2
    <3>. QED  BY <2>1, <3>1, SubSeqProperties
  <2>4. keyLines' \in Seq(KeyPieces)
    <3>1. \A k \in n + 1 .. Len(keyLines) : keyLines[k] \in KeyPieces
      BY <2>1, <2>2
    <3>. QED  BY <1>3, <2>1, <3>1, SubSeqProperties
  <2>5. /\ matching' = Read(first, Now).matching /\ pressed' = Read(first, Now).pressed
        /\ turn' = Keys!TurnOf(pressed') /\ UNCHANGED clientEnded
    BY <1>3 DEF Keys!Receive, Keys!Handle, Read, Now
  <2>6. Read(first, Now) \in KeyStates
    <3>. HIDE DEF first
    <3>. QED  BY <2>1, <2>3, ReadType
  <2>7. Now' = Read(first, Now)
    <3>. DEFINE read == Read(first, Now)
    <3>1. read = [matching |-> read.matching, pressed |-> read.pressed]
      <4>. HIDE DEF read
      <4>1. read \in KeyStates
        BY <2>6 DEF read
      <4>. QED  BY <4>1 DEF KeyStates
    <3>2. Now' = [matching |-> read.matching, pressed |-> read.pressed]
      BY <2>5 DEF Now
    <3>. HIDE DEF read
    <3>3. Now' = read
      BY <3>1, <3>2
    <3>. QED  BY <3>3 DEF read
  <2>8. Read(keyLines', Now') = Read(keyLines, Now)
    BY <1>3, <2>1, <2>7, ReadInParts
  <2>9. AsHeld' = AsHeld
    BY <1>1 DEF AsHeld
  <2>10. turn' = Keys!TurnOf(pressed)'
    BY <2>5 DEF Keys!TurnOf
  <2>. QED  BY <1>1, <2>4, <2>5, <2>6, <2>7, <2>8, <2>9, <2>10 DEF KeysInv
<1>. QED  BY <1>2, <1>3 DEF Recv

(* ... a key that is used does, ... *)
LEMMA UseArrowKeepsKeysInv ==
    ASSUME KeysInv, UseArrow
    PROVE  KeysInv'
<1>1. UNCHANGED keys /\ held \subseteq Keys!Sides
  BY DEF UseArrow, KeysInv
<1>2. UNCHANGED clientEnded /\ UNCHANGED turn /\ UNCHANGED pressed
  BY <1>1 DEF keys
<1>3. CASE clientEnded
  <2>1. UNCHANGED keyLines
    BY <1>3 DEF UseArrow, Sent
  <2>2. held' \subseteq Keys!Sides
    BY <1>1 DEF UseArrow, Gui!ArrowPressed, Gui!ArrowReleased, Gui!SendMessageFails, Gui!Ends
  <2>. QED  BY <1>1, <1>3, <2>1, <2>2, KeysInvKept
<1>4. CASE ~clientEnded
  <2>1. PICK side \in Keys!Sides :
             \/ Gui!ArrowPressed(side) /\ Sent(side, "_KEY_DOWN\n")
             \/ Gui!ArrowReleased(side) /\ Sent(side, "_KEY_UP\n")
    BY <1>4 DEF UseArrow
  <2>2. "_KEY_DOWN\n" \in Keys!Changes /\ "_KEY_UP\n" \in Keys!Changes
    BY DEF Keys!Changes
  <2>3. Read(keyLines', Now') = AsHeld' /\ keyLines' \in Seq(KeyPieces)
    <3>1. CASE Gui!ArrowPressed(side) /\ Sent(side, "_KEY_DOWN\n")
      <4>1. open /\ held' = held \cup {side}
              /\ keyLines' = keyLines \o Keys!Line(side, "_KEY_DOWN\n")
        BY <1>4, <3>1 DEF Gui!ArrowPressed, Sent
      <4>. QED  BY <1>1, <1>4, <2>2, <4>1, LineIsRead
    <3>2. CASE Gui!ArrowReleased(side) /\ Sent(side, "_KEY_UP\n")
      <4>1. open /\ held' = held \ {side}
              /\ keyLines' = keyLines \o Keys!Line(side, "_KEY_UP\n")
        BY <1>4, <3>2 DEF Gui!ArrowReleased, Sent
      <4>. QED  BY <1>1, <1>4, <2>2, <4>1, LineIsRead
    <3>. QED  BY <2>1, <3>1, <3>2
  <2>4. held' \subseteq Keys!Sides
    BY <1>1, <2>1 DEF Gui!ArrowPressed, Gui!ArrowReleased
  <2>5. Now' = Now /\ Now \in KeyStates /\ turn' = Keys!TurnOf(pressed)'
    BY <1>1, <1>2 DEF Now, KeysInv, keys, Keys!TurnOf
  <2>. QED  BY <1>2, <2>3, <2>4, <2>5 DEF KeysInv
<1>. QED  BY <1>3, <1>4

(* ... and so does every step. *)
LEMMA KeysInvStep ==
    ASSUME KeysInv, [Next]_vars
    PROVE  KeysInv'
<1>. held \subseteq Keys!Sides
  BY DEF KeysInv
<1>1. CASE UNCHANGED vars
  BY <1>1, KeysInvKept DEF vars, frontEnd, tcp
<1>2. CASE Start
  BY <1>2, KeysInvKept DEF Start, frontEnd, tcp
<1>3. CASE Tell
  <2>1. CASE Keys!Ends /\ keyLines' = << >>
    BY <1>3, <2>1, EndedKeys DEF Tell, frontEnd
  <2>2. CASE UNCHANGED <<keys, keyLines>>
    BY <1>3, <2>2, KeysInvKept DEF Tell, frontEnd
  <2>. QED  BY <1>3, <2>1, <2>2 DEF Tell, BeginLine, LineIsRefused, SendFails
<1>4. CASE Recv
  BY <1>4, RecvKeepsKeysInv
<1>5. CASE StopClient
  BY <1>5, EndedKeys DEF StopClient, frontEnd
<1>6. CASE Arrive
  BY <1>6, KeysInvKept DEF Arrive, frontEnd
<1>7. CASE ReadLine
  BY <1>7, ReadingKeepsHeld, KeysInvKept
<1>8. CASE Configure
  BY <1>8, KeysInvKept DEF Configure, Gui!ConfigureEvent, tcp
<1>9. CASE UseArrow
  BY <1>9, UseArrowKeepsKeysInv
<1>10. CASE CloseWindow
  BY <1>10, KeysInvKept DEF CloseWindow, Gui!DestroyWindow, Gui!Ends
<1>11. CASE ContinueLine
  BY <1>11, KeysInvKept DEF ContinueLine, frontEnd
<1>. QED  BY <1>1, <1>2, <1>3, <1>4, <1>5, <1>6, <1>7, <1>8, <1>9, <1>10, <1>11 DEF Next

(***************************************************************************)
(* From the keys to the steering.                                          *)
(***************************************************************************)
SpeedSteers ==
    \A heading \in Headings : /\ Sense(heading, Turned(heading, 1)) < 0
                              /\ Sense(heading, Turned(heading, 255)) > 0

(* Without a turn the heading stays and there is no sense. *)
LEMMA NoTurnNoSense ==
    \A heading \in Headings : Sense(heading, Turned(heading, 0)) = 0
<1>. SUFFICES ASSUME NEW heading \in Headings
              PROVE  Sense(heading, Turned(heading, 0)) = 0
  OBVIOUS
<1>1. (0 * TurningSpeed) % UintRange = 0
  BY GeometryAssumption
<1>2. heading \in 0..359 /\ (heading + 0) % 360 = heading
  BY DEF Headings
<1>3. Turned(heading, 0) = heading
  BY <1>1, <1>2 DEF Turned
<1>. DEFINE x == MovedX(0, heading)
            y == MovedY(0, heading)
<1>4. x \in Int /\ y \in Int
  <2>1. (-heading) % 360 \in Degrees
    BY <1>2 DEF Degrees
  <2>2. Scale \in Int
    BY GeometryAssumption DEF Scale
  <2>3. Cos[(-heading) % 360] \in -Scale .. Scale /\ Sin[(-heading) % 360] \in -Scale .. Scale
    BY <2>1, GeometryAssumption
  <2>. QED  BY <2>2, <2>3 DEF MovedX, MovedY
<1>. HIDE DEF x, y
<1>5. x * y - y * x = 0
  BY <1>4
<1>. QED  BY <1>3, <1>5 DEF Sense, x, y

(* Once all lines are read the client knows just the keys that are held, ... *)
LEMMA NothingToRead ==
    ASSUME KeysInv, open, ~clientEnded, keyLines = << >>
    PROVE  pressed = [side \in Keys!Sides |-> side \in held]
<1>1. Len(keyLines) = 0 /\ keyLines \in Seq(KeyPieces) /\ Now \in KeyStates
  BY DEF KeysInv
<1>2. PICK r : IsMatching(r, keyLines, Now) /\ Read(keyLines, Now) = r[Len(keyLines)]
  BY <1>1, MatchingRuns DEF Read
<1>3. Now = AsHeld
  BY <1>1, <1>2 DEF IsMatching, KeysInv
<1>. QED  BY <1>3 DEF Now, AsHeld

(* ... and its turn is the one to their side. *)
LEMMA KeysInvSteers ==
    ASSUME KeysInv, SpeedSteers
    PROVE  HeldKeySteersThatWay
<1>. SUFFICES ASSUME Up, keyLines = << >>,
                     NEW heading \in Headings
              PROVE  LET sense == Sense(heading, Turned(heading, turn % 256))
                     IN  CASE held = {"LEFT"} -> sense < 0
                           [] held = {"RIGHT"} -> sense > 0
                           [] OTHER -> sense = 0
  BY DEF HeldKeySteersThatWay
<1>1. pressed = [side \in Keys!Sides |-> side \in held]
  BY NothingToRead DEF Up
<1>2. held \subseteq {"LEFT", "RIGHT"} /\ turn = Keys!TurnOf(pressed)
  BY DEF KeysInv, Keys!Sides
<1>3. pressed["LEFT"] = ("LEFT" \in held) /\ pressed["RIGHT"] = ("RIGHT" \in held)
  BY <1>1 DEF Keys!Sides
<1>4. turn = (IF "LEFT" \in held THEN 1 ELSE 0) - (IF "RIGHT" \in held THEN 1 ELSE 0)
  BY <1>2, <1>3, Zenon DEF Keys!TurnOf
<1>. DEFINE sense == Sense(heading, Turned(heading, turn % 256))
<1>5. CASE held = {"LEFT"}
  <2>1. turn = 1 /\ 1 % 256 = 1
    BY <1>4, <1>5
  <2>. QED  BY <1>5, <2>1 DEF SpeedSteers
<1>6. CASE held = {"RIGHT"}
  <2>1. turn = -1
    BY <1>4, <1>6
  <2>2. turn % 256 = 255
    <3>1. turn \in Int
      BY <2>1
    <3>2. /\ turn % 256 \in 0..255 /\ turn \div 256 \in Int
          /\ turn = 256 * (turn \div 256) + (turn % 256)
      BY ONLY <3>1
    <3>. QED  BY <2>1, <3>2
  <2>. QED  BY <1>6, <2>2 DEF SpeedSteers
<1>7. CASE held # {"LEFT"} /\ held # {"RIGHT"}
  <2>1. held = {} \/ held = {"LEFT", "RIGHT"}
    BY <1>2, <1>7
  <2>2. turn = 0 /\ 0 % 256 = 0
    BY <1>4, <2>1
  <2>. QED  BY <1>7, <2>2, NoTurnNoSense
<1>. QED  BY <1>5, <1>6, <1>7

(* What of the unit vectors matters to steering: their signs. *)
UnitVectorSigns ==
    /\ \A d \in Degrees : (Cos[d] > 0 <=> d \in 0..89 \cup 271..359) /\ (Cos[d] < 0 <=> d \in 91..269)
    /\ \A d \in Degrees : (Sin[d] > 0 <=> d \in 1..179) /\ (Sin[d] < 0 <=> d \in 181..359)

(* The sign of a product. *)
LEMMA Signs ==
    ASSUME NEW a \in Int, NEW b \in Int
    PROVE  /\ a > 0 => (a * b < 0 <=> b < 0) /\ (a * b > 0 <=> b > 0)
           /\ a < 0 => (a * b < 0 <=> b > 0) /\ (a * b > 0 <=> b < 0)
<1>1. CASE b = 0
  BY <1>1
<1>2. CASE a = 0
  BY <1>2
<1>3. CASE a > 0 /\ b > 0
  <2>1. a * b > 0
    BY <1>3
  <2>. QED  BY <1>3, <2>1
<1>4. CASE a < 0 /\ b < 0
  <2>1. a * b > 0
    BY <1>4
  <2>. QED  BY <1>4, <2>1
<1>5. CASE a > 0 /\ b < 0
  <2>1. a * b < 0
    BY <1>5
  <2>. QED  BY <1>5, <2>1
<1>6. CASE a < 0 /\ b > 0
  <2>1. a * b < 0
    BY <1>6
  <2>. QED  BY <1>6, <2>1
<1>. QED  BY <1>1, <1>2, <1>3, <1>4, <1>5, <1>6

(* The heading in the mirrored picture. *)
LEMMA Opposite ==
    ASSUME NEW d \in Degrees
    PROVE  (-d) % 360 = IF d = 0 THEN 0 ELSE 360 - d
BY DEF Degrees

(* A heading along an axis, turned by d degrees. *)
LEMMA SumOfDegrees ==
    ASSUME NEW d \in Degrees
    PROVE  /\ (0 + d) % 360 = d
           /\ (90 + d) % 360 = IF d < 270 THEN 90 + d ELSE d - 270
           /\ (180 + d) % 360 = IF d < 180 THEN 180 + d ELSE d - 180
           /\ (270 + d) % 360 = IF d < 90 THEN 270 + d ELSE d - 90
BY DEF Degrees

(* A turn by less than half a circle goes to the left as the player sees it. *)
LEMMA SenseOfTurn ==
    ASSUME UnitVectorSigns, NEW heading \in Headings, NEW d \in Degrees
    PROVE  /\ Sense(heading, (heading + d) % 360) < 0 <=> d \in 1..179
           /\ Sense(heading, (heading + d) % 360) > 0 <=> d \in 181..359
<1>. DEFINE new == (heading + d) % 360
            back == (-new) % 360
            c == Cos[back]
            s == Sin[back]
<1>1. /\ heading \in {0, 90, 180, 270} /\ d \in 0..359
  BY DEF Headings, Degrees
<1>2. new \in Degrees
  BY <1>1 DEF Degrees
<1>3. back = (IF new = 0 THEN 0 ELSE 360 - new) /\ back \in Degrees
  <2>1. (-new) % 360 = IF new = 0 THEN 0 ELSE 360 - new
    <3>. HIDE DEF new
    <3>. QED  BY <1>2, Opposite
  <2>. HIDE DEF new
  <2>. QED  BY <1>2, <2>1 DEF Degrees
<1>4. \A e \in Degrees : Cos[e] \in Int /\ Sin[e] \in Int
  <2>1. Scale \in Int
    BY GeometryAssumption DEF Scale
  <2>. QED  BY <2>1, GeometryAssumption
<1>5. c \in Int /\ s \in Int
  <2>. HIDE DEF back
  <2>. QED  BY <1>3, <1>4
<1>6. /\ c > 0 <=> back \in 0..89 \cup 271..359
      /\ c < 0 <=> back \in 91..269
      /\ s > 0 <=> back \in 1..179
      /\ s < 0 <=> back \in 181..359
  <2>. HIDE DEF back
  <2>. QED  BY <1>3 DEF UnitVectorSigns
<1>7. Sense(heading, new) = Cos[(-heading) % 360] * s - Sin[(-heading) % 360] * c
  <2>. DEFINE from == (-heading) % 360
  <2>1. from \in Degrees
    BY <1>1 DEF Degrees
  <2>2. Sense(heading, new) = (0 + Cos[from]) * (0 + s) - (0 + Sin[from]) * (0 + c)
    BY DEF Sense, MovedX, MovedY
  <2>3. Cos[from] \in Int /\ Sin[from] \in Int
    BY <1>4, <2>1
  <2>. HIDE DEF c, s
  <2>4. 0 + Cos[from] = Cos[from] /\ 0 + Sin[from] = Sin[from] /\ 0 + s = s /\ 0 + c = c
    BY <1>5, <2>3
  <2>. QED  BY <2>2, <2>4, Zenon
<1>. HIDE DEF c, s, back
<1>8. CASE heading = 0
  <2>1. (-heading) % 360 = 0 /\ new = d
    BY <1>8, Opposite, SumOfDegrees DEF Degrees
  <2>2. Cos[0] > 0 /\ Sin[0] = 0 /\ Cos[0] \in Int
    BY <1>4 DEF UnitVectorSigns, Degrees
  <2>3. Sense(heading, new) = Cos[0] * s
    BY <1>5, <1>7, <2>1, <2>2
  <2>. HIDE DEF new
  <2>4. /\ Sense(heading, new) < 0 <=> s < 0
        /\ Sense(heading, new) > 0 <=> s > 0
    BY <1>5, <2>2, <2>3, Signs
  <2>5. /\ s < 0 <=> d \in 1..179
        /\ s > 0 <=> d \in 181..359
    BY <1>1, <1>3, <1>6, <2>1
  <2>. QED  BY <2>4, <2>5 DEF new
<1>9. CASE heading = 90
  <2>1. (-heading) % 360 = 270 /\ new = IF d < 270 THEN 90 + d ELSE d - 270
    BY <1>9, Opposite, SumOfDegrees DEF Degrees
  <2>2. Cos[270] = 0 /\ Sin[270] < 0 /\ Sin[270] \in Int
    BY <1>4 DEF UnitVectorSigns, Degrees
  <2>3. Sense(heading, new) = -(Sin[270] * c)
    BY <1>5, <1>7, <2>1, <2>2
  <2>. HIDE DEF new
  <2>4. /\ Sense(heading, new) < 0 <=> c < 0
        /\ Sense(heading, new) > 0 <=> c > 0
    BY <1>5, <2>2, <2>3, Signs
  <2>5. /\ c < 0 <=> d \in 1..179
        /\ c > 0 <=> d \in 181..359
    BY <1>1, <1>3, <1>6, <2>1
  <2>. QED  BY <2>4, <2>5 DEF new
<1>10. CASE heading = 180
  <2>1. (-heading) % 360 = 180 /\ new = IF d < 180 THEN 180 + d ELSE d - 180
    BY <1>10, Opposite, SumOfDegrees DEF Degrees
  <2>2. Cos[180] < 0 /\ Sin[180] = 0 /\ Cos[180] \in Int
    BY <1>4 DEF UnitVectorSigns, Degrees
  <2>3. Sense(heading, new) = Cos[180] * s
    BY <1>5, <1>7, <2>1, <2>2
  <2>. HIDE DEF new
  <2>4. /\ Sense(heading, new) < 0 <=> s > 0
        /\ Sense(heading, new) > 0 <=> s < 0
    BY <1>5, <2>2, <2>3, Signs
  <2>5. /\ s > 0 <=> d \in 1..179
        /\ s < 0 <=> d \in 181..359
    BY <1>1, <1>3, <1>6, <2>1
  <2>. QED  BY <2>4, <2>5 DEF new
<1>11. CASE heading = 270
  <2>1. (-heading) % 360 = 90 /\ new = IF d < 90 THEN 270 + d ELSE d - 90
    BY <1>11, Opposite, SumOfDegrees DEF Degrees
  <2>2. Cos[90] = 0 /\ Sin[90] > 0 /\ Sin[90] \in Int
    BY <1>4 DEF UnitVectorSigns, Degrees
  <2>3. Sense(heading, new) = -(Sin[90] * c)
    BY <1>5, <1>7, <2>1, <2>2
  <2>. HIDE DEF new
  <2>4. /\ Sense(heading, new) < 0 <=> c > 0
        /\ Sense(heading, new) > 0 <=> c < 0
    BY <1>5, <2>2, <2>3, Signs
  <2>5. /\ c > 0 <=> d \in 1..179
        /\ c < 0 <=> d \in 181..359
    BY <1>1, <1>3, <1>6, <2>1
  <2>. QED  BY <2>4, <2>5 DEF new
<1>. QED  BY <1>1, <1>8, <1>9, <1>10, <1>11

(* Without overflow a turn is by a number of degrees. *)
LEMMA TurnedByDegrees ==
    ASSUME NEW heading \in Headings, NEW t \in {1, 255}, 255 * TurningSpeed < UintRange
    PROVE  /\ (t * TurningSpeed) % 360 \in Degrees
           /\ Turned(heading, t) = (heading + ((t * TurningSpeed) % 360)) % 360
<1>. DEFINE n == t * TurningSpeed
<1>1. n \in Nat /\ n < UintRange /\ UintRange \in Nat \ {0} /\ heading \in Nat
  BY GeometryAssumption DEF Headings
<1>2. n % UintRange = n
  <2>. HIDE DEF n
  <2>. QED  BY <1>1
<1>3. n % 360 \in Degrees /\ (heading + n) % 360 = (heading + (n % 360)) % 360
  <2>. HIDE DEF n
  <2>. QED  BY <1>1 DEF Degrees
<1>. QED  BY <1>2, <1>3 DEF Turned

-----------------------------------------------------------------------------
(* What is under way to the front end. *)

(* A piece is one of three of a command. *)
LEMMA PieceType ==
    ASSUME NEW p \in Pieces
    PROVE  p.command \in Commands /\ p.part \in 1..3
BY DEF Pieces, Gui!NewLine

(* The rest of a stream is a stream. *)
LEMMA StreamSuffix ==
    ASSUME NEW s, IsStream(s), NEW n \in 0 .. Len(s)
    PROVE  /\ IsStream(SubSeq(s, n + 1, Len(s)))
           /\ n = Len(s) => SubSeq(s, n + 1, Len(s)) = << >>
           /\ n < Len(s) => /\ SubSeq(s, n + 1, Len(s)) # << >>
                            /\ SubSeq(s, n + 1, Len(s))[1] = s[n + 1]
                            /\ SubSeq(s, n + 1, Len(s))[Len(SubSeq(s, n + 1, Len(s)))] = s[Len(s)]
           /\ Len(SubSeq(s, n + 1, Len(s))) = Len(s) - n
<1>. DEFINE m == Len(s)
            t == SubSeq(s, n + 1, m)
<1>1. s \in Seq(Pieces) /\ m \in Nat /\ n \in 0..m /\ \A k \in 1..m : s[k] \in Pieces
  BY LenProperties, ElementOfSeq DEF IsStream
<1>. HIDE DEF m
<1>2. t = SubSeq(s, n + 1, m)
  OBVIOUS
<1>. HIDE DEF t
<1>3. /\ t \in Seq(Pieces) /\ Len(t) = m - n
      /\ \A k \in 1 .. m - n : t[k] = s[n + k]
  <2>1. \A k \in n + 1 .. m : s[k] \in Pieces
    BY <1>1
  <2>. QED  BY <1>1, <1>2, <2>1, SubSeqProperties
<1>4. ASSUME NEW k \in 1 .. Len(t) - 1 PROVE Follows(t[k], t[k + 1])
  <2>1. k \in 1 .. m - n /\ k + 1 \in 1 .. m - n /\ n + k \in 1 .. m - 1 /\ n + (k + 1) = n + k + 1
    BY <1>1, <1>3
  <2>2. t[k] = s[n + k] /\ t[k + 1] = s[n + k + 1]
    BY <1>3, <2>1
  <2>. QED  BY <2>1, <2>2 DEF IsStream, m
<1>5. (n = m <=> t = << >>) /\ (t # << >> => n < m)
  <2>1. n <= m /\ (t # << >> => Len(t) \in Nat \ {0})
    BY <1>1, <1>3, EmptySeq
  <2>2. t = << >> => Len(t) = 0
    OBVIOUS
  <2>. QED  BY <1>1, <1>3, <2>1, <2>2
<1>6. ASSUME n < m
      PROVE  t[1] = s[n + 1] /\ t[Len(t)] = s[m]
  <2>1. 1 \in 1 .. m - n /\ m - n \in 1 .. m - n /\ n + (m - n) = m
    BY <1>1, <1>6
  <2>. QED  BY <1>3, <2>1
<1>7. IsStream(t)
  BY <1>3, <1>4 DEF IsStream
<1>8. (n = m => t = << >>) /\ (n < m => t # << >>)
  BY <1>1, <1>5
<1>. QED  BY <1>3, <1>6, <1>7, <1>8 DEF m, t

(* So is its beginning. *)
LEMMA StreamPrefix ==
    ASSUME NEW s, IsStream(s), NEW n \in 0 .. Len(s)
    PROVE  /\ IsStream(SubSeq(s, 1, n)) /\ Len(SubSeq(s, 1, n)) = n
           /\ n = 0 => SubSeq(s, 1, n) = << >>
           /\ n > 0 => SubSeq(s, 1, n) # << >> /\ SubSeq(s, 1, n)[1] = s[1]
<1>. DEFINE m == Len(s)
            t == SubSeq(s, 1, n)
<1>1. s \in Seq(Pieces) /\ m \in Nat /\ n \in 0..m /\ \A k \in 1..m : s[k] \in Pieces
  BY LenProperties, ElementOfSeq DEF IsStream
<1>. HIDE DEF m
<1>2. t \in Seq(Pieces) /\ Len(t) = n /\ \A k \in 1..n : t[k] = s[k]
  <2>1. \A k \in 1..n : s[k] \in Pieces
    BY <1>1
  <2>. QED  BY <1>1, <2>1, SubSeqProperties
<1>. HIDE DEF t
<1>3. ASSUME NEW k \in 1 .. Len(t) - 1 PROVE Follows(t[k], t[k + 1])
  <2>1. k \in 1..n /\ k + 1 \in 1..n /\ k \in 1 .. m - 1
    BY <1>1, <1>2
  <2>. QED  BY <1>2, <2>1 DEF IsStream, m
<1>4. IsStream(t)
  BY <1>2, <1>3 DEF IsStream
<1>5. n = 0 => t = << >>
  BY <1>2, EmptySeq
<1>6. n > 0 => t # << >> /\ t[1] = s[1]
  <2>1. n > 0 => 1 \in 1..n /\ Len(t) # 0
    BY <1>1, <1>2
  <2>. QED  BY <1>2, <2>1
<1>. QED  BY <1>2, <1>4, <1>5, <1>6 DEF t

(* A sequence with three more elements. *)
LEMMA ThreeMore ==
    ASSUME NEW S, NEW s \in Seq(S), NEW line \in Seq(S), Len(line) = 3
    PROVE  /\ s \o line \in Seq(S) /\ Len(s) \in Nat /\ Len(s \o line) = Len(s) + 3
           /\ \A k \in 1 .. Len(s) : (s \o line)[k] = s[k]
           /\ (s \o line)[Len(s) + 1] = line[1] /\ (s \o line)[Len(s) + 2] = line[2]
           /\ (s \o line)[Len(s) + 3] = line[3]
<1>. DEFINE t == s \o line
            m == Len(s)
<1>1. m \in Nat
  BY LenProperties
<1>2. /\ t \in Seq(S) /\ Len(t) = m + Len(line)
      /\ \A k \in 1 .. m + Len(line) : t[k] = IF k <= m THEN s[k] ELSE line[k - m]
  BY ConcatProperties, Zenon
<1>. HIDE DEF t, m
<1>3. \A k \in 1..m : k \in 1 .. m + 3 /\ k <= m
  BY <1>1
<1>4. /\ m + 1 \in 1 .. m + 3 /\ ~(m + 1 <= m) /\ (m + 1) - m = 1
      /\ m + 2 \in 1 .. m + 3 /\ ~(m + 2 <= m) /\ (m + 2) - m = 2
      /\ m + 3 \in 1 .. m + 3 /\ ~(m + 3 <= m) /\ (m + 3) - m = 3
  BY <1>1
<1>5. /\ \A k \in 1..m : t[k] = s[k]
      /\ t[m + 1] = line[1] /\ t[m + 2] = line[2] /\ t[m + 3] = line[3]
  BY <1>2, <1>3, <1>4, Zenon
<1>6. t \in Seq(S) /\ m \in Nat /\ Len(t) = m + 3
  BY <1>1, <1>2
<1>. QED  BY <1>5, <1>6 DEF t, m

(* A stream with one more line is a stream, if the line may follow. *)
LEMMA StreamExtended ==
    ASSUME NEW s, IsStream(s), NEW command \in Commands,
           s # << >> => /\ s[Len(s)].part = Gui!NewLine
                        /\ command.type = "NEW_GAME" \/ command.game = s[Len(s)].command.game
    PROVE  /\ IsStream(s \o Gui!CommandLine(command))
           /\ Len(s \o Gui!CommandLine(command)) = Len(s) + 3
           /\ (s \o Gui!CommandLine(command))[Len(s) + 3].command = command
           /\ (s \o Gui!CommandLine(command))[Len(s) + 3].part = Gui!NewLine
           /\ (s \o Gui!CommandLine(command))[1] =
                 IF s = << >> THEN [command |-> command, part |-> 1] ELSE s[1]
<1>. DEFINE line == Gui!CommandLine(command)
            m == Len(s)
            t == s \o line
<1>1. s \in Seq(Pieces) /\ m \in Nat
  BY LenProperties DEF IsStream
<1>2. line = [part \in 1..3 |-> [command |-> command, part |-> part]]
  BY DEF Gui!CommandLine, Gui!NewLine
<1>3. line \in Seq(Pieces) /\ Len(line) = 3
  <2>1. \A part \in 1..3 : [command |-> command, part |-> part] \in Pieces
    BY DEF Pieces, Gui!NewLine
  <2>. QED  BY <1>2, <2>1
<1>4. \A part \in 1..3 : line[part].command = command /\ line[part].part = part
  BY <1>2
<1>5. line[1] = [command |-> command, part |-> 1]
  BY <1>2
<1>. HIDE DEF line
<1>6. /\ t \in Seq(Pieces) /\ Len(t) = m + 3
      /\ \A k \in 1..m : t[k] = s[k]
      /\ t[m + 1] = line[1] /\ t[m + 2] = line[2] /\ t[m + 3] = line[3]
  <2>1. /\ s \o line \in Seq(Pieces) /\ Len(s \o line) = Len(s) + 3
        /\ \A k \in 1 .. Len(s) : (s \o line)[k] = s[k]
        /\ (s \o line)[Len(s) + 1] = line[1] /\ (s \o line)[Len(s) + 2] = line[2]
        /\ (s \o line)[Len(s) + 3] = line[3]
    BY ONLY <1>1, <1>3, ThreeMore
  <2>. QED  BY <2>1, Zenon
<1>7. m = Len(s)
  OBVIOUS
<1>. HIDE DEF t, m
<1>8. ASSUME NEW k \in 1 .. Len(t) - 1 PROVE Follows(t[k], t[k + 1])
  <2>1. CASE k < m
    <3>1. k \in 1..m /\ k + 1 \in 1..m /\ k \in 1 .. m - 1
      BY <1>1, <1>6, <2>1
    <3>. QED  BY <1>6, <1>7, <3>1 DEF IsStream
  <2>2. CASE k = m
    <3>1. s # << >> /\ k \in 1..m
      BY <1>1, <1>6, <1>7, <2>2, EmptySeq
    <3>2. s[m].part = Gui!NewLine /\ t[k] = s[m] /\ t[k + 1] = line[1]
      BY <1>6, <1>7, <2>2, <3>1
    <3>. QED  BY <1>4, <1>7, <3>1, <3>2 DEF Follows, IsNewGame
  <2>3. CASE k = m + 1
    <3>1. t[k] = line[1] /\ t[k + 1] = line[2]
      BY <1>1, <1>6, <2>3
    <3>. QED  BY <1>4, <3>1 DEF Follows, Gui!NewLine
  <2>4. CASE k = m + 2
    <3>1. t[k] = line[2] /\ t[k + 1] = line[3]
      BY <1>1, <1>6, <2>4
    <3>. QED  BY <1>4, <3>1 DEF Follows, Gui!NewLine
  <2>. QED  BY <1>1, <1>6, <2>1, <2>2, <2>3, <2>4
<1>9. t[m + 3].part = Gui!NewLine /\ t[m + 3].command = command
  BY <1>4, <1>6 DEF Gui!NewLine
<1>10. t[1] = IF s = << >> THEN [command |-> command, part |-> 1] ELSE s[1]
  <2>1. CASE s = << >>
    <3>1. m = 0
      BY <1>7, <2>1
    <3>. QED  BY <1>5, <1>6, <2>1, <3>1
  <2>2. CASE s # << >>
    <3>1. 1 \in 1..m
      BY <1>1, <1>7, <2>2, EmptySeq
    <3>. QED  BY <1>6, <2>2, <3>1
  <2>. QED  BY <2>1, <2>2
<1>11. IsStream(t)
  BY <1>6, <1>8 DEF IsStream
<1>. QED  BY <1>6, <1>9, <1>10, <1>11 DEF t, m, line

(* What is read of a line: the pieces of one command. *)
LEMMA WithinALine ==
    ASSUME NEW s, IsStream(s), NEW n \in 1 .. Len(s), \A j \in 1 .. n - 1 : s[j].part # Gui!NewLine
    PROVE  /\ n <= 3 /\ s[n].command = s[1].command /\ s[n].part = s[1].part + n - 1
           /\ \A j \in 2..n : s[j].part # 1
<1>1. s \in Seq(Pieces) /\ Len(s) \in Nat
  BY LenProperties DEF IsStream
<1>2. \A k \in 1 .. Len(s) : s[k].part \in 1..3
  <2>1. \A k \in 1 .. Len(s) : s[k] \in Pieces
    BY <1>1, ElementOfSeq
  <2>. QED  BY <2>1, PieceType
<1>3. \A k \in 1 .. n - 1 : s[k + 1].part = s[k].part + 1 /\ s[k + 1].command = s[k].command
  <2>1. \A k \in 1 .. n - 1 : k \in 1 .. Len(s) - 1
    BY <1>1
  <2>. QED  BY <2>1 DEF IsStream, Follows
<1>4. n >= 2 => s[2].part = s[1].part + 1 /\ s[2].command = s[1].command
  <2>1. n >= 2 => 1 \in 1 .. n - 1 /\ 1 + 1 = 2
    BY <1>1
  <2>. QED  BY <1>3, <2>1
<1>5. n >= 3 => s[3].part = s[2].part + 1 /\ s[3].command = s[2].command
  <2>1. n >= 3 => 2 \in 1 .. n - 1 /\ 2 + 1 = 3
    BY <1>1
  <2>. QED  BY <1>3, <2>1
<1>6. n <= 3
  <2>1. SUFFICES ASSUME n >= 4 PROVE FALSE
    BY <1>1
  <2>2. s[3].part # 3 /\ s[1].part \in 1..3 /\ s[3].part \in 1..3
    <3>1. 3 \in 1 .. n - 1 /\ 3 \in 1 .. Len(s) /\ 1 \in 1 .. Len(s)
      BY <1>1, <2>1
    <3>. QED  BY <1>2, <3>1 DEF Gui!NewLine
  <2>. QED  BY <1>4, <1>5, <2>1, <2>2
<1>7. n = 1 \/ n = 2 \/ n = 3
  BY <1>1, <1>6
<1>8. s[1].part \in 1..3
  <2>1. 1 \in 1 .. Len(s)
    BY <1>1
  <2>. QED  BY <1>2, <2>1
<1>9. \A j \in 2..n : s[j].part # 1
  <2>1. SUFFICES ASSUME NEW j \in 2..n PROVE s[j].part # 1
    OBVIOUS
  <2>2. j = 2 \/ j = 3
    BY <1>7
  <2>. QED  BY <1>4, <1>5, <1>7, <1>8, <2>2
<1>. QED  BY <1>4, <1>5, <1>7, <1>8, <1>9

(* readLine takes the pieces up to the first newline, or all there are.    *)
LEMMA LineIsTaken ==
    ASSUME StreamInv, Unread # << >>, NEW n, n = Gui!LineTaken(Unread)
    PROVE  /\ n \in 1 .. arrived /\ n \in 1 .. Len(commands)
           /\ \A j \in 1 .. n - 1 : commands[j].part # Gui!NewLine
           /\ IF Gui!Newlines(Unread) # {} THEN commands[n].part = Gui!NewLine
              ELSE n = arrived /\ (clientEnded \/ n < Len(commands))
           /\ Len(SubSeq(Unread, 1, n)) = n /\ DOMAIN SubSeq(Unread, 1, n) = 1..n
           /\ \A k \in 1..n : SubSeq(Unread, 1, n)[k] = commands[k]
<1>. DEFINE u == Unread
            m == Len(commands)
            ends == Gui!Newlines(u)
<1>1. /\ commands \in Seq(Pieces) /\ m \in Nat /\ arrived \in 0..m
      /\ \A k \in 1..m : commands[k] \in Pieces
  <2>1. commands \in Seq(Pieces) /\ m \in Nat /\ \A k \in 1..m : commands[k] \in Pieces
    BY LenProperties, ElementOfSeq DEF StreamInv, IsStream
  <2>. QED  BY <2>1 DEF StreamInv
<1>2. /\ u \in Seq(Pieces) /\ Len(u) = arrived /\ DOMAIN u = 1 .. arrived
      /\ \A k \in 1 .. arrived : u[k] = commands[k]
  <2>. HIDE DEF m
  <2>1. \A k \in 1 .. arrived : commands[k] \in Pieces
    BY <1>1
  <2>2. /\ u \in Seq(Pieces) /\ Len(u) = arrived
        /\ \A k \in 1 .. arrived : u[k] = commands[k]
    BY <1>1, <2>1, SubSeqProperties DEF Unread
  <2>. HIDE DEF u
  <2>. QED  BY <2>2, LenProperties
<1>3. arrived >= 1
  BY <1>1, <1>2, EmptySeq
<1>4. ends = {k \in 1 .. arrived : commands[k].part = Gui!NewLine}
  <2>. HIDE DEF u
  <2>. QED  BY <1>2 DEF Gui!Newlines
<1>5. n \in 1 .. arrived /\ \A j \in 1 .. n - 1 : j \notin ends
  <2>1. CASE ends = {}
    <3>1. n = arrived
      BY <1>2, <2>1 DEF Gui!LineTaken
    <3>. QED  BY <1>1, <1>3, <2>1, <3>1
  <2>2. CASE ends # {}
    <3>1. ends \subseteq Nat
      BY <1>1, <1>4
    <3>2. n = CHOOSE k \in ends : \A j \in ends : k <= j
      BY <2>2 DEF Gui!LineTaken
    <3>. HIDE DEF ends
    <3>3. \E k \in ends : \A j \in ends : k <= j
      BY <2>2, <3>1, LeastNumber
    <3>4. n \in ends /\ \A j \in ends : n <= j
      BY <3>2, <3>3
    <3>. QED  BY <1>1, <1>4, <3>4
  <2>. QED  BY <2>1, <2>2
<1>6. \A j \in 1 .. n - 1 : commands[j].part # Gui!NewLine
  <2>1. \A j \in 1 .. n - 1 : j \in 1 .. arrived
    BY <1>1, <1>5
  <2>. HIDE DEF ends
  <2>. QED  BY <1>4, <1>5, <2>1
<1>7. n \in 1..m
  BY <1>1, <1>5
<1>8. ASSUME ends # {} PROVE commands[n].part = Gui!NewLine
  <2>1. ends \subseteq Nat
    BY <1>1, <1>4
  <2>2. n = CHOOSE k \in ends : \A j \in ends : k <= j
    BY <1>8 DEF Gui!LineTaken
  <2>. HIDE DEF ends
  <2>3. \E k \in ends : \A j \in ends : k <= j
    BY <1>8, <2>1, LeastNumber
  <2>4. n \in ends
    BY <2>2, <2>3
  <2>. QED  BY <1>4, <2>4
<1>9. ASSUME ends = {} PROVE n = arrived /\ (clientEnded \/ n < m)
  <2>1. n = arrived
    BY <1>2, <1>9 DEF Gui!LineTaken
  <2>2. commands[arrived].part # Gui!NewLine
    <3>. HIDE DEF ends
    <3>. QED  BY <1>1, <1>3, <1>4, <1>9
  <2>3. clientEnded \/ commands[m].part = Gui!NewLine
    <3>1. commands # << >>
      BY <1>1, <1>3
    <3>. QED  BY <3>1 DEF StreamInv
  <2>. QED  BY <1>1, <2>1, <2>2, <2>3
<1>10. /\ Len(SubSeq(u, 1, n)) = n /\ DOMAIN SubSeq(u, 1, n) = 1..n
       /\ \A k \in 1..n : SubSeq(u, 1, n)[k] = commands[k]
  <2>. HIDE DEF u
  <2>1. \A k \in 1..n : u[k] \in Pieces /\ k \in 1 .. arrived
    BY <1>1, <1>2, <1>5, ElementOfSeq
  <2>2. /\ SubSeq(u, 1, n) \in Seq(Pieces) /\ Len(SubSeq(u, 1, n)) = n
        /\ \A k \in 1..n : SubSeq(u, 1, n)[k] = u[k]
    BY <1>1, <1>5, <2>1, SubSeqProperties
  <2>. QED  BY <1>2, <2>1, <2>2, LenProperties
<1>. QED  BY <1>5, <1>6, <1>7, <1>8, <1>9, <1>10

(* What comes after the line that is read. *)
LEMMA AfterTheLine ==
    ASSUME StreamInv, Unread # << >>, NEW n, n = Gui!LineTaken(Unread)
    PROVE  /\ n < Len(commands) => \/ IsNewGame(commands[n + 1])
                                   \/ commands[n + 1].command.game = commands[1].command.game
           /\ (n = Len(commands) /\ ~clientEnded) => commands[1].command.game = game
           /\ (Gui!Newlines(Unread) # {} /\ commands[1].part = 1) => n = 3
<1>1. /\ n \in 1 .. Len(commands) /\ Len(commands) \in Nat
      /\ \A j \in 1 .. n - 1 : commands[j].part # Gui!NewLine
      /\ Gui!Newlines(Unread) # {} => commands[n].part = Gui!NewLine
  BY LineIsTaken, LenProperties DEF StreamInv, IsStream
<1>2. /\ n <= 3 /\ commands[n].command = commands[1].command
      /\ commands[n].part = commands[1].part + n - 1
  BY <1>1, WithinALine DEF StreamInv
<1>3. n < Len(commands) => Follows(commands[n], commands[n + 1])
  <2>1. n < Len(commands) => n \in 1 .. Len(commands) - 1
    BY <1>1
  <2>. QED  BY <2>1 DEF StreamInv, IsStream
<1>4. (n = Len(commands) /\ ~clientEnded) => commands[1].command.game = game
  <2>1. commands # << >>
    BY <1>1
  <2>. QED  BY <1>2, <2>1 DEF StreamInv
<1>5. ASSUME Gui!Newlines(Unread) # {}, commands[1].part = 1 PROVE n = 3
  <2>1. commands[n].part = 3
    BY <1>1, <1>5 DEF Gui!NewLine
  <2>. QED  BY <1>1, <1>2, <1>5, <2>1
<1>6. n < Len(commands) => \/ IsNewGame(commands[n + 1])
                           \/ commands[n + 1].command.game = commands[1].command.game
  BY <1>2, <1>3 DEF Follows
<1>. QED  BY <1>4, <1>5, <1>6

(* The line is gone, and the stream is one again. *)
LEMMA StreamAfterTheLine ==
    ASSUME StreamInv, NEW n \in 1 .. arrived, n \in 1 .. Len(commands),
           commands' = SubSeq(commands, n + 1, Len(commands)),
           copied' = copied - n, arrived' = arrived - n, UNCHANGED <<game, clientEnded>>
    PROVE  /\ StreamInv'
           /\ commands' = << >> <=> n = Len(commands)
           /\ n < Len(commands) => commands'[1] = commands[n + 1]
<1>1. Len(commands) \in Nat /\ n \in 0 .. Len(commands) /\ commands # << >>
        /\ copied \in 0 .. Len(commands) /\ arrived \in 0 .. copied /\ IsStream(commands)
  BY LenProperties DEF StreamInv, IsStream
<1>3. /\ IsStream(commands') /\ Len(commands') = Len(commands) - n
      /\ n = Len(commands) => commands' = << >>
      /\ n < Len(commands) => /\ commands' # << >> /\ commands'[1] = commands[n + 1]
                              /\ commands'[Len(commands')] = commands[Len(commands)]
  BY <1>1, StreamSuffix, Zenon
<1>4. IsStream(commands)'
  BY <1>3 DEF IsStream, Follows, IsNewGame, Gui!NewLine, Pieces, Commands, CommandsAbout
<1>5. /\ copied' \in 0 .. Len(commands') /\ arrived' \in 0 .. copied'
      /\ clientEnded' => copied' = Len(commands')
  <2>1. clientEnded => copied = Len(commands)
    BY DEF StreamInv
  <2>. QED  BY <1>1, <1>3, <2>1
<1>6. (~clientEnded' /\ commands' # << >>) =>
         /\ commands'[Len(commands')].part = Gui!NewLine
         /\ commands'[Len(commands')].command.game = game'
  <2>1. commands' # << >> => n < Len(commands)
    BY <1>1, <1>3
  <2>. QED  BY <1>1, <1>3, <2>1 DEF StreamInv
<1>7. game' \in Nat /\ clientEnded' \in BOOLEAN
  BY DEF StreamInv
<1>8. commands' = << >> <=> n = Len(commands)
  <2>1. n = Len(commands) \/ n < Len(commands)
    BY <1>1
  <2>. QED  BY <1>3, <2>1
<1>. QED  BY <1>3, <1>4, <1>5, <1>6, <1>7, <1>8 DEF StreamInv

(* The table fits what comes next, if it was that of the line or a         *)
(* NEW_GAME is known to be missed.                                         *)
LEMMA PictureAfterTheLine ==
    ASSUME StreamInv, PictureInv, Unread # << >>, NEW n, n = Gui!LineTaken(Unread),
           commands' = SubSeq(commands, n + 1, Len(commands)),
           copied' = copied - n, arrived' = arrived - n, UNCHANGED <<game, clientEnded>>,
           open, open', missed' \in BOOLEAN,
           \/ clientEnded /\ n = Len(commands)
           \/ table' = commands[1].command.game
           \/ table' = table /\ (~missed' => ~missed /\ ~IsNewGame(commands[1]))
    PROVE  StreamInv' /\ PictureInv'
<1>1. n \in 1 .. arrived /\ n \in 1 .. Len(commands) /\ Len(commands) \in Nat
  BY LineIsTaken, LenProperties DEF StreamInv, IsStream
<1>2. /\ StreamInv'
      /\ commands' = << >> <=> n = Len(commands)
      /\ n < Len(commands) => commands'[1] = commands[n + 1]
  BY <1>1, StreamAfterTheLine
<1>3. ASSUME ~missed'
      PROVE  (clientEnded /\ n = Len(commands)) \/ table' = commands[1].command.game
  <2>1. commands # << >>
    BY <1>1
  <2>. QED  BY <1>3, <2>1 DEF PictureInv
<1>4. ASSUME ~missed'
      PROVE  IF commands' = << >> THEN clientEnded' \/ table' = game'
             ELSE IsNewGame(commands'[1]) \/ commands'[1].command.game = table'
  <2>1. CASE n = Len(commands)
    BY <1>2, <1>3, <1>4, <2>1, AfterTheLine
  <2>2. CASE n < Len(commands)
    BY <1>2, <1>3, <1>4, <2>2, AfterTheLine
  <2>. QED  BY <1>1, <2>1, <2>2
<1>5. \A p : IsNewGame(p)' <=> IsNewGame(p)
  BY DEF IsNewGame
<1>. QED  BY <1>2, <1>4 DEF PictureInv, IsNewGame

(* A front end that ends leaves nothing behind. *)
LEMMA ScreenClosed ==
    ASSUME ScreenInv, Gui!Ends, NEW unread, Closing(unread), UNCHANGED <<game, clientEnded>>
    PROVE  ScreenInv'
<1>1. /\ open' = FALSE /\ field' = {} /\ missed' = FALSE /\ cut' = {}
      /\ commands' = << >> /\ copied' = 0 /\ arrived' = 0 /\ connection' # "open"
  BY DEF Gui!Ends, Closing
<1>2. StreamInv'
  BY <1>1 DEF ScreenInv, StreamInv, IsStream
<1>3. PictureInv'
  BY <1>1 DEF PictureInv
<1>. QED  BY <1>1, <1>2, <1>3 DEF ScreenInv, ExecutesWholeLines, FieldHoldsOneGame

(***************************************************************************)
(* A line is carried out whole; the rest of one only if it is a NEW_GAME   *)
(* of impostors; the beginning of one only if it is the last that comes.   *)
(***************************************************************************)
LEMMA CommandKeepsScreen ==
    ASSUME StreamInv, PictureInv, FieldHoldsOneGame, open, Unread # << >>,
           NEW n, n = Gui!LineTaken(Unread), NEW got, got = SubSeq(Unread, 1, n),
           Gui!Newlines(Unread) # {} \/ (clientEnded /\ n = Len(commands)),
           Gui!IsCommand(got) \/ Gui!IsImpostor(got), Gui!Execute(Gui!Understood(got)),
           cut' = IF Len(got) = Gui!NewLine THEN {} ELSE {got[1]},
           clientEnded' = clientEnded, n = Len(commands) => commands' = << >>
    PROVE  /\ open' = open /\ missed' \in BOOLEAN
           /\ \/ table' = commands[1].command.game
              \/ table' = table /\ (~missed' => ~missed /\ ~IsNewGame(commands[1]))
           /\ ExecutesWholeLines' /\ FieldHoldsOneGame'
<1>. DEFINE c == Gui!Understood(got)
<1>1. /\ n \in 1 .. Len(commands) /\ 1 \in 1..n /\ Len(got) = n /\ got[1] = commands[1]
      /\ (Gui!Newlines(Unread) # {} /\ commands[1].part = 1) => n = 3
  <2>1. /\ n \in 1 .. arrived /\ n \in 1 .. Len(commands) /\ Len(got) = n
        /\ \A k \in 1..n : got[k] = commands[k]
    BY LineIsTaken
  <2>2. 1 \in 1..n
    <3>1. arrived \in Nat /\ n >= 1 /\ n \in Nat
      BY <2>1, LenProperties DEF StreamInv, IsStream
    <3>. QED  BY <3>1
  <2>3. (Gui!Newlines(Unread) # {} /\ commands[1].part = 1) => n = 3
    BY AfterTheLine
  <2>. QED  BY <2>1, <2>2, <2>3
<1>2. /\ missed \in BOOLEAN
      /\ (~missed /\ ~IsNewGame(commands[1])) => commands[1].command.game = table
  <2>1. commands # << >>
    BY <1>1
  <2>. QED  BY <2>1 DEF PictureInv
<1>3. CASE Gui!IsCommand(got)
  <2>1. commands[1].part = 1 /\ c.type = commands[1].command.type /\ c.game = commands[1].command.game
    BY <1>1, <1>3 DEF Gui!IsCommand, Gui!Understood
  <2>2. ExecutesWholeLines'
    <3>1. CASE n = 3
      <4>1. cut' = {}
        BY <1>1, <3>1 DEF Gui!NewLine
      <4>. QED  BY <4>1 DEF ExecutesWholeLines
    <3>2. CASE n # 3
      <4>1. clientEnded' /\ commands' = << >>
        BY <1>1, <2>1, <3>2
      <4>2. cut' \subseteq {commands[1]}
        BY <1>1
      <4>. QED  BY <2>1, <4>1, <4>2 DEF ExecutesWholeLines
    <3>. QED  BY <3>1, <3>2
  <2>. HIDE DEF c
  <2>3. CASE c.type = "NEW_GAME" /\ Gui!NewGame(c)
    <3>1. table' = c.game /\ missed' = FALSE /\ resizing' # "no" /\ open' = open
      BY <2>3 DEF Gui!NewGame, Gui!Resized
    <3>2. FieldHoldsOneGame'
      BY <3>1 DEF FieldHoldsOneGame
    <3>. QED  BY <2>1, <2>2, <3>1, <3>2
  <2>4. CASE c.type = "PIXEL" /\ Gui!Pixel(c)
    <3>1. /\ UNCHANGED <<open, table, missed, resizing>> /\ ~IsNewGame(commands[1])
          /\ field' \subseteq field \cup {commands[1].command.game}
      BY <2>1, <2>4 DEF Gui!Pixel, IsNewGame
    <3>2. FieldHoldsOneGame'
      BY <1>2, <3>1 DEF FieldHoldsOneGame
    <3>. QED  BY <1>2, <2>2, <3>1, <3>2
  <2>5. CASE c.type = "PLAYER_ELIMINATED" /\ UNCHANGED <<open, Gui!screen, missed>>
    <3>1. UNCHANGED <<open, table, missed, resizing, field>> /\ ~IsNewGame(commands[1])
      BY <2>1, <2>5 DEF Gui!screen, IsNewGame
    <3>2. FieldHoldsOneGame'
      BY <3>1 DEF FieldHoldsOneGame
    <3>. QED  BY <1>2, <2>2, <3>1, <3>2
  <2>. QED  BY <2>3, <2>4, <2>5 DEF Gui!Execute, c
<1>4. CASE ~Gui!IsCommand(got) /\ Gui!IsImpostor(got)
  <2>1. /\ commands[1].part = 2 /\ commands[1].command.type = "NEW_GAME"
        /\ commands[1].command.game \in Impostors /\ c.type = "PLAYER_ELIMINATED"
    BY <1>1, <1>4 DEF Gui!IsImpostor, Gui!Understood
  <2>2. UNCHANGED <<open, table, missed, resizing, field>> /\ ~IsNewGame(commands[1])
    <3>. HIDE DEF c
    <3>1. UNCHANGED <<open, Gui!screen, missed>>
      BY <2>1 DEF Gui!Execute, c
    <3>. QED  BY <2>1, <3>1 DEF Gui!screen, IsNewGame
  <2>3. ExecutesWholeLines'
    <3>1. cut' \subseteq {commands[1]}
      BY <1>1
    <3>. QED  BY <2>1, <3>1 DEF ExecutesWholeLines
  <2>4. FieldHoldsOneGame'
    BY <2>2 DEF FieldHoldsOneGame
  <2>. QED  BY <1>2, <2>2, <2>3, <2>4
<1>. QED  BY <1>3, <1>4

(* Reading keeps the invariant of the screen, whatever part of a line has  *)
(* arrived.                                                                *)
LEMMA ReadLineKeepsScreenInv ==
    ASSUME ScreenInv, ReadLine
    PROVE  ScreenInv'
<1>. DEFINE n == Gui!LineTaken(Unread)
            got == SubSeq(Unread, 1, n)
            new == Gui!Newlines(Unread)
<1>1. /\ StreamInv /\ PictureInv /\ ExecutesWholeLines /\ FieldHoldsOneGame
      /\ game' = game /\ clientEnded' = clientEnded
  BY DEF ScreenInv, ReadLine, keys
<1>2. CASE Gui!ReadEnd /\ Closing(Unread)
  BY <1>1, <1>2, ScreenClosed DEF Gui!ReadEnd
<1>3. ASSUME NEW ended \in StreamEnds, Gui!IdleCallback(Unread, ended),
             \/ /\ open'
                /\ commands' = SubSeq(commands, n + 1, Len(commands))
                /\ copied' = copied - n /\ arrived' = arrived - n
                /\ UNCHANGED connection
             \/ ~open' /\ Closing(SubSeq(Unread, n + 1, arrived))
      PROVE  ScreenInv'
  <2>1. open /\ Unread # << >>
    BY <1>3 DEF Gui!IdleCallback, Gui!IsIdle
  <2>2. /\ n \in 1 .. arrived /\ n \in 1 .. Len(commands) /\ 1 \in 1..n
        /\ new = {} => n = arrived
        /\ Len(got) = n /\ DOMAIN got = 1..n /\ got[1] = commands[1]
    <3>1. /\ n \in 1 .. arrived /\ n \in 1 .. Len(commands)
          /\ new = {} => n = arrived
          /\ Len(got) = n /\ DOMAIN got = 1..n /\ \A k \in 1..n : got[k] = commands[k]
      BY <1>1, <2>1, LineIsTaken
    <3>2. arrived \in Nat
      BY <1>1, LenProperties DEF StreamInv, IsStream
    <3>. HIDE DEF n, got, new
    <3>3. 1 \in 1..n
      BY <3>1, <3>2
    <3>. QED  BY <3>1, <3>3
  <2>3. (new # {} /\ commands[1].part = 1) => n = 3
    BY <1>1, <2>1, AfterTheLine
  <2>4. CASE Gui!Ends
    <3>1. Closing(SubSeq(Unread, n + 1, arrived))
      BY <1>3, <2>4 DEF Gui!Ends
    <3>. QED  BY <1>1, <2>4, <3>1, ScreenClosed
  <2>5. open' => /\ commands' = SubSeq(commands, n + 1, Len(commands))
                 /\ copied' = copied - n /\ arrived' = arrived - n
    BY <1>3
  <2>6. ASSUME open', missed' \in BOOLEAN, ExecutesWholeLines', FieldHoldsOneGame',
               \/ clientEnded /\ n = Len(commands)
               \/ table' = commands[1].command.game
               \/ table' = table /\ (~missed' => ~missed /\ ~IsNewGame(commands[1]))
        PROVE  ScreenInv'
    <3>1. StreamInv' /\ PictureInv'
      BY <1>1, <2>1, <2>5, <2>6, PictureAfterTheLine
    <3>. QED  BY <2>6, <3>1 DEF ScreenInv
  <2>7. (open' /\ n = Len(commands)) => commands' = << >>
    <3>1. SUFFICES ASSUME open', n = Len(commands) PROVE commands' = << >>
      OBVIOUS
    <3>2. StreamInv' /\ (commands' = << >> <=> n = Len(commands))
      BY <1>1, <2>2, <2>5, <3>1, StreamAfterTheLine
    <3>. QED  BY <3>1, <3>2
  <2>8. missed \in BOOLEAN
    BY <1>1 DEF PictureInv
  <2>9. (new = {} /\ ended = "finished") => clientEnded /\ n = Len(commands)
    BY <1>1, <2>2 DEF StreamEnds, StreamInv
  <2>10. CASE Gui!ProcessCommand(got) /\ (new # {} \/ (clientEnded /\ n = Len(commands)))
    <3>1. CASE /\ Gui!IsCommand(got) \/ Gui!IsImpostor(got)
               /\ Gui!Execute(Gui!Understood(got))
               /\ cut' = IF Len(got) = Gui!NewLine THEN {} ELSE {got[1]}
      <4>1. open' = open
        <5>. DEFINE c == Gui!Understood(got)
        <5>. HIDE DEF c
        <5>1. Gui!Execute(c)
          BY <3>1 DEF c
        <5>. QED  BY <5>1 DEF Gui!Execute, Gui!NewGame, Gui!Pixel
      <4>2. n = Len(commands) => commands' = << >>
        BY <2>1, <2>7, <4>1
      <4>3. /\ open' = open /\ missed' \in BOOLEAN
            /\ \/ table' = commands[1].command.game
               \/ table' = table /\ (~missed' => ~missed /\ ~IsNewGame(commands[1]))
            /\ ExecutesWholeLines' /\ FieldHoldsOneGame'
        BY <1>1, <2>1, <2>10, <3>1, <4>2, CommandKeepsScreen
      <4>. QED  BY <2>1, <2>6, <4>3
    <3>2. CASE /\ Len(got) # Gui!NewLine /\ got[1].part # Gui!NewLine
               /\ cut' = {} /\ UNCHANGED <<open, started, held, Gui!screen, missed>>
      <4>1. UNCHANGED <<open, table, missed, resizing, field>>
        BY <3>2 DEF Gui!screen
      <4>2. ExecutesWholeLines' /\ FieldHoldsOneGame'
        BY <1>1, <3>2, <4>1 DEF ExecutesWholeLines, FieldHoldsOneGame
      <4>3. new # {} => ~IsNewGame(commands[1])
        BY <2>2, <2>3, <3>2 DEF IsNewGame, Gui!NewLine
      <4>. HIDE DEF n, got, new
      <4>. QED  BY <2>1, <2>6, <2>8, <2>10, <4>1, <4>2, <4>3
    <3>. QED  BY <2>4, <2>10, <3>1, <3>2 DEF Gui!ProcessCommand
  <2>11. CASE Gui!Forget(got)
    <3>1. missed' \in BOOLEAN /\ (~missed' => ~missed /\ ~IsNewGame(commands[1]))
      <4>1. 1 \in DOMAIN got
        BY <2>2
      <4>. HIDE DEF n, got, new
      <4>. QED  BY <2>2, <2>8, <2>11, <4>1 DEF Gui!Forget, IsNewGame
    <3>2. UNCHANGED <<open, table, resizing, field>> /\ cut' = {}
      BY <2>11 DEF Gui!Forget, Gui!screen
    <3>3. ExecutesWholeLines' /\ FieldHoldsOneGame'
      BY <1>1, <3>1, <3>2 DEF ExecutesWholeLines, FieldHoldsOneGame
    <3>. HIDE DEF n, got, new
    <3>. QED  BY <2>1, <2>6, <3>1, <3>2, <3>3
  <2>. QED  BY <1>3, <2>4, <2>9, <2>10, <2>11 DEF Gui!IdleCallback
<1>. QED  BY <1>2, <1>3 DEF ReadLine

(* It holds at the beginning, ... *)
LEMMA ScreenInvInit == Init => ScreenInv
<1>. SUFFICES ASSUME Init PROVE ScreenInv
  OBVIOUS
<1>1. /\ open = TRUE /\ table = 0 /\ field = {} /\ missed = FALSE /\ cut = {}
      /\ commands = << >> /\ copied = 0 /\ arrived = 0 /\ game = 0 /\ clientEnded = FALSE
  BY DEF Init, Gui!FrontEndInit, Keys!KeysInit
<1>2. << >> \in Seq(Pieces) /\ Len(<< >>) = 0
  OBVIOUS
<1>3. StreamInv
  <2>1. IsStream(commands) /\ Len(commands) = 0
    BY <1>1, <1>2 DEF IsStream
  <2>2. copied \in 0 .. Len(commands) /\ arrived \in 0 .. copied /\ game \in Nat
    BY <1>1, <2>1
  <2>. QED  BY <1>1, <2>1, <2>2 DEF StreamInv
<1>. QED  BY <1>1, <1>3 DEF ScreenInv, PictureInv, ExecutesWholeLines, FieldHoldsOneGame

(* ... a step that is about neither the commands nor the screen keeps it,  *)
(* ...                                                                     *)
LEMMA ScreenKept ==
    ASSUME ScreenInv,
           UNCHANGED <<clientEnded, commands, game, open, table, field, resizing, missed, cut>>,
           copied' \in 0 .. Len(commands), clientEnded => copied' = copied,
           arrived' \in 0 .. copied', connection' = connection \/ connection' # "open"
    PROVE  ScreenInv'
<1>1. StreamInv'
  BY DEF ScreenInv, StreamInv, IsStream
<1>2. PictureInv'
  BY DEF ScreenInv, PictureInv, IsNewGame
<1>. QED  BY <1>1, <1>2 DEF ScreenInv, ExecutesWholeLines, FieldHoldsOneGame

(* ... a client that ends does, though its last line may be cut short, ... *)
LEMMA ClientEndKeepsScreenInv ==
    ASSUME ScreenInv, EndsSending, clientEnded' = TRUE,
           UNCHANGED <<game, connection, open, table, field, resizing, missed, cut>>
    PROVE  ScreenInv'
<1>1. /\ StreamInv /\ PictureInv /\ ExecutesWholeLines /\ FieldHoldsOneGame
      /\ IsStream(commands) /\ copied \in 0 .. Len(commands) /\ Len(commands) \in Nat
      /\ commands' = SubSeq(commands, 1, copied) /\ copied' = copied /\ arrived' = arrived
  BY LenProperties DEF ScreenInv, StreamInv, IsStream, EndsSending
<1>2. /\ IsStream(commands') /\ Len(commands') = copied
      /\ copied = 0 => commands' = << >>
      /\ copied > 0 => commands' # << >> /\ commands'[1] = commands[1]
  BY <1>1, StreamPrefix
<1>3. commands = << >> => commands' = << >>
  BY <1>1, <1>2
<1>4. commands' # << >> => commands # << >> /\ commands'[1] = commands[1]
  BY <1>1, <1>2, <1>3
<1>5. StreamInv'
  <2>1. IsStream(commands)'
    BY <1>2 DEF IsStream, Follows, IsNewGame, Gui!NewLine, Pieces, Commands, CommandsAbout
  <2>2. /\ copied' \in 0 .. Len(commands') /\ arrived' \in 0 .. copied' /\ game' \in Nat
        /\ copied' = Len(commands')
    BY <1>1, <1>2 DEF StreamInv
  <2>. QED  BY <2>1, <2>2 DEF StreamInv
<1>6. PictureInv'
  BY <1>1, <1>3, <1>4 DEF PictureInv, IsNewGame
<1>7. ExecutesWholeLines' /\ FieldHoldsOneGame'
  BY <1>1, <1>3 DEF ExecutesWholeLines, FieldHoldsOneGame
<1>. QED  BY <1>5, <1>6, <1>7 DEF ScreenInv

(* ... a command that is sent does, ... *)
LEMMA TellKeepsScreenInv ==
    ASSUME ScreenInv, Tell
    PROVE  ScreenInv'
<1>1. StreamInv /\ PictureInv /\ ~clientEnded
        /\ UNCHANGED <<open, table, field, resizing, missed, cut>>
  BY DEF ScreenInv, Tell, frontEnd
<1>2. /\ copied \in 0 .. Len(commands) /\ arrived \in 0 .. copied
      /\ IsStream(commands) /\ Len(commands) \in Nat /\ game \in Nat
  BY <1>1, LenProperties DEF StreamInv, IsStream
<1>3. CASE LineIsRefused
  BY <1>1, <1>2, <1>3, ScreenKept DEF LineIsRefused, keys
<1>4. CASE SendFails
  BY <1>1, <1>4, ClientEndKeepsScreenInv DEF SendFails, Keys!Ends
<1>5. ASSUME BeginLine PROVE ScreenInv'
  <2>1. PICK g \in {game, game + 1} \cap 1..MaxGames : \E command \in CommandsAbout(g) :
             /\ g = game \/ command.type = "NEW_GAME"
             /\ commands' = commands \o Gui!CommandLine(command)
             /\ game' = g
    BY <1>5 DEF BeginLine
  <2>2. PICK command \in CommandsAbout(g) :
             /\ g = game \/ command.type = "NEW_GAME"
             /\ commands' = commands \o Gui!CommandLine(command)
             /\ game' = g
    BY <2>1
  <2>3. /\ connection = "open" /\ connection' = connection /\ clientEnded' = clientEnded
        /\ copied = Len(commands) /\ arrived' = arrived
        /\ copied' \in DOMAIN commands' /\ copied < copied'
    BY <1>5 DEF BeginLine, CopySome, keys
  <2>4. command \in Commands /\ command.game = g
    BY DEF Commands, CommandsAbout
  <2>5. commands # << >> => /\ commands[Len(commands)].part = Gui!NewLine
                            /\ \/ command.type = "NEW_GAME"
                               \/ command.game = commands[Len(commands)].command.game
    BY <1>1, <2>2, <2>4 DEF StreamInv
  <2>6. /\ IsStream(commands') /\ Len(commands') = Len(commands) + 3
        /\ commands'[Len(commands')].command = command
        /\ commands'[Len(commands')].part = Gui!NewLine
        /\ commands'[1] = IF commands = << >> THEN [command |-> command, part |-> 1] ELSE commands[1]
    <3>1. /\ IsStream(commands') /\ Len(commands') = Len(commands) + 3
          /\ commands'[Len(commands) + 3].command = command
          /\ commands'[Len(commands) + 3].part = Gui!NewLine
          /\ commands'[1] = IF commands = << >> THEN [command |-> command, part |-> 1] ELSE commands[1]
      BY <1>2, <2>2, <2>4, <2>5, StreamExtended
    <3>. QED  BY <3>1
  <2>7. StreamInv'
    <3>1. IsStream(commands)'
      BY <2>6 DEF IsStream, Follows, IsNewGame, Gui!NewLine, Pieces, Commands, CommandsAbout
    <3>2. copied' \in 0 .. Len(commands') /\ arrived' \in 0 .. copied' /\ game' \in Nat
      <4>1. copied' \in 1 .. Len(commands')
        BY <2>3, <2>6, LenProperties DEF IsStream
      <4>2. game' \in Nat
        BY <1>2, <2>2
      <4>. QED  BY <1>2, <2>3, <2>6, <4>1, <4>2
    <3>3. clientEnded' \in BOOLEAN /\ ~clientEnded'
      BY <1>1, <2>3 DEF StreamInv
    <3>. QED  BY <2>2, <2>4, <2>6, <3>1, <3>2, <3>3 DEF StreamInv
  <2>8. open
    BY <1>1, <2>3 DEF PictureInv
  <2>9. commands' # << >>
    BY <1>2, <2>6
  <2>10. ASSUME ~missed PROVE IsNewGame(commands'[1]) \/ commands'[1].command.game = table
    <3>1. CASE commands = << >>
      <4>1. commands'[1].command = command /\ commands'[1].part = 1
        BY <2>6, <3>1
      <4>2. table = game
        BY <1>1, <2>8, <2>10, <3>1 DEF PictureInv
      <4>. QED  BY <2>2, <2>4, <4>1, <4>2 DEF IsNewGame
    <3>2. CASE commands # << >>
      BY <1>1, <2>6, <2>8, <2>10, <3>2 DEF PictureInv
    <3>. QED  BY <3>1, <3>2
  <2>11. PictureInv'
    BY <1>1, <2>8, <2>9, <2>10 DEF PictureInv, IsNewGame
  <2>12. ExecutesWholeLines' /\ FieldHoldsOneGame'
    BY <1>1 DEF ScreenInv, ExecutesWholeLines, FieldHoldsOneGame
  <2>. QED  BY <2>7, <2>11, <2>12 DEF ScreenInv
<1>. QED  BY <1>3, <1>4, <1>5 DEF Tell

(* ... the end of the stream that recv finds does, ... *)
LEMMA RecvKeepsScreenInv ==
    ASSUME ScreenInv, Recv
    PROVE  ScreenInv'
<1>1. /\ copied \in 0 .. Len(commands) /\ arrived \in 0 .. copied /\ Len(commands) \in Nat
      /\ UNCHANGED <<game, connection, open, table, field, resizing, missed, cut>>
  BY LenProperties DEF ScreenInv, StreamInv, IsStream, Recv, frontEnd
<1>2. CASE UNCHANGED <<clientEnded, commands, copied, arrived>>
  BY <1>1, <1>2, ScreenKept
<1>3. ASSUME RecvEnd, IF clientEnded' THEN EndsSending ELSE UNCHANGED <<commands, copied, arrived>>
      PROVE  ScreenInv'
  <2>1. clientEnded' = TRUE \/ (~clientEnded /\ clientEnded' = clientEnded)
    BY <1>3 DEF RecvEnd, Keys!ReceiveError, Keys!ReceiveEnd, Keys!Ends, Keys!keys
  <2>2. CASE clientEnded' = TRUE
    BY <1>1, <1>3, <2>2, ClientEndKeepsScreenInv
  <2>3. CASE ~clientEnded /\ clientEnded' = clientEnded
    BY <1>2, <1>3, <2>3
  <2>. QED  BY <2>1, <2>2, <2>3
<1>. QED  BY <1>2, <1>3 DEF Recv, Keys!Receive

(* ... and so does every step. *)
LEMMA ScreenInvStep ==
    ASSUME ScreenInv, [Next]_vars
    PROVE  ScreenInv'
<1>1. copied \in 0 .. Len(commands) /\ arrived \in 0 .. copied /\ Len(commands) \in Nat
  BY LenProperties DEF ScreenInv, StreamInv, IsStream
<1>2. CASE UNCHANGED vars
  BY <1>1, <1>2, ScreenKept DEF vars, keys, frontEnd, Gui!screen, tcp
<1>3. CASE Start
  BY <1>1, <1>3, ScreenKept DEF Start, keys, frontEnd, tcp
<1>4. CASE Tell
  BY <1>4, TellKeepsScreenInv
<1>5. CASE Recv
  BY <1>5, RecvKeepsScreenInv
<1>6. CASE StopClient
  BY <1>6, ClientEndKeepsScreenInv DEF StopClient, Keys!Ends, frontEnd
<1>7. CASE Arrive
  <2>1. arrived' \in 0 .. copied
    BY <1>1, <1>7 DEF Arrive
  <2>. QED  BY <1>1, <1>7, <2>1, ScreenKept DEF Arrive, keys, frontEnd
<1>8. CASE ReadLine
  BY <1>8, ReadLineKeepsScreenInv
<1>9. CASE Configure
  <2>1. /\ UNCHANGED <<clientEnded, commands, copied, arrived, connection, game>>
        /\ UNCHANGED <<open, table, missed, cut>> /\ field' = {} /\ open
    BY <1>9 DEF Configure, Gui!ConfigureEvent, keys, tcp
  <2>2. StreamInv'
    BY <2>1 DEF ScreenInv, StreamInv, IsStream
  <2>3. PictureInv'
    BY <2>1 DEF ScreenInv, PictureInv, IsNewGame
  <2>. QED  BY <2>1, <2>2, <2>3 DEF ScreenInv, ExecutesWholeLines, FieldHoldsOneGame
<1>10. CASE UseArrow
  <2>1. CASE Gui!SendMessageFails /\ Closing(Unread)
    BY <1>10, <2>1, ScreenClosed DEF UseArrow, keys, Gui!SendMessageFails
  <2>2. ASSUME NEW side \in Keys!Sides, Gui!ArrowPressed(side) \/ Gui!ArrowReleased(side),
               UNCHANGED <<commands, copied, arrived, connection>>
        PROVE  ScreenInv'
    <3>1. UNCHANGED <<open, table, field, resizing, missed, cut>>
      BY <2>2 DEF Gui!ArrowPressed, Gui!ArrowReleased, Gui!screen
    <3>. QED  BY <1>1, <1>10, <2>2, <3>1, ScreenKept DEF UseArrow, keys
  <2>. QED  BY <1>10, <2>1, <2>2 DEF UseArrow
<1>11. CASE CloseWindow
  BY <1>11, ScreenClosed DEF CloseWindow, keys, Gui!DestroyWindow
<1>12. CASE ContinueLine
  <2>1. /\ UNCHANGED <<clientEnded, commands, arrived, connection, game>>
        /\ UNCHANGED <<open, table, field, resizing, missed, cut>>
        /\ ~clientEnded /\ copied' \in DOMAIN commands /\ copied < copied'
    BY <1>12 DEF ContinueLine, CopySome, keys, frontEnd
  <2>2. copied' \in 1 .. Len(commands)
    BY <2>1, LenProperties DEF ScreenInv, StreamInv, IsStream
  <2>3. copied' \in 0 .. Len(commands) /\ arrived' \in 0 .. copied'
    BY <1>1, <2>1, <2>2
  <2>. QED  BY <2>1, <2>3, ScreenKept
<1>. QED  BY <1>2, <1>3, <1>4, <1>5, <1>6, <1>7, <1>8, <1>9, <1>10, <1>11, <1>12 DEF Next

-----------------------------------------------------------------------------
(***************************************************************************)
(* The theorems.                                                           *)
(***************************************************************************)

(* The start of the programs is a part of every behaviour.                 *)
LEMMA StartsUp ==
    ASSUME [Next]_vars
    PROVE  [StartUpNext]_startUp
<1>1. CASE Start
  BY <1>1 DEF Start, StartUpNext
<1>2. CASE Tell \/ ContinueLine \/ Recv \/ StopClient \/ Arrive
  BY <1>2 DEF Tell, ContinueLine, Recv, StopClient, Arrive
<1>3. CASE ReadLine \/ Configure \/ UseArrow \/ CloseWindow
  BY <1>3 DEF ReadLine, Configure, UseArrow, CloseWindow
<1>4. CASE UNCHANGED vars
  BY <1>4 DEF vars
<1>. QED  BY <1>1, <1>2, <1>3, <1>4 DEF Next

(* The three inductive invariants hold throughout. *)
LEMMA StartUpInvInvariant == Spec => []StartUpInv
<1>1. Init => StartUpInv
  BY StartUpInvInit DEF Init
<1>2. StartUpInv /\ [Next]_vars => StartUpInv'
  BY StartsUp, StartUpInvStep
<1>. QED  BY <1>1, <1>2, PTL DEF Spec

LEMMA KeysInvInvariant == Spec => []KeysInv
<1>1. KeysInv /\ [Next]_vars => KeysInv'
  BY KeysInvStep
<1>. QED  BY <1>1, KeysInvInit, PTL DEF Spec

LEMMA ScreenInvInvariant == Spec => []ScreenInv
<1>1. ScreenInv /\ [Next]_vars => ScreenInv'
  BY ScreenInvStep
<1>. QED  BY <1>1, ScreenInvInit, PTL DEF Spec

(* No command line, well written or not, gets the server to run with a     *)
(* board, a turning speed or a length of round that its game cannot be     *)
(* played with (main of src/server.cc).                                    *)
THEOREM ConfigurationsAreSound == Spec => []ConfigurationIsSound
BY StartUpInvInvariant, StartUpInvSound, PTL

(* The server runs with the numbers that are written, the last word on     *)
(* each option counting, or it does not run.                               *)
THEOREM OptionsAreTakenAsWritten == Spec => OptionsAreAsWritten
<1>1. StartUpInv /\ [Next]_vars => [OptionsStep]_startUp
  BY StartsUp, OptionsStepHolds
<1>2. Spec => [][Next]_vars
  BY DEF Spec
<1>3. Spec => [][OptionsStep]_startUp
  BY <1>1, <1>2, StartUpInvInvariant, PTL
<1>. QED  BY <1>3 DEF OptionsAreAsWritten

(* The client takes each address apart as it was put together, or it ends  *)
(* (util::split_hostname and main of src/client.cc).                       *)
THEOREM SettingsAreTakenAsWritten == Spec => SettingsAreAsWritten
<1>1. [Next]_vars => [SettingsStep]_startUp
  BY StartsUp, SettingsStepHolds
<1>2. Spec => [][Next]_vars
  BY DEF Spec
<1>3. Spec => [][SettingsStep]_startUp
  BY <1>1, <1>2, PTL
<1>. QED  BY <1>3 DEF SettingsAreAsWritten

(* A name of two to 63 characters reaches the server as it is.             *)
THEOREM NamesReachTheServer == Spec => []NamesArrive
BY StartUpInvInvariant, StartUpInvNames, PTL

(* However TCP cuts the lines, and whenever the client ends, no command is *)
(* carried out from a part, but for the names of impostors and the         *)
(* beginning of a line that is the last one (idle_callback).               *)
THEOREM LinesAreExecutedWhole == Spec => []ExecutesWholeLines
<1>1. ScreenInv => ExecutesWholeLines
  BY DEF ScreenInv
<1>. QED  BY <1>1, ScreenInvInvariant, PTL

(* The picture is that of the one game whose players are listed.           *)
THEOREM PictureIsOfOneGame == Spec => []FieldHoldsOneGame
<1>1. ScreenInv => FieldHoldsOneGame
  BY DEF ScreenInv
<1>. QED  BY <1>1, ScreenInvInvariant, PTL

(* However TCP cuts the lines about the keys, and however recv divides     *)
(* them, the keys are as they are held once all lines are read             *)
(* (receive_gui_job of src/client.cc).                                     *)
THEOREM KeysComeToWhatIsHeld == Spec => []KeysAreAsHeld
<1>1. KeysInv => KeysAreAsHeld
  BY NothingToRead DEF KeysAreAsHeld, Up
<1>. QED  BY <1>1, KeysInvInvariant, PTL

(* The snake turns to the side whose arrow is held, on the screen, if a    *)
(* turn by the turning speed, and one by 255 times it, go to their sides.  *)
THEOREM HeldKeySteers ==
    ASSUME SpeedSteers
    PROVE  Spec => []HeldKeySteersThatWay
<1>1. KeysInv => HeldKeySteersThatWay
  BY KeysInvSteers
<1>. QED  BY <1>1, KeysInvInvariant, PTL

(* With the signs of the cosine and the sine, and no overflow, these are   *)
(* the speeds whose number of degrees goes left and whose multiple by 255, *)
(* the byte -1, goes right, ...                                            *)
THEOREM SteeringSpeeds ==
    ASSUME UnitVectorSigns, 255 * TurningSpeed < UintRange
    PROVE  SpeedSteers <=> /\ TurningSpeed % 360 \in 1..179
                           /\ (255 * TurningSpeed) % 360 \in 181..359
<1>1. ASSUME NEW heading \in Headings
      PROVE  /\ Sense(heading, Turned(heading, 1)) < 0 <=> (1 * TurningSpeed) % 360 \in 1..179
             /\ Sense(heading, Turned(heading, 255)) > 0 <=> (255 * TurningSpeed) % 360 \in 181..359
  BY TurnedByDegrees, SenseOfTurn
<1>2. 0 \in Headings /\ 1 * TurningSpeed = TurningSpeed
  BY GeometryAssumption DEF Headings
<1>. QED  BY <1>1, <1>2 DEF SpeedSteers

(* ... and the speed the server has if nothing is said is not one of them. *)
THEOREM DefaultSpeedDoesNotSteer ==
    ASSUME UnitVectorSigns, TurningSpeed = Default["t"], 1530 < UintRange
    PROVE  ~SpeedSteers
<1>1. TurningSpeed = 6
  BY DEF Default
<1>2. 255 * TurningSpeed = 1530
  BY <1>1
<1>3. (255 * TurningSpeed) % 360 = 90
  <2>. DEFINE d == 255 * TurningSpeed
  <2>1. d = 1530
    BY <1>2
  <2>2. d \in Int
    BY <2>1
  <2>. HIDE DEF d
  <2>3. d % 360 \in 0..359 /\ d \div 360 \in Int /\ d = 360 * (d \div 360) + (d % 360)
    BY ONLY <2>2
  <2>4. d % 360 = 90
    BY <2>1, <2>3
  <2>. QED  BY <2>4 DEF d
<1>. QED  BY <1>2, <1>3, SteeringSpeeds

=============================================================================
