---------------------------- MODULE StartUpProofs -----------------------------
(***************************************************************************)
(* The start of the programs, proved for any command lines, any ranges of  *)
(* the numbers and any hosts and ports as TextsAssumption has them.        *)
(***************************************************************************)
EXTENDS StartUp, SequenceTheorems, FiniteSetTheorems, WellFoundedInduction, TLAPS

(***************************************************************************)
(* Facts about numbers and folds.  FoldLeft of the community modules is a  *)
(* recursive function on the sets of positions of a sequence.  Nothing is  *)
(* proved about it by an induction rule: a set of positions that has a     *)
(* least number serves instead.                                            *)
(***************************************************************************)

(* A set of natural numbers that is not empty has a least one. *)
LEMMA LeastNumber ==
    ASSUME NEW T, T \subseteq Nat, T # {}
    PROVE  \E x \in T : \A y \in T : x <= y
<1>1. PICK x \in T : \A y \in T : ~(<<y, x>> \in OpToRel(<, Nat))
  BY NatLessThanWellFounded, WFMin
<1>2. ASSUME NEW y \in T PROVE x <= y
  <2>1. x \in Nat /\ y \in Nat /\ ~(<<y, x>> \in OpToRel(<, Nat))
    BY <1>1
  <2>. QED  BY <2>1 DEF OpToRel
<1>. QED  BY <1>2

(* The position at which a fold over a set of them ends. *)
Topmost(T) == CHOOSE x \in T : \A y \in T : x >= y

(* g is the fold of step over every set of the first n positions. *)
Folds(g, step, base, n) ==
    g = [T \in SUBSET (1..n) |-> IF T = {} THEN base
                                 ELSE step[<<g[T \ {Topmost(T)}], Topmost(T)>>]]

(* The topmost number of a set is the one no other is above, ... *)
LEMMA TopmostIs ==
    ASSUME NEW T \in SUBSET Nat, NEW m \in T, \A y \in T : m >= y
    PROVE  Topmost(T) = m
<1>1. \A x \in T : (\A y \in T : x >= y) => x = m
  OBVIOUS
<1>. QED  BY <1>1 DEF Topmost

(* ... and a set of positions that is not empty has one. *)
LEMMA TopmostExists ==
    ASSUME NEW n \in Nat, NEW T \in SUBSET (1..n), T # {}
    PROVE  Topmost(T) \in T /\ \A y \in T : Topmost(T) >= y
<1>. DEFINE bounds == {b \in Nat : \A y \in T : y <= b}
<1>1. n \in bounds /\ bounds \subseteq Nat
  OBVIOUS
<1>2. PICK b \in bounds : \A c \in bounds : b <= c
  <2>. HIDE DEF bounds
  <2>. QED  BY <1>1, LeastNumber
<1>3. b \in T
  <2>1. CASE b = 0
    <3>1. PICK y \in T : TRUE
      OBVIOUS
    <3>2. y \in 1..n /\ y <= b
      BY <1>2
    <3>. QED  BY <2>1, <3>2
  <2>2. CASE b # 0 /\ b \notin T
    <3>1. b \in Nat /\ \A y \in T : y <= b /\ y # b /\ y \in Nat
      BY <1>2, <2>2
    <3>2. b - 1 \in bounds
      BY <3>1, <2>2
    <3>3. b <= b - 1
      BY <3>2, <1>2
    <3>. QED  BY <3>1, <3>3
  <2>. QED  BY <2>1, <2>2
<1>. QED  BY <1>2, <1>3, TopmostIs

(* A fold over the first n positions exists, whatever the step is. *)
LEMMA FoldExists ==
    ASSUME NEW X, NEW base \in X, NEW n \in Nat, NEW step \in [X \X (1..n) -> X]
    PROVE  \A m \in 0..n : \E g : g \in [SUBSET (1..m) -> X] /\ Folds(g, step, base, m)
<1>. DEFINE missing == {m \in 0..n : ~ \E g : g \in [SUBSET (1..m) -> X] /\ Folds(g, step, base, m)}
<1>1. SUFFICES ASSUME missing # {} PROVE FALSE
  OBVIOUS
<1>2. PICK m \in missing : \A k \in missing : m <= k
  <2>1. missing \subseteq Nat
    OBVIOUS
  <2>. HIDE DEF missing
  <2>. QED  BY <1>1, <2>1, LeastNumber
<1>3. m \in 0..n /\ ~ \E g : g \in [SUBSET (1..m) -> X] /\ Folds(g, step, base, m)
  OBVIOUS
<1>4. m # 0
  <2>. DEFINE g == [T \in SUBSET (1..0) |-> base]
  <2>1. g \in [SUBSET (1..0) -> X] /\ \A T \in SUBSET (1..0) : T = {}
    OBVIOUS
  <2>2. Folds(g, step, base, 0)
    BY <2>1 DEF Folds
  <2>. QED  BY <1>3, <2>1, <2>2
<1>5. m - 1 \in 0..n /\ m - 1 \notin missing
  <2>1. m - 1 \in 0..n /\ ~(m <= m - 1)
    BY <1>3, <1>4
  <2>. HIDE DEF missing
  <2>. QED  BY <2>1, <1>2
<1>6. PICK f : f \in [SUBSET (1 .. m - 1) -> X] /\ Folds(f, step, base, m - 1)
  BY <1>5
<1>. DEFINE g == [T \in SUBSET (1..m) |-> IF m \in T THEN step[<<f[T \ {m}], m>>] ELSE f[T]]
<1>7. ASSUME NEW T \in SUBSET (1..m)
      PROVE  /\ g[T] \in X
             /\ g[T] = IF T = {} THEN base
                       ELSE step[<<g[T \ {Topmost(T)}], Topmost(T)>>]
  <2>1. CASE m \in T
    <3>1. Topmost(T) = m
      BY <1>3, <2>1, TopmostIs
    <3>2. T \ {m} \in SUBSET (1 .. m - 1) /\ T \ {m} \in SUBSET (1..m) /\ m \in 1..n
      BY <1>3, <1>4
    <3>3. g[T] = step[<<f[T \ {m}], m>>] /\ g[T \ {m}] = f[T \ {m}] /\ f[T \ {m}] \in X
      BY <2>1, <3>2, <1>6
    <3>. HIDE DEF g
    <3>. QED  BY <2>1, <3>1, <3>2, <3>3
  <2>2. CASE m \notin T
    <3>1. T \in SUBSET (1 .. m - 1)
      BY <1>3, <1>4, <2>2
    <3>2. g[T] = f[T] /\ f[T] \in X
      BY <2>2, <3>1, <1>6
    <3>3. f[T] = IF T = {} THEN base ELSE step[<<f[T \ {Topmost(T)}], Topmost(T)>>]
      BY <3>1, <1>6 DEF Folds
    <3>4. g[T \ {Topmost(T)}] = f[T \ {Topmost(T)}]
      BY <2>2, <3>1
    <3>. HIDE DEF g
    <3>. QED  BY <3>2, <3>3, <3>4
  <2>. QED  BY <2>1, <2>2
<1>8. g \in [SUBSET (1..m) -> X] /\ Folds(g, step, base, m)
  <2>1. g = [T \in SUBSET (1..m) |-> g[T]]
    OBVIOUS
  <2>. HIDE DEF g
  <2>2. g \in [SUBSET (1..m) -> X]
    BY <1>7, <2>1
  <2>3. [T \in SUBSET (1..m) |-> g[T]] = 
        [T \in SUBSET (1..m) |-> IF T = {} THEN base
                       ELSE step[<<g[T \ {Topmost(T)}], Topmost(T)>>]]
    BY <1>7
  <2>. QED  BY <2>1, <2>2, <2>3 DEF Folds
<1>. QED  BY <1>3, <1>8

(* What holds of 0 and of each number if of the one before holds up to n. *)
LEMMA UpTo ==
    ASSUME NEW n \in Nat, NEW good, 0 \in good, \A k \in 1..n : k - 1 \in good => k \in good
    PROVE  \A k \in 0..n : k \in good
<1>. DEFINE missing == {k \in 0..n : k \notin good}
<1>1. SUFFICES ASSUME missing # {} PROVE FALSE
  OBVIOUS
<1>2. PICK k \in missing : \A j \in missing : k <= j
  <2>1. missing \subseteq Nat
    OBVIOUS
  <2>. HIDE DEF missing
  <2>. QED  BY <1>1, <2>1, LeastNumber
<1>3. k \in 1..n /\ k - 1 \in 0..n /\ k - 1 \notin good
  OBVIOUS
<1>4. k <= k - 1
  BY <1>2, <1>3
<1>. QED  BY <1>3, <1>4

(***************************************************************************)
(* What a fold over the positions of a sequence goes through: its value    *)
(* for the first 0, 1, ... n positions, if h is the function it is defined *)
(* by.                                                                     *)
(***************************************************************************)
LEMMA FirstOnes ==
    ASSUME NEW n \in Nat, NEW k \in 1..n
    PROVE  /\ 1..k \in SUBSET (1..n) /\ 1..k # {} /\ Topmost(1..k) = k
           /\ (1..k) \ {k} = 1 .. k - 1
<1>1. Topmost(1..k) = k
  <2>1. k \in 1..k /\ 1..k \in SUBSET Nat /\ \A y \in 1..k : k >= y
    OBVIOUS
  <2>. QED  BY <2>1, TopmostIs
<1>. QED  BY <1>1
-----------------------------------------------------------------------------
(* Texts. *)

(* A digit stands for a number below ten. *)
LEMMA ValueType == \A c \in Digits : Value[c] \in 0..9
BY DEF Value, Digits

(* A number of 64 bits does not wrap, and any other becomes one. *)
LEMMA WrappedType ==
    ASSUME NEW i \in Int
    PROVE  /\ Wrapped(i) \in -IntHalf .. IntHalf - 1
           /\ i \in -IntHalf .. IntHalf - 1 => Wrapped(i) = i
<1>. DEFINE h == IntHalf
            m == 2 * h
<1>1. h \in Nat \ {0} /\ m \in Nat \ {0} /\ i + h \in Int
  BY WordAssumption
<1>2. (i + h) % m \in 0 .. m - 1
  <2>. HIDE DEF m, h
  <2>. QED  BY <1>1
<1>3. i \in -h .. h - 1 => (i + h) % m = i + h
  <2>1. i \in -h .. h - 1 => i + h \in 0 .. m - 1
    BY <1>1
  <2>. HIDE DEF m, h
  <2>. QED  BY <1>1, <2>1
<1>. QED  BY <1>1, <1>2, <1>3 DEF Wrapped

(* What is accumulated is a number at any time. *)
LEMMA AccumulatedType ==
    ASSUME NEW i \in Int, NEW c
    PROVE  Accumulated(i, c) \in Int
<1>1. Refused \in Int
  BY WordAssumption DEF Refused
<1>2. c \in Digits => Wrapped(10 * i - Value[c]) \in Int
  <2>1. c \in Digits => 10 * i - Value[c] \in Int
    BY ValueType
  <2>. QED  BY <2>1, WrappedType, WordAssumption
<1>. QED  BY <1>1, <1>2 DEF Accumulated

(* The numbers a parse goes through. *)
IsParse(r, text) ==
    r[0] = 0 /\ \A k \in 1 .. Len(text) : r[k] = Accumulated(r[k - 1], text[k])

(* The fold of the model goes through them. *)
LEMMA ParseRuns ==
    ASSUME NEW text \in Seq(STRING)
    PROVE  \E r : IsParse(r, text) /\ FoldLeft(Accumulated, 0, text) = r[Len(text)]
<1>. DEFINE n == Len(text)
            values == Int
            step == [p \in values \X (1..n) |-> Accumulated(p[1], text[p[2]])]
            isFold(f) == f = [T \in SUBSET (1..n) |->
                                IF T = {} THEN 0
                                ELSE Accumulated(f[T \ {Topmost(T)}], text[Topmost(T)])]
<1>1. n \in Nat /\ DOMAIN text = 1..n
  BY LenProperties
<1>2. \A i \in values : \A c : Accumulated(i, c) \in values
  BY AccumulatedType
<1>3. step \in [values \X (1..n) -> values]
  BY <1>1, <1>2
<1>4. PICK g : g \in [SUBSET (1..n) -> values] /\ Folds(g, step, 0, n)
  <2>1. n \in 0..n /\ 0 \in values
    BY <1>1
  <2>. HIDE DEF step, n, values
  <2>. QED  BY <1>1, <1>3, <2>1, FoldExists
<1>5. isFold(g)
  <2>1. ASSUME NEW T \in SUBSET (1..n), T # {}
        PROVE  step[<<g[T \ {Topmost(T)}], Topmost(T)>>]
                  = Accumulated(g[T \ {Topmost(T)}], text[Topmost(T)])
    <3>1. Topmost(T) \in 1..n
      <4>. HIDE DEF n
      <4>. QED  BY <1>1, <2>1, TopmostExists
    <3>2. g[T \ {Topmost(T)}] \in values
      BY <1>4
    <3>. HIDE DEF values
    <3>. QED  BY <3>1, <3>2
  <2>. HIDE DEF step, n, values
  <2>. QED  BY <1>4, <2>1 DEF Folds
<1>. DEFINE h == CHOOSE f : isFold(f)
<1>6. isFold(h) /\ FoldLeft(Accumulated, 0, text) = h[1..n]
  <2>1. isFold(h)
    <3>. HIDE DEF isFold
    <3>. QED  BY <1>5
  <2>2. FoldLeft(Accumulated, 0, text) = h[1..n]
    BY <1>1 DEF FoldLeft, MapThenFoldSet, Max, Topmost
  <2>. HIDE DEF isFold, h
  <2>. QED  BY <2>1, <2>2
<1>. HIDE DEF h
<1>. DEFINE r == [k \in 0..n |-> h[1..k]]
<1>7. r[0] = 0
  <2>1. 1..0 = {} /\ 0 \in 0..n
    BY <1>1
  <2>. QED  BY <1>6, <2>1
<1>8. ASSUME NEW k \in 1..n PROVE r[k] = Accumulated(r[k - 1], text[k])
  <2>1. k \in 0..n /\ k - 1 \in 0..n
    BY <1>1
  <2>. QED  BY <1>1, <1>6, <2>1, FirstOnes
<1>9. r[n] = h[1..n]
  BY <1>1
<1>. HIDE DEF r
<1>. QED  BY <1>6, <1>7, <1>8, <1>9 DEF IsParse

(* The numbers the digits of a text stand for, as they are written. *)
IsReading(r, text) ==
    r[0] = 0 /\ \A k \in 1 .. Len(text) : r[k] = 10 * r[k - 1] + Value[text[k]]

(* So does the fold that gives the number a text means. *)
LEMMA ReadingRuns ==
    ASSUME NEW text \in Seq(Digits)
    PROVE  \E r : IsReading(r, text) /\ FoldLeft(LAMBDA sum, c : 10 * sum + Value[c], 0, text) = r[Len(text)]
<1>. DEFINE n == Len(text)
            values == Int
            step == [p \in values \X (1..n) |-> 10 * p[1] + Value[text[p[2]]]]
            isFold(f) == f = [T \in SUBSET (1..n) |->
                                IF T = {} THEN 0
                                ELSE 10 * f[T \ {Topmost(T)}] + Value[text[Topmost(T)]]]
<1>1. n \in Nat /\ DOMAIN text = 1..n
  BY LenProperties
<1>2. \A i \in values, k \in 1..n : 10 * i + Value[text[k]] \in values
  BY <1>1, ElementOfSeq, ValueType
<1>3. step \in [values \X (1..n) -> values]
  BY <1>1, <1>2
<1>4. PICK g : g \in [SUBSET (1..n) -> values] /\ Folds(g, step, 0, n)
  <2>1. n \in 0..n /\ 0 \in values
    BY <1>1
  <2>. HIDE DEF step, n, values
  <2>. QED  BY <1>1, <1>3, <2>1, FoldExists
<1>5. isFold(g)
  <2>1. ASSUME NEW T \in SUBSET (1..n), T # {}
        PROVE  step[<<g[T \ {Topmost(T)}], Topmost(T)>>]
                  = 10 * g[T \ {Topmost(T)}] + Value[text[Topmost(T)]]
    <3>1. Topmost(T) \in 1..n
      <4>. HIDE DEF n
      <4>. QED  BY <1>1, <2>1, TopmostExists
    <3>2. g[T \ {Topmost(T)}] \in values
      BY <1>4
    <3>. HIDE DEF values
    <3>. QED  BY <3>1, <3>2
  <2>. HIDE DEF step, n, values
  <2>. QED  BY <1>4, <2>1 DEF Folds
<1>. DEFINE h == CHOOSE f : isFold(f)
<1>6. isFold(h) /\ FoldLeft(LAMBDA sum, c : 10 * sum + Value[c], 0, text) = h[1..n]
  <2>1. isFold(h)
    <3>. HIDE DEF isFold
    <3>. QED  BY <1>5
  <2>2. FoldLeft(LAMBDA sum, c : 10 * sum + Value[c], 0, text) = h[1..n]
    BY <1>1 DEF FoldLeft, MapThenFoldSet, Max, Topmost
  <2>. HIDE DEF isFold, h
  <2>. QED  BY <2>1, <2>2
<1>. HIDE DEF h
<1>. DEFINE r == [k \in 0..n |-> h[1..k]]
<1>7. r[0] = 0
  <2>1. 1..0 = {} /\ 0 \in 0..n
    BY <1>1
  <2>. QED  BY <1>6, <2>1
<1>8. ASSUME NEW k \in 1..n PROVE r[k] = 10 * r[k - 1] + Value[text[k]]
  <2>1. k \in 0..n /\ k - 1 \in 0..n
    BY <1>1
  <2>. QED  BY <1>1, <1>6, <2>1, FirstOnes
<1>9. r[n] = h[1..n]
  BY <1>1
<1>. HIDE DEF r
<1>. QED  BY <1>6, <1>7, <1>8, <1>9 DEF IsReading

(* A character that is no digit ends the parse, whatever follows. *)
LEMMA ParseRefuses ==
    ASSUME NEW text \in Seq(STRING), NEW i \in 1 .. Len(text), text[i] \notin Digits
    PROVE  FoldLeft(Accumulated, 0, text) = Refused
<1>. DEFINE n == Len(text)
<1>1. n \in Nat
  BY LenProperties
<1>2. PICK r : IsParse(r, text) /\ FoldLeft(Accumulated, 0, text) = r[n]
  BY ParseRuns
<1>. DEFINE good == {k \in 0..n : k >= i => r[k] = Refused}
<1>3. 0 \in good
  BY <1>1
<1>4. ASSUME NEW k \in 1..n, k - 1 \in good PROVE k \in good
  <2>1. r[k] = Accumulated(r[k - 1], text[k])
    BY <1>2 DEF IsParse
  <2>2. CASE k = i
    BY <2>1, <2>2 DEF Accumulated
  <2>3. CASE k > i
    BY <1>4, <2>1, <2>3 DEF Accumulated
  <2>. QED  BY <1>1, <2>2, <2>3
<1>5. \A k \in 0..n : k \in good
  <2>. HIDE DEF good, n
  <2>. QED  BY <1>1, <1>3, <1>4, UpTo
<1>6. n \in good
  BY <1>1, <1>5
<1>. QED  BY <1>1, <1>2, <1>6

(* The digits add up alike above and below zero. *)
LEMMA OneMoreDigit ==
    ASSUME NEW a \in Nat, NEW v \in 0..9
    PROVE  a <= 10 * a + v /\ 10 * (-a) - v = -(10 * a + v)
OBVIOUS

(* The numbers a reading goes through never get smaller. *)
LEMMA ReadingGrows ==
    ASSUME NEW text \in Seq(Digits), NEW r, IsReading(r, text)
    PROVE  \A k \in 0 .. Len(text) : r[k] \in Nat /\ r[k] <= r[Len(text)]
<1>. DEFINE n == Len(text)
            numbers == {k \in 0..n : r[k] \in Nat}
            small == {k \in 0..n : r[n - k] <= r[n]}
<1>1. n \in Nat
  BY LenProperties
<1>2. ASSUME NEW k \in 1..n
      PROVE  r[k] = 10 * r[k - 1] + Value[text[k]] /\ Value[text[k]] \in 0..9
  BY ElementOfSeq, ValueType DEF IsReading
<1>3. 0 \in numbers
  BY <1>1 DEF IsReading
<1>4. ASSUME NEW k \in 1..n, k - 1 \in numbers PROVE k \in numbers
  <2>1. r[k - 1] \in Nat /\ k \in 0..n
    BY <1>1, <1>4
  <2>2. r[k] = 10 * r[k - 1] + Value[text[k]] /\ Value[text[k]] \in Nat
    BY <1>2
  <2>3. r[k] \in Nat
    BY ONLY <2>1, <2>2
  <2>. QED  BY <2>1, <2>3
<1>5. \A k \in 0..n : k \in numbers
  <2>. HIDE DEF numbers, n
  <2>. QED  BY <1>1, <1>3, <1>4, UpTo
<1>6. 0 \in small
  BY <1>1, <1>5
<1>7. ASSUME NEW k \in 1..n, k - 1 \in small PROVE k \in small
  <2>. DEFINE j == n - k + 1
  <2>1. j \in 1..n /\ n - k = j - 1 /\ n - (k - 1) = j /\ j - 1 \in 0..n
    BY <1>1
  <2>2. r[j] <= r[n] /\ r[j - 1] \in Nat /\ r[j] \in Nat /\ r[n] \in Nat
    BY <1>1, <1>5, <1>7, <2>1
  <2>3. r[j - 1] <= r[n]
    <3>1. r[j] = 10 * r[j - 1] + Value[text[j]] /\ Value[text[j]] \in 0..9
      BY <1>2, <2>1
    <3>. HIDE DEF j, n
    <3>2. r[j - 1] <= r[j]
      BY <2>2, <3>1, OneMoreDigit
    <3>. QED  BY <2>2, <3>2
  <2>. QED  BY <2>1, <2>3
<1>8. \A k \in 0..n : k \in small
  <2>. HIDE DEF small, n
  <2>. QED  BY <1>1, <1>6, <1>7, UpTo
<1>9. ASSUME NEW k \in 0..n PROVE r[k] <= r[n]
  <2>1. n - k \in 0..n /\ n - (n - k) = k
    BY <1>1
  <2>. QED  BY <1>8, <2>1
<1>. QED  BY <1>5, <1>9

(* What is accumulated is the number with the sign the wrong way round, as *)
(* long as that is a number of 64 bits.                                    *)
LEMMA ParseIsReading ==
    ASSUME NEW text \in Seq(Digits),
           NEW d, IsReading(d, text), d[Len(text)] <= IntHalf,
           NEW r, IsParse(r, text)
    PROVE  r[Len(text)] = -d[Len(text)]
<1>. DEFINE n == Len(text)
<1>1. n \in Nat
  BY LenProperties
<1>4. \A k \in 0..n : d[k] \in Nat /\ d[k] <= IntHalf
  <2>1. \A k \in 0..n : d[k] \in Nat /\ d[k] <= d[n]
    BY ReadingGrows
  <2>2. d[n] <= IntHalf /\ n \in 0..n /\ IntHalf \in Nat
    BY <1>1, WordAssumption
  <2>3. d[n] \in Nat
    BY <2>1, <2>2
  <2>. HIDE DEF n
  <2>. QED  BY <2>1, <2>2, <2>3
<1>. DEFINE good == {k \in 0..n : r[k] = -d[k]}
<1>5. 0 \in good
  BY <1>1 DEF IsReading, IsParse
<1>6. ASSUME NEW k \in 1..n, k - 1 \in good PROVE k \in good
  <2>1. k - 1 \in 0..n /\ k \in 0..n /\ r[k - 1] = -d[k - 1]
    BY <1>1, <1>6
  <2>2. d[k] = 10 * d[k - 1] + Value[text[k]] /\ r[k] = Accumulated(r[k - 1], text[k])
    BY DEF IsReading, IsParse
  <2>3. text[k] \in Digits /\ Value[text[k]] \in 0..9
    BY ElementOfSeq, ValueType
  <2>4. 10 * r[k - 1] - Value[text[k]] = -d[k] /\ -d[k] \in -IntHalf .. IntHalf - 1
    <3>1. d[k - 1] \in Nat /\ d[k] \in Nat /\ d[k] <= IntHalf
      BY <1>4, <2>1
    <3>2. 10 * r[k - 1] - Value[text[k]] = -d[k]
      BY <2>1, <2>2, <2>3, <3>1, OneMoreDigit
    <3>. QED  BY <3>1, <3>2, WordAssumption
  <2>5. Wrapped(-d[k]) = -d[k] /\ ~(-d[k] > 0)
    BY <1>4, <2>1, <2>4, WrappedType
  <2>6. r[k - 1] # Refused
    BY <1>4, <2>1, WordAssumption DEF Refused
  <2>7. Accumulated(r[k - 1], text[k]) = -d[k]
    BY <2>3, <2>4, <2>5, <2>6 DEF Accumulated
  <2>. QED  BY <2>1, <2>2, <2>7
<1>7. \A k \in 0..n : k \in good
  <2>. HIDE DEF good, n
  <2>. QED  BY <1>1, <1>5, <1>6, UpTo
<1>8. n \in 0..n
  BY <1>1
<1>. QED  BY <1>7, <1>8

(***************************************************************************)
(* parse gives the number that is written, and refuses every text that is  *)
(* no number; Plain leaves out what it is known to get wrong.              *)
(***************************************************************************)
THEOREM ParsedIsMeant ==
    ASSUME NEW text \in Seq(STRING), Plain(text)
    PROVE  /\ Parsed(text) = IF IsNumber(text) THEN Meant(text) ELSE Refused
           /\ IsNumber(text) => Meant(text) \in -IntHalf .. IntHalf - 1
<1>. DEFINE unsigned == Unsigned(text)
            n == Len(unsigned)
            number(sum) == IF Negative(text) THEN sum ELSE Wrapped(-sum)
<1>1. CASE text = << >>
  BY <1>1 DEF Parsed, IsNumber
<1>2. CASE text # << >>
  <2>1. unsigned \in Seq(STRING)
    BY <1>2, HeadTailProperties DEF Unsigned
  <2>2. n \in Nat /\ DOMAIN unsigned = 1..n
    <3>. HIDE DEF unsigned
    <3>. QED  BY <2>1, LenProperties
  <2>3. unsigned # << >>
    <3>1. SUFFICES ASSUME unsigned = << >> PROVE FALSE
      OBVIOUS
    <3>2. Head(text) \in {"+", "-"} /\ Tail(text) = << >>
      BY <1>2, <3>1 DEF Unsigned
    <3>3. text = <<Head(text)>>
      <4>1. Len(text) \in Nat /\ Len(text) - 1 = 0
        <5>1. Len(Tail(text)) = Len(text) - 1 /\ Len(Tail(text)) = 0
          BY <1>2, <3>2, HeadTailProperties
        <5>. QED  BY <5>1, LenProperties
      <4>2. Len(text) = 1
        BY ONLY <4>1
      <4>. QED  BY <4>2, LenProperties
    <3>. QED  BY <3>2, <3>3 DEF Plain
  <2>4. PICK r : IsParse(r, unsigned) /\ FoldLeft(Accumulated, 0, unsigned) = r[n]
    <3>. HIDE DEF unsigned
    <3>. QED  BY <2>1, ParseRuns
  <2>5. Parsed(text) = IF \/ r[n] = Refused
                          \/ number(r[n]) # 0 /\ Negative(text) # (number(r[n]) < 0)
                       THEN Refused ELSE number(r[n])
    BY <1>2, <2>4 DEF Parsed
  <2>6. CASE ~IsNumber(text)
    <3>1. PICK i \in 1..n : unsigned[i] \notin Digits
      BY <1>2, <2>2, <2>3, <2>6 DEF IsNumber
    <3>2. r[n] = Refused
      <4>. HIDE DEF unsigned
      <4>. QED  BY <2>1, <2>4, <3>1, ParseRefuses
    <3>. QED  BY <2>5, <2>6, <3>2
  <2>7. CASE IsNumber(text)
    <3>1. unsigned \in Seq(Digits)
      <4>1. \A k \in 1..n : unsigned[k] \in Digits
        BY <2>2, <2>7 DEF IsNumber
      <4>. HIDE DEF unsigned
      <4>. QED  BY <2>1, <2>2, <4>1, LenProperties, SeqDef
    <3>2. PICK d : /\ IsReading(d, unsigned)
                   /\ FoldLeft(LAMBDA sum, c : 10 * sum + Value[c], 0, unsigned) = d[n]
      <4>. HIDE DEF unsigned
      <4>. QED  BY <3>1, ReadingRuns
    <3>3. Meant(text) = (IF Negative(text) THEN -d[n] ELSE d[n])
      BY <3>2 DEF Meant
    <3>4. Meant(text) \in -IntHalf .. IntHalf - 1
      BY <2>7 DEF Plain
    <3>5. d[n] \in Nat /\ d[n] <= IntHalf
      <4>1. d[n] \in Nat
        <5>. HIDE DEF unsigned
        <5>1. n \in 0..n
          BY <2>2
        <5>. QED  BY <3>1, <3>2, <5>1, ReadingGrows
      <4>. QED  BY <3>3, <3>4, <4>1, WordAssumption
    <3>6. r[n] = -d[n]
      <4>. HIDE DEF unsigned
      <4>. QED  BY <2>4, <3>1, <3>2, <3>5, ParseIsReading
    <3>7. r[n] # Refused
      BY <3>5, <3>6, WordAssumption DEF Refused
    <3>8. CASE Negative(text)
      <4>1. number(r[n]) = Meant(text) /\ Meant(text) \in Int /\ Meant(text) <= 0
        BY <3>3, <3>5, <3>6, <3>8
      <4>2. Meant(text) # 0 => (Meant(text) < 0) = TRUE
        BY <4>1
      <4>3. Negative(text) = TRUE
        BY <3>8 DEF Negative
      <4>. HIDE DEF number
      <4>4. ~(number(r[n]) # 0 /\ Negative(text) # (number(r[n]) < 0))
        BY <4>1, <4>2, <4>3, Zenon
      <4>. QED  BY <2>5, <2>7, <3>4, <3>7, <4>1, <4>4, Zenon
    <3>9. CASE ~Negative(text)
      <4>1. -r[n] = d[n] /\ d[n] = Meant(text)
        BY <3>3, <3>5, <3>6, <3>9
      <4>2. Wrapped(d[n]) = d[n]
        BY <3>4, <3>5, <4>1, WrappedType
      <4>3. number(r[n]) = Meant(text) /\ ~(Meant(text) < 0)
        BY <3>5, <3>9, <4>1, <4>2
      <4>4. (Meant(text) < 0) = FALSE /\ Negative(text) = FALSE
        BY <3>9, <4>3 DEF Negative
      <4>. HIDE DEF number
      <4>5. ~(number(r[n]) # 0 /\ Negative(text) # (number(r[n]) < 0))
        BY <4>3, <4>4, Zenon
      <4>. QED  BY <2>5, <2>7, <3>4, <3>7, <4>3, <4>5, Zenon
    <3>. QED  BY <3>8, <3>9
  <2>. QED  BY <2>6, <2>7
<1>. QED  BY <1>1, <1>2

-----------------------------------------------------------------------------
(* The options. *)

(***************************************************************************)
(* What a configuration holds at any time: what may be asked for, or what  *)
(* stands when nobody asks.                                                *)
(***************************************************************************)
Accepted == {config \in [Options -> Int] :
                \A k \in Options : config[k] \in (Least(k) .. Greatest(k)) \cup {Default[k]}}
Configurations == Accepted \cup {NoConfiguration}

(* The default configuration is one that is accepted. *)
LEMMA DefaultType == Default \in Accepted
<1>1. \A k \in Options : Default[k] \in Int
  BY DEF Default, Options, NoSeed
<1>2. Default = [k \in Options |-> Default[k]]
  BY DEF Default, Options
<1>. QED  BY <1>1, <1>2 DEF Accepted

(* No option accepts a number beyond its range. *)
LEMMA BoundsType ==
    ASSUME NEW k \in Options
    PROVE  /\ Least(k) \in {0, 1} /\ Greatest(k) \in Int
           /\ Greatest(k) < OptionRange /\ Greatest(k) < IntHalf
BY StartUpAssumption, WordAssumption DEF Least, Greatest, Options

(* A configuration is not mistaken for the end of the program. *)
LEMMA NoConfigurationIsNone == NoConfiguration \notin Accepted
<1>1. "W" \in Options /\ DOMAIN NoConfiguration = {}
  BY DEF Options, NoConfiguration
<1>2. \A config \in Accepted : DOMAIN config = Options
  BY DEF Accepted
<1>. QED  BY <1>1, <1>2

(* Whatever the line is, an option that is accepted is within its bounds.  *)
LEMMA WithOptionType ==
    ASSUME NEW config \in Configurations, NEW line, NEW i
    PROVE  WithOption(config, line, i) \in Configurations
<1>. DEFINE k == OptionAt(line, i)[2]
            number == ParsedBounded(line[2 * i], Least(k), Greatest(k))
<1>1. CASE config = NoConfiguration \/ ~IsOption(line, i) \/ number = Refused
  BY <1>1 DEF WithOption, Configurations
<1>2. CASE config # NoConfiguration /\ IsOption(line, i) /\ number # Refused
  <2>1. k \in Options /\ config \in Accepted
    BY <1>2 DEF IsOption, Configurations
  <2>2. number \in Least(k) .. Greatest(k)
    BY <1>2 DEF ParsedBounded
  <2>3. number \in Int
    BY <2>1, <2>2, BoundsType
  <2>4. WithOption(config, line, i) = [config EXCEPT ![k] = number]
    BY <1>2 DEF WithOption
  <2>. HIDE DEF k, number
  <2>5. [config EXCEPT ![k] = number] \in Accepted
    BY <2>1, <2>2, <2>3 DEF Accepted
  <2>. QED  BY <2>4, <2>5 DEF Configurations
<1>. QED  BY <1>1, <1>2

(* The configurations the loop over the options goes through. *)
IsConfiguring(r, line) ==
    r[0] = Default /\ \A k \in 1 .. NumOptions(line) : r[k] = WithOption(r[k - 1], line, k)

(* Configured is the last of them. *)
LEMMA ConfiguringRuns ==
    ASSUME NEW line, Len(line) \in Nat
    PROVE  \E r : IsConfiguring(r, line) /\ Configured(line) = r[NumOptions(line)]
<1>. DEFINE n == NumOptions(line)
            values == Configurations
            step == [p \in values \X (1..n) |-> WithOption(p[1], line, p[2])]
            isFold(f) == f = [T \in SUBSET (1..n) |->
                                IF T = {} THEN Default
                                ELSE WithOption(f[T \ {Topmost(T)}], line, Topmost(T))]
<1>1. n \in Nat
  BY DEF NumOptions
<1>2. \A config \in values : \A i : WithOption(config, line, i) \in values
  BY WithOptionType
<1>3. step \in [values \X (1..n) -> values]
  BY <1>1, <1>2
<1>4. PICK g : g \in [SUBSET (1..n) -> values] /\ Folds(g, step, Default, n)
  <2>1. n \in 0..n /\ Default \in values
    BY <1>1, DefaultType DEF Configurations
  <2>. HIDE DEF step, n, values
  <2>. QED  BY <1>1, <1>3, <2>1, FoldExists
<1>5. isFold(g)
  <2>1. ASSUME NEW T \in SUBSET (1..n), T # {}
        PROVE  step[<<g[T \ {Topmost(T)}], Topmost(T)>>]
                  = WithOption(g[T \ {Topmost(T)}], line, Topmost(T))
    <3>1. Topmost(T) \in 1..n
      <4>. HIDE DEF n
      <4>. QED  BY <1>1, <2>1, TopmostExists
    <3>2. g[T \ {Topmost(T)}] \in values
      BY <1>4
    <3>. HIDE DEF values
    <3>. QED  BY <3>1, <3>2
  <2>. HIDE DEF step, n, values
  <2>. QED  BY <1>4, <2>1 DEF Folds
<1>. DEFINE h == CHOOSE f : isFold(f)
<1>6. isFold(h) /\ Configured(line) = h[1..n]
  <2>1. isFold(h)
    <3>. HIDE DEF isFold
    <3>. QED  BY <1>5
  <2>2. Configured(line) = h[1..n]
    <3>. DEFINE positions == [i \in 1..n |-> i]
                isFoldOf(f) == f = [T \in SUBSET (1..n) |->
                                      IF T = {} THEN Default
                                      ELSE WithOption(f[T \ {Topmost(T)}], line,
                                                      positions[Topmost(T)])]
    <3>1. Configured(line) = (CHOOSE f : isFoldOf(f))[1..n]
      BY DEF Configured, FoldLeft, MapThenFoldSet, Max, Topmost
    <3>2. ASSUME NEW T \in SUBSET (1..n), T # {}
          PROVE  positions[Topmost(T)] = Topmost(T)
      <4>. HIDE DEF n
      <4>. QED  BY <1>1, <3>2, TopmostExists
    <3>3. ASSUME NEW f PROVE isFoldOf(f) <=> isFold(f)
      <4>. HIDE DEF n, positions
      <4>. QED  BY <3>2
    <3>4. (CHOOSE f : isFoldOf(f)) = h
      <4>. HIDE DEF isFold, isFoldOf
      <4>. QED  BY <3>3
    <3>. QED  BY <3>1, <3>4
  <2>. HIDE DEF isFold, h
  <2>. QED  BY <2>1, <2>2
<1>. HIDE DEF h
<1>. DEFINE r == [k \in 0..n |-> h[1..k]]
<1>7. r[0] = Default
  <2>1. 1..0 = {} /\ 0 \in 0..n
    BY <1>1
  <2>. QED  BY <1>6, <2>1
<1>8. ASSUME NEW k \in 1..n PROVE r[k] = WithOption(r[k - 1], line, k)
  <2>1. k \in 0..n /\ k - 1 \in 0..n
    BY <1>1
  <2>. QED  BY <1>1, <1>6, <2>1, FirstOnes
<1>9. r[n] = h[1..n]
  BY <1>1
<1>. HIDE DEF r
<1>. QED  BY <1>6, <1>7, <1>8, <1>9 DEF IsConfiguring

(* A line makes a configuration of accepted numbers, or none. *)
LEMMA ConfiguredType ==
    ASSUME NEW line, Len(line) \in Nat
    PROVE  Configured(line) \in Configurations
<1>1. PICK r : IsConfiguring(r, line) /\ Configured(line) = r[NumOptions(line)]
  BY ConfiguringRuns
<1>. DEFINE n == NumOptions(line)
            good == {k \in 0..n : r[k] \in Configurations}
<1>2. n \in Nat
  BY DEF NumOptions
<1>3. 0 \in good
  BY <1>1, <1>2, DefaultType DEF IsConfiguring, Configurations
<1>4. \A k \in 1..n : k - 1 \in good => k \in good
  BY <1>1, <1>2, WithOptionType DEF IsConfiguring
<1>5. \A k \in 0..n : k \in good
  <2>. HIDE DEF good, n
  <2>. QED  BY <1>2, <1>3, <1>4, UpTo
<1>. QED  BY <1>1, <1>2, <1>5

(* The i-th option is one, and its parameter a number it accepts. *)
IsGood(line, i) ==
    /\ IsOption(line, i)
    /\ LET k == OptionAt(line, i)[2]
       IN  Means(line[2 * i], Least(k), Greatest(k))

(* An option of the line has its parameter behind it. *)
LEMMA OptionIsText ==
    ASSUME NEW line \in Seq(Seq(STRING)), NEW i \in 1 .. NumOptions(line), IsOption(line, i)
    PROVE  /\ i \in 1 .. Len(line) \div 2 /\ 2 * i \in 1 .. Len(line)
           /\ line[2 * i] \in Seq(STRING)
           /\ OptionAt(line, i) = <<"-", OptionAt(line, i)[2]>>
           /\ OptionAt(line, i)[2] \in Options
<1>. DEFINE n == Len(line)
            option == line[2 * i - 1]
<1>1. n \in Nat /\ i \in 1 .. (n + 1) \div 2 /\ 2 * i <= n
  BY LenProperties DEF NumOptions, IsOption
<1>2. i \in 1 .. n \div 2 /\ 2 * i \in 1..n /\ 2 * i - 1 \in 1..n
  <2>. HIDE DEF n
  <2>. QED  BY <1>1
<1>3. line[2 * i] \in Seq(STRING) /\ option \in Seq(STRING)
  BY <1>2, ElementOfSeq
<1>4. Len(option) = 2 /\ Head(option) = "-" /\ option[2] \in Options
  BY DEF IsOption, OptionAt
<1>5. option = <<"-", option[2]>>
  <2>1. option[1] = "-"
    BY <1>3, <1>4
  <2>. HIDE DEF option
  <2>. QED  BY <1>3, <1>4, <2>1, LenProperties
<1>. QED  BY <1>2, <1>3, <1>4, <1>5 DEF OptionAt

(* One turn of the loop does what is written, or refuses. *)
LEMMA WithOptionAsWritten ==
    ASSUME NEW line \in Seq(Seq(STRING)), NEW i \in 1 .. NumOptions(line),
           \A j \in DOMAIN line : Plain(line[j]),
           NEW config \in Accepted
    PROVE  WithOption(config, line, i) =
              IF IsGood(line, i)
              THEN [config EXCEPT ![OptionAt(line, i)[2]] = Meant(line[2 * i])]
              ELSE NoConfiguration
<1>. DEFINE k == OptionAt(line, i)[2]
            text == line[2 * i]
<1>1. config # NoConfiguration
  BY NoConfigurationIsNone
<1>2. CASE ~IsOption(line, i)
  BY <1>2 DEF WithOption, IsGood
<1>3. CASE IsOption(line, i)
  <2>1. text \in Seq(STRING) /\ k \in Options /\ Plain(text)
    BY <1>3, OptionIsText, LenProperties
  <2>2. /\ Parsed(text) = IF IsNumber(text) THEN Meant(text) ELSE Refused
        /\ IsNumber(text) => Meant(text) \in -IntHalf .. IntHalf - 1
    <3>. HIDE DEF text
    <3>. QED  BY <2>1, ParsedIsMeant
  <2>3. Refused \notin Least(k) .. Greatest(k)
    BY <2>1, BoundsType, WordAssumption DEF Refused
  <2>4. ParsedBounded(text, Least(k), Greatest(k)) =
           IF IsGood(line, i) THEN Meant(text) ELSE Refused
    BY <1>3, <2>2, <2>3 DEF ParsedBounded, IsGood, Means
  <2>5. IsGood(line, i) => Meant(text) # Refused
    BY <2>2, WordAssumption DEF IsGood, Means, Refused
  <2>. QED  BY <1>1, <1>3, <2>4, <2>5 DEF WithOption
<1>. QED  BY <1>2, <1>3

(* An option that is not good ends the program, whatever the others are. *)
LEMMA NoOptionFollowsABadOne ==
    ASSUME NEW line \in Seq(Seq(STRING)), \A j \in DOMAIN line : Plain(line[j]),
           NEW i \in 1 .. NumOptions(line), ~IsGood(line, i)
    PROVE  Configured(line) = NoConfiguration
<1>. DEFINE n == NumOptions(line)
<1>1. n \in Nat /\ Len(line) \in Nat
  BY LenProperties DEF NumOptions
<1>2. PICK r : IsConfiguring(r, line) /\ Configured(line) = r[n]
  BY <1>1, ConfiguringRuns
<1>. DEFINE good == {k \in 0..n : r[k] \in Configurations /\ (k >= i => r[k] = NoConfiguration)}
<1>3. 0 \in good
  BY <1>1, <1>2, DefaultType DEF IsConfiguring, Configurations
<1>4. ASSUME NEW k \in 1..n, k - 1 \in good PROVE k \in good
  <2>1. r[k] = WithOption(r[k - 1], line, k) /\ r[k - 1] \in Configurations
    BY <1>2, <1>4 DEF IsConfiguring
  <2>2. r[k] \in Configurations /\ k \in 0..n
    BY <2>1, <1>1, WithOptionType
  <2>3. CASE r[k - 1] = NoConfiguration
    BY <2>1, <2>2, <2>3 DEF WithOption
  <2>4. CASE r[k - 1] # NoConfiguration /\ k = i
    BY <2>1, <2>2, <2>4, WithOptionAsWritten DEF Configurations
  <2>5. CASE r[k - 1] # NoConfiguration /\ k # i
    <3>1. ~(k >= i)
      BY <1>1, <1>4, <2>5
    <3>. QED  BY <2>2, <3>1
  <2>. QED  BY <2>3, <2>4, <2>5
<1>5. \A k \in 0..n : k \in good
  <2>. HIDE DEF good, n
  <2>. QED  BY <1>1, <1>3, <1>4, UpTo
<1>. QED  BY <1>1, <1>2, <1>5

(***************************************************************************)
(* After j options each option has the number it was given last among      *)
(* them, if any.                                                           *)
(***************************************************************************)
SaysLast(config, line, j) ==
    /\ config \in Accepted
    /\ \A k \in Options :
          IF Given(line, k) \cap 1..j = {} THEN config[k] = Default[k]
          ELSE \E i \in Given(line, k) \cap 1..j :
                  /\ \A m \in Given(line, k) \cap 1..j : m <= i
                  /\ config[k] = Meant(line[2 * i])

(* One more option keeps this so. *)
LEMMA SaysLastStep ==
    ASSUME NEW line \in Seq(Seq(STRING)), \A m \in DOMAIN line : Plain(line[m]),
           NEW j \in 1 .. NumOptions(line), IsGood(line, j),
           NEW config, SaysLast(config, line, j - 1)
    PROVE  SaysLast(WithOption(config, line, j), line, j)
<1>. DEFINE o == OptionAt(line, j)[2]
            after == WithOption(config, line, j)
<1>1. /\ IsOption(line, j) /\ o \in Options /\ j \in 1 .. Len(line) \div 2
      /\ OptionAt(line, j) = <<"-", o>>
  BY OptionIsText DEF IsGood
<1>2. config \in Accepted /\ after = [config EXCEPT ![o] = Meant(line[2 * j])]
  BY WithOptionAsWritten DEF SaysLast
<1>3. after \in Accepted
  <2>1. after \in Configurations
    BY <1>2, WithOptionType DEF Configurations
  <2>2. DOMAIN after = Options /\ DOMAIN NoConfiguration = {} /\ o \in Options
    BY <1>1, <1>2 DEF Accepted, NoConfiguration
  <2>. HIDE DEF after
  <2>. QED  BY <2>1, <2>2 DEF Configurations
<1>4. j \in Given(line, o) /\ \A k \in Options : k # o => j \notin Given(line, k)
  BY <1>1 DEF Given
<1>5. 1..j = (1 .. j - 1) \cup {j} /\ j \in Nat /\ \A m \in 1..j : m <= j
  BY <1>1
<1>6. ASSUME NEW k \in Options
      PROVE  IF Given(line, k) \cap 1..j = {} THEN after[k] = Default[k]
             ELSE \E i \in Given(line, k) \cap 1..j :
                     /\ \A m \in Given(line, k) \cap 1..j : m <= i
                     /\ after[k] = Meant(line[2 * i])
  <2>1. CASE k = o
    <3>1. after[k] = Meant(line[2 * j])
      BY <1>1, <1>2, <2>1 DEF Accepted
    <3>. HIDE DEF o, after
    <3>. QED  BY <1>4, <1>5, <2>1, <3>1
  <2>2. CASE k # o
    <3>1. after[k] = config[k]
      BY <1>1, <1>2, <2>2 DEF Accepted
    <3>2. Given(line, k) \cap 1..j = Given(line, k) \cap 1 .. j - 1
      BY <1>4, <1>5, <2>2
    <3>. HIDE DEF o, after
    <3>. QED  BY <3>1, <3>2 DEF SaysLast
  <2>. QED  BY <2>1, <2>2
<1>. QED  BY <1>3, <1>6 DEF SaysLast

(* A line of good options is taken as it is written. *)
LEMMA GoodOptionsAreTaken ==
    ASSUME NEW line \in Seq(Seq(STRING)), \A j \in DOMAIN line : Plain(line[j]),
           \A i \in 1 .. NumOptions(line) : IsGood(line, i)
    PROVE  \A k \in Options :
              IF Given(line, k) = {} THEN Configured(line)[k] = Default[k]
              ELSE \E i \in Given(line, k) :
                      /\ \A j \in Given(line, k) : j <= i
                      /\ Configured(line)[k] = Meant(line[2 * i])
<1>. DEFINE n == NumOptions(line)
<1>1. n \in Nat /\ Len(line) \in Nat
  BY LenProperties DEF NumOptions
<1>2. PICK r : IsConfiguring(r, line) /\ Configured(line) = r[n]
  BY <1>1, ConfiguringRuns
<1>. DEFINE good == {k \in 0..n : SaysLast(r[k], line, k)}
<1>3. 0 \in good
  <2>1. 1..0 = {} /\ 0 \in 0..n
    BY <1>1
  <2>. QED  BY <1>2, <2>1, DefaultType DEF IsConfiguring, SaysLast
<1>4. ASSUME NEW k \in 1..n, k - 1 \in good PROVE k \in good
  BY <1>1, <1>2, <1>4, SaysLastStep DEF IsConfiguring
<1>5. \A k \in 0..n : k \in good
  <2>. HIDE DEF good, n
  <2>. QED  BY <1>1, <1>3, <1>4, UpTo
<1>6. SaysLast(Configured(line), line, n)
  BY <1>1, <1>2, <1>5
<1>7. \A k \in Options : Given(line, k) \cap 1..n = Given(line, k)
  <2>1. \A i \in 1 .. Len(line) \div 2 : i \in 1..n
    BY <1>1 DEF NumOptions
  <2>. HIDE DEF n
  <2>. QED  BY <2>1 DEF Given
<1>. HIDE DEF n
<1>. QED  BY <1>6, <1>7 DEF SaysLast

-----------------------------------------------------------------------------
(* Addresses. *)

Chars == STRING \cup {":", "[", "]"}

(* The three characters that separate are characters like any other. *)
LEMMA CharsType ==
    /\ Seq(STRING) \subseteq Seq(Chars)
    /\ <<":">> \in Seq(Chars) /\ <<"[">> \in Seq(Chars) /\ <<"]", ":">> \in Seq(Chars)
    /\ Len(<<":">>) = 1 /\ Len(<<"[">>) = 1 /\ Len(<<"]", ":">>) = 2
<1>1. ASSUME NEW text \in Seq(STRING) PROVE text \in Seq(Chars)
  BY SeqMonotonic DEF Chars
<1>2. ":" \in Chars /\ "[" \in Chars /\ "]" \in Chars
  BY DEF Chars
<1>3. ASSUME NEW S, NEW x \in S, NEW y \in S
      PROVE  <<x>> \in Seq(S) /\ <<x, y>> \in Seq(S) /\ Len(<<x>>) = 1 /\ Len(<<x, y>>) = 2
  OBVIOUS
<1>. QED  BY <1>1, <1>2, <1>3

(* The colons of a text are positions of it. *)
LEMMA ColonsType ==
    ASSUME NEW text \in Seq(Chars)
    PROVE  /\ Colons(text) \subseteq 1 .. Len(text) /\ Len(text) \in Nat
           /\ SeveralColons(text) <=> \E i, j \in Colons(text) : i # j
<1>. DEFINE colons == Colons(text)
<1>1. colons \subseteq 1 .. Len(text) /\ Len(text) \in Nat
  BY LenProperties DEF Colons
<1>2. IsFiniteSet(colons) /\ Cardinality(colons) \in Nat
  <2>. HIDE DEF colons
  <2>1. IsFiniteSet(1 .. Len(text)) /\ colons \in SUBSET (1 .. Len(text))
    BY <1>1, FS_Interval
  <2>2. IsFiniteSet(colons)
    BY ONLY <2>1, FS_Subset
  <2>. QED  BY <2>2, FS_CardinalityType
<1>3. ASSUME \A i, j \in colons : i = j PROVE ~(Cardinality(colons) > 1)
  <2>. HIDE DEF colons
  <2>1. CASE colons = {}
    BY <2>1, FS_EmptySet
  <2>2. CASE colons # {}
    <3>1. PICK i \in colons : TRUE
      BY <2>2
    <3>2. colons = {i}
      BY <1>3, <3>1
    <3>3. Cardinality({i}) = 1
      BY FS_Singleton
    <3>. QED  BY <3>2, <3>3
  <2>. QED  BY <2>1, <2>2
<1>4. ASSUME NEW i \in colons, NEW j \in colons, i # j PROVE Cardinality(colons) > 1
  <2>. HIDE DEF colons
  <2>1. {i, j} \subseteq colons
    BY <1>4
  <2>2. Cardinality({i, j}) = 2
    <3>1. IsFiniteSet({i}) /\ Cardinality({i}) = 1 /\ {i, j} = {i} \cup {j} /\ j \notin {i}
      BY <1>4, FS_Singleton
    <3>2. Cardinality({i} \cup {j}) = Cardinality({i}) + 1
      BY ONLY <3>1, FS_AddElement
    <3>. QED  BY <3>1, <3>2
  <2>3. Cardinality({i, j}) <= Cardinality(colons)
    BY <1>2, <2>1, FS_Subset
  <2>. QED  BY <1>2, <2>2, <2>3
<1>. QED  BY <1>1, <1>3, <1>4 DEF SeveralColons

(* The colon behind which there is no other is the one that separates. *)
LEMMA LastColonIs ==
    ASSUME NEW text \in Seq(Chars), NEW m \in Colons(text), \A j \in Colons(text) : j <= m
    PROVE  LastColon(text) = m
<1>1. Colons(text) \subseteq Int
  BY ColonsType
<1>2. \A k \in Colons(text) : (\A j \in Colons(text) : j <= k) => k = m
  BY <1>1
<1>. QED  BY <1>2 DEF LastColon

(***************************************************************************)
(* split_hostname undoes how a host and a port are put together.           *)
(***************************************************************************)
LEMMA SplitHost ==
    ASSUME NEW host \in Hosts
    PROVE  SplitHostname(host) = [host |-> host, hasPort |-> FALSE, port |-> << >>]
<1>1. host \in Seq(Chars) /\ (Colons(host) = {} \/ (SeveralColons(host) /\ Head(host) # "["))
  BY TextsAssumption, CharsType
<1>2. CASE Colons(host) = {}
  BY <1>2 DEF SplitHostname
<1>3. CASE SeveralColons(host) /\ Head(host) # "["
  BY <1>1, <1>3 DEF SplitHostname, Bracketed
<1>. QED  BY <1>1, <1>2, <1>3

(* A host without a colon and a port, ... *)
LEMMA SplitHostAndPort ==
    ASSUME NEW host \in Seq(Chars), NEW port \in Seq(Chars),
           Colons(host) = {}, Colons(port) = {}
    PROVE  SplitHostname(host \o <<":">> \o port)
              = [host |-> host, hasPort |-> TRUE, port |-> port]
<1>. DEFINE h == Len(host)
            p == Len(port)
            text == host \o <<":">> \o port
<1>1. h \in Nat /\ p \in Nat
  BY LenProperties
<1>2. text \in Seq(Chars) /\ Len(text) = h + 1 + p
  <2>2. host \o <<":">> \in Seq(Chars) /\ Len(host \o <<":">>) = h + 1
    BY CharsType, ConcatProperties
  <2>. QED  BY <2>2, ConcatProperties
<1>3. /\ \A i \in 1..h : text[i] = host[i]
      /\ text[h + 1] = ":"
      /\ \A i \in 1..p : text[h + 1 + i] = port[i]
  BY <1>1
<1>. HIDE DEF text
<1>4. Colons(text) = {h + 1}
  <2>1. h + 1 \in Colons(text)
    BY <1>1, <1>2, <1>3, LenProperties DEF Colons
  <2>2. ASSUME NEW k \in Colons(text) PROVE k = h + 1
    <3>1. k \in 1 .. h + 1 + p /\ text[k] = ":"
      BY <1>2, LenProperties DEF Colons
    <3>2. CASE k \in 1..h
      BY <1>3, <3>1, <3>2, LenProperties DEF Colons
    <3>3. CASE k - (h + 1) \in 1..p
      <4>. DEFINE i == k - (h + 1)
      <4>1. text[h + 1 + i] = port[i] /\ h + 1 + i = k
        BY <1>1, <1>3, <3>1, <3>3
      <4>. QED  BY <3>1, <3>3, <4>1, LenProperties DEF Colons
    <3>. QED  BY <1>1, <3>1, <3>2, <3>3
  <2>. QED  BY <2>1, <2>2
<1>5. LastColon(text) = h + 1 /\ ~SeveralColons(text)
  <2>1. h + 1 \in Colons(text) /\ \A j \in Colons(text) : j <= h + 1
    BY <1>1, <1>4
  <2>2. ~ \E i, j \in Colons(text) : i # j
    BY <1>4
  <2>. QED  BY <1>2, <2>1, <2>2, LastColonIs, ColonsType
<1>6. SubSeq(text, 1, h) = host
  <2>1. SubSeq(text, 1, h) \in Seq(Chars) /\ Len(SubSeq(text, 1, h)) = h
           /\ \A i \in 1..h : SubSeq(text, 1, h)[i] = text[i]
    BY <1>1, <1>2, ElementOfSeq, SubSeqProperties
  <2>. QED  BY <1>3, <2>1, SeqEqual
<1>7. SubSeq(text, h + 2, h + 1 + p) = port
  <2>1. /\ SubSeq(text, h + 2, h + 1 + p) \in Seq(Chars)
        /\ Len(SubSeq(text, h + 2, h + 1 + p)) = p
        /\ \A i \in 1..p : SubSeq(text, h + 2, h + 1 + p)[i] = text[h + 1 + i]
    BY <1>1, <1>2, ElementOfSeq, SubSeqProperties
  <2>. QED  BY <1>3, <2>1, SeqEqual
<1>8. SplitHostname(text) = [host |-> host, hasPort |-> TRUE, port |-> port]
  <2>1. LastColon(text) - 1 = h /\ LastColon(text) + 1 = h + 2
    BY <1>1, <1>5
  <2>. QED  BY <1>2, <1>4, <1>5, <1>6, <1>7, <2>1 DEF SplitHostname, Host
<1>. QED  BY <1>8 DEF text

(* ... and one in brackets and a port. *)
LEMMA SplitBracketsAndPort ==
    ASSUME NEW host \in Seq(Chars), NEW port \in Seq(Chars),
           SeveralColons(host), Colons(port) = {}
    PROVE  SplitHostname(<<"[">> \o host \o <<"]", ":">> \o port)
              = [host |-> host, hasPort |-> TRUE, port |-> port]
<1>. DEFINE h == Len(host)
            p == Len(port)
            text == <<"[">> \o host \o <<"]", ":">> \o port
<1>1. h \in Nat /\ p \in Nat
  BY LenProperties
<1>2. text \in Seq(Chars) /\ Len(text) = h + 3 + p
  <2>2. <<"[">> \o host \in Seq(Chars) /\ Len(<<"[">> \o host) = 1 + h
    BY CharsType, ConcatProperties
  <2>3. /\ <<"[">> \o host \o <<"]", ":">> \in Seq(Chars)
        /\ Len(<<"[">> \o host \o <<"]", ":">>) = 1 + h + 2
    BY CharsType, <2>2, ConcatProperties
  <2>4. text \in Seq(Chars) /\ Len(text) = 1 + h + 2 + p
    BY <2>3, ConcatProperties
  <2>. QED  BY <1>1, <2>4
<1>3. /\ text[1] = "[" /\ text[h + 2] = "]" /\ text[h + 3] = ":"
      /\ \A i \in 1..h : text[1 + i] = host[i]
      /\ \A i \in 1..p : text[h + 3 + i] = port[i]
  BY <1>1
<1>. HIDE DEF text
<1>4. h + 3 \in Colons(text) /\ \A k \in Colons(text) : k <= h + 3
  <2>1. h + 3 \in Colons(text)
    BY <1>1, <1>2, <1>3, LenProperties DEF Colons
  <2>2. ASSUME NEW k \in Colons(text) PROVE k <= h + 3
    <3>1. k \in 1 .. h + 3 + p /\ text[k] = ":"
      BY <1>2, LenProperties DEF Colons
    <3>2. CASE k - (h + 3) \in 1..p
      <4>. DEFINE i == k - (h + 3)
      <4>1. text[h + 3 + i] = port[i] /\ h + 3 + i = k
        BY <1>1, <1>3, <3>1, <3>2
      <4>. QED  BY <3>1, <3>2, <4>1, LenProperties DEF Colons
    <3>. QED  BY <1>1, <3>1, <3>2
  <2>. QED  BY <2>1, <2>2
<1>5. LastColon(text) = h + 3
  BY <1>2, <1>4, LastColonIs
<1>6. SeveralColons(text)
  <2>1. PICK i, j \in Colons(host) : i # j
    BY ColonsType
  <2>2. i \in 1..h /\ j \in 1..h /\ host[i] = ":"
    BY ColonsType DEF Colons
  <2>3. 1 + i \in Colons(text) /\ 1 + i # h + 3
    BY <1>1, <1>2, <1>3, <2>2, LenProperties DEF Colons
  <2>. QED  BY <1>2, <1>4, <2>3, ColonsType
<1>7. SubSeq(text, 2, h + 1) = host
  <2>1. /\ SubSeq(text, 2, h + 1) \in Seq(Chars) /\ Len(SubSeq(text, 2, h + 1)) = h
        /\ \A i \in 1..h : SubSeq(text, 2, h + 1)[i] = text[1 + i]
    BY <1>1, <1>2, ElementOfSeq, SubSeqProperties
  <2>. QED  BY <1>3, <2>1, SeqEqual
<1>8. SubSeq(text, h + 4, h + 3 + p) = port
  <2>1. /\ SubSeq(text, h + 4, h + 3 + p) \in Seq(Chars)
        /\ Len(SubSeq(text, h + 4, h + 3 + p)) = p
        /\ \A i \in 1..p : SubSeq(text, h + 4, h + 3 + p)[i] = text[h + 3 + i]
    BY <1>1, <1>2, ElementOfSeq, SubSeqProperties
  <2>. QED  BY <1>3, <2>1, SeqEqual
<1>9. Bracketed(text) /\ Colons(text) # {}
  BY <1>1, <1>3, <1>4, <1>5 DEF Bracketed
<1>10. SplitHostname(text) = [host |-> host, hasPort |-> TRUE, port |-> port]
  <2>1. LastColon(text) - 2 = h + 1 /\ LastColon(text) + 1 = h + 4
    BY <1>1, <1>5
  <2>. QED  BY <1>2, <1>6, <1>7, <1>8, <1>9, <2>1 DEF SplitHostname, Host
<1>. QED  BY <1>10 DEF text

(***************************************************************************)
(* An address that is read is the one that was written, and its port is    *)
(* refused unless it is a port.                                            *)
(***************************************************************************)
LEMMA AddressAsWritten ==
    ASSUME NEW a \in Addresses, Plain(a.port), NEW other, NEW port \in 0 .. PortRange - 1
    PROVE  IF HasPort(a)
           THEN /\ IsRead(a, Address(TextOf(a), other, port), port)
                /\ Address(TextOf(a), other, port).port # Refused
           ELSE Address(TextOf(a), other, port).port = Refused
<1>. DEFINE read == Address(TextOf(a), other, port)
<1>1. a.host \in Hosts /\ (a.port = NoText \/ a.port \in Ports)
  BY DEF Addresses
<1>2. CASE a.port = NoText
  <2>1. read = [host |-> a.host, port |-> port]
    BY <1>1, <1>2, SplitHost DEF Address, TextOf
  <2>2. port # Refused
    BY StartUpAssumption, WordAssumption DEF Refused
  <2>. QED  BY <1>2, <2>1, <2>2 DEF HasPort, IsRead
<1>3. CASE a.port # NoText
  <2>1. a.host \in Seq(STRING) /\ a.port \in Seq(STRING) /\ Colons(a.port) = {}
           /\ (Colons(a.host) = {} \/ SeveralColons(a.host))
    BY <1>1, <1>3, TextsAssumption
  <2>2. SplitHostname(TextOf(a)) = [host |-> a.host, hasPort |-> TRUE, port |-> a.port]
    <3>1. CASE Colons(a.host) = {}
      BY <1>3, <2>1, <3>1, SplitHostAndPort, CharsType DEF TextOf
    <3>2. CASE Colons(a.host) # {}
      BY <1>3, <2>1, <3>2, SplitBracketsAndPort, CharsType DEF TextOf
    <3>. QED  BY <3>1, <3>2
  <2>3. read = [host |-> a.host, port |-> ParsedBounded(a.port, 0, PortRange - 1)]
    BY <2>2 DEF Address
  <2>4. /\ Parsed(a.port) = IF IsNumber(a.port) THEN Meant(a.port) ELSE Refused
        /\ IsNumber(a.port) => Meant(a.port) \in -IntHalf .. IntHalf - 1
    BY <2>1, ParsedIsMeant
  <2>5. Refused \notin 0 .. PortRange - 1
    BY StartUpAssumption, WordAssumption DEF Refused
  <2>6. ParsedBounded(a.port, 0, PortRange - 1) =
           IF HasPort(a) THEN Meant(a.port) ELSE Refused
    BY <1>3, <2>4, <2>5 DEF ParsedBounded, HasPort, Means
  <2>7. HasPort(a) => Meant(a.port) # Refused
    BY <1>3, <2>5 DEF HasPort, Means
  <2>. QED  BY <1>3, <2>3, <2>6, <2>7 DEF IsRead
<1>. QED  BY <1>2, <1>3

(* The settings of the client are what its command line says. *)
LEMMA SettingsAreRead ==
    ASSUME NEW line, Len(line) \in {2, 3}, NEW game, NEW gui,
           game = Address(line[2], << >>, 12345),
           gui = IF Len(line) = 2 THEN LocalHost ELSE Address(line[3], << >>, 12346)
    PROVE  IF \/ Len(line[1]) > MaxNameLen
              \/ game.port = Refused \/ gui.port = Refused
           THEN SettingsOf(line) = Nobody
           ELSE /\ SettingsOf(line) # Nobody
                /\ SettingsOf(line).game = game /\ SettingsOf(line).gui = gui
<1>. DEFINE name == IF line[1] = EmptyName THEN << >> ELSE line[1]
            settled == [name |-> name, game |-> game, gui |-> gui]
<1>1. SettingsOf(line) = IF \/ Len(line[1]) > MaxNameLen
                            \/ game.port = Refused \/ gui.port = Refused
                         THEN Nobody ELSE settled
  BY DEF SettingsOf
<1>2. settled # Nobody /\ settled.game = game /\ settled.gui = gui
  <2>1. DOMAIN settled = {"name", "game", "gui"} /\ DOMAIN Nobody = {"name"}
    BY DEF Nobody
  <2>2. DOMAIN settled # DOMAIN Nobody
    <3>. HIDE DEF settled
    <3>. QED  BY <2>1
  <2>. HIDE DEF name
  <2>. QED  BY <2>2
<1>. HIDE DEF settled
<1>. QED  BY <1>1, <1>2

-----------------------------------------------------------------------------
(***************************************************************************)
(* What holds of the programs while they start: the line that is read is   *)
(* one that may be given, the configuration of a server that runs is of    *)
(* accepted numbers, and the name of a client is a text.                   *)
(***************************************************************************)
StartUpInv ==
    /\ stage = "server" => argv \in ServerLines
    /\ stage = "hosting" => configuration \in Accepted
    /\ stage = "client" => argv \in ClientLines
    /\ stage = "connecting" => settings.name \in Seq(STRING)

StartUpNext == ConfigureServer \/ StartClient \/ ConfigureClient \/ Connect

(* It holds at the beginning, ... *)
LEMMA StartUpInvInit == StartUpInit => StartUpInv
BY DEF StartUpInit, StartUpInv

(* A client line with an address has a name. *)
LEMMA ClientLinesType ==
    ASSUME NEW line \in ClientLines
    PROVE  Len(line) \in Nat /\ (Len(line) >= 2 => line[1] \in Names)
BY DEF ClientLines

(* The name in the settings is one that was given, or none. *)
LEMMA SettingsNameType ==
    ASSUME NEW line \in ClientLines
    PROVE  SettingsOf(line).name \in Seq(STRING)
<1>1. << >> \in Seq(STRING)
  OBVIOUS
<1>2. CASE SettingsOf(line) = Nobody
  BY <1>1, <1>2 DEF Nobody
<1>3. CASE SettingsOf(line) # Nobody
  <2>. DEFINE game == Address(line[2], << >>, 12345)
              gui == IF Len(line) < 3 THEN LocalHost ELSE Address(line[3], << >>, 12346)
              name == IF line[1] = EmptyName THEN << >> ELSE line[1]
  <2>1. ~(Len(line) < 2) /\ SettingsOf(line).name \in {<< >>, line[1]}
    <3>1. ~(Len(line) < 2) /\ SettingsOf(line) = [name |-> name, game |-> game, gui |-> gui]
      BY <1>3 DEF SettingsOf
    <3>. HIDE DEF game, gui
    <3>. QED  BY <3>1
  <2>2. line[1] \in Seq(STRING)
    BY <2>1, ClientLinesType, TextsAssumption
  <2>. QED  BY <1>1, <2>1, <2>2
<1>. QED  BY <1>2, <1>3

(* ... and every step of the start keeps it. *)
LEMMA StartUpInvStep ==
    ASSUME StartUpInv, [StartUpNext]_startUp
    PROVE  StartUpInv'
<1>1. CASE UNCHANGED startUp
  BY <1>1 DEF startUp, StartUpInv
<1>2. CASE ConfigureServer
  <2>1. argv \in ServerLines /\ Len(argv) \in Nat
    BY <1>2, TextsAssumption, LenProperties DEF ConfigureServer, StartUpInv
  <2>2. configuration' \in Configurations
    BY <1>2, <2>1, ConfiguredType DEF ConfigureServer
  <2>. QED  BY <1>2, <2>2 DEF ConfigureServer, StartUpInv, Configurations
<1>3. CASE StartClient
  BY <1>3 DEF StartClient, StartUpInv
<1>4. CASE ConfigureClient
  <2>1. argv \in ClientLines /\ settings' = SettingsOf(argv)
    BY <1>4 DEF ConfigureClient, StartUpInv
  <2>2. settings'.name \in Seq(STRING)
    BY <2>1, SettingsNameType
  <2>. QED  BY <1>4, <2>2 DEF ConfigureClient, StartUpInv
<1>5. CASE Connect
  BY <1>5 DEF Connect, StartUpInv
<1>. QED  BY <1>1, <1>2, <1>3, <1>4, <1>5 DEF StartUpNext

(* A configuration of accepted numbers is one a game can be played with. *)
LEMMA StartUpInvSound == StartUpInv => ConfigurationIsSound
<1>. SUFFICES ASSUME StartUpInv, stage = "hosting"
              PROVE  /\ \A k \in {"W", "H", "s"} : configuration[k] \in 1 .. OptionRange - 1
                     /\ configuration["t"] \in 0 .. OptionRange - 1
  BY DEF ConfigurationIsSound
<1>1. configuration \in Accepted
  BY DEF StartUpInv
<1>2. \A k \in Options : configuration[k] \in (Least(k) .. Greatest(k)) \cup {Default[k]}
  BY <1>1 DEF Accepted
<1>3. ASSUME NEW k \in {"W", "H", "s"} PROVE configuration[k] \in 1 .. OptionRange - 1
  BY <1>2, StartUpAssumption DEF Options, Least, Greatest, Default
<1>4. configuration["t"] \in 0 .. OptionRange - 1
  BY <1>2, StartUpAssumption DEF Options, Least, Greatest, Default
<1>. QED  BY <1>3, <1>4

(* A name of 2 to 63 characters is read whole out of its message: the zero *)
(* that as_stream leaves out is one that from does not take off.           *)
LEMMA NameHeardIsWhole ==
    ASSUME NEW name \in Seq(STRING), IsValidPlayerName(name), Len(name) \in 2 .. MaxNameLen - 1
    PROVE  NameHeard(name) = name
<1>. DEFINE n == Len(name)
<1>1. n \in 2..63
  BY DEF MaxNameLen
<1>2. NameLenRead(MessageLen(name)) = n /\ ~(MessageLen(name) <= MinMessageLen)
  <2>1. MessageLen(name) = 13 + n
    BY DEF MessageLen, HeaderLen
  <2>2. MinMessageLen = 14 /\ MaxNameLen = 64
    BY DEF MinMessageLen, HeaderLen, MaxNameLen
  <2>. HIDE DEF n
  <2>. QED  BY <1>1, <2>1, <2>2 DEF NameLenRead
<1>3. SubSeq(name, 1, Len(name)) = name
  BY SubSeqProperties, LenProperties
<1>. QED  BY <1>2, <1>3 DEF NameHeard

(* So the name of a client that connects arrives. *)
LEMMA StartUpInvNames == StartUpInv => NamesArrive
BY NameHeardIsWhole DEF StartUpInv, NamesArrive

-----------------------------------------------------------------------------
(***************************************************************************)
(* The two action properties, of every step of the programs.               *)
(***************************************************************************)
LEMMA OptionsStepHolds ==
    ASSUME StartUpInv, [StartUpNext]_startUp
    PROVE  [OptionsStep]_startUp
<1>. SUFFICES ASSUME StartUpNext, stage = "server", \A i \in DOMAIN argv : Plain(argv[i])
              PROVE  OptionsStep
  BY DEF OptionsStep
<1>1. ConfigureServer
  BY DEF StartUpNext, StartClient, ConfigureClient, Connect
<1>2. argv \in Seq(Seq(STRING)) /\ configuration' = Configured(argv)
  BY <1>1, TextsAssumption DEF StartUpInv, ConfigureServer
<1>3. CASE \A i \in 1 .. NumOptions(argv) : IsGood(argv, i)
  BY <1>2, <1>3, GoodOptionsAreTaken DEF OptionsStep, IsGood
<1>4. CASE ~ \A i \in 1 .. NumOptions(argv) : IsGood(argv, i)
  <2>1. configuration' = NoConfiguration
    BY <1>2, <1>4, NoOptionFollowsABadOne
  <2>2. stage' = "ended"
    BY <1>1, <2>1 DEF ConfigureServer
  <2>. QED  BY <1>4, <2>2 DEF OptionsStep, IsGood
<1>. QED  BY <1>3, <1>4

(* The client takes its settings as they are written. *)
LEMMA SettingsStepHolds ==
    ASSUME [StartUpNext]_startUp
    PROVE  [SettingsStep]_startUp
<1>. SUFFICES ASSUME StartUpNext, stage = "client"
              PROVE  SettingsStep
  BY DEF SettingsStep
<1>1. /\ settings' = SettingsOf(argv)
      /\ stage' = IF settings' = Nobody THEN "ended" ELSE "connecting"
  BY DEF StartUpNext, ConfigureServer, StartClient, ConfigureClient, Connect
<1>2. 12345 \in 0 .. PortRange - 1 /\ 12346 \in 0 .. PortRange - 1 /\ LocalHost.port # Refused
  BY StartUpAssumption, WordAssumption DEF LocalHost, Refused
<1>3. ASSUME NEW name \in Names,
             NEW game \in {a \in Addresses : Plain(a.port)},
             NEW gui \in {a \in Addresses : Plain(a.port)}
      PROVE  /\ argv = <<name, TextOf(game)>> =>
                   IF HasPort(game) /\ Len(name) <= MaxNameLen
                   THEN IsRead(game, settings'.game, 12345) /\ settings'.gui = LocalHost
                   ELSE stage' = "ended"
             /\ argv = <<name, TextOf(game), TextOf(gui)>> =>
                   IF HasPort(game) /\ HasPort(gui) /\ Len(name) <= MaxNameLen
                   THEN IsRead(game, settings'.game, 12345) /\ IsRead(gui, settings'.gui, 12346)
                   ELSE stage' = "ended"
  <2>. DEFINE readGame == Address(TextOf(game), << >>, 12345)
              readGui == Address(TextOf(gui), << >>, 12346)
  <2>1. Len(name) \in Nat
    BY TextsAssumption, LenProperties
  <2>2. IF HasPort(game) THEN IsRead(game, readGame, 12345) /\ readGame.port # Refused
        ELSE readGame.port = Refused
    BY <1>2, AddressAsWritten
  <2>3. IF HasPort(gui) THEN IsRead(gui, readGui, 12346) /\ readGui.port # Refused
        ELSE readGui.port = Refused
    BY <1>2, AddressAsWritten
  <2>. HIDE DEF readGame, readGui
  <2>4. ASSUME argv = <<name, TextOf(game)>>
        PROVE  IF HasPort(game) /\ Len(name) <= MaxNameLen
               THEN IsRead(game, settings'.game, 12345) /\ settings'.gui = LocalHost
               ELSE stage' = "ended"
    <3>1. Len(argv) = 2 /\ argv[1] = name /\ argv[2] = TextOf(game)
      BY <2>4
    <3>2. IF Len(name) > MaxNameLen \/ readGame.port = Refused
          THEN SettingsOf(argv) = Nobody
          ELSE /\ SettingsOf(argv) # Nobody
               /\ SettingsOf(argv).game = readGame /\ SettingsOf(argv).gui = LocalHost
      <4>1. readGame = Address(argv[2], << >>, 12345)
        BY <3>1 DEF readGame
      <4>. QED  BY <1>2, <3>1, <4>1, SettingsAreRead
    <3>. QED  BY <1>1, <2>1, <2>2, <3>2 DEF MaxNameLen
  <2>5. ASSUME argv = <<name, TextOf(game), TextOf(gui)>>
        PROVE  IF HasPort(game) /\ HasPort(gui) /\ Len(name) <= MaxNameLen
               THEN IsRead(game, settings'.game, 12345) /\ IsRead(gui, settings'.gui, 12346)
               ELSE stage' = "ended"
    <3>1. Len(argv) = 3 /\ argv[1] = name /\ argv[2] = TextOf(game) /\ argv[3] = TextOf(gui)
      BY <2>5
    <3>2. IF Len(name) > MaxNameLen \/ readGame.port = Refused \/ readGui.port = Refused
          THEN SettingsOf(argv) = Nobody
          ELSE /\ SettingsOf(argv) # Nobody
               /\ SettingsOf(argv).game = readGame /\ SettingsOf(argv).gui = readGui
      <4>1. /\ readGame = Address(argv[2], << >>, 12345)
            /\ readGui = Address(argv[3], << >>, 12346)
        BY <3>1 DEF readGame, readGui
      <4>. QED  BY <3>1, <4>1, SettingsAreRead
    <3>. QED  BY <1>1, <2>1, <2>2, <2>3, <3>2 DEF MaxNameLen
  <2>. QED  BY <2>4, <2>5
<1>. QED  BY <1>3 DEF SettingsStep

=============================================================================
