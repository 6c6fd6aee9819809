------------------------------ MODULE Arguments ------------------------------
(***************************************************************************)
(* How src/util.cc and the clients of it read texts: numbers, host names   *)
(* with a port, and the names of players, from the command line and out of *)
(* a message.  A text is a sequence of characters.                         *)
(***************************************************************************)
EXTENDS Integers, FiniteSets, SequencesExt

CONSTANT IntHalf     \* 2^63, half the values of std::int64_t

ASSUME WordAssumption == IntHalf \in Nat \ {0}

Refused == 2 * IntHalf        \* an exception instead of a number

Digits == {"0", "1", "2", "3", "4", "5", "6", "7", "8", "9"}
Value == [c \in Digits |->
    CASE c = "0" -> 0 [] c = "1" -> 1 [] c = "2" -> 2 [] c = "3" -> 3 [] c = "4" -> 4
      [] c = "5" -> 5 [] c = "6" -> 6 [] c = "7" -> 7 [] c = "8" -> 8 [] c = "9" -> 9]

(***************************************************************************)
(* A signed 64 bit number.  Overflow is undefined in the language; the     *)
(* number wraps in the builds at hand.                                     *)
(***************************************************************************)
Wrapped(n) == ((n + IntHalf) % (2 * IntHalf)) - IntHalf

(***************************************************************************)
(* The loop of parse: the number is built as a negative one, because there *)
(* is one more of these, and a sum above zero shows an overflow.           *)
(***************************************************************************)
Accumulated(sum, c) ==
    IF sum = Refused \/ c \notin Digits THEN Refused
    ELSE LET next == Wrapped(10 * sum - Value[c])
         IN  IF next > 0 THEN Refused ELSE next

Negative(text) == Head(text) = "-"
Unsigned(text) == IF Head(text) \in {"+", "-"} THEN Tail(text) ELSE text

Parsed(text) ==
    IF text = << >> THEN Refused
    ELSE LET sum == FoldLeft(Accumulated, 0, Unsigned(text))
             number == IF Negative(text) THEN sum ELSE Wrapped(-sum)
             overflows == number # 0 /\ Negative(text) # (number < 0)
         IN  IF sum = Refused \/ overflows THEN Refused ELSE number

(* Fault: the least value is not looked at. *)
ParsedBounded_NoMin(text, min, max) ==
    IF Parsed(text) <= max THEN Parsed(text) ELSE Refused

ParsedBounded(text, min, max) ==
    IF Parsed(text) \in min .. max THEN Parsed(text) ELSE Refused

-----------------------------------------------------------------------------
(***************************************************************************)
(* split_hostname.  What follows the last colon is the port.  A text with  *)
(* more than one colon is an IPv6 address, and has a port only if the      *)
(* address is in brackets.                                                 *)
(***************************************************************************)
Colons(text) == {k \in DOMAIN text : text[k] = ":"}
LastColon(text) == CHOOSE k \in Colons(text) : \A j \in Colons(text) : j <= k
SeveralColons(text) == Cardinality(Colons(text)) > 1
Bracketed(text) == text[1] = "[" /\ text[LastColon(text) - 1] = "]"

(* Fault: the brackets are left around the host. *)
Host_InBrackets(text) == SubSeq(text, 1, LastColon(text) - 1)

Host(text) ==
    IF SeveralColons(text) THEN SubSeq(text, 2, LastColon(text) - 2)
    ELSE SubSeq(text, 1, LastColon(text) - 1)

SplitHostname(text) ==
    IF Colons(text) = {} \/ (SeveralColons(text) /\ ~Bracketed(text))
    THEN [host |-> text, hasPort |-> FALSE, port |-> << >>]
    ELSE [host |-> Host(text), hasPort |-> TRUE,
          port |-> SubSeq(text, LastColon(text) + 1, Len(text))]

-----------------------------------------------------------------------------
(***************************************************************************)
(* Names.  isprint and the test for a space leave the characters of        *)
(* Unprintable out; the default allows an empty name.                      *)
(***************************************************************************)
MaxNameLen == 64
Unprintable == {" ", "\t"}
IsValidPlayerName(name) ==
    Len(name) <= MaxNameLen /\ \A k \in DOMAIN name : name[k] \notin Unprintable

NoText == <<"refused">>

(***************************************************************************)
(* client_message::as_stream puts 13 bytes before the name and nothing     *)
(* after it; client_message::from counts on 13 and a terminating zero.     *)
(***************************************************************************)
HeaderLen == 8 + 1 + 4
MessageLen(name) == HeaderLen + Len(name)
MinMessageLen == HeaderLen + 1

(* Fault: the terminating zero that is not there is taken off. *)
NameLenRead_WithoutZero(len) == len - MinMessageLen

NameLenRead(len) ==
    IF len - MinMessageLen + 1 < MaxNameLen THEN len - MinMessageLen + 1 ELSE MaxNameLen

NameHeard(name) ==
    LET len == MessageLen(name)
        read == SubSeq(name, 1, NameLenRead(len))
    IN  IF len <= MinMessageLen \/ ~IsValidPlayerName(read) THEN NoText ELSE read

=============================================================================
