--------------------------- MODULE MCPlayerStation ---------------------------
(***************************************************************************)
(* Instances of PlayerStation for TLC.  A pixel is two units wide and the  *)
(* snakes move along the axes.  The widths of the words are small enough   *)
(* for texts beyond them: 65537 wraps to 1 in 16 bits, 13999 is the last   *)
(* port and 16383 the last 32 bit number.                                  *)
(***************************************************************************)
EXTENDS PlayerStation

AxisCos == [d \in Degrees |-> CASE d = 0 -> 2 [] d = 180 -> -2 [] OTHER -> 0]
AxisSin == [d \in Degrees |-> CASE d = 90 -> 2 [] d = 270 -> -2 [] OTHER -> 0]

Numerals == {<< >>, <<"-">>, <<"0">>, <<"-", "0">>, <<"+", "7">>, <<"-", "1">>, <<"7", "x">>,
             <<"1", "3", "9", "9", "9">>, <<"1", "4", "0", "0", "0">>,
             <<"1", "6", "3", "8", "3">>, <<"1", "6", "3", "8", "4">>,
             <<"3", "2", "7", "6", "7">>, <<"3", "2", "7", "6", "8">>,
             <<"-", "3", "2", "7", "6", "8">>, <<"6", "5", "5", "3", "7">>}

(* An option and its parameter; two of them; and lines gone wrong. *)
With(options) == {<<<<"-", k>>, n>> : k \in options, n \in Numerals}

SomeServerLines ==
    With(Options \cup {"x"})
       \cup {p \o q : p \in With({"W", "p"}), q \in With({"W", "t"})}
       \cup {p \o <<<<"-", "H">>>> : p \in With({"W"})}
       \cup {<< >>, <<<<"-", "W">>>>, <<<<"W">>, <<"7">>>>, <<<< >>, <<"7">>>>}

SomeNames == {<< >>, <<"\"", "\"">>, <<"a">>, <<"a", "b">>, <<"a", " ", "b">>}
                \cup {[k \in 1..n |-> "a"] : n \in 63..65}
SomeHosts == {<<"h">>, <<":", ":", "1">>}
SomePorts == {<< >>, <<"0">>, <<"+", "7">>, <<"1", "3", "9", "9", "9">>, <<"1", "4", "0", "0", "0">>}

(* For questions that have nothing to do with the command lines. *)
NoLines == {<< >>}
OneName == {<<"a", "b">>}
OneHost == {<<"h">>}
NoPorts == {}

=============================================================================
