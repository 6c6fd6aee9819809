----------------------------- MODULE LogFollower -----------------------------
(***************************************************************************)
(* What a client promises its front end: it follows the logs of the games  *)
(* in their order.  After an event of a game comes the next event of the   *)
(* same game, or the first event of this or a later game.  That a game may *)
(* be told again from its first event is as much as the code of the client *)
(* promises; that it is never left behind for an older one, never mixed    *)
(* with another and never told with a gap is what a reader relies on.      *)
(***************************************************************************)
EXTENDS Integers, Sequences

VARIABLES
    games,           \* the logs, of which only the last still grows
    at               \* the last event told: its game and its number

Init == games = << >> /\ at = [game |-> 0, no |-> -1]

(* Nothing of what has been told is ever taken back. *)
Extends(new, old) == Len(old) <= Len(new) /\ SubSeq(new, 1, Len(old)) = old

Grow ==
    /\ Len(games) <= Len(games')
    /\ \A g \in DOMAIN games : Extends(games'[g], games[g])
    /\ \A g \in 1 .. Len(games) - 1 : games'[g] = games[g]
    /\ UNCHANGED at

Begin ==
    /\ \E g \in DOMAIN games : g >= at.game /\ at' = [game |-> g, no |-> 0]
    /\ UNCHANGED games

Advance ==
    /\ at.game \in DOMAIN games
    /\ at.no + 1 < Len(games[at.game])
    /\ at' = [at EXCEPT !.no = @ + 1]
    /\ UNCHANGED games

Next == Grow \/ Begin \/ Advance

Spec == Init /\ [][Next]_<<games, at>>

=============================================================================
