------------------------------ MODULE GameRules ------------------------------
(***************************************************************************)
(* The rules of the game as a client that reads the log may rely on them.  *)
(* A game has a roster of at least two players.  While it runs, a living   *)
(* player claims a free pixel of the board or is eliminated; the second    *)
(* last living player to be eliminated ends the game.  Events are only     *)
(* ever appended to the log of a game, and nothing is appended to the log  *)
(* of a game that is over: the next game starts a log of its own.          *)
(***************************************************************************)
EXTENDS Integers, Sequences

CONSTANTS
    Rosters,         \* the rosters a game may have, sequences of names
    Board            \* the pixels

VARIABLES
    log,             \* the events of the current or the last game
    alive,           \* the players still in the running game
    claimed,         \* the pixels taken in the running game
    running          \* whether a game is in progress

vars == <<log, alive, claimed, running>>

Init == log = << >> /\ alive = {} /\ claimed = {} /\ running = FALSE

Start ==
    /\ ~running
    /\ \E roster \in Rosters :
          /\ Len(roster) >= 2
          /\ log' = <<[type |-> "NEW_GAME", roster |-> roster]>>
          /\ alive' = DOMAIN roster
    /\ claimed' = {}
    /\ running' = TRUE

Claim(i, pos) ==
    /\ running /\ i \in alive /\ pos \in Board \ claimed
    /\ log' = Append(log, [type |-> "PIXEL", player |-> i, pos |-> pos])
    /\ claimed' = claimed \cup {pos}
    /\ UNCHANGED <<alive, running>>

Out(i) == [type |-> "PLAYER_ELIMINATED", player |-> i]

Eliminate(i) ==
    /\ running /\ i \in alive
    /\ \E j, k \in alive \ {i} : j # k
    /\ log' = Append(log, Out(i))
    /\ alive' = alive \ {i}
    /\ UNCHANGED <<claimed, running>>

Finish(i) ==
    /\ running /\ i \in alive
    /\ \E winner \in alive : winner # i /\ alive = {i, winner}
    /\ log' = log \o <<Out(i), [type |-> "GAME_OVER"]>>
    /\ alive' = {} /\ claimed' = {}
    /\ running' = FALSE

Next == \/ Start
        \/ \E i \in alive : \/ \E pos \in Board : Claim(i, pos)
                            \/ Eliminate(i) \/ Finish(i)

Spec == Init /\ [][Next]_vars

=============================================================================
