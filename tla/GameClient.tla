----------------------------- MODULE GameClient ------------------------------
(***************************************************************************)
(* The game client of src/client.cc between the server and the front end:  *)
(* three of its four threads and the globals they share.                   *)
(*                                                                         *)
(*   - receive_game_job filters the events of a datagram by number and     *)
(*     queues them;                                                        *)
(*   - send_gui_job takes the queue and tells the front end;               *)
(*   - send_game_job sends next_expected_event to the server.              *)
(*                                                                         *)
(* events_lock guards the queue and nothing else.  The steps of a thread   *)
(* are split where it touches a global that another thread uses.           *)
(*                                                                         *)
(* An event is a record of its game, its number (event_no) and its type.   *)
(* A roster is the number of the game it belongs to.                       *)
(***************************************************************************)
EXTENDS Integers, Sequences

CONSTANT MaxQueue    \* bound: events in the queue

VARIABLES
    nextExpected,    \* next_expected_event
    roster,          \* active_player_names: the game it belongs to, or NoRoster
    inbox,           \* receive_game_job: the events still to handle
    receiving,       \* receive_game_job: what it does with the first of them
    queue,           \* queued_events
    telling,         \* send_gui_job holds events_lock
    told,            \* the last event taken from the queue, and the game
                     \* whose roster its player's name was taken from
    quit             \* the client has ended with util::fatal

reception == <<nextExpected, inbox, receiving>>
vars == <<reception, roster, queue, telling, told, quit>>

NoRoster == 0
Nothing == [game |-> 0, no |-> -1, type |-> "NONE", named |-> 0]

Event(game, no, type) == [game |-> game, no |-> no, type |-> type]
NamesPlayer(e) == e.type \in {"PIXEL", "PLAYER_ELIMINATED"}

Init ==
    /\ nextExpected = 0 /\ roster = NoRoster
    /\ inbox = << >> /\ receiving = "event"
    /\ queue = << >> /\ telling = FALSE
    /\ told = Nothing /\ quit = FALSE

-----------------------------------------------------------------------------
(***************************************************************************)
(* receive_game_job.                                                       *)
(***************************************************************************)
Receive(events) ==
    /\ ~quit /\ inbox = << >>
    /\ inbox' = events
    /\ UNCHANGED <<nextExpected, roster, receiving, queue, telling, told, quit>>

Current == Head(inbox)

(* A NEW_GAME, whatever game it is of, starts the numbering again ... *)
BeginGame ==
    /\ ~quit /\ inbox # << >> /\ receiving = "event"
    /\ Current.type = "NEW_GAME"
    /\ nextExpected' = 0
    /\ receiving' = "roster"
    /\ UNCHANGED <<roster, inbox, queue, telling, told, quit>>

(* Fault: the names are left to the thread that tells of the NEW_GAME. *)
AdoptRoster_LeftToGui ==
    /\ ~quit /\ receiving = "roster"
    /\ receiving' = "compare"
    /\ UNCHANGED <<nextExpected, roster, inbox, queue, telling, told, quit>>

(* ... and then replaces the names; until this is done a thread that reads *)
(* them may find anything.                                                 *)
AdoptRoster ==
    /\ ~quit /\ receiving = "roster"
    /\ roster' = Current.game
    /\ receiving' = "compare"
    /\ UNCHANGED <<nextExpected, inbox, queue, telling, told, quit>>

(* An event with a player number that no roster has ends the client. *)
Nonsense(e) == NamesPlayer(e) /\ roster = NoRoster

RejectNonsense ==
    /\ ~quit /\ inbox # << >> /\ receiving = "event"
    /\ Nonsense(Current)
    /\ quit' = TRUE
    /\ UNCHANGED <<reception, roster, queue, telling, told>>

(* Fault: an event that is ahead of the expected one is taken as well. *)
Expected_OrLater(e) == e.no >= nextExpected
Expected(e) == e.no = nextExpected

(***************************************************************************)
(* Only the receiver writes next_expected_event, so it is the same when it *)
(* is compared and when, under the lock, it is incremented.                *)
(***************************************************************************)
Compares == /\ ~quit /\ inbox # << >>
            /\ \/ receiving = "compare"
               \/ receiving = "event" /\ Current.type # "NEW_GAME" /\ ~Nonsense(Current)

Enqueue ==
    /\ Compares /\ Expected(Current)
    /\ ~telling /\ Len(queue) < MaxQueue
    /\ nextExpected' = nextExpected + 1
    /\ queue' = Append(queue, Current)
    /\ inbox' = Tail(inbox) /\ receiving' = "event"
    /\ UNCHANGED <<roster, telling, told, quit>>

Skip ==
    /\ Compares /\ ~Expected(Current)
    /\ inbox' = Tail(inbox) /\ receiving' = "event"
    /\ UNCHANGED <<nextExpected, roster, queue, telling, told, quit>>

-----------------------------------------------------------------------------
(***************************************************************************)
(* send_gui_job.  It looks at the size of the queue without the lock, then *)
(* holds the lock until the whole queue has been told and cleared.         *)
(***************************************************************************)
TakeQueue ==
    /\ ~quit /\ ~telling /\ queue # << >>
    /\ telling' = TRUE
    /\ UNCHANGED <<reception, roster, queue, told, quit>>

(***************************************************************************)
(* One event of the queue.  NEW_GAME carries its own names, which also     *)
(* replace the current ones; the player of a PIXEL or a PLAYER_ELIMINATED  *)
(* is looked up in the current names.  A GAME_OVER is passed over.         *)
(***************************************************************************)
RostersRead ==
    IF receiving = "roster" THEN {roster, Current.game, NoRoster} ELSE {roster}

Tell ==
    /\ ~quit /\ telling
    /\ LET e == Head(queue)
       IN  \/ /\ e.type = "NEW_GAME"
              /\ told' = [game |-> e.game, no |-> e.no, type |-> e.type, named |-> e.game]
              /\ roster' = e.game
           \/ /\ NamesPlayer(e)
              /\ \E r \in RostersRead :
                    told' = [game |-> e.game, no |-> e.no, type |-> e.type, named |-> r]
              /\ UNCHANGED roster
           \/ /\ e.type = "GAME_OVER"
              /\ told' = [game |-> e.game, no |-> e.no, type |-> e.type, named |-> 0]
              /\ UNCHANGED roster
    /\ queue' = Tail(queue)
    /\ telling' = (Len(queue) > 1)
    /\ UNCHANGED <<reception, quit>>

-----------------------------------------------------------------------------
ReceiverStep == BeginGame \/ AdoptRoster \/ RejectNonsense \/ Enqueue \/ Skip
GuiStep == TakeQueue \/ Tell
Step == ReceiverStep \/ GuiStep

=============================================================================
