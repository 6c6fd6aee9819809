------------------------------ MODULE ArrowKeys ------------------------------
(***************************************************************************)
(* receive_gui_job of src/client.cc: the thread of the client that reads   *)
(* what the front end writes about the arrow keys and keeps the turn the   *)
(* heartbeats carry.                                                       *)
(*                                                                         *)
(* A line such as LEFT_KEY_DOWN is cut into two pieces, so that TCP may    *)
(* deliver it in parts: the side, and what happened to the key with the    *)
(* newline.  Another cut would only divide what is put together again.     *)
(***************************************************************************)
EXTENDS Integers, SequencesExt

VARIABLES
    matching,        \* match_buffer
    pressed,         \* key_pressed, by side
    turn,            \* turn_direction
    errno,           \* an earlier recv of this thread has failed
    clientEnded      \* the client has left main or been killed

keys == <<matching, pressed, turn, errno, clientEnded>>

Sides == {"LEFT", "RIGHT"}
Changes == {"_KEY_UP\n", "_KEY_DOWN\n"}
Line(side, change) == <<side, change>>

(***************************************************************************)
(* The table of the four messages: each sets one key to up or down.        *)
(***************************************************************************)
Messages == {Line(side, change) : side \in Sides, change \in Changes}

KeysInit ==
    /\ matching = << >> /\ pressed = [side \in Sides |-> FALSE]
    /\ turn = 0 /\ errno = FALSE /\ clientEnded = FALSE

(***************************************************************************)
(* One piece is added to the buffer.  At a newline the buffer is compared  *)
(* with the messages and emptied.                                          *)
(***************************************************************************)
Matched(at, piece) ==
    LET line == Append(at.matching, piece)
    IN  IF piece \notin Changes THEN [at EXCEPT !.matching = line]
        ELSE [matching |-> << >>,
              pressed |-> IF line \notin Messages THEN at.pressed
                          ELSE [at.pressed EXCEPT ![line[1]] = (piece = "_KEY_DOWN\n")]]

(* The left key is +1 and the right one is -1. *)
TurnOf(down) == (IF down["LEFT"] THEN 1 ELSE 0) - (IF down["RIGHT"] THEN 1 ELSE 0)

(* Faults: the buffer is a local of the loop; the turn is the old one. *)
Handle_Forgetful(pieces) ==
    LET after == FoldLeft(Matched, [matching |-> << >>, pressed |-> pressed], pieces)
    IN  matching' = << >> /\ pressed' = after.pressed /\ turn' = TurnOf(after.pressed)
Handle_TurnFirst(pieces) ==
    LET after == FoldLeft(Matched, [matching |-> matching, pressed |-> pressed], pieces)
    IN  matching' = after.matching /\ pressed' = after.pressed /\ turn' = TurnOf(pressed)

(* What one recv returns is handled as a whole, then the turn is set. *)
Handle(pieces) ==
    LET after == FoldLeft(Matched, [matching |-> matching, pressed |-> pressed], pieces)
    IN  matching' = after.matching /\ pressed' = after.pressed /\ turn' = TurnOf(after.pressed)

Receive(pieces) ==
    /\ ~clientEnded
    /\ Handle(pieces)
    /\ UNCHANGED <<errno, clientEnded>>

(* recv fails: nothing is handled, and errno stays set. *)
ReceiveError ==
    /\ ~clientEnded
    /\ errno' = TRUE
    /\ UNCHANGED <<matching, pressed, turn, clientEnded>>

(* The client is ended, and nothing of it is left. *)
Ends ==
    /\ clientEnded' = TRUE /\ errno' = FALSE
    /\ matching' = << >> /\ pressed' = [side \in Sides |-> FALSE] /\ turn' = 0

(***************************************************************************)
(* recv finds the end of the stream.  This is taken for a broken           *)
(* connection only if errno is set; otherwise recv is called again.        *)
(***************************************************************************)
ReceiveEnd ==
    /\ ~clientEnded
    /\ \/ errno /\ Ends
       \/ ~errno /\ UNCHANGED keys

=============================================================================
