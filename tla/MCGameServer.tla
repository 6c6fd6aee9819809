---------------------------- MODULE MCGameServer -----------------------------
(***************************************************************************)
(* Instances of GameServer for TLC.  A pixel is two units wide, so a head  *)
(* starts in the middle of a pixel and moves by whole pixels in the four   *)
(* directions of the axes; TurningSpeed is a quarter turn.                 *)
(***************************************************************************)
EXTENDS GameServer

AxisCos == [d \in Degrees |-> CASE d = 0 -> 2 [] d = 180 -> -2 [] OTHER -> 0]
AxisSin == [d \in Degrees |-> CASE d = 90 -> 2 [] d = 270 -> -2 [] OTHER -> 0]

ShortNames == [n \in Names |-> 2]

=============================================================================
