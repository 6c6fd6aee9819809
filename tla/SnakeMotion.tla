----------------------------- MODULE SnakeMotion -----------------------------
(***************************************************************************)
(* The geometry of the board: how src/server.cc turns and moves the head   *)
(* of a snake and how src/map.cc maps a head to a pixel.                   *)
(*                                                                         *)
(* The code keeps a head in doubles.  Here a coordinate is an integer in   *)
(* units of 1/Scale pixel, and the unit vector of a heading comes from the *)
(* tables Cos and Sin, which say how many of these units a snake that      *)
(* looks in that direction (in degrees) advances.  Nothing is assumed of   *)
(* the tables except that a snake moves by at most a pixel along an axis.  *)
(***************************************************************************)
EXTENDS Integers

CONSTANTS
    Width, Height,   \* map::width and map::height
    TurningSpeed,    \* configuration.turning_speed, degrees a tick
    HalfPixel,       \* units in half a pixel
    Cos, Sin,        \* unit vectors: [Degrees -> -Scale..Scale]
    UintRange        \* number of values of std::uint32_t (2^32 in the code)

Degrees == 0..359
Scale == 2 * HalfPixel
Board == (0 .. Width - 1) \X (0 .. Height - 1)

ASSUME GeometryAssumption ==
    /\ Width \in Nat \ {0} /\ Height \in Nat \ {0}
    /\ TurningSpeed \in Nat /\ HalfPixel \in Nat \ {0}
    /\ Cos \in [Degrees -> -Scale..Scale]
    /\ Sin \in [Degrees -> -Scale..Scale]
    /\ UintRange \in Nat \ {0} /\ Width <= UintRange /\ Height <= UintRange

(* Fault: the product is kept in a byte, like the turn. *)
Turned_Byte(rotation, turn) == (rotation + ((turn * TurningSpeed) % 256)) % 360

(***************************************************************************)
(* player.rotation += player.turn_direction * turning_speed, then fmod 360 *)
(* The byte turn is unsigned and the product is a 32 bit unsigned number.  *)
(***************************************************************************)
Turned(rotation, turn) ==
    (rotation + ((turn * TurningSpeed) % UintRange)) % 360

(* Fault: the cosine is computed in integers and lost. *)
MovedX_Still(x, rotation) == x

(***************************************************************************)
(* One pixel along cos(-rotation), sin(-rotation).                         *)
(***************************************************************************)
MovedX(x, rotation) == x + Cos[(-rotation) % 360]
MovedY(y, rotation) == y + Sin[(-rotation) % 360]

(***************************************************************************)
(* static_cast<std::uint32_t>(v): the fraction is dropped, so anything     *)
(* strictly between -1 and 0 is pixel 0.  From -1 down the conversion is   *)
(* undefined; on x86-64 it converts to 64 bits and keeps the low 32.       *)
(***************************************************************************)
Truncated(v) == IF v >= 0 THEN v \div Scale ELSE -((-v) \div Scale)

MakePos(x, y) == <<Truncated(x) % UintRange, Truncated(y) % UintRange>>

(* Fault: the column right of the board is still inside. *)
IsInside_OffByOne(pos) == pos[1] <= Width /\ pos[2] < Height

IsInside(pos) == pos[1] < Width /\ pos[2] < Height

(***************************************************************************)
(* (rand() % width) + 0.5: the middle of pixel k.                          *)
(***************************************************************************)
Middle(k) == (2 * k + 1) * HalfPixel

=============================================================================
