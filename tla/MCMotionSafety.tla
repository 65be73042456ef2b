--------------------------- MODULE MCMotionSafety ---------------------------
(* MotionSafety for TLC.                                                   *)
EXTENDS MotionSafety

CONSTANTS front, left

OneTravel == {front}
OneTurn == {left}
Velocities == {{front}, {front, left}}
MaskValues == {{}, {front}}
=============================================================================
