----------------------------- MODULE MCRemoteKey -----------------------------
(* The remote control with one digit, an arrow of each axis and other keys. *)
EXTENDS RemoteKey

SixKeys == {Digit[3], UP, RIGHT, POUND, STAR, OK}
TurnKeys == {Digit[2], LEFT, RIGHT}
=============================================================================
