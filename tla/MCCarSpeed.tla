----------------------------- MODULE MCCarSpeed -----------------------------
(* CarSpeed with every duty value of the period, the two extremes included. *)
EXTENDS CarSpeed

MCPwms  == 0 .. MaxPwm
MCSteps == {-1, 0}
NoSteps == {0}
=============================================================================
