----------------------------- MODULE MCIoTimer -----------------------------
(* IoTimer with two threads that start and stop it.                        *)
EXTENDS IoTimer

MCTimeouts == {1, 2}
=============================================================================
