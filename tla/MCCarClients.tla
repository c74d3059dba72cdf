---------------------------- MODULE MCCarClients ----------------------------
(* The interfaces with the controller of the two motor car.  Handlers that   *)
(* make the same calls under another name are left out: one of each kind     *)
(* remains.                                                                  *)
EXTENDS CarClients
OneOfEach == {"/api/status", "/api/stop", "set-motorpwm", "set-carstep", "set-runtime",
              "key", "quit"}
Page == {"/api/status", "/api/stop", "/api/step", "/api/speed", "/api/steer"}
=============================================================================
