----------------------------- MODULE MCCarCtrl -----------------------------
(* The controller with the requests of the clients and the pwm table.      *)
EXTENDS CarCtrl

Req(fn, a, b) == [fn |-> fn, a |-> a, b |-> b]

\* Two levels of the table differ, so that a mixed one shows; the others repeat.
MCPwmVect == [l \in 0 .. 9 |-> [m \in 1 .. MotorNum |-> IF l < 4 THEN MaxPwm - 1 ELSE MaxPwm]]
MCPwms == 0 .. MaxPwm

\* Step counts as CarSpeed sees them, after the revision.
MCSteps == {Revise(n, l) : n \in {-12, -1, 1, 12}, l \in 0 .. 9}

Moves == {Req("setCarMoving", d, 0) : d \in {"dirUp", "dirDown", "dirLeft", "dirRight",
                                             "dirRotation"}}
Turns == {Req("setSteerTurn", 0, 0), Req("setSteerTurn", -1, 0), Req("setSteerTurn", 1, 1)}
WheelSteps == {Req("setCtrlSteps", 0, -1), Req("setCtrlSteps", 1, 12),
               Req("setCtrlSteps", MotorNum + 1, 1)}

TwoMotorRequests == Moves \cup Turns \cup WheelSteps
                    \cup {Req("setAllMotorState", 0, 0), Req("setMotorSpeedLevel", 4, 0),
                          Req("setRunTime", 1, 0)}
FourMotorRequests == {Req("setCarMoving", d, 0) : d \in {"dirUp", "dirLeft", "dirRotation"}}
                     \cup {Req("setCarSteps", "dirLeft", 12), Req("setRunTime", -1, 0)}
TurnRequests == {Req("setRunTime", 1, 0), Req("setSteerTurn", 1, 1)}
SignRequests == {Req("setMotorSpeedLevel", 4, 0), Req("setCarSteps", "dirUp", 1)}
=============================================================================
