----------------------------- MODULE CarClients -----------------------------
(***************************************************************************)
(* The interfaces of the cli process and the calls their handlers make:    *)
(* the car menu (cli/src/cli_car.cpp), the web page's requests             *)
(* (car_web_server.cpp), the remote control (remote_key.cpp) and quit      *)
(* (cli_impl.cpp).  All of them run on the io thread, one handler after    *)
(* another, and share the client of RpcClient.  A handler does not look at *)
(* whether a call succeeded: a call that failed counts as the answer 0.    *)
(*                                                                         *)
(* A handler is a sequence of calls; after getMotorNum the rest depends on *)
(* the answer, and on arguments that are chosen freely here.  A request or *)
(* a line with a missing argument makes no call and is left out.  The      *)
(* calls that are arguments of one format call are taken in the order in   *)
(* which they are written; no property looks at the order of reads.        *)
(***************************************************************************)
EXTENDS RpcClient, FiniteSets

CONSTANTS
  MotorNum,    \* the motors of the controller
  Handlers,    \* the handlers that are used
  MaxHandlers  \* bound of the model: the handlers that are run

VARIABLES
  handler,   \* the handler that runs, "none", or "exited" when the process has ended
  todo,      \* the calls it still makes
  asked,     \* it waits for the answer of getMotorNum to know the rest
  motorNum,  \* the static motorNum of handleKeyPress
  runs       \* the handlers run so far

interface == <<handler, todo, asked, motorNum, runs>>
cvars == <<vars, interface>>

\* register_handler in main.cpp.
ServerFuncs ==
  {"getActualSpeed", "setCtrlSteps", "getCtrlSteps", "getActualSteps", "setRunTime",
   "setMotorSpeedLevel", "getMotorSpeedLevel", "setAllMotorState", "getMotorNum",
   "getMotorPwm", "setCarSteps", "setCarMoving", "setSteerTurn", "quitApp"}

\* The functions rpc_service.hpp declares and rpc_client.cpp calls.
ServiceFuncs == ServerFuncs \cup {"setMotorPwm", "getCtrlMode"}

MenuItems == {"show-param", "set-speedlevel", "set-motorpwm", "show-motorstep",
              "set-motorstep", "set-carstep", "set-runtime", "set-steer", "stop-motor", "quit"}
WebRequests == {"/api/status", "/api/stop", "/api/speed", "/api/step", "/api/steer"}
RemoteEvents == {"key", "timerDirKey"}
AllHandlers == MenuItems \cup WebRequests \cup RemoteEvents

StopHandlers == {"stop-motor", "/api/stop", "timerDirKey"}

ASSUME ClientsAssumption ==
  /\ ServiceFuncs \subseteq Funcs
  /\ MotorNum \in Nat
  /\ Handlers \subseteq AllHandlers
  /\ MaxHandlers \in Nat

\* for (ii = 1; ii <= motorNum; ii++) { the calls fs }
Each(n, fs) == [k \in 1 .. n * Len(fs) |-> fs[((k - 1) % Len(fs)) + 1]]

\* The calls a handler begins with.
First(h) ==
  CASE h \in {"set-motorpwm", "show-motorstep", "set-motorstep", "set-carstep",
              "/api/step"}               -> <<"getMotorNum">>
    [] h = "show-param"                  -> <<"getMotorNum", "getMotorSpeedLevel">>
    [] h = "/api/status"                 -> <<"getMotorNum", "getMotorSpeedLevel", "getCtrlMode">>
    [] h \in {"set-speedlevel", "/api/speed"} -> <<"setMotorSpeedLevel">>
    [] h = "set-runtime"                 -> <<"setRunTime">>
    [] h \in {"set-steer", "/api/steer"} -> <<"setSteerTurn">>
    [] h \in StopHandlers                -> <<"setAllMotorState">>
    [] h = "quit"                        -> <<"quitApp">>
    [] h = "key"                         -> IF motorNum = 0 THEN <<"getMotorNum">> ELSE <<>>

Asks(h) == h \in {"show-param", "set-motorpwm", "show-motorstep", "set-motorstep",
                  "set-carstep", "/api/status", "/api/step", "key"}

\* handleKeyPress: what a key makes the remote call, with n motors known.
KeyCalls(n) ==
  {<<>>, <<"setCarMoving">>, <<"setMotorSpeedLevel">>, <<"setAllMotorState">>}
  \cup IF n = 2 THEN {<<"setCarMoving", "setSteerTurn">>} ELSE {<<"setCarSteps">>}

\* The calls that may follow when n is the answer of getMotorNum.
Rest(h, n) ==
  CASE h = "show-param"     -> {Each(n, <<"getActualSpeed", "getActualSteps", "getMotorPwm">>)}
    [] h = "/api/status"    -> {Each(n, <<"getActualSpeed", "getMotorPwm", "getCtrlSteps",
                                          "getActualSteps">>)}
    [] h = "show-motorstep" -> {Each(n, <<"getActualSteps", "getCtrlSteps">>)}
    [] h = "set-motorpwm"   -> {Each(k, <<"setMotorPwm">>) : k \in {0, n} \cup {j \in {1} : j <= n}}
    [] h = "set-motorstep"  -> {<<>>, <<"setCtrlSteps">>}
    [] h = "set-carstep"    -> {<<"setCarSteps">>} \cup IF n < 4 THEN {<<>>} ELSE {}
    [] h = "/api/step"      -> {<<>>, <<"setCarSteps">>}
    [] h = "key"            -> KeyCalls(n)

-----------------------------------------------------------------------------
ClientsInit ==
  /\ Init
  /\ handler = "none" /\ todo = <<>> /\ asked = FALSE /\ motorNum = 0 /\ runs = 0

\* An interface has something to do: a line is entered, a request comes, a timer fires.
Begin(h) ==
  /\ handler = "none" /\ caller = "idle" /\ runs < MaxHandlers
  /\ handler' = h /\ todo' = First(h) /\ asked' = Asks(h)
  /\ runs' = runs + 1
  /\ UNCHANGED <<vars, motorNum>>

\* The handler makes its next call.
NextCall ==
  /\ handler # "none" /\ todo # <<>>
  /\ Call(Head(todo))
  /\ todo' = Tail(todo)
  /\ UNCHANGED <<handler, asked, motorNum, runs>>

\* callInt: the number the last getMotorNum of this handler returned, 0 when the call failed.
Answer ==
  LET asks == {i \in DOMAIN calls : calls[i].func = "getMotorNum"}
      i    == CHOOSE i \in asks : \A j \in asks : j <= i
  IN  IF calls[i].res = "ok" THEN MotorNum ELSE 0

\* The first calls have returned and the handler decides how to go on.
Decide ==
  /\ asked /\ todo = <<>> /\ caller = "idle"
  /\ LET n == IF handler = "key" /\ motorNum # 0 THEN motorNum ELSE Answer
     IN  /\ todo' \in Rest(handler, n)
         /\ motorNum' = IF handler = "key" THEN n ELSE motorNum
  /\ asked' = FALSE
  /\ UNCHANGED <<vars, handler, runs>>

\* The handler returns, and the io thread takes the next one.
Return ==
  /\ handler \notin {"none", "quit"} /\ todo = <<>> /\ ~asked /\ caller = "idle"
  /\ handler' = "none"
  /\ UNCHANGED <<vars, todo, asked, motorNum, runs>>

\* quitApplications: std::exit after the call, whatever became of it.
Exit ==
  /\ handler = "quit" /\ todo = <<>> /\ caller = "idle"
  /\ handler' = "exited"
  /\ ProcessEnds
  /\ UNCHANGED <<todo, asked, motorNum, runs>>

ClientsNext ==
  \/ RpcConnect /\ UNCHANGED interface
  \/ \E h \in Handlers : Begin(h)
  \/ NextCall \/ Decide \/ Return \/ Exit
  \/ Internal /\ UNCHANGED interface

ClientsSpec == ClientsInit /\ [][ClientsNext]_cvars

\* The io thread runs what is ready; the executor too; time passes.
Progress ==
  /\ WF_cvars(RpcConnect /\ UNCHANGED interface)
  /\ WF_cvars(NextCall \/ Decide \/ Return \/ Exit)
  /\ WF_cvars(Executor /\ UNCHANGED interface)
  /\ WF_cvars(Time /\ UNCHANGED interface)

ClientsFairSpec == ClientsSpec /\ Progress

\* With a controller that serves what reaches it as well.
ServedSpec == ClientsFairSpec /\ WF_cvars((Serve \/ ServeQuit) /\ UNCHANGED interface)
-----------------------------------------------------------------------------
Movers == {"setCarMoving", "setCarSteps", "setCtrlSteps", "setRunTime"}

\* The last command to the wheels that the controller has executed sets them in motion.
Moving ==
  \E k \in DOMAIN done :
    /\ calls[done[k]].func \in Movers
    /\ \A l \in k + 1 .. Len(done) : calls[done[l]].func # "setAllMotorState"

(* Once a stop has been answered, no movement that was asked for before it   *)
(* starts any more: not even one whose call had failed and may still be on   *)
(* its way.                                                                  *)
StopHolds ==
  \A i \in DOMAIN calls :
    /\ calls[i].func = "setAllMotorState" /\ calls[i].res = "ok"
    /\ \A j \in i + 1 .. Last : calls[j].func \notin Movers
    => ~Moving

(* Every handler comes to its end, so that the menu, the page, the remote    *)
(* control and their timers are served again, whatever the controller does.  *)
HandlersEnd == handler \notin {"none", "exited"} ~> handler \in {"none", "exited"}

(* What the menu promises of stop-motor ("stop all motors") and the page of  *)
(* its button ("Motors stopped"): when the controller runs and no time-out   *)
(* happens, a stop that an interface asks for is executed.                   *)
StopIsExecuted ==
  \A n \in 1 .. MaxCalls :
    (Last = n /\ calls[n].func = "setAllMotorState") ~> (\E k \in DOMAIN done : done[k] = n)
=============================================================================
