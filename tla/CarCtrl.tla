------------------------------- MODULE CarCtrl -------------------------------
(***************************************************************************)
(* The controller process: the request handlers of CarCtrl                 *)
(* (mcarctrl/src/car_ctrl.cpp), run by threads of the server's pool, its   *)
(* run timer and the steering with its timer (mcarctrl/src/steer.cpp),     *)
(* whose callbacks run on one thread of the same pool, composed with the   *)
(* speed thread of CarSpeed.                                               *)
(*                                                                         *)
(* A handler is the sequence of writes it performs, in the order of the    *)
(* code: todo[t] holds what the handler or the callback running in thread  *)
(* t has still to do.  No lock is held across it, so the writes of two     *)
(* handlers, of a timer callback and of the speed thread interleave one by *)
(* one.                                                                    *)
(***************************************************************************)
EXTENDS Integers, Sequences, FiniteSets

CONSTANTS
  MotorNum, MaxPwm, Pwms, Inputs, Steps, MaxActual, Garbage, Faulty, \* of CarSpeed
  HasSteer,    \* m_steer is not null: the two motor car
  PwmVect,     \* m_pwmVect: level -> motor -> duty
  Threads,     \* the threads of the server's pool
  IoThread,    \* the one of them that runs the completions of the timers
  Servers,     \* those that serve a connection
  Asked,       \* the requests a client may make
  MaxRequests, \* bound of the model: how many requests are made
  MaxReady     \* bound of the model: completions of a timer queued at once

ASSUME MotorAssumption ==
  /\ MaxPwm \in Nat \ {0}
  /\ Pwms \subseteq 0 .. MaxPwm /\ Pwms # {}
  /\ Inputs \subseteq 1 .. MotorNum
  /\ Steps \subseteq Int
  /\ MaxActual \in Nat
  /\ Garbage # {}
  /\ Faulty \in BOOLEAN

ASSUME CtrlAssumption ==
  /\ MotorNum \in {2, 4}
  /\ IoThread \in Threads /\ Servers \subseteq Threads
  /\ HasSteer \in BOOLEAN
  /\ 1 .. 9 \subseteq DOMAIN PwmVect
  /\ \A l \in DOMAIN PwmVect : l \in 0 .. 9 /\ PwmVect[l] \in [1 .. MotorNum -> Pwms]
  /\ MaxRequests \in Nat /\ MaxReady \in Nat

VARIABLES
  runState, nowState, portState, pin, ctrlSteps, actualSteps, ctrlPwm, ctrlMode,
  pwmCount, runFlag, pc, cur, goal, ret, events, sum, lost, touched,
  speedLevel,   \* CarSpeed::m_speedLevel
  steer,        \* the levels of the two steering pins
  running,      \* IoTimer::m_isRunning of the two timers
  wait,         \* an async_wait of the timer is pending
  ready,        \* completions of the timer that are queued, not yet run
  todo,         \* what is left of the handler or callback each thread runs
  left,         \* bound of the model: how many requests are still to come
  last,         \* history: the request taken last
  crossed       \* history: while it was carried out, the end of a run was too

Speed == INSTANCE CarSpeed

speedVars == <<runState, nowState, portState, pin, ctrlSteps, actualSteps, ctrlPwm,
               ctrlMode, pwmCount, runFlag, pc, cur, goal, ret, events, sum,
               lost, touched>>
timerVars == <<running, wait, ready>>
history == <<last, crossed>>
ctrlVars  == <<speedLevel, steer, running, wait, ready, todo, left, history>>
vars == <<speedVars, ctrlVars>>

Motors == Speed!Motors
Forward == Speed!Forward
Stop == Speed!Stop
Back == Speed!Back
Timers == {"run", "steer"}

-----------------------------------------------------------------------------
(* What handlers do, one write after the other.                            *)

Write(what, at, v) == [do |-> what, at |-> at, val |-> v]
TimerWrite(what, t) == [do |-> what, timer |-> t]

Sign(n) == IF n > 0 THEN Forward ELSE IF n = 0 THEN Stop ELSE Back

\* CarSpeed::setMotorState on the motors in the order of the sequence s.
States(s) == [m \in 1 .. Len(s) |-> Write("state", m, s[m])]

All(s) == States([m \in Motors |-> s])

\* Faulty variant: m_isRunning is not set.
StartTimerNotRunning(t) == <<TimerWrite("arm", t)>>

\* Faulty variant: m_isRunning is set after doSetExpired has looked at it.
StartTimerFlagLast(t) == <<TimerWrite("arm", t), TimerWrite("on", t)>>

\* IoTimer::reset: m_isRunning first, then doSetExpired.
StartTimer(t) == <<TimerWrite("on", t), TimerWrite("arm", t)>>

\* Faulty variant: the direction is written to the pin as it is.
TurnRaw(dir, time) ==
  IF ~HasSteer THEN <<>>
  ELSE <<Write("steer", 0, IF dir < 0 THEN 1 ELSE 0), Write("steer", 1, dir)>>

\* Faulty variant: a turn left leaves the pin of a turn right as it is.
TurnKeepsRight(dir, time) ==
  IF ~HasSteer THEN <<>>
  ELSE (IF dir > 0 THEN <<>> ELSE <<Write("steer", 0, IF dir < 0 THEN 1 ELSE 0)>>)
       \o <<Write("steer", 1, IF dir > 0 THEN 1 ELSE 0)>>
       \o (CASE dir = 0 -> <<TimerWrite("off", "steer")>>
             [] dir # 0 /\ time > 0 -> StartTimer("steer")
             [] OTHER -> <<>>)

\* Faulty variant: the timer is stopped whenever a turn is asked for.
TurnStopsTimer(dir, time) ==
  IF ~HasSteer THEN <<>>
  ELSE <<Write("steer", 0, IF dir < 0 THEN 1 ELSE 0),
         Write("steer", 1, IF dir > 0 THEN 1 ELSE 0)>>
       \o (IF dir # 0 /\ time > 0 THEN StartTimer("steer") ELSE <<>>)
       \o <<TimerWrite("off", "steer")>>

\* Steer::turn; without a steering CarSpeed::steerTurn does nothing.
Turn(dir, time) ==
  IF ~HasSteer THEN <<>>
  ELSE <<Write("steer", 0, IF dir < 0 THEN 1 ELSE 0),
         Write("steer", 1, IF dir > 0 THEN 1 ELSE 0)>>
       \o (CASE dir = 0 -> <<TimerWrite("off", "steer")>>
             [] dir # 0 /\ time > 0 -> StartTimer("steer")
             [] OTHER -> <<>>)

SetAllMotorState(s) == All(Sign(s)) \o (IF s = 0 THEN Turn(0, 0) ELSE <<>>)

\* The run timer's callback, and the lambda of the steering's timer.
Callback(t) == IF t = "run" THEN SetAllMotorState(0)
               ELSE <<Write("steer", 0, 0), Write("steer", 1, 0)>>

\* "revise steps": the wheels overshoot more at a higher speed level.
Revise(n, level) ==
  CASE n > 10 -> n - level
    [] n > 0 /\ n <= 10 -> n - level \div 2
    [] n < 0 /\ n >= -10 -> n + level \div 2
    [] OTHER -> n + level

\* Faulty variant: the sign is not taken.
RunStepsNoSign(m, n) ==
  <<Write("reset", m, 0), Write("ctrl", m, n), Write("state", m, n)>>

\* A step count a client may ask for: the motors can be told what it is revised to.
Countable(n) == n \in Int /\ (n # 0 => \A l \in DOMAIN PwmVect : Revise(n, l) \in Steps)

\* CarSpeed::setRunSteps and the Motor::setCtrlSteps it calls.
RunSteps(m, n) ==
  <<Write("reset", m, 0), Write("ctrl", m, n), Write("state", m, Sign(n))>>

RunStepsAll(n) ==
  [i \in 1 .. 3 * MotorNum |-> RunSteps(1 + (i - 1) \div 3, n)[1 + ((i - 1) % 3)]]

\* setCtrlSteps reads the speed level when it is called, also from setCarSteps.
SetCtrlSteps(m, n, level) ==
  IF m > MotorNum THEN <<>>
  ELSE IF n = 0 THEN IF m = 0 THEN All(Stop) ELSE <<Write("state", m, Stop)>>
  ELSE <<Write("mode", 0, Speed!StepMode)>>
       \o (IF m = 0 THEN RunStepsAll(Revise(n, level))
                    ELSE RunSteps(m, Revise(n, level)))

Call(m, n) == Write("call", m, n)

SetCarSteps(dir, n) ==
  IF MotorNum = 2 THEN <<>>
  ELSE CASE dir = "dirUp" -> <<Call(0, n)>>
         [] dir = "dirLeft" -> <<Call(1, -n), Call(2, n), Call(3, n), Call(4, -n)>>
         [] dir = "dirRotation" -> <<Call(1, n), Call(2, -n), Call(3, n), Call(4, -n)>>
         [] OTHER -> <<>>

SetRunTime(time) ==
  <<Write("mode", 0, Speed!TimeMode)>>
  \o [m \in Motors |-> Write("reset", m, 0)]
  \o SetAllMotorState(IF time > 0 THEN 1 ELSE -1)
  \o StartTimer("run")

\* Faulty variant: the last motor keeps the direction it had.
SetCarMovingOneShort(dir) ==
  <<Write("mode", 0, Speed!TimeMode)>>
  \o [m \in 1 .. (MotorNum - 1) |-> Write("state", m, IF dir = "dirDown" THEN Back ELSE Forward)]

\* Faulty variant: the wheels of one side turn alike when the car goes left.
SetCarMovingTankLeft(dir) ==
  <<Write("mode", 0, Speed!TimeMode)>>
  \o (CASE dir = "dirLeft" -> States(<<Back, Forward, Back, Forward>>)
        [] OTHER -> All(Forward))

\* The mode is switched before the direction is looked at.
SetCarMoving(dir) ==
  <<Write("mode", 0, Speed!TimeMode)>>
  \o (CASE dir = "dirUp"   -> All(Forward) \o Turn(0, 0)
        [] dir = "dirDown" -> All(Back) \o Turn(0, 0)
        [] dir = "dirLeft" -> IF MotorNum = 2
                              THEN States(<<Forward, Forward>>) \o Turn(1, 0)
                              ELSE States(<<Back, Forward, Forward, Back>>)
        [] dir = "dirRight" -> IF MotorNum = 2
                               THEN States(<<Forward, Forward>>) \o Turn(-1, 0)
                               ELSE States(<<Forward, Back, Back, Forward>>)
        [] dir = "dirRotation" -> IF MotorNum = 2 THEN <<>>
                                  ELSE States(<<Forward, Back, Forward, Back>>)
        [] OTHER -> <<>>)

\* Faulty variant: the new level is not remembered.
SetMotorSpeedLevelForgets(l) ==
  IF l < 1 \/ l > 9 THEN <<>>
  ELSE [m \in Motors |-> Write("pwm", m, PwmVect[l][m])]

SetMotorSpeedLevel(l) ==
  IF l < 1 \/ l > 9 THEN <<>>
  ELSE <<Write("level", 0, l)>>
       \o [m \in Motors |-> Write("pwm", m, PwmVect[l][m])]

\* The handler of a request, a record with the function and its arguments.
Handler(r) ==
  CASE r.fn = "setCtrlSteps" -> <<Call(r.a, r.b)>>
    [] r.fn = "setRunTime" -> SetRunTime(r.a)
    [] r.fn = "setMotorSpeedLevel" -> SetMotorSpeedLevel(r.a)
    [] r.fn = "setAllMotorState" -> SetAllMotorState(r.a)
    [] r.fn = "setCarSteps" -> SetCarSteps(r.a, r.b)
    [] r.fn = "setCarMoving" -> SetCarMoving(r.a)
    [] r.fn = "setSteerTurn" -> Turn(r.a, r.b)

\* The arguments a client may give.
Request(r) ==
  \/ r.fn = "setCtrlSteps" /\ r.a \in Nat /\ Countable(r.b)
  \/ r.fn \in {"setRunTime", "setMotorSpeedLevel", "setAllMotorState"} /\ r.a \in Int
  \/ r.fn = "setCarSteps" /\ Countable(r.b) /\ Countable(-r.b)
  \/ r.fn = "setCarMoving"
  \/ r.fn = "setSteerTurn" /\ r.a \in Int /\ r.b \in Nat

ASSUME RequestAssumption == \A r \in Asked : Request(r)

-----------------------------------------------------------------------------

NoRequest == [fn |-> "none", a |-> 0, b |-> 0]

\* initJsonParam ends with setMotorSpeedLevel(1), then the thread starts.
Init ==
  /\ Speed!Init
  /\ ctrlPwm = PwmVect[1]
  /\ speedLevel = 1
  /\ steer = [p \in {0, 1} |-> 0]
  /\ running = [t \in Timers |-> FALSE]
  /\ wait = [t \in Timers |-> FALSE]
  /\ ready = [t \in Timers |-> 0]
  /\ todo = [t \in Threads |-> <<>>]
  /\ left = MaxRequests
  /\ last = NoRequest
  /\ crossed = FALSE

Idle == \A t \in Threads : todo[t] = <<>>

\* The end of a run has still to stop the timer of the steering.
RunEnding ==
  \E i \in DOMAIN todo[IoThread] : todo[IoThread][i] = TimerWrite("off", "steer")

\* The thread of a connection takes its next request.
Accept(t) ==
  /\ todo[t] = <<>> /\ left > 0
  /\ \E r \in Asked : /\ todo' = [todo EXCEPT ![t] = Handler(r)]
                       /\ last' = r
  /\ crossed' = RunEnding
  /\ left' = left - 1
  /\ UNCHANGED <<speedVars, speedLevel, steer, timerVars>>

\* The next write of a handler goes to a motor or to the control mode, ...
MotorWrite(t) ==
  /\ todo[t] # <<>>
  /\ LET w == Head(todo[t]) IN
       \/ w.do = "state" /\ Speed!SetMotorState(w.at, w.val)
       \/ w.do = "ctrl"  /\ Speed!SetCtrlSteps(w.at, w.val)
       \/ w.do = "reset" /\ Speed!ResetActualSteps(w.at)
       \/ w.do = "pwm"   /\ Speed!SetRunPwm(w.at, w.val)
       \/ w.do = "mode"  /\ Speed!SetCtrlMode(w.val)
  /\ todo' = [todo EXCEPT ![t] = Tail(@)]
  /\ UNCHANGED <<speedLevel, steer, timerVars, left, history>>

\* ... or to the steering, a timer or the level.  Arming a timer cancels the
\* wait it has, not a completion that is queued already.
CtrlWrite(t) ==
  /\ todo[t] # <<>>
  /\ LET w == Head(todo[t]) IN
       /\ w.do \in {"level", "steer", "on", "off", "arm"}
       /\ speedLevel' = IF w.do = "level" THEN w.val ELSE speedLevel
       /\ steer' = IF w.do = "steer" THEN [steer EXCEPT ![w.at] = w.val] ELSE steer
       /\ running' = IF w.do \in {"on", "off"}
                     THEN [running EXCEPT ![w.timer] = (w.do = "on")] ELSE running
       /\ wait' = IF w.do = "arm" /\ running[w.timer]
                  THEN [wait EXCEPT ![w.timer] = TRUE] ELSE wait
  /\ todo' = [todo EXCEPT ![t] = Tail(@)]
  /\ UNCHANGED <<speedVars, ready, left, history>>

\* A handler calls setCtrlSteps, which looks at the level now.
CallWrite(t) ==
  /\ todo[t] # <<>>
  /\ LET w == Head(todo[t]) IN
       /\ w.do = "call"
       /\ todo' = [todo EXCEPT ![t] = SetCtrlSteps(w.at, w.val, speedLevel) \o Tail(@)]
  /\ UNCHANGED <<speedVars, speedLevel, steer, timerVars, left, history>>

\* The deadline of a pending wait has passed when the io thread looks, between
\* two handlers: the completion is queued.
TimerExpire(tm) ==
  /\ todo[IoThread] = <<>>
  /\ wait[tm] /\ ready[tm] < MaxReady
  /\ wait' = [wait EXCEPT ![tm] = FALSE]
  /\ ready' = [ready EXCEPT ![tm] = @ + 1]
  /\ UNCHANGED <<speedVars, speedLevel, steer, running, todo, left, history>>

\* The io thread runs a completion when it runs nothing else; the threads of the
\* connections may be anywhere in a handler.
TimerComplete(tm) ==
  /\ todo[IoThread] = <<>> /\ ready[tm] > 0
  /\ ready' = [ready EXCEPT ![tm] = @ - 1]
  /\ todo' = IF running[tm] THEN [todo EXCEPT ![IoThread] = Callback(tm)] ELSE todo
  /\ crossed' = (crossed \/ (tm = "run" /\ running[tm] /\ ~Idle))
  /\ UNCHANGED <<speedVars, speedLevel, steer, running, wait, left, last>>

SpeedThread == Speed!SpeedThread /\ UNCHANGED ctrlVars

Run(t) == MotorWrite(t) \/ CtrlWrite(t) \/ CallWrite(t)

Next ==
  \/ SpeedThread
  \/ \E t \in Servers : Accept(t)
  \/ \E t \in Threads : Run(t)
  \/ \E tm \in Timers : TimerExpire(tm) \/ TimerComplete(tm)

Spec == Init /\ [][Next]_vars

\* The speed thread loops for good, a thread finishes the handler or callback it
\* has begun, a deadline passes, and the io thread runs what is queued.  No
\* request has to arrive.
Fairness ==
  /\ WF_vars(SpeedThread)
  /\ \A t \in Threads : WF_vars(Run(t))
  /\ \A tm \in Timers : WF_vars(TimerExpire(tm)) /\ WF_vars(TimerComplete(tm))

FairSpec == Spec /\ Fairness

-----------------------------------------------------------------------------
(* What the controller promises.                                           *)

\* Every write is one of these.
Writes ==
  [do : {"state"}, at : Motors, val : Speed!MotorState]
  \cup [do : {"ctrl"}, at : Motors, val : Steps]
  \cup [do : {"reset"}, at : Motors, val : {0}]
  \cup [do : {"pwm"}, at : Motors, val : Pwms]
  \cup [do : {"mode"}, at : {0}, val : Speed!CtrlModes]
  \cup [do : {"level"}, at : {0}, val : DOMAIN PwmVect]
  \cup [do : {"steer"}, at : {0, 1}, val : {0, 1}]
  \cup [do : {"on", "off", "arm"}, timer : Timers]
  \cup [do : {"call"}, at : Nat, val : {n \in Int : Countable(n)}]

TypeOK ==
  /\ Speed!TypeOK
  /\ speedLevel \in DOMAIN PwmVect
  /\ steer \in [{0, 1} -> {0, 1}]
  /\ running \in [Timers -> BOOLEAN]
  /\ wait \in [Timers -> BOOLEAN]
  /\ ready \in [Timers -> 0 .. MaxReady]
  /\ todo \in [Threads -> Seq(Writes)]
  /\ left \in 0 .. MaxRequests
  /\ last \in Asked \cup {NoRequest}
  /\ crossed \in BOOLEAN

\* Whatever handlers and callbacks do is something a client of CarSpeed may do:
\* what holds of CarSpeed under any client holds of the controller.
ImplementsCarSpeed == Speed!Spec

\* Directions a motor may run in once the last request is carried out.
Directions(r, m) ==
  CASE r.fn = "setCarMoving" /\ r.a = "dirUp" -> {Forward}
    [] r.fn = "setCarMoving" /\ r.a = "dirDown" -> {Back}
    [] r.fn = "setCarMoving" /\ r.a = "dirLeft" /\ MotorNum = 4 ->
         IF m \in {2, 3} THEN {Forward} ELSE {Back}
    [] r.fn = "setCarMoving" /\ r.a = "dirRight" /\ MotorNum = 4 ->
         IF m \in {1, 4} THEN {Forward} ELSE {Back}
    [] r.fn = "setCarMoving" /\ r.a = "dirRotation" /\ MotorNum = 4 ->
         IF m \in {1, 3} THEN {Forward} ELSE {Back}
    [] r.fn = "setCarMoving" /\ MotorNum = 2 /\ r.a \in {"dirLeft", "dirRight"} ->
         {Forward}
    [] r.fn = "setRunTime" -> {IF r.a > 0 THEN Forward ELSE Back}
    [] r.fn = "setAllMotorState" -> {Sign(r.a)}
    [] OTHER -> {Forward, Back}

\* With requests served one at a time, no wheel runs against the request served
\* last: a timer of an earlier run or a step check decided before it may still
\* stop a wheel, nothing may turn it another way.
WheelsObeyLast ==
  Idle => \A m \in Motors : runState[m] \in Directions(last, m) \cup {Stop}

Straight == [p \in {0, 1} |-> 0]
Left  == [Straight EXCEPT ![1] = 1]
Right == [Straight EXCEPT ![0] = 1]

\* The requests that turn the steering; the others leave it as it is.
Turning(r) ==
  \/ r.fn = "setSteerTurn"
  \/ r.fn = "setCarMoving" /\ r.a \in {"dirUp", "dirDown"}
  \/ r.fn = "setCarMoving" /\ r.a \in {"dirLeft", "dirRight"} /\ MotorNum = 2
  \/ r.fn = "setAllMotorState" /\ r.a = 0
  \/ r.fn = "none"

\* Where the steering may point once the last request is carried out, if not straight.
Headings(r) ==
  CASE ~Turning(r) -> {Left, Right}
    [] r.fn = "setSteerTurn" /\ r.a > 0 -> {Left}
    [] r.fn = "setSteerTurn" /\ r.a < 0 -> {Right}
    [] r.fn = "setCarMoving" /\ r.a = "dirLeft" /\ MotorNum = 2 -> {Left}
    [] r.fn = "setCarMoving" /\ r.a = "dirRight" /\ MotorNum = 2 -> {Right}
    [] OTHER -> {}

\* With requests served one at a time, the steering points where the request
\* served last says, or straight: the timer of an earlier turn and the end of an
\* earlier run may straighten it, nothing turns it the other way or leaves both
\* of its pins high.
SteerObeysLast == Idle /\ HasSteer => steer \in Headings(last) \cup {Straight}

\* Between requests the duty of every motor is the one of the speed level.
LevelConsistent == Idle => ctrlPwm = PwmVect[speedLevel]

\* A timed run ends by itself, whatever was asked before it and however often
\* the timer was restarted, unless another request is served.
TimedRunEnds ==
  last.fn = "setRunTime"
    ~> (last.fn # "setRunTime" \/ \A m \in Motors : runState[m] = Stop)

TurnsForATime(r) == r.fn = "setSteerTurn" /\ r.a # 0 /\ r.b > 0

\* A turn for a time ends by itself, also when it restarts the timer of a turn
\* before it or finds a completion of that timer queued, unless the end of a run
\* crossed it.
TimedTurnEnds ==
  TurnsForATime(last) ~> (~TurnsForATime(last) \/ steer = Straight \/ crossed)

\* "set steer direction and time.  [...] time: 0 stop, >0 time"
\* (cli/src/cli_car.cpp:159): every turn for a time ends by itself.
EveryTurnEnds == TurnsForATime(last) ~> (~TurnsForATime(last) \/ steer = Straight)

\* The next call of a timer's callback is under way.
Awaits(tm) == running[tm] /\ (wait[tm] \/ ready[tm] > 0)

\* With requests served one at a time, a car that still drives after a timed run
\* was begun has the end of the run under way, whatever completions of earlier
\* runs and turns were queued when it began and have run since.
RunHasEnd ==
  (Idle /\ last.fn = "setRunTime" /\ \E m \in Motors : runState[m] # Stop) => Awaits("run")

\* The same of a turn for a time: the end of a run stops the steering timer too,
\* but then the steering is straight.  Not so when that end was carried out
\* while the turn was: its stop of the timer may follow the turn's start.
TurnHasEnd ==
  (Idle /\ HasSteer /\ TurnsForATime(last) /\ ~crossed /\ steer # Straight)
    => Awaits("steer")

\* "step: >0-forward/left, <0-backward/right" (cli/src/cli_car.cpp:119): a car
\* asked for steps forward does not run backwards.
StepsGoForward ==
  (Idle /\ last.fn = "setCarSteps" /\ last.a = "dirUp" /\ last.b > 0)
    => \A m \in Motors : runState[m] # Back
=============================================================================
