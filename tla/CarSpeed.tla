------------------------------ MODULE CarSpeed ------------------------------
(***************************************************************************)
(* The motors of the car (mcarctrl/src/motor.cpp) and the speed thread     *)
(* that drives them (mcarctrl/src/car_speed.cpp).  The thread wakes every  *)
(* millisecond, runs the software PWM of every motor, ends the movements   *)
(* that have counted their steps, and then counts the wheel pulses its     *)
(* poll() reports.  The RPC threads write the same members without a lock; *)
(* here they are the most general client: any setter at any time.          *)
(* CarCtrl restricts them to the sequences of writes its handlers perform. *)
(*                                                                         *)
(* One action is one access of data that the thread shares with the        *)
(* others; what the thread does between two such accesses is folded into   *)
(* the first of them; the reads of one condition are taken together.  The  *)
(* counters pwmCount and runFlag are the statics of motorPwmCtrl and       *)
(* belong to the thread.                                                   *)
(***************************************************************************)
EXTENDS Integers, FiniteSets

CONSTANTS
  MotorNum,   \* m_motorNum of param.json; the motors are 1..MotorNum
  MaxPwm,     \* Motor::m_maxPwm, the ticks of a PWM period
  Pwms,       \* the duty values the pwm table holds
  Inputs,     \* the motors that have an input GPIO (an IR wheel sensor)
  Steps,      \* the step counts a client may ask for
  MaxActual,  \* bound of the model: no pulse arrives at |actualSteps| = MaxActual
  Garbage,    \* what the uninitialised m_portState may hold
  Faulty      \* TRUE: Gpio::setValue may fail

Motors == 1 .. MotorNum

ASSUME ConstantsAssumption ==
  /\ MotorNum \in Nat \ {0}
  /\ MaxPwm \in Nat \ {0}
  /\ Pwms \subseteq 0 .. MaxPwm /\ Pwms # {}
  /\ Inputs \subseteq Motors
  /\ Steps \subseteq Int
  /\ MaxActual \in Nat
  /\ Garbage # {}
  /\ Faulty \in BOOLEAN

\* enum class MotorState, and the values of CTRL_MODE_* that are ever assigned.
Forward == 1
Stop    == 0
Back    == -1
MotorState == {Forward, Stop, Back}

StepMode == 0
TimeMode == 2
CtrlModes == {StepMode, TimeMode}

Ports == {0, 1}
Bit   == {0, 1}

Abs(n) == IF n < 0 THEN -n ELSE n

VARIABLES
  runState,     \* Motor::m_runState, what the clients ask for
  nowState,     \* Motor::m_nowState, what was last written to the pins
  portState,    \* Motor::m_portState, the level each pin is believed to have
  pin,          \* the level each output pin has
  ctrlSteps,    \* Motor::m_ctrlSteps
  actualSteps,  \* Motor::m_actualSteps
  ctrlPwm,      \* Motor::m_ctrlPwm
  ctrlMode,     \* CarCtrl::m_ctrlMode
  pwmCount, runFlag,             \* the statics of motorPwmCtrl
  pc, cur, goal, ret, events, sum,  \* where the speed thread is, and its locals
  lost,         \* history: the last write to this pin failed
  touched       \* history: a client wrote since the thread compared the steps

shared == <<runState, ctrlSteps, actualSteps, ctrlPwm, ctrlMode>>
pins   == <<nowState, portState, pin, lost>>
pwm    == <<pwmCount, runFlag>>
local  == <<pc, cur, goal, ret, events, sum>>
vars   == <<runState, nowState, portState, pin, ctrlSteps, actualSteps, ctrlPwm,
            ctrlMode, pwmCount, runFlag, pc, cur, goal, ret, events, sum,
            lost, touched>>

Pcs == {"sleep", "test", "toggle", "port0", "port1", "check", "expire",
        "poll", "pulse", "bump"}

TypeOK ==
  /\ runState \in [Motors -> MotorState]
  /\ nowState \in [Motors -> MotorState]
  /\ portState \in [Motors -> [Ports -> Bit \cup Garbage]]
  /\ pin \in [Motors -> [Ports -> Bit]]
  /\ ctrlSteps \in [Motors -> Int]
  /\ actualSteps \in [Motors -> Int]
  /\ ctrlPwm \in [Motors -> 0 .. MaxPwm]
  /\ ctrlMode \in CtrlModes
  /\ pwmCount \in [Motors -> 0 .. (MaxPwm - 1)]
  /\ runFlag \in [Motors -> BOOLEAN]
  /\ pc \in Pcs
  /\ cur \in Motors
  /\ goal \in MotorState
  /\ ret \in {"check", "leave"}
  /\ events \in SUBSET Motors
  /\ sum \in Int
  /\ lost \in [Motors -> [Ports -> BOOLEAN]]
  /\ touched \in [Motors -> BOOLEAN]

\* The Gpio constructors drive both pins low.  m_portState is never
\* initialised, and the constructor's setNowState(Stop) returns at once
\* because m_nowState is Stop already: any content may remain.
Init ==
  /\ runState = [m \in Motors |-> Stop]
  /\ nowState = [m \in Motors |-> Stop]
  /\ portState \in [Motors -> [Ports -> Garbage]]
  /\ pin = [m \in Motors |-> [p \in Ports |-> 0]]
  /\ ctrlSteps = [m \in Motors |-> 0]
  /\ actualSteps = [m \in Motors |-> 0]
  /\ ctrlPwm \in [Motors -> Pwms]
  /\ ctrlMode = StepMode
  /\ pwmCount = [m \in Motors |-> 0]
  /\ runFlag = [m \in Motors |-> TRUE]
  /\ pc = "sleep" /\ cur = 1 /\ goal = Stop /\ ret = "leave"
  /\ events = {} /\ sum = 0
  /\ lost = [m \in Motors |-> [p \in Ports |-> FALSE]]
  /\ touched = [m \in Motors |-> FALSE]

-----------------------------------------------------------------------------
(* The speed thread.                                                       *)

\* sleep_for(1ms) returns; motorPwmCtrl starts with the first motor.
Wake ==
  /\ pc = "sleep"
  /\ pc' = "test" /\ cur' = 1
  /\ UNCHANGED <<shared, pins, pwm, goal, ret, events, sum, touched>>

\* The loop over the motors goes on with the next one, or ends and poll() runs.
LeaveMotor ==
  IF cur < MotorNum
  THEN pc' = "test" /\ cur' = cur + 1
  ELSE pc' = "poll" /\ UNCHANGED cur

\* Motor::setNowState(s) up to its first pin write; control then goes to r.
BeginNowState(s, r) ==
  /\ goal' = s /\ ret' = r
  /\ IF nowState[cur] # s
     THEN pc' = "port0" /\ UNCHANGED cur
     ELSE IF r = "check" THEN pc' = "check" /\ UNCHANGED cur
                         ELSE LeaveMotor

Threshold(m) == IF runFlag[m] THEN ctrlPwm[m] ELSE MaxPwm - ctrlPwm[m]

\* Faulty variant: the counter is never reset.
CountTickNoReset ==
  /\ pc = "test"
  /\ runState[cur] # Stop
  /\ pwmCount' = [pwmCount EXCEPT ![cur] = @ + 1]
  /\ pc' = IF pwmCount[cur] + 1 >= Threshold(cur) THEN "toggle" ELSE "check"
  /\ UNCHANGED <<shared, pins, runFlag, cur, goal, ret, events, sum, touched>>

\* The motor is asked to run: count the tick, and compare it with the phase.
CountTick ==
  /\ pc = "test"
  /\ runState[cur] # Stop
  /\ IF pwmCount[cur] + 1 >= Threshold(cur)
     THEN /\ pwmCount' = [pwmCount EXCEPT ![cur] = 0]
          /\ pc' = "toggle"
     ELSE /\ pwmCount' = [pwmCount EXCEPT ![cur] = @ + 1]
          /\ pc' = "check"
  /\ UNCHANGED <<shared, pins, runFlag, cur, goal, ret, events, sum, touched>>

\* Faulty variant: only the counter is reset, the pins are left to the phases.
StopTickNoWrite ==
  /\ pc = "test"
  /\ runState[cur] = Stop
  /\ pwmCount' = [pwmCount EXCEPT ![cur] = 0]
  /\ LeaveMotor
  /\ UNCHANGED <<shared, pins, runFlag, goal, ret, events, sum, touched>>

\* The motor is asked to stop: the else branch of motorPwmCtrl.
StopTick ==
  /\ pc = "test"
  /\ runState[cur] = Stop
  /\ pwmCount' = [pwmCount EXCEPT ![cur] = 0]
  /\ BeginNowState(Stop, "leave")
  /\ UNCHANGED <<shared, pins, runFlag, events, sum, touched>>

\* Faulty variant: the on phase ends without stopping the motor.
TogglePhaseNoStop ==
  /\ pc = "toggle"
  /\ BeginNowState(runState[cur], "check")
  /\ runFlag' = [runFlag EXCEPT ![cur] = ~@]
  /\ UNCHANGED <<shared, pins, pwmCount, events, sum, touched>>

\* Faulty variant: the phase is not toggled.
TogglePhaseNoFlag ==
  /\ pc = "toggle"
  /\ BeginNowState(IF runFlag[cur] THEN Stop ELSE runState[cur], "check")
  /\ UNCHANGED <<shared, pins, pwmCount, runFlag, events, sum, touched>>

\* The phase ends.  An off phase ends by reading m_runState once more.
TogglePhase ==
  /\ pc = "toggle"
  /\ BeginNowState(IF runFlag[cur] THEN Stop ELSE runState[cur], "check")
  /\ runFlag' = [runFlag EXCEPT ![cur] = ~@]
  /\ UNCHANGED <<shared, pins, pwmCount, events, sum, touched>>

Level(s, p) == IF (s = Forward /\ p = 1) \/ (s = Back /\ p = 0) THEN 1 ELSE 0

\* Faulty variant: the level written is not remembered.
SetPortStateForgets(p) ==
  LET v == Level(goal, p) IN
  IF portState[cur][p] = v
  THEN UNCHANGED <<portState, pin, lost>>
  ELSE /\ pin' = [pin EXCEPT ![cur][p] = v]
       /\ UNCHANGED <<portState, lost>>

\* The lambda setPortState: believe first, write then, ignore the result.
SetPortState(p) ==
  LET v == Level(goal, p) IN
  IF portState[cur][p] = v
  THEN UNCHANGED <<portState, pin, lost>>
  ELSE /\ portState' = [portState EXCEPT ![cur][p] = v]
       /\ \/ /\ pin' = [pin EXCEPT ![cur][p] = v]
             /\ lost' = [lost EXCEPT ![cur][p] = FALSE]
          \/ /\ Faulty
             /\ lost' = [lost EXCEPT ![cur][p] = TRUE]
             /\ UNCHANGED pin

WritePort0 ==
  /\ pc = "port0"
  /\ SetPortState(0)
  /\ pc' = "port1"
  /\ UNCHANGED <<shared, nowState, pwm, cur, goal, ret, events, sum, touched>>

WritePort1 ==
  /\ pc = "port1"
  /\ SetPortState(1)
  /\ nowState' = [nowState EXCEPT ![cur] = goal]
  /\ IF ret = "check" THEN pc' = "check" /\ UNCHANGED cur ELSE LeaveMotor
  /\ UNCHANGED <<shared, pwm, goal, ret, events, sum, touched>>

\* Faulty variant: the movement ends one step late.
CheckStepsLate ==
  /\ pc = "check"
  /\ touched' = [touched EXCEPT ![cur] = FALSE]
  /\ IF Abs(actualSteps[cur]) > Abs(ctrlSteps[cur]) + 1 /\ ctrlMode = StepMode
     THEN pc' = "expire" /\ UNCHANGED cur
     ELSE LeaveMotor
  /\ UNCHANGED <<shared, pins, pwm, goal, ret, events, sum>>

\* Faulty variant: the steps are compared in time mode.
CheckStepsOtherMode ==
  /\ pc = "check"
  /\ touched' = [touched EXCEPT ![cur] = FALSE]
  /\ IF Abs(actualSteps[cur]) > Abs(ctrlSteps[cur]) /\ ctrlMode = TimeMode
     THEN pc' = "expire" /\ UNCHANGED cur
     ELSE LeaveMotor
  /\ UNCHANGED <<shared, pins, pwm, goal, ret, events, sum>>

\* |actual| > |ctrl| in step mode: the movement is over, decided on what the
\* three members hold now ...
CheckSteps ==
  /\ pc = "check"
  /\ touched' = [touched EXCEPT ![cur] = FALSE]
  /\ IF Abs(actualSteps[cur]) > Abs(ctrlSteps[cur]) /\ ctrlMode = StepMode
     THEN pc' = "expire" /\ UNCHANGED cur
     ELSE LeaveMotor
  /\ UNCHANGED <<shared, pins, pwm, goal, ret, events, sum>>

\* ... and carried out afterwards.
Expire ==
  /\ pc = "expire"
  /\ runState' = [runState EXCEPT ![cur] = Stop]
  /\ LeaveMotor
  /\ UNCHANGED <<ctrlSteps, actualSteps, ctrlPwm, ctrlMode, pins, pwm,
                 goal, ret, events, sum, touched>>

\* poll() reports the motors with a rising edge; a motor whose lseek or read
\* fails is skipped, as one that reported nothing.
Poll ==
  /\ pc = "poll"
  /\ \E ev \in SUBSET {m \in Inputs : Abs(actualSteps[m]) < MaxActual} :
       /\ events' = ev
       /\ pc' = IF ev = {} THEN "sleep" ELSE "pulse"
  /\ UNCHANGED <<shared, pins, pwm, cur, goal, ret, sum, touched>>

\* The reported motors are served in order; moveActualSteps reads the count it
\* adds to ...
ReadPulse ==
  /\ pc = "pulse"
  /\ \E m \in events :
       /\ \A n \in events : m <= n
       /\ cur' = m
       /\ sum' = actualSteps[m]
                 + (IF ctrlSteps[m] >= 0 \/ ctrlMode = TimeMode THEN 1 ELSE -1)
  /\ pc' = "bump"
  /\ UNCHANGED <<shared, pins, pwm, goal, ret, events, touched>>

\* ... and stores the sum, whatever a client wrote in between.
AddPulse ==
  /\ pc = "bump"
  /\ actualSteps' = [actualSteps EXCEPT ![cur] = sum]
  /\ events' = events \ {cur}
  /\ pc' = IF events \ {cur} = {} THEN "sleep" ELSE "pulse"
  /\ UNCHANGED <<runState, ctrlSteps, ctrlPwm, ctrlMode, pins, pwm,
                 cur, goal, ret, sum, touched>>

SpeedThread ==
  \/ Wake \/ CountTick \/ StopTick \/ TogglePhase \/ WritePort0 \/ WritePort1
  \/ CheckSteps \/ Expire \/ Poll \/ ReadPulse \/ AddPulse

-----------------------------------------------------------------------------
(* The setters the RPC threads call.                                       *)

thread == <<pwm, pins, local>>

SetMotorState(m, s) ==
  /\ runState' = [runState EXCEPT ![m] = s]
  /\ touched' = [touched EXCEPT ![m] = TRUE]
  /\ UNCHANGED <<ctrlSteps, actualSteps, ctrlPwm, ctrlMode, thread>>

\* The first half of Motor::setCtrlSteps; the second is SetMotorState(sign).
SetCtrlSteps(m, n) ==
  /\ ctrlSteps' = [ctrlSteps EXCEPT ![m] = n]
  /\ touched' = [touched EXCEPT ![m] = TRUE]
  /\ UNCHANGED <<runState, actualSteps, ctrlPwm, ctrlMode, thread>>

\* setActualSteps is only ever called with 0.
ResetActualSteps(m) ==
  /\ actualSteps' = [actualSteps EXCEPT ![m] = 0]
  /\ touched' = [touched EXCEPT ![m] = TRUE]
  /\ UNCHANGED <<runState, ctrlSteps, ctrlPwm, ctrlMode, thread>>

SetRunPwm(m, p) ==
  /\ ctrlPwm' = [ctrlPwm EXCEPT ![m] = p]
  /\ UNCHANGED <<runState, ctrlSteps, actualSteps, ctrlMode, thread, touched>>

SetCtrlMode(mode) ==
  /\ ctrlMode' = mode
  /\ touched' = [m \in Motors |-> TRUE]
  /\ UNCHANGED <<runState, ctrlSteps, actualSteps, ctrlPwm, thread>>

Client ==
  \/ \E m \in Motors :
       \/ \E s \in MotorState : SetMotorState(m, s)
       \/ \E n \in Steps : SetCtrlSteps(m, n)
       \/ ResetActualSteps(m)
       \/ \E p \in Pwms : SetRunPwm(m, p)
  \/ \E mode \in CtrlModes : SetCtrlMode(mode)

Next == SpeedThread \/ Client

Spec == Init /\ [][Next]_vars

\* The thread is never blocked for good: sleep_for and poll(.., 0) return.
Fairness == WF_vars(SpeedThread)

FairSpec == Spec /\ Fairness
-----------------------------------------------------------------------------
(* What the motors promise.                                                *)

\* A pin that is high, and not because writing it failed.
High(m, p) == pin[m][p] = 1 /\ ~lost[m][p]

Writing(m) == pc \in {"port0", "port1"} /\ cur = m

\* What is high is believed to be high.
HighBelieved == \A m \in Motors, p \in Ports : High(m, p) => portState[m][p] = 1

\* At most the pin of the direction last written, or being written, is high.
OnePinHigh ==
  \A m \in Motors :
    LET s == IF pc = "port1" /\ cur = m THEN goal ELSE nowState[m]
    IN  /\ s # Back => ~High(m, 0)
        /\ s = Back \/ nowState[m] # Forward => ~High(m, 1)

\* In the off phase of the PWM (runFlag is FALSE) Stop is, or is being, written.
OffPhase ==
  \A m \in Motors : ~runFlag[m] => nowState[m] = Stop \/ (Writing(m) /\ goal = Stop)

\* A direction is only written over Stop, when the off phase has just ended.
DirectionOverStop ==
  \A m \in Motors : Writing(m) /\ goal # Stop => nowState[m] = Stop /\ runFlag[m]

\* Why the pins are safe: the order of the writes in setNowState would pass
\* through both pins high between Forward and Back, but motorPwmCtrl never asks
\* for that change directly.
WriteInv == HighBelieved /\ OnePinHigh /\ OffPhase /\ DirectionOverStop

\* Both inputs of an H-bridge are high only after Gpio::setValue failed on one
\* of them: setPortState believes its write before it is made and never
\* retries it, and the order of the two writes alone does not exclude it.
NoShootThrough ==
  \A m \in Motors : (\A p \in Ports : pin[m][p] = 1) => \E p \in Ports : lost[m][p]

\* In step mode a running motor nobody wrote to since the thread last compared
\* its steps is at most one pulse past its target, while its end is pending
\* excepted.  The comparison and the counting are apart in the thread's loop,
\* and the counted sum is stored after the count was read.
StepOvershoot ==
  \A m \in Motors :
    (/\ ctrlMode = StepMode /\ runState[m] # Stop /\ ~touched[m]
     /\ ~(pc = "expire" /\ cur = m))
    => Abs(actualSteps[m]) <= Abs(ctrlSteps[m]) + 1

OutOfOrder(m) == \E p \in Ports : lost[m][p]

Drive(m) == IF OutOfOrder(m) THEN "OutOfOrder"
            ELSE IF pin[m][0] = 0
                 THEN IF pin[m][1] = 0 THEN "Coast" ELSE "Forward"
                 ELSE IF pin[m][1] = 0 THEN "Back" ELSE "Short"

drives == [m \in Motors |-> Drive(m)]

Bridge == INSTANCE HBridge WITH drive <- drives, CanFail <- Faulty

\* Every motor is an HBridge: whatever the clients do, and whatever m_portState
\* held at first, the direction changes only through an off phase of the PWM; and
\* a motor of which a write has failed is one again when both pins are written.
ImplementsBridge == Bridge!Spec

\* A stop reaches the pins, or the motor is asked to run again, or a write fails.
StopReachesPins ==
  \A m \in Motors :
    runState[m] = Stop ~> (runState[m] # Stop \/ Drive(m) = "Coast" \/ OutOfOrder(m))

\* A motor that goes on being asked to run in a direction is driven in it,
\* also when the first write was skipped over a stale m_portState, unless a write
\* fails.
RunReachesPins ==
  \A m \in Motors : \A s \in {Forward, Back} :
    runState[m] = s ~>
      \/ runState[m] # s
      \/ Drive(m) = (IF s = Forward THEN "Forward" ELSE "Back")
      \/ OutOfOrder(m)

\* A step movement that has passed its target ends, if it is left alone.
StepsEndMovement ==
  \A m \in Motors :
    LET Overdue == ctrlMode = StepMode /\ Abs(actualSteps[m]) > Abs(ctrlSteps[m])
    IN  Overdue ~> (~Overdue \/ runState[m] = Stop)
=============================================================================
