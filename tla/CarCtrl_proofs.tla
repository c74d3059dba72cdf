---------------------------- MODULE CarCtrl_proofs ----------------------------
(***************************************************************************)
(* The controller implements CarSpeed, for any number of server threads,   *)
(* requests, levels and timers: its handlers, however they interleave, are *)
(* clients of the motors.  What is proved of CarSpeed under any client     *)
(* then holds of the controller.                                           *)
(***************************************************************************)
EXTENDS CarCtrl, TLAPS

SpeedProofs == INSTANCE CarSpeed_proofs

-----------------------------------------------------------------------------
(* Handlers are sequences of writes.                                       *)

\* What the steps of a write are: its kind says what its arguments are.
LEMMA WriteFacts ==
  /\ \A m \in Motors, s \in Speed!MotorState : Write("state", m, s) \in Writes
  /\ \A m \in Motors, n \in Steps : Write("ctrl", m, n) \in Writes
  /\ \A m \in Motors : Write("reset", m, 0) \in Writes
  /\ \A m \in Motors, p \in Pwms : Write("pwm", m, p) \in Writes
  /\ \A c \in Speed!CtrlModes : Write("mode", 0, c) \in Writes
  /\ \A l \in DOMAIN PwmVect : Write("level", 0, l) \in Writes
  /\ \A p, b \in {0, 1} : Write("steer", p, b) \in Writes
  /\ \A k \in {"on", "off", "arm"}, t \in Timers : TimerWrite(k, t) \in Writes
  /\ \A m \in Nat, n \in {i \in Int : Countable(i)} : Call(m, n) \in Writes
  BY DEF Writes, Write, TimerWrite, Call

\* The motors are the first two or four numbers.
LEMMA MotorFacts ==
  /\ MotorNum \in {2, 4}
  /\ Motors = 1 .. MotorNum
  /\ 1 \in Motors /\ 2 \in Motors
  /\ MotorNum # 2 => 3 \in Motors /\ 4 \in Motors
  BY CtrlAssumption DEF Motors, Speed!Motors

LEMMA SignType == \A n : Sign(n) \in Speed!MotorState
  BY DEF Sign, Forward, Stop, Back, Speed!MotorState, Speed!Forward, Speed!Stop, Speed!Back

\* Sequences of writes: one write, one for every motor, one after the other.
LEMMA OneWrite == \A w \in Writes : <<w>> \in Seq(Writes)
  OBVIOUS

LEMMA MotorWrites == \A f \in [Motors -> Writes] : f \in Seq(Writes)
  BY MotorFacts

LEMMA Then == \A s, u \in Seq(Writes) : s \o u \in Seq(Writes)
  OBVIOUS

LEMMA NoWrite == <<>> \in Seq(Writes)
  OBVIOUS

\* The states of the motors one after the other, all alike or by a pattern.
LEMMA AllWrites == \A s \in Speed!MotorState : All(s) \in Seq(Writes)
<1> SUFFICES ASSUME NEW s \in Speed!MotorState PROVE All(s) \in Seq(Writes)
  OBVIOUS
<1>1. MotorNum \in Nat /\ Motors = 1 .. MotorNum
  BY MotorFacts
<1>2. Len([m \in Motors |-> s]) = MotorNum
  BY <1>1
<1>3. All(s) = [m \in Motors |-> Write("state", m, s)]
  BY <1>1, <1>2 DEF All, States
<1> QED
  BY <1>3, WriteFacts, MotorWrites

LEMMA PatternWrites ==
  /\ \A a, b \in Speed!MotorState : States(<<a, b>>) \in Seq(Writes)
  /\ MotorNum # 2 => \A a, b, c, d \in Speed!MotorState :
                       States(<<a, b, c, d>>) \in Seq(Writes)
<1>1. ASSUME NEW a \in Speed!MotorState, NEW b \in Speed!MotorState
      PROVE  States(<<a, b>>) \in Seq(Writes)
  <2>1. States(<<a, b>>) = <<Write("state", 1, a), Write("state", 2, b)>>
    BY DEF States
  <2>2. Write("state", 1, a) \in Writes /\ Write("state", 2, b) \in Writes
    BY WriteFacts, MotorFacts
  <2>3. <<Write("state", 1, a), Write("state", 2, b)>> \in Seq(Writes)
    BY <2>2
  <2> QED
    BY <2>1, <2>3, Zenon
<1>2. ASSUME MotorNum # 2, NEW a \in Speed!MotorState, NEW b \in Speed!MotorState,
             NEW c \in Speed!MotorState, NEW d \in Speed!MotorState
      PROVE  States(<<a, b, c, d>>) \in Seq(Writes)
  <2>1. States(<<a, b, c, d>>) = <<Write("state", 1, a), Write("state", 2, b),
                                   Write("state", 3, c), Write("state", 4, d)>>
    BY DEF States
  <2>2. /\ Write("state", 1, a) \in Writes /\ Write("state", 2, b) \in Writes
        /\ Write("state", 3, c) \in Writes /\ Write("state", 4, d) \in Writes
    BY <1>2, WriteFacts, MotorFacts
  <2>3. <<Write("state", 1, a), Write("state", 2, b),
          Write("state", 3, c), Write("state", 4, d)>> \in Seq(Writes)
    BY <2>2
  <2> QED
    BY <2>1, <2>3, Zenon
<1> QED
  BY <1>1, <1>2

\* The steering and the timers.
LEMMA TimerWrites == \A t \in Timers : StartTimer(t) \in Seq(Writes)
  BY WriteFacts DEF StartTimer

LEMMA TurnWrites == \A dir, time : Turn(dir, time) \in Seq(Writes)
<1> SUFFICES ASSUME NEW dir, NEW time PROVE Turn(dir, time) \in Seq(Writes)
  OBVIOUS
<1> DEFINE pins == <<Write("steer", 0, IF dir < 0 THEN 1 ELSE 0),
                     Write("steer", 1, IF dir > 0 THEN 1 ELSE 0)>>
           timer == CASE dir = 0 -> <<TimerWrite("off", "steer")>>
                      [] dir # 0 /\ time > 0 -> StartTimer("steer")
                      [] OTHER -> <<>>
<1>1. pins \in Seq(Writes)
  BY WriteFacts
<1>2. TimerWrite("off", "steer") \in Writes /\ "steer" \in Timers
  BY WriteFacts DEF Timers
<1>3. timer \in Seq(Writes)
  BY <1>2, OneWrite, TimerWrites, NoWrite
<1>4. Turn(dir, time) = IF ~HasSteer THEN <<>> ELSE pins \o timer
  BY DEF Turn
<1> HIDE DEF pins, timer
<1> QED
  BY <1>1, <1>3, <1>4, Then, NoWrite

LEMMA StopWrites == \A s : SetAllMotorState(s) \in Seq(Writes)
  BY AllWrites, SignType, TurnWrites, Then, NoWrite DEF SetAllMotorState

LEMMA CallbackWrites == \A t \in Timers : Callback(t) \in Seq(Writes)
<1>1. <<Write("steer", 0, 0), Write("steer", 1, 0)>> \in Seq(Writes)
  BY WriteFacts
<1> QED
  BY <1>1, StopWrites DEF Callback

LEMMA ModeWrite ==
  /\ <<Write("mode", 0, Speed!TimeMode)>> \in Seq(Writes)
  /\ <<Write("mode", 0, Speed!StepMode)>> \in Seq(Writes)
<1>1. Speed!TimeMode \in Speed!CtrlModes /\ Speed!StepMode \in Speed!CtrlModes
  BY DEF Speed!CtrlModes
<1> QED
  BY <1>1, WriteFacts, OneWrite

\* Movements.
LEMMA MovingWrites == \A dir : SetCarMoving(dir) \in Seq(Writes)
<1> SUFFICES ASSUME NEW dir PROVE SetCarMoving(dir) \in Seq(Writes)
  OBVIOUS
<1>1. {Forward, Back} \subseteq Speed!MotorState
  BY DEF Forward, Back, Speed!MotorState
<1> DEFINE F == Forward
           B == Back
           wheels == SetCarMoving(dir)
<1>2. /\ States(<<F, F>>) \in Seq(Writes)
      /\ MotorNum # 2 => /\ States(<<B, F, F, B>>) \in Seq(Writes)
                         /\ States(<<F, B, B, F>>) \in Seq(Writes)
                         /\ States(<<F, B, F, B>>) \in Seq(Writes)
  BY <1>1, PatternWrites
<1>3. /\ All(Forward) \in Seq(Writes)
      /\ All(Back) \in Seq(Writes)
  BY <1>1, AllWrites
<1>4. /\ All(Forward) \o Turn(0, 0) \in Seq(Writes)
      /\ All(Back) \o Turn(0, 0) \in Seq(Writes)
      /\ \A d \in {1, -1} : States(<<F, F>>) \o Turn(d, 0) \in Seq(Writes)
  BY <1>2, <1>3, TurnWrites, Then
<1> QED
  BY <1>2, <1>4, ModeWrite, NoWrite, Then, Zenon DEF SetCarMoving

LEMMA RunTimeWrites == \A time : SetRunTime(time) \in Seq(Writes)
<1> SUFFICES ASSUME NEW time PROVE SetRunTime(time) \in Seq(Writes)
  OBVIOUS
<1>1. [m \in Motors |-> Write("reset", m, 0)] \in Seq(Writes)
  BY WriteFacts, MotorWrites
<1>2. StartTimer("run") \in Seq(Writes)
  BY TimerWrites DEF Timers
<1>3. SetAllMotorState(IF time > 0 THEN 1 ELSE -1) \in Seq(Writes)
  BY StopWrites
<1> QED
  BY <1>1, <1>2, <1>3, ModeWrite, Then, Zenon DEF SetRunTime

LEMMA LevelWrites == \A l \in Int : SetMotorSpeedLevel(l) \in Seq(Writes)
<1> SUFFICES ASSUME NEW l \in Int, ~(l < 1 \/ l > 9)
             PROVE  SetMotorSpeedLevel(l) \in Seq(Writes)
  BY NoWrite, Zenon DEF SetMotorSpeedLevel
<1>1. l \in DOMAIN PwmVect /\ PwmVect[l] \in [Motors -> Pwms]
  BY CtrlAssumption, MotorFacts
<1>2. [m \in Motors |-> Write("pwm", m, PwmVect[l][m])] \in Seq(Writes)
  BY <1>1, WriteFacts, MotorWrites
<1>3. <<Write("level", 0, l)>> \in Seq(Writes)
  BY <1>1, WriteFacts, OneWrite
<1> QED
  BY <1>2, <1>3, Then, Zenon DEF SetMotorSpeedLevel

\* Step movements.
LEMMA RunStepsWrites ==
  \A m \in Motors, n \in Steps :
    /\ RunSteps(m, n) \in Seq(Writes)
    /\ Len(RunSteps(m, n)) = 3
    /\ \A i \in 1 .. 3 : RunSteps(m, n)[i] \in Writes
<1> SUFFICES ASSUME NEW m \in Motors, NEW n \in Steps
             PROVE  /\ RunSteps(m, n) \in Seq(Writes)
                    /\ Len(RunSteps(m, n)) = 3
                    /\ \A i \in 1 .. 3 : RunSteps(m, n)[i] \in Writes
  OBVIOUS
<1>1. /\ Write("reset", m, 0) \in Writes
      /\ Write("ctrl", m, n) \in Writes
      /\ Write("state", m, Sign(n)) \in Writes
  BY WriteFacts, SignType
<1> QED
  BY <1>1 DEF RunSteps

LEMMA RunStepsAllWrites == \A n \in Steps : RunStepsAll(n) \in Seq(Writes)
<1> SUFFICES ASSUME NEW n \in Steps PROVE RunStepsAll(n) \in Seq(Writes)
  OBVIOUS
<1>1. ASSUME NEW i \in 1 .. 3 * MotorNum
      PROVE  1 + (i - 1) \div 3 \in Motors /\ 1 + ((i - 1) % 3) \in 1 .. 3
  BY MotorFacts
<1>2. \A i \in 1 .. 3 * MotorNum :
        RunSteps(1 + (i - 1) \div 3, n)[1 + ((i - 1) % 3)] \in Writes
  BY <1>1, RunStepsWrites
<1>3. 3 * MotorNum \in Nat
  BY MotorFacts
<1> QED
  BY <1>2, <1>3 DEF RunStepsAll

LEMMA StepWrites ==
  ASSUME NEW m \in Nat, NEW n, Countable(n), NEW l \in DOMAIN PwmVect
  PROVE  SetCtrlSteps(m, n, l) \in Seq(Writes)
<1>1. CASE m > MotorNum
  BY <1>1, NoWrite DEF SetCtrlSteps
<1>2. CASE ~(m > MotorNum) /\ n = 0
  <2>1. Stop \in Speed!MotorState
    BY DEF Stop, Speed!MotorState
  <2>2. m # 0 => m \in Motors
    BY <1>2, MotorFacts
  <2> QED
    BY <1>2, <2>1, <2>2, AllWrites, WriteFacts, OneWrite DEF SetCtrlSteps
<1>3. CASE ~(m > MotorNum) /\ n # 0
  <2>1. Revise(n, l) \in Steps
    BY <1>3 DEF Countable
  <2>2. m # 0 => m \in Motors
    BY <1>3, MotorFacts
  <2>3. (IF m = 0 THEN RunStepsAll(Revise(n, l)) ELSE RunSteps(m, Revise(n, l)))
          \in Seq(Writes)
    BY <2>1, <2>2, RunStepsWrites, RunStepsAllWrites
  <2> QED
    BY <1>3, <2>3, ModeWrite, Then DEF SetCtrlSteps
<1> QED
  BY <1>1, <1>2, <1>3

LEMMA CarStepsWrites ==
  \A dir, n : Countable(n) /\ Countable(-n) => SetCarSteps(dir, n) \in Seq(Writes)
<1> SUFFICES ASSUME NEW dir, NEW n, Countable(n), Countable(-n)
             PROVE  SetCarSteps(dir, n) \in Seq(Writes)
  OBVIOUS
<1>1. \A m \in Nat : Call(m, n) \in Writes /\ Call(m, -n) \in Writes
  BY WriteFacts DEF Countable
<1> QED
  BY <1>1, NoWrite DEF SetCarSteps

\* Every handler is a sequence of writes.
LEMMA HandlerWrites == \A r \in Asked : Handler(r) \in Seq(Writes)
<1> SUFFICES ASSUME NEW r \in Asked PROVE Handler(r) \in Seq(Writes)
  OBVIOUS
<1>1. Request(r)
  BY RequestAssumption
<1>2. CASE r.fn = "setCtrlSteps" /\ r.a \in Nat /\ Countable(r.b)
  <2>1. Call(r.a, r.b) \in Writes
    BY <1>2, WriteFacts DEF Countable
  <2> QED
    BY <1>2, <2>1, OneWrite DEF Handler
<1>3. CASE /\ r.fn \in {"setRunTime", "setMotorSpeedLevel", "setAllMotorState"}
           /\ r.a \in Int
  BY <1>3, RunTimeWrites, LevelWrites, StopWrites DEF Handler
<1>4. CASE r.fn = "setCarSteps" /\ Countable(r.b) /\ Countable(-r.b)
  BY <1>4, CarStepsWrites DEF Handler
<1>5. CASE r.fn = "setCarMoving"
  BY <1>5, MovingWrites DEF Handler
<1>6. CASE r.fn = "setSteerTurn" /\ r.a \in Int /\ r.b \in Nat
  BY <1>6, TurnWrites DEF Handler
<1> QED
  BY <1>1, <1>2, <1>3, <1>4, <1>5, <1>6 DEF Request

-----------------------------------------------------------------------------
(* The theorems about CarSpeed are stated in a module that extends it; its *)
(* instance is the instance the controller is composed with.               *)

\* The assumption of CarSpeed on its constants.
LEMMA SpeedConstants ==
  /\ MotorNum \in Nat \ {0}
  /\ MaxPwm \in Nat \ {0}
  /\ Pwms \subseteq 0 .. MaxPwm /\ Pwms # {}
  /\ Inputs \subseteq SpeedProofs!Motors
  /\ Steps \subseteq Int
  /\ MaxActual \in Nat
  /\ Garbage # {}
  /\ Faulty \in BOOLEAN
  BY CtrlAssumption, MotorAssumption DEF SpeedProofs!Motors

\* The same initial states, steps and properties.
LEMMA SameInit == Speed!Init <=> SpeedProofs!Init
  BY Zenon
     DEF Speed!Motors, SpeedProofs!Motors, Speed!Forward, SpeedProofs!Forward,
         Speed!Stop, SpeedProofs!Stop, Speed!Back, SpeedProofs!Back,
         Speed!MotorState, SpeedProofs!MotorState, Speed!StepMode,
         SpeedProofs!StepMode, Speed!TimeMode, SpeedProofs!TimeMode,
         Speed!CtrlModes, SpeedProofs!CtrlModes, Speed!Ports,
         SpeedProofs!Ports, Speed!Bit, SpeedProofs!Bit, Speed!Init,
         SpeedProofs!Init

LEMMA SameThread == Speed!SpeedThread <=> SpeedProofs!SpeedThread
  BY Zenon
     DEF Speed!Motors, SpeedProofs!Motors, Speed!Forward, SpeedProofs!Forward,
         Speed!Stop, SpeedProofs!Stop, Speed!Back, SpeedProofs!Back,
         Speed!MotorState, SpeedProofs!MotorState, Speed!StepMode,
         SpeedProofs!StepMode, Speed!TimeMode, SpeedProofs!TimeMode,
         Speed!CtrlModes, SpeedProofs!CtrlModes, Speed!Ports,
         SpeedProofs!Ports, Speed!Bit, SpeedProofs!Bit, Speed!shared,
         SpeedProofs!shared, Speed!pins, SpeedProofs!pins, Speed!pwm,
         SpeedProofs!pwm, Speed!thread, SpeedProofs!thread, Speed!local,
         SpeedProofs!local, Speed!Abs, SpeedProofs!Abs, Speed!LeaveMotor,
         SpeedProofs!LeaveMotor, Speed!BeginNowState,
         SpeedProofs!BeginNowState, Speed!Threshold, SpeedProofs!Threshold,
         Speed!Level, SpeedProofs!Level, Speed!SetPortState,
         SpeedProofs!SetPortState, Speed!Wake, SpeedProofs!Wake,
         Speed!CountTick, SpeedProofs!CountTick, Speed!StopTick,
         SpeedProofs!StopTick, Speed!TogglePhase, SpeedProofs!TogglePhase,
         Speed!WritePort0, SpeedProofs!WritePort0, Speed!WritePort1,
         SpeedProofs!WritePort1, Speed!CheckSteps, SpeedProofs!CheckSteps,
         Speed!Expire, SpeedProofs!Expire, Speed!Poll, SpeedProofs!Poll,
         Speed!ReadPulse, SpeedProofs!ReadPulse, Speed!AddPulse,
         SpeedProofs!AddPulse, Speed!SpeedThread, SpeedProofs!SpeedThread

LEMMA SameClient == Speed!Client <=> SpeedProofs!Client
  BY Zenon
     DEF Speed!Motors, SpeedProofs!Motors, Speed!Forward, SpeedProofs!Forward,
         Speed!Stop, SpeedProofs!Stop, Speed!Back, SpeedProofs!Back,
         Speed!MotorState, SpeedProofs!MotorState, Speed!StepMode,
         SpeedProofs!StepMode, Speed!TimeMode, SpeedProofs!TimeMode,
         Speed!CtrlModes, SpeedProofs!CtrlModes, Speed!Ports,
         SpeedProofs!Ports, Speed!Bit, SpeedProofs!Bit, Speed!shared,
         SpeedProofs!shared, Speed!pins, SpeedProofs!pins, Speed!pwm,
         SpeedProofs!pwm, Speed!thread, SpeedProofs!thread, Speed!local,
         SpeedProofs!local, Speed!SetMotorState, SpeedProofs!SetMotorState,
         Speed!SetCtrlSteps, SpeedProofs!SetCtrlSteps, Speed!ResetActualSteps,
         SpeedProofs!ResetActualSteps, Speed!SetRunPwm, SpeedProofs!SetRunPwm,
         Speed!SetCtrlMode, SpeedProofs!SetCtrlMode, Speed!Client,
         SpeedProofs!Client

LEMMA SameStep == [Speed!Next]_(Speed!vars) <=> [SpeedProofs!Next]_(SpeedProofs!vars)
<1>1. Speed!Next <=> SpeedProofs!Next
  BY SameThread, SameClient, Zenon DEF Speed!Next, SpeedProofs!Next
<1>2. UNCHANGED Speed!vars <=> UNCHANGED SpeedProofs!vars
  BY Zenon DEF Speed!vars, SpeedProofs!vars
<1> QED
  BY <1>1, <1>2, Zenon

LEMMA SameTypes == Speed!TypeOK <=> SpeedProofs!TypeOK
  BY Zenon
     DEF Speed!Motors, SpeedProofs!Motors, Speed!Forward, SpeedProofs!Forward,
         Speed!Stop, SpeedProofs!Stop, Speed!Back, SpeedProofs!Back,
         Speed!MotorState, SpeedProofs!MotorState, Speed!StepMode,
         SpeedProofs!StepMode, Speed!TimeMode, SpeedProofs!TimeMode,
         Speed!CtrlModes, SpeedProofs!CtrlModes, Speed!Ports,
         SpeedProofs!Ports, Speed!Bit, SpeedProofs!Bit, Speed!Pcs,
         SpeedProofs!Pcs, Speed!TypeOK, SpeedProofs!TypeOK

LEMMA SameSafety == Speed!NoShootThrough <=> SpeedProofs!NoShootThrough
  BY Zenon
     DEF Speed!Motors, SpeedProofs!Motors, Speed!Forward, SpeedProofs!Forward,
         Speed!Stop, SpeedProofs!Stop, Speed!Back, SpeedProofs!Back,
         Speed!MotorState, SpeedProofs!MotorState, Speed!StepMode,
         SpeedProofs!StepMode, Speed!TimeMode, SpeedProofs!TimeMode,
         Speed!CtrlModes, SpeedProofs!CtrlModes, Speed!Ports,
         SpeedProofs!Ports, Speed!Bit, SpeedProofs!Bit, Speed!NoShootThrough,
         SpeedProofs!NoShootThrough

LEMMA SameOvershoot == Speed!StepOvershoot <=> SpeedProofs!StepOvershoot
  BY Zenon
     DEF Speed!Motors, SpeedProofs!Motors, Speed!Stop, SpeedProofs!Stop, Speed!StepMode,
         SpeedProofs!StepMode, Speed!Abs, SpeedProofs!Abs, Speed!StepOvershoot,
         SpeedProofs!StepOvershoot

-----------------------------------------------------------------------------
(* Every step of the controller is a step of CarSpeed.                     *)

\* The controller starts with the right types.
LEMMA InitTypes == Init => TypeOK
<1> SUFFICES ASSUME Init PROVE TypeOK
  OBVIOUS
<1>1. Speed!TypeOK
  BY SpeedConstants, SpeedProofs!InitType, SameInit, SameTypes DEF Init
<1>2. speedLevel \in DOMAIN PwmVect
  BY CtrlAssumption DEF Init
<1>3. todo \in [Threads -> Seq(Writes)]
  BY DEF Init
<1>4. /\ steer \in [{0, 1} -> {0, 1}]
      /\ running \in [Timers -> BOOLEAN]
      /\ wait \in [Timers -> BOOLEAN]
      /\ ready \in [Timers -> 0 .. MaxReady]
      /\ left \in 0 .. MaxRequests
      /\ last \in Asked \cup {NoRequest}
  BY CtrlAssumption DEF Init
<1>5. crossed \in BOOLEAN
  BY Zenon DEF Init
<1> QED
  BY <1>1, <1>2, <1>3, <1>4, <1>5 DEF TypeOK

\* A thread that has done its first write has writes left.
LEMMA TailWrites ==
  ASSUME TypeOK, NEW t \in Threads, todo[t] # <<>>
  PROVE  /\ Head(todo[t]) \in Writes
         /\ Tail(todo[t]) \in Seq(Writes)
         /\ [todo EXCEPT ![t] = Tail(@)] \in [Threads -> Seq(Writes)]
<1>1. todo \in [Threads -> Seq(Writes)]
  BY DEF TypeOK
<1>2. todo[t] \in Seq(Writes)
  BY <1>1
<1>3. Head(todo[t]) \in Writes /\ Tail(todo[t]) \in Seq(Writes)
  BY <1>2
<1> QED
  BY <1>1, <1>3

\* What kind of write it is says what it may write.
LEMMA KindFacts ==
  ASSUME NEW w \in Writes
  PROVE  /\ w.do = "state" => w.at \in Motors /\ w.val \in Speed!MotorState
         /\ w.do = "ctrl" => w.at \in Motors /\ w.val \in Steps
         /\ w.do = "reset" => w.at \in Motors
         /\ w.do = "pwm" => w.at \in Motors /\ w.val \in Pwms
         /\ w.do = "mode" => w.val \in Speed!CtrlModes
         /\ w.do = "level" => w.val \in DOMAIN PwmVect
         /\ w.do = "steer" => w.at \in {0, 1} /\ w.val \in {0, 1}
         /\ w.do \in {"on", "off", "arm"} => w.timer \in Timers
         /\ w.do = "call" => w.at \in Nat /\ Countable(w.val)
  BY DEF Writes

\* The write of a handler to a motor is one a client of CarSpeed makes.
LEMMA MotorWriteIsClient ==
  ASSUME TypeOK, NEW t \in Threads, MotorWrite(t)
  PROVE  Speed!Client
<1> DEFINE w == Head(todo[t])
<1>1. w \in Writes
  BY TailWrites DEF MotorWrite
<1>2. /\ w.do = "state" => w.at \in Motors /\ w.val \in Speed!MotorState
      /\ w.do = "ctrl" => w.at \in Motors /\ w.val \in Steps
      /\ w.do = "reset" => w.at \in Motors
      /\ w.do = "pwm" => w.at \in Motors /\ w.val \in Pwms
      /\ w.do = "mode" => w.val \in Speed!CtrlModes
  BY <1>1, KindFacts
<1>3. \/ w.do = "state" /\ Speed!SetMotorState(w.at, w.val)
      \/ w.do = "ctrl"  /\ Speed!SetCtrlSteps(w.at, w.val)
      \/ w.do = "reset" /\ Speed!ResetActualSteps(w.at)
      \/ w.do = "pwm"   /\ Speed!SetRunPwm(w.at, w.val)
      \/ w.do = "mode"  /\ Speed!SetCtrlMode(w.val)
  BY DEF MotorWrite
<1> QED
  BY <1>2, <1>3, Zenon DEF Speed!Client, Motors

\* Every step is one of CarSpeed or leaves its variables alone.
LEMMA StepIsCarSpeed == TypeOK /\ [Next]_vars => [Speed!Next]_(Speed!vars)
<1> SUFFICES ASSUME TypeOK, [Next]_vars PROVE [Speed!Next]_(Speed!vars)
  OBVIOUS
<1>1. CASE SpeedThread
  BY <1>1 DEF SpeedThread, Speed!Next
<1>2. ASSUME NEW t \in Servers, Accept(t) PROVE UNCHANGED Speed!vars
  BY <1>2, Zenon DEF Accept, speedVars, Speed!vars
<1>3. ASSUME NEW t \in Threads, MotorWrite(t) PROVE Speed!Next
  BY <1>3, MotorWriteIsClient DEF Speed!Next
<1>4. ASSUME NEW t \in Threads, CtrlWrite(t) PROVE UNCHANGED Speed!vars
  BY <1>4, Zenon DEF CtrlWrite, speedVars, Speed!vars
<1>5. ASSUME NEW t \in Threads, CallWrite(t) PROVE UNCHANGED Speed!vars
  BY <1>5, Zenon DEF CallWrite, speedVars, Speed!vars
<1>6. ASSUME NEW tm \in Timers, TimerExpire(tm) PROVE UNCHANGED Speed!vars
  BY <1>6, Zenon DEF TimerExpire, speedVars, Speed!vars
<1>7. ASSUME NEW tm \in Timers, TimerComplete(tm) PROVE UNCHANGED Speed!vars
  BY <1>7, Zenon DEF TimerComplete, speedVars, Speed!vars
<1>8. CASE UNCHANGED vars
  BY <1>8, Zenon DEF vars, speedVars, Speed!vars
<1> QED
  BY <1>1, <1>2, <1>3, <1>4, <1>5, <1>6, <1>7, <1>8 DEF Next, Run

\* The types of what the controller adds to the motors.
CtrlTypes ==
  /\ speedLevel \in DOMAIN PwmVect
  /\ steer \in [{0, 1} -> {0, 1}]
  /\ running \in [Timers -> BOOLEAN]
  /\ wait \in [Timers -> BOOLEAN]
  /\ ready \in [Timers -> 0 .. MaxReady]
  /\ todo \in [Threads -> Seq(Writes)]
  /\ left \in 0 .. MaxRequests
  /\ last \in Asked \cup {NoRequest}
  /\ crossed \in BOOLEAN

LEMMA CtrlTypesKept == TypeOK /\ [Next]_vars => CtrlTypes'
<1> SUFFICES ASSUME TypeOK, [Next]_vars PROVE CtrlTypes'
  OBVIOUS
<1>0. CtrlTypes
  BY DEF TypeOK, CtrlTypes
<1>1. CASE SpeedThread
  BY <1>0, <1>1 DEF SpeedThread, ctrlVars, history, CtrlTypes
<1>2. ASSUME NEW t \in Servers, Accept(t) PROVE CtrlTypes'
  <2>1. \A r \in Asked : [todo EXCEPT ![t] = Handler(r)] \in [Threads -> Seq(Writes)]
    BY <1>0, HandlerWrites DEF CtrlTypes
  <2>2. todo' \in [Threads -> Seq(Writes)] /\ last' \in Asked
    <3>1. PICK r \in Asked : todo' = [todo EXCEPT ![t] = Handler(r)] /\ last' = r
      BY <1>2, Zenon DEF Accept
    <3> QED
      BY <2>1, <3>1
  <2>3. left' \in 0 .. MaxRequests
    <3>1. left > 0 /\ left' = left - 1
      BY <1>2, Zenon DEF Accept
    <3> QED
      BY <1>0, <3>1, CtrlAssumption DEF CtrlTypes
  <2>4. crossed' \in BOOLEAN
    BY <1>2 DEF Accept, RunEnding
  <2> QED
    BY <1>0, <1>2, <2>2, <2>3, <2>4 DEF Accept, timerVars, CtrlTypes
<1>3. ASSUME NEW t \in Threads, MotorWrite(t) PROVE CtrlTypes'
  <2>1. todo' \in [Threads -> Seq(Writes)]
    BY <1>3, TailWrites DEF MotorWrite
  <2> QED
    BY <1>0, <1>3, <2>1, Zenon DEF MotorWrite, timerVars, history, CtrlTypes
<1>4. ASSUME NEW t \in Threads, CtrlWrite(t) PROVE CtrlTypes'
  <2> DEFINE w == Head(todo[t])
  <2>1. todo' \in [Threads -> Seq(Writes)] /\ w \in Writes
    BY <1>4, TailWrites DEF CtrlWrite
  <2>2. /\ w.do = "level" => w.val \in DOMAIN PwmVect
        /\ w.do = "steer" => w.at \in {0, 1} /\ w.val \in {0, 1}
    BY <2>1, KindFacts
  <2>3. /\ speedLevel' = IF w.do = "level" THEN w.val ELSE speedLevel
        /\ steer' = IF w.do = "steer" THEN [steer EXCEPT ![w.at] = w.val] ELSE steer
        /\ running' = IF w.do \in {"on", "off"}
                      THEN [running EXCEPT ![w.timer] = (w.do = "on")] ELSE running
        /\ wait' = IF w.do = "arm" /\ running[w.timer]
                   THEN [wait EXCEPT ![w.timer] = TRUE] ELSE wait
    BY <1>4, Zenon DEF CtrlWrite
  <2>4. speedLevel' \in DOMAIN PwmVect
    BY <1>0, <2>2, <2>3, Zenon DEF CtrlTypes
  <2>5. steer' \in [{0, 1} -> {0, 1}]
    BY <1>0, <2>2, <2>3 DEF CtrlTypes
  <2>6. running' \in [Timers -> BOOLEAN]
    BY <1>0, <2>3, Zenon DEF CtrlTypes
  <2>7. wait' \in [Timers -> BOOLEAN]
    BY <1>0, <2>3, Zenon DEF CtrlTypes
  <2> QED
    BY <1>0, <1>4, <2>1, <2>4, <2>5, <2>6, <2>7, Zenon DEF CtrlWrite, history, CtrlTypes
<1>5. ASSUME NEW t \in Threads, CallWrite(t) PROVE CtrlTypes'
  <2> DEFINE w == Head(todo[t])
             steps == SetCtrlSteps(w.at, w.val, speedLevel)
  <2>1. w \in Writes /\ Tail(todo[t]) \in Seq(Writes)
    BY <1>5, TailWrites DEF CallWrite
  <2>2. w.at \in Nat /\ Countable(w.val)
    BY <1>5, <2>1, KindFacts DEF CallWrite
  <2>3. steps \in Seq(Writes)
    BY <1>0, <2>2, StepWrites DEF CtrlTypes
  <2>4. steps \o Tail(todo[t]) \in Seq(Writes)
    BY <2>1, <2>3, Then
  <2>5. todo' = [todo EXCEPT ![t] = steps \o Tail(todo[t])]
    BY <1>5 DEF CallWrite
  <2> HIDE DEF steps
  <2>6. todo' \in [Threads -> Seq(Writes)]
    BY <1>0, <2>4, <2>5 DEF CtrlTypes
  <2> QED
    BY <1>0, <1>5, <2>6, Zenon DEF CallWrite, timerVars, history, CtrlTypes
<1>6. ASSUME NEW tm \in Timers, TimerExpire(tm) PROVE CtrlTypes'
  <2>0. ready[tm] < MaxReady
    BY <1>6, Zenon DEF TimerExpire
  <2>1. ready[tm] + 1 \in 0 .. MaxReady
    BY <1>0, <2>0, CtrlAssumption DEF CtrlTypes
  <2>2. ready' \in [Timers -> 0 .. MaxReady] /\ wait' \in [Timers -> BOOLEAN]
    BY <1>0, <1>6, <2>1 DEF TimerExpire, CtrlTypes
  <2> QED
    BY <1>0, <1>6, <2>2, Zenon DEF TimerExpire, history, CtrlTypes
<1>7. ASSUME NEW tm \in Timers, TimerComplete(tm) PROVE CtrlTypes'
  <2>0. ready[tm] > 0
    BY <1>7, Zenon DEF TimerComplete
  <2>1. ready[tm] - 1 \in 0 .. MaxReady
    BY <1>0, <2>0, CtrlAssumption DEF CtrlTypes
  <2>2. ready' \in [Timers -> 0 .. MaxReady]
    BY <1>0, <1>7, <2>1 DEF TimerComplete, CtrlTypes
  <2>3. [todo EXCEPT ![IoThread] = Callback(tm)] \in [Threads -> Seq(Writes)]
    BY <1>0, CallbackWrites DEF CtrlTypes
  <2>4. todo' \in [Threads -> Seq(Writes)]
    BY <1>0, <1>7, <2>3, Zenon DEF TimerComplete, CtrlTypes
  <2>5. crossed' \in BOOLEAN
    <3>1. crossed' = (crossed \/ (tm = "run" /\ running[tm] /\ ~Idle))
      BY <1>7, Zenon DEF TimerComplete
    <3> HIDE DEF Idle
    <3> QED
      BY <3>1
  <2> QED
    BY <1>0, <1>7, <2>2, <2>4, <2>5, Zenon DEF TimerComplete, CtrlTypes
<1>8. CASE UNCHANGED vars
  BY <1>0, <1>8 DEF vars, ctrlVars, history, CtrlTypes
<1> QED
  BY <1>1, <1>2, <1>3, <1>4, <1>5, <1>6, <1>7, <1>8 DEF Next, Run

\* Types, and that what a handler has left is well-formed.
THEOREM CtrlTypeCorrect == Spec => []TypeOK
<1>1. TypeOK /\ [Next]_vars => TypeOK'
  <2> SUFFICES ASSUME TypeOK, [Next]_vars PROVE TypeOK'
    OBVIOUS
  <2>1. Speed!TypeOK'
    <3>1. SpeedProofs!TypeOK /\ [SpeedProofs!Next]_(SpeedProofs!vars)
      BY StepIsCarSpeed, SameTypes, SameStep, Zenon DEF TypeOK
    <3>2. SpeedProofs!TypeOK'
      BY <3>1, SpeedConstants, SpeedProofs!NextType, Zenon
    <3>3. (Speed!TypeOK <=> SpeedProofs!TypeOK)'
      BY SameTypes, PTL
    <3> QED
      BY <3>2, <3>3
  <2> QED
    BY <2>1, CtrlTypesKept DEF TypeOK, CtrlTypes
<1> QED
  BY <1>1, InitTypes, PTL DEF Spec

\* The controller is a client of the motors.
THEOREM CtrlRefinement == Spec => ImplementsCarSpeed
<1>1. Init => Speed!Init
  BY DEF Init
<1> QED
  BY <1>1, StepIsCarSpeed, CtrlTypeCorrect, PTL DEF Spec, ImplementsCarSpeed, Speed!Spec

\* The behaviours of the controller are those the theorems about CarSpeed speak of.
LEMMA SpecSpeedProofs == Spec => SpeedProofs!Spec
<1>1. Init => SpeedProofs!Init
  BY SameInit DEF Init
<1>2. TypeOK /\ [Next]_vars => [SpeedProofs!Next]_(SpeedProofs!vars)
  BY StepIsCarSpeed, SameStep
<1> QED
  BY <1>1, <1>2, CtrlTypeCorrect, PTL DEF Spec, SpeedProofs!Spec

\* No motor of the car is ever shorted unless a write of its own pins failed,
\* whatever is requested and however the handlers, the timers and the speed thread
\* interleave.
THEOREM CarNeverShorted == Spec => []Speed!NoShootThrough
<1>1. SpeedProofs!Spec => []SpeedProofs!NoShootThrough
  BY SpeedConstants, SpeedProofs!NeverShorted
<1> QED
  BY <1>1, SpecSpeedProofs, SameSafety, PTL

\* No step movement of the car runs more than one pulse past its target while it is
\* left alone, whatever is requested.
THEOREM CarAtMostOnePulse == Spec => []Speed!StepOvershoot
<1>1. SpeedProofs!Spec => []SpeedProofs!StepOvershoot
  BY SpeedConstants, SpeedProofs!AtMostOnePulse
<1> QED
  BY <1>1, SpecSpeedProofs, SameOvershoot, PTL
=============================================================================
