--------------------------- MODULE CarSpeed_proofs ---------------------------
(***************************************************************************)
(* What CarSpeed guarantees for any number of motors, any PWM period and   *)
(* table, any content of the uninitialised memory and any client.          *)
(***************************************************************************)
EXTENDS CarSpeed, TLAPS

-----------------------------------------------------------------------------
(* Lemmas on the constants and on the pin writes.                          *)

\* The loop over the motors starts at a motor and steps to motors.
LEMMA MotorFacts ==
  /\ 1 \in Motors
  /\ \A m \in Motors : m < MotorNum => m + 1 \in Motors
  BY ConstantsAssumption DEF Motors

\* A duty lies within the period, which has at least one tick.
LEMMA PwmFacts ==
  MaxPwm \in Nat \ {0} /\ Pwms \subseteq 0 .. MaxPwm /\ Steps \subseteq Int
  BY ConstantsAssumption

\* A write through setPortState keeps the types of what it touches.
LEMMA SetPortType ==
  ASSUME TypeOK, NEW p \in Ports, SetPortState(p)
  PROVE  /\ portState' \in [Motors -> [Ports -> Bit \cup Garbage]]
         /\ pin' \in [Motors -> [Ports -> Bit]]
         /\ lost' \in [Motors -> [Ports -> BOOLEAN]]
<1>1. Level(goal, p) \in Bit
  BY DEF Level, Bit
<1>2. /\ portState \in [Motors -> [Ports -> Bit \cup Garbage]]
      /\ pin \in [Motors -> [Ports -> Bit]]
      /\ lost \in [Motors -> [Ports -> BOOLEAN]]
      /\ cur \in Motors
  BY DEF TypeOK
<1>3. [portState EXCEPT ![cur][p] = Level(goal, p)]
        \in [Motors -> [Ports -> Bit \cup Garbage]]
  BY <1>1, <1>2
<1>4. [pin EXCEPT ![cur][p] = Level(goal, p)] \in [Motors -> [Ports -> Bit]]
  BY <1>1, <1>2
<1>5. \A b \in BOOLEAN :
        [lost EXCEPT ![cur][p] = b] \in [Motors -> [Ports -> BOOLEAN]]
  BY <1>2
<1> QED
  BY <1>2, <1>3, <1>4, <1>5, Zenon DEF SetPortState

-----------------------------------------------------------------------------
(* Types.                                                                  *)

\* The constructors leave every member in its type.
LEMMA InitType == Init => TypeOK
<1> SUFFICES ASSUME Init PROVE TypeOK
  OBVIOUS
<1>1. ctrlPwm \in [Motors -> 0 .. MaxPwm]
  <2>1. ctrlPwm \in [Motors -> Pwms]
    BY DEF Init
  <2> QED
    BY <2>1, PwmFacts
<1>2. pwmCount \in [Motors -> 0 .. (MaxPwm - 1)]
  <2>1. 0 \in 0 .. (MaxPwm - 1)
    BY PwmFacts
  <2> QED
    BY <2>1 DEF Init
<1>3. /\ portState \in [Motors -> [Ports -> Bit \cup Garbage]]
      /\ pin \in [Motors -> [Ports -> Bit]]
      /\ lost \in [Motors -> [Ports -> BOOLEAN]]
  BY DEF Init, Bit
<1> QED
  BY <1>1, <1>2, <1>3, MotorFacts DEF Init, TypeOK, MotorState, CtrlModes, Pcs

\* The counter is compared before it is stored, so it stays below the period
\* also when the duty is changed while it counts.
LEMMA CountTickType == TypeOK /\ CountTick => TypeOK'
<1> SUFFICES ASSUME TypeOK, CountTick PROVE TypeOK'
  OBVIOUS
<1>1. Threshold(cur) \in 0 .. MaxPwm /\ pwmCount[cur] \in 0 .. (MaxPwm - 1)
  BY PwmFacts DEF Threshold, TypeOK
<1>2. pwmCount' \in [Motors -> 0 .. (MaxPwm - 1)]
  <2>1. CASE pwmCount[cur] + 1 >= Threshold(cur)
    <3>1. 0 \in 0 .. (MaxPwm - 1)
      BY PwmFacts
    <3> QED
      BY <2>1, <3>1 DEF CountTick, TypeOK
  <2>2. CASE ~(pwmCount[cur] + 1 >= Threshold(cur))
    <3>1. pwmCount[cur] + 1 \in 0 .. (MaxPwm - 1)
      BY <1>1, <2>2, PwmFacts
    <3>2. pwmCount' = [pwmCount EXCEPT ![cur] = pwmCount[cur] + 1]
      BY <2>2 DEF CountTick
    <3> QED
      BY <3>1, <3>2 DEF TypeOK
  <2> QED
    BY <2>1, <2>2
<1> QED
  BY <1>2 DEF TypeOK, CountTick, Pcs, shared, pins

\* Every step of the thread and every setter keeps the types.
LEMMA NextType == TypeOK /\ [Next]_vars => TypeOK'
<1> SUFFICES ASSUME TypeOK, [Next]_vars PROVE TypeOK'
  OBVIOUS
<1>1. CASE Wake
  BY <1>1, MotorFacts DEF TypeOK, Wake, Pcs, shared, pins, pwm
<1>2. CASE CountTick
  BY <1>2, CountTickType
<1>3. CASE StopTick
  BY <1>3, MotorFacts, PwmFacts
     DEF TypeOK, StopTick, BeginNowState, LeaveMotor, Pcs, MotorState, shared, pins
<1>4. CASE TogglePhase
  BY <1>4, MotorFacts
     DEF TypeOK, TogglePhase, BeginNowState, LeaveMotor, Pcs, MotorState, shared, pins
<1>5. CASE WritePort0
  BY <1>5, SetPortType DEF TypeOK, WritePort0, Pcs, Ports, shared, pwm
<1>6. CASE WritePort1
  BY <1>6, SetPortType, MotorFacts
     DEF TypeOK, WritePort1, LeaveMotor, Pcs, Ports, shared, pwm
<1>7. CASE CheckSteps
  BY <1>7, MotorFacts DEF TypeOK, CheckSteps, LeaveMotor, Pcs, shared, pins, pwm
<1>8. CASE Expire
  BY <1>8, MotorFacts DEF TypeOK, Expire, LeaveMotor, Pcs, MotorState, pins, pwm
<1>9. CASE Poll
  BY <1>9, ConstantsAssumption DEF TypeOK, Poll, Pcs, shared, pins, pwm
<1>10. CASE ReadPulse
  BY <1>10 DEF TypeOK, ReadPulse, Pcs, shared, pins, pwm
<1>11. CASE AddPulse
  BY <1>11 DEF TypeOK, AddPulse, Pcs, pins, pwm
<1>12. CASE Client
  <2> USE DEF thread, pwm, pins, local
  <2>1. ASSUME NEW m \in Motors, NEW s \in MotorState, SetMotorState(m, s) PROVE TypeOK'
    BY <2>1 DEF TypeOK, SetMotorState
  <2>2. ASSUME NEW m \in Motors, NEW n \in Steps, SetCtrlSteps(m, n) PROVE TypeOK'
    BY <2>2, PwmFacts DEF TypeOK, SetCtrlSteps
  <2>3. ASSUME NEW m \in Motors, ResetActualSteps(m) PROVE TypeOK'
    BY <2>3 DEF TypeOK, ResetActualSteps
  <2>4. ASSUME NEW m \in Motors, NEW p \in Pwms, SetRunPwm(m, p) PROVE TypeOK'
    BY <2>4, PwmFacts DEF TypeOK, SetRunPwm
  <2>5. ASSUME NEW mode \in CtrlModes, SetCtrlMode(mode) PROVE TypeOK'
    BY <2>5 DEF TypeOK, SetCtrlMode
  <2> QED
    BY <1>12, <2>1, <2>2, <2>3, <2>4, <2>5 DEF Client
<1>13. CASE UNCHANGED vars
  BY <1>13 DEF TypeOK, vars
<1> QED
  BY <1>1, <1>2, <1>3, <1>4, <1>5, <1>6, <1>7, <1>8, <1>9, <1>10, <1>11, <1>12,
     <1>13 DEF Next, SpeedThread

\* Every member keeps its type; in particular the PWM counter stays inside one
\* period of motorPwmCtrl however often the duty is changed under it.
THEOREM TypeCorrect == Spec => []TypeOK
  BY InitType, NextType, PTL DEF Spec

-----------------------------------------------------------------------------
(* The pins.                                                               *)

\* Only WritePort0 and WritePort1 change pins, and only those of the motor the
\* thread is at; the pin written is high afterwards only if it should be.
LEMMA SetPortPins ==
  ASSUME TypeOK, HighBelieved, NEW p \in Ports, SetPortState(p)
  PROVE  /\ HighBelieved'
         /\ \A m \in Motors : m = cur /\ Level(goal, p) = 0 => ~High(m, p)'
         /\ \A m \in Motors, q \in Ports : High(m, q)' => High(m, q) \/ (m = cur /\ q = p)
<1>1. /\ portState \in [Motors -> [Ports -> Bit \cup Garbage]]
      /\ pin \in [Motors -> [Ports -> Bit]]
      /\ lost \in [Motors -> [Ports -> BOOLEAN]]
      /\ cur \in Motors
  BY DEF TypeOK
<1>2. CASE portState[cur][p] = Level(goal, p)
  <2>1. UNCHANGED <<portState, pin, lost>>
    BY <1>2 DEF SetPortState
  <2>2. \A m \in Motors, q \in Ports : High(m, q)' <=> High(m, q)
    BY <2>1 DEF High
  <2> QED
    BY <1>2, <2>1, <2>2 DEF HighBelieved
<1>3. CASE portState[cur][p] # Level(goal, p)
  <2>1. portState' = [portState EXCEPT ![cur][p] = Level(goal, p)]
    BY <1>3 DEF SetPortState
  <2>2. \A m \in Motors, q \in Ports :
          portState'[m][q] = IF m = cur /\ q = p THEN Level(goal, p) ELSE portState[m][q]
    BY <1>1, <2>1
  <2>3. \A m \in Motors, q \in Ports :
          \/ m = cur /\ q = p
          \/ pin'[m][q] = pin[m][q] /\ lost'[m][q] = lost[m][q]
    BY <1>1, <1>3 DEF SetPortState
  <2>4. pin'[cur][p] = Level(goal, p) \/ lost'[cur][p] = TRUE
    BY <1>1, <1>3 DEF SetPortState
  <2>5. \A m \in Motors, q \in Ports : High(m, q)' => High(m, q) \/ (m = cur /\ q = p)
    BY <2>3 DEF High
  <2>6. \A m \in Motors : m = cur /\ High(m, p)' => Level(goal, p) = 1
    BY <2>4 DEF High
  <2>7. HighBelieved'
    BY <2>2, <2>5, <2>6 DEF HighBelieved
  <2> QED
    BY <2>5, <2>6, <2>7
<1> QED
  BY <1>2, <1>3

\* The constructors leave both pins of every motor low, whatever m_portState holds.
LEMMA InitWriteInv == Init => WriteInv
  BY DEF Init, WriteInv, HighBelieved, OnePinHigh, OffPhase, DirectionOverStop, High,
     Writing, Ports

\* A step that writes no pin, starts no write and leaves nowState and runFlag
\* alone keeps the invariant.
LEMMA OtherSteps ==
  ASSUME WriteInv, UNCHANGED <<pins, runFlag>>,
         UNCHANGED <<pc, cur, goal>> \/ ({pc, pc'} \cap {"port0", "port1"} = {})
  PROVE  WriteInv'
  BY DEF WriteInv, HighBelieved, OnePinHigh, OffPhase, DirectionOverStop, High,
     Writing, pins

\* Every step of the thread and every setter keeps the invariant of the pins.
\* Only the steps of setNowState need an argument.
LEMMA NextWriteInv == TypeOK /\ WriteInv /\ [Next]_vars => WriteInv'
<1> SUFFICES ASSUME TypeOK, WriteInv, [Next]_vars PROVE WriteInv'
  OBVIOUS
<1>1. CASE Wake
  BY <1>1, OtherSteps DEF Wake, pwm
<1>2. CASE CountTick
  BY <1>2, OtherSteps DEF CountTick
<1>3. CASE StopTick
  BY <1>3 DEF StopTick, BeginNowState, LeaveMotor, WriteInv, HighBelieved, OnePinHigh,
     OffPhase, DirectionOverStop, High, Writing, pins
<1>4. CASE TogglePhase
  BY <1>4 DEF TogglePhase, BeginNowState, LeaveMotor, WriteInv, HighBelieved,
     OnePinHigh, OffPhase, DirectionOverStop, High, Writing, pins, TypeOK
<1>5. CASE WritePort0
  <2>1. /\ HighBelieved'
        /\ \A m \in Motors : m = cur /\ goal # Back => ~High(m, 0)'
        /\ \A m \in Motors, q \in Ports : High(m, q)' => High(m, q) \/ (m = cur /\ q = 0)
    BY <1>5, SetPortPins DEF WritePort0, WriteInv, Level, Ports
  <2>2. /\ pc = "port0" /\ pc' = "port1"
        /\ UNCHANGED <<nowState, runFlag, cur, goal>>
    BY <1>5 DEF WritePort0, pwm
  <2>3. OnePinHigh'
    BY <2>1, <2>2 DEF WriteInv, OnePinHigh, DirectionOverStop, Writing, Ports, Forward,
                      Stop, Back
  <2>4. OffPhase' /\ DirectionOverStop'
    BY <2>2 DEF WriteInv, OffPhase, DirectionOverStop, Writing
  <2> QED
    BY <2>1, <2>3, <2>4 DEF WriteInv
<1>6. CASE WritePort1
  <2>1. /\ HighBelieved'
        /\ \A m \in Motors : m = cur /\ goal # Forward => ~High(m, 1)'
        /\ \A m \in Motors, q \in Ports : High(m, q)' => High(m, q) \/ (m = cur /\ q = 1)
    BY <1>6, SetPortPins DEF WritePort1, WriteInv, Level, Ports, Forward, Back
  <2>2. /\ pc = "port1" /\ pc' \notin {"port0", "port1"}
        /\ nowState' = [nowState EXCEPT ![cur] = goal] /\ UNCHANGED <<runFlag, goal>>
    BY <1>6 DEF WritePort1, LeaveMotor, pwm
  <2>3. \A m \in Motors : nowState'[m] = IF m = cur THEN goal ELSE nowState[m]
    BY <2>2 DEF TypeOK
  <2>4. OnePinHigh'
    BY <2>1, <2>2, <2>3 DEF WriteInv, OnePinHigh, Ports, Forward, Stop, Back
  <2>5. OffPhase' /\ DirectionOverStop'
    BY <2>2, <2>3 DEF WriteInv, OffPhase, DirectionOverStop, Writing
  <2> QED
    BY <2>1, <2>4, <2>5 DEF WriteInv
<1>7. CASE CheckSteps
  BY <1>7, OtherSteps DEF CheckSteps, LeaveMotor, pwm
<1>8. CASE Expire
  BY <1>8, OtherSteps DEF Expire, LeaveMotor, pwm
<1>9. CASE Poll
  BY <1>9, OtherSteps DEF Poll, pwm
<1>10. CASE ReadPulse
  BY <1>10, OtherSteps DEF ReadPulse, pwm
<1>11. CASE AddPulse
  BY <1>11, OtherSteps DEF AddPulse, pwm
<1>12. CASE Client
  BY <1>12, OtherSteps DEF Client, SetMotorState, SetCtrlSteps, ResetActualSteps,
     SetRunPwm, SetCtrlMode, thread, pwm, local
<1>13. CASE UNCHANGED vars
  BY <1>13, OtherSteps DEF vars, pins
<1> QED
  BY <1>1, <1>2, <1>3, <1>4, <1>5, <1>6, <1>7, <1>8, <1>9, <1>10, <1>11, <1>12,
     <1>13 DEF Next, SpeedThread

\* The inductive invariant behind the safety of the pins, for every client.
THEOREM WritesAreSafe == Spec => [](TypeOK /\ WriteInv)
<1>1. Init => TypeOK /\ WriteInv
  BY InitType, InitWriteInv
<1>2. TypeOK /\ WriteInv /\ [Next]_vars => (TypeOK /\ WriteInv)'
  BY NextType, NextWriteInv
<1> QED
  BY <1>1, <1>2, PTL DEF Spec

\* The H-bridge of a motor is never shorted unless a write of one of its own pins
\* has failed, whatever the RPC threads write and when.
THEOREM NeverShorted == Spec => []NoShootThrough
<1>1. TypeOK /\ WriteInv => NoShootThrough
  BY DEF TypeOK, WriteInv, OnePinHigh, NoShootThrough, High, Ports, MotorState
<1> QED
  BY <1>1, WritesAreSafe, PTL

-----------------------------------------------------------------------------
(* Steps.  Every loop of the thread compares the steps of each running     *)
(* motor once and then counts at most one pulse of it.                     *)

\* The motor runs in step mode and was left alone since it was compared last.
Counting(m) == ctrlMode = StepMode /\ runState[m] # Stop /\ ~touched[m]

OverBy(m, n) == Abs(actualSteps[m]) <= Abs(ctrlSteps[m]) + n

\* In this loop the steps of the motor were compared, and no pulse was counted since.
Compared(m) ==
  CASE pc \in {"test", "toggle", "port0", "port1", "check", "expire"} -> m < cur
    [] pc = "poll"  -> TRUE
    [] pc = "pulse" -> m \in events
    [] pc = "bump"  -> m \in events \ {cur}
    [] OTHER -> FALSE

\* A compared motor has not passed its target, any other by one pulse at most.  A
\* motor that leaves the loop without a comparison has stopped, and a count
\* about to be stored is one pulse away from the one that was read.
StepsInv ==
  \A m \in Motors : Counting(m) =>
    /\ ~(pc = "expire" /\ cur = m) => OverBy(m, 1)
    /\ Compared(m) => OverBy(m, 0)
    /\ pc \in {"toggle", "port0", "port1"} /\ cur = m => pc = "toggle" \/ ret = "check"
    /\ pc = "bump" /\ cur = m =>
         OverBy(m, 0) /\ sum \in {actualSteps[m] + 1, actualSteps[m] - 1}

\* One pulse takes the count one step away.
LEMMA OnePulse ==
  ASSUME NEW a \in Int, NEW c \in Int, Abs(a) <= Abs(c) + 0
  PROVE  Abs(a) <= Abs(c) + 1 /\ Abs(a + 1) <= Abs(c) + 1 /\ Abs(a - 1) <= Abs(c) + 1
  BY DEF Abs

LEMMA CountTypes ==
  ASSUME TypeOK, NEW m \in Motors
  PROVE  /\ actualSteps[m] \in Int /\ ctrlSteps[m] \in Int
         /\ Abs(actualSteps[m]) \in Int /\ Abs(ctrlSteps[m]) \in Int
         /\ m \in Int /\ m <= MotorNum /\ cur \in Int /\ MotorNum \in Int
  BY ConstantsAssumption DEF TypeOK, Abs, Motors

LEMMA NoneCounted == ASSUME TypeOK, NEW m \in Motors, OverBy(m, 0) PROVE OverBy(m, 1)
  BY CountTypes, OnePulse DEF OverBy

LEMMA InitSteps == Init => StepsInv
  BY DEF Init, StepsInv, Counting

\* A step that leaves counts, modes and marks alone keeps what is said of a motor
\* unless the motor has been compared in it.
LEMMA SameCounts ==
  ASSUME NEW m \in Motors, UNCHANGED <<shared, touched>>
  PROVE  /\ Counting(m)' = Counting(m)
         /\ OverBy(m, 0)' = OverBy(m, 0) /\ OverBy(m, 1)' = OverBy(m, 1)
  BY DEF shared, Counting, OverBy, Abs

LEMMA NextSteps == TypeOK /\ StepsInv /\ [Next]_vars => StepsInv'
<1> SUFFICES ASSUME TypeOK, StepsInv, [Next]_vars, NEW m \in Motors, Counting(m)'
             PROVE  /\ (~(pc = "expire" /\ cur = m) => OverBy(m, 1))'
                    /\ (Compared(m) => OverBy(m, 0))'
                    /\ (pc \in {"toggle", "port0", "port1"} /\ cur = m
                          => pc = "toggle" \/ ret = "check")'
                    /\ (pc = "bump" /\ cur = m =>
                          OverBy(m, 0) /\ sum \in {actualSteps[m] + 1, actualSteps[m] - 1})'
  BY DEF StepsInv
<1> DEFINE Says == /\ ~(pc = "expire" /\ cur = m) => OverBy(m, 1)
                   /\ Compared(m) => OverBy(m, 0)
                   /\ pc \in {"toggle", "port0", "port1"} /\ cur = m
                        => pc = "toggle" \/ ret = "check"
                   /\ pc = "bump" /\ cur = m =>
                        OverBy(m, 0) /\ sum \in {actualSteps[m] + 1, actualSteps[m] - 1}
<1>0. Counting(m) => Says
  BY DEF StepsInv
<1>a. cur \in Motors /\ cur \in Int /\ m \in Int /\ MotorNum \in Int /\ m <= MotorNum
      /\ m >= 1
  BY ConstantsAssumption DEF TypeOK, Motors
<1>b. OverBy(m, 0) => OverBy(m, 1)
  BY NoneCounted
<1>1. CASE Wake
  <2>1. Counting(m) /\ UNCHANGED <<shared, touched>>
    BY <1>1, SameCounts DEF Wake
  <2>2. pc = "sleep" /\ pc' = "test" /\ cur' = 1
    BY <1>1 DEF Wake
  <2>3. ~Compared(m)'
    BY <2>2, <1>a DEF Compared
  <2> QED
    BY <1>0, <2>1, <2>2, <2>3, SameCounts
<1>2. CASE CountTick
  <2>1. Counting(m) /\ UNCHANGED <<shared, touched>>
    BY <1>2, SameCounts DEF CountTick
  <2>2. pc = "test" /\ pc' \in {"toggle", "check"} /\ cur' = cur
    BY <1>2 DEF CountTick
  <2>3. Compared(m)' = Compared(m)
    BY <2>2 DEF Compared
  <2> QED
    BY <1>0, <2>1, <2>2, <2>3, SameCounts
<1>3. CASE StopTick
  <2>1. Counting(m) /\ UNCHANGED <<shared, touched>>
    BY <1>3, SameCounts DEF StopTick
  <2>2. pc = "test" /\ runState[cur] = Stop /\ ret' = "leave"
        /\ ((pc' = "port0" /\ cur' = cur) \/ LeaveMotor)
    BY <1>3 DEF StopTick, BeginNowState
  <2>3. m # cur
    BY <2>1, <2>2 DEF Counting
  <2>4. Compared(m)' => Compared(m)
    BY <2>2, <2>3, <1>a DEF Compared, LeaveMotor
  <2>5. pc' \notin {"expire", "bump"} /\ (pc' = "port0" => cur' # m)
        /\ pc' \notin {"toggle", "port1"}
    BY <2>2, <2>3 DEF LeaveMotor
  <2> QED
    BY <1>0, <2>1, <2>2, <2>4, <2>5, SameCounts
<1>4. CASE TogglePhase
  <2>1. Counting(m) /\ UNCHANGED <<shared, touched>>
    BY <1>4, SameCounts DEF TogglePhase
  <2>2. pc = "toggle" /\ ret' = "check" /\ pc' \in {"port0", "check"} /\ cur' = cur
    BY <1>4 DEF TogglePhase, BeginNowState
  <2>3. Compared(m)' = Compared(m)
    BY <2>2 DEF Compared
  <2> QED
    BY <1>0, <2>1, <2>2, <2>3, SameCounts
<1>5. CASE WritePort0
  <2>1. Counting(m) /\ UNCHANGED <<shared, touched>>
    BY <1>5, SameCounts DEF WritePort0
  <2>2. pc = "port0" /\ pc' = "port1" /\ cur' = cur /\ ret' = ret
    BY <1>5 DEF WritePort0
  <2>3. Compared(m)' = Compared(m)
    BY <2>2 DEF Compared
  <2> QED
    BY <1>0, <2>1, <2>2, <2>3, SameCounts
<1>6. CASE WritePort1
  <2>1. Counting(m) /\ UNCHANGED <<shared, touched>>
    BY <1>6, SameCounts DEF WritePort1
  <2>2. pc = "port1" /\ (IF ret = "check" THEN pc' = "check" /\ cur' = cur ELSE LeaveMotor)
    BY <1>6 DEF WritePort1
  <2>3. cur = m => ret = "check"
    BY <1>0, <2>1, <2>2
  <2>4. Compared(m)' => Compared(m)
    BY <2>2, <2>3, <1>a DEF Compared, LeaveMotor
  <2>5. pc' \notin {"expire", "bump", "toggle", "port0", "port1"}
    BY <2>2 DEF LeaveMotor
  <2> QED
    BY <1>0, <2>1, <2>2, <2>4, <2>5, SameCounts
<1>7. CASE CheckSteps
  <2>1. UNCHANGED shared /\ pc = "check"
    BY <1>7 DEF CheckSteps
  <2>2. \A n \in Motors : n # cur => touched'[n] = touched[n]
    BY <1>7 DEF CheckSteps, TypeOK
  <2>3. OverBy(m, 0)' = OverBy(m, 0) /\ OverBy(m, 1)' = OverBy(m, 1)
    BY <2>1 DEF shared, OverBy, Abs
  <2>4. pc' \notin {"bump", "toggle", "port0", "port1"}
    BY <1>7 DEF CheckSteps, LeaveMotor
  <2>5. CASE m = cur
    <3>1. CASE pc' = "expire" /\ cur' = cur
      BY <2>4, <2>5, <3>1, <1>a DEF Compared
    <3>2. CASE ~(pc' = "expire" /\ cur' = cur)
      <4>1. ~(Abs(actualSteps[cur]) > Abs(ctrlSteps[cur]) /\ ctrlMode = StepMode)
        BY <1>7, <3>2 DEF CheckSteps
      <4>2. ctrlMode = StepMode
        BY <2>1 DEF Counting, shared
      <4>3. OverBy(m, 0)
        BY <4>1, <4>2, <2>5, CountTypes DEF OverBy
      <4> QED
        BY <4>3, <2>3, <2>4, <1>b
    <3> QED
      BY <3>1, <3>2
  <2>6. CASE m # cur
    <3>1. Counting(m)
      BY <2>1, <2>2, <2>6 DEF Counting, shared
    <3>2. (pc' = "expire" /\ cur' = cur) \/ LeaveMotor
      BY <1>7 DEF CheckSteps
    <3>3. Compared(m)' => Compared(m)
      BY <2>1, <2>6, <3>2, <1>a DEF Compared, LeaveMotor
    <3>4. pc = "check"
      BY <2>1
    <3> QED
      BY <1>0, <2>3, <2>4, <3>1, <3>3, <3>4
  <2> QED
    BY <2>5, <2>6
<1>8. CASE Expire
  <2>1. pc = "expire" /\ LeaveMotor /\ runState' = [runState EXCEPT ![cur] = Stop]
        /\ UNCHANGED <<ctrlSteps, actualSteps, ctrlMode, touched>>
    BY <1>8 DEF Expire
  <2>2. m # cur /\ Counting(m)
    BY <2>1 DEF Counting, TypeOK
  <2>3. OverBy(m, 0)' = OverBy(m, 0) /\ OverBy(m, 1)' = OverBy(m, 1)
    BY <2>1 DEF OverBy, Abs
  <2>4. Compared(m)' => Compared(m)
    BY <2>1, <2>2, <1>a DEF Compared, LeaveMotor
  <2>5. pc' \notin {"bump", "toggle", "port0", "port1", "expire"}
    BY <2>1 DEF LeaveMotor
  <2> QED
    BY <1>0, <2>1, <2>2, <2>3, <2>4, <2>5
<1>9. CASE Poll
  <2>1. Counting(m) /\ UNCHANGED <<shared, touched>>
    BY <1>9, SameCounts DEF Poll
  <2>2. pc = "poll" /\ pc' \in {"sleep", "pulse"}
    BY <1>9 DEF Poll
  <2>3. Compared(m)
    BY <2>2 DEF Compared
  <2> QED
    BY <1>0, <2>1, <2>2, <2>3, SameCounts
<1>10. CASE ReadPulse
  <2>1. Counting(m) /\ UNCHANGED <<shared, touched>>
    BY <1>10, SameCounts DEF ReadPulse
  <2>2. pc = "pulse" /\ pc' = "bump" /\ events' = events /\ cur' \in events
        /\ sum' \in {actualSteps[cur'] + 1, actualSteps[cur'] - 1}
    <3>1. PICK n \in events :
            /\ cur' = n
            /\ sum' = actualSteps[n]
                      + (IF ctrlSteps[n] >= 0 \/ ctrlMode = TimeMode THEN 1 ELSE -1)
      BY <1>10 DEF ReadPulse
    <3>2. actualSteps[n] \in Int
      BY <3>1 DEF TypeOK
    <3>3. pc = "pulse" /\ pc' = "bump" /\ events' = events
      BY <1>10 DEF ReadPulse
    <3> QED
      BY <3>1, <3>2, <3>3
  <2>3. Compared(m)' => Compared(m)
    BY <2>2 DEF Compared
  <2>4. cur' = m => Compared(m)
    BY <2>2 DEF Compared
  <2>5. actualSteps' = actualSteps
    BY <2>1 DEF shared
  <2> QED
    BY <1>0, <2>1, <2>2, <2>3, <2>4, <2>5, SameCounts
<1>11. CASE AddPulse
  <2>1. /\ pc = "bump" /\ pc' \in {"sleep", "pulse"}
        /\ actualSteps' = [actualSteps EXCEPT ![cur] = sum]
        /\ events' = events \ {cur}
        /\ UNCHANGED <<runState, ctrlSteps, ctrlMode, cur, touched>>
    BY <1>11 DEF AddPulse
  <2>2. Counting(m)
    BY <2>1 DEF Counting
  <2>3. CASE m = cur
    <3>1. OverBy(m, 0) /\ sum \in {actualSteps[m] + 1, actualSteps[m] - 1}
      BY <1>0, <2>1, <2>2, <2>3
    <3>2. actualSteps'[m] = sum /\ ctrlSteps'[m] = ctrlSteps[m]
      BY <2>1, <2>3 DEF TypeOK
    <3>3. Abs(sum) <= Abs(ctrlSteps[m]) + 1
      BY <3>1, CountTypes, OnePulse DEF OverBy
    <3>4. OverBy(m, 1)'
      BY <3>2, <3>3 DEF OverBy, Abs
    <3>5. ~Compared(m)'
      BY <2>1, <2>3 DEF Compared
    <3> QED
      BY <2>1, <3>4, <3>5
  <2>4. CASE m # cur
    <3>1. actualSteps'[m] = actualSteps[m] /\ ctrlSteps'[m] = ctrlSteps[m]
      BY <2>1, <2>4 DEF TypeOK
    <3>2. OverBy(m, 0)' = OverBy(m, 0) /\ OverBy(m, 1)' = OverBy(m, 1)
      BY <3>1 DEF OverBy, Abs
    <3>3. Compared(m)' => Compared(m)
      BY <2>1, <2>4 DEF Compared
    <3> QED
      BY <1>0, <2>1, <2>2, <3>2, <3>3
  <2> QED
    BY <2>3, <2>4
<1>12. CASE Client
  <2>1. /\ UNCHANGED <<pc, cur, ret, events, sum>>
        /\ Counting(m) /\ actualSteps'[m] = actualSteps[m] /\ ctrlSteps'[m] = ctrlSteps[m]
    BY <1>12 DEF Client, SetMotorState, SetCtrlSteps, ResetActualSteps, SetRunPwm,
                 SetCtrlMode, thread, local, Counting, TypeOK
  <2>2. OverBy(m, 0)' = OverBy(m, 0) /\ OverBy(m, 1)' = OverBy(m, 1)
    BY <2>1 DEF OverBy, Abs
  <2>3. Compared(m)' = Compared(m)
    BY <2>1 DEF Compared
  <2> QED
    BY <1>0, <2>1, <2>2, <2>3
<1>13. CASE UNCHANGED vars
  <2>1. Counting(m) /\ UNCHANGED <<shared, touched, pc, cur, ret, events, sum>>
    BY <1>13, SameCounts DEF vars, shared
  <2>2. Compared(m)' = Compared(m) /\ actualSteps' = actualSteps
    BY <2>1 DEF Compared, shared
  <2> QED
    BY <1>0, <2>1, <2>2, SameCounts
<1> QED
  BY <1>1, <1>2, <1>3, <1>4, <1>5, <1>6, <1>7, <1>8, <1>9, <1>10, <1>11, <1>12,
     <1>13 DEF Next, SpeedThread

\* In step mode a motor that is left alone runs at most one pulse past its target:
\* for any number of motors, targets and clients, the loop compares before it
\* counts again.
THEOREM AtMostOnePulse == Spec => []StepOvershoot
<1>1. Init => TypeOK /\ StepsInv
  BY InitType, InitSteps
<1>2. TypeOK /\ StepsInv /\ [Next]_vars => (TypeOK /\ StepsInv)'
  BY NextType, NextSteps
<1>3. StepsInv => StepOvershoot
  BY DEF StepsInv, StepOvershoot, Counting, OverBy
<1> QED
  BY <1>1, <1>2, <1>3, PTL DEF Spec

-----------------------------------------------------------------------------
(* The motors are H-bridges.                                               *)

\* A pin write takes the bridge of one motor into or out of coasting, or out of
\* order, or back.
LEMMA WriteMovesBridge ==
  ASSUME TypeOK, WriteInv, WriteInv', NEW p \in Ports, SetPortState(p),
         pc = (IF p = 0 THEN "port0" ELSE "port1")
  PROVE  [Bridge!Next]_drives
<1> PICK c \in Motors : c = cur
  BY DEF TypeOK
<1>1. /\ Writing(c)
      /\ pin \in [Motors -> [Ports -> Bit]]
      /\ lost \in [Motors -> [Ports -> BOOLEAN]]
  BY DEF TypeOK, Writing
<1>2. CASE UNCHANGED <<pin, lost>>
  BY <1>2 DEF drives, Drive, OutOfOrder
<1>3. CASE /\ pin' = [pin EXCEPT ![c][p] = Level(goal, p)]
           /\ lost' = [lost EXCEPT ![c][p] = FALSE]
  <2>1. \A m \in Motors, q \in Ports :
          /\ pin'[m][q] = IF m = c /\ q = p THEN Level(goal, p) ELSE pin[m][q]
          /\ lost'[m][q] = IF m = c /\ q = p THEN FALSE ELSE lost[m][q]
    BY <1>1, <1>3
  <2>2. \A m \in Motors \ {c} : Drive(m)' = Drive(m)
    BY <2>1 DEF Drive, OutOfOrder, Ports
  <2>3. drives' = [drives EXCEPT ![c] = Drive(c)'] /\ drives[c] = Drive(c)
    BY <2>2 DEF drives
  <2>4. CASE OutOfOrder(c)'
    <3>1. OutOfOrder(c)
      BY <2>1, <2>4 DEF OutOfOrder
    <3> QED
      BY <2>3, <2>4, <3>1 DEF Drive, drives
  <2>5. CASE ~OutOfOrder(c)' /\ OutOfOrder(c)
    <3>1. Drive(c)' \in {"Coast", "Forward", "Back"}
      <4>1. \A q \in Ports : pin'[c][q] \in Bit /\ ~lost'[c][q]
        BY <1>1, <2>1, <2>5 DEF OutOfOrder, Level, Bit
      <4>2. ~(pin'[c][0] = 1 /\ pin'[c][1] = 1)
        BY <4>1 DEF WriteInv, OnePinHigh, High, Ports
      <4> QED
        BY <4>1, <4>2, <2>5 DEF Drive, Ports, Bit
    <3>2. Drive(c) = "OutOfOrder"
      BY <2>5 DEF Drive
    <3> QED
      BY <2>3, <3>1, <3>2 DEF Bridge!Next, Bridge!Repair, Bridge!Drives
  <2>6. CASE ~OutOfOrder(c)' /\ ~OutOfOrder(c)
    <3>1. \A q \in Ports : pin[c][q] \in Bit /\ (pin[c][q] = 1 <=> High(c, q))
      BY <1>1, <2>6 DEF OutOfOrder, High
    <3>2. CASE pin[c][p] = Level(goal, p)
      <4>1. Drive(c)' = Drive(c)
        BY <2>1, <2>6, <3>2 DEF Drive, Ports
      <4> QED
        BY <2>3, <4>1 DEF drives
    <3>3. CASE pin[c][p] # Level(goal, p)
      <4>1. CASE p = 0
        <5>1. /\ nowState[c] # Forward => pin[c][1] = 0
              /\ nowState[c] = Forward => pin[c][0] = 0 /\ goal = Stop
          BY <1>1, <3>1, <4>1 DEF WriteInv, OnePinHigh, DirectionOverStop, Ports, Bit,
             Forward, Stop, Back
        <5>2. pin'[c][0] = Level(goal, 0) /\ pin'[c][1] = pin[c][1] /\ pin[c][0] # Level(goal, 0)
          <6>1. /\ pin'[c][p] = Level(goal, p)
                /\ \A q \in Ports : q # p => pin'[c][q] = pin[c][q]
            BY <2>1
          <6>2. 1 \in Ports /\ 1 # 0
            BY DEF Ports
          <6> QED
            BY <3>3, <4>1, <6>1, <6>2, Zenon
        <5>3. pin[c][1] = 0
          BY <5>1, <5>2 DEF Level, Forward, Stop, Back
        <5>4. pin[c][0] \in Bit /\ pin'[c][0] \in Bit
          BY <2>1, <3>1 DEF Ports, Level, Bit
        <5>5. \/ Drive(c) = "Coast" /\ Drive(c)' = "Back"
              \/ Drive(c) = "Back" /\ Drive(c)' = "Coast"
          BY <2>6, <5>2, <5>3, <5>4 DEF Drive, Bit
        <5> QED
          BY <2>3, <5>5 DEF Bridge!Next, Bridge!Engage, Bridge!Release, Bridge!Drives
      <4>2. CASE p = 1
        <5>1. /\ goal # Back => pin[c][0] = 0
              /\ goal = Back => pin[c][1] = 0
          BY <1>1, <3>1, <4>2 DEF WriteInv, OnePinHigh, Ports, Bit
        <5>2. pin'[c][1] = Level(goal, 1) /\ pin'[c][0] = pin[c][0] /\ pin[c][1] # Level(goal, 1)
          <6>1. /\ pin'[c][p] = Level(goal, p)
                /\ \A q \in Ports : q # p => pin'[c][q] = pin[c][q]
            BY <2>1
          <6>2. 0 \in Ports /\ 0 # 1
            BY DEF Ports
          <6> QED
            BY <3>3, <4>2, <6>1, <6>2, Zenon
        <5>3. pin[c][0] = 0
          BY <5>1, <5>2 DEF Level, Forward, Stop, Back
        <5>4. pin[c][1] \in Bit /\ pin'[c][1] \in Bit
          BY <2>1, <3>1 DEF Ports, Level, Bit
        <5>5. \/ Drive(c) = "Coast" /\ Drive(c)' = "Forward"
              \/ Drive(c) = "Forward" /\ Drive(c)' = "Coast"
          BY <2>6, <5>2, <5>3, <5>4 DEF Drive, Bit
        <5> QED
          BY <2>3, <5>5 DEF Bridge!Next, Bridge!Engage, Bridge!Release, Bridge!Drives
      <4> QED
        BY <4>1, <4>2 DEF Ports
    <3> QED
      BY <3>2, <3>3
  <2> QED
    BY <2>4, <2>5, <2>6
<1>4. CASE Faulty /\ lost' = [lost EXCEPT ![c][p] = TRUE] /\ UNCHANGED pin
  <2>1. \A m \in Motors, q \in Ports :
          lost'[m][q] = IF m = c /\ q = p THEN TRUE ELSE lost[m][q]
    BY <1>1, <1>4
  <2>2. \A m \in Motors \ {c} : Drive(m)' = Drive(m)
    BY <1>4, <2>1 DEF Drive, OutOfOrder, Ports
  <2>3. Drive(c)' = "OutOfOrder"
    BY <2>1 DEF Drive, OutOfOrder
  <2>4. drives' = [drives EXCEPT ![c] = "OutOfOrder"]
    BY <2>2, <2>3 DEF drives
  <2> QED
    BY <1>4, <2>4 DEF Bridge!Next, Bridge!Fail
<1> QED
  BY <1>2, <1>3, <1>4 DEF SetPortState

\* The motors refine HBridge, for any number of motors, any clients and any
\* content of the uninitialised m_portState: a motor whose pins can be written
\* changes its direction only through coasting and is never shorted, and one of
\* which a write has failed is safe again as soon as both its pins are written.
THEOREM BridgeRefinement == Spec => ImplementsBridge
<1>1. Init => Bridge!Init
  BY DEF Init, Bridge!Init, drives, Drive, OutOfOrder, Ports
<1>2. TypeOK /\ WriteInv /\ WriteInv' /\ [Next]_vars => [Bridge!Next]_drives
  <2> SUFFICES ASSUME TypeOK, WriteInv, WriteInv', [Next]_vars
               PROVE  [Bridge!Next]_drives
    OBVIOUS
  <2>1. CASE WritePort0
    BY <2>1, WriteMovesBridge DEF WritePort0, Ports
  <2>2. CASE WritePort1
    BY <2>2, WriteMovesBridge DEF WritePort1, Ports
  <2>3. CASE UNCHANGED <<pin, lost>>
    BY <2>3 DEF drives, Drive, OutOfOrder
  <2>4. SpeedThread => UNCHANGED <<pin, lost>> \/ WritePort0 \/ WritePort1
    BY DEF SpeedThread, Wake, CountTick, StopTick, TogglePhase, CheckSteps, Expire, Poll,
           ReadPulse, AddPulse, pins
  <2>5. Client => UNCHANGED <<pin, lost>>
    BY DEF Client, SetMotorState, SetCtrlSteps, ResetActualSteps, SetRunPwm,
           SetCtrlMode, thread, pins
  <2> QED
    BY <2>1, <2>2, <2>3, <2>4, <2>5 DEF Next, vars
<1> QED
  BY <1>1, <1>2, WritesAreSafe, PTL DEF Spec, ImplementsBridge, Bridge!Spec
=============================================================================
