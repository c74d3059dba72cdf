----------------------------- MODULE RemoteKey -----------------------------
(***************************************************************************)
(* The infrared remote control of the interface process                    *)
(* (cli/src/remote_key.cpp) and the RPC calls it makes                     *)
(* (cli/src/rpc_client.cpp), over the little of the controller they move.  *)
(*                                                                         *)
(* A repeated timer polls the receiver; a second timer stops the car when  *)
(* no arrow key was seen for two polls.  Both are IoTimers of one          *)
(* io_context, whose thread runs the completions one by one; an RPC call   *)
(* blocks it.  todo is what the completion it runs has still to do.        *)
(*                                                                         *)
(* The receiver reports the scan codes of a key again and again while it   *)
(* is held.  A poll reads all of them and uses the first.                  *)
(***************************************************************************)
EXTENDS Integers, SequencesExt

CONSTANTS
  MotorNums,   \* what a controller may answer to getMotorNum
  Keys,        \* the scan codes the person presses
  CheckTime,   \* k_checkTime
  Second,      \* a second, in the same unit
  MaxLate,     \* how long the io thread may keep a completion waiting
  Lossy,       \* TRUE: an RPC call may fail
  MaxPresses,  \* bound of the model: how many keys are pressed
  MaxOther     \* bound of the model: movements other clients ask for

\* Faulty variants: the car is stopped after one poll, or after three.
StopTimeOnePoll == CheckTime
StopTimeThreePolls == 3 * CheckTime

StopTime == 2 * CheckTime   \* k_stopTime

ASSUME RemoteAssumption ==
  /\ MotorNums \subseteq {2, 4} /\ MotorNums # {}
  /\ {CheckTime, Second, MaxLate, MaxPresses, MaxOther} \subseteq Nat
  /\ Keys \subseteq Nat \ {0}
  /\ Lossy \in BOOLEAN

NoKey == 0
Digit == <<\h19, \h45, \h46, \h47, \h44, \h40, \h43, \h07, \h15, \h09>>
STAR  == \h16
POUND == \h0d
LEFT  == \h08
RIGHT == \h5a
UP    == \h18
DOWN  == \h52
OK    == \h1c
Arrows == {UP, DOWN, LEFT, RIGHT}

VARIABLES
  motors,    \* what the controller answers to getMotorNum
  event,     \* the first scan code since the last poll
  held,      \* the key that is held
  timers,    \* the pending waits, by deadline, each with the time that is left
  queued,    \* the completions that are queued
  todo,      \* what is left of the completion that runs
  late,      \* time since a completion was due or running
  input, oldKey, motorNum, soundEnabled,  \* the statics of handleKeyPress
  car,       \* history: what the car does, and who asked for it
  driving,   \* history: the arrow that is held was the last key seen, and moves the car
  asked,     \* history: how long the last turn was asked to last
  lost,      \* history: the calls that failed since the car did as it was told
  presses, others   \* bounds of the model: what is still to come

keypad == <<motors, event, held, presses>>
statics == <<input, oldKey, motorNum, soundEnabled>>
io == <<timers, queued, todo, late>>
history == <<car, driving, asked, lost>>
vars == <<motors, event, held, timers, queued, todo, late, input, oldKey, motorNum,
          soundEnabled, car, driving, asked, lost, presses, others>>

Calls == {"move", "turn", "steps", "level", "stop"}
Movements == {"stopped", "moving", "steps", "other"}

TypeOK ==
  /\ motors \in MotorNums
  /\ {event, held, oldKey} \subseteq Keys \cup {NoKey}
  /\ \A i \in DOMAIN timers : timers[i].left \in 0 .. StopTime
  /\ \A i, j \in DOMAIN timers : i < j => /\ timers[i].left <= timers[j].left
                                          /\ timers[i].who # timers[j].who
  /\ ToSet(queued) \subseteq {"poll", "stop"}
  /\ late \in 0 .. MaxLate
  /\ input \in Nat
  /\ motorNum \in {0, motors}
  /\ soundEnabled \in BOOLEAN
  /\ car \in Movements
  /\ driving \in BOOLEAN /\ lost \subseteq Calls /\ asked \in Nat
  /\ presses \in 0 .. MaxPresses /\ others \in 0 .. MaxOther

Init ==
  /\ motors \in MotorNums
  /\ event = NoKey /\ held = NoKey
  /\ timers = <<[who |-> "poll", left |-> CheckTime]>>
  /\ queued = <<>> /\ todo = <<>> /\ late = 0
  /\ input = 0 /\ oldKey = 0 /\ motorNum = 0 /\ soundEnabled = FALSE
  /\ car = "stopped" /\ driving = FALSE /\ asked = 0 /\ lost = {}
  /\ presses = MaxPresses /\ others = MaxOther

-----------------------------------------------------------------------------
(* The person with the remote control, and the other clients.              *)

First(k) == IF event = NoKey THEN k ELSE event

Tap(k) ==
  /\ held = NoKey /\ presses > 0
  /\ event' = First(k)
  /\ presses' = presses - 1
  /\ UNCHANGED <<motors, held, io, statics, history, others>>

Hold(k) ==
  /\ held = NoKey /\ presses > 0
  /\ event' = First(k) /\ held' = k
  /\ presses' = presses - 1
  /\ UNCHANGED <<motors, io, statics, history, others>>

Release ==
  /\ held # NoKey
  /\ held' = NoKey /\ driving' = FALSE
  /\ UNCHANGED <<motors, event, presses, io, statics, car, asked, lost, others>>

\* The command line or the web page moves the car.
OtherClient ==
  /\ others > 0 /\ others' = others - 1
  /\ car' = "other"
  /\ UNCHANGED <<keypad, io, statics, driving, asked, lost>>

\* The controller has counted the steps.
StepsDone ==
  /\ car = "steps" /\ car' = "stopped"
  /\ UNCHANGED <<keypad, io, statics, driving, asked, lost, others>>

-----------------------------------------------------------------------------
(* Time and the io thread.                                                 *)

Idle == todo = <<>> /\ queued = <<>> /\ timers[1].left > 0

\* Faulty variant: the wait that is pending is not cancelled.
SetTimerKeeps(who, t) ==
  LET before == {i \in DOMAIN timers : timers[i].left <= t}
  IN  InsertAt(timers, 1 + Cardinality(before), [who |-> who, left |-> t])

\* The waits without the one of this timer.
Others(who) ==
  LET own == {i \in DOMAIN timers : timers[i].who = who}
  IN  IF own = {} THEN timers ELSE RemoveAt(timers, CHOOSE i \in own : TRUE)

\* The waits of the other timer stay; a new deadline comes after those before it.
SetTimer(who, t) ==
  LET rest == Others(who)
      before == {i \in DOMAIN rest : rest[i].left <= t}
  IN  InsertAt(rest, 1 + Cardinality(before), [who |-> who, left |-> t])

Tick ==
  /\ Idle \/ late < MaxLate
  /\ \E i \in DOMAIN timers : timers[i].left > 0
  /\ timers' = [i \in DOMAIN timers |->
                 [timers[i] EXCEPT !.left = IF @ > 0 THEN @ - 1 ELSE 0]]
  /\ late' = IF Idle THEN 0 ELSE late + 1
  /\ UNCHANGED <<queued, todo, keypad, statics, history, others>>

\* Between two completions asio queues those that are due, by their deadlines.
Expire ==
  /\ todo = <<>> /\ timers # <<>> /\ timers[1].left = 0
  /\ queued' = Append(queued, timers[1].who)
  /\ timers' = Tail(timers)
  /\ UNCHANGED <<todo, late, keypad, statics, history, others>>

Step(do, arg, n) == [do |-> do, arg |-> arg, n |-> n]
Ask        == Step("ask", "", 0)
Key(k)     == Step("key", "", k)
Move(d)    == Step("move", d, 0)
Turn(d, n) == Step("turn", d, n)
Steps(d, n) == Step("steps", d, n)
Start      == Step("start", "", 0)
StopAll    == Step("stop", "", 0)
SpeedLevel(n) == Step("level", "", n)
Rearm      == Step("rearm", "", 0)

\* timerCallback: nothing to read, or the first code of what was read; the
\* timer is set again when it returns.  Events that are no scan codes may also
\* be read, and then handleKeyPress only asks for the number of motors.
Poll ==
  /\ todo = <<>> /\ queued # <<>> /\ Head(queued) = "poll"
  /\ queued' = Tail(queued)
  /\ LET k == First(held) IN
       IF k # NoKey THEN todo' = <<Ask, Key(k), Rearm>>
       ELSE \/ todo' = <<Rearm>>
            \/ todo' = <<Ask, Rearm>>
  /\ event' = NoKey
  /\ UNCHANGED <<motors, held, presses, timers, late, statics, history, others>>

\* The lambda of timerDirKey.
StopTimer ==
  /\ todo = <<>> /\ queued # <<>> /\ Head(queued) = "stop"
  /\ queued' = Tail(queued)
  /\ todo' = <<StopAll>>
  /\ UNCHANGED <<timers, late, keypad, statics, history, others>>

\* A failed call answers 0, as one that has no motors to report.
AskMotorNum ==
  /\ todo # <<>> /\ Head(todo).do = "ask"
  /\ \/ motorNum = 0 /\ motorNum' = motors
     \/ (motorNum # 0 \/ Lossy) /\ UNCHANGED motorNum
  /\ todo' = Tail(todo)
  /\ UNCHANGED <<timers, queued, late, keypad, input, oldKey, soundEnabled, history,
                 others>>

Stepped == input # 0 /\ motorNum # 2

\* The movement of an arrow that has no end of its own.
ArrowMoves(k) ==
  LET dir  == CASE k = UP -> "dirUp" [] k = DOWN -> "dirDown"
                [] k = LEFT -> "dirLeft" [] k = RIGHT -> "dirRight"
      ahead == IF k = DOWN THEN "dirDown" ELSE "dirUp"
      turn == CASE k = LEFT -> 1 [] k = RIGHT -> -1 [] OTHER -> 0
  IN  IF input = 0 THEN <<Move(dir)>> ELSE <<Move(ahead), Turn(turn, input)>>

ArrowSteps(k) ==
  <<Steps(IF k \in {UP, DOWN} THEN "dirUp" ELSE "dirLeft",
          IF k \in {UP, LEFT} THEN input ELSE -input)>>

\* Faulty variant: the timer of the steering is taken for the end of the movement.
ArrowNoTimer(k) ==
  IF Stepped THEN ArrowSteps(k)
  ELSE ArrowMoves(k) \o (IF input = 0 THEN <<Start>> ELSE <<>>)

\* An arrow: a movement as long as the key is held, or what was typed.
Arrow(k) == IF Stepped THEN ArrowSteps(k) ELSE ArrowMoves(k) \o <<Start>>

\* Faulty variant: the stop timer is not started for a rotation.
PoundNoTimer ==
  CASE motorNum < 4 -> <<>>
    [] motorNum >= 4 /\ input = 0 -> <<Move("dirRotation")>>
    [] OTHER -> <<Steps("dirRotation", input)>>

Pound ==
  CASE motorNum < 4 -> <<>>
    [] motorNum >= 4 /\ input = 0 -> <<Move("dirRotation"), Start>>
    [] OTHER -> <<Steps("dirRotation", input)>>

\* What a key that is not ignored leads to, and the number typed after it.
Handle(k) ==
  CASE \E d \in 0 .. 9 : k = Digit[d + 1] ->
         [calls |-> <<>>,
          input |-> 10 * input + (CHOOSE d \in 0 .. 9 : k = Digit[d + 1])]
    [] k \in Arrows -> [calls |-> Arrow(k), input |-> 0]
    [] k = OK -> [calls |-> IF input \in 1 .. 9 THEN <<SpeedLevel(input)>> ELSE <<>>,
                  input |-> 0]
    [] k = STAR -> [calls |-> <<StopAll>>, input |-> 0]
    [] k = POUND -> [calls |-> Pound, input |-> IF motorNum < 4 THEN input ELSE 0]
    [] OTHER -> [calls |-> <<>>, input |-> input]

\* "ignore repeated key, only handle arrow key"; a code above 0xFF is no key.
Ignored(k) == k > \hFF \/ (k = oldKey /\ k \notin Arrows)

HandleKeyPress ==
  /\ todo # <<>> /\ Head(todo).do = "key"
  /\ LET k == Head(todo).n IN
       IF Ignored(k)
       THEN todo' = Tail(todo) /\ UNCHANGED <<input, oldKey, soundEnabled>>
       ELSE /\ todo' = Handle(k).calls \o Tail(todo)
            /\ input' = Handle(k).input
            /\ oldKey' = k
            /\ soundEnabled' = IF k = STAR THEN ~soundEnabled ELSE soundEnabled
  /\ driving' = (driving /\ Head(todo).n = held)
  /\ UNCHANGED <<timers, queued, late, keypad, motorNum, car, asked, lost, others>>

\* What a call does in the controller, which has no steps with two motors.
Effect(c) ==
  CASE c.do = "move" -> "moving"
    [] c.do = "steps" /\ motors # 2 -> "steps"
    [] c.do = "stop" -> "stopped"
    [] OTHER -> car

Moves(c) == c.do \in {"stop", "move"} \/ (c.do = "steps" /\ motors # 2)

\* What only the properties look at: how long a turn was to last, and which
\* calls have failed since the car last did as it was told.
Remember(c) ==
  /\ asked' = CASE c.do = "turn" -> Second * c.n
                [] c.do = "move" -> 0
                [] OTHER -> asked
  /\ driving' = (driving /\ c.do # "steps")
  /\ lost' = CASE ~Moves(c) -> lost
               [] Moves(c) /\ car' = Effect(c) -> {}
               [] OTHER -> lost \cup {c.do}

\* callInt and callVoid: the controller does it, or the call fails before or
\* after that; a failure is logged and the handler goes on.
Call ==
  /\ todo # <<>> /\ Head(todo).do \in Calls
  /\ \/ car' = Effect(Head(todo))
     \/ Lossy /\ UNCHANGED car
  /\ Remember(Head(todo))
  /\ todo' = Tail(todo)
  /\ UNCHANGED <<timers, queued, late, keypad, statics, others>>

\* timerDirKey.start(k_stopTime).
StartStopTimer ==
  /\ todo # <<>> /\ Head(todo).do = "start"
  /\ timers' = SetTimer("stop", StopTime)
  /\ driving' = (held = oldKey /\ held \in Arrows)
  /\ todo' = Tail(todo)
  /\ UNCHANGED <<queued, late, keypad, statics, car, asked, lost, others>>

\* The poll timer is a repeated one.
RearmPoll ==
  /\ todo # <<>> /\ Head(todo).do = "rearm"
  /\ timers' = SetTimer("poll", CheckTime)
  /\ todo' = Tail(todo)
  /\ UNCHANGED <<queued, late, keypad, statics, history, others>>

IoStep == Poll \/ StopTimer \/ AskMotorNum \/ HandleKeyPress \/ Call
          \/ StartStopTimer \/ RearmPoll

Next ==
  \/ \E k \in Keys : Tap(k) \/ Hold(k)
  \/ Release \/ OtherClient \/ StepsDone
  \/ Tick \/ Expire \/ IoStep

Spec == Init /\ [][Next]_vars

\* Time passes, what is due is queued, the io thread goes on (an RPC call
\* returns or fails).  No key has to be pressed or released.
Fairness == WF_vars(Tick) /\ WF_vars(Expire) /\ WF_vars(IoStep)

FairSpec == Spec /\ Fairness

-----------------------------------------------------------------------------
(* What the remote control promises.                                       *)

\* The stop timer is set, due, or stopping the car.
StopPending == \/ \E i \in DOMAIN timers : timers[i].who = "stop"
               \/ "stop" \in ToSet(queued)
               \/ todo = <<StopAll>>

\* A car that an arrow or the rotation key has set moving is going to be stopped,
\* unless the stop itself was lost: every branch of handleKeyPress that starts a
\* movement without an end has started the timer when the poll is over.
MoveHasStop ==
  car = "moving" /\ "stop" \notin lost
    => StopPending \/ {Start, StopAll} \cap ToSet(todo) # {}

\* Once the key is released the car stops, unless another one is pressed or the
\* call that stops it fails.
MoveEnds ==
  (car = "moving" /\ held = NoKey) ~> (car # "moving" \/ held # NoKey \/ "stop" \in lost)

\* As long as the arrow that moves the car is held, the stop timer does not stop
\* it: every poll restarts the timer before it is due.  This needs a stop time
\* of two polls and an io thread that is late by less than half a poll.
HeldKeyMoves == [][~(StopTimer /\ driving)]_vars

\* A movement that counts its steps is not cut short by the stop timer of a key
\* pressed before: typing a number takes two polls, and the timer two.  A movement
\* that was to replace it and failed has started the timer all the same.
StepsNotCut == car = "steps" /\ "move" \notin lost => ~StopPending

\* "2 motor, input is time" (cli/src/remote_key.cpp:167): the stop timer leaves a
\* movement the time that was typed, in seconds.
InputIsTime ==
  [][(StartStopTimer /\ asked > 0)
       => \E i \in DOMAIN timers' : timers'[i].who = "stop" /\ timers'[i].left >= asked]_vars
=============================================================================
