# A verification of carctrl

TLA+ models of the car controller and of the classes it is built on, the TLC
runs that check them on small instances, and proofs checked by TLAPS. The
models are translated from the source; every definition that stands for code is
listed with its lines in `PROJECT.json` under `map`.

## 1. The system

Two processes. `carctrl` (mcarctrl/) drives the motors of a small car through
GPIO lines. `interface` (cli/, video/) lets people use it: a telnet command
line, an infrared remote control, a web page with the pictures of a stereo
camera. They talk by RPC (coro_rpc, vendored); `xapi/` holds what both use.

| component | state | operations | interacts by |
|---|---|---|---|
| Motor, `motor.cpp` | requested state, written state, believed level of two pins, target and counted steps, duty | setters; `setNowState` writes the pins | members shared without a lock |
| speed thread, `car_speed.cpp` | PWM counter and phase of every motor, speed level, pwm table | 1 ms loop: PWM, step check, pulse counting | reads and writes the motors |
| CarCtrl, `car_ctrl.cpp` | control mode, run timer | the RPC handlers, the timer's callback | calls CarSpeed; run by the server's threads |
| Steer, `steer.cpp` | two pins, a timer | `turn`, the timer's lambda | called by CarSpeed |
| IoTimer, `iotimer.cpp` | running flag, an asio timer | `start`/`reset`, `stop`, completion | callbacks on the io thread |
| Gpio, `gpio.cpp` | a sysfs file descriptor | export, `setValue`, `getValue` | file I/O |
| RemoteKey, `remote_key.cpp` | the last key, two timers, mode | poll a key, call the controller | RPC |
| CLI car menu, `cli_car.cpp` | none | one item for each command | RPC |
| RPC client, `rpc_client.cpp` | one client, shared by menu, page and remote control | `rpc_connect`, called once; one wrapper for each function, which blocks its caller | coro_rpc |
| web server, `car_web_server.cpp` | published frame, routes | HTTP requests, video stream | RPC, shared frame |
| video, `video_ctrl.cpp` ... | camera handles, current frame | capture loop, save, record | shared frame, threads |
| SoundIntf, `sound_intf.cpp` | a queue of files, a thread | speak | mutex |
| PtyShell, `pty_shell.cpp` | pseudo terminal, reader thread | log output to a tty, shell commands | file descriptors, signals |
| CmnThread, ThreadPool | thread handle; queue and workers | start, stop; enqueue, wait | condition variables |
| calamares, `calamares_bin.cpp` | pid file, lock | attach to a log tty | files, signals |

### What is hard in it

* The RPC handlers and the speed thread share the members of `Motor` with no
  lock. A handler is a sequence of plain writes; two handlers and the thread
  interleave write by write, and `m_actualSteps += 1` is a read and a write.
* The pins are written through a cache (`m_portState`) that is uninitialised,
  is set before the write is made, and whose failures are ignored. The order
  of the two pin writes alone would short the H-bridge on a change from Forward
  to Back.
* The run timer and the steering timer are restarted while their completions
  may be queued; nothing withdraws a queued completion. Their callbacks run on a
  thread of their own, not on the one that serves a client: the end of a run
  interleaves with the handler of a single client.
* A step movement ends only by the thread's comparison, which needs pulses,
  step mode and a running motor.
* The remote control stops the car by a timer that every poll of a held key
  restarts; the poll, the timer and the RPC calls share one io thread, and a
  call may fail before or after the controller has done it.
* The whole cli process makes its calls with one client, opened once. The client
  closes itself after a time-out, a lost connection or an answer that is an
  error, and nobody opens it again; its executor thread, the controller's
  connection thread and the caller that blocks share its tables and timers.
* A handler of the cli process asks for the number of motors and acts on the
  answer; a failed call counts as the answer 0.

The full list, each with its line and the property that would catch it going
wrong, is `hazards` in `PROJECT.json`.

### What makes each component correct

* Motor and speed thread: the bridge is never shorted, direction changes pass
  through a stop, a stop and a run reach the pins, a step movement ends at most
  one pulse late.
* CarCtrl: each handler leaves the wheels as its request says and no timer or
  step check turns a wheel another way; duties follow the speed level; a timed
  run ends.
* IoTimer: one call of the handler for one deadline, a repeated timer goes on,
  a started timer fires.
* RPC client: a call is executed at most once and in order, it is answered only
  when it was executed, its caller always comes back; menu, page and remote
  control: every handler ends, and a stop that was answered holds.
* RemoteKey: a released key stops the car; video: a frame handed out is whole
  and not older than the one before; SoundIntf and ThreadPool: what is queued is
  done once, stop returns; PtyShell: reader and writer never block each other
  for good; calamares: at most one instance attaches.

## 2. Modules

| module | models |
|---|---|
| `HBridge` | what the pins promise: every motor coasts, drives forward or back, and changes direction only through coasting |
| `CarSpeed` | Motor and the speed thread, with the RPC threads as the most general client |
| `CarCtrl` | the RPC handlers, the run timer and the steering, composed with `CarSpeed` by INSTANCE |
| `IoTimer` | the timer class with its callers, the clock and the io thread |
| `RemoteKey` | the remote control: polls, keys, stop timer, the RPC calls and the little of the car they move |
| `RemoteCall` | what a caller may rely on when it calls the controller: no connection, no timers, no threads |
| `RpcClient` | the client's wrappers and the part of coro_rpc under them: client, connection, server side, faults |
| `CarClients` | the handlers of menu, page and remote control and quit, composed with `RpcClient` by EXTENDS |
| `CarSpeed_proofs`, `CarCtrl_proofs`, `CarCtrlServed_proofs`, `IoTimer_proofs`, `RpcClient_proofs`, `RemoteCall_proofs`, `CarClients_proofs`, `RemoteKey_proofs` | the theorems |
| `MCCarSpeed`, `MCCarCtrl`, `MCIoTimer`, `MCRemoteKey`, `MCCarClients` | values for the constants |

`HBridge` is the abstract specification of the pins, which `CarSpeed` implements
(`ImplementsBridge`); `CarSpeed` is the abstract specification of the motors,
which `CarCtrl` implements (`ImplementsCarSpeed`); `RemoteCall` is the abstract
specification of a call, which `RpcClient` implements (`ImplementsRemoteCall`).
`IoTimer` is the detail of the timers that `CarCtrl` and `RemoteKey` keep as a flag
or a pending wait.

### CarSpeed

Every member of `Motor` that two threads use is a function of the motor
(`runState`, `ctrlSteps`, `actualSteps`, `ctrlPwm`), next to what the thread
alone writes (`nowState`, `portState`, the pins, `pwmCount`, `runFlag`). `pc`
and `cur` say where the thread is: `Wake` is the return of the sleep; `CountTick`
and `StopTick` are the two branches for a motor in `motorPwmCtrl`; `TogglePhase`
ends a PWM phase; `WritePort0` and `WritePort1` are the two calls of
`setPortState`; `CheckSteps` and `Expire` are the step check and the stop it
leads to; `Poll`, `ReadPulse` and `AddPulse` count pulses. An action is one
access of shared data, so that a handler may write between the read of a count
and the store of the sum, or between the step check and the stop. The reads of
one condition are taken together.

`m_portState` is uninitialised in the code: it starts with any value of
`Garbage`. With `Faulty` a write of a pin may fail; the history variable `lost`
remembers on which pin the last write failed; `HBridge` calls such a motor out of
order until both pins are written again. `touched` is history too: a
client wrote since the thread compared the steps of the motor.

The clients are `Client`: any setter at any time. This is weaker than the
handlers, so what holds here holds of the controller (`ImplementsCarSpeed`).

### CarCtrl

The handlers are operators that return the sequence of writes the code performs
(`SetCarMoving`, `SetRunTime`, ...), `todo[t]` is what the handler running in
server thread `t` has left, and `MotorWrite`, `CtrlWrite` and `CallWrite` take
one write. `setCarSteps` calls `setCtrlSteps`, which looks at the speed level
when it is called, so a call is an entry of the sequence that is expanded when
it is reached. Timers are the flag, a pending wait and the number of queued
completions (what `IoTimer` models in detail, with its time). `TimerExpire` and
`TimerComplete` belong to the io thread, which runs a completion only when it
runs nothing else. `arm` takes the two calls of asio together; that two of them
interleave is in `IoTimer`. `Writes` says what an entry of the sequence may be.

`Threads` are those of the server's pool, one for each core (`main.cpp:30`), each
with an executor. `main.cpp:31` takes the first one for the timers: `IoThread`. The
pool hands out the next ones in turn (`include/ylt/coro_io/io_context_pool.hpp:294`),
the second to the acceptor and one to each connection
(`include/ylt/coro_io/server_acceptor.hpp:137`). So on a board with three cores or
more the first connection is served by a thread that is not the io thread, and with
one core it is. `Servers` are the threads that serve a connection and take requests
(`Accept`); one connection is one of them, which serves one request after the other.
Nothing orders its handlers and the callbacks: the io thread writes its next value at
any point of a handler, and a handler may begin and end inside a callback.

`crossed` is history: while the last request was carried out, the end of a run was
carried out too (`RunEnding` says that it still has the steering timer to stop).
`Turning` says which requests turn the steering and `Headings` where (`SteerObeysLast`),
`Directions` which ways a request may turn a wheel (`WheelsObeyLast`), `TurnsForATime`
which of them are to end by themselves, `Awaits` that a timer's callback is still to come (`RunHasEnd`, `TurnHasEnd`).

### IoTimer

`Start` sets the flag of `reset`, and `TestRunning`, `ExpiresFromNow` and
`AsyncWait` are the three steps of `doSetExpired`, taken by a thread in `start` or by
the io thread in a completion (`thread` says where each is). `StopTimer` clears
the flag. `Complete` and `CallHandler` are the completion's lambda. `Tick` and
`Expire` are asio's: `left` is what is left of the timer's deadline; a new
deadline cancels the pending `waits` and not the `queued` completions, and two
starts that interleave leave two waits for one deadline. `repeat`, the
constructor's argument, is chosen at the start. `credit` (the waits begun, less
those cancelled or answered by a call) and `served` are history variables.

### RemoteKey

The statics of `handleKeyPress` are `input`, `oldKey`, `motorNum` and
`soundEnabled`. `todo` is what is left of the completion the io thread runs:
`Poll` and `StopTimer` begin one, `AskMotorNum` and `HandleKeyPress` are
`handleKeyPress` up to the switch, `Call` is one RPC call, `StartStopTimer` is
`timerDirKey.start` and `RearmPoll` the end of the repeated poll. `Handle(k)` is the
switch: the calls a key leads to and the number typed after it. `timers` are
the pending waits in the order of their deadlines, `queued` the completions asio
has posted. `Tap`, `Hold` and `Release` are the person, `OtherClient` the command
line or the web page. `car` is what the controller was told last and by whom;
`motors` is what it answers to `getMotorNum`. `driving`, `asked` and `lost`
(the calls that failed since the car last did as it was told) are history. A call
that fails may be followed by one that succeeds: this allows more than
`RpcClient`, whose client stays closed, and is what a client that reconnects would
do too.

### RpcClient

Three threads take part. The io thread of the cli process (`caller`) calls
`rpc_connect` once and then makes one call after another: `Refuse` when
`has_closed_` is set, otherwise `Send`, which starts the request's timer and begins
the write, after which it blocks until `Resolve` sets its promise.
`ProcessEnds` is `std::exit`. The executor thread of the client runs `ConnectDone`,
`WriteDone` (the request enters `response_handler_table_`, and `recv` runs while the
table is not empty), `WriteFailed`, `ReadAnswer`, `RecvFails` and the completion of
a timer, `TimedOut`. A thread of the controller runs `Serve`, which reads a
request, looks it up among `Registered`, executes and answers it, and `ServeQuit`,
which ends the process instead of answering. `Expire` is time: a timer that has
expired is queued, and a cancel does not take its completion back. `Stop` and
`Restart` are the controller's crash and start, `Drop` what it loses when the
client has closed the socket. Restarting the controller helps no client: only
`rpc_connect` clears `has_closed_`.

State: `server`, `socket`, `hasClosed`, the `table`, the timers that are `armed` or
`expired`, and the `requests` and `responses` on their way. `calls` (what was called and
what the caller was told), `done` (what the controller executed, in that order)
and `broken` (time was up for a call, or the controller was off) are history;
`RemoteCall` is stated over the first two.

`function_not_registered` is an answer like the others on the wire, but
`deserialize_rpc_result` closes the client on it: `ReadAnswer` with `~r.ok`.

### CarClients

A handler is a sequence of calls (`First`); those that ask for the number of
motors go on with one of `Rest`, which depends on the answer and on arguments
chosen freely (`Decide`). `Begin` is an interface that has something to do, `NextCall` one
call, `Return` the end of the handler, `Exit` that of quit. One handler runs at a
time, because all of them run on the io thread; they share `RpcClient`'s variables
and with them the client. `ServerFuncs` is the list of `register_handler` in
`main.cpp`, `ServiceFuncs` what the cli process may call.

## 3. Runs

| run | question | instance | result |
|---|---|---|---|
| `CarSpeed_pins` | the pins under any client, writes that fail; stops and runs reach the pins | 1 motor, no wheel sensor, period 2, all duties, garbage 0, 1, 2 | passes |
| `CarSpeed_steps` | types, overshoot, an overdue step movement ends | 1 motor with a sensor, targets -1 and 0, up to 2 pulses | passes |
| `CarCtrl_two` | wheels, duties and steering after requests; a timed run, and a timed turn no end of a run crossed, have their end under way and end; every behaviour is one of CarSpeed; two motor car with steering | 2 of 14 requests on one connection; its thread and the io thread | passes |
| `CarCtrl_four` | wheel patterns of the four wheel car | 2 of 5 requests; one core, so one thread for handlers and callbacks | passes |
| `CarCtrl_turn` | a turn for a time ends | a timed run and a timed turn on one connection; its thread and the io thread | violated: finding |
| `CarCtrl_sign` | steps forward go forward | level 4, one step | violated: finding |
| `IoTimer_calls` | one call per wait, a started timer fires, a repeated one goes on | 2 threads and the io thread, 4 calls, one-shot and repeated | passes |
| `IoTimer_restart` | the handler is not called before the deadline | 1 caller, 2 calls | violated: finding |
| `RemoteKey_keys` | a movement has its stop, a held key is not stopped, steps are not cut, a released key stops the car | both cars, 6 keys, 3 presses, 1 other client, calls may fail | passes |
| `RemoteKey_time` | a typed time is kept | two motor car, 2 presses | violated: finding |
| `CarClients_faults` | calls are executed at most once, in order and return, the client closes itself only for a reason, an answered stop holds, handlers end | one handler of each kind, 2 of them run, two motors; time-outs, crashes, restarts, quit | passes |
| `CarClients_stop` | a stop the page asks for is executed | requests of the page, no faults | violated: finding |

Why the bounds are enough. Motors do not interact except through the thread
that serves them in turn and the mode they share, so one motor with every
client write at every point shows what one motor can do; the proofs cover any
number. A period of two ticks has duties of none, half and all of it, the three
cases of the comparison. Two requests are one that leaves something behind (a
timer, a mode, a count, a queued completion) and one that meets it; each timer may
expire at any point of the second, and its callback runs next to it. A third request
is what the proofs are for, as are more threads and the counted steps of a wheel with a
sensor. Four calls
of the timer are two starts and two stops, enough for a stop and a restart
around a completion. Three presses are a number, a key that uses it and a key
that follows; the six keys are one of each branch of the switch and an arrow of
each axis. Two handlers of the cli process are one that leaves something behind (a
closed client, a queued expired timer, a request still with the controller, a
known number of motors) and one that meets it; a third adds nothing to a client
that never opens again, and `StopHolds` and `ImplementsRemoteCall` are proved for
any number. Two motors make every loop over the motors run more than once.

Bounds of the models: `MaxActual` (no pulse arrives beyond it), `MaxRequests`,
`MaxReady` (completions queued at once), `MaxCalls` (of `IoTimer`: starts and stops;
of `RpcClient`: calls, 22, as many as two handlers make at most), `MaxHandlers`, `MaxPresses`
and `MaxOther` (keys and movements of other clients still to come), `MaxLate` (how long the io
thread may keep a completion waiting: less than half a poll, which
`HeldKeyMoves` needs; a poll later than that does stop a held car). `IoTimer_*` and
`CarClients_*` switch the deadlock check off: when all calls are made and the
timer is stopped, or the cli process has ended, nothing has to happen.

### Fairness

`CarSpeed`: weak fairness of the thread's steps; it sleeps one millisecond,
polls without waiting and never blocks on a lock. `CarCtrl`: besides, a thread
of the pool finishes the handler or callback it has begun (plain writes), a deadline
passes and the io thread runs what is queued. No request has to arrive and no pulse has to
come. `IoTimer`: time passes, asio queues what is due, the io thread runs what is
queued, and a start that has set the flag sets the deadline. `RemoteKey`: time
passes, what is due is queued, the io thread goes on, which needs that an RPC
call returns or fails (`EveryCallReturns` of `RpcClient`). No key has to be pressed
or released. `CarClients`: the io thread runs a handler it has begun, the executor
runs what is ready, and time passes, which is enough for calls to return;
nothing is assumed of the controller. `ServedSpec`, used for the finding alone,
adds that a controller that runs reads what reaches it.

### Findings

* `CarCtrl_sign`: `setCtrlSteps` subtracts `level/2` from a step count of 1 to
  10. At level 4 one step forward becomes one step back.
* `CarCtrl_turn`: `steer.cpp:39` stops the steering timer after the pins are written
  straight. When the end of a timed run does so on the io thread, a
  `setSteerTurn(1, t)` of the connection's thread may have turned the steering and
  started the timer in between: it never fires, and the wheels stay aside for good.
  One client is enough. `TimedTurnEnds` and `TurnHasEnd` say that nothing else
  leaves a turn without its end.
* `IoTimer_restart`: a restarted timer calls its handler before the new deadline
  when the completion of the previous one is already queued.
* `RemoteKey_time`: with two motors an arrow after a typed number starts the stop timer
  with the two polls of a held key, 600 ms, whatever number was typed. Once the arrow
  is released, that stop (`setAllMotorState(0)`) ends the movement and straightens the
  steering as well, so neither lasts as long as was typed. For up and down
  `rpc_set_steer_turn(0, input)` sets no time at all.
* `CarClients_stop`: the page's status request asks for `getCtrlMode` and the menu's
  `set-motorpwm` for `setMotorPwm`; the controller registers neither. The answer
  closes the client for good: every later call is refused, a stop too, while the
  page answers `{"ok":true}` and the car drives on.

Two things the code does that no property calls wrong: a stop key pressed again
is ignored as a repeated key even when another client moved the car in between
or the first call failed; and an arrow still held at the poll after a typed
number becomes an endless movement, ended by the stop timer.

## 4. Proofs

`CarSpeed_proofs` proves, from `ConstantsAssumption` alone, that is for any
number of motors, any period and table, any content of the uninitialised memory
and any client:

* `TypeCorrect`: the types. The one that is not obvious is that the PWM counter
  stays below the period while clients change the duty.
* `WritesAreSafe`: `WriteInv` is inductive together with the types. Its parts:
  a pin that is high (and not by a failed write) is believed high; at most the
  pin of the direction written last, or being written, is high; in the off
  phase a stop is or is being written; and a direction is only written over a
  stop. The last two are why the order of the pin writes does no harm.
* `NeverShorted`: both pins high needs a failed write of one of them.
* `BridgeRefinement`: `CarSpeed` implements `HBridge`, whichever writes fail: a
  motor is out of order from a failed write until both pins are written again,
  and otherwise changes its direction only through coasting.
* `AtMostOnePulse`: a step movement left alone runs at most one pulse past its
  target. `StepsInv` says why: from the comparison until the next pulse is counted a
  motor that goes on is not past its target; the pulse takes it at most one past
  it, and the next comparison stops it.

`CarCtrl_proofs` proves, from `MotorAssumption`, `CtrlAssumption` (two or four
motors, a pwm table) and `RequestAssumption` (what a client may pass), that is for
any number of server threads and requests:

* every handler and callback is a sequence of `Writes` (one lemma per handler);
* `CtrlTypeCorrect`: the types, with `todo \in [Threads -> Seq(Writes)]` as the
  inductive part;
* `CtrlRefinement`: every step of the controller is a step of `CarSpeed` or leaves
  its variables alone, so the controller implements `CarSpeed`;
* `CarNeverShorted`: with the theorem about `CarSpeed`, no motor of the car is
  shorted unless a write of its own pins failed. The `Same...` lemmas identify the
  instance of `CarSpeed` with that of `CarSpeed_proofs`;
* `CarAtMostOnePulse`: the same way, `AtMostOnePulse` of every motor of the car.

`CarCtrlServed_proofs` proves five properties for the client of one connection
(`OneConnection`: one thread serves requests, one after the other; it may be the io
thread, as in `CarCtrl_four`, or another, as in `CarCtrl_two`). This is how the system
runs: the cli process opens one client, whose calls wait for their answer. The
callbacks of the timers run on the io thread, at any point of a handler. With two
connections two handlers may mix their writes, and nothing is claimed of
these five (`CtrlTypeCorrect`, `CtrlRefinement` and the two theorems about the motors
hold all the same):

* `WheelsObey`: no wheel turns against the request served last;
* `LevelsAgree`: between requests every motor has the duty of the speed level;
* `SteerObeys`: the steering points where the request served last says, or straight;
* `RunsHaveEnds` and `TurnsHaveEnds`: a car that still drives after a timed run was
  begun, and a steering that still points aside after a turn for a time, have the
  callback that ends it under way; the turn unless the end of a run was carried out
  meanwhile (`crossed`), which is the finding of `CarCtrl_turn`. This is the safety half
  of `TimedRunEnds` and `TimedTurnEnds`, which only fairness has to complete.

The argument is the same for the first three. A handler writes only values its request
allows (`Only`), and it writes every place it has to (`Covers`). The threads that serve
no connection have nothing to do but callbacks (`OthersInv`), and a callback writes a
value that is allowed under any request: stop, or a level of 0. So in between, every
place has an allowed value or one is still to be written to it by the handler
(`Settles`), and one write of any thread keeps that; so does the speed thread's stop.

For the timers, `UnderWay` says that the rest of the handler switches the timer on and
arms it, or it is on and still to be armed, or it is on and waited for or queued, and
that neither the rest of the handler nor a callback stops it any more. `RunInv`: after a
request for a run, the wheels are stopped or still to be stopped by a callback, or the
run timer is `UnderWay`. Nothing clears the flag of the run timer, so this holds
wherever a callback falls. `TurnInv` is the same of the steering as long as the turn was
not crossed: the completion of the steering timer only writes pins, and the end of a
run, which stops that timer, makes the request crossed when it meets its handler, and
straightens the steering when it comes after it. A completion that an earlier start
left queued finds the timer on and runs the callback, so it ends a run early and never
leaves it without an end.

`IoTimer_proofs` proves, for any number of threads, timeouts and calls:

* `OneCall`: types and `OneCallPerWait`, which are inductive only together: that
  `credit` stays a number rests on what it counts;
* `NextCallUnderWay`: `ChainAlive`, inductive over the types;
* `TimerTypes`: the types alone.

`RpcClient_proofs` proves, from `RpcAssumption`, that is for any set of functions,
registered or not, and any number of calls and faults:

* `TypesHold` and `WaitsHaveEnds`: a waiting io thread can be woken. The inductive
  invariant adds `Calling` (who may have a call pending) and `Ordered` (the requests
  on their way are younger than what was executed, and in order);
* `PathImplementsRemoteCall`: client, connection and server implement `RemoteCall`,
  which needs `Ordered`: a request is executed once because ids only grow and
  because a client that was closed never opens a second connection next to
  requests of the first;
* `FailuresHaveCauses`: `Cause`, `Sockets`, `InUse` and `InFlight` say that as long as
  nothing has gone wrong the socket is open, the answer on its way is the one the
  client waits for, and no timer runs for a call that has ended.

`RemoteCall_proofs` proves `PromiseKept`, what a caller may conclude from
`RemoteCall`: executed in order, none twice, answered only when executed, never when
refused. `CarClients_proofs` uses it: every step of the interfaces is a step of
`RpcClient` or leaves its variables alone, so `RemoteCall`'s promise holds of the
whole, and `StopsHold` follows: the stop was executed, what was asked before it
cannot be executed after it. The same step gives `ClientsKeepPath` (types,
`WaitHasEnd` and `FailureHasCause`) and `ClientsImplementRemoteCall` for the
composition: whatever the handlers do, they use the path as its specification
allows, so what is proved of the path need not be proved again.

`RemoteKey_proofs` proves, from `RemoteAssumption`, that is for any scan codes,
times, number of presses and movements of other clients, and whichever calls fail:

* `RemoteTypes`: the types; each timer waits once at most and the waits are in the
  order of their deadlines, which rests on what `SetTimer` does to a sorted list
  (`SetFacts`);
* `MovementsHaveStops`: `MoveHasStop`. It is inductive with `Ended`, which says of what
  a completion has left that a start of the stop timer comes after every movement
  without an end. `HandleFacts` shows it of every branch of the switch, and no
  step takes a wait of the stop timer away but to queue its completion, nor the
  completion but to stop the car.

* `CountedStepsNotCut`: `StepsNotCut`, however late the io thread is. Its inductive
  invariant is `CutInv`. The stop timer is never due later than the poll after the
  next one (`Near`): a start of it is followed by the start of the poll timer, and
  time passes for both. A number is typed by a key that starts no timer, so that
  from the poll that read it the stop timer is due before the next one and its
  completion is queued before the poll's (`TypedLast`). The arrow that asks for
  steps is read by a later poll than the number, therefore after the stop
  (`Planned`). This needs to know what each completion has left: `Plan` is the
  sequence of kinds of its steps, and `KeyPlans` shows of every key that its plan is
  one of a few;
* `HeldKeysMove`: `HeldKeyMoves`, under `OnTime`: the io thread is late by less than
  half a poll. The stop timer of a held arrow is started again at every poll, for
  two polls. Its wait has what is left of the poll timer's and one poll more, less
  what the io thread was late when it started the two (`Fresh`), so at the next
  poll, late again, it is not due yet (`AfterPoll`, `Renewed`); `HoldInv` collects
  this. `OnTime` is what the code counts on when it sets the two times: the
  remote control's completions make a few calls to a process on the same board,
  and two polls are the margin `k_stopTime` leaves. It is an assumption, not
  a fact of the code: a time-out of a call makes the io thread late by 30 seconds,
  and a poll later than that does stop a held car. `RemoteKey_keys` satisfies it.

Only model-checked: liveness (`StopReachesPins`, `RunReachesPins`,
`StepsEndMovement`, `TimedRunEnds`, `TimedTurnEnds`, `Fires`, `MoveEnds`,
`EveryCallReturns`, `HandlersEnd`), because the prover handles neither fairness nor
ENABLED. Every invariant and every action property of the passing runs is the
statement of a theorem, those of `CarCtrlServed_proofs` under `OneConnection`,
`HeldKeyMoves` under `OnTime`, the others from the assumptions on the constants
alone.

## 5. Not modelled

`components` in `PROJECT.json` lists every part. What is left out, and why:

* Image capture, stereo vision and parsing: numeric or textual work of OpenCV
  and JSON libraries without a protocol.
* `gpio.cpp`: file I/O on sysfs. `CarSpeed` uses what `setValue` does: it sets the pin
  or fails.
* The web server's sockets, page and camera streams, `PtyShell`, `SoundIntf`, the
  frames of the video loop and `calamares`: threads and protocols of their own,
  which do not touch the motors. They are the next candidates.
* `ThreadPool`: no program of the repository uses it.
* Writes of the steering pins that fail: those of the motor pins may (`Faulty` of
  `CarSpeed`), those of `steer.cpp` always set the pin. After a failed one the steering
  would not point where `SteerObeysLast` says.
* The constructors and destructors of the controller: it is built once, before
  its first request, and leaves by `exit`.
* The vendored libraries (coro_rpc, async_simple, struct_pack, libfork, cli,
  cmdline) are most of the lines of the repository. Modelled is the part of
  coro_rpc the calls rest on and the part of asio's timers `IoTimer` uses;
  serialisation, reflection and coroutine machinery are not.

What the models simplify: the reads of one condition are taken together; the two asio
calls that arm a timer are one step of `CarCtrl`; the
calls in the arguments of one `format` are taken in the order they are written
in; a request is with the controller's host once its write is begun; the
30 seconds of a time-out are a choice of when, not a count.

## 6. What could follow

1. `RemoteKey` over `RpcClient`: the polls and the stop timer with a client that closes
   itself for good, to say which movements are left without their stop.
2. `PtySend`: flow control between the writer of the log and the reader of the
   terminal. `SoundQueue`: the queue and its playing thread. `Frames`: the exchange
   of frames between capture loop and web server. `CalamaresPid`: the pid file
   protocol of two instances.
3. `Shutdown`: `quitApp`, the destructors and what they free while the speed thread
   runs.
