------------------------------- MODULE IoTimer -------------------------------
(***************************************************************************)
(* The timer class of xapi (xapi/src/iotimer.cpp) over asio's steady_timer,*)
(* used by the run timer and the steering of the controller and by the     *)
(* key poll and the stop timer of the remote control.                      *)
(*                                                                         *)
(* Threads call start and stop, the io thread too; it runs the completions *)
(* of the waits one by one.  Time is kept as what is left of the deadline. *)
(* Of asio only this is used: expires_from_now sets the deadline of the    *)
(* timer and cancels the waits that are pending, not a completion that is  *)
(* queued already; async_wait adds a wait for that deadline.               *)
(***************************************************************************)
EXTENDS Integers, Sequences, FiniteSets

CONSTANTS
  Callers,   \* threads besides the io thread that call start and stop
  Timeouts,  \* the timeouts they pass
  MaxCalls   \* bound of the model: how many calls are made

ASSUME TimerAssumption ==
  /\ Timeouts \subseteq Nat /\ Timeouts # {}
  /\ MaxCalls \in Nat

VARIABLES
  repeat,   \* m_repeat, which the constructor is given
  running,  \* m_isRunning
  left,     \* the time that is left of the deadline of m_timer
  waits,    \* the pending async_waits, by the timeoutms they captured
  queued,   \* the completions that are queued, by the timeoutms they captured
  thread,   \* where a thread is in start, or the io thread in its completion
  timeout,  \* the timeoutms a thread was given, or its completion captured
  calls,    \* bound of the model: calls still to come
  credit,   \* history: the waits begun, less those cancelled or answered by a call
  served    \* history: the handler was called since the last start or stop

vars == <<repeat, running, left, waits, queued, thread, timeout, calls, credit, served>>
asio == <<left, waits, queued>>
history == <<credit, served>>

Io == "io"
Threads == Callers \cup {Io}
SomeTimeout == CHOOSE t \in Timeouts : TRUE

TypeOK ==
  /\ {repeat, running} \subseteq BOOLEAN
  /\ left \in Nat /\ \E t \in Timeouts : left <= t
  /\ waits \in Seq(Timeouts) /\ queued \in Seq(Timeouts)
  /\ thread \in [Threads -> {"out", "handler", "test", "expires", "wait"}]
  /\ timeout \in [Threads -> Timeouts]
  /\ calls \in 0 .. MaxCalls
  /\ credit \in Nat /\ served \in BOOLEAN

Init ==
  /\ repeat \in BOOLEAN
  /\ running = FALSE /\ left = 0 /\ waits = <<>> /\ queued = <<>>
  /\ thread = [c \in Threads |-> "out"]
  /\ timeout = [c \in Threads |-> SomeTimeout]
  /\ calls = MaxCalls
  /\ credit = 0 /\ served = TRUE

Goes(c, to) == thread' = [thread EXCEPT ![c] = to]

\* start, which is reset: m_isRunning is set first, then doSetExpired is called.
Start(c, t) ==
  /\ thread[c] = "out" /\ calls > 0
  /\ calls' = calls - 1
  /\ running' = TRUE
  /\ timeout' = [timeout EXCEPT ![c] = t]
  /\ Goes(c, "test")
  /\ served' = FALSE
  /\ UNCHANGED <<repeat, asio, credit>>

\* stop only clears the flag; the wait stays.
StopTimer(c) ==
  /\ thread[c] = "out" /\ calls > 0
  /\ calls' = calls - 1
  /\ running' = FALSE
  /\ served' = TRUE
  /\ UNCHANGED <<repeat, asio, thread, timeout, credit>>

\* Faulty variant: the flag is tested the other way round.
TestRunningNot(c) ==
  /\ thread[c] = "test"
  /\ Goes(c, IF running THEN "out" ELSE "expires")
  /\ UNCHANGED <<repeat, running, asio, timeout, calls, history>>

\* doSetExpired does nothing if another thread has stopped the timer meanwhile, ...
TestRunning(c) ==
  /\ thread[c] = "test"
  /\ Goes(c, IF running THEN "expires" ELSE "out")
  /\ UNCHANGED <<repeat, running, asio, timeout, calls, history>>

\* Faulty variant: the timeout is added to the deadline before.
ExpiresFromLast(c) ==
  /\ thread[c] = "expires"
  /\ left' = left + timeout[c]
  /\ waits' = <<>>
  /\ credit' = credit - Len(waits)
  /\ Goes(c, "wait")
  /\ UNCHANGED <<repeat, running, queued, timeout, calls, served>>

\* Faulty variant: a cancelled wait is taken for one whose time is up.
ExpiresAborted(c) ==
  /\ thread[c] = "expires"
  /\ left' = timeout[c]
  /\ waits' = <<>>
  /\ queued' = queued \o waits
  /\ credit' = credit - Len(waits)
  /\ Goes(c, "wait")
  /\ UNCHANGED <<repeat, running, timeout, calls, served>>

\* ... or sets the deadline, which cancels the waits: their completions see
\* operation_aborted and return, ...
ExpiresFromNow(c) ==
  /\ thread[c] = "expires"
  /\ left' = timeout[c]
  /\ waits' = <<>>
  /\ credit' = credit - Len(waits)
  /\ Goes(c, "wait")
  /\ UNCHANGED <<repeat, running, queued, timeout, calls, served>>

\* ... and begins to wait for the deadline the timer has now.
AsyncWait(c) ==
  /\ thread[c] = "wait"
  /\ waits' = Append(waits, timeout[c])
  /\ credit' = credit + 1
  /\ Goes(c, "out")
  /\ UNCHANGED <<repeat, running, left, queued, timeout, calls, served>>

Tick ==
  /\ left > 0
  /\ left' = left - 1
  /\ UNCHANGED <<repeat, running, waits, queued, thread, timeout, calls, history>>

\* The deadline has passed: asio queues the completions of the waits.  The context
\* has one thread, which looks at the deadline between two completions.
Expire ==
  /\ thread[Io] = "out" /\ left = 0 /\ waits # <<>>
  /\ queued' = queued \o waits
  /\ waits' = <<>>
  /\ UNCHANGED <<repeat, running, left, thread, timeout, calls, history>>

\* The io thread takes a completion; a stopped timer ignores it.
Complete ==
  /\ thread[Io] = "out" /\ queued # <<>>
  /\ queued' = Tail(queued)
  /\ timeout' = [timeout EXCEPT ![Io] = Head(queued)]
  /\ Goes(Io, IF running THEN "handler" ELSE "out")
  /\ UNCHANGED <<repeat, running, left, waits, calls, history>>

\* Faulty variant: the deadline is only set again when no wait is pending.
CallHandlerOnce ==
  /\ thread[Io] = "handler"
  /\ Goes(Io, IF repeat /\ waits # <<>> THEN "test" ELSE "out")
  /\ credit' = credit - 1
  /\ served' = TRUE
  /\ UNCHANGED <<repeat, running, asio, timeout, calls>>

\* m_timeoutHandler is called; a repeated timer sets the deadline again, with the
\* timeout its wait captured.
CallHandler ==
  /\ thread[Io] = "handler"
  /\ Goes(Io, IF repeat THEN "test" ELSE "out")
  /\ credit' = credit - 1
  /\ served' = TRUE
  /\ UNCHANGED <<repeat, running, asio, timeout, calls>>

DoSetExpired(c) == TestRunning(c) \/ ExpiresFromNow(c) \/ AsyncWait(c)

IoStep == Complete \/ CallHandler \/ DoSetExpired(Io)

Next ==
  \/ \E c \in Threads : (\E t \in Timeouts : Start(c, t)) \/ StopTimer(c)
  \/ \E c \in Callers : DoSetExpired(c)
  \/ Tick \/ Expire \/ IoStep

Spec == Init /\ [][Next]_vars

\* Time passes, asio queues what is due, the io thread runs what is queued and
\* a start call returns; nobody has to call.
Fairness == /\ WF_vars(Tick) /\ WF_vars(Expire) /\ WF_vars(IoStep)
            /\ \A c \in Callers : WF_vars(DoSetExpired(c))

FairSpec == Spec /\ Fairness

-----------------------------------------------------------------------------
(* What the timer promises.                                                *)

Outstanding == Len(waits) + Len(queued) + (IF thread[Io] = "handler" THEN 1 ELSE 0)

\* The handler is called at most once for every wait that was not cancelled in
\* time, whichever completions are queued when the timer is stopped, restarted
\* or rearmed, and however two starts interleave.
OneCallPerWait == Outstanding <= credit

\* A timer that was started, or a repeated one that runs, has its next call under
\* way, unless a thread is about to set the deadline: a stop between two calls of
\* the handler, followed by a start, does not leave it running with nothing pending.
ChainAlive ==
  running /\ (repeat \/ ~served)
    => Outstanding > 0 \/ \E c \in Threads : thread[c] \in {"test", "expires", "wait"}

\* A timer that is started calls its handler, unless it is stopped.
Fires == (running /\ ~served) ~> served

\* "The handler that will be triggered once the time's up."
\* (xapi/include/xapi/iotimer.hpp:28): no completion calls it while time is left of
\* the deadline set last.
OnlyWhenTimeIsUp ==
  [][thread[Io] = "out" /\ thread'[Io] = "handler" => left = 0]_vars
=============================================================================
