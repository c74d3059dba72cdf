---------------------------- MODULE IoTimer_proofs ----------------------------
(***************************************************************************)
(* What IoTimer guarantees for any number of threads, any timeouts and any *)
(* number of calls.                                                        *)
(***************************************************************************)
EXTENDS IoTimer, TLAPS

-----------------------------------------------------------------------------
(* Types.                                                                  *)

LEMMA TimeoutFacts ==
  /\ Timeouts \subseteq Nat
  /\ SomeTimeout \in Timeouts
  /\ MaxCalls \in Nat
  BY TimerAssumption DEF SomeTimeout

LEMMA InitType == Init => TypeOK
<1> SUFFICES ASSUME Init PROVE TypeOK
  OBVIOUS
<1>1. /\ thread = [c \in Threads |-> "out"]
      /\ timeout = [c \in Threads |-> SomeTimeout]
      /\ repeat \in BOOLEAN /\ running = FALSE /\ left = 0
      /\ waits = <<>> /\ queued = <<>>
      /\ calls = MaxCalls /\ credit = 0 /\ served = TRUE
  BY Zenon DEF Init
<1>2. thread \in [Threads -> {"out", "handler", "test", "expires", "wait"}]
  BY <1>1
<1>3. timeout \in [Threads -> Timeouts]
  BY <1>1, TimeoutFacts
<1>4. left \in Nat /\ \E t \in Timeouts : left <= t
  <2>1. SomeTimeout \in Timeouts /\ left <= SomeTimeout
    BY <1>1, TimeoutFacts
  <2> QED
    BY <1>1, <2>1
<1>5. waits \in Seq(Timeouts) /\ queued \in Seq(Timeouts)
  BY <1>1
<1>6. {repeat, running} \subseteq BOOLEAN /\ served \in BOOLEAN
  BY <1>1, Zenon
<1>7. calls \in 0 .. MaxCalls /\ credit \in Nat
  BY <1>1, TimeoutFacts
<1> QED
  BY <1>2, <1>3, <1>4, <1>5, <1>6, <1>7, Zenon DEF TypeOK

\* A thread that moves on stays within start or its completion, and the others
\* are where they were.
LEMMA GoesFacts ==
  ASSUME TypeOK, NEW c \in Threads,
         NEW to \in {"out", "handler", "test", "expires", "wait"}, Goes(c, to)
  PROVE  /\ thread' \in [Threads -> {"out", "handler", "test", "expires", "wait"}]
         /\ thread'[c] = to
         /\ \A d \in Threads : d # c => thread'[d] = thread[d]
<1>1. thread \in [Threads -> {"out", "handler", "test", "expires", "wait"}]
  BY Zenon DEF TypeOK
<1> QED
  BY <1>1 DEF Goes

\* Sequences of timeouts.
LEMMA Lengths ==
  \A s, u \in Seq(Timeouts) :
    /\ Len(s) \in Nat
    /\ s \o u \in Seq(Timeouts) /\ Len(s \o u) = Len(s) + Len(u)
    /\ \A t \in Timeouts : Append(s, t) \in Seq(Timeouts) /\ Len(Append(s, t)) = Len(s) + 1
    /\ s # <<>> => /\ Len(s) > 0 /\ Head(s) \in Timeouts
                   /\ Tail(s) \in Seq(Timeouts) /\ Len(Tail(s)) = Len(s) - 1
  OBVIOUS

LEMMA EmptySeq == <<>> \in Seq(Timeouts) /\ Len(<<>>) = 0
  OBVIOUS

-----------------------------------------------------------------------------
(* At most one call for a wait.  The type of credit rests on it.           *)

Inv == TypeOK /\ OneCallPerWait

Answering == IF thread[Io] = "handler" THEN 1 ELSE 0

LEMMA InvFacts ==
  ASSUME Inv
  PROVE  /\ Outstanding = Len(waits) + Len(queued) + Answering
         /\ Answering \in {0, 1} /\ Len(waits) \in Nat /\ Len(queued) \in Nat
         /\ credit \in Nat /\ Outstanding <= credit
<1>1. /\ waits \in Seq(Timeouts) /\ queued \in Seq(Timeouts)
      /\ credit \in Nat /\ Outstanding <= credit
  BY DEF Inv, TypeOK, OneCallPerWait
<1>2. Len(waits) \in Nat /\ Len(queued) \in Nat
  BY <1>1, Lengths
<1> QED
  BY <1>1, <1>2 DEF Outstanding, Answering

\* What of the invariant an action has to show anew.
LEMMA InvPrime ==
  ASSUME Inv, repeat' = repeat, running' \in BOOLEAN, served' \in BOOLEAN,
         left' \in Nat, \E t \in Timeouts : left' <= t,
         waits' \in Seq(Timeouts), queued' \in Seq(Timeouts),
         thread' \in [Threads -> {"out", "handler", "test", "expires", "wait"}],
         timeout' \in [Threads -> Timeouts], calls' \in 0 .. MaxCalls,
         credit' \in Nat, Len(waits') + Len(queued') + Answering' <= credit'
  PROVE  Inv'
<1>1. TypeOK'
  BY Zenon DEF Inv, TypeOK
<1>2. OneCallPerWait'
  BY DEF OneCallPerWait, Outstanding, Answering
<1> QED
  BY <1>1, <1>2 DEF Inv

\* The parts of Inv one by one.
LEMMA TypeFacts ==
  ASSUME Inv
  PROVE  /\ repeat \in BOOLEAN /\ running \in BOOLEAN /\ served \in BOOLEAN
         /\ left \in Nat /\ \E t \in Timeouts : left <= t
         /\ waits \in Seq(Timeouts) /\ queued \in Seq(Timeouts)
         /\ thread \in [Threads -> {"out", "handler", "test", "expires", "wait"}]
         /\ timeout \in [Threads -> Timeouts]
         /\ calls \in 0 .. MaxCalls
  BY Zenon DEF Inv, TypeOK

LEMMA NextInv == Inv /\ [Next]_vars => Inv'
<1> SUFFICES ASSUME Inv, [Next]_vars PROVE Inv'
  OBVIOUS
<1>0. TypeOK
  BY DEF Inv
<1> USE TypeFacts, InvFacts
<1>1. ASSUME NEW c \in Threads, NEW t \in Timeouts, Start(c, t) PROVE Inv'
  <2>1. /\ repeat' = repeat /\ running' = TRUE /\ left' = left /\ waits' = waits
        /\ queued' = queued /\ credit' = credit /\ served' = FALSE
        /\ calls > 0 /\ calls' = calls - 1
        /\ timeout' = [timeout EXCEPT ![c] = t]
        /\ thread[c] = "out" /\ Goes(c, "test")
    BY <1>1, Zenon DEF Start, asio
  <2>2. /\ thread' \in [Threads -> {"out", "handler", "test", "expires", "wait"}]
        /\ Answering' = Answering
    BY <1>0, <2>1, GoesFacts DEF Answering, Io, Threads
  <2>3. calls' \in 0 .. MaxCalls
    BY <2>1, TimeoutFacts
  <2>4. timeout' \in [Threads -> Timeouts]
    BY <2>1
  <2>5. Len(waits') + Len(queued') + Answering' <= credit'
    BY <2>1, <2>2
  <2> QED
    BY <2>1, <2>2, <2>3, <2>4, <2>5, InvPrime, Zenon
<1>2. ASSUME NEW c \in Threads, StopTimer(c) PROVE Inv'
  <2>1. /\ repeat' = repeat /\ running' = FALSE /\ left' = left /\ waits' = waits
        /\ queued' = queued /\ credit' = credit /\ served' = TRUE
        /\ calls > 0 /\ calls' = calls - 1
        /\ timeout' = timeout /\ thread' = thread
    BY <1>2, Zenon DEF StopTimer, asio
  <2>2. calls' \in 0 .. MaxCalls
    BY <2>1, TimeoutFacts
  <2>3. Len(waits') + Len(queued') + Answering' <= credit'
    BY <2>1 DEF Answering
  <2> QED
    BY <2>1, <2>2, <2>3, InvPrime, Zenon
<1>3. ASSUME NEW c \in Threads, TestRunning(c) PROVE Inv'
  <2>1. /\ repeat' = repeat /\ running' = running /\ left' = left /\ waits' = waits
        /\ queued' = queued /\ credit' = credit /\ served' = served
        /\ calls' = calls /\ timeout' = timeout /\ thread[c] = "test"
        /\ Goes(c, "expires") \/ Goes(c, "out")
    BY <1>3, Zenon DEF TestRunning, asio, history
  <2>2. /\ thread' \in [Threads -> {"out", "handler", "test", "expires", "wait"}]
        /\ Answering' = Answering
    BY <1>0, <2>1, GoesFacts DEF Answering, Io, Threads
  <2>3. Len(waits') + Len(queued') + Answering' <= credit'
    BY <2>1, <2>2
  <2> QED
    BY <2>1, <2>2, <2>3, InvPrime, Zenon
<1>4. ASSUME NEW c \in Threads, ExpiresFromNow(c) PROVE Inv'
  <2>1. /\ repeat' = repeat /\ running' = running /\ left' = timeout[c]
        /\ waits' = <<>> /\ credit' = credit - Len(waits)
        /\ queued' = queued /\ served' = served
        /\ calls' = calls /\ timeout' = timeout
        /\ thread[c] = "expires" /\ Goes(c, "wait")
    BY <1>4, Zenon DEF ExpiresFromNow
  <2>2. /\ thread' \in [Threads -> {"out", "handler", "test", "expires", "wait"}]
        /\ Answering' = Answering
    BY <1>0, <2>1, GoesFacts DEF Answering, Io, Threads
  <2>3. timeout[c] \in Timeouts /\ timeout[c] \in Nat
    BY TimeoutFacts
  <2>4. left' \in Nat /\ \E t \in Timeouts : left' <= t
    <3>1. left' = timeout[c] /\ left' <= timeout[c]
      BY <2>1, <2>3
    <3> QED
      BY <2>3, <3>1, Zenon
  <2>5. /\ waits' \in Seq(Timeouts) /\ credit' \in Nat
        /\ Len(waits') + Len(queued') + Answering' <= credit'
    BY <2>1, <2>2, EmptySeq
  <2> QED
    BY <2>1, <2>2, <2>4, <2>5, InvPrime, Zenon
<1>5. ASSUME NEW c \in Threads, AsyncWait(c) PROVE Inv'
  <2>1. /\ repeat' = repeat /\ running' = running /\ left' = left
        /\ waits' = Append(waits, timeout[c]) /\ credit' = credit + 1
        /\ queued' = queued /\ served' = served
        /\ calls' = calls /\ timeout' = timeout
        /\ thread[c] = "wait" /\ Goes(c, "out")
    BY <1>5, Zenon DEF AsyncWait
  <2>2. /\ thread' \in [Threads -> {"out", "handler", "test", "expires", "wait"}]
        /\ Answering' = Answering
    BY <1>0, <2>1, GoesFacts DEF Answering, Io, Threads
  <2>3. waits' \in Seq(Timeouts) /\ Len(waits') = Len(waits) + 1
    BY <2>1, Lengths
  <2>4. credit' \in Nat /\ Len(waits') + Len(queued') + Answering' <= credit'
    BY <2>1, <2>2, <2>3
  <2> QED
    BY <2>1, <2>2, <2>3, <2>4, InvPrime, Zenon
<1>6. CASE Tick
  <2>1. /\ repeat' = repeat /\ running' = running /\ left > 0 /\ left' = left - 1
        /\ waits' = waits /\ credit' = credit /\ queued' = queued /\ served' = served
        /\ calls' = calls /\ timeout' = timeout /\ thread' = thread
    BY <1>6, Zenon DEF Tick, history
  <2>2. left' \in Nat /\ \E t \in Timeouts : left' <= t
    <3>1. PICK t \in Timeouts : left <= t
      OBVIOUS
    <3> QED
      BY <2>1, <3>1, TimeoutFacts
  <2>3. Len(waits') + Len(queued') + Answering' <= credit'
    BY <2>1 DEF Answering
  <2> QED
    BY <2>1, <2>2, <2>3, InvPrime, Zenon
<1>7. CASE Expire
  <2>1. /\ repeat' = repeat /\ running' = running /\ left' = left
        /\ queued' = queued \o waits /\ waits' = <<>> /\ credit' = credit
        /\ served' = served /\ calls' = calls /\ timeout' = timeout /\ thread' = thread
    BY <1>7, Zenon DEF Expire, history
  <2>2. /\ queued' \in Seq(Timeouts) /\ Len(queued') = Len(queued) + Len(waits)
        /\ waits' \in Seq(Timeouts) /\ Len(waits') = 0
    BY <2>1, Lengths, EmptySeq
  <2>3. Len(waits') + Len(queued') + Answering' <= credit'
    BY <2>1, <2>2 DEF Answering
  <2> QED
    BY <2>1, <2>2, <2>3, InvPrime, Zenon
<1>8. CASE Complete
  <2>1. /\ repeat' = repeat /\ running' = running /\ left' = left /\ waits' = waits
        /\ queued # <<>> /\ queued' = Tail(queued) /\ credit' = credit
        /\ served' = served /\ calls' = calls
        /\ timeout' = [timeout EXCEPT ![Io] = Head(queued)]
        /\ thread[Io] = "out" /\ (Goes(Io, "handler") \/ Goes(Io, "out"))
    BY <1>8, Zenon DEF Complete, history
  <2>2. thread' \in [Threads -> {"out", "handler", "test", "expires", "wait"}]
    BY <1>0, <2>1, GoesFacts DEF Io, Threads
  <2>3. queued' \in Seq(Timeouts) /\ Len(queued') = Len(queued) - 1
        /\ Head(queued) \in Timeouts
    BY <2>1, Lengths
  <2>4. timeout' \in [Threads -> Timeouts]
    BY <2>1, <2>3
  <2>5. Answering' \in {0, 1} /\ Answering = 0
    BY <2>1 DEF Answering
  <2>6. Len(waits') + Len(queued') + Answering' <= credit'
    BY <2>1, <2>3, <2>5
  <2> QED
    BY <2>1, <2>2, <2>3, <2>4, <2>6, InvPrime, Zenon
<1>9. CASE CallHandler
  <2>1. /\ repeat' = repeat /\ running' = running /\ left' = left /\ waits' = waits
        /\ queued' = queued /\ credit' = credit - 1
        /\ served' = TRUE /\ calls' = calls /\ timeout' = timeout
        /\ thread[Io] = "handler" /\ (Goes(Io, "test") \/ Goes(Io, "out"))
    BY <1>9, Zenon DEF CallHandler, asio
  <2>2. /\ thread' \in [Threads -> {"out", "handler", "test", "expires", "wait"}]
        /\ Answering' = 0 /\ Answering = 1
    BY <1>0, <2>1, GoesFacts DEF Answering, Io, Threads
  <2>3. credit' \in Nat /\ Len(waits') + Len(queued') + Answering' <= credit'
    BY <2>1, <2>2
  <2> QED
    BY <2>1, <2>2, <2>3, InvPrime, Zenon
<1>10. CASE UNCHANGED vars
  <2>1. /\ repeat' = repeat /\ running' = running /\ left' = left /\ waits' = waits
        /\ queued' = queued /\ credit' = credit /\ served' = served
        /\ calls' = calls /\ timeout' = timeout /\ thread' = thread
    BY <1>10, Zenon DEF vars
  <2>2. Len(waits') + Len(queued') + Answering' <= credit'
    BY <2>1 DEF Answering
  <2> QED
    BY <2>1, <2>2, InvPrime, Zenon
<1>11. Io \in Threads /\ \A c \in Callers : c \in Threads
  BY DEF Threads
<1> QED
  BY <1>11, <1>1, <1>2, <1>3, <1>4, <1>5, <1>6, <1>7, <1>8, <1>9, <1>10,
     Zenon DEF Next, IoStep, DoSetExpired

LEMMA InvInit == Init => Inv
<1> SUFFICES ASSUME Init PROVE OneCallPerWait
  BY InitType DEF Inv
<1>1. waits = <<>> /\ queued = <<>> /\ credit = 0 /\ thread = [c \in Threads |-> "out"]
  BY Zenon DEF Init
<1>2. thread[Io] = "out"
  BY <1>1 DEF Threads
<1> QED
  BY <1>1, <1>2 DEF OneCallPerWait, Outstanding

\* Types, and at most one call of the handler for a wait that was not cancelled.
THEOREM OneCall == Spec => [](TypeOK /\ OneCallPerWait)
<1>1. Inv => TypeOK /\ OneCallPerWait
  BY DEF Inv
<1> QED
  BY <1>1, InvInit, NextInv, PTL DEF Spec

\* The types alone.
THEOREM TimerTypes == Spec => []TypeOK
  BY OneCall, PTL

-----------------------------------------------------------------------------
(* A timer that is due to call has its call under way.                     *)

Setting(c) == thread[c] \in {"test", "expires", "wait"}

\* A call is under way when a wait is pending or queued, or the handler runs.
LEMMA UnderWay ==
  ASSUME Inv
  PROVE  Outstanding > 0 <=> waits # <<>> \/ queued # <<>> \/ thread[Io] = "handler"
<1>1. waits \in Seq(Timeouts) /\ queued \in Seq(Timeouts)
  BY TypeFacts
<1>2. /\ Len(waits) = 0 <=> waits = <<>>
      /\ Len(queued) = 0 <=> queued = <<>>
  BY <1>1
<1> QED
  BY <1>2, InvFacts DEF Answering

\* The same in words of the sequences.
Chain ==
  running /\ (repeat \/ ~served)
    => waits # <<>> \/ queued # <<>> \/ thread[Io] = "handler"
       \/ \E c \in Threads : Setting(c)

LEMMA NextChain == Inv /\ Chain /\ [Next]_vars => Chain'
<1> SUFFICES ASSUME Inv, Chain, [Next]_vars PROVE Chain'
  OBVIOUS
<1>0. TypeOK
  BY DEF Inv
<1> USE TypeFacts
<1>1. ASSUME NEW c \in Threads, NEW t \in Timeouts, Start(c, t) PROVE Chain'
  <2>1. thread'[c] = "test"
    BY <1>0, <1>1, GoesFacts DEF Start
  <2> QED
    BY <2>1, Zenon DEF Chain, Setting
<1>2. ASSUME NEW c \in Threads, StopTimer(c) PROVE Chain'
  BY <1>2, Zenon DEF StopTimer, Chain
<1>3. ASSUME NEW c \in Threads, TestRunning(c) PROVE Chain'
  <2>1. running' = running /\ Goes(c, IF running THEN "expires" ELSE "out")
    BY <1>3, Zenon DEF TestRunning
  <2>2. CASE running
    <3>1. thread'[c] = "expires"
      BY <1>0, <2>1, <2>2, GoesFacts
    <3> QED
      BY <3>1, Zenon DEF Chain, Setting
  <2> QED
    BY <2>1, <2>2, Zenon DEF Chain
<1>4. ASSUME NEW c \in Threads, ExpiresFromNow(c) PROVE Chain'
  <2>1. thread'[c] = "wait"
    BY <1>0, <1>4, GoesFacts DEF ExpiresFromNow
  <2> QED
    BY <2>1, Zenon DEF Chain, Setting
<1>5. ASSUME NEW c \in Threads, AsyncWait(c) PROVE Chain'
  <2>1. waits' = Append(waits, timeout[c])
    BY <1>5, Zenon DEF AsyncWait
  <2>2. waits' # <<>>
    BY <2>1
  <2> QED
    BY <2>2, Zenon DEF Chain
<1>6. CASE Tick
  <2>1. /\ repeat' = repeat /\ running' = running /\ waits' = waits
        /\ queued' = queued /\ served' = served /\ thread' = thread
    BY <1>6, Zenon DEF Tick, history
  <2> QED
    BY <2>1, Zenon DEF Chain, Setting
<1>7. CASE Expire
  <2>1. queued' = queued \o waits /\ waits # <<>>
    BY <1>7, Zenon DEF Expire
  <2>2. queued' # <<>>
    BY <2>1
  <2> QED
    BY <2>2, Zenon DEF Chain
<1>8. CASE Complete
  <2>1. running' = running /\ Goes(Io, IF running THEN "handler" ELSE "out")
    BY <1>8, Zenon DEF Complete
  <2>2. CASE running
    <3>1. thread'[Io] = "handler"
      BY <1>0, <2>1, <2>2, GoesFacts DEF Threads
    <3> QED
      BY <3>1, Zenon DEF Chain
  <2> QED
    BY <2>1, <2>2, Zenon DEF Chain
<1>9. CASE CallHandler
  <2>1. /\ repeat' = repeat /\ served' = TRUE
        /\ Goes(Io, IF repeat THEN "test" ELSE "out")
    BY <1>9, Zenon DEF CallHandler
  <2>2. CASE repeat
    <3>1. thread'[Io] = "test" /\ Io \in Threads
      BY <1>0, <2>1, <2>2, GoesFacts DEF Threads
    <3> QED
      BY <3>1, Zenon DEF Chain, Setting
  <2> QED
    BY <2>1, <2>2, Zenon DEF Chain
<1>10. CASE UNCHANGED vars
  <2>1. /\ repeat' = repeat /\ running' = running /\ waits' = waits
        /\ queued' = queued /\ served' = served /\ thread' = thread
    BY <1>10, Zenon DEF vars
  <2> QED
    BY <2>1, Zenon DEF Chain, Setting
<1>11. Io \in Threads /\ \A c \in Callers : c \in Threads
  BY DEF Threads
<1> QED
  BY <1>11, <1>1, <1>2, <1>3, <1>4, <1>5, <1>6, <1>7, <1>8, <1>9, <1>10,
     Zenon DEF Next, IoStep, DoSetExpired

\* A started timer, or a repeated one that runs, never loses its next call.
THEOREM NextCallUnderWay == Spec => []ChainAlive
<1>1. Init => Inv /\ Chain
  BY InvInit DEF Init, Chain
<1>2. Inv /\ Chain => ChainAlive
  BY UnderWay, Zenon DEF Chain, ChainAlive, Setting
<1> QED
  BY <1>1, <1>2, NextInv, NextChain, PTL DEF Spec
=============================================================================
