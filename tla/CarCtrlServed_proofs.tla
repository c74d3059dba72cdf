------------------------- MODULE CarCtrlServed_proofs -------------------------
(***************************************************************************)
(* What the controller keeps for the client of one connection, whose       *)
(* requests are served one at a time: the wheels, the duties and the       *)
(* steering obey the request served last, for any requests, levels and     *)
(* timers, and however the speed thread and the callbacks of the timers    *)
(* interleave with a handler, write by write.  The callbacks run on a      *)
(* thread of their own or, on a board with few cores, on the one that      *)
(* serves the connection.                                                  *)
(*                                                                         *)
(* The argument is the same three times.  Of every handler it is shown     *)
(* which values it writes to which motor or pin, and whether it writes all *)
(* of them; a callback only stops and straightens.  In between, a value    *)
(* that is not there yet is still to be written by some thread (Settles).  *)
(*                                                                         *)
(* The last part is about the two timers: a timed run and a timed turn     *)
(* have their end under way (UnderWay), or what it brings about is there   *)
(* or still to be written.                                                 *)
(***************************************************************************)
EXTENDS CarCtrl_proofs

\* One connection is open: one thread serves it.
OneConnection == \E t \in Threads : Servers = {t}
Conn == CHOOSE t \in Threads : Servers = {t}

\* No write of the sequence is of this kind; those that are write a value of F at
\* their place; and there is one for every place of S.
None(s, k) == \A i \in DOMAIN s : s[i].do # k
Only(s, k, F) == \A i \in DOMAIN s : s[i].do = k => s[i].val \in F[s[i].at]
Writing(s, k, x) == \E i \in DOMAIN s : s[i].do = k /\ s[i].at = x
Covers(s, k, S) == \A x \in S : Writing(s, k, x)

\* When what the threads have left in td is done, every place of S has a value of F.
Settles(td, k, S, now, F) ==
  /\ \A t \in Threads : Only(td[t], k, F)
  /\ \A x \in S : now[x] \in F[x] \/ \E t \in Threads : Writing(td[t], k, x)

-----------------------------------------------------------------------------
(* Sequences of writes.                                                    *)

LEMMA JoinedElements ==
  ASSUME NEW s \in Seq(Writes), NEW u \in Seq(Writes)
  PROVE  /\ \A i \in DOMAIN (s \o u) :
              \/ i \in DOMAIN s /\ (s \o u)[i] = s[i]
              \/ i - Len(s) \in DOMAIN u /\ (s \o u)[i] = u[i - Len(s)]
         /\ \A i \in DOMAIN s : i \in DOMAIN (s \o u) /\ (s \o u)[i] = s[i]
         /\ \A i \in DOMAIN u : i + Len(s) \in DOMAIN (s \o u)
                                /\ (s \o u)[i + Len(s)] = u[i]
  OBVIOUS

LEMMA JoinNone ==
  ASSUME NEW s \in Seq(Writes), NEW u \in Seq(Writes), NEW k, None(s, k), None(u, k)
  PROVE  None(s \o u, k)
<1>1. \A i \in DOMAIN (s \o u) :
         \/ i \in DOMAIN s /\ (s \o u)[i] = s[i]
         \/ i - Len(s) \in DOMAIN u /\ (s \o u)[i] = u[i - Len(s)]
  BY JoinedElements
<1> QED
  BY <1>1, Zenon DEF None

LEMMA JoinOnly ==
  ASSUME NEW s \in Seq(Writes), NEW u \in Seq(Writes), NEW k, NEW F,
         Only(s, k, F), Only(u, k, F)
  PROVE  Only(s \o u, k, F)
<1>1. \A i \in DOMAIN (s \o u) :
         \/ i \in DOMAIN s /\ (s \o u)[i] = s[i]
         \/ i - Len(s) \in DOMAIN u /\ (s \o u)[i] = u[i - Len(s)]
  BY JoinedElements
<1> QED
  BY <1>1, Zenon DEF Only

LEMMA JoinWriting ==
  ASSUME NEW s \in Seq(Writes), NEW u \in Seq(Writes), NEW k, NEW x,
         Writing(s, k, x) \/ Writing(u, k, x)
  PROVE  Writing(s \o u, k, x)
<1>1. /\ \A i \in DOMAIN s : i \in DOMAIN (s \o u) /\ (s \o u)[i] = s[i]
      /\ \A i \in DOMAIN u : i + Len(s) \in DOMAIN (s \o u)
                             /\ (s \o u)[i + Len(s)] = u[i]
  BY JoinedElements
<1> QED
  BY <1>1, Zenon DEF Writing

LEMMA JoinCovers ==
  ASSUME NEW s \in Seq(Writes), NEW u \in Seq(Writes), NEW k, NEW S,
         Covers(s, k, S) \/ Covers(u, k, S)
  PROVE  Covers(s \o u, k, S)
  BY JoinWriting, Zenon DEF Covers

LEMMA NoneOnly == ASSUME NEW s, NEW k, NEW F, None(s, k) PROVE Only(s, k, F)
  BY DEF None, Only

LEMMA EmptyNone == \A k : None(<<>>, k)
  BY DEF None

LEMMA OneNone == ASSUME NEW w \in Writes, NEW k, w.do # k PROVE None(<<w>>, k)
  BY DEF None

\* The next write of a thread is done.
LEMMA Popped ==
  ASSUME NEW s \in Seq(Writes), s # <<>>, NEW k, NEW S, NEW now, NEW next, NEW F,
         Only(s, k, F),
         \A x \in S : next[x] = IF Head(s).do = k /\ Head(s).at = x THEN Head(s).val
                                                                   ELSE now[x]
  PROVE  /\ Only(Tail(s), k, F)
         /\ \A x \in S : /\ now[x] \in F[x] => next[x] \in F[x]
                         /\ Writing(s, k, x) => next[x] \in F[x] \/ Writing(Tail(s), k, x)
<1>1. /\ Head(s) = s[1] /\ 1 \in DOMAIN s
      /\ \A i \in DOMAIN Tail(s) : i + 1 \in DOMAIN s /\ Tail(s)[i] = s[i + 1]
      /\ \A i \in DOMAIN s : i # 1 => i - 1 \in DOMAIN Tail(s) /\ Tail(s)[i - 1] = s[i]
  OBVIOUS
<1>2. Only(Tail(s), k, F)
  <2>1. ASSUME NEW i \in DOMAIN Tail(s), Tail(s)[i].do = k
        PROVE  Tail(s)[i].val \in F[Tail(s)[i].at]
    <3>1. i + 1 \in DOMAIN s /\ Tail(s)[i] = s[i + 1]
      BY <1>1
    <3> QED
      BY <2>1, <3>1, Zenon DEF Only
  <2> QED
    BY <2>1, Zenon DEF Only
<1>3. ASSUME NEW x \in S
      PROVE  /\ now[x] \in F[x] => next[x] \in F[x]
             /\ Writing(s, k, x) => next[x] \in F[x] \/ Writing(Tail(s), k, x)
  <2>1. CASE s[1].do = k /\ s[1].at = x
    <3>1. next[x] = s[1].val
      BY <1>1, <2>1, Zenon
    <3>2. s[1].val \in F[x]
      BY <1>1, <2>1, Zenon DEF Only
    <3> QED
      BY <3>1, <3>2
  <2>2. CASE ~(s[1].do = k /\ s[1].at = x)
    <3>1. next[x] = now[x]
      BY <1>1, <2>2, Zenon
    <3>2. ASSUME Writing(s, k, x) PROVE Writing(Tail(s), k, x)
      <4>1. PICK i \in DOMAIN s : s[i].do = k /\ s[i].at = x
        BY <3>2, Zenon DEF Writing
      <4>2. i # 1
        BY <2>2, <4>1
      <4>3. i - 1 \in DOMAIN Tail(s) /\ Tail(s)[i - 1] = s[i]
        BY <1>1, <4>2
      <4> QED
        BY <4>1, <4>3, Zenon DEF Writing
    <3> QED
      BY <3>1, <3>2, Zenon
  <2> QED
    BY <2>1, <2>2, Zenon
<1> QED
  BY <1>2, <1>3, Zenon

\* A thread that had nothing left begins s.
LEMMA Begun ==
  ASSUME NEW td \in [Threads -> Seq(Writes)], NEW t \in Threads, td[t] = <<>>, NEW s,
         NEW k, NEW S, NEW now, NEW F, Settles(td, k, S, now, F), Only(s, k, F)
  PROVE  Settles([td EXCEPT ![t] = s], k, S, now, F)
<1> DEFINE ud == [td EXCEPT ![t] = s]
<1>1. ud[t] = s /\ \A u \in Threads : u # t => ud[u] = td[u]
  OBVIOUS
<1> HIDE DEF ud
<1>2. \A u \in Threads : Only(ud[u], k, F)
  BY <1>1, Zenon DEF Settles
<1>3. \A x : ~Writing(td[t], k, x)
  BY DEF Writing
<1>4. \A x : \A u \in Threads : Writing(td[u], k, x) => Writing(ud[u], k, x)
  BY <1>1, <1>3, Zenon
<1>5. \A x \in S : now[x] \in F[x] \/ \E u \in Threads : Writing(ud[u], k, x)
  BY <1>4, Zenon DEF Settles
<1>6. Settles(ud, k, S, now, F)
  BY <1>2, <1>5, Zenon DEF Settles
<1> QED
  BY <1>6 DEF ud

\* A thread begins s, which writes to every place.
LEMMA Covered ==
  ASSUME NEW td \in [Threads -> Seq(Writes)], NEW t \in Threads, NEW s,
         NEW k, NEW S, NEW now, NEW F,
         \A u \in Threads : u # t => Only(td[u], k, F), Only(s, k, F), Covers(s, k, S)
  PROVE  Settles([td EXCEPT ![t] = s], k, S, now, F)
<1> DEFINE ud == [td EXCEPT ![t] = s]
<1>1. ud[t] = s /\ \A u \in Threads : u # t => ud[u] = td[u]
  OBVIOUS
<1> HIDE DEF ud
<1>2. \A u \in Threads : Only(ud[u], k, F)
  BY <1>1, Zenon
<1>3. \A x \in S : Writing(ud[t], k, x)
  BY <1>1, Zenon DEF Covers
<1>4. Settles(ud, k, S, now, F)
  BY <1>2, <1>3, Zenon DEF Settles
<1> QED
  BY <1>4 DEF ud

\* No thread has anything left.
LEMMA Settled ==
  ASSUME NEW td, \A t \in Threads : td[t] = <<>>,
         NEW k, NEW S, NEW now, NEW F, Settles(td, k, S, now, F)
  PROVE  \A x \in S : now[x] \in F[x]
<1>1. \A x : \A t \in Threads : ~Writing(td[t], k, x)
  BY DEF Writing
<1> QED
  BY <1>1, Zenon DEF Settles

LEMMA AlreadySettled ==
  ASSUME NEW td, NEW k, NEW S, NEW now, NEW F,
         \A t \in Threads : Only(td[t], k, F), \A x \in S : now[x] \in F[x]
  PROVE  Settles(td, k, S, now, F)
  BY Zenon DEF Settles

-----------------------------------------------------------------------------
(* The pieces of the handlers.                                             *)

Kinds == {"state", "ctrl", "reset", "pwm", "mode", "level", "steer", "call"}

LEMMA TimerNone == ASSUME NEW t \in Timers, NEW k \in Kinds PROVE None(StartTimer(t), k)
  BY DEF StartTimer, TimerWrite, None, Kinds

LEMMA AllParts ==
  ASSUME NEW s \in Speed!MotorState
  PROVE  /\ \A k \in Kinds : k # "state" => None(All(s), k)
         /\ \A F : (\A m \in Motors : s \in F[m]) => Only(All(s), "state", F)
         /\ Covers(All(s), "state", Motors)
<1>1. MotorNum \in Nat /\ Motors = 1 .. MotorNum
  BY MotorFacts
<1>2. Len([m \in Motors |-> s]) = MotorNum
  BY <1>1
<1>3. All(s) = [m \in Motors |-> Write("state", m, s)]
  BY <1>1, <1>2 DEF All, States
<1>4. DOMAIN All(s) = Motors
      /\ \A m \in Motors : All(s)[m].do = "state" /\ All(s)[m].at = m /\ All(s)[m].val = s
  BY <1>3 DEF Write
<1> QED
  BY <1>4, Zenon DEF None, Only, Covers, Writing

LEMMA EachMotor ==
  ASSUME NEW k \in Kinds, NEW f, NEW s, s = [m \in Motors |-> Write(k, m, f[m])]
  PROVE  /\ \A j \in Kinds : j # k => None(s, j)
         /\ \A F : (\A m \in Motors : f[m] \in F[m]) => Only(s, k, F)
         /\ Covers(s, k, Motors)
<1>1. DOMAIN s = Motors
      /\ \A m \in Motors : s[m].do = k /\ s[m].at = m /\ s[m].val = f[m]
  BY DEF Write
<1> QED
  BY <1>1, Zenon DEF None, Only, Covers, Writing

LEMMA PairParts ==
  ASSUME MotorNum = 2, NEW a \in Speed!MotorState, NEW b \in Speed!MotorState
  PROVE  /\ \A k \in Kinds : k # "state" => None(States(<<a, b>>), k)
         /\ \A F : a \in F[1] /\ b \in F[2] => Only(States(<<a, b>>), "state", F)
         /\ Covers(States(<<a, b>>), "state", Motors)
<1> DEFINE f == [m \in Motors |-> IF m = 1 THEN a ELSE b]
<1>1. States(<<a, b>>) = [m \in Motors |-> Write("state", m, f[m])]
  BY MotorFacts DEF States
<1>2. \A F : a \in F[1] /\ b \in F[2] => \A m \in Motors : f[m] \in F[m]
  BY MotorFacts
<1> HIDE DEF f
<1> QED
  BY <1>1, <1>2, EachMotor DEF Kinds

LEMMA FourParts ==
  ASSUME MotorNum = 4, NEW a \in Speed!MotorState, NEW b \in Speed!MotorState,
         NEW c \in Speed!MotorState, NEW d \in Speed!MotorState
  PROVE  /\ \A k \in Kinds : k # "state" => None(States(<<a, b, c, d>>), k)
         /\ \A F : (a \in F[1] /\ b \in F[2] /\ c \in F[3] /\ d \in F[4])
                     => Only(States(<<a, b, c, d>>), "state", F)
         /\ Covers(States(<<a, b, c, d>>), "state", Motors)
<1> DEFINE f == [m \in Motors |-> IF m = 1 THEN a ELSE IF m = 2 THEN b ELSE
                                  IF m = 3 THEN c ELSE d]
<1>1. States(<<a, b, c, d>>) = [m \in Motors |-> Write("state", m, f[m])]
  BY MotorFacts DEF States
<1>2. \A F : (a \in F[1] /\ b \in F[2] /\ c \in F[3] /\ d \in F[4])
               => \A m \in Motors : f[m] \in F[m]
  BY MotorFacts
<1> HIDE DEF f
<1> QED
  BY <1>1, <1>2, EachMotor DEF Kinds

\* The pins of the steering: where a turn points.
Point(f) == [p \in {0, 1} |-> {f[p]}]
Heading(dir) == IF dir > 0 THEN Left ELSE IF dir < 0 THEN Right ELSE Straight

LEMMA TurnParts ==
  ASSUME NEW dir \in Int, NEW time
  PROVE  /\ \A k \in Kinds : k # "steer" => None(Turn(dir, time), k)
         /\ Only(Turn(dir, time), "steer", Point(Heading(dir)))
         /\ HasSteer => Covers(Turn(dir, time), "steer", {0, 1})
<1> DEFINE pins == <<Write("steer", 0, IF dir < 0 THEN 1 ELSE 0),
                     Write("steer", 1, IF dir > 0 THEN 1 ELSE 0)>>
           timer == CASE dir = 0 -> <<TimerWrite("off", "steer")>>
                      [] dir # 0 /\ time > 0 -> StartTimer("steer")
                      [] OTHER -> <<>>
<1>1. pins \in Seq(Writes) /\ timer \in Seq(Writes)
  <2>1. TimerWrite("off", "steer") \in Writes /\ "steer" \in Timers
    BY WriteFacts DEF Timers
  <2>2. timer \in Seq(Writes)
    BY <2>1, OneWrite, TimerWrites, NoWrite
  <2>3. pins \in Seq(Writes)
    BY WriteFacts
  <2> QED
    BY <2>2, <2>3
<1>2. \A k \in Kinds : None(timer, k)
  <2>1. \A k \in Kinds : None(<<TimerWrite("off", "steer")>>, k)
    BY DEF None, TimerWrite, Kinds
  <2>2. "steer" \in Timers
    BY DEF Timers
  <2> QED
    BY <2>1, <2>2, TimerNone, EmptyNone
<1>3. /\ \A k \in Kinds : k # "steer" => None(pins, k)
      /\ Only(pins, "steer", Point(Heading(dir)))
      /\ Covers(pins, "steer", {0, 1})
  <2>1. DOMAIN pins = {1, 2}
    OBVIOUS
  <2>2. /\ pins[1].do = "steer" /\ pins[1].at = 0 /\ pins[1].val = IF dir < 0 THEN 1 ELSE 0
        /\ pins[2].do = "steer" /\ pins[2].at = 1 /\ pins[2].val = IF dir > 0 THEN 1 ELSE 0
    BY DEF Write
  <2>3. /\ Heading(dir)[0] = IF dir < 0 THEN 1 ELSE 0
        /\ Heading(dir)[1] = IF dir > 0 THEN 1 ELSE 0
    BY DEF Heading, Left, Right, Straight
  <2>4. Point(Heading(dir))[0] = {Heading(dir)[0]} /\ Point(Heading(dir))[1] = {Heading(dir)[1]}
    BY DEF Point
  <2> HIDE DEF pins
  <2>5. \A k \in Kinds : k # "steer" => None(pins, k)
    BY <2>1, <2>2 DEF None
  <2>6. Only(pins, "steer", Point(Heading(dir)))
    BY <2>1, <2>2, <2>3, <2>4 DEF Only
  <2>7. Covers(pins, "steer", {0, 1})
    BY <2>1, <2>2 DEF Covers, Writing
  <2> QED
    BY <2>5, <2>6, <2>7
<1>4. Turn(dir, time) = IF ~HasSteer THEN <<>> ELSE pins \o timer
  BY DEF Turn
<1> HIDE DEF pins, timer
<1>5. "steer" \in Kinds
  BY DEF Kinds
<1>6. \A k \in Kinds : k # "steer" => None(pins \o timer, k)
  BY <1>1, <1>2, <1>3, JoinNone
<1>7. Only(pins \o timer, "steer", Point(Heading(dir)))
  BY <1>1, <1>2, <1>3, <1>5, NoneOnly, JoinOnly
<1>8. Covers(pins \o timer, "steer", {0, 1})
  BY <1>1, <1>3, JoinCovers
<1>9. \A k : None(<<>>, k) /\ Only(<<>>, k, Point(Heading(dir)))
  BY EmptyNone, NoneOnly
<1> QED
  BY <1>4, <1>6, <1>7, <1>8, <1>9

LEMMA ModeParts == \A c, k : k # "mode" => None(<<Write("mode", 0, c)>>, k)
  BY DEF None, Write

-----------------------------------------------------------------------------
(* The handlers.                                                           *)

LEMMA StopParts ==
  ASSUME NEW s \in Int
  PROVE  LET w == SetAllMotorState(s) IN
         /\ \A k \in Kinds : k \notin {"state", "steer"} => None(w, k)
         /\ \A F : (\A m \in Motors : Sign(s) \in F[m]) => Only(w, "state", F)
         /\ Covers(w, "state", Motors)
         /\ s # 0 => None(w, "steer")
         /\ s = 0 => Only(w, "steer", Point(Straight))
         /\ s = 0 /\ HasSteer => Covers(w, "steer", {0, 1})
<1> DEFINE a == All(Sign(s))
           u == IF s = 0 THEN Turn(0, 0) ELSE <<>>
<1>1. /\ a \in Seq(Writes) /\ u \in Seq(Writes)
      /\ SetAllMotorState(s) = a \o u
  BY SignType, AllWrites, TurnWrites, NoWrite DEF SetAllMotorState
<1>2. /\ \A k \in Kinds : k # "state" => None(a, k)
      /\ \A F : (\A m \in Motors : Sign(s) \in F[m]) => Only(a, "state", F)
      /\ Covers(a, "state", Motors)
  BY SignType, AllParts
<1>3. Heading(0) = Straight
  BY DEF Heading
<1>4. /\ \A k \in Kinds : k # "steer" => None(Turn(0, 0), k)
      /\ Only(Turn(0, 0), "steer", Point(Straight))
      /\ HasSteer => Covers(Turn(0, 0), "steer", {0, 1})
  BY <1>3, TurnParts
<1>5. /\ \A k \in Kinds : k # "steer" => None(u, k)
      /\ s # 0 => None(u, "steer")
      /\ s = 0 => Only(u, "steer", Point(Straight))
      /\ s = 0 /\ HasSteer => Covers(u, "steer", {0, 1})
  BY <1>4, EmptyNone
<1> HIDE DEF a, u
<1>6. "state" \in Kinds /\ "steer" \in Kinds
  BY DEF Kinds
<1>7. \A k \in Kinds : k \notin {"state", "steer"} => None(a \o u, k)
  BY <1>1, <1>2, <1>5, JoinNone
<1>8. ASSUME NEW F, \A m \in Motors : Sign(s) \in F[m] PROVE Only(a \o u, "state", F)
  BY <1>1, <1>2, <1>5, <1>6, <1>8, NoneOnly, JoinOnly
<1>9. Covers(a \o u, "state", Motors)
  BY <1>1, <1>2, JoinCovers
<1>10. s # 0 => None(a \o u, "steer")
  BY <1>1, <1>2, <1>5, <1>6, JoinNone
<1>11. s = 0 => Only(a \o u, "steer", Point(Straight))
  BY <1>1, <1>2, <1>5, <1>6, NoneOnly, JoinOnly
<1>12. s = 0 /\ HasSteer => Covers(a \o u, "steer", {0, 1})
  BY <1>1, <1>5, JoinCovers
<1> QED
  BY <1>1, <1>7, <1>8, <1>9, <1>10, <1>11, <1>12

LEMMA RunTimeParts ==
  ASSUME NEW time \in Int
  PROVE  LET w == SetRunTime(time)
             d == IF time > 0 THEN Forward ELSE Back IN
         /\ \A k \in {"pwm", "level", "steer", "call"} : None(w, k)
         /\ \A F : (\A m \in Motors : d \in F[m]) => Only(w, "state", F)
         /\ Covers(w, "state", Motors)
<1> DEFINE d == IF time > 0 THEN Forward ELSE Back
           n == IF time > 0 THEN 1 ELSE -1
           a == <<Write("mode", 0, Speed!TimeMode)>>
           b == [m \in Motors |-> Write("reset", m, 0)]
           c == SetAllMotorState(n)
           e == StartTimer("run")
<1>1. /\ n \in Int /\ n # 0 /\ Sign(n) = d /\ "run" \in Timers
      /\ {"pwm", "level", "steer", "call", "state"} \subseteq Kinds \ {"mode", "reset"}
  BY DEF Sign, Timers, Kinds
<1>2. /\ a \in Seq(Writes) /\ b \in Seq(Writes) /\ c \in Seq(Writes) /\ e \in Seq(Writes)
      /\ SetRunTime(time) = ((a \o b) \o c) \o e
  <2>1. b \in Seq(Writes)
    BY WriteFacts, MotorWrites
  <2>2. SetRunTime(time) = ((a \o b) \o c) \o e
    BY DEF SetRunTime
  <2> QED
    BY <2>1, <2>2, <1>1, ModeWrite, StopWrites, TimerWrites
<1>3. \A k \in Kinds \ {"mode", "reset"} : None(a, k) /\ None(b, k) /\ None(e, k)
  <2>1. \A k \in Kinds : k # "reset" => None(b, k)
    BY DEF None, Write
  <2> QED
    BY <2>1, <1>1, ModeParts, TimerNone
<1>4. /\ \A k \in Kinds : k \notin {"state", "steer"} => None(c, k)
      /\ \A F : (\A m \in Motors : d \in F[m]) => Only(c, "state", F)
      /\ Covers(c, "state", Motors)
      /\ None(c, "steer")
  BY <1>1, StopParts
<1> HIDE DEF a, b, c, d, e
<1>5. a \o b \in Seq(Writes) /\ (a \o b) \o c \in Seq(Writes)
  BY <1>2, Then
<1>6. \A k \in Kinds \ {"mode", "reset"} : None(a \o b, k)
  BY <1>2, <1>3, JoinNone
<1>7. ASSUME NEW k \in {"pwm", "level", "steer", "call"} PROVE None(((a \o b) \o c) \o e, k)
  <2>1. None(c, k) /\ k \in Kinds \ {"mode", "reset"}
    BY <1>1, <1>4
  <2>2. None((a \o b) \o c, k)
    BY <2>1, <1>2, <1>5, <1>6, JoinNone
  <2> QED
    BY <2>1, <2>2, <1>2, <1>3, <1>5, JoinNone
<1>8. ASSUME NEW F, \A m \in Motors : d \in F[m]
      PROVE  Only(((a \o b) \o c) \o e, "state", F)
  <2>1. Only(c, "state", F)
    BY <1>4, <1>8
  <2>2. Only(a \o b, "state", F) /\ Only(e, "state", F)
    BY <1>1, <1>3, <1>6, NoneOnly
  <2>3. Only((a \o b) \o c, "state", F)
    BY <2>1, <2>2, <1>2, <1>5, JoinOnly
  <2> QED
    BY <2>2, <2>3, <1>2, <1>5, JoinOnly
<1>9. Covers((a \o b) \o c, "state", Motors)
  BY <1>2, <1>4, <1>5, JoinCovers
<1>10. Covers(((a \o b) \o c) \o e, "state", Motors)
  BY <1>2, <1>5, <1>9, JoinCovers
<1> QED
  BY <1>2, <1>7, <1>8, <1>10 DEF d

LEMMA LevelParts ==
  ASSUME NEW l \in Int
  PROVE  LET w == SetMotorSpeedLevel(l) IN
         /\ \A k \in {"state", "steer", "call"} : None(w, k)
         /\ l \notin 1 .. 9 => w = <<>>
         /\ l \in 1 .. 9 =>
              /\ l \in DOMAIN PwmVect
              /\ Only(w, "level", [x \in {0} |-> {l}]) /\ Covers(w, "level", {0})
              /\ Only(w, "pwm", [m \in Motors |-> {PwmVect[l][m]}]) /\ Covers(w, "pwm", Motors)
<1>1. l \notin 1 .. 9 => SetMotorSpeedLevel(l) = <<>>
  BY DEF SetMotorSpeedLevel
<1>2. CASE l \notin 1 .. 9
  BY <1>1, <1>2, EmptyNone
<1>3. CASE l \in 1 .. 9
  <2> DEFINE a == <<Write("level", 0, l)>>
             f == [m \in Motors |-> PwmVect[l][m]]
             b == [m \in Motors |-> Write("pwm", m, f[m])]
             F == [x \in {0} |-> {l}]
             G == [m \in Motors |-> {PwmVect[l][m]}]
  <2>1. l \in DOMAIN PwmVect /\ PwmVect[l] \in [Motors -> Pwms]
    BY <1>3, CtrlAssumption, MotorFacts
  <2>2. SetMotorSpeedLevel(l) = a \o b
    BY <1>3 DEF SetMotorSpeedLevel
  <2>3. a \in Seq(Writes) /\ b \in Seq(Writes)
    BY <2>1, WriteFacts, MotorWrites
  <2>4. "pwm" \in Kinds /\ "level" \in Kinds /\ {"state", "steer", "call"} \subseteq Kinds
    BY DEF Kinds
  <2>5. /\ \A k \in Kinds : k # "pwm" => None(b, k)
        /\ \A H : (\A m \in Motors : f[m] \in H[m]) => Only(b, "pwm", H)
        /\ Covers(b, "pwm", Motors)
    BY <2>4, EachMotor
  <2>6. Only(b, "pwm", G)
    <3>1. \A m \in Motors : f[m] \in G[m]
      OBVIOUS
    <3> HIDE DEF f, b, G
    <3> QED
      BY <2>5, <3>1, Zenon
  <2>7. /\ \A k : k # "level" => None(a, k)
        /\ Only(a, "level", F)
        /\ Covers(a, "level", {0})
    BY DEF None, Only, Covers, Writing, Write
  <2> HIDE DEF a, b, f, F, G
  <2>8. \A k \in {"state", "steer", "call"} : None(a \o b, k)
    BY <2>3, <2>4, <2>5, <2>7, JoinNone
  <2>9. Only(a \o b, "level", F) /\ Covers(a \o b, "level", {0})
    BY <2>3, <2>4, <2>5, <2>7, NoneOnly, JoinOnly, JoinCovers
  <2>10. Only(a \o b, "pwm", G) /\ Covers(a \o b, "pwm", Motors)
    BY <2>3, <2>4, <2>5, <2>6, <2>7, NoneOnly, JoinOnly, JoinCovers
  <2> QED
    BY <1>3, <2>1, <2>2, <2>8, <2>9, <2>10 DEF F, G
<1> QED
  BY <1>2, <1>3

\* The calls of setCarSteps, and the steps of one call.
LEMMA CarStepsParts == \A dir, n : \A k : k # "call" => None(SetCarSteps(dir, n), k)
  BY EmptyNone DEF SetCarSteps, Call, Write, None

Free(F) == \A m \in Motors : Speed!MotorState \subseteq F[m]

LEMMA RunStepsParts ==
  ASSUME NEW m \in Motors, NEW n
  PROVE  \A i \in 1 .. 3 : /\ RunSteps(m, n)[i].do \in {"reset", "ctrl", "state"}
                           /\ RunSteps(m, n)[i].do = "state" =>
                                RunSteps(m, n)[i].at \in Motors
                                /\ RunSteps(m, n)[i].val \in Speed!MotorState
  BY SignType DEF RunSteps, Write

LEMMA StepParts ==
  ASSUME NEW m \in Nat, NEW n, Countable(n), NEW l \in DOMAIN PwmVect
  PROVE  LET w == SetCtrlSteps(m, n, l) IN
         /\ \A k \in {"pwm", "level", "steer", "call"} : None(w, k)
         /\ \A F : Free(F) => Only(w, "state", F)
<1>0. {"pwm", "level", "steer", "call"} \subseteq Kinds \ {"state", "mode", "reset", "ctrl"}
      /\ "state" \in Kinds
  BY DEF Kinds
<1>1. CASE m > MotorNum
  BY <1>1, EmptyNone, NoneOnly DEF SetCtrlSteps
<1>2. CASE ~(m > MotorNum) /\ n = 0
  <2>1. Stop \in Speed!MotorState
    BY DEF Stop, Speed!MotorState
  <2>2. m # 0 => m \in Motors
    BY <1>2, MotorFacts
  <2>3. CASE m = 0
    <3>1. SetCtrlSteps(m, n, l) = All(Stop)
      BY <1>2, <2>3 DEF SetCtrlSteps
    <3>2. \A F : Free(F) => \A x \in Motors : Stop \in F[x]
      BY <2>1 DEF Free
    <3> QED
      BY <1>0, <2>1, <3>1, <3>2, AllParts
  <2>4. CASE m # 0
    <3>1. SetCtrlSteps(m, n, l) = <<Write("state", m, Stop)>>
      BY <1>2, <2>4 DEF SetCtrlSteps
    <3>2. \A k : k # "state" => None(<<Write("state", m, Stop)>>, k)
      BY DEF None, Write
    <3>3. \A F : Free(F) => Only(<<Write("state", m, Stop)>>, "state", F)
      BY <2>1, <2>2, <2>4 DEF Free, Only, Write
    <3> QED
      BY <3>1, <3>2, <3>3
  <2> QED
    BY <2>3, <2>4
<1>3. CASE ~(m > MotorNum) /\ n # 0
  <2> DEFINE a == <<Write("mode", 0, Speed!StepMode)>>
             b == IF m = 0 THEN RunStepsAll(Revise(n, l)) ELSE RunSteps(m, Revise(n, l))
  <2>1. Revise(n, l) \in Steps
    BY <1>3 DEF Countable
  <2>2. m # 0 => m \in Motors
    BY <1>3, MotorFacts
  <2>3. a \in Seq(Writes) /\ b \in Seq(Writes)
    BY <2>1, <2>2, ModeWrite, RunStepsWrites, RunStepsAllWrites
  <2>4. SetCtrlSteps(m, n, l) = a \o b
    BY <1>3 DEF SetCtrlSteps
  <2>5. \A i \in DOMAIN b : /\ b[i].do \in {"reset", "ctrl", "state"}
                            /\ b[i].do = "state" => b[i].at \in Motors
                                                    /\ b[i].val \in Speed!MotorState
    <3>1. CASE m = 0
      <4> DEFINE j(i) == 1 + (i - 1) \div 3
                 p(i) == 1 + ((i - 1) % 3)
      <4>1. DOMAIN b = 1 .. 3 * MotorNum
            /\ \A i \in 1 .. 3 * MotorNum : b[i] = RunSteps(j(i), Revise(n, l))[p(i)]
        BY <3>1 DEF RunStepsAll
      <4>2. \A i \in 1 .. 3 * MotorNum : j(i) \in Motors /\ p(i) \in 1 .. 3
        BY MotorFacts
      <4> HIDE DEF b, j, p
      <4>3. ASSUME NEW i \in DOMAIN b
            PROVE  /\ b[i].do \in {"reset", "ctrl", "state"}
                   /\ b[i].do = "state" => b[i].at \in Motors
                                           /\ b[i].val \in Speed!MotorState
        <5>1. /\ j(i) \in Motors /\ p(i) \in 1 .. 3
              /\ b[i] = RunSteps(j(i), Revise(n, l))[p(i)]
          BY <4>1, <4>2, Zenon
        <5> QED
          BY <5>1, RunStepsParts
      <4> QED
        BY <4>3, Zenon
    <3>2. CASE m # 0
      <4>1. b = RunSteps(m, Revise(n, l)) /\ DOMAIN RunSteps(m, Revise(n, l)) = 1 .. 3
        BY <3>2 DEF RunSteps
      <4> HIDE DEF b
      <4> QED
        BY <2>2, <3>2, <4>1, RunStepsParts, Zenon
    <3> QED
      BY <3>1, <3>2
  <2> HIDE DEF b
  <2>6. \A k : k \notin {"reset", "ctrl", "state"} => None(b, k)
    BY <2>5 DEF None
  <2>7. \A F : Free(F) => Only(b, "state", F)
    BY <2>5 DEF Free, Only
  <2>8. \A k : k # "mode" => None(a, k)
    BY ModeParts
  <2> HIDE DEF a
  <2>9. \A k \in {"pwm", "level", "steer", "call"} : None(a \o b, k)
    BY <2>3, <2>6, <2>8, JoinNone
  <2>10. \A F : Free(F) => Only(a \o b, "state", F)
    BY <2>3, <2>7, <2>8, NoneOnly, JoinOnly
  <2> QED
    BY <2>4, <2>9, <2>10
<1> QED
  BY <1>1, <1>2, <1>3

\* What a handler must do for the wheels and for the steering to obey its request.
Allowed(r) == [m \in Motors |-> Directions(r, m) \cup {Stop}]

Wheels(w, r) ==
  Only(w, "state", Allowed(r)) /\ (Covers(w, "state", Motors) \/ Free(Allowed(r)))

Steers(w, r) ==
  HasSteer => IF Turning(r)
              THEN \E f \in Headings(r) \cup {Straight} :
                     Only(w, "steer", Point(f)) /\ Covers(w, "steer", {0, 1})
              ELSE None(w, "steer")

\* The wheels, then the steering.
LEMMA WheelsTurn ==
  ASSUME NEW a \in Seq(Writes), \A k \in Kinds : k # "state" => None(a, k),
         Covers(a, "state", Motors), NEW dir \in Int
  PROVE  LET w == a \o Turn(dir, 0) IN
         /\ w \in Seq(Writes)
         /\ \A k \in {"pwm", "level", "call"} : None(w, k)
         /\ \A F : Only(a, "state", F) => Only(w, "state", F)
         /\ Covers(w, "state", Motors)
         /\ Only(w, "steer", Point(Heading(dir)))
         /\ HasSteer => Covers(w, "steer", {0, 1})
<1> DEFINE u == Turn(dir, 0)
<1>1. /\ u \in Seq(Writes)
      /\ \A k \in Kinds : k # "steer" => None(u, k)
      /\ Only(u, "steer", Point(Heading(dir)))
      /\ HasSteer => Covers(u, "steer", {0, 1})
  BY TurnWrites, TurnParts
<1>2. {"pwm", "level", "call"} \subseteq Kinds \ {"state", "steer"}
      /\ "state" \in Kinds /\ "steer" \in Kinds
  BY DEF Kinds
<1> HIDE DEF u
<1>3. \A k \in {"pwm", "level", "call"} : None(a \o u, k)
  BY <1>1, <1>2, JoinNone
<1>4. \A F : Only(a, "state", F) => Only(a \o u, "state", F)
  BY <1>1, <1>2, NoneOnly, JoinOnly
<1>5. Only(a \o u, "steer", Point(Heading(dir)))
  BY <1>1, <1>2, NoneOnly, JoinOnly
<1>6. Covers(a \o u, "state", Motors) /\ (HasSteer => Covers(a \o u, "steer", {0, 1}))
  BY <1>1, JoinCovers
<1> QED
  BY <1>1, <1>3, <1>4, <1>5, <1>6, Then DEF u

LEMMA MovingParts ==
  ASSUME NEW r, r.fn = "setCarMoving"
  PROVE  LET w == SetCarMoving(r.a) IN
         /\ \A k \in {"pwm", "level", "call"} : None(w, k)
         /\ Wheels(w, r)
         /\ Steers(w, r)
<1> DEFINE Good(w) == /\ w \in Seq(Writes)
                      /\ \A k \in {"pwm", "level", "call"} : None(w, k)
                      /\ Wheels(w, r)
                      /\ Steers(w, r)
           a == <<Write("mode", 0, Speed!TimeMode)>>
           F == Forward
           B == Back
<1>1. ASSUME NEW u, Good(u)
      PROVE  LET w == a \o u IN
             /\ \A k \in {"pwm", "level", "call"} : None(w, k)
             /\ Wheels(w, r)
             /\ Steers(w, r)
  <2>1. a \in Seq(Writes) /\ u \in Seq(Writes) /\ \A k : k # "mode" => None(a, k)
    BY <1>1, ModeWrite, ModeParts
  <2> HIDE DEF a
  <2>2. \A k \in {"pwm", "level", "call"} : None(a \o u, k)
    BY <1>1, <2>1, JoinNone
  <2>3. \A k, G : k # "mode" /\ Only(u, k, G) => Only(a \o u, k, G)
    BY <2>1, NoneOnly, JoinOnly
  <2>4. \A k, S : Covers(u, k, S) => Covers(a \o u, k, S)
    BY <2>1, JoinCovers
  <2>5. None(u, "steer") => None(a \o u, "steer")
    BY <2>1, JoinNone
  <2>6. Wheels(a \o u, r)
    BY <1>1, <2>3, <2>4, Zenon DEF Wheels
  <2>7. Steers(a \o u, r)
    BY <1>1, <2>3, <2>4, <2>5, Zenon DEF Steers
  <2> QED
    BY <2>2, <2>6, <2>7
<1>2. F \in Speed!MotorState /\ B \in Speed!MotorState
  BY DEF Forward, Back, Speed!MotorState
<1>3. {"pwm", "level", "call", "steer"} \subseteq Kinds /\ "state" \notin {"pwm", "level", "call", "steer"}
  BY DEF Kinds
<1>4. Heading(0) = Straight /\ Heading(1) = Left /\ Heading(-1) = Right
  BY DEF Heading
<1>5. ASSUME NEW s \in {F, B}, r.a = IF s = F THEN "dirUp" ELSE "dirDown"
      PROVE  Good(All(s) \o Turn(0, 0))
  <2>1. \A m \in Motors : s \in Allowed(r)[m]
    BY <1>5 DEF Allowed, Directions, Forward, Back
  <2>2. s \in Speed!MotorState
    BY <1>2
  <2>3. /\ All(s) \in Seq(Writes)
        /\ \A k \in Kinds : k # "state" => None(All(s), k)
        /\ Only(All(s), "state", Allowed(r))
        /\ Covers(All(s), "state", Motors)
    BY <2>1, <2>2, AllWrites, AllParts
  <2>4. Turning(r)
    BY <1>5 DEF Turning
  <2>5. 0 \in Int
    OBVIOUS
  <2> QED
    BY <1>4, <2>3, <2>4, <2>5, WheelsTurn, Zenon DEF Wheels, Steers
<1>6. ASSUME MotorNum = 2, NEW d \in {1, -1}, r.a = IF d = 1 THEN "dirLeft" ELSE "dirRight"
      PROVE  Good(States(<<F, F>>) \o Turn(d, 0))
  <2>1. F \in Allowed(r)[1] /\ F \in Allowed(r)[2]
    BY <1>6, MotorFacts DEF Allowed, Directions
  <2>2. /\ States(<<F, F>>) \in Seq(Writes)
        /\ \A k \in Kinds : k # "state" => None(States(<<F, F>>), k)
        /\ Only(States(<<F, F>>), "state", Allowed(r))
        /\ Covers(States(<<F, F>>), "state", Motors)
    BY <1>2, <1>6, <2>1, PatternWrites, PairParts
  <2>3. Turning(r) /\ Heading(d) \in Headings(r)
    BY <1>4, <1>6 DEF Turning, Headings
  <2>4. d \in Int
    OBVIOUS
  <2> QED
    BY <2>2, <2>3, <2>4, WheelsTurn, Zenon DEF Wheels, Steers
<1>7. ASSUME MotorNum = 4, NEW p \in Speed!MotorState, NEW q \in Speed!MotorState,
             NEW x \in Speed!MotorState, NEW y \in Speed!MotorState,
             p \in Allowed(r)[1], q \in Allowed(r)[2], x \in Allowed(r)[3], y \in Allowed(r)[4],
             r.a \in {"dirLeft", "dirRight", "dirRotation"}
      PROVE  Good(States(<<p, q, x, y>>))
  <2>1. ~Turning(r)
    BY <1>7 DEF Turning
  <2>2. /\ \A k \in Kinds : k # "state" => None(States(<<p, q, x, y>>), k)
        /\ Only(States(<<p, q, x, y>>), "state", Allowed(r))
        /\ Covers(States(<<p, q, x, y>>), "state", Motors)
    BY <1>7, FourParts
  <2>3. States(<<p, q, x, y>>) \in Seq(Writes)
    BY <1>7, PatternWrites
  <2> QED
    BY <1>3, <2>1, <2>2, <2>3, Zenon DEF Wheels, Steers
<1>8. CASE r.a = "dirUp"
  <2>1. SetCarMoving(r.a) = a \o (All(F) \o Turn(0, 0))
    BY <1>8 DEF SetCarMoving
  <2> HIDE DEF a, F, Good
  <2> QED
    BY <1>1, <1>5, <1>8, <2>1 DEF Good
<1>9. CASE r.a = "dirDown"
  <2>1. SetCarMoving(r.a) = a \o (All(B) \o Turn(0, 0))
    BY <1>9 DEF SetCarMoving
  <2>2. F # B
    BY DEF Forward, Back, Speed!Forward, Speed!Back
  <2> HIDE DEF a, B, F, Good
  <2> QED
    BY <1>1, <1>5, <1>9, <2>1, <2>2 DEF Good
<1>10. CASE r.a \in {"dirLeft", "dirRight"} /\ MotorNum = 2
  <2> DEFINE d == IF r.a = "dirLeft" THEN 1 ELSE -1
  <2>1. SetCarMoving(r.a) = a \o (States(<<F, F>>) \o Turn(d, 0))
    BY <1>10 DEF SetCarMoving
  <2>2. d \in {1, -1} /\ r.a = IF d = 1 THEN "dirLeft" ELSE "dirRight"
    BY <1>10
  <2> HIDE DEF a, F, Good, d
  <2>3. Good(States(<<F, F>>) \o Turn(d, 0))
    BY <1>6, <1>10, <2>2
  <2> QED
    BY <1>1, <2>1, <2>3
<1>11. CASE r.a \in {"dirLeft", "dirRight", "dirRotation"} /\ MotorNum = 4
  <2> DEFINE W(p, q, x, y) == States(<<p, q, x, y>>)
  <2>1. /\ r.a = "dirLeft" => SetCarMoving(r.a) = a \o W(B, F, F, B)
        /\ r.a = "dirRight" => SetCarMoving(r.a) = a \o W(F, B, B, F)
        /\ r.a = "dirRotation" => SetCarMoving(r.a) = a \o W(F, B, F, B)
    BY <1>11 DEF SetCarMoving
  <2>2. /\ r.a = "dirLeft" => B \in Allowed(r)[1] /\ F \in Allowed(r)[2]
                              /\ F \in Allowed(r)[3] /\ B \in Allowed(r)[4]
        /\ r.a = "dirRight" => F \in Allowed(r)[1] /\ B \in Allowed(r)[2]
                               /\ B \in Allowed(r)[3] /\ F \in Allowed(r)[4]
        /\ r.a = "dirRotation" => F \in Allowed(r)[1] /\ B \in Allowed(r)[2]
                                  /\ F \in Allowed(r)[3] /\ B \in Allowed(r)[4]
    BY <1>11, MotorFacts DEF Allowed, Directions
  <2> HIDE DEF a, F, B, Good
  <2>3. /\ r.a = "dirLeft" => Good(W(B, F, F, B))
        /\ r.a = "dirRight" => Good(W(F, B, B, F))
        /\ r.a = "dirRotation" => Good(W(F, B, F, B))
    BY <1>2, <1>7, <1>11, <2>2
  <2> QED
    BY <1>1, <1>11, <2>1, <2>3
<1>12. CASE \/ r.a \notin {"dirUp", "dirDown", "dirLeft", "dirRight", "dirRotation"}
            \/ r.a = "dirRotation" /\ MotorNum = 2
  <2>1. SetCarMoving(r.a) = a \o <<>>
    BY <1>12 DEF SetCarMoving
  <2>2. Free(Allowed(r))
    BY <1>12 DEF Free, Allowed, Directions, Speed!MotorState, Forward, Back, Stop,
       Speed!Forward, Speed!Back, Speed!Stop
  <2>3. ~Turning(r)
    BY <1>12 DEF Turning
  <2>4. Good(<<>>)
    BY <2>2, <2>3, NoWrite, EmptyNone, NoneOnly, Zenon DEF Wheels, Steers
  <2> HIDE DEF a, Good
  <2> QED
    BY <1>1, <2>1, <2>4
<1> QED
  BY <1>8, <1>9, <1>10, <1>11, <1>12, MotorFacts

\* What a level says of the duties.
LevelOf(l) == [x \in {0} |-> {l}]
DutyOf(l) == [m \in Motors |-> {PwmVect[l][m]}]

Levels(w) ==
  \/ None(w, "level") /\ None(w, "pwm")
  \/ \E l \in DOMAIN PwmVect :
       /\ Only(w, "level", LevelOf(l)) /\ Covers(w, "level", {0})
       /\ Only(w, "pwm", DutyOf(l)) /\ Covers(w, "pwm", Motors)

\* Every handler obeys its request; one that calls setCtrlSteps may turn the wheels
\* either way.
LEMMA HandlerParts ==
  ASSUME NEW r \in Asked
  PROVE  LET w == Handler(r) IN
         /\ Wheels(w, r)
         /\ None(w, "call") \/ Free(Allowed(r))
         /\ Steers(w, r)
         /\ Levels(w)
<1>1. Request(r)
  BY RequestAssumption
<1>2. \A m \in Motors : r.fn \notin {"setCarMoving", "setRunTime", "setAllMotorState"}
        => Allowed(r)[m] = {Forward, Back, Stop}
  BY DEF Allowed, Directions
<1>3. r.fn \notin {"setCarMoving", "setRunTime", "setAllMotorState"} => Free(Allowed(r))
  BY <1>2 DEF Free, Speed!MotorState, Forward, Back, Stop, Speed!Forward, Speed!Back, Speed!Stop
<1>4. CASE r.fn = "setCtrlSteps"
  <2>1. Handler(r) = <<Call(r.a, r.b)>>
    BY <1>4 DEF Handler
  <2>2. \A k : k # "call" => None(Handler(r), k)
    BY <2>1 DEF None, Call, Write
  <2>3. ~Turning(r)
    BY <1>4 DEF Turning
  <2> QED
    BY <1>3, <1>4, <2>2, <2>3, NoneOnly DEF Wheels, Steers, Levels
<1>5. CASE r.fn = "setRunTime" /\ r.a \in Int
  <2>1. Handler(r) = SetRunTime(r.a)
    BY <1>5 DEF Handler
  <2>2. \A m \in Motors : (IF r.a > 0 THEN Forward ELSE Back) \in Allowed(r)[m]
    BY <1>5 DEF Allowed, Directions
  <2>3. ~Turning(r)
    BY <1>5 DEF Turning
  <2>4. Wheels(Handler(r), r)
    BY <1>5, <2>1, <2>2, RunTimeParts DEF Wheels
  <2> QED
    BY <1>5, <2>1, <2>3, <2>4, RunTimeParts DEF Steers, Levels
<1>6. CASE r.fn = "setAllMotorState" /\ r.a \in Int
  <2>1. Handler(r) = SetAllMotorState(r.a)
    BY <1>6 DEF Handler
  <2>2. \A m \in Motors : Sign(r.a) \in Allowed(r)[m]
    BY <1>6 DEF Allowed, Directions
  <2>3. Turning(r) <=> r.a = 0
    BY <1>6 DEF Turning
  <2>4. {"call", "level", "pwm"} \subseteq Kinds \ {"state", "steer"}
    BY DEF Kinds
  <2>5. Wheels(Handler(r), r)
    BY <1>6, <2>1, <2>2, StopParts DEF Wheels
  <2>6. Steers(Handler(r), r)
    BY <1>6, <2>1, <2>3, StopParts DEF Steers
  <2> QED
    BY <1>6, <2>1, <2>4, <2>5, <2>6, StopParts DEF Levels
<1>7. CASE r.fn = "setMotorSpeedLevel" /\ r.a \in Int
  <2>1. Handler(r) = SetMotorSpeedLevel(r.a)
    BY <1>7 DEF Handler
  <2>2. ~Turning(r)
    BY <1>7 DEF Turning
  <2>3. Levels(Handler(r))
    BY <1>7, <2>1, LevelParts, EmptyNone DEF Levels, LevelOf, DutyOf
  <2> QED
    BY <1>3, <1>7, <2>1, <2>2, <2>3, LevelParts, NoneOnly DEF Wheels, Steers
<1>8. CASE r.fn = "setCarSteps"
  <2>1. Handler(r) = SetCarSteps(r.a, r.b)
    BY <1>8 DEF Handler
  <2>2. ~Turning(r)
    BY <1>8 DEF Turning
  <2> QED
    BY <1>3, <1>8, <2>1, <2>2, CarStepsParts, NoneOnly DEF Wheels, Steers, Levels
<1>9. CASE r.fn = "setCarMoving"
  <2>1. Handler(r) = SetCarMoving(r.a)
    BY <1>9 DEF Handler
  <2> QED
    BY <1>9, <2>1, MovingParts DEF Levels
<1>10. CASE r.fn = "setSteerTurn" /\ r.a \in Int
  <2>1. Handler(r) = Turn(r.a, r.b)
    BY <1>10 DEF Handler
  <2>2. Turning(r) /\ Heading(r.a) \in Headings(r) \cup {Straight}
    BY <1>10 DEF Turning, Headings, Heading
  <2>3. {"call", "level", "pwm", "state"} \subseteq Kinds \ {"steer"}
    BY DEF Kinds
  <2> QED
    BY <1>3, <1>10, <2>1, <2>2, <2>3, TurnParts, NoneOnly DEF Wheels, Steers, Levels
<1> QED
  BY <1>1, <1>4, <1>5, <1>6, <1>7, <1>8, <1>9, <1>10 DEF Request

\* The callbacks of the two timers stop the wheels and straighten the steering.
LEMMA CallbackParts ==
  ASSUME NEW tm \in Timers
  PROVE  LET w == Callback(tm) IN
         /\ \A F : (\A m \in Motors : Stop \in F[m]) => Only(w, "state", F)
         /\ Only(w, "steer", Point(Straight))
         /\ HasSteer => Covers(w, "steer", {0, 1})
         /\ None(w, "call") /\ None(w, "level") /\ None(w, "pwm")
<1>1. CASE tm = "run"
  <2>1. Callback(tm) = SetAllMotorState(0) /\ Sign(0) = Stop
    BY <1>1 DEF Callback, Sign
  <2>2. {"call", "level", "pwm"} \subseteq Kinds \ {"state", "steer"}
    BY DEF Kinds
  <2> QED
    BY <2>1, <2>2, StopParts
<1>2. CASE tm # "run"
  <2> DEFINE w == <<Write("steer", 0, 0), Write("steer", 1, 0)>>
  <2>1. Callback(tm) = w
    BY <1>2 DEF Callback
  <2>2. \A k : k # "steer" => None(w, k)
    BY DEF None, Write
  <2>3. /\ DOMAIN w = {1, 2}
        /\ w[1].do = "steer" /\ w[1].at = 0 /\ w[1].val = 0
        /\ w[2].do = "steer" /\ w[2].at = 1 /\ w[2].val = 0
    BY DEF Write
  <2>4. Point(Straight)[0] = {0} /\ Point(Straight)[1] = {0}
    BY DEF Point, Straight
  <2> HIDE DEF w
  <2>5. Only(w, "steer", Point(Straight)) /\ Covers(w, "steer", {0, 1})
    BY <2>3, <2>4 DEF Only, Covers, Writing
  <2> QED
    BY <2>1, <2>2, <2>5, NoneOnly
<1> QED
  BY <1>1, <1>2

-----------------------------------------------------------------------------
(* What a callback has left.                                               *)

\* A callback stops wheels, straightens the steering and stops its timer.
Quiet(w) ==
  \/ w.do = "state" /\ w.val = Stop
  \/ w.do = "steer" /\ w.val = 0
  \/ w = TimerWrite("off", "steer")

CallbackLeft(s) == \A i \in DOMAIN s : Quiet(s[i])

LEMMA JoinLeft ==
  ASSUME NEW s \in Seq(Writes), NEW u \in Seq(Writes), CallbackLeft(s), CallbackLeft(u)
  PROVE  CallbackLeft(s \o u)
<1>1. \A i \in DOMAIN (s \o u) :
         \/ i \in DOMAIN s /\ (s \o u)[i] = s[i]
         \/ i - Len(s) \in DOMAIN u /\ (s \o u)[i] = u[i - Len(s)]
  BY JoinedElements
<1> QED
  BY <1>1, Zenon DEF CallbackLeft

LEMMA StraightLeft == CallbackLeft(<<Write("steer", 0, 0), Write("steer", 1, 0)>>)
  BY DEF CallbackLeft, Quiet, Write

LEMMA CallbackQuiet == \A tm \in Timers : CallbackLeft(Callback(tm))
<1>1. CallbackLeft(All(Stop)) /\ All(Stop) \in Seq(Writes)
  <2>1. MotorNum \in Nat /\ Motors = 1 .. MotorNum
    BY MotorFacts
  <2>2. Len([m \in Motors |-> Stop]) = MotorNum
    BY <2>1
  <2>3. All(Stop) = [m \in Motors |-> Write("state", m, Stop)]
    BY <2>1, <2>2 DEF All, States
  <2>4. Stop \in Speed!MotorState
    BY DEF Stop, Speed!MotorState
  <2> QED
    BY <2>3, <2>4, AllWrites DEF CallbackLeft, Quiet, Write
<1>2. CallbackLeft(Turn(0, 0)) /\ Turn(0, 0) \in Seq(Writes)
  <2> DEFINE p == <<Write("steer", 0, 0), Write("steer", 1, 0)>>
             o == <<TimerWrite("off", "steer")>>
  <2>1. Turn(0, 0) = IF ~HasSteer THEN <<>> ELSE p \o o
    BY DEF Turn
  <2>2. p \in Seq(Writes) /\ o \in Seq(Writes)
    BY WriteFacts DEF Timers
  <2>3. CallbackLeft(p) /\ CallbackLeft(o) /\ CallbackLeft(<<>>)
    BY StraightLeft DEF CallbackLeft, Quiet
  <2> HIDE DEF p, o
  <2> QED
    BY <2>1, <2>2, <2>3, JoinLeft, TurnWrites
<1>3. SetAllMotorState(0) = All(Stop) \o Turn(0, 0)
  <2>1. Sign(0) = Stop
    BY DEF Sign
  <2> QED
    BY <2>1 DEF SetAllMotorState
<1>4. CallbackLeft(SetAllMotorState(0))
  BY <1>1, <1>2, <1>3, JoinLeft
<1> QED
  BY <1>4, StraightLeft DEF Callback

LEMMA LeftParts ==
  ASSUME NEW s \in Seq(Writes), CallbackLeft(s)
  PROVE  /\ \A k \in {"call", "level", "pwm"} : None(s, k)
         /\ \A F : (\A m \in Motors : Stop \in F[m]) => Only(s, "state", F)
         /\ \A F : (\A p \in {0, 1} : 0 \in F[p]) => Only(s, "steer", F)
<1>1. \A i \in DOMAIN s : /\ s[i].do \notin {"call", "level", "pwm"}
                          /\ s[i].do = "state" => s[i].at \in Motors /\ s[i].val = Stop
                          /\ s[i].do = "steer" => s[i].at \in {0, 1} /\ s[i].val = 0
  <2> SUFFICES ASSUME NEW i \in DOMAIN s
               PROVE  /\ s[i].do \notin {"call", "level", "pwm"}
                      /\ s[i].do = "state" => s[i].at \in Motors /\ s[i].val = Stop
                      /\ s[i].do = "steer" => s[i].at \in {0, 1} /\ s[i].val = 0
    OBVIOUS
  <2>1. s[i] \in Writes /\ Quiet(s[i])
    BY DEF CallbackLeft
  <2>2. /\ s[i].do = "state" => s[i].at \in Motors
        /\ s[i].do = "steer" => s[i].at \in {0, 1}
    BY <2>1, KindFacts
  <2> QED
    BY <2>1, <2>2 DEF Quiet, TimerWrite
<1> QED
  BY <1>1, Zenon DEF None, Only

LEMMA LeftTail ==
  ASSUME NEW s \in Seq(Writes), s # <<>>, CallbackLeft(s)
  PROVE  Quiet(Head(s)) /\ CallbackLeft(Tail(s))
<1>1. /\ Head(s) = s[1] /\ 1 \in DOMAIN s
      /\ \A i \in DOMAIN Tail(s) : i + 1 \in DOMAIN s /\ Tail(s)[i] = s[i + 1]
  OBVIOUS
<1> QED
  BY <1>1, Zenon DEF CallbackLeft

-----------------------------------------------------------------------------
(* One step.                                                               *)

\* The thread of the connection is any of the pool's, the io thread too.
LEMMA TheThreads ==
  ASSUME OneConnection
  PROVE  Conn \in Threads /\ Servers = {Conn} /\ IoThread \in Threads
  BY CtrlAssumption DEF OneConnection, Conn

\* The other threads run callbacks, and only the io thread does.
OthersInv ==
  \A t \in Threads : t # Conn => /\ CallbackLeft(todo[t])
                                 /\ t # IoThread => todo[t] = <<>>

\* The request r is taken, the callback of tm begins.
Taken(r) ==
  /\ todo[Conn] = <<>> /\ todo' = [todo EXCEPT ![Conn] = Handler(r)]
  /\ last' = r /\ crossed' = RunEnding
  /\ UNCHANGED <<runState, ctrlPwm, speedLevel, steer, running, wait, ready>>

Called(tm) ==
  /\ todo[IoThread] = <<>> /\ todo' = [todo EXCEPT ![IoThread] = Callback(tm)]
  /\ UNCHANGED <<runState, ctrlPwm, speedLevel, steer, last>>

\* Every step is one of these.
LEMMA ServedSteps ==
  ASSUME OneConnection, TypeOK, [Next]_vars
  PROVE  \/ SpeedThread
         \/ \E r \in Asked : Taken(r)
         \/ \E t \in Threads : Run(t)
         \/ \E tm \in Timers : Called(tm)
         \/ UNCHANGED <<todo, runState, ctrlPwm, speedLevel, steer, last>>
<1>1. ASSUME NEW t \in Servers, Accept(t) PROVE \E r \in Asked : Taken(r)
  <2>1. t = Conn
    BY TheThreads
  <2>2. /\ todo[Conn] = <<>> /\ crossed' = RunEnding
        /\ UNCHANGED <<runState, ctrlPwm, speedLevel, steer, running, wait, ready>>
    BY <1>1, <2>1, Zenon DEF Accept, speedVars, timerVars
  <2>3. PICK r \in Asked : todo' = [todo EXCEPT ![t] = Handler(r)] /\ last' = r
    BY <1>1, Zenon DEF Accept
  <2> QED
    BY <2>1, <2>2, <2>3, Zenon DEF Taken
<1>2. ASSUME NEW tm \in Timers, TimerExpire(tm)
      PROVE  UNCHANGED <<todo, runState, ctrlPwm, speedLevel, steer, last>>
  BY <1>2, Zenon DEF TimerExpire, speedVars, history
<1>3. ASSUME NEW tm \in Timers, TimerComplete(tm)
      PROVE  \/ Called(tm)
             \/ UNCHANGED <<todo, runState, ctrlPwm, speedLevel, steer, last>>
  <2>1. /\ todo[IoThread] = <<>>
        /\ todo' = IF running[tm] THEN [todo EXCEPT ![IoThread] = Callback(tm)] ELSE todo
        /\ UNCHANGED <<runState, ctrlPwm, speedLevel, steer, last>>
    BY <1>3, Zenon DEF TimerComplete, speedVars
  <2> QED
    BY <2>1, Zenon DEF Called
<1>4. CASE UNCHANGED vars
  BY <1>4, Zenon DEF vars, speedVars, ctrlVars, history
<1> QED
  BY <1>1, <1>2, <1>3, <1>4, Zenon DEF Next

\* A thread that runs has a write to do; if it is no call, it leaves the others.
LEMMA RunTail ==
  ASSUME TypeOK, NEW t \in Threads, Run(t)
  PROVE  /\ todo[t] # <<>> /\ todo[t] \in Seq(Writes) /\ todo \in [Threads -> Seq(Writes)]
         /\ \A u \in Threads : u # t => todo'[u] = todo[u]
         /\ None(todo[t], "call") => ~CallWrite(t)
         /\ ~CallWrite(t) => todo'[t] = Tail(todo[t])
<1>1. todo \in [Threads -> Seq(Writes)] /\ todo[t] \in Seq(Writes)
  BY DEF TypeOK
<1>2. todo[t] # <<>>
  BY Zenon DEF Run, MotorWrite, CtrlWrite, CallWrite
<1>3. CASE CallWrite(t)
  <2>1. Head(todo[t]).do = "call"
        /\ todo' = [todo EXCEPT ![t] = SetCtrlSteps(Head(todo[t]).at, Head(todo[t]).val,
                                                    speedLevel) \o Tail(@)]
    BY <1>3, Zenon DEF CallWrite
  <2>2. Head(todo[t]) = todo[t][1] /\ 1 \in DOMAIN todo[t]
    BY <1>1, <1>2
  <2>3. ~None(todo[t], "call")
    BY <2>1, <2>2, Zenon DEF None
  <2>4. \A u \in Threads : u # t => todo'[u] = todo[u]
    BY <1>1, <2>1
  <2> QED
    BY <1>1, <1>2, <1>3, <2>3, <2>4, Zenon
<1>4. CASE ~CallWrite(t)
  <2>1. todo' = [todo EXCEPT ![t] = Tail(@)]
    BY <1>4, Zenon DEF Run, MotorWrite, CtrlWrite
  <2>2. todo'[t] = Tail(todo[t]) /\ \A u \in Threads : u # t => todo'[u] = todo[u]
    BY <1>1, <2>1
  <2> QED
    BY <1>1, <1>2, <1>4, <2>2, Zenon
<1> QED
  BY <1>3, <1>4

LEMMA OthersKept == ASSUME OneConnection, TypeOK, OthersInv, [Next]_vars PROVE OthersInv'
<1> SUFFICES ASSUME NEW t \in Threads, t # Conn
             PROVE  CallbackLeft(todo'[t]) /\ (t # IoThread => todo'[t] = <<>>)
  BY Zenon DEF OthersInv, CallbackLeft, Quiet
<1>1. CallbackLeft(todo[t]) /\ (t # IoThread => todo[t] = <<>>)
  BY DEF OthersInv
<1>2. todo \in [Threads -> Seq(Writes)] /\ todo[t] \in Seq(Writes)
  BY DEF TypeOK
<1>3. CASE todo'[t] = todo[t]
  BY <1>1, <1>3
<1>4. CASE SpeedThread \/ UNCHANGED <<todo, runState, ctrlPwm, speedLevel, steer, last>>
  <2>1. todo' = todo
    BY <1>4, Zenon DEF SpeedThread, ctrlVars
  <2> QED
    BY <1>3, <2>1
<1>5. ASSUME NEW r \in Asked, Taken(r) PROVE todo'[t] = todo[t]
  BY <1>2, <1>5, TheThreads DEF Taken
<1>6. ASSUME NEW u \in Threads, Run(u)
      PROVE  CallbackLeft(todo'[t]) /\ (t # IoThread => todo'[t] = <<>>)
  <2>1. CASE u # t
    BY <1>3, <1>6, <2>1, RunTail
  <2>2. CASE u = t
    <3>1. None(todo[t], "call")
      BY <1>1, <1>2, LeftParts
    <3>2. todo[t] # <<>> /\ todo'[t] = Tail(todo[t])
      BY <1>6, <2>2, <3>1, RunTail
    <3> QED
      BY <1>1, <1>2, <3>2, LeftTail
  <2> QED
    BY <2>1, <2>2
<1>7. ASSUME NEW tm \in Timers, Called(tm)
      PROVE  CallbackLeft(todo'[t]) /\ (t # IoThread => todo'[t] = <<>>)
  <2>1. CASE t = IoThread
    <3>1. todo'[t] = Callback(tm)
      BY <1>2, <1>7, <2>1 DEF Called
    <3> QED
      BY <2>1, <3>1, CallbackQuiet
  <2>2. CASE t # IoThread
    <3>1. todo'[t] = todo[t]
      BY <1>2, <1>7, <2>2, TheThreads DEF Called
    <3> QED
      BY <1>1, <3>1
  <2> QED
    BY <2>1, <2>2
<1> QED
  BY <1>3, <1>4, <1>5, <1>6, <1>7, ServedSteps

LEMMA OthersTyped == ASSUME OneConnection PROVE Spec => [](TypeOK /\ OthersInv)
<1>1. Init => OthersInv
  BY DEF Init, OthersInv, CallbackLeft
<1> QED
  BY <1>1, OthersKept, CtrlTypeCorrect, PTL DEF Spec

\* A write brings the places nearer to what they are to be.
LEMMA RunKeeps ==
  ASSUME TypeOK, NEW t \in Threads, Run(t),
         NEW k \in {"pwm", "level", "steer", "state"}, NEW S, NEW now, NEW next, NEW F,
         Settles(todo, k, S, now, F),
         k = "state" => None(todo[t], "call") \/ Free(F),
         \A x \in S : next[x] = IF Head(todo[t]).do = k /\ Head(todo[t]).at = x
                                THEN Head(todo[t]).val ELSE now[x]
  PROVE  Settles(todo', k, S, next, F)
<1> DEFINE s == todo[t]
           u == todo'[t]
<1>1. /\ s # <<>> /\ s \in Seq(Writes) /\ todo \in [Threads -> Seq(Writes)]
      /\ \A v \in Threads : v # t => todo'[v] = todo[v]
      /\ ~CallWrite(t) => u = Tail(s)
  BY RunTail
<1>2. \A v \in Threads : Only(todo[v], k, F)
  BY Zenon DEF Settles
<1>3. /\ Only(Tail(s), k, F)
      /\ \A x \in S : /\ now[x] \in F[x] => next[x] \in F[x]
                      /\ Writing(s, k, x) => next[x] \in F[x] \/ Writing(Tail(s), k, x)
  <2>1. Only(s, k, F)
    BY <1>2
  <2>2. \A x \in S : next[x] = IF Head(s).do = k /\ Head(s).at = x THEN Head(s).val
                                                                   ELSE now[x]
    OBVIOUS
  <2> HIDE DEF s
  <2> QED
    BY <1>1, <2>1, <2>2, Popped
<1>4. Only(u, k, F) /\ \A x : Writing(Tail(s), k, x) => Writing(u, k, x)
  <2>1. CASE ~CallWrite(t)
    <3>1. u = Tail(s)
      BY <1>1, <2>1, Zenon
    <3> QED
      BY <1>3, <3>1, Zenon
  <2>2. CASE CallWrite(t)
    <3> DEFINE w == Head(s)
               c == SetCtrlSteps(w.at, w.val, speedLevel)
    <3>1. w.do = "call" /\ todo' = [todo EXCEPT ![t] = c \o Tail(@)]
      BY <2>2, Zenon DEF CallWrite
    <3>2. w \in Writes /\ Tail(s) \in Seq(Writes)
      BY <1>1, TailWrites
    <3>3. w.at \in Nat /\ Countable(w.val) /\ speedLevel \in DOMAIN PwmVect
      BY <3>1, <3>2, KindFacts DEF TypeOK
    <3>4. /\ c \in Seq(Writes)
          /\ \A j \in {"pwm", "level", "steer", "call"} : None(c, j)
          /\ Free(F) => Only(c, "state", F)
      BY <3>3, StepWrites, StepParts
    <3>5. k = "state" => Free(F)
      <4>1. w = s[1] /\ 1 \in DOMAIN s
        BY <1>1
      <4> HIDE DEF w
      <4> QED
        BY <3>1, <4>1, Zenon DEF None
    <3>6. Only(c, k, F)
      BY <3>4, <3>5, NoneOnly
    <3>7. u = c \o Tail(s)
      <4> HIDE DEF c
      <4> QED
        BY <1>1, <3>1
    <3> HIDE DEF c, w, s
    <3>8. Only(c \o Tail(s), k, F)
      BY <1>3, <3>2, <3>4, <3>6, JoinOnly
    <3>9. \A x : Writing(Tail(s), k, x) => Writing(c \o Tail(s), k, x)
      BY <3>2, <3>4, JoinWriting
    <3> QED
      BY <3>7, <3>8, <3>9, Zenon
  <2> QED
    BY <2>1, <2>2
<1>5. \A v \in Threads : Only(todo'[v], k, F)
  BY <1>1, <1>2, <1>4, Zenon
<1>6. ASSUME NEW x \in S PROVE next[x] \in F[x] \/ \E v \in Threads : Writing(todo'[v], k, x)
  <2>1. CASE now[x] \in F[x]
    BY <1>3, <2>1, Zenon
  <2>2. CASE \E v \in Threads : Writing(todo[v], k, x)
    <3>1. PICK v \in Threads : Writing(todo[v], k, x)
      BY <2>2
    <3>2. CASE v = t
      BY <1>3, <1>4, <3>1, <3>2, Zenon
    <3>3. CASE v # t
      BY <1>1, <3>1, <3>3, Zenon
    <3> QED
      BY <3>2, <3>3
  <2> QED
    BY <2>1, <2>2, Zenon DEF Settles
<1> QED
  BY <1>5, <1>6, Zenon DEF Settles

\* Nor does it bring a call the handler had not.
LEMMA RunCalls ==
  ASSUME OneConnection, TypeOK, NEW t \in Threads, Run(t), None(todo[Conn], "call")
  PROVE  None(todo'[Conn], "call")
<1> DEFINE s == todo[Conn]
<1>1. CASE t # Conn
  BY <1>1, TheThreads, RunTail
<1>2. CASE t = Conn
  <2>1. s # <<>> /\ s \in Seq(Writes) /\ todo'[Conn] = Tail(s)
    BY <1>2, RunTail
  <2>2. \A i \in DOMAIN Tail(s) : i + 1 \in DOMAIN s /\ Tail(s)[i] = s[i + 1]
    BY <2>1
  <2>3. None(s, "call")
    OBVIOUS
  <2> HIDE DEF s
  <2>4. None(Tail(s), "call")
    BY <2>2, <2>3, Zenon DEF None
  <2> QED
    BY <2>1, <2>4, Zenon
<1> QED
  BY <1>1, <1>2

\* No other thread is in a call.
LEMMA OthersCalls ==
  ASSUME OneConnection, TypeOK, OthersInv, NEW t \in Threads, t # Conn
  PROVE  None(todo[t], "call")
<1>1. todo[t] \in Seq(Writes) /\ CallbackLeft(todo[t])
  BY DEF TypeOK, OthersInv
<1> QED
  BY <1>1, LeftParts

\* What a write changes.
LEMMA RunWrites ==
  ASSUME TypeOK, NEW t \in Threads, Run(t)
  PROVE  LET w == Head(todo[t])
             Now(k, x, old) == IF w.do = k /\ w.at = x THEN w.val ELSE old IN
         /\ \A m \in Motors : runState'[m] = Now("state", m, runState[m])
         /\ \A m \in Motors : ctrlPwm'[m] = Now("pwm", m, ctrlPwm[m])
         /\ \A p \in {0, 1} : steer'[p] = Now("steer", p, steer[p])
         /\ speedLevel' = IF w.do = "level" THEN w.val ELSE speedLevel
         /\ w.do = "level" => w.at = 0
         /\ last' = last /\ crossed' = crossed
<1> DEFINE w == Head(todo[t])
<1>1. todo[t] # <<>>
  BY RunTail
<1>2. w \in Writes
  BY <1>1, TailWrites
<1>3. w.do = "level" => w.at = 0
  BY <1>2 DEF Writes
<1>4. /\ runState \in [Motors -> Speed!MotorState]
      /\ ctrlPwm \in [Motors -> 0 .. MaxPwm]
      /\ steer \in [{0, 1} -> {0, 1}]
  BY DEF TypeOK, Speed!TypeOK, Motors
<1>0. last' = last /\ crossed' = crossed
  BY Zenon DEF Run, MotorWrite, CtrlWrite, CallWrite, history
<1>5. CASE MotorWrite(t)
  <2>1. /\ \/ w.do = "state" /\ Speed!SetMotorState(w.at, w.val)
           \/ w.do = "ctrl"  /\ Speed!SetCtrlSteps(w.at, w.val)
           \/ w.do = "reset" /\ Speed!ResetActualSteps(w.at)
           \/ w.do = "pwm"   /\ Speed!SetRunPwm(w.at, w.val)
           \/ w.do = "mode"  /\ Speed!SetCtrlMode(w.val)
        /\ UNCHANGED <<speedLevel, steer>>
    BY <1>1, <1>5, Zenon DEF MotorWrite
  <2>2. /\ runState' = IF w.do = "state" THEN [runState EXCEPT ![w.at] = w.val] ELSE runState
        /\ ctrlPwm' = IF w.do = "pwm" THEN [ctrlPwm EXCEPT ![w.at] = w.val] ELSE ctrlPwm
        /\ w.do \notin {"level", "steer"}
    BY <2>1 DEF Speed!SetMotorState, Speed!SetCtrlSteps, Speed!ResetActualSteps,
                Speed!SetRunPwm, Speed!SetCtrlMode
  <2>3. /\ \A m \in Motors : runState'[m] = IF w.do = "state" /\ w.at = m THEN w.val
                                                                          ELSE runState[m]
        /\ \A m \in Motors : ctrlPwm'[m] = IF w.do = "pwm" /\ w.at = m THEN w.val
                                                                       ELSE ctrlPwm[m]
        /\ \A p \in {0, 1} : steer'[p] = IF w.do = "steer" /\ w.at = p THEN w.val
                                                                       ELSE steer[p]
        /\ speedLevel' = IF w.do = "level" THEN w.val ELSE speedLevel
    <3> HIDE DEF w
    <3> QED
      BY <1>4, <2>1, <2>2
  <2> QED
    BY <1>0, <1>3, <2>3, Zenon
<1>6. CASE CtrlWrite(t)
  <2>1. /\ w.do \in {"level", "steer", "on", "off", "arm"}
        /\ speedLevel' = IF w.do = "level" THEN w.val ELSE speedLevel
        /\ steer' = IF w.do = "steer" THEN [steer EXCEPT ![w.at] = w.val] ELSE steer
        /\ UNCHANGED <<runState, ctrlPwm>>
    BY <1>1, <1>6, Zenon DEF CtrlWrite, speedVars
  <2>3. /\ \A m \in Motors : runState'[m] = IF w.do = "state" /\ w.at = m THEN w.val
                                                                          ELSE runState[m]
        /\ \A m \in Motors : ctrlPwm'[m] = IF w.do = "pwm" /\ w.at = m THEN w.val
                                                                       ELSE ctrlPwm[m]
        /\ \A p \in {0, 1} : steer'[p] = IF w.do = "steer" /\ w.at = p THEN w.val
                                                                       ELSE steer[p]
    <3> HIDE DEF w
    <3> QED
      BY <1>4, <2>1
  <2> QED
    BY <1>0, <1>3, <2>1, <2>3, Zenon
<1>7. CASE CallWrite(t)
  <2>1. w.do = "call" /\ UNCHANGED <<runState, ctrlPwm, steer, speedLevel>>
    BY <1>1, <1>7, Zenon DEF CallWrite, speedVars
  <2>2. w.do \notin {"state", "pwm", "steer", "level"}
    BY <2>1
  <2> QED
    BY <1>0, <1>3, <2>1, <2>2, Zenon
<1> QED
  BY <1>5, <1>6, <1>7 DEF Run

\* The speed thread stops a wheel at most, and knows nothing of the rest.
LEMMA ThreadWrites ==
  ASSUME TypeOK, SpeedThread
  PROVE  /\ \A m \in Motors : runState'[m] \in {runState[m], Stop}
         /\ UNCHANGED <<ctrlPwm, speedLevel, steer, todo, last>>
         /\ UNCHANGED <<running, wait, ready>> /\ crossed' = crossed
<1>1. runState \in [Motors -> Speed!MotorState]
  BY DEF TypeOK, Speed!TypeOK, Motors
<1>2. /\ Speed!SpeedThread /\ UNCHANGED <<speedLevel, steer, todo, last>>
      /\ UNCHANGED <<running, wait, ready>> /\ crossed' = crossed
  BY Zenon DEF SpeedThread, ctrlVars, history
<1>3. UNCHANGED ctrlPwm
  BY <1>2 DEF Speed!SpeedThread, Speed!Wake, Speed!CountTick, Speed!StopTick,
     Speed!TogglePhase, Speed!WritePort0, Speed!WritePort1, Speed!CheckSteps,
     Speed!Expire, Speed!Poll, Speed!ReadPulse, Speed!AddPulse, Speed!shared
<1>4. \A m \in Motors : runState'[m] \in {runState[m], Stop}
  <2>1. CASE Speed!Expire
    <3>1. runState' = [runState EXCEPT ![cur] = Stop]
      BY <2>1 DEF Speed!Expire, Stop
    <3> QED
      BY <1>1, <3>1
  <2>2. CASE ~Speed!Expire
    <3>1. UNCHANGED runState
      BY <1>2, <2>2 DEF Speed!SpeedThread, Speed!Wake, Speed!CountTick, Speed!StopTick,
         Speed!TogglePhase, Speed!WritePort0, Speed!WritePort1, Speed!CheckSteps,
         Speed!Poll, Speed!ReadPulse, Speed!AddPulse, Speed!shared
    <3> QED
      BY <3>1
  <2> QED
    BY <2>1, <2>2
<1> QED
  BY <1>2, <1>3, <1>4, Zenon

-----------------------------------------------------------------------------
(* The steering.                                                           *)

\* A callback may still straighten it.
Near(f) == [p \in {0, 1} |-> {f[p], 0}]

SteerInv ==
  HasSteer => \E f \in Headings(last) \cup {Straight} :
                Settles(todo, "steer", {0, 1}, steer, Near(f))

\* What is left of a callback writes nothing else.
LEMMA OthersSteer ==
  ASSUME OneConnection, TypeOK, OthersInv, NEW F, \A p \in {0, 1} : 0 \in F[p],
         NEW t \in Threads, t # Conn
  PROVE  Only(todo[t], "steer", F)
<1>1. todo[t] \in Seq(Writes) /\ CallbackLeft(todo[t])
  BY DEF TypeOK, OthersInv
<1> QED
  BY <1>1, LeftParts

LEMMA SteerKept ==
  ASSUME OneConnection, TypeOK, OthersInv, SteerInv, [Next]_vars
  PROVE  SteerInv'
<1> DEFINE Pointed(td, pins, f) == Settles(td, "steer", {0, 1}, pins, Near(f))
<1> SUFFICES ASSUME HasSteer
             PROVE  \E f \in Headings(last') \cup {Straight} : Pointed(todo', steer', f)
  BY DEF SteerInv, Headings
<1>1. PICK f \in Headings(last) \cup {Straight} : Pointed(todo, steer, f)
  BY DEF SteerInv
<1>0. todo \in [Threads -> Seq(Writes)] /\ Conn \in Threads /\ IoThread \in Threads
  BY TheThreads DEF TypeOK
<1>00. \A g : \A p \in {0, 1} : 0 \in Near(g)[p] /\ Point(g)[p] \subseteq Near(g)[p]
  BY DEF Near, Point
<1>2. CASE SpeedThread \/ UNCHANGED <<todo, runState, ctrlPwm, speedLevel, steer, last>>
  <2>1. UNCHANGED <<todo, steer, last>>
    BY <1>2, ThreadWrites
  <2> QED
    BY <1>1, <2>1
<1>3. ASSUME NEW r \in Asked, Taken(r)
      PROVE  \E g \in Headings(last') \cup {Straight} : Pointed(todo', steer', g)
  <2>0. /\ todo[Conn] = <<>> /\ todo' = [todo EXCEPT ![Conn] = Handler(r)]
        /\ last' = r /\ steer' = steer
    BY <1>3, Zenon DEF Taken
  <2>1. Steers(Handler(r), r) /\ Handler(r) \in Seq(Writes)
    BY HandlerParts, HandlerWrites
  <2>2. CASE Turning(r)
    <3>1. PICK g \in Headings(r) \cup {Straight} :
            Only(Handler(r), "steer", Point(g)) /\ Covers(Handler(r), "steer", {0, 1})
      BY <2>1, <2>2 DEF Steers
    <3>2. Only(Handler(r), "steer", Near(g))
      <4>1. \A i \in DOMAIN Handler(r) :
              Handler(r)[i].do = "steer" => Handler(r)[i].at \in {0, 1}
        BY <2>1, KindFacts
      <4> QED
        BY <1>00, <3>1, <4>1 DEF Only
    <3>3. \A u \in Threads : u # Conn => Only(todo[u], "steer", Near(g))
      BY <1>00, OthersSteer
    <3>4. Pointed([todo EXCEPT ![Conn] = Handler(r)], steer, g)
      BY <1>0, <3>1, <3>2, <3>3, Covered
    <3> QED
      BY <2>0, <3>1, <3>4
  <2>3. CASE ~Turning(r)
    <3>1. f \in Headings(r) \cup {Straight}
      <4>1. Headings(r) = {Left, Right}
        BY <2>3 DEF Headings, Turning
      <4>2. Headings(last) \subseteq {Left, Right}
        BY DEF Headings
      <4> QED
        BY <1>1, <4>1, <4>2
    <3>2. Only(Handler(r), "steer", Near(f))
      BY <2>1, <2>3, NoneOnly DEF Steers
    <3>3. Pointed([todo EXCEPT ![Conn] = Handler(r)], steer, f)
      BY <1>0, <1>1, <2>0, <3>2, Begun
    <3> QED
      BY <2>0, <3>1, <3>3
  <2> QED
    BY <2>2, <2>3
<1>4. ASSUME NEW t \in Threads, Run(t)
      PROVE  \E g \in Headings(last') \cup {Straight} : Pointed(todo', steer', g)
  <2>1. /\ \A p \in {0, 1} : steer'[p] = IF Head(todo[t]).do = "steer" /\ Head(todo[t]).at = p
                                         THEN Head(todo[t]).val ELSE steer[p]
        /\ last' = last
    BY <1>4, RunWrites
  <2>2. Pointed(todo', steer', f)
    BY <1>1, <1>4, <2>1, RunKeeps
  <2> QED
    BY <1>1, <2>1, <2>2
<1>5. ASSUME NEW tm \in Timers, Called(tm)
      PROVE  \E g \in Headings(last') \cup {Straight} : Pointed(todo', steer', g)
  <2>1. /\ todo[IoThread] = <<>> /\ todo' = [todo EXCEPT ![IoThread] = Callback(tm)]
        /\ last' = last /\ steer' = steer
    BY <1>5, Zenon DEF Called
  <2>2. Only(Callback(tm), "steer", Near(f))
    BY <1>00, CallbackWrites, CallbackQuiet, LeftParts
  <2>3. Pointed([todo EXCEPT ![IoThread] = Callback(tm)], steer, f)
    BY <1>0, <1>1, <2>1, <2>2, Begun
  <2> QED
    BY <1>1, <2>1, <2>3
<1> QED
  BY <1>2, <1>3, <1>4, <1>5, ServedSteps

\* The steering of the car points where the request served last says, or straight,
\* whichever timers fire in between and wherever in a handler their callbacks run.
THEOREM SteerObeys == ASSUME OneConnection PROVE Spec => []SteerObeysLast
<1>1. Init => SteerInv
  <2> SUFFICES ASSUME Init PROVE SteerInv
    OBVIOUS
  <2>1. (\A t \in Threads : todo[t] = <<>>) /\ steer = Straight
    BY DEF Init, Straight
  <2>2. \A p \in {0, 1} : steer[p] \in Near(Straight)[p]
    BY <2>1 DEF Near, Straight
  <2>3. \A t \in Threads : Only(todo[t], "steer", Near(Straight))
    BY <2>1, EmptyNone, NoneOnly
  <2>4. Settles(todo, "steer", {0, 1}, steer, Near(Straight))
    BY <2>2, <2>3, AlreadySettled
  <2> QED
    BY <2>4 DEF SteerInv
<1>2. SteerInv /\ TypeOK => SteerObeysLast
  <2> SUFFICES ASSUME SteerInv, TypeOK, Idle, HasSteer
               PROVE  steer \in Headings(last) \cup {Straight}
    BY DEF SteerObeysLast
  <2>1. PICK f \in Headings(last) \cup {Straight} :
          Settles(todo, "steer", {0, 1}, steer, Near(f))
    BY DEF SteerInv
  <2>2. \A p \in {0, 1} : steer[p] \in Near(f)[p]
    BY <2>1, Settled DEF Idle
  <2>3. f \in {Left, Right, Straight} /\ steer \in [{0, 1} -> {0, 1}]
    BY DEF TypeOK, Headings
  <2>4. \A p \in {0, 1} : steer[p] \in {f[p], 0}
    BY <2>2 DEF Near
  <2>5. steer = f \/ steer = Straight
    BY <2>3, <2>4 DEF Left, Right, Straight
  <2> QED
    BY <2>5
<1>3. TypeOK /\ OthersInv /\ SteerInv /\ [Next]_vars => SteerInv'
  BY SteerKept
<1> QED
  BY <1>1, <1>2, <1>3, OthersTyped, PTL DEF Spec

-----------------------------------------------------------------------------
(* The duties.                                                             *)

\* The level and the duties go to the same one, though not at the same time.
LevelInv ==
  \E l \in DOMAIN PwmVect :
    /\ Settles(todo, "level", {0}, [x \in {0} |-> speedLevel], LevelOf(l))
    /\ Settles(todo, "pwm", Motors, ctrlPwm, DutyOf(l))

LEMMA OthersLevel ==
  ASSUME OneConnection, TypeOK, OthersInv, NEW k \in {"level", "pwm"}, NEW F,
         NEW t \in Threads, t # Conn
  PROVE  Only(todo[t], k, F)
<1>1. todo[t] \in Seq(Writes) /\ CallbackLeft(todo[t])
  BY DEF TypeOK, OthersInv
<1>2. None(todo[t], k)
  BY <1>1, LeftParts
<1> QED
  BY <1>2, NoneOnly

LEMMA LevelKept ==
  ASSUME OneConnection, TypeOK, OthersInv, LevelInv, [Next]_vars
  PROVE  LevelInv'
<1> DEFINE At(td, level, duty, l) ==
             /\ Settles(td, "level", {0}, [x \in {0} |-> level], LevelOf(l))
             /\ Settles(td, "pwm", Motors, duty, DutyOf(l))
<1> SUFFICES \E l \in DOMAIN PwmVect : At(todo', speedLevel', ctrlPwm', l)
  BY DEF LevelInv, LevelOf, DutyOf
<1>1. PICK l \in DOMAIN PwmVect : At(todo, speedLevel, ctrlPwm, l)
  BY DEF LevelInv
<1>0. todo \in [Threads -> Seq(Writes)] /\ Conn \in Threads /\ IoThread \in Threads
  BY TheThreads DEF TypeOK
<1>2. CASE SpeedThread \/ UNCHANGED <<todo, runState, ctrlPwm, speedLevel, steer, last>>
  <2>1. UNCHANGED <<todo, ctrlPwm, speedLevel>>
    BY <1>2, ThreadWrites
  <2> QED
    BY <1>1, <2>1
<1>3. ASSUME NEW t \in Threads, NEW s, todo[t] = <<>>, todo' = [todo EXCEPT ![t] = s],
             None(s, "level") /\ None(s, "pwm"), UNCHANGED <<ctrlPwm, speedLevel>>
      PROVE  \E j \in DOMAIN PwmVect : At(todo', speedLevel', ctrlPwm', j)
  <2>1. Only(s, "level", LevelOf(l)) /\ Only(s, "pwm", DutyOf(l))
    BY <1>3, NoneOnly
  <2>2. At([todo EXCEPT ![t] = s], speedLevel, ctrlPwm, l)
    BY <1>0, <1>1, <1>3, <2>1, Begun
  <2> QED
    BY <1>3, <2>2
<1>4. ASSUME NEW r \in Asked, Taken(r)
      PROVE  \E j \in DOMAIN PwmVect : At(todo', speedLevel', ctrlPwm', j)
  <2>0. /\ todo[Conn] = <<>> /\ todo' = [todo EXCEPT ![Conn] = Handler(r)]
        /\ UNCHANGED <<ctrlPwm, speedLevel>>
    BY <1>4, Zenon DEF Taken
  <2>1. Levels(Handler(r))
    BY HandlerParts
  <2>2. CASE None(Handler(r), "level") /\ None(Handler(r), "pwm")
    <3> HIDE DEF At
    <3> QED
      BY <1>0, <1>3, <2>0, <2>2
  <2>3. CASE ~(None(Handler(r), "level") /\ None(Handler(r), "pwm"))
    <3>1. PICK j \in DOMAIN PwmVect :
            /\ Only(Handler(r), "level", LevelOf(j)) /\ Covers(Handler(r), "level", {0})
            /\ Only(Handler(r), "pwm", DutyOf(j)) /\ Covers(Handler(r), "pwm", Motors)
      BY <2>1, <2>3 DEF Levels
    <3>2. \A u \in Threads : u # Conn => /\ Only(todo[u], "level", LevelOf(j))
                                         /\ Only(todo[u], "pwm", DutyOf(j))
      BY OthersLevel
    <3>3. At([todo EXCEPT ![Conn] = Handler(r)], speedLevel, ctrlPwm, j)
      BY <1>0, <3>1, <3>2, Covered
    <3> QED
      BY <2>0, <3>3
  <2> QED
    BY <2>2, <2>3
<1>5. ASSUME NEW t \in Threads, Run(t)
      PROVE  \E j \in DOMAIN PwmVect : At(todo', speedLevel', ctrlPwm', j)
  <2> DEFINE w == Head(todo[t])
  <2>1. \A m \in Motors : ctrlPwm'[m] = IF w.do = "pwm" /\ w.at = m THEN w.val ELSE ctrlPwm[m]
    BY <1>5, RunWrites
  <2>2. /\ speedLevel' = IF w.do = "level" THEN w.val ELSE speedLevel
        /\ w.do = "level" => w.at = 0
    BY <1>5, RunWrites
  <2>3. \A x \in {0} : [y \in {0} |-> speedLevel'][x]
                         = IF w.do = "level" /\ w.at = x THEN w.val
                                                         ELSE [y \in {0} |-> speedLevel][x]
    BY <2>2
  <2>4. Settles(todo', "pwm", Motors, ctrlPwm', DutyOf(l))
    BY <1>1, <1>5, <2>1, RunKeeps
  <2>5. Settles(todo', "level", {0}, [y \in {0} |-> speedLevel'], LevelOf(l))
    BY <1>1, <1>5, <2>3, RunKeeps
  <2> QED
    BY <2>4, <2>5
<1>6. ASSUME NEW tm \in Timers, Called(tm)
      PROVE  \E j \in DOMAIN PwmVect : At(todo', speedLevel', ctrlPwm', j)
  <2>1. /\ todo[IoThread] = <<>> /\ todo' = [todo EXCEPT ![IoThread] = Callback(tm)]
        /\ UNCHANGED <<ctrlPwm, speedLevel>>
    BY <1>6, Zenon DEF Called
  <2>2. None(Callback(tm), "level") /\ None(Callback(tm), "pwm")
    BY CallbackParts
  <2> HIDE DEF At
  <2> QED
    BY <1>0, <1>3, <2>1, <2>2
<1> HIDE DEF At
<1> QED
  BY <1>2, <1>4, <1>5, <1>6, ServedSteps

\* Every motor has the duty of the speed level between two requests of the
\* connection.
THEOREM LevelsAgree == ASSUME OneConnection PROVE Spec => []LevelConsistent
<1>1. Init => LevelInv
  <2> SUFFICES ASSUME Init PROVE LevelInv
    OBVIOUS
  <2>1. /\ \A t \in Threads : todo[t] = <<>>
        /\ speedLevel = 1 /\ ctrlPwm = PwmVect[1]
        /\ 1 \in DOMAIN PwmVect
    BY CtrlAssumption DEF Init
  <2>2. /\ \A x \in {0} : [y \in {0} |-> speedLevel][x] \in LevelOf(1)[x]
        /\ \A m \in Motors : ctrlPwm[m] \in DutyOf(1)[m]
    BY <2>1 DEF LevelOf, DutyOf
  <2>3. \A t \in Threads : Only(todo[t], "level", LevelOf(1)) /\ Only(todo[t], "pwm", DutyOf(1))
    BY <2>1, EmptyNone, NoneOnly
  <2>4. /\ Settles(todo, "level", {0}, [y \in {0} |-> speedLevel], LevelOf(1))
        /\ Settles(todo, "pwm", Motors, ctrlPwm, DutyOf(1))
    BY <2>2, <2>3, AlreadySettled
  <2> QED
    BY <2>1, <2>4 DEF LevelInv
<1>2. LevelInv /\ TypeOK => LevelConsistent
  <2> SUFFICES ASSUME LevelInv, TypeOK, Idle PROVE ctrlPwm = PwmVect[speedLevel]
    BY DEF LevelConsistent
  <2>1. PICK l \in DOMAIN PwmVect :
          /\ Settles(todo, "level", {0}, [x \in {0} |-> speedLevel], LevelOf(l))
          /\ Settles(todo, "pwm", Motors, ctrlPwm, DutyOf(l))
    BY DEF LevelInv
  <2>2. /\ \A x \in {0} : [y \in {0} |-> speedLevel][x] \in LevelOf(l)[x]
        /\ \A m \in Motors : ctrlPwm[m] \in DutyOf(l)[m]
    BY <2>1, Settled DEF Idle
  <2>3. speedLevel = l /\ \A m \in Motors : ctrlPwm[m] = PwmVect[l][m]
    BY <2>2 DEF LevelOf, DutyOf
  <2>4. ctrlPwm \in [Motors -> 0 .. MaxPwm] /\ PwmVect[l] \in [Motors -> Pwms]
    BY CtrlAssumption, MotorFacts DEF TypeOK, Speed!TypeOK, Motors
  <2> QED
    BY <2>3, <2>4
<1>3. TypeOK /\ OthersInv /\ LevelInv /\ [Next]_vars => LevelInv'
  BY LevelKept
<1> QED
  BY <1>1, <1>2, <1>3, OthersTyped, PTL DEF Spec

-----------------------------------------------------------------------------
(* The wheels.                                                             *)

\* A handler that calls setCtrlSteps may turn them either way.
WheelInv ==
  /\ Settles(todo, "state", Motors, runState, Allowed(last))
  /\ None(todo[Conn], "call") \/ Free(Allowed(last))

LEMMA StopAllowed == \A r : \A m \in Motors : Stop \in Allowed(r)[m]
  BY DEF Allowed

\* What is left of a callback stops wheels.
LEMMA OthersWheels ==
  ASSUME OneConnection, TypeOK, OthersInv, NEW F, \A m \in Motors : Stop \in F[m],
         NEW t \in Threads, t # Conn
  PROVE  Only(todo[t], "state", F)
<1>1. todo[t] \in Seq(Writes) /\ CallbackLeft(todo[t])
  BY DEF TypeOK, OthersInv
<1> QED
  BY <1>1, LeftParts

\* The speed thread stops a wheel at most.
LEMMA StoppedSettles ==
  ASSUME NEW td, NEW now, NEW next, NEW F, \A m \in Motors : Stop \in F[m],
         \A m \in Motors : next[m] \in {now[m], Stop}, Settles(td, "state", Motors, now, F)
  PROVE  Settles(td, "state", Motors, next, F)
<1>1. \A m \in Motors : now[m] \in F[m] => next[m] \in F[m]
  OBVIOUS
<1> QED
  BY <1>1, Zenon DEF Settles

LEMMA WheelKept ==
  ASSUME OneConnection, TypeOK, OthersInv, WheelInv, [Next]_vars
  PROVE  WheelInv'
<1> DEFINE Goes(td, state, r) == /\ Settles(td, "state", Motors, state, Allowed(r))
                                 /\ None(td[Conn], "call") \/ Free(Allowed(r))
<1> SUFFICES Goes(todo', runState', last')
  BY DEF WheelInv, Allowed, Directions
<1>1. Goes(todo, runState, last)
  BY DEF WheelInv
<1>0. todo \in [Threads -> Seq(Writes)] /\ Conn \in Threads /\ IoThread \in Threads
  BY TheThreads DEF TypeOK
<1>2. CASE SpeedThread
  <2>1. UNCHANGED <<todo, last>> /\ \A m \in Motors : runState'[m] \in {runState[m], Stop}
    BY <1>2, ThreadWrites
  <2>2. Settles(todo, "state", Motors, runState', Allowed(last))
    BY <1>1, <2>1, StopAllowed, StoppedSettles
  <2> QED
    BY <1>1, <2>1, <2>2
<1>3. CASE UNCHANGED <<todo, runState, ctrlPwm, speedLevel, steer, last>>
  BY <1>1, <1>3
<1>4. ASSUME NEW r \in Asked, Taken(r) PROVE Goes(todo', runState', last')
  <2>0. /\ todo[Conn] = <<>> /\ todo' = [todo EXCEPT ![Conn] = Handler(r)]
        /\ last' = r /\ runState' = runState
    BY <1>4, Zenon DEF Taken
  <2>1. Wheels(Handler(r), r) /\ (None(Handler(r), "call") \/ Free(Allowed(r)))
    BY HandlerParts
  <2>2. \A u \in Threads : u # Conn => Only(todo[u], "state", Allowed(r))
    BY StopAllowed, OthersWheels
  <2>3. Only(Handler(r), "state", Allowed(r))
    BY <2>1, Zenon DEF Wheels
  <2> DEFINE ud == [todo EXCEPT ![Conn] = Handler(r)]
  <2>4. ud[Conn] = Handler(r) /\ \A u \in Threads : u # Conn => ud[u] = todo[u]
    BY <1>0
  <2>5. Settles(ud, "state", Motors, runState, Allowed(r))
    <3>1. CASE Covers(Handler(r), "state", Motors)
      BY <1>0, <2>2, <2>3, <3>1, Covered
    <3>2. CASE Free(Allowed(r))
      <4>1. runState \in [Motors -> Speed!MotorState]
        BY DEF TypeOK, Speed!TypeOK, Motors
      <4>2. \A m \in Motors : runState[m] \in Allowed(r)[m]
        BY <3>2, <4>1 DEF Free
      <4> HIDE DEF ud
      <4>3. \A u \in Threads : Only(ud[u], "state", Allowed(r))
        BY <2>2, <2>3, <2>4, Zenon
      <4> QED
        BY <4>2, <4>3, AlreadySettled
    <3> QED
      BY <2>1, <3>1, <3>2 DEF Wheels
  <2> HIDE DEF ud
  <2>6. todo' = ud
    BY <2>0 DEF ud
  <2> QED
    BY <2>0, <2>1, <2>4, <2>5, <2>6, Zenon
<1>5. ASSUME NEW t \in Threads, Run(t) PROVE Goes(todo', runState', last')
  <2> DEFINE w == Head(todo[t])
             F == Allowed(last)
  <2>1. /\ \A m \in Motors : runState'[m] = IF w.do = "state" /\ w.at = m
                                            THEN w.val ELSE runState[m]
        /\ last' = last
    BY <1>5, RunWrites
  <2>2. Settles(todo, "state", Motors, runState, F)
        /\ (None(todo[Conn], "call") \/ Free(F))
    BY <1>1
  <2>3. None(todo[t], "call") \/ Free(F)
    <3> HIDE DEF F
    <3> QED
      BY <2>2, OthersCalls
  <2>4. Settles(todo', "state", Motors, runState', F)
    <3> HIDE DEF F
    <3> QED
      BY <1>5, <2>1, <2>2, <2>3, RunKeeps
  <2>5. None(todo'[Conn], "call") \/ Free(F)
    BY <1>5, <2>2, RunCalls
  <2> QED
    BY <2>1, <2>4, <2>5
<1>6. ASSUME NEW tm \in Timers, Called(tm) PROVE Goes(todo', runState', last')
  <2>0. /\ todo[IoThread] = <<>> /\ todo' = [todo EXCEPT ![IoThread] = Callback(tm)]
        /\ last' = last /\ runState' = runState
    BY <1>6, Zenon DEF Called
  <2>1. Only(Callback(tm), "state", Allowed(last)) /\ None(Callback(tm), "call")
    BY CallbackParts, StopAllowed
  <2>2. Settles([todo EXCEPT ![IoThread] = Callback(tm)], "state", Motors, runState,
                Allowed(last))
    BY <1>0, <1>1, <2>0, <2>1, Begun
  <2>3. todo'[Conn] = todo[Conn] \/ todo'[Conn] = Callback(tm)
    BY <1>0, <2>0
  <2>4. None(todo'[Conn], "call") \/ Free(Allowed(last))
    BY <1>1, <2>1, <2>3
  <2> QED
    BY <2>0, <2>2, <2>4
<1> HIDE DEF Goes
<1> QED
  BY <1>2, <1>3, <1>4, <1>5, <1>6, ServedSteps

\* No wheel turns against the request served last, whatever the speed thread does
\* in between and wherever in a handler the callbacks of the timers run.
THEOREM WheelsObey == ASSUME OneConnection PROVE Spec => []WheelsObeyLast
<1>1. Init => WheelInv
  <2> SUFFICES ASSUME Init PROVE WheelInv
    OBVIOUS
  <2>1. (\A t \in Threads : todo[t] = <<>>) /\ \A m \in Motors : runState[m] = Stop
    BY DEF Init, Speed!Init, Motors, Stop
  <2>2. \A t \in Threads : Only(todo[t], "state", Allowed(last)) /\ None(todo[t], "call")
    BY <2>1, EmptyNone, NoneOnly
  <2>3. \A m \in Motors : runState[m] \in Allowed(last)[m]
    BY <2>1, StopAllowed
  <2> QED
    BY <2>2, <2>3, TheThreads, AlreadySettled DEF WheelInv
<1>2. WheelInv => WheelsObeyLast
  <2> SUFFICES ASSUME WheelInv, Idle, NEW m \in Motors
               PROVE  runState[m] \in Directions(last, m) \cup {Stop}
    BY DEF WheelsObeyLast
  <2>1. runState[m] \in Allowed(last)[m]
    BY Settled DEF WheelInv, Idle
  <2> QED
    BY <2>1 DEF Allowed
<1>3. TypeOK /\ OthersInv /\ WheelInv /\ [Next]_vars => WheelInv'
  BY WheelKept
<1> QED
  BY <1>1, <1>2, <1>3, OthersTyped, PTL DEF Spec

-----------------------------------------------------------------------------
(* The timers.                                                             *)

TimedRun(r) == r.fn = "setRunTime"

\* s ends by starting the timer, and stops none.
Starts(s, tm) ==
  /\ None(s, "off") /\ Len(s) > 1
  /\ s[Len(s) - 1] = TimerWrite("on", tm) /\ s[Len(s)] = TimerWrite("arm", tm)

\* What is left of such a sequence.
Arms(s, tm) ==
  /\ s # <<>> /\ s[Len(s)] = TimerWrite("arm", tm)
  /\ running[tm] \/ (Len(s) > 1 /\ s[Len(s) - 1] = TimerWrite("on", tm))

\* No thread has yet to stop the timer.
NoOff(tm) ==
  \A t \in Threads : \A i \in DOMAIN todo[t] : todo[t][i] # TimerWrite("off", tm)

\* The handler has still to arm the timer, or is done and the callback will come.
UnderWay(tm) ==
  /\ NoOff(tm)
  /\ Arms(todo[Conn], tm) \/ (CallbackLeft(todo[Conn]) /\ Awaits(tm))

Halted == [m \in Motors |-> {Stop}]
RunEnds == Settles(todo, "state", Motors, runState, Halted)
TurnEnds == Settles(todo, "steer", {0, 1}, steer, Point(Straight))

\* The end has come, is being carried out, or is under way.
RunInv ==
  TimedRun(last) => None(todo[Conn], "call") /\ (RunEnds \/ UnderWay("run"))
TurnInv ==
  HasSteer /\ TurnsForATime(last) /\ ~crossed
    => None(todo[Conn], "call") /\ (TurnEnds \/ UnderWay("steer"))

LEMMA Lengths ==
  ASSUME NEW s \in Seq(Writes), NEW u \in Seq(Writes)
  PROVE  Len(s) \in Nat /\ Len(u) \in Nat /\ Len(s \o u) = Len(s) + Len(u)
  OBVIOUS

LEMMA OneTwoMore == \A n \in Nat : n > 0 => (n = 1 /\ ~(n > 1)) \/ (n > 1 /\ (n = 2 \/ n > 2))
  OBVIOUS

LEMMA StartJoined ==
  ASSUME NEW s \in Seq(Writes), NEW tm \in Timers, None(s, "off")
  PROVE  Starts(s \o StartTimer(tm), tm)
<1> DEFINE u == StartTimer(tm)
<1>1. /\ u \in Seq(Writes) /\ Len(u) = 2 /\ DOMAIN u = {1, 2}
      /\ u[1] = TimerWrite("on", tm) /\ u[2] = TimerWrite("arm", tm)
  BY TimerWrites DEF StartTimer
<1>2. None(u, "off")
  BY DEF StartTimer, None, TimerWrite
<1> HIDE DEF u
<1>3. None(s \o u, "off")
  BY <1>1, <1>2, JoinNone
<1>4. /\ Len(s \o u) = Len(s) + 2 /\ Len(s) \in Nat
      /\ (s \o u)[Len(s) + 1] = u[1] /\ (s \o u)[Len(s) + 2] = u[2]
  <2>1. Len(s \o u) = Len(s) + 2 /\ Len(s) \in Nat
    BY <1>1, Lengths, Zenon
  <2>2. /\ (s \o u)[1 + Len(s)] = u[1] /\ (s \o u)[2 + Len(s)] = u[2]
    BY <1>1, JoinedElements
  <2>3. 1 + Len(s) = Len(s) + 1 /\ 2 + Len(s) = Len(s) + 2
    BY <2>1
  <2> QED
    BY <2>1, <2>2, <2>3, Zenon
<1>5. Len(s) + 2 > 1 /\ (Len(s) + 2) - 1 = Len(s) + 1
  BY <1>4
<1> QED
  BY <1>1, <1>3, <1>4, <1>5 DEF Starts, u

\* A timed run ends by starting the run timer, and nothing in it stops one.
LEMMA RunStarts == ASSUME NEW time \in Int PROVE Starts(SetRunTime(time), "run")
<1> DEFINE n == IF time > 0 THEN 1 ELSE -1
           a == <<Write("mode", 0, Speed!TimeMode)>>
           b == [m \in Motors |-> Write("reset", m, 0)]
           c == All(Sign(n))
<1>1. /\ a \in Seq(Writes) /\ b \in Seq(Writes) /\ c \in Seq(Writes)
      /\ SetAllMotorState(n) = c \o <<>>
  <2>1. n # 0 /\ Sign(n) \in Speed!MotorState
    BY SignType
  <2>2. SetAllMotorState(n) = c \o <<>>
    BY <2>1 DEF SetAllMotorState
  <2> QED
    BY <2>1, <2>2, ModeWrite, WriteFacts, MotorWrites, AllWrites
<1>2. None(a, "off") /\ None(b, "off")
  BY DEF None, Write
<1>3. None(c, "off")
  <2>1. MotorNum \in Nat /\ Motors = 1 .. MotorNum
    BY MotorFacts
  <2>2. c = [m \in Motors |-> Write("state", m, Sign(n))]
    BY <2>1 DEF All, States
  <2> HIDE DEF n
  <2>3. \A m \in DOMAIN c : c[m].do = "state"
    BY <2>2 DEF Write
  <2> QED
    BY <2>3 DEF None
<1>4. SetRunTime(time) = ((a \o b) \o SetAllMotorState(n)) \o StartTimer("run")
  BY DEF SetRunTime
<1> HIDE DEF a, b, c, n
<1>5. c \o <<>> \in Seq(Writes) /\ None(c \o <<>>, "off")
  BY <1>1, <1>3, EmptyNone, NoWrite, Then, JoinNone
<1>6. a \o b \in Seq(Writes) /\ None(a \o b, "off")
  BY <1>1, <1>2, Then, JoinNone
<1>7. (a \o b) \o (c \o <<>>) \in Seq(Writes) /\ None((a \o b) \o (c \o <<>>), "off")
  BY <1>5, <1>6, Then, JoinNone
<1>8. "run" \in Timers
  BY DEF Timers
<1> QED
  BY <1>1, <1>4, <1>7, <1>8, StartJoined

LEMMA TurnStarts ==
  ASSUME HasSteer, NEW dir \in Int, dir # 0, NEW time \in Nat, time > 0
  PROVE  Starts(Turn(dir, time), "steer")
<1> DEFINE a == Write("steer", 0, IF dir < 0 THEN 1 ELSE 0)
           b == Write("steer", 1, IF dir > 0 THEN 1 ELSE 0)
<1>1. <<a, b>> \in Seq(Writes) /\ "steer" \in Timers
  BY WriteFacts DEF Timers
<1>2. None(<<a, b>>, "off")
  <2>1. a.do = "steer" /\ b.do = "steer"
    BY DEF Write
  <2> HIDE DEF a, b
  <2> QED
    BY <2>1 DEF None
<1>3. Turn(dir, time) = <<a, b>> \o StartTimer("steer")
  BY DEF Turn
<1> HIDE DEF a, b
<1> QED
  BY <1>1, <1>2, <1>3, StartJoined

\* One write that does not stop the timer.
LEMMA TimerWritten ==
  ASSUME TypeOK, NEW t \in Threads, Run(t), NEW tm \in Timers,
         Head(todo[t]) # TimerWrite("off", tm)
  PROVE  LET w == Head(todo[t]) IN
         /\ running[tm] => running'[tm]
         /\ Awaits(tm) => Awaits(tm)'
         /\ w = TimerWrite("on", tm) => running'[tm]
         /\ w = TimerWrite("arm", tm) /\ running[tm] => Awaits(tm)'
<1> DEFINE w == Head(todo[t])
<1>1. todo[t] # <<>> /\ w \in Writes
  BY RunTail, TailWrites
<1>2. /\ w = TimerWrite("on", tm) => w.do = "on" /\ w.timer = tm
      /\ w = TimerWrite("arm", tm) => w.do = "arm" /\ w.timer = tm
      /\ w.do = "off" => w.timer # tm
  <2>1. w.do = "off" => w = TimerWrite("off", w.timer)
    BY <1>1 DEF Writes, TimerWrite
  <2> HIDE DEF w
  <2>2. w # TimerWrite("off", tm)
    BY DEF w
  <2> QED
    BY <2>1, <2>2 DEF TimerWrite
<1>3. running \in [Timers -> BOOLEAN] /\ wait \in [Timers -> BOOLEAN]
  BY DEF TypeOK
<1>4. CASE MotorWrite(t) \/ CallWrite(t)
  <2>1. UNCHANGED <<running, wait, ready>> /\ w.do \notin {"on", "arm"}
    BY <1>4 DEF MotorWrite, CallWrite, timerVars
  <2> HIDE DEF w
  <2> QED
    BY <1>2, <2>1 DEF Awaits, w
<1>5. CASE CtrlWrite(t)
  <2>1. /\ running' = IF w.do \in {"on", "off"}
                      THEN [running EXCEPT ![w.timer] = (w.do = "on")] ELSE running
        /\ wait' = IF w.do = "arm" /\ running[w.timer]
                   THEN [wait EXCEPT ![w.timer] = TRUE] ELSE wait
        /\ ready' = ready
    BY <1>5, Zenon DEF CtrlWrite
  <2> HIDE DEF w
  <2>2. /\ w.do = "on" /\ w.timer = tm => running'[tm]
        /\ running[tm] => running'[tm]
        /\ wait[tm] => wait'[tm]
        /\ running[tm] /\ w.do = "arm" /\ w.timer = tm => wait'[tm] /\ running'[tm]
    BY <1>2, <1>3, <2>1
  <2> QED
    BY <1>2, <2>1, <2>2 DEF Awaits, w
<1> QED
  BY <1>4, <1>5 DEF Run

LEMMA RunGoesOn ==
  ASSUME OneConnection, TypeOK, OthersInv, NEW t \in Threads, Run(t),
         None(todo[Conn], "call"), NEW tm \in Timers, UnderWay(tm)
  PROVE  UnderWay(tm)'
<1> DEFINE s == todo[t]
<1>1. None(s, "call")
  BY OthersCalls
<1>2. /\ s # <<>> /\ s \in Seq(Writes)
      /\ todo'[t] = Tail(s) /\ \A u \in Threads : u # t => todo'[u] = todo[u]
  BY <1>1, RunTail
<1>3. /\ Head(s) = s[1] /\ 1 \in DOMAIN s
      /\ \A i \in DOMAIN Tail(s) : i + 1 \in DOMAIN s /\ Tail(s)[i] = s[i + 1]
  BY <1>2
<1>4. Head(s) # TimerWrite("off", tm)
  BY <1>3, Zenon DEF UnderWay, NoOff
<1>5. /\ running[tm] => running'[tm]
      /\ Awaits(tm) => Awaits(tm)'
      /\ Head(s) = TimerWrite("on", tm) => running'[tm]
      /\ Head(s) = TimerWrite("arm", tm) /\ running[tm] => Awaits(tm)'
  BY <1>4, TimerWritten
<1>6. NoOff(tm)'
  <2> SUFFICES ASSUME NEW u \in Threads, NEW i \in DOMAIN todo'[u]
               PROVE  todo'[u][i] # TimerWrite("off", tm)
    BY DEF NoOff, TimerWrite
  <2>1. CASE u = t
    <3>1. i + 1 \in DOMAIN s /\ todo'[u][i] = s[i + 1]
      BY <1>2, <1>3, <2>1
    <3>2. s[i + 1] # TimerWrite("off", tm)
      BY <3>1, Zenon DEF UnderWay, NoOff
    <3> QED
      BY <3>1, <3>2
  <2>2. CASE u # t
    <3>1. todo'[u] = todo[u]
      BY <1>2, <2>2
    <3>2. i \in DOMAIN todo[u]
      BY <3>1
    <3>3. todo[u][i] # TimerWrite("off", tm)
      BY <3>2, Zenon DEF UnderWay, NoOff
    <3> QED
      BY <3>1, <3>3
  <2> QED
    BY <2>1, <2>2
<1>7. Arms(todo[Conn], tm)' \/ (CallbackLeft(todo[Conn])' /\ Awaits(tm)')
  <2>1. CASE t # Conn
    <3>1. todo'[Conn] = todo[Conn]
      BY <1>2, <2>1, TheThreads
    <3> QED
      BY <1>5, <3>1 DEF UnderWay, Arms, CallbackLeft, Quiet
  <2>2. CASE t = Conn /\ CallbackLeft(s) /\ Awaits(tm)
    <3>1. CallbackLeft(Tail(s))
      BY <1>2, <2>2, LeftTail
    <3> QED
      BY <1>2, <1>5, <2>2, <3>1 DEF CallbackLeft, Quiet
  <2>3. CASE t = Conn /\ Arms(s, tm)
    <3>1. /\ s[Len(s)] = TimerWrite("arm", tm)
          /\ running[tm] \/ (Len(s) > 1 /\ s[Len(s) - 1] = TimerWrite("on", tm))
      BY <2>3 DEF Arms
    <3>2. Len(s) \in Nat /\ Len(s) > 0 /\ Len(Tail(s)) = Len(s) - 1
          /\ \A i \in 1 .. Len(s) - 1 : Tail(s)[i] = s[i + 1]
      BY <1>2
    <3> HIDE DEF s
    <3>5. (Len(s) = 1 /\ ~(Len(s) > 1)) \/ (Len(s) > 1 /\ (Len(s) = 2 \/ Len(s) > 2))
      BY <3>2, OneTwoMore, Zenon
    <3>3. CASE Len(s) = 1
      <4>1. Head(s) = TimerWrite("arm", tm) /\ running[tm]
        BY <1>3, <3>1, <3>3
      <4>2. Tail(s) = <<>>
        BY <1>2, <3>2, <3>3
      <4>3. CallbackLeft(<<>>)
        BY DEF CallbackLeft
      <4> QED
        BY <1>2, <1>5, <2>3, <4>1, <4>2, <4>3 DEF CallbackLeft, Quiet
    <3>4. CASE Len(s) > 1
      <4>1. Tail(s) # <<>> /\ Tail(s)[Len(Tail(s))] = TimerWrite("arm", tm)
        BY <3>1, <3>2, <3>4
      <4>2. \/ running'[tm]
            \/ Len(Tail(s)) > 1 /\ Tail(s)[Len(Tail(s)) - 1] = TimerWrite("on", tm)
        <5>1. CASE running[tm]
          BY <1>5, <5>1
        <5>2. CASE ~running[tm] /\ Len(s) = 2
          <6>1. Head(s) = TimerWrite("on", tm)
            BY <1>3, <3>1, <5>2
          <6> QED
            BY <1>5, <6>1
        <5>3. CASE ~running[tm] /\ Len(s) > 2
          <6>1. Len(s) - 1 > 1 /\ Len(s) - 2 \in 1 .. Len(s) - 1
                /\ (Len(s) - 1) - 1 = Len(s) - 2 /\ (Len(s) - 2) + 1 = Len(s) - 1
            BY <3>2, <5>3
          <6>2. Tail(s)[Len(s) - 2] = s[(Len(s) - 2) + 1]
            BY <3>2, <6>1, Zenon
          <6>3. s[Len(s) - 1] = TimerWrite("on", tm)
            BY <3>1, <5>3, Zenon
          <6>4. Tail(s)[(Len(s) - 1) - 1] = TimerWrite("on", tm)
            BY <6>1, <6>2, <6>3
          <6>5. Len(Tail(s)) > 1 /\ Tail(s)[Len(Tail(s)) - 1] = TimerWrite("on", tm)
            BY <3>2, <6>1, <6>4
          <6> QED
            BY <6>5, Zenon
        <5> QED
          BY <3>4, <3>5, <5>1, <5>2, <5>3, Zenon
      <4> QED
        BY <1>2, <2>3, <4>1, <4>2 DEF Arms
    <3> QED
      BY <3>3, <3>4, <3>5, Zenon
  <2> QED
    BY <2>1, <2>2, <2>3 DEF UnderWay
<1> QED
  BY <1>6, <1>7 DEF UnderWay

\* A handler that ends by starting the timer has its end under way.
LEMMA Started ==
  ASSUME NEW s \in Seq(Writes), NEW tm \in Timers, Starts(s, tm)
  PROVE  /\ \A i \in DOMAIN s : s[i] # TimerWrite("off", tm)
         /\ s # <<>> /\ s[Len(s)] = TimerWrite("arm", tm)
         /\ Len(s) > 1 /\ s[Len(s) - 1] = TimerWrite("on", tm)
<1>1. s # <<>>
  BY DEF Starts
<1>2. \A i \in DOMAIN s : s[i] # TimerWrite("off", tm)
  BY DEF Starts, None, TimerWrite
<1> QED
  BY <1>1, <1>2, Zenon DEF Starts

LEMMA StartGoesOn ==
  ASSUME OneConnection, TypeOK, NEW s \in Seq(Writes), NEW tm \in Timers, Starts(s, tm),
         todo' = [todo EXCEPT ![Conn] = s],
         \A t \in Threads : t # Conn =>
           \A i \in DOMAIN todo[t] : todo[t][i] # TimerWrite("off", tm)
  PROVE  UnderWay(tm)'
<1>1. todo'[Conn] = s /\ \A t \in Threads : t # Conn => todo'[t] = todo[t]
  BY TheThreads DEF TypeOK
<1>2. /\ \A i \in DOMAIN s : s[i] # TimerWrite("off", tm)
      /\ s # <<>> /\ s[Len(s)] = TimerWrite("arm", tm)
      /\ Len(s) > 1 /\ s[Len(s) - 1] = TimerWrite("on", tm)
  BY Started
<1>3. \A t \in Threads : \A i \in DOMAIN todo'[t] : todo'[t][i] # TimerWrite("off", tm)
  BY <1>1, <1>2, Zenon
<1>4. NoOff(tm)'
  BY <1>3 DEF NoOff, TimerWrite
<1>5. Arms(todo[Conn], tm)'
  BY <1>1, <1>2 DEF Arms, TimerWrite
<1> QED
  BY <1>4, <1>5 DEF UnderWay

\* Nothing a callback has left stops the run timer.
LEMMA QuietRun ==
  ASSUME NEW s, CallbackLeft(s)
  PROVE  \A i \in DOMAIN s : s[i] # TimerWrite("off", "run")
<1>1. \A w : Quiet(w) => w # TimerWrite("off", "run")
  BY DEF Quiet, TimerWrite
<1> QED
  BY <1>1, Zenon DEF CallbackLeft

\* The steps of the timers: nothing begins, or the callback of own does.
Still ==
  /\ UNCHANGED <<todo, running, runState, steer, last>>
  /\ ~crossed' => ~crossed
  /\ \A tm \in Timers : Awaits(tm) => Awaits(tm)'

Calls(own) ==
  /\ Called(own) /\ UNCHANGED running
  /\ ~crossed' => ~crossed /\ (own = "run" => Idle)
  /\ \A tm \in Timers : tm # own /\ Awaits(tm) => Awaits(tm)'

LEMMA TimerSteps ==
  ASSUME OneConnection, TypeOK, [Next]_vars
  PROVE  \/ SpeedThread
         \/ \E r \in Asked : Taken(r)
         \/ \E t \in Threads : Run(t)
         \/ \E own \in Timers : Calls(own)
         \/ Still
<1>1. ASSUME NEW t \in Servers, Accept(t) PROVE \E r \in Asked : Taken(r)
  <2>1. t = Conn
    BY TheThreads
  <2>2. /\ todo[Conn] = <<>> /\ crossed' = RunEnding
        /\ UNCHANGED <<runState, ctrlPwm, speedLevel, steer, running, wait, ready>>
    BY <1>1, <2>1, Zenon DEF Accept, speedVars, timerVars
  <2>3. PICK r \in Asked : todo' = [todo EXCEPT ![t] = Handler(r)] /\ last' = r
    BY <1>1, Zenon DEF Accept
  <2> QED
    BY <2>1, <2>2, <2>3, Zenon DEF Taken
<1>0. ready \in [Timers -> Nat] /\ wait \in [Timers -> BOOLEAN]
  BY DEF TypeOK
<1>2. ASSUME NEW own \in Timers, TimerExpire(own) PROVE Still
  <2>1. /\ UNCHANGED <<todo, running, runState, steer, last>> /\ crossed' = crossed
        /\ wait' = [wait EXCEPT ![own] = FALSE] /\ ready' = [ready EXCEPT ![own] = @ + 1]
    BY <1>2, Zenon DEF TimerExpire, speedVars, history
  <2>2. \A tm \in Timers : wait[tm] \/ ready[tm] > 0 => wait'[tm] \/ ready'[tm] > 0
    BY <1>0, <2>1
  <2>3. \A tm \in Timers : Awaits(tm) => Awaits(tm)'
    BY <2>1, <2>2 DEF Awaits
  <2> QED
    BY <2>1, <2>3, Zenon DEF Still
<1>3. ASSUME NEW own \in Timers, TimerComplete(own) PROVE Calls(own) \/ Still
  <2>1. /\ todo[IoThread] = <<>> /\ ready' = [ready EXCEPT ![own] = @ - 1]
        /\ todo' = IF running[own] THEN [todo EXCEPT ![IoThread] = Callback(own)] ELSE todo
        /\ UNCHANGED <<runState, ctrlPwm, speedLevel, steer, last, running, wait>>
        /\ crossed' = (crossed \/ (own = "run" /\ running[own] /\ ~Idle))
    BY <1>3, Zenon DEF TimerComplete, speedVars
  <2>2. \A tm \in Timers : tm # own => ready'[tm] = ready[tm]
    BY <1>0, <2>1
  <2>3. \A tm \in Timers : tm # own /\ Awaits(tm) => Awaits(tm)'
    BY <2>1, <2>2 DEF Awaits
  <2>4. ~crossed' => ~crossed /\ (own = "run" /\ running[own] => Idle)
    BY <2>1, Zenon
  <2>5. CASE running[own]
    <3>1. Called(own)
      BY <2>1, <2>5, Zenon DEF Called
    <3> QED
      BY <2>1, <2>3, <2>4, <2>5, <3>1, Zenon DEF Calls
  <2>6. CASE ~running[own]
    <3>1. \A tm \in Timers : Awaits(tm) => Awaits(tm)'
      BY <2>3, <2>6, Zenon DEF Awaits
    <3> QED
      BY <2>1, <2>4, <2>6, <3>1, Zenon DEF Still
  <2> QED
    BY <2>5, <2>6
<1>4. ASSUME UNCHANGED vars PROVE Still
  <2>1. /\ UNCHANGED <<todo, running, runState, steer, last, wait, ready>>
        /\ crossed' = crossed
    BY <1>4, Zenon DEF vars, speedVars, ctrlVars, history
  <2>2. \A tm \in Timers : Awaits(tm) => Awaits(tm)'
    BY <2>1 DEF Awaits
  <2> QED
    BY <2>1, <2>2, Zenon DEF Still
<1> QED
  BY <1>1, <1>2, <1>3, <1>4, Zenon DEF Next

\* The callback brings about what it is for, unless a handler is not done yet.
LEMMA CallEnds ==
  ASSUME OneConnection, TypeOK, OthersInv, NEW own \in Timers, Calls(own),
         NEW k, NEW S, NEW now, NEW F, NEW tm \in Timers,
         \A t \in Threads : CallbackLeft(todo[t]) => Only(todo[t], k, F),
         Only(Callback(own), k, F), Covers(Callback(own), k, S),
         \A i \in DOMAIN Callback(own) : Callback(own)[i] # TimerWrite("off", tm),
         UnderWay(tm)
  PROVE  Settles(todo', k, S, now, F) \/ UnderWay(tm)'
<1>1. /\ todo[IoThread] = <<>> /\ todo' = [todo EXCEPT ![IoThread] = Callback(own)]
      /\ running' = running
  BY Zenon DEF Calls, Called
<1>2. todo \in [Threads -> Seq(Writes)] /\ Conn \in Threads /\ IoThread \in Threads
  BY TheThreads DEF TypeOK
<1>3. CASE CallbackLeft(todo[Conn])
  <2>1. \A t \in Threads : CallbackLeft(todo[t])
    BY <1>3, Zenon DEF OthersInv
  <2>2. \A t \in Threads : Only(todo[t], k, F)
    BY <2>1, Zenon
  <2>3. Settles([todo EXCEPT ![IoThread] = Callback(own)], k, S, now, F)
    BY <1>2, <2>2, Covered
  <2> QED
    BY <1>1, <2>3
<1>4. CASE ~CallbackLeft(todo[Conn])
  <2>1. NoOff(tm) /\ Arms(todo[Conn], tm)
    BY <1>4, Zenon DEF UnderWay
  <2>2. IoThread # Conn
    BY <1>1, <2>1, Zenon DEF Arms
  <2>3. /\ todo'[IoThread] = Callback(own)
        /\ \A t \in Threads : t # IoThread => todo'[t] = todo[t]
    BY <1>1, <1>2
  <2>4. \A t \in Threads : \A i \in DOMAIN todo[t] : todo[t][i] # TimerWrite("off", tm)
    BY <2>1, Zenon DEF NoOff
  <2>5. \A t \in Threads : \A i \in DOMAIN todo'[t] : todo'[t][i] # TimerWrite("off", tm)
    BY <2>3, <2>4, Zenon
  <2>6. NoOff(tm)'
    BY <2>5 DEF NoOff, TimerWrite
  <2>7. Arms(todo[Conn], tm)'
    BY <1>1, <1>2, <2>1, <2>2, <2>3 DEF Arms, TimerWrite
  <2> QED
    BY <2>6, <2>7 DEF UnderWay
<1> QED
  BY <1>3, <1>4

\* What is left of a callback stops and straightens.
LEMMA LeftStops ==
  ASSUME NEW s \in Seq(Writes), CallbackLeft(s)
  PROVE  Only(s, "state", Halted) /\ Only(s, "steer", Point(Straight))
<1>1. /\ \A m \in Motors : Stop \in Halted[m]
      /\ \A p \in {0, 1} : 0 \in Point(Straight)[p]
  BY DEF Halted, Point, Straight
<1> QED
  BY <1>1, LeftParts

LEMMA CallbackEnds ==
  /\ Covers(Callback("run"), "state", Motors)
  /\ \A tm \in Timers : HasSteer => Covers(Callback(tm), "steer", {0, 1})
  /\ \A tm \in Timers :
       /\ Callback(tm) \in Seq(Writes) /\ CallbackLeft(Callback(tm))
       /\ None(Callback(tm), "call")
       /\ Only(Callback(tm), "state", Halted) /\ Only(Callback(tm), "steer", Point(Straight))
       /\ \A i \in DOMAIN Callback(tm) : Callback(tm)[i] # TimerWrite("off", "run")
  /\ \A i \in DOMAIN Callback("steer") : Callback("steer")[i] # TimerWrite("off", "steer")
<1>1. Covers(Callback("run"), "state", Motors)
  <2>1. Callback("run") = SetAllMotorState(0)
    BY DEF Callback
  <2> QED
    BY <2>1, StopParts
<1>2. \A tm \in Timers : HasSteer => Covers(Callback(tm), "steer", {0, 1})
  BY CallbackParts
<1>3. ASSUME NEW tm \in Timers
      PROVE  /\ Callback(tm) \in Seq(Writes) /\ CallbackLeft(Callback(tm))
             /\ None(Callback(tm), "call")
             /\ Only(Callback(tm), "state", Halted) /\ Only(Callback(tm), "steer", Point(Straight))
             /\ \A i \in DOMAIN Callback(tm) : Callback(tm)[i] # TimerWrite("off", "run")
  BY CallbackWrites, CallbackQuiet, LeftStops, QuietRun, CallbackParts
<1>4. \A i \in DOMAIN Callback("steer") : Callback("steer")[i] # TimerWrite("off", "steer")
  BY DEF Callback, Write, TimerWrite
<1> QED
  BY <1>1, <1>2, <1>3, <1>4, Zenon

\* A timed run that is begun starts its timer, one whose end comes is stopped.
LEMMA RunKept ==
  ASSUME OneConnection, TypeOK, OthersInv, RunInv, [Next]_vars
  PROVE  RunInv'
<1> SUFFICES ASSUME TimedRun(last')
             PROVE  /\ None(todo'[Conn], "call")
                    /\ Settles(todo', "state", Motors, runState', Halted) \/ UnderWay("run")'
  BY DEF RunInv, RunEnds, TimedRun, Halted
<1> DEFINE Ended == Settles(todo', "state", Motors, runState', Halted) \/ UnderWay("run")'
<1>0. /\ todo \in [Threads -> Seq(Writes)] /\ Conn \in Threads /\ IoThread \in Threads
      /\ "run" \in Timers
  BY TheThreads DEF TypeOK, Timers
<1>1. ASSUME last' = last
      PROVE  /\ None(todo[Conn], "call")
             /\ Settles(todo, "state", Motors, runState, Halted) \/ UnderWay("run")
  BY <1>1, Zenon DEF RunInv, RunEnds
<1>2. \A m \in Motors : Stop \in Halted[m]
  BY DEF Halted
<1>3. CASE SpeedThread
  <2>1. /\ UNCHANGED <<todo, last, running, wait, ready>>
        /\ \A m \in Motors : runState'[m] \in {runState[m], Stop}
    BY <1>3, ThreadWrites
  <2>2. Settles(todo, "state", Motors, runState, Halted)
          => Settles(todo, "state", Motors, runState', Halted)
    BY <1>2, <2>1, StoppedSettles
  <2>3. UnderWay("run") => UnderWay("run")'
    BY <2>1 DEF UnderWay, NoOff, Arms, Awaits, CallbackLeft, Quiet, TimerWrite
  <2>4. todo' = todo /\ last' = last
    BY <2>1
  <2> QED
    BY <1>1, <2>2, <2>3, <2>4, Zenon
<1>4. ASSUME NEW r \in Asked, Taken(r) PROVE None(todo'[Conn], "call") /\ Ended
  <2>1. todo' = [todo EXCEPT ![Conn] = Handler(r)] /\ last' = r
    BY <1>4, Zenon DEF Taken
  <2>2. Handler(r) = SetRunTime(r.a) /\ r.a \in Int
    BY <2>1, RequestAssumption DEF Handler, TimedRun, Request
  <2>3. None(Handler(r), "call") /\ Starts(Handler(r), "run") /\ Handler(r) \in Seq(Writes)
    BY <2>2, RunTimeParts, RunStarts, HandlerWrites
  <2>4. \A t \in Threads : t # Conn =>
          \A i \in DOMAIN todo[t] : todo[t][i] # TimerWrite("off", "run")
    BY QuietRun, Zenon DEF OthersInv
  <2>5. UnderWay("run")'
    BY <1>0, <2>1, <2>3, <2>4, StartGoesOn
  <2>6. todo'[Conn] = Handler(r)
    BY <1>0, <2>1
  <2> QED
    BY <2>3, <2>5, <2>6, Zenon
<1>5. ASSUME NEW t \in Threads, Run(t) PROVE None(todo'[Conn], "call") /\ Ended
  <2>1. /\ \A m \in Motors : runState'[m] = IF Head(todo[t]).do = "state" /\ Head(todo[t]).at = m
                                            THEN Head(todo[t]).val ELSE runState[m]
        /\ last' = last
    BY <1>5, RunWrites
  <2>2. None(todo[Conn], "call")
    BY <1>1, <2>1
  <2>3. None(todo[t], "call")
    BY <2>2, OthersCalls
  <2>4. Settles(todo, "state", Motors, runState, Halted)
          => Settles(todo', "state", Motors, runState', Halted)
    BY <1>5, <2>1, <2>3, RunKeeps
  <2>5. UnderWay("run") => UnderWay("run")'
    BY <1>0, <1>5, <2>2, RunGoesOn
  <2>6. None(todo'[Conn], "call")
    BY <1>5, <2>2, RunCalls
  <2> QED
    BY <1>1, <2>1, <2>4, <2>5, <2>6, Zenon
<1>6. ASSUME NEW own \in Timers, Calls(own) PROVE None(todo'[Conn], "call") /\ Ended
  <2>1. /\ todo[IoThread] = <<>> /\ todo' = [todo EXCEPT ![IoThread] = Callback(own)]
        /\ last' = last /\ runState' = runState /\ running' = running
    BY <1>6, Zenon DEF Calls, Called
  <2>2. /\ None(todo[Conn], "call")
        /\ Settles(todo, "state", Motors, runState, Halted) \/ UnderWay("run")
    BY <1>1, <2>1
  <2>3. todo'[Conn] = todo[Conn] \/ todo'[Conn] = Callback(own)
    BY <1>0, <2>1
  <2>4. None(todo'[Conn], "call")
    BY <2>2, <2>3, CallbackEnds, Zenon
  <2>5. ASSUME Settles(todo, "state", Motors, runState, Halted)
        PROVE  Settles(todo', "state", Motors, runState', Halted)
    <3>1. Settles([todo EXCEPT ![IoThread] = Callback(own)], "state", Motors, runState, Halted)
      BY <1>0, <2>1, <2>5, CallbackEnds, Begun
    <3> QED
      BY <2>1, <3>1
  <2>6. \A t \in Threads : CallbackLeft(todo[t]) => Only(todo[t], "state", Halted)
    BY <1>0, LeftStops
  <2>7. ASSUME UnderWay("run"), own = "run" PROVE Ended
    BY <1>0, <1>6, <2>6, <2>7, CallbackEnds, CallEnds
  <2>8. ASSUME UnderWay("run"), own # "run" PROVE UnderWay("run")'
    <3>1. Awaits("run") => Awaits("run")'
      BY <1>0, <1>6, <2>8, Zenon DEF Calls
    <3>2. /\ todo'[IoThread] = Callback(own)
          /\ \A t \in Threads : t # IoThread => todo'[t] = todo[t]
      BY <1>0, <2>1
    <3>3. \A t \in Threads : \A i \in DOMAIN todo'[t] : todo'[t][i] # TimerWrite("off", "run")
      <4>1. \A t \in Threads : \A i \in DOMAIN todo[t] : todo[t][i] # TimerWrite("off", "run")
        BY <2>8, Zenon DEF UnderWay, NoOff
      <4> QED
        BY <3>2, <4>1, CallbackEnds, Zenon
    <3>4. NoOff("run")'
      BY <3>3 DEF NoOff, TimerWrite
    <3>5. CASE Arms(todo[Conn], "run")
      <4>1. IoThread # Conn
        BY <2>1, <3>5, Zenon DEF Arms
      <4>2. Arms(todo[Conn], "run")'
        BY <1>0, <2>1, <3>2, <3>5, <4>1 DEF Arms, TimerWrite
      <4> QED
        BY <3>4, <4>2 DEF UnderWay
    <3>6. CASE CallbackLeft(todo[Conn]) /\ Awaits("run")
      <4>1. CallbackLeft(todo'[Conn])
        BY <2>3, <3>6, CallbackEnds, Zenon
      <4> QED
        BY <3>1, <3>4, <3>6, <4>1 DEF UnderWay, CallbackLeft, Quiet
    <3> QED
      BY <2>8, <3>5, <3>6, Zenon DEF UnderWay
  <2> QED
    BY <2>2, <2>4, <2>5, <2>7, <2>8, Zenon
<1>7. CASE Still
  <2>1. /\ UNCHANGED <<todo, running, runState, last>>
        /\ Awaits("run") => Awaits("run")'
    BY <1>0, <1>7, Zenon DEF Still
  <2>2. UnderWay("run") => UnderWay("run")'
    BY <2>1 DEF UnderWay, NoOff, Arms, CallbackLeft, Quiet, TimerWrite
  <2> QED
    BY <1>1, <2>1, <2>2, Zenon
<1> HIDE DEF Ended
<1>8. None(todo'[Conn], "call") /\ Ended
  BY <1>3, <1>4, <1>5, <1>6, <1>7, TimerSteps, Zenon DEF Ended
<1> QED
  BY <1>8, Zenon DEF Ended

\* A turn for a time that is begun starts its timer, unless the end of a run that is
\* still being carried out may stop it.
LEMMA TurnKept ==
  ASSUME OneConnection, TypeOK, OthersInv, TurnInv, [Next]_vars
  PROVE  TurnInv'
<1> SUFFICES ASSUME HasSteer, TurnsForATime(last'), ~crossed'
             PROVE  /\ None(todo'[Conn], "call")
                    /\ \/ Settles(todo', "steer", {0, 1}, steer', Point(Straight))
                       \/ UnderWay("steer")'
  BY DEF TurnInv, TurnEnds, TurnsForATime, Point, Straight
<1> DEFINE Ended == \/ Settles(todo', "steer", {0, 1}, steer', Point(Straight))
                    \/ UnderWay("steer")'
<1>0. /\ todo \in [Threads -> Seq(Writes)] /\ Conn \in Threads /\ IoThread \in Threads
      /\ "steer" \in Timers
  BY TheThreads DEF TypeOK, Timers
<1>1. ASSUME last' = last, ~crossed
      PROVE  /\ None(todo[Conn], "call")
             /\ Settles(todo, "steer", {0, 1}, steer, Point(Straight)) \/ UnderWay("steer")
  BY <1>1, Zenon DEF TurnInv, TurnEnds
<1>2. CASE SpeedThread
  <2>1. UNCHANGED <<todo, last, steer, running, wait, ready>> /\ crossed' = crossed
    BY <1>2, ThreadWrites
  <2>2. UnderWay("steer") => UnderWay("steer")'
    BY <2>1 DEF UnderWay, NoOff, Arms, Awaits, CallbackLeft, Quiet, TimerWrite
  <2> QED
    BY <1>1, <2>1, <2>2, Zenon
<1>3. ASSUME NEW r \in Asked, Taken(r) PROVE None(todo'[Conn], "call") /\ Ended
  <2>1. todo' = [todo EXCEPT ![Conn] = Handler(r)] /\ last' = r /\ ~RunEnding
    BY <1>3, Zenon DEF Taken
  <2>2. /\ Handler(r) = Turn(r.a, r.b)
        /\ r.a \in Int /\ r.b \in Nat /\ r.a # 0 /\ r.b > 0
    BY <2>1, RequestAssumption DEF Handler, TurnsForATime, Request
  <2>3. "call" \in Kinds /\ "call" # "steer"
    BY DEF Kinds
  <2>4. None(Handler(r), "call") /\ Starts(Handler(r), "steer") /\ Handler(r) \in Seq(Writes)
    BY <2>2, <2>3, TurnParts, TurnStarts, HandlerWrites
  <2>5. ASSUME NEW t \in Threads, t # Conn
        PROVE  \A i \in DOMAIN todo[t] : todo[t][i] # TimerWrite("off", "steer")
    <3>1. CASE t = IoThread
      BY <2>1, <3>1, Zenon DEF RunEnding
    <3>2. CASE t # IoThread
      BY <2>5, <3>2 DEF OthersInv
    <3> QED
      BY <3>1, <3>2
  <2>6. UnderWay("steer")'
    BY <1>0, <2>1, <2>4, <2>5, StartGoesOn
  <2>7. todo'[Conn] = Handler(r)
    BY <1>0, <2>1
  <2> QED
    BY <2>4, <2>6, <2>7, Zenon
<1>4. ASSUME NEW t \in Threads, Run(t) PROVE None(todo'[Conn], "call") /\ Ended
  <2>1. /\ \A p \in {0, 1} : steer'[p] = IF Head(todo[t]).do = "steer" /\ Head(todo[t]).at = p
                                         THEN Head(todo[t]).val ELSE steer[p]
        /\ last' = last /\ crossed' = crossed
    BY <1>4, RunWrites
  <2>2. None(todo[Conn], "call")
    BY <1>1, <2>1, Zenon
  <2>3. Settles(todo, "steer", {0, 1}, steer, Point(Straight))
          => Settles(todo', "steer", {0, 1}, steer', Point(Straight))
    BY <1>4, <2>1, RunKeeps
  <2>4. UnderWay("steer") => UnderWay("steer")'
    BY <1>0, <1>4, <2>2, RunGoesOn
  <2>5. None(todo'[Conn], "call")
    BY <1>4, <2>2, RunCalls
  <2> QED
    BY <1>1, <2>1, <2>3, <2>4, <2>5, Zenon
<1>5. ASSUME NEW own \in Timers, Calls(own) PROVE None(todo'[Conn], "call") /\ Ended
  <2>1. /\ todo[IoThread] = <<>> /\ todo' = [todo EXCEPT ![IoThread] = Callback(own)]
        /\ last' = last /\ steer' = steer /\ ~crossed /\ (own = "run" => Idle)
    BY <1>5, Zenon DEF Calls, Called
  <2>2. /\ None(todo[Conn], "call")
        /\ Settles(todo, "steer", {0, 1}, steer, Point(Straight)) \/ UnderWay("steer")
    BY <1>1, <2>1, Zenon
  <2>3. todo'[Conn] = todo[Conn] \/ todo'[Conn] = Callback(own)
    BY <1>0, <2>1
  <2>4. None(todo'[Conn], "call")
    BY <2>2, <2>3, CallbackEnds, Zenon
  <2>5. \A t \in Threads : CallbackLeft(todo[t]) => Only(todo[t], "steer", Point(Straight))
    BY <1>0, LeftStops
  <2>6. ASSUME own = "run" PROVE Ended
    <3>1. \A t \in Threads : todo[t] = <<>>
      BY <2>1, <2>6 DEF Idle
    <3>2. \A t \in Threads : Only(todo[t], "steer", Point(Straight))
      BY <3>1, EmptyNone, NoneOnly
    <3>3. Settles([todo EXCEPT ![IoThread] = Callback(own)], "steer", {0, 1}, steer,
                  Point(Straight))
      BY <1>0, <3>2, CallbackEnds, Covered
    <3> QED
      BY <2>1, <3>3
  <2>7. ASSUME own = "steer", Settles(todo, "steer", {0, 1}, steer, Point(Straight))
        PROVE  Settles(todo', "steer", {0, 1}, steer', Point(Straight))
    <3>1. Settles([todo EXCEPT ![IoThread] = Callback(own)], "steer", {0, 1}, steer,
                  Point(Straight))
      BY <1>0, <2>1, <2>7, CallbackEnds, Begun
    <3> QED
      BY <2>1, <3>1
  <2>8. ASSUME own = "steer", UnderWay("steer") PROVE Ended
    BY <1>0, <1>5, <2>5, <2>8, CallbackEnds, CallEnds
  <2>9. own = "run" \/ own = "steer"
    BY DEF Timers
  <2> QED
    BY <2>2, <2>4, <2>6, <2>7, <2>8, <2>9, Zenon
<1>6. CASE Still
  <2>1. /\ UNCHANGED <<todo, running, steer, last>> /\ ~crossed
        /\ Awaits("steer") => Awaits("steer")'
    BY <1>0, <1>6, Zenon DEF Still
  <2>2. UnderWay("steer") => UnderWay("steer")'
    BY <2>1 DEF UnderWay, NoOff, Arms, CallbackLeft, Quiet, TimerWrite
  <2> QED
    BY <1>1, <2>1, <2>2, Zenon
<1> HIDE DEF Ended
<1>7. None(todo'[Conn], "call") /\ Ended
  BY <1>2, <1>3, <1>4, <1>5, <1>6, TimerSteps, Zenon DEF Ended
<1> QED
  BY <1>7, Zenon DEF Ended

LEMMA EmptyArms == \A tm : ~Arms(<<>>, tm)
  BY DEF Arms

\* A car that still drives after a timed run was begun has the end of the run under
\* way, also when a callback runs while the handler restarts the timer.
THEOREM RunsHaveEnds == ASSUME OneConnection PROVE Spec => []RunHasEnd
<1>1. Init => RunInv
  BY DEF Init, NoRequest, RunInv, TimedRun
<1>2. TypeOK /\ RunInv => RunHasEnd
  <2> SUFFICES ASSUME TypeOK, RunInv, Idle, TimedRun(last),
                      NEW m \in Motors, runState[m] # Stop
               PROVE  Awaits("run")
    BY DEF RunHasEnd, TimedRun
  <2>1. \A t \in Threads : todo[t] = <<>>
    BY DEF Idle
  <2>2. ~RunEnds
    <3>1. RunEnds => \A x \in Motors : runState[x] \in Halted[x]
      BY <2>1, Settled DEF RunEnds
    <3>2. runState[m] \notin Halted[m]
      BY DEF Halted
    <3> QED
      BY <3>1, <3>2
  <2>3. UnderWay("run")
    BY <2>2, Zenon DEF RunInv
  <2>4. ~Arms(todo[Conn], "run")
    BY <2>1, TheThreads, EmptyArms
  <2> QED
    BY <2>3, <2>4, Zenon DEF UnderWay
<1>3. TypeOK /\ OthersInv /\ RunInv /\ [Next]_vars => RunInv'
  BY RunKept
<1> QED
  BY <1>1, <1>2, <1>3, OthersTyped, PTL DEF Spec

\* A steering that still points aside after a turn for a time has the end of the
\* turn under way, unless the end of a run was carried out while the turn was.
THEOREM TurnsHaveEnds == ASSUME OneConnection PROVE Spec => []TurnHasEnd
<1>1. Init => TurnInv
  BY DEF Init, NoRequest, TurnInv, TurnsForATime
<1>2. TypeOK /\ TurnInv => TurnHasEnd
  <2> SUFFICES ASSUME TypeOK, TurnInv, Idle, HasSteer, TurnsForATime(last), ~crossed,
                      steer # Straight
               PROVE  Awaits("steer")
    BY DEF TurnHasEnd
  <2>1. \A t \in Threads : todo[t] = <<>>
    BY DEF Idle
  <2>2. ~TurnEnds
    <3>1. TurnEnds => \A p \in {0, 1} : steer[p] \in Point(Straight)[p]
      BY <2>1, Settled DEF TurnEnds
    <3>2. steer \in [{0, 1} -> {0, 1}]
      BY DEF TypeOK
    <3>3. ASSUME \A p \in {0, 1} : steer[p] \in Point(Straight)[p] PROVE FALSE
      BY <3>2, <3>3 DEF Point, Straight
    <3> QED
      BY <3>1, <3>3
  <2>3. UnderWay("steer")
    BY <2>2, Zenon DEF TurnInv
  <2>4. ~Arms(todo[Conn], "steer")
    BY <2>1, TheThreads, EmptyArms
  <2> QED
    BY <2>3, <2>4, Zenon DEF UnderWay
<1>3. TypeOK /\ OthersInv /\ TurnInv /\ [Next]_vars => TurnInv'
  BY TurnKept
<1> QED
  BY <1>1, <1>2, <1>3, OthersTyped, PTL DEF Spec
=============================================================================
