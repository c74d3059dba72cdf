--------------------------- MODULE RemoteKey_proofs ---------------------------
(***************************************************************************)
(* The remote control, for any keys, times and number of presses, and      *)
(* however its calls fail: the types, that a movement without an end       *)
(* always has its stop under way, that no stop of an earlier key cuts      *)
(* counted steps short, and, with an io thread that is on time, that none  *)
(* stops the car while the arrow that moves it is held.                    *)
(***************************************************************************)
EXTENDS RemoteKey, FiniteSetTheorems, TLAPS

Waits == [who : {"poll", "stop"}, left : 0 .. StopTime]

\* What a completion may have left to do.
Directions == {"dirUp", "dirDown", "dirLeft", "dirRight", "dirRotation"}
StepSet ==
  [do : {"key"}, arg : {""}, n : Keys]
  \cup [do : {"ask", "start", "stop", "rearm"}, arg : {""}, n : {0}]
  \cup [do : {"move"}, arg : Directions, n : {0}]
  \cup [do : {"turn"}, arg : {-1, 0, 1}, n : Nat]
  \cup [do : {"steps"}, arg : Directions, n : Int]
  \cup [do : {"level"}, arg : {""}, n : Nat]

Typed == timers \in Seq(Waits) /\ queued \in Seq({"poll", "stop"}) /\ todo \in Seq(StepSet)

\* After a movement without an end the stop timer is started.
Ended(s) ==
  \A i \in DOMAIN s : s[i].do = "move" => \E j \in DOMAIN s : j > i /\ s[j] = Start

-----------------------------------------------------------------------------
(* The list of waits.                                                      *)

LEMMA Joined ==
  ASSUME NEW S, NEW s \in Seq(S), NEW u \in Seq(S)
  PROVE  /\ s \o u \in Seq(S)
         /\ Len(s \o u) = Len(s) + Len(u)
         /\ \A k \in 1 .. Len(s) + Len(u) :
              (s \o u)[k] = IF k <= Len(s) THEN s[k] ELSE u[k - Len(s)]
  OBVIOUS

LEMMA WaitFields ==
  ASSUME NEW s \in Seq(Waits)
  PROVE  \A i \in DOMAIN s : s[i].who \in {"poll", "stop"} /\ s[i].left \in 0 .. StopTime
<1>1. \A i \in DOMAIN s : s[i] \in Waits
  OBVIOUS
<1> QED
  BY <1>1 DEF Waits

LEMMA InsertFacts ==
  ASSUME NEW S, NEW s \in Seq(S), NEW e \in S, NEW i \in 1 .. Len(s) + 1
  PROVE  /\ InsertAt(s, i, e) \in Seq(S)
         /\ Len(InsertAt(s, i, e)) = Len(s) + 1
         /\ \A k \in 1 .. Len(s) + 1 :
              InsertAt(s, i, e)[k] = IF k < i THEN s[k] ELSE IF k = i THEN e ELSE s[k - 1]
<1> DEFINE a == SubSeq(s, 1, i - 1)
           b == SubSeq(s, i, Len(s))
<1>1. /\ a \in Seq(S) /\ Len(a) = i - 1
      /\ \A k \in 1 .. i - 1 : a[k] = s[k]
  OBVIOUS
<1>2. /\ b \in Seq(S) /\ Len(b) = Len(s) + 1 - i
      /\ \A k \in 1 .. Len(s) + 1 - i : b[k] = s[i + k - 1]
  OBVIOUS
<1>3. InsertAt(s, i, e) = (a \o <<e>>) \o b
  BY DEF InsertAt
<1> HIDE DEF a, b
<1>4. /\ a \o <<e>> \in Seq(S) /\ Len(a \o <<e>>) = i
      /\ \A k \in 1 .. i : (a \o <<e>>)[k] = IF k < i THEN s[k] ELSE e
  BY <1>1
<1> DEFINE c == a \o <<e>>
<1> HIDE DEF c
<1>5. c \in Seq(S) /\ Len(c) = i /\ \A k \in 1 .. i : c[k] = IF k < i THEN s[k] ELSE e
  BY <1>4 DEF c
<1>6. /\ c \o b \in Seq(S) /\ Len(c \o b) = Len(s) + 1
      /\ \A k \in 1 .. Len(s) + 1 : (c \o b)[k] = IF k <= i THEN c[k] ELSE b[k - i]
  <2>1. Len(c) + Len(b) = Len(s) + 1
    BY <1>2, <1>5
  <2>2. /\ c \o b \in Seq(S)
        /\ Len(c \o b) = Len(c) + Len(b)
        /\ \A k \in 1 .. Len(c) + Len(b) :
             (c \o b)[k] = IF k <= Len(c) THEN c[k] ELSE b[k - Len(c)]
    BY <1>2, <1>5, Joined
  <2>3. Len(c) = i
    BY <1>5
  <2> QED
    BY <2>1, <2>2, <2>3, Zenon
<1>7. \A k \in 1 .. Len(s) + 1 :
        (c \o b)[k] = IF k < i THEN s[k] ELSE IF k = i THEN e ELSE s[k - 1]
  <2> SUFFICES ASSUME NEW k \in 1 .. Len(s) + 1
               PROVE  (c \o b)[k] = IF k < i THEN s[k] ELSE IF k = i THEN e ELSE s[k - 1]
    OBVIOUS
  <2>1. CASE k <= i
    <3>1. k \in 1 .. i /\ (c \o b)[k] = c[k]
      BY <1>6, <2>1
    <3> QED
      BY <1>5, <2>1, <3>1
  <2>2. CASE k > i
    <3>1. k - i \in 1 .. Len(s) + 1 - i /\ i + (k - i) - 1 = k - 1
      BY <2>2
    <3>2. b[k - i] = s[k - 1]
      BY <1>2, <3>1
    <3>3. (c \o b)[k] = b[k - i]
      <4>1. ~(k <= i)
        BY <2>2
      <4> QED
        BY <1>6, <4>1, Zenon
    <3> QED
      BY <2>2, <3>2, <3>3
  <2>3. k <= i \/ k > i
    OBVIOUS
  <2> QED
    BY <2>1, <2>2, <2>3, Zenon
<1> QED
  BY <1>3, <1>6, <1>7 DEF c

LEMMA RemoveFacts ==
  ASSUME NEW S, NEW s \in Seq(S), NEW i \in DOMAIN s
  PROVE  /\ RemoveAt(s, i) \in Seq(S)
         /\ Len(RemoveAt(s, i)) = Len(s) - 1
         /\ \A k \in 1 .. Len(s) - 1 : RemoveAt(s, i)[k] = IF k < i THEN s[k] ELSE s[k + 1]
<1> DEFINE a == SubSeq(s, 1, i - 1)
           b == SubSeq(s, i + 1, Len(s))
<1>1. /\ a \in Seq(S) /\ Len(a) = i - 1
      /\ \A k \in 1 .. i - 1 : a[k] = s[k]
  OBVIOUS
<1>2. /\ b \in Seq(S) /\ Len(b) = Len(s) - i
      /\ \A k \in 1 .. Len(s) - i : b[k] = s[i + k]
  OBVIOUS
<1>3. RemoveAt(s, i) = a \o b
  BY DEF RemoveAt
<1> HIDE DEF a, b
<1>4. /\ a \o b \in Seq(S) /\ Len(a \o b) = Len(s) - 1
      /\ \A k \in 1 .. Len(s) - 1 : (a \o b)[k] = IF k < i THEN a[k] ELSE b[k - i + 1]
  <2>1. Len(a) = i - 1 /\ Len(a) + Len(b) = Len(s) - 1
    BY <1>1, <1>2
  <2>2. /\ a \o b \in Seq(S)
        /\ Len(a \o b) = Len(a) + Len(b)
        /\ \A k \in 1 .. Len(a) + Len(b) :
             (a \o b)[k] = IF k <= Len(a) THEN a[k] ELSE b[k - Len(a)]
    BY <1>1, <1>2, Joined
  <2>3. \A k \in 1 .. Len(s) - 1 : (k <= i - 1 <=> k < i) /\ k - (i - 1) = k - i + 1
    OBVIOUS
  <2> QED
    BY <2>1, <2>2, <2>3, Zenon
<1>5. \A k \in 1 .. Len(s) - 1 : (a \o b)[k] = IF k < i THEN s[k] ELSE s[k + 1]
  <2> SUFFICES ASSUME NEW k \in 1 .. Len(s) - 1
               PROVE  (a \o b)[k] = IF k < i THEN s[k] ELSE s[k + 1]
    OBVIOUS
  <2>1. CASE k < i
    BY <1>1, <1>4, <2>1
  <2>2. CASE k >= i
    <3>1. k - i + 1 \in 1 .. Len(s) - i /\ i + (k - i + 1) = k + 1
      BY <2>2
    <3>2. b[k - i + 1] = s[k + 1]
      BY <1>2, <3>1
    <3>3. (a \o b)[k] = b[k - i + 1]
      <4>1. ~(k < i)
        BY <2>2
      <4> QED
        BY <1>4, <4>1, Zenon
    <3> QED
      BY <2>2, <3>2, <3>3
  <2>3. k < i \/ k >= i
    OBVIOUS
  <2> QED
    BY <2>1, <2>2, <2>3, Zenon
<1> QED
  BY <1>3, <1>4, <1>5

\* Every timer has one wait at most, and they are in the order of their deadlines.
Sorted(s) ==
  \A i, j \in DOMAIN s : i < j => s[i].left <= s[j].left /\ s[i].who # s[j].who

\* The wait of a timer is set: it is in the list with the new time, the one of the
\* other timer stays, and goes first when it is not due later.
LEMMA SetFacts ==
  ASSUME Typed, Sorted(timers), NEW w \in {"poll", "stop"}, NEW t \in 0 .. StopTime
  PROVE  LET new == SetTimer(w, t) IN
         /\ new \in Seq(Waits)
         /\ Sorted(new)
         /\ \E k \in DOMAIN new : new[k].who = w
         /\ \A i \in DOMAIN timers : timers[i].who # w
              => \E k \in DOMAIN new : new[k].who = timers[i].who
         /\ \A k \in DOMAIN new : new[k].who = w => new[k].left = t
         /\ \A k \in DOMAIN new : new[k].who # w
              => \E i \in DOMAIN timers : timers[i] = new[k]
         /\ \A k, j \in DOMAIN new :
              new[k].who # w /\ new[j].who = w /\ new[k].left <= t => k < j
<1> DEFINE own == {i \in DOMAIN timers : timers[i].who = w}
           rest == Others(w)
           before == {i \in DOMAIN rest : rest[i].left <= t}
           e == [who |-> w, left |-> t]
           p == 1 + Cardinality(before)
           new == InsertAt(rest, p, e)
<1>0. SetTimer(w, t) = new
  BY DEF SetTimer
<1>1. /\ rest \in Seq(Waits)
      /\ Sorted(rest)
      /\ \A i \in DOMAIN rest : rest[i].who # w
      /\ \A i \in DOMAIN timers : timers[i].who # w
           => \E k \in DOMAIN rest : rest[k].who = timers[i].who
      /\ \A k \in DOMAIN rest : \E i \in DOMAIN timers : timers[i] = rest[k]
  <2>1. CASE own = {}
    <3>1. rest = timers
      BY <2>1 DEF Others
    <3> QED
      BY <2>1, <3>1 DEF Typed
  <2>2. CASE own # {}
    <3> DEFINE i0 == CHOOSE i \in own : TRUE
    <3>1. i0 \in DOMAIN timers /\ timers[i0].who = w /\ rest = RemoveAt(timers, i0)
      BY <2>2 DEF Others
    <3> HIDE DEF i0, rest
    <3>2. timers \in Seq(Waits)
      BY DEF Typed
    <3>3. /\ rest \in Seq(Waits)
          /\ Len(rest) = Len(timers) - 1
          /\ \A k \in 1 .. Len(timers) - 1 :
               rest[k] = IF k < i0 THEN timers[k] ELSE timers[k + 1]
      BY <3>1, <3>2, RemoveFacts
    <3>4. \A i \in DOMAIN timers : i # i0 => timers[i].who # w
      BY <3>1, <3>2 DEF Sorted
    <3>5. \A i \in DOMAIN rest : rest[i].who # w
      BY <3>1, <3>2, <3>3, <3>4
    <3>6. Sorted(rest)
      <4> DEFINE o(k) == IF k < i0 THEN k ELSE k + 1
      <4>1. \A k \in DOMAIN rest : o(k) \in DOMAIN timers /\ rest[k] = timers[o(k)]
        BY <3>1, <3>2, <3>3
      <4>2. \A k, j \in DOMAIN rest : k < j => o(k) < o(j)
        BY <3>1, <3>2, <3>3
      <4> HIDE DEF o
      <4> SUFFICES ASSUME NEW k \in DOMAIN rest, NEW j \in DOMAIN rest, k < j
                   PROVE  rest[k].left <= rest[j].left /\ rest[k].who # rest[j].who
        BY DEF Sorted
      <4>3. /\ o(k) \in DOMAIN timers /\ o(j) \in DOMAIN timers /\ o(k) < o(j)
            /\ rest[k] = timers[o(k)] /\ rest[j] = timers[o(j)]
        BY <4>1, <4>2, Zenon
      <4> QED
        BY <4>3, Zenon DEF Sorted
    <3>7. ASSUME NEW i \in DOMAIN timers, timers[i].who # w
          PROVE  \E k \in DOMAIN rest : rest[k].who = timers[i].who
      <4>1. i # i0
        BY <3>1, <3>7
      <4>2. CASE i < i0
        <5>1. i \in DOMAIN rest /\ rest[i] = timers[i]
          BY <3>1, <3>2, <3>3, <4>2
        <5> QED
          BY <5>1
      <4>3. CASE i > i0
        <5>1. i - 1 \in DOMAIN rest /\ rest[i - 1] = timers[i]
          BY <3>1, <3>2, <3>3, <4>3
        <5> QED
          BY <5>1
      <4> QED
        BY <3>1, <3>2, <4>1, <4>2, <4>3
    <3>8. ASSUME NEW k \in DOMAIN rest PROVE \E i \in DOMAIN timers : timers[i] = rest[k]
      <4>1. /\ k \in 1 .. Len(timers) - 1 /\ k \in DOMAIN timers /\ k + 1 \in DOMAIN timers
            /\ rest[k] = IF k < i0 THEN timers[k] ELSE timers[k + 1]
        BY <3>1, <3>2, <3>3
      <4> QED
        BY <4>1, Zenon
    <3> QED
      BY <3>3, <3>5, <3>6, <3>7, <3>8
  <2> QED
    BY <2>1, <2>2
<1> HIDE DEF rest
<1>2. /\ e \in Waits /\ e.who = w /\ e.left = t
  BY DEF Waits
<1>3. Len(rest) \in {0, 1}
  <2>1. \A i \in DOMAIN rest : rest[i].who \in {"poll", "stop"}
    BY <1>1, WaitFields
  <2>2. ~(Len(rest) >= 2)
    <3> SUFFICES ASSUME Len(rest) >= 2 PROVE FALSE
      OBVIOUS
    <3>1. 1 \in DOMAIN rest /\ 2 \in DOMAIN rest
      BY <1>1
    <3>2. rest[1].who # rest[2].who
      BY <1>1, <3>1 DEF Sorted
    <3> QED
      BY <1>1, <2>1, <3>1, <3>2
  <2>3. Len(rest) \in Nat
    BY <1>1
  <2> QED
    BY <2>2, <2>3
<1>4. /\ p \in 1 .. Len(rest) + 1
      /\ p = 1 => \A k \in DOMAIN rest : rest[k].left > t
      /\ p = 2 => \A k \in DOMAIN rest : rest[k].left <= t
  <2>1. \A k \in DOMAIN rest : rest[k].left \in 0 .. StopTime
    BY <1>1, WaitFields
  <2>2. DOMAIN rest \subseteq {1}
    BY <1>1, <1>3
  <2>3. before = {} \/ before = {1}
    BY <2>2
  <2>4. CASE before = {}
    <3>1. p = 1
      BY <2>4, FS_EmptySet
    <3>2. \A k \in DOMAIN rest : ~(rest[k].left <= t)
      BY <2>4
    <3> QED
      BY <1>3, <2>1, <3>1, <3>2
  <2>5. CASE before = {1}
    <3>1. p = 2
      BY <2>5, FS_Singleton
    <3>2. 1 \in DOMAIN rest /\ rest[1].left <= t
      BY <2>5
    <3> QED
      BY <1>1, <1>3, <2>2, <3>1, <3>2
  <2> QED
    BY <2>3, <2>4, <2>5
<1> HIDE DEF p, e
<1>5. /\ new \in Seq(Waits)
      /\ Len(new) = Len(rest) + 1
      /\ \A k \in 1 .. Len(rest) + 1 :
           new[k] = IF k < p THEN rest[k] ELSE IF k = p THEN e ELSE rest[k - 1]
  <2>1. rest \in Seq(Waits) /\ e \in Waits /\ p \in 1 .. Len(rest) + 1
    BY <1>1, <1>2, <1>4
  <2> QED
    BY <2>1, InsertFacts, SMTT(30)
<1> HIDE DEF new
<1>6. Sorted(new)
  <2> SUFFICES ASSUME NEW i \in DOMAIN new, NEW j \in DOMAIN new, i < j
               PROVE  new[i].left <= new[j].left /\ new[i].who # new[j].who
    BY DEF Sorted
  <2>1. i = 1 /\ j = 2 /\ Len(rest) = 1 /\ 1 \in DOMAIN rest
    BY <1>1, <1>3, <1>5
  <2>2. rest[1].who # w /\ rest[1].left \in 0 .. StopTime
    BY <1>1, <2>1, WaitFields
  <2>3. CASE p = 1
    <3>1. new[1] = e /\ new[2] = rest[1] /\ rest[1].left > t
      BY <1>4, <1>5, <2>1, <2>3
    <3> QED
      BY <1>2, <2>1, <2>2, <3>1
  <2>4. CASE p = 2
    <3>1. new[1] = rest[1] /\ new[2] = e /\ rest[1].left <= t
      BY <1>4, <1>5, <2>1, <2>4
    <3> QED
      BY <1>2, <2>1, <2>2, <3>1
  <2> QED
    BY <1>4, <2>1, <2>3, <2>4
<1>7. \E k \in DOMAIN new : new[k].who = w
  <2>1. p \in DOMAIN new /\ new[p] = e
    BY <1>1, <1>4, <1>5
  <2> QED
    BY <1>2, <2>1
<1>8. ASSUME NEW k \in DOMAIN rest PROVE \E j \in DOMAIN new : new[j] = rest[k]
  <2>1. CASE k < p
    <3>1. k \in DOMAIN new /\ new[k] = rest[k]
      BY <1>1, <1>4, <1>5, <2>1
    <3> QED
      BY <3>1
  <2>2. CASE ~(k < p)
    <3>1. k + 1 \in DOMAIN new /\ new[k + 1] = rest[k]
      BY <1>1, <1>4, <1>5, <2>2
    <3> QED
      BY <3>1
  <2> QED
    BY <2>1, <2>2
<1>9. ASSUME NEW k \in DOMAIN new
      PROVE  \/ k = p /\ new[k].who = w /\ new[k].left = t
             \/ k # p /\ new[k].who # w /\ \E i \in DOMAIN rest : rest[i] = new[k]
  <2>1. k \in 1 .. Len(rest) + 1 /\ Len(rest) \in Nat /\ DOMAIN rest = 1 .. Len(rest)
    BY <1>1, <1>5
  <2>2. CASE k = p
    BY <1>2, <1>5, <2>1, <2>2
  <2>3. CASE k < p
    <3>1. new[k] = rest[k] /\ k \in DOMAIN rest
      BY <1>4, <1>5, <2>1, <2>3
    <3> QED
      BY <1>1, <2>3, <3>1
  <2>4. CASE k > p
    <3>1. k - 1 \in DOMAIN rest
      BY <1>4, <2>1, <2>4
    <3>2. ~(k < p) /\ k # p
      BY <1>4, <2>1, <2>4
    <3>3. new[k] = rest[k - 1]
      BY <1>5, <2>1, <3>2, Zenon
    <3> QED
      BY <1>1, <3>1, <3>2, <3>3
  <2> QED
    BY <1>4, <2>1, <2>2, <2>3, <2>4
<1>10. \A k \in DOMAIN new : new[k].who = w => new[k].left = t
  BY <1>9, Zenon
<1>11. ASSUME NEW k \in DOMAIN new, new[k].who # w
       PROVE  \E i \in DOMAIN timers : timers[i] = new[k]
  <2>1. PICK i \in DOMAIN rest : rest[i] = new[k]
    BY <1>9, <1>11, Zenon
  <2>2. \A j \in DOMAIN rest : \E l \in DOMAIN timers : timers[l] = rest[j]
    BY <1>1
  <2> QED
    BY <2>1, <2>2, Zenon
<1>12. ASSUME NEW k \in DOMAIN new, NEW j \in DOMAIN new,
              new[k].who # w, new[j].who = w, new[k].left <= t
       PROVE  k < j
  <2>1. k # p /\ j = p
    BY <1>9, <1>12, Zenon
  <2>2. /\ k \in 1 .. Len(rest) + 1 /\ DOMAIN rest = 1 .. Len(rest)
        /\ Len(rest) \in {0, 1}
    BY <1>1, <1>3, <1>5
  <2>3. CASE p = 1
    <3>1. k = 2 /\ Len(rest) = 1
      BY <2>1, <2>2, <2>3
    <3>2. new[k] = rest[1] /\ rest[1].left > t
      BY <1>4, <1>5, <2>2, <2>3, <3>1
    <3>3. rest[1].left \in 0 .. StopTime
      BY <1>1, <2>2, <3>1, WaitFields
    <3> QED
      BY <1>12, <3>2, <3>3
  <2>4. CASE p = 2
    <3>1. k \in 1 .. 2 /\ k # 2 /\ j = 2
      BY <2>1, <2>2, <2>4
    <3> QED
      BY <3>1
  <2>5. p \in {1, 2}
    <3>1. p \in 1 .. Len(rest) + 1
      BY <1>4
    <3> QED
      BY <2>2, <3>1
  <2> QED
    BY <2>3, <2>4, <2>5
<1> QED
  BY <1>0, <1>1, <1>5, <1>6, <1>7, <1>8, <1>10, <1>11, <1>12

-----------------------------------------------------------------------------
(* What a completion has left.                                             *)

LEMMA TailFacts ==
  ASSUME NEW S, NEW s \in Seq(S), s # <<>>
  PROVE  /\ Tail(s) \in Seq(S) /\ Head(s) \in S /\ Head(s) = s[1] /\ 1 \in DOMAIN s
         /\ Len(Tail(s)) = Len(s) - 1 /\ Len(s) \in Nat \ {0}
         /\ \A i \in DOMAIN Tail(s) : i + 1 \in DOMAIN s /\ Tail(s)[i] = s[i + 1]
         /\ \A i \in DOMAIN s : i # 1 => i - 1 \in DOMAIN Tail(s) /\ Tail(s)[i - 1] = s[i]
  OBVIOUS

\* A stop is left, or the timer that will lead to one.
Coming(s) == \E i \in DOMAIN s : s[i] \in {Start, StopAll}

LEMMA ComingTail ==
  ASSUME NEW S, NEW s \in Seq(S), s # <<>>, Coming(s), Head(s) \notin {Start, StopAll}
  PROVE  Coming(Tail(s))
<1>1. PICK i \in DOMAIN s : s[i] \in {Start, StopAll}
  BY DEF Coming
<1>2. i # 1
  BY <1>1, TailFacts
<1>3. i - 1 \in DOMAIN Tail(s) /\ Tail(s)[i - 1] = s[i]
  BY <1>2, TailFacts
<1> QED
  BY <1>1, <1>3 DEF Coming

LEMMA ComingJoin ==
  ASSUME NEW S, NEW s \in Seq(S), NEW u \in Seq(S), Coming(s) \/ Coming(u)
  PROVE  Coming(s \o u)
<1>1. ASSUME NEW i \in DOMAIN s PROVE i \in DOMAIN (s \o u) /\ (s \o u)[i] = s[i]
  OBVIOUS
<1>2. ASSUME NEW i \in DOMAIN u
      PROVE  i + Len(s) \in DOMAIN (s \o u) /\ (s \o u)[i + Len(s)] = u[i]
  OBVIOUS
<1> QED
  BY <1>1, <1>2 DEF Coming

LEMMA EndedTail ==
  ASSUME NEW S, NEW s \in Seq(S), s # <<>>, Ended(s)
  PROVE  /\ Ended(Tail(s))
         /\ Head(s).do = "move" => Coming(Tail(s))
<1>1. ASSUME NEW i \in DOMAIN Tail(s), Tail(s)[i].do = "move"
      PROVE  \E j \in DOMAIN Tail(s) : j > i /\ Tail(s)[j] = Start
  <2>1. i + 1 \in DOMAIN s /\ s[i + 1].do = "move" /\ i \in Nat \ {0}
    BY <1>1, TailFacts
  <2>2. PICK j \in DOMAIN s : j > i + 1 /\ s[j] = Start
    BY <2>1 DEF Ended
  <2>3. j - 1 \in DOMAIN Tail(s) /\ Tail(s)[j - 1] = Start /\ j - 1 > i
    BY <2>1, <2>2, TailFacts
  <2> QED
    BY <2>3
<1>2. ASSUME Head(s).do = "move" PROVE Coming(Tail(s))
  <2>1. PICK j \in DOMAIN s : j > 1 /\ s[j] = Start
    BY <1>2, TailFacts DEF Ended
  <2>2. j - 1 \in DOMAIN Tail(s) /\ Tail(s)[j - 1] = Start
    BY <2>1, TailFacts
  <2> QED
    BY <2>2 DEF Coming
<1> QED
  BY <1>1, <1>2 DEF Ended

LEMMA EndedJoin ==
  ASSUME NEW S, NEW s \in Seq(S), NEW u \in Seq(S), Ended(s), Ended(u)
  PROVE  Ended(s \o u)
<1> SUFFICES ASSUME NEW i \in DOMAIN (s \o u), (s \o u)[i].do = "move"
             PROVE  \E j \in DOMAIN (s \o u) : j > i /\ (s \o u)[j] = Start
  BY DEF Ended
<1>1. /\ DOMAIN s = 1 .. Len(s) /\ DOMAIN u = 1 .. Len(u)
      /\ DOMAIN (s \o u) = 1 .. (Len(s) + Len(u))
      /\ Len(s) \in Nat /\ Len(u) \in Nat
      /\ \A k \in 1 .. Len(s) + Len(u) :
           (s \o u)[k] = IF k <= Len(s) THEN s[k] ELSE u[k - Len(s)]
  BY Joined
<1>2. CASE i <= Len(s)
  <2>1. i \in DOMAIN s /\ s[i].do = "move"
    BY <1>1, <1>2
  <2>2. PICK j \in DOMAIN s : j > i /\ s[j] = Start
    BY <2>1 DEF Ended
  <2>3. j \in DOMAIN (s \o u) /\ (s \o u)[j] = s[j]
    BY <1>1
  <2> QED
    BY <2>2, <2>3
<1>3. CASE i > Len(s)
  <2>1. i - Len(s) \in DOMAIN u /\ u[i - Len(s)].do = "move"
    BY <1>1, <1>3
  <2>2. PICK j \in DOMAIN u : j > i - Len(s) /\ u[j] = Start
    BY <2>1 DEF Ended
  <2>3. j + Len(s) \in DOMAIN (s \o u) /\ (s \o u)[j + Len(s)] = u[j] /\ j + Len(s) > i
    BY <1>1, <2>2
  <2> QED
    BY <2>2, <2>3
<1> QED
  BY <1>1, <1>2, <1>3

\* A sequence that ends in the start of the timer.
LEMMA EndedStart ==
  ASSUME NEW S, NEW s \in Seq(S), Start \in S
  PROVE  s \o <<Start>> \in Seq(S) /\ Ended(s \o <<Start>>)
<1>1. /\ s \o <<Start>> \in Seq(S) /\ DOMAIN (s \o <<Start>>) = 1 .. Len(s) + 1
      /\ (s \o <<Start>>)[Len(s) + 1] = Start /\ Len(s) \in Nat
  OBVIOUS
<1>2. Start.do # "move"
  BY DEF Start, Step
<1>3. ASSUME NEW i \in DOMAIN (s \o <<Start>>), (s \o <<Start>>)[i].do = "move"
      PROVE  \E j \in DOMAIN (s \o <<Start>>) : j > i /\ (s \o <<Start>>)[j] = Start
  <2>1. i # Len(s) + 1 /\ i \in 1 .. Len(s) + 1
    BY <1>1, <1>2, <1>3
  <2>2. Len(s) + 1 > i /\ Len(s) + 1 \in DOMAIN (s \o <<Start>>)
    BY <1>1, <2>1
  <2> QED
    BY <1>1, <2>2
<1> QED
  BY <1>1, <1>3 DEF Ended

\* What the kind of a step says of its arguments.
LEMMA StepFacts ==
  ASSUME NEW c \in StepSet
  PROVE  /\ c.do = "key" => c.n \in Keys
         /\ c.do = "turn" => c.n \in Nat
         /\ c.do \in {"key", "ask", "start", "stop", "rearm", "move", "turn", "steps", "level"}
         /\ c.do \notin {"start", "stop"} => c \notin {Start, StopAll}
         /\ c.do = "stop" => c = StopAll
         /\ c.do = "start" => c = Start
<1>1. /\ Start.do = "start" /\ StopAll.do = "stop"
  BY DEF Start, StopAll, Step
<1>2. CASE c \in [do : {"ask", "start", "stop", "rearm"}, arg : {""}, n : {0}]
  <2>1. c = [do |-> c.do, arg |-> "", n |-> 0] /\ c.do \in {"ask", "start", "stop", "rearm"}
    BY <1>2
  <2> QED
    BY <1>1, <2>1 DEF Start, StopAll, Step
<1>3. CASE c \in [do : {"key"}, arg : {""}, n : Keys]
  <2>1. c.do = "key" /\ c.n \in Keys
    BY <1>3
  <2> QED
    BY <1>1, <2>1
<1>4. CASE c \in [do : {"turn"}, arg : {-1, 0, 1}, n : Nat]
  <2>1. c.do = "turn" /\ c.n \in Nat
    BY <1>4
  <2> QED
    BY <1>1, <2>1
<1>5. CASE \/ c \in [do : {"move"}, arg : Directions, n : {0}]
           \/ c \in [do : {"steps"}, arg : Directions, n : Int]
           \/ c \in [do : {"level"}, arg : {""}, n : Nat]
  <2>1. c.do \in {"move", "steps", "level"}
    BY <1>5
  <2> QED
    BY <1>1, <2>1
<1> QED
  BY <1>2, <1>3, <1>4, <1>5 DEF StepSet

LEMMA StepTypes ==
  /\ {Start, StopAll, Ask, Rearm} \subseteq StepSet
  /\ \A k \in Keys : Key(k) \in StepSet
  /\ \A d \in Directions : Move(d) \in StepSet
  /\ \A d \in {-1, 0, 1}, n \in Nat : Turn(d, n) \in StepSet
  /\ \A d \in Directions, n \in Int : Steps(d, n) \in StepSet
  /\ \A n \in Nat : SpeedLevel(n) \in StepSet
  BY DEF StepSet, Start, StopAll, Ask, Rearm, Key, Move, Turn, Steps, SpeedLevel, Step

LEMMA StepKinds ==
  /\ \A d : Move(d).do = "move"
  /\ \A d, n : Turn(d, n).do = "turn" /\ Steps(d, n).do = "steps"
  /\ \A n : SpeedLevel(n).do = "level" /\ Key(n).do = "key"
  /\ Start.do = "start" /\ StopAll.do = "stop" /\ Ask.do = "ask" /\ Rearm.do = "rearm"
  BY DEF Start, StopAll, Ask, Rearm, Key, Move, Turn, Steps, SpeedLevel, Step

\* Every branch of handleKeyPress that moves the car for good starts the timer.
LEMMA ArrowFacts ==
  ASSUME input \in Nat, NEW k \in Arrows
  PROVE  Arrow(k) \in Seq(StepSet) /\ Ended(Arrow(k))
<1>1. CASE Stepped
  <2>1. PICK d \in Directions, n \in Int : Arrow(k) = <<Steps(d, n)>>
    <3>1. Arrow(k) = ArrowSteps(k)
      BY <1>1 DEF Arrow
    <3>2. "dirUp" \in Directions /\ "dirLeft" \in Directions /\ input \in Int /\ -input \in Int
      BY DEF Directions
    <3> QED
      BY <3>1, <3>2, Zenon DEF ArrowSteps
  <2>2. Steps(d, n) \in StepSet /\ Steps(d, n).do = "steps"
    BY StepTypes, StepKinds
  <2> HIDE DEF StepSet
  <2> QED
    BY <2>1, <2>2 DEF Ended
<1>2. CASE ~Stepped /\ input = 0
  <2>1. PICK d \in Directions : Arrow(k) = <<Move(d)>> \o <<Start>>
    BY <1>2 DEF Arrow, ArrowMoves, Arrows, Directions, UP, DOWN, LEFT, RIGHT
  <2>2. Move(d) \in StepSet /\ Start \in StepSet
    BY StepTypes
  <2> HIDE DEF StepSet
  <2>3. <<Move(d)>> \in Seq(StepSet)
    BY <2>2
  <2> QED
    BY <2>1, <2>2, <2>3, EndedStart
<1>3. CASE ~Stepped /\ input # 0
  <2>1. PICK d \in Directions, n \in {-1, 0, 1} :
          Arrow(k) = <<Move(d), Turn(n, input)>> \o <<Start>>
    <3> DEFINE ahead == IF k = DOWN THEN "dirDown" ELSE "dirUp"
               turn == CASE k = LEFT -> 1 [] k = RIGHT -> -1 [] OTHER -> 0
    <3>1. Arrow(k) = <<Move(ahead), Turn(turn, input)>> \o <<Start>>
      BY <1>3, Zenon DEF Arrow, ArrowMoves
    <3>2. ahead \in Directions /\ turn \in {-1, 0, 1}
      BY DEF Directions
    <3> HIDE DEF ahead, turn
    <3> QED
      BY <3>1, <3>2
  <2>2. Move(d) \in StepSet /\ Start \in StepSet /\ Turn(n, input) \in StepSet
    BY StepTypes
  <2> HIDE DEF StepSet
  <2>3. <<Move(d), Turn(n, input)>> \in Seq(StepSet)
    BY <2>2
  <2> QED
    BY <2>1, <2>2, <2>3, EndedStart
<1> QED
  BY <1>1, <1>2, <1>3

LEMMA PoundFacts ==
  ASSUME input \in Nat
  PROVE  Pound \in Seq(StepSet) /\ Ended(Pound)
<1>1. "dirRotation" \in Directions /\ input \in Int
  BY DEF Directions
<1>2. /\ Move("dirRotation") \in StepSet /\ Start \in StepSet
      /\ Steps("dirRotation", input) \in StepSet /\ Steps("dirRotation", input).do = "steps"
  BY <1>1, StepTypes, StepKinds
<1> HIDE DEF StepSet
<1>3. <<>> \in Seq(StepSet) /\ Ended(<<>>)
  BY DEF Ended
<1>4. <<Steps("dirRotation", input)>> \in Seq(StepSet) /\ Ended(<<Steps("dirRotation", input)>>)
  BY <1>2 DEF Ended
<1>5. <<Move("dirRotation"), Start>> \in Seq(StepSet) /\ Ended(<<Move("dirRotation"), Start>>)
  <2> DEFINE s == <<Move("dirRotation"), Start>>
  <2>1. s \in Seq(StepSet) /\ DOMAIN s = 1 .. 2 /\ s[2] = Start
    BY <1>2
  <2>2. Start.do # "move"
    BY StepKinds
  <2> HIDE DEF s
  <2>3. ASSUME NEW i \in DOMAIN s, s[i].do = "move"
        PROVE  \E j \in DOMAIN s : j > i /\ s[j] = Start
    <3>1. 2 \in DOMAIN s /\ 2 > i
      BY <2>1, <2>2, <2>3
    <3> QED
      BY <2>1, <3>1
  <2>4. s \in Seq(StepSet) /\ Ended(s)
    BY <2>1, <2>3 DEF Ended
  <2> QED
    BY <2>4 DEF s
<1>6. \/ Pound = <<>>
      \/ Pound = <<Steps("dirRotation", input)>>
      \/ Pound = <<Move("dirRotation"), Start>>
  <2> DEFINE a == <<Move("dirRotation"), Start>>
             b == <<Steps("dirRotation", input)>>
  <2>1. Pound = CASE motorNum < 4 -> <<>>
                  [] motorNum >= 4 /\ input = 0 -> a
                  [] OTHER -> b
    BY Zenon DEF Pound
  <2> HIDE DEF a, b
  <2>2. Pound \in {<<>>, a, b}
    BY <2>1
  <2> QED
    BY <2>2, Zenon DEF a, b
<1> QED
  BY <1>3, <1>4, <1>5, <1>6, Zenon

LEMMA HandleFacts ==
  ASSUME input \in Nat, NEW k
  PROVE  /\ Handle(k).calls \in Seq(StepSet)
         /\ Ended(Handle(k).calls)
         /\ Handle(k).input \in Nat
<1> DEFINE Good(h) == h.calls \in Seq(StepSet) /\ Ended(h.calls) /\ h.input \in Nat
           digit == \E d \in 0 .. 9 : k = Digit[d + 1]
           d0 == CHOOSE d \in 0 .. 9 : k = Digit[d + 1]
           hd == [calls |-> <<>>, input |-> 10 * input + d0]
           ha == [calls |-> Arrow(k), input |-> 0]
           ho == [calls |-> IF input \in 1 .. 9 THEN <<SpeedLevel(input)>> ELSE <<>>, input |-> 0]
           hs == [calls |-> <<StopAll>>, input |-> 0]
           hp == [calls |-> Pound, input |-> IF motorNum < 4 THEN input ELSE 0]
           hn == [calls |-> <<>>, input |-> input]
<1>0. /\ StopAll \in StepSet /\ StopAll.do = "stop"
      /\ SpeedLevel(input) \in StepSet /\ SpeedLevel(input).do = "level"
  BY StepTypes, StepKinds
<1>1. Handle(k) = CASE digit -> hd [] k \in Arrows -> ha [] k = OK -> ho
                    [] k = STAR -> hs [] k = POUND -> hp [] OTHER -> hn
  BY Zenon DEF Handle
<1> HIDE DEF StepSet
<1>2. /\ <<>> \in Seq(StepSet) /\ Ended(<<>>)
      /\ <<StopAll>> \in Seq(StepSet) /\ Ended(<<StopAll>>)
      /\ <<SpeedLevel(input)>> \in Seq(StepSet) /\ Ended(<<SpeedLevel(input)>>)
  BY <1>0 DEF Ended
<1>3. ASSUME digit PROVE Good(hd)
  <2>1. d0 \in 0 .. 9
    BY <1>3
  <2> HIDE DEF d0
  <2>2. 10 * input + d0 \in Nat
    BY <2>1
  <2> QED
    BY <1>2, <2>2
<1>4. ASSUME k \in Arrows PROVE Good(ha)
  <2>1. Arrow(k) \in Seq(StepSet) /\ Ended(Arrow(k))
    BY <1>4, ArrowFacts
  <2> QED
    BY <2>1
<1>5. Good(ho) /\ Good(hs) /\ Good(hn)
  BY <1>2
<1>6. Good(hp)
  BY PoundFacts
<1> HIDE DEF Good, digit, hd, ha, ho, hs, hp, hn
<1>7. Good(Handle(k))
  BY <1>1, <1>3, <1>4, <1>5, <1>6, Zenon
<1> QED
  BY <1>7 DEF Good

-----------------------------------------------------------------------------
(* The invariant.                                                          *)

\* The stop timer runs, or its completion is queued.
Waiting == \E i \in DOMAIN timers : timers[i].who = "stop"
Queued == \E i \in DOMAIN queued : queued[i] = "stop"
Promised == car = "moving" /\ "stop" \notin lost => Waiting \/ Queued \/ Coming(todo)

LEMMA StopIsPromised == MoveHasStop <=> Promised
<1>1. {Start, StopAll} \cap ToSet(todo) # {} <=> Coming(todo)
  BY DEF ToSet, Coming
<1>2. "stop" \in ToSet(queued) <=> Queued
  BY DEF ToSet, Queued
<1>3. todo = <<StopAll>> => Coming(todo)
  <2> HIDE DEF StopAll
  <2> QED
    BY DEF Coming
<1> QED
  BY <1>1, <1>2, <1>3, Zenon DEF MoveHasStop, StopPending, Promised, Waiting

\* The parts of the types: the keys and bounds, the statics, and what the car was told.
KeypadTyped ==
  /\ motors \in MotorNums
  /\ event \in Keys \cup {NoKey} /\ held \in Keys \cup {NoKey}
  /\ presses \in 0 .. MaxPresses /\ others \in 0 .. MaxOther
StaticsTyped ==
  /\ oldKey \in Keys \cup {NoKey} /\ input \in Nat
  /\ motorNum \in {0, motors} /\ soundEnabled \in BOOLEAN
ToldTyped ==
  car \in Movements /\ driving \in BOOLEAN /\ lost \subseteq Calls /\ asked \in Nat
TimersTyped == Typed /\ Sorted(timers) /\ late \in 0 .. MaxLate /\ Ended(todo)

KInv == KeypadTyped /\ StaticsTyped /\ ToldTyped /\ TimersTyped /\ Promised

LEMMA TypesFollow == KInv => TypeOK
<1> SUFFICES ASSUME KInv PROVE TypeOK
  OBVIOUS
<1>1. ToSet(queued) \subseteq {"poll", "stop"}
  BY DEF KInv, TimersTyped, Typed, ToSet
<1>2. \A i \in DOMAIN timers : timers[i].left \in 0 .. StopTime
  BY WaitFields DEF KInv, TimersTyped, Typed
<1>3. \A i, j \in DOMAIN timers : i < j => /\ timers[i].left <= timers[j].left
                                           /\ timers[i].who # timers[j].who
  BY Zenon DEF KInv, TimersTyped, Sorted
<1>4. {event, held, oldKey} \subseteq Keys \cup {NoKey}
  BY Zenon DEF KInv, KeypadTyped, StaticsTyped
<1> QED
  BY <1>1, <1>2, <1>3, <1>4, Zenon DEF TypeOK, KInv, KeypadTyped, StaticsTyped, ToldTyped, TimersTyped

LEMMA Constants ==
  /\ CheckTime \in Nat /\ Second \in Nat /\ MaxLate \in Nat
  /\ MaxPresses \in Nat /\ MaxOther \in Nat
  /\ CheckTime \in 0 .. StopTime /\ StopTime \in 0 .. StopTime /\ StopTime \in Nat
  BY RemoteAssumption DEF StopTime

LEMMA InitFacts == Init => KInv
<1> SUFFICES ASSUME Init PROVE KInv
  OBVIOUS
<1>1. KeypadTyped /\ StaticsTyped
  <2>1. presses \in 0 .. MaxPresses /\ others \in 0 .. MaxOther
    BY Constants DEF Init
  <2>2. input \in Nat /\ motorNum \in {0, motors} /\ soundEnabled \in BOOLEAN
    BY DEF Init
  <2>3. /\ event \in Keys \cup {NoKey} /\ held \in Keys \cup {NoKey}
        /\ oldKey \in Keys \cup {NoKey}
    BY DEF Init, NoKey
  <2>4. motors \in MotorNums
    BY DEF Init
  <2> QED
    BY <2>1, <2>2, <2>3, <2>4 DEF KeypadTyped, StaticsTyped
<1>2. ToldTyped
  BY DEF Init, ToldTyped, Movements
<1>3. Typed /\ Ended(todo) /\ late \in 0 .. MaxLate
  <2>1. [who |-> "poll", left |-> CheckTime] \in Waits
    BY Constants DEF Waits
  <2> HIDE DEF StepSet, Waits
  <2> QED
    BY <2>1, Constants DEF Init, Typed, Ended
<1>4. Sorted(timers)
  <2>1. DOMAIN timers = {1}
    BY DEF Init
  <2> QED
    BY <2>1 DEF Sorted
<1>5. Promised
  BY DEF Init, Promised
<1> QED
  BY <1>1, <1>2, <1>3, <1>4, <1>5 DEF KInv, TimersTyped

\* A step that leaves the timers and what is left to do alone.
LEMMA IoKept ==
  ASSUME KInv, UNCHANGED io
  PROVE  /\ TimersTyped'
         /\ (car' = "moving" => car = "moving") /\ ("stop" \notin lost' => "stop" \notin lost)
            => Promised'
<1>1. timers' = timers /\ queued' = queued /\ todo' = todo /\ late' = late
  BY DEF io
<1>2. Sorted(timers)' /\ Ended(todo)'
  BY <1>1, Zenon DEF KInv, TimersTyped, Sorted, Ended
<1>3. (Waiting' <=> Waiting) /\ (Queued' <=> Queued) /\ (Coming(todo)' <=> Coming(todo))
  BY <1>1, Zenon DEF Waiting, Queued, Coming
<1> QED
  BY <1>1, <1>2, <1>3, Zenon DEF KInv, TimersTyped, Typed, Promised

LEMMA KeypadSteps ==
  ASSUME KInv, (\E k \in Keys : Tap(k) \/ Hold(k)) \/ Release \/ OtherClient \/ StepsDone
  PROVE  KInv'
<1>1. UNCHANGED io
  BY Zenon DEF Tap, Hold, Release, OtherClient, StepsDone, io
<1>2. UNCHANGED statics
  BY Zenon DEF Tap, Hold, Release, OtherClient, StepsDone, statics
<1>3. /\ lost' = lost /\ asked' = asked /\ motors' = motors
      /\ car' \in {car, "other", "stopped"} /\ driving' \in {driving, FALSE}
  BY DEF Tap, Hold, Release, OtherClient, StepsDone, history, keypad
<1>4. KeypadTyped'
  <2>0. /\ presses \in 0 .. MaxPresses /\ MaxPresses \in Nat
        /\ others \in 0 .. MaxOther /\ MaxOther \in Nat
    BY Constants DEF KInv, KeypadTyped
  <2>1. ASSUME NEW k \in Keys, Tap(k) \/ Hold(k) PROVE KeypadTyped'
    <3>1. presses' \in 0 .. MaxPresses
      BY <2>0, <2>1 DEF Tap, Hold
    <3>2. First(k) \in Keys \cup {NoKey} /\ k \in Keys \cup {NoKey}
      BY DEF First, KInv, KeypadTyped
    <3>3. event' = First(k) /\ held' \in {held, k} /\ others' = others
      BY <2>1 DEF Tap, Hold
    <3> QED
      BY <1>3, <3>1, <3>2, <3>3 DEF KInv, KeypadTyped
  <2>2. CASE Release
    BY <2>2 DEF KInv, KeypadTyped, Release
  <2>3. CASE OtherClient
    <3>1. others' \in 0 .. MaxOther
      BY <2>0, <2>3 DEF OtherClient
    <3> QED
      BY <2>3, <3>1 DEF KInv, KeypadTyped, OtherClient, keypad
  <2>4. CASE StepsDone
    BY <2>4 DEF KInv, KeypadTyped, StepsDone, keypad
  <2> QED
    BY <2>1, <2>2, <2>3, <2>4, Zenon
<1>5. StaticsTyped'
  BY <1>2, <1>3, Zenon DEF KInv, StaticsTyped, statics
<1>6. ToldTyped'
  BY <1>3 DEF KInv, ToldTyped, Movements
<1>7. car' = "moving" => car = "moving"
  BY <1>3
<1>8. TimersTyped' /\ Promised'
  BY <1>1, <1>3, <1>7, IoKept, Zenon
<1> QED
  BY <1>4, <1>5, <1>6, <1>8, Zenon DEF KInv

\* The first of what is left is done.
LEMMA TodoFacts ==
  ASSUME KInv, todo # <<>>
  PROVE  /\ Head(todo) \in StepSet /\ Tail(todo) \in Seq(StepSet) /\ Ended(Tail(todo))
         /\ Head(todo).do = "move" => Coming(Tail(todo))
         /\ Head(todo).do \notin {"start", "stop"} /\ Coming(todo) => Coming(Tail(todo))
<1> USE DEF KInv, TimersTyped, Typed
<1> HIDE DEF StepSet
<1>1. Head(todo) \in StepSet /\ Tail(todo) \in Seq(StepSet)
  BY TailFacts
<1>2. Ended(Tail(todo)) /\ (Head(todo).do = "move" => Coming(Tail(todo)))
  BY EndedTail
<1>3. ASSUME Head(todo).do \notin {"start", "stop"}, Coming(todo) PROVE Coming(Tail(todo))
  <2>1. Head(todo) \notin {Start, StopAll}
    BY <1>1, <1>3, StepFacts
  <2> QED
    BY <1>3, <2>1, ComingTail
<1> QED
  BY <1>1, <1>2, <1>3

\* The waits are as they were, and what is queued too.
LEMMA WaitsKept ==
  ASSUME KInv, UNCHANGED timers
  PROVE  Sorted(timers)' /\ (Waiting' <=> Waiting) /\ timers' \in Seq(Waits)
<1>1. timers' = timers
  OBVIOUS
<1> QED
  BY <1>1, Zenon DEF KInv, TimersTyped, Typed, Sorted, Waiting

LEMMA QueueKept == ASSUME UNCHANGED queued PROVE Queued' <=> Queued
<1>1. queued' = queued
  OBVIOUS
<1> QED
  BY <1>1, Zenon DEF Queued

\* Steps of the io thread leave the keypad alone.
LEMMA KeypadKept == ASSUME KInv, UNCHANGED <<keypad, others>> PROVE KeypadTyped' /\ motors' = motors
  BY DEF KInv, KeypadTyped, keypad
LEMMA StaticsKept ==
  ASSUME KInv, UNCHANGED <<statics, motors>> PROVE StaticsTyped'
  BY DEF KInv, StaticsTyped, statics
LEMMA ToldKept ==
  ASSUME KInv, UNCHANGED history PROVE ToldTyped' /\ car' = car /\ lost' = lost
  BY DEF KInv, ToldTyped, history

\* A tick takes one from every wait that is not due yet.
LEMMA TickWaits ==
  ASSUME KInv, Tick
  PROVE  /\ DOMAIN timers' = DOMAIN timers
         /\ \A i \in DOMAIN timers :
              /\ timers'[i].who = timers[i].who
              /\ timers'[i].left = IF timers[i].left > 0 THEN timers[i].left - 1 ELSE 0
              /\ timers'[i] \in Waits
<1>1. timers \in Seq(Waits)
  BY DEF KInv, TimersTyped, Typed
<1>2. timers' = [i \in DOMAIN timers |->
                  [timers[i] EXCEPT !.left = IF @ > 0 THEN @ - 1 ELSE 0]]
  BY Zenon DEF Tick
<1>3. \A i \in DOMAIN timers :
        /\ timers[i] \in Waits /\ timers[i].left \in 0 .. StopTime
        /\ timers[i].who \in {"poll", "stop"}
  BY <1>1, WaitFields
<1>4. DOMAIN timers' = DOMAIN timers
  BY <1>2
<1>5. \A i \in DOMAIN timers :
        /\ timers'[i].who = timers[i].who
        /\ timers'[i].left = IF timers[i].left > 0 THEN timers[i].left - 1 ELSE 0
        /\ timers'[i] \in Waits
  <2> SUFFICES ASSUME NEW i \in DOMAIN timers
               PROVE  /\ timers'[i].who = timers[i].who
                      /\ timers'[i].left = IF timers[i].left > 0 THEN timers[i].left - 1 ELSE 0
                      /\ timers'[i] \in Waits
    OBVIOUS
  <2> DEFINE l == IF timers[i].left > 0 THEN timers[i].left - 1 ELSE 0
  <2>1. timers'[i] = [timers[i] EXCEPT !.left = l]
    BY <1>2
  <2>2. l \in 0 .. StopTime
    BY <1>3, Constants
  <2> HIDE DEF l
  <2>3. timers[i] \in [who : {"poll", "stop"}, left : 0 .. StopTime]
    BY <1>3 DEF Waits
  <2>4. /\ timers'[i].who = timers[i].who /\ timers'[i].left = l
        /\ timers'[i] \in [who : {"poll", "stop"}, left : 0 .. StopTime]
    BY <2>1, <2>2, <2>3
  <2> QED
    BY <2>4 DEF Waits, l
<1> QED
  BY <1>4, <1>5

LEMMA TickStep == ASSUME KInv, Tick PROVE KInv'
<1>1. UNCHANGED <<keypad, others>> /\ UNCHANGED statics /\ UNCHANGED history /\ UNCHANGED motors
      /\ queued' = queued /\ todo' = todo
  BY DEF Tick, keypad
<1>2. KeypadTyped' /\ StaticsTyped' /\ ToldTyped' /\ car' = car /\ lost' = lost
  BY <1>1, KeypadKept, StaticsKept, ToldKept
<1>3. timers \in Seq(Waits)
  BY DEF KInv, TimersTyped, Typed
<1>4. timers' = [i \in DOMAIN timers |->
                  [timers[i] EXCEPT !.left = IF @ > 0 THEN @ - 1 ELSE 0]]
  BY Zenon DEF Tick
<1>5. \A i \in DOMAIN timers : timers[i].left \in 0 .. StopTime
  BY <1>3, WaitFields
<1>6. DOMAIN timers' = DOMAIN timers
  BY <1>4
<1>7. \A i \in DOMAIN timers :
        /\ timers'[i].who = timers[i].who
        /\ timers'[i].left = IF timers[i].left > 0 THEN timers[i].left - 1 ELSE 0
        /\ timers'[i] \in Waits
  BY TickWaits
<1>8. timers' \in Seq(Waits)
  <2>1. Len(timers) \in Nat /\ DOMAIN timers = 1 .. Len(timers)
    BY <1>3
  <2>2. timers' \in [1 .. Len(timers) -> Waits]
    BY <1>4, <1>6, <1>7, <2>1
  <2> QED
    BY <2>1, <2>2
<1>9. Sorted(timers)'
  <2> SUFFICES ASSUME NEW i \in DOMAIN timers, NEW j \in DOMAIN timers, i < j
               PROVE  timers'[i].left <= timers'[j].left /\ timers'[i].who # timers'[j].who
    BY <1>6 DEF Sorted
  <2>1. timers[i].left <= timers[j].left /\ timers[i].who # timers[j].who
    BY Zenon DEF KInv, TimersTyped, Sorted
  <2> QED
    BY <1>5, <1>7, <2>1
<1>10. late' \in 0 .. MaxLate
  BY Constants DEF Tick, KInv, TimersTyped
<1>11. (Waiting' <=> Waiting) /\ (Queued' <=> Queued)
  BY <1>1, <1>6, <1>7, QueueKept, Zenon DEF Waiting
<1>12. Typed' /\ Ended(todo)'
  BY <1>1, <1>8 DEF KInv, TimersTyped, Typed, Ended
<1>13. Coming(todo)' <=> Coming(todo)
  BY <1>1, Zenon DEF Coming
<1>14. Promised'
  BY <1>2, <1>11, <1>13, Zenon DEF KInv, Promised
<1> QED
  BY <1>2, <1>9, <1>10, <1>12, <1>14, Zenon DEF KInv, TimersTyped

\* The first wait goes to the end of the queue.
LEMMA ExpireLists ==
  ASSUME KInv, Expire
  PROVE  /\ timers \in Seq(Waits) /\ timers # <<>> /\ queued \in Seq({"poll", "stop"})
         /\ timers' = Tail(timers) /\ queued' = Append(queued, timers[1].who)
         /\ Tail(timers) \in Seq(Waits) /\ 1 \in DOMAIN timers
         /\ \A i \in DOMAIN Tail(timers) : i + 1 \in DOMAIN timers /\ Tail(timers)[i] = timers[i + 1]
         /\ \A i \in DOMAIN timers : i # 1 =>
              i - 1 \in DOMAIN Tail(timers) /\ Tail(timers)[i - 1] = timers[i]
         /\ timers[1].who \in {"poll", "stop"}
         /\ queued' \in Seq({"poll", "stop"})
         /\ \A i \in DOMAIN queued : i \in DOMAIN queued' /\ queued'[i] = queued[i]
         /\ Len(queued) + 1 \in DOMAIN queued' /\ queued'[Len(queued) + 1] = timers[1].who
<1>1. /\ timers \in Seq(Waits) /\ timers # <<>> /\ queued \in Seq({"poll", "stop"})
      /\ timers' = Tail(timers) /\ queued' = Append(queued, timers[1].who)
  BY DEF KInv, TimersTyped, Typed, Expire
<1>2. /\ Tail(timers) \in Seq(Waits) /\ 1 \in DOMAIN timers
      /\ \A i \in DOMAIN Tail(timers) : i + 1 \in DOMAIN timers /\ Tail(timers)[i] = timers[i + 1]
      /\ \A i \in DOMAIN timers : i # 1 =>
           i - 1 \in DOMAIN Tail(timers) /\ Tail(timers)[i - 1] = timers[i]
  BY <1>1, TailFacts
<1>3. timers[1].who \in {"poll", "stop"}
  BY <1>1, <1>2, WaitFields
<1>4. /\ queued' \in Seq({"poll", "stop"})
      /\ \A i \in DOMAIN queued : i \in DOMAIN queued' /\ queued'[i] = queued[i]
      /\ Len(queued) + 1 \in DOMAIN queued' /\ queued'[Len(queued) + 1] = timers[1].who
  BY <1>1, <1>3
<1> QED
  BY <1>1, <1>2, <1>3, <1>4

LEMMA ExpireStep == ASSUME KInv, Expire PROVE KInv'
<1>1. UNCHANGED <<keypad, others>> /\ UNCHANGED statics /\ UNCHANGED history /\ UNCHANGED motors
      /\ todo' = todo /\ late' = late
  BY DEF Expire, keypad
<1>2. KeypadTyped' /\ StaticsTyped' /\ ToldTyped' /\ car' = car /\ lost' = lost
  BY <1>1, KeypadKept, StaticsKept, ToldKept
<1>3. /\ timers \in Seq(Waits) /\ timers # <<>> /\ queued \in Seq({"poll", "stop"})
      /\ timers' = Tail(timers) /\ queued' = Append(queued, timers[1].who)
  BY ExpireLists
<1>4. /\ Tail(timers) \in Seq(Waits) /\ 1 \in DOMAIN timers
      /\ \A i \in DOMAIN Tail(timers) : i + 1 \in DOMAIN timers /\ Tail(timers)[i] = timers[i + 1]
      /\ \A i \in DOMAIN timers : i # 1 =>
           i - 1 \in DOMAIN Tail(timers) /\ Tail(timers)[i - 1] = timers[i]
  BY ExpireLists, Zenon
<1>6. /\ queued' \in Seq({"poll", "stop"})
      /\ \A i \in DOMAIN queued : i \in DOMAIN queued' /\ queued'[i] = queued[i]
      /\ Len(queued) + 1 \in DOMAIN queued' /\ queued'[Len(queued) + 1] = timers[1].who
  BY ExpireLists, Zenon
<1>7. Sorted(timers)'
  <2> SUFFICES ASSUME NEW i \in DOMAIN Tail(timers), NEW j \in DOMAIN Tail(timers), i < j
               PROVE  /\ Tail(timers)[i].left <= Tail(timers)[j].left
                      /\ Tail(timers)[i].who # Tail(timers)[j].who
    BY <1>3 DEF Sorted
  <2>1. /\ i + 1 \in DOMAIN timers /\ j + 1 \in DOMAIN timers /\ i + 1 < j + 1
        /\ Tail(timers)[i] = timers[i + 1] /\ Tail(timers)[j] = timers[j + 1]
    BY <1>3, <1>4
  <2> QED
    BY <2>1, Zenon DEF KInv, TimersTyped, Sorted
<1>8. Waiting \/ Queued => Waiting' \/ Queued'
  <2>1. CASE Queued
    <3>1. PICK i \in DOMAIN queued : queued[i] = "stop"
      BY <2>1 DEF Queued
    <3> QED
      BY <1>6, <3>1, Zenon DEF Queued
  <2>2. CASE Waiting
    <3>1. PICK i \in DOMAIN timers : timers[i].who = "stop"
      BY <2>2 DEF Waiting
    <3>2. CASE i = 1
      BY <1>6, <3>1, <3>2, Zenon DEF Queued
    <3>3. CASE i # 1
      BY <1>3, <1>4, <3>1, <3>3, Zenon DEF Waiting
    <3> QED
      BY <3>2, <3>3
  <2> QED
    BY <2>1, <2>2
<1>9. Typed' /\ Ended(todo)' /\ late' \in 0 .. MaxLate
  BY <1>1, <1>3, <1>4, <1>6 DEF KInv, TimersTyped, Typed, Ended
<1>10. Coming(todo)' <=> Coming(todo)
  BY <1>1, Zenon DEF Coming
<1>11. Promised'
  BY <1>2, <1>8, <1>10, Zenon DEF KInv, Promised
<1> QED
  BY <1>2, <1>7, <1>9, <1>11, Zenon DEF KInv, TimersTyped

\* A queued completion begins; what it has to do contains no movement yet.
LEMMA PollStep == ASSUME KInv, Poll PROVE KInv'
<1>1. /\ queued \in Seq({"poll", "stop"}) /\ queued # <<>> /\ Head(queued) = "poll"
      /\ queued' = Tail(queued) /\ todo = <<>> /\ event' = NoKey
      /\ held' = held /\ presses' = presses /\ others' = others /\ motors' = motors
      /\ timers' = timers /\ late' = late
      /\ UNCHANGED statics /\ UNCHANGED history
  BY DEF KInv, TimersTyped, Typed, Poll
<1>2. StaticsTyped' /\ ToldTyped' /\ car' = car /\ lost' = lost
  BY <1>1, StaticsKept, ToldKept
<1>3. KeypadTyped'
  BY <1>1 DEF KInv, KeypadTyped
<1>4. \/ \E k \in Keys : todo' = <<Ask, Key(k), Rearm>>
      \/ todo' = <<Rearm>>
      \/ todo' = <<Ask, Rearm>>
  <2>1. First(held) \in Keys \cup {NoKey}
    BY DEF First, KInv, KeypadTyped
  <2> QED
    BY <2>1 DEF Poll
<1>5. todo' \in Seq(StepSet) /\ Ended(todo')
  <2>1. /\ Ask \in StepSet /\ Rearm \in StepSet /\ \A k \in Keys : Key(k) \in StepSet
        /\ Ask.do # "move" /\ Rearm.do # "move" /\ \A k \in Keys : Key(k).do # "move"
    BY StepTypes, StepKinds
  <2> HIDE DEF StepSet
  <2>2. ASSUME NEW k \in Keys, todo' = <<Ask, Key(k), Rearm>>
        PROVE  todo' \in Seq(StepSet) /\ Ended(todo')
    BY <2>1, <2>2 DEF Ended
  <2>3. CASE todo' = <<Rearm>>
    BY <2>1, <2>3 DEF Ended
  <2>4. CASE todo' = <<Ask, Rearm>>
    BY <2>1, <2>4 DEF Ended
  <2> QED
    BY <1>4, <2>2, <2>3, <2>4
<1>6. queued' \in Seq({"poll", "stop"}) /\ (Queued => Queued')
  <2>1. /\ Tail(queued) \in Seq({"poll", "stop"})
        /\ \A i \in DOMAIN queued : i # 1 =>
              i - 1 \in DOMAIN Tail(queued) /\ Tail(queued)[i - 1] = queued[i]
        /\ queued[1] = "poll"
    BY <1>1, TailFacts
  <2>2. ASSUME NEW i \in DOMAIN queued, queued[i] = "stop"
        PROVE  \E j \in DOMAIN Tail(queued) : Tail(queued)[j] = "stop"
    <3>1. "poll" # "stop"
      OBVIOUS
    <3>2. i # 1
      BY <2>1, <2>2, <3>1, Zenon
    <3> QED
      BY <2>1, <2>2, <3>2, Zenon
  <2> QED
    BY <1>1, <2>1, <2>2, Zenon DEF Queued
<1>7. Sorted(timers)' /\ (Waiting' <=> Waiting) /\ timers' \in Seq(Waits)
  BY <1>1, WaitsKept
<1>8. ~Coming(todo)
  BY <1>1 DEF Coming
<1>9. Promised'
  BY <1>2, <1>6, <1>7, <1>8, Zenon DEF KInv, Promised
<1>10. late' \in 0 .. MaxLate
  BY <1>1 DEF KInv, TimersTyped
<1> QED
  BY <1>2, <1>3, <1>5, <1>6, <1>7, <1>9, <1>10, Zenon DEF KInv, TimersTyped, Typed

LEMMA StopTimerStep == ASSUME KInv, StopTimer PROVE KInv'
<1>1. /\ queued \in Seq({"poll", "stop"}) /\ queued # <<>> /\ queued' = Tail(queued)
      /\ todo' = <<StopAll>> /\ timers' = timers /\ late' = late /\ motors' = motors
      /\ UNCHANGED <<keypad, others>> /\ UNCHANGED statics /\ UNCHANGED history
  BY DEF KInv, TimersTyped, Typed, StopTimer, keypad
<1>2. KeypadTyped' /\ StaticsTyped' /\ ToldTyped'
  BY <1>1, KeypadKept, StaticsKept, ToldKept
<1>3. queued' \in Seq({"poll", "stop"})
  BY <1>1, TailFacts
<1>4. /\ todo' \in Seq(StepSet) /\ Ended(todo') /\ Coming(todo')
  <2>1. StopAll \in StepSet /\ StopAll.do = "stop"
    BY StepTypes, StepKinds
  <2> HIDE DEF StepSet
  <2> QED
    BY <1>1, <2>1 DEF Ended, Coming
<1>5. Sorted(timers)' /\ timers' \in Seq(Waits)
  BY <1>1, WaitsKept
<1>6. Promised'
  BY <1>4, Zenon DEF Promised
<1>7. late' \in 0 .. MaxLate
  BY <1>1 DEF KInv, TimersTyped
<1> QED
  BY <1>2, <1>3, <1>4, <1>5, <1>6, <1>7, Zenon DEF KInv, TimersTyped, Typed

\* A step that leaves the timers and the queue alone and keeps a coming stop.
LEMMA TodoStep ==
  ASSUME KInv, UNCHANGED <<timers, queued, late>>, todo' \in Seq(StepSet), Ended(todo'),
         car' = "moving" /\ "stop" \notin lost' =>
           \/ Coming(todo')
           \/ car = "moving" /\ "stop" \notin lost /\ (Coming(todo) => Coming(todo'))
  PROVE  TimersTyped' /\ Promised'
<1>1. Sorted(timers)' /\ (Waiting' <=> Waiting) /\ timers' \in Seq(Waits)
  BY WaitsKept
<1>2. Queued' <=> Queued
  BY QueueKept
<1>3. queued' = queued /\ late' = late /\ queued \in Seq({"poll", "stop"}) /\ late \in 0 .. MaxLate
  BY DEF KInv, TimersTyped, Typed
<1>4. Promised'
  BY <1>1, <1>2, Zenon DEF KInv, Promised
<1> QED
  BY <1>1, <1>3, <1>4, Zenon DEF TimersTyped, Typed

LEMMA AskStep == ASSUME KInv, AskMotorNum PROVE KInv'
<1>1. /\ todo # <<>> /\ Head(todo).do = "ask" /\ todo' = Tail(todo) /\ motors' = motors
      /\ UNCHANGED <<timers, queued, late>> /\ UNCHANGED <<keypad, others>> /\ UNCHANGED history
      /\ input' = input /\ oldKey' = oldKey /\ soundEnabled' = soundEnabled
      /\ motorNum' \in {motorNum, motors}
  BY DEF AskMotorNum, keypad
<1>2. KeypadTyped' /\ ToldTyped' /\ car' = car /\ lost' = lost
  BY <1>1, KeypadKept, ToldKept
<1>3. StaticsTyped'
  BY <1>1 DEF KInv, StaticsTyped
<1>4. Tail(todo) \in Seq(StepSet) /\ Ended(Tail(todo)) /\ (Coming(todo) => Coming(Tail(todo)))
  BY <1>1, TodoFacts
<1>5. TimersTyped' /\ Promised'
  BY <1>1, <1>2, <1>4, TodoStep
<1> QED
  BY <1>2, <1>3, <1>5, Zenon DEF KInv

LEMMA KeyStep == ASSUME KInv, HandleKeyPress PROVE KInv'
<1> DEFINE k == Head(todo).n
<1>1. /\ todo # <<>> /\ Head(todo).do = "key" /\ motors' = motors
      /\ UNCHANGED <<timers, queued, late>> /\ UNCHANGED <<keypad, others>>
      /\ motorNum' = motorNum /\ car' = car /\ asked' = asked /\ lost' = lost
      /\ driving' = (driving /\ k = held)
  BY DEF HandleKeyPress, keypad
<1>2. KeypadTyped'
  BY <1>1, KeypadKept
<1>3. ToldTyped'
  <2>1. driving' \in BOOLEAN
    BY <1>1, Zenon
  <2> QED
    BY <1>1, <2>1, Zenon DEF KInv, ToldTyped
<1>4. k \in Keys
  BY <1>1, TodoFacts, StepFacts
<1>5. Tail(todo) \in Seq(StepSet) /\ Ended(Tail(todo)) /\ (Coming(todo) => Coming(Tail(todo)))
  BY <1>1, TodoFacts
<1>6. input \in Nat /\ motorNum \in {0, motors} /\ oldKey \in Keys \cup {NoKey}
      /\ soundEnabled \in BOOLEAN
  BY DEF KInv, StaticsTyped
<1>7. CASE Ignored(k)
  <2>1. todo' = Tail(todo) /\ input' = input /\ oldKey' = oldKey /\ soundEnabled' = soundEnabled
    BY <1>7, Zenon DEF HandleKeyPress
  <2>2. StaticsTyped'
    BY <1>1, <1>6, <2>1, Zenon DEF StaticsTyped
  <2>3. TimersTyped' /\ Promised'
    BY <1>1, <1>5, <2>1, TodoStep
  <2> QED
    BY <1>2, <1>3, <2>2, <2>3, Zenon DEF KInv
<1>8. CASE ~Ignored(k)
  <2>1. /\ todo' = Handle(k).calls \o Tail(todo) /\ input' = Handle(k).input /\ oldKey' = k
        /\ soundEnabled' = IF k = STAR THEN ~soundEnabled ELSE soundEnabled
    BY <1>8, Zenon DEF HandleKeyPress
  <2>2. /\ Handle(k).calls \in Seq(StepSet) /\ Ended(Handle(k).calls)
        /\ Handle(k).input \in Nat
    BY <1>6, HandleFacts
  <2>3. soundEnabled' \in BOOLEAN
    BY <1>6, <2>1, Zenon
  <2>4. StaticsTyped'
    BY <1>1, <1>4, <1>6, <2>1, <2>2, <2>3, Zenon DEF StaticsTyped
  <2> DEFINE a == Handle(k).calls
             b == Tail(todo)
  <2> HIDE DEF a, b
  <2>5. a \in Seq(StepSet) /\ b \in Seq(StepSet) /\ Ended(a) /\ Ended(b)
    BY <1>5, <2>2 DEF a, b
  <2>6. a \o b \in Seq(StepSet) /\ Ended(a \o b) /\ (Coming(b) => Coming(a \o b))
    <3> HIDE DEF StepSet
    <3>1. a \o b \in Seq(StepSet)
      BY <2>5, Joined
    <3>2. Ended(a \o b)
      BY <2>5, EndedJoin
    <3>3. Coming(b) => Coming(a \o b)
      BY <2>5, ComingJoin
    <3> QED
      BY <3>1, <3>2, <3>3
  <2>7. todo' = a \o b /\ (Coming(todo) => Coming(b))
    BY <1>5, <2>1 DEF a, b
  <2>8. TimersTyped' /\ Promised'
    BY <1>1, <2>6, <2>7, TodoStep
  <2> QED
    BY <1>2, <1>3, <2>4, <2>8, Zenon DEF KInv
<1> QED
  BY <1>7, <1>8

LEMMA CallStep == ASSUME KInv, Call PROVE KInv'
<1> DEFINE c == Head(todo)
<1>1. /\ todo # <<>> /\ c.do \in Calls /\ todo' = Tail(todo) /\ motors' = motors
      /\ UNCHANGED <<timers, queued, late>> /\ UNCHANGED <<keypad, others>>
      /\ UNCHANGED statics
      /\ car' \in {car, Effect(c)} /\ Remember(c)
  BY DEF Call, keypad
<1>2. KeypadTyped' /\ StaticsTyped'
  BY <1>1, KeypadKept, StaticsKept
<1>3. /\ c \in StepSet /\ Tail(todo) \in Seq(StepSet) /\ Ended(Tail(todo))
      /\ c.do = "move" => Coming(Tail(todo))
      /\ c.do \notin {"start", "stop"} /\ Coming(todo) => Coming(Tail(todo))
  BY <1>1, TodoFacts
<1>4. c.do = "turn" => c.n \in Nat
  BY <1>3, StepFacts
<1> HIDE DEF c
<1>5. ToldTyped'
  <2>1. car' \in Movements
    BY <1>1 DEF KInv, ToldTyped, Effect, Movements
  <2>2. asked' \in Nat
    BY <1>1, <1>4, Constants DEF KInv, ToldTyped, Remember
  <2>3. driving' \in BOOLEAN
    BY <1>1, Zenon DEF KInv, ToldTyped, Remember
  <2>4. lost' \subseteq Calls
    BY <1>1 DEF KInv, ToldTyped, Remember
  <2> QED
    BY <2>1, <2>2, <2>3, <2>4 DEF ToldTyped
<1>6. ASSUME car' = "moving", "stop" \notin lost'
      PROVE  \/ Coming(todo')
             \/ car = "moving" /\ "stop" \notin lost /\ (Coming(todo) => Coming(todo'))
  <2>1. CASE c.do = "move"
    BY <1>1, <1>3, <2>1
  <2>2. CASE c.do = "stop"
    <3>1. Effect(c) = "stopped" /\ Moves(c)
      BY <2>2 DEF Effect, Moves
    <3>2. car' # Effect(c)
      BY <1>6, <3>1
    <3>3. lost' = lost \cup {c.do}
      BY <1>1, <3>1, <3>2 DEF Remember
    <3> QED
      BY <1>6, <2>2, <3>3
  <2>3. CASE c.do \notin {"move", "stop"}
    <3>1. Effect(c) \in {"steps", car}
      BY <2>3 DEF Effect
    <3>2. car = "moving"
      BY <1>1, <1>6, <3>1
    <3>3. CASE ~Moves(c)
      <4>1. lost' = lost
        BY <1>1, <3>3 DEF Remember
      <4> QED
        BY <1>1, <1>3, <1>6, <2>3, <3>2, <4>1 DEF Calls
    <3>4. CASE Moves(c)
      <4>1. c.do = "steps" /\ motors # 2
        BY <2>3, <3>4 DEF Moves
      <4>2. Effect(c) = "steps"
        BY <4>1 DEF Effect
      <4>3. lost' = lost \cup {c.do}
        BY <1>1, <1>6, <3>4, <4>2 DEF Remember
      <4> QED
        BY <1>1, <1>3, <1>6, <2>3, <3>2, <4>1, <4>3
    <3> QED
      BY <3>3, <3>4
  <2> QED
    BY <2>1, <2>2, <2>3
<1>7. TimersTyped' /\ Promised'
  BY <1>1, <1>3, <1>6, TodoStep
<1> QED
  BY <1>2, <1>5, <1>7, Zenon DEF KInv

LEMMA StartStep == ASSUME KInv, StartStopTimer PROVE KInv'
<1> DEFINE new == SetTimer("stop", StopTime)
<1>1. /\ todo # <<>> /\ todo' = Tail(todo) /\ motors' = motors /\ timers' = new
      /\ queued' = queued /\ late' = late /\ car' = car /\ asked' = asked /\ lost' = lost
      /\ UNCHANGED <<keypad, others>> /\ UNCHANGED statics
      /\ driving' = (held = oldKey /\ held \in Arrows)
  BY DEF StartStopTimer, keypad
<1> HIDE DEF new
<1>2. KeypadTyped' /\ StaticsTyped'
  BY <1>1, KeypadKept, StaticsKept
<1>3. ToldTyped'
  <2>1. driving' \in BOOLEAN
    BY <1>1, Zenon
  <2> QED
    BY <1>1, <2>1, Zenon DEF KInv, ToldTyped
<1>4. Tail(todo) \in Seq(StepSet) /\ Ended(Tail(todo))
  BY <1>1, TodoFacts
<1>5. new \in Seq(Waits) /\ Sorted(new) /\ \E i \in DOMAIN new : new[i].who = "stop"
  <2>1. Typed /\ Sorted(timers) /\ "stop" \in {"poll", "stop"} /\ StopTime \in 0 .. StopTime
    BY Constants DEF KInv, TimersTyped
  <2> QED
    BY <2>1, SetFacts, Zenon DEF new
<1>6. Sorted(timers)' /\ timers' \in Seq(Waits) /\ Waiting'
  BY <1>1, <1>5, Zenon DEF Sorted, Waiting
<1>7. /\ queued' \in Seq({"poll", "stop"}) /\ late' \in 0 .. MaxLate
      /\ todo' \in Seq(StepSet) /\ Ended(todo')
  BY <1>1, <1>4 DEF KInv, TimersTyped, Typed
<1> QED
  BY <1>2, <1>3, <1>6, <1>7, Zenon DEF KInv, TimersTyped, Typed, Promised

LEMMA RearmStep == ASSUME KInv, RearmPoll PROVE KInv'
<1> DEFINE new == SetTimer("poll", CheckTime)
<1>1. /\ todo # <<>> /\ Head(todo).do = "rearm" /\ todo' = Tail(todo) /\ motors' = motors
      /\ timers' = new /\ queued' = queued /\ late' = late
      /\ UNCHANGED <<keypad, others>> /\ UNCHANGED statics /\ UNCHANGED history
  BY DEF RearmPoll, keypad
<1> HIDE DEF new
<1>2. KeypadTyped' /\ StaticsTyped' /\ ToldTyped' /\ car' = car /\ lost' = lost
  BY <1>1, KeypadKept, StaticsKept, ToldKept
<1>3. Tail(todo) \in Seq(StepSet) /\ Ended(Tail(todo)) /\ (Coming(todo) => Coming(Tail(todo)))
  BY <1>1, TodoFacts
<1>4. /\ new \in Seq(Waits) /\ Sorted(new)
      /\ \A i \in DOMAIN timers : timers[i].who # "poll"
           => \E k \in DOMAIN new : new[k].who = timers[i].who
  <2>1. Typed /\ Sorted(timers) /\ "poll" \in {"poll", "stop"} /\ CheckTime \in 0 .. StopTime
    BY Constants DEF KInv, TimersTyped
  <2> QED
    BY <2>1, SetFacts, Zenon DEF new
<1>5. Sorted(timers)' /\ timers' \in Seq(Waits)
  BY <1>1, <1>4, Zenon DEF Sorted
<1>6. Waiting => Waiting'
  <2>1. "poll" # "stop"
    OBVIOUS
  <2> QED
    BY <1>1, <1>4, <2>1, Zenon DEF Waiting
<1>7. Queued' <=> Queued
  BY <1>1, QueueKept
<1>8. Promised'
  BY <1>1, <1>2, <1>3, <1>6, <1>7, Zenon DEF KInv, Promised
<1>9. /\ queued' \in Seq({"poll", "stop"}) /\ late' \in 0 .. MaxLate
      /\ todo' \in Seq(StepSet) /\ Ended(todo')
  BY <1>1, <1>3 DEF KInv, TimersTyped, Typed
<1> QED
  BY <1>2, <1>5, <1>8, <1>9, Zenon DEF KInv, TimersTyped, Typed

LEMMA StutterStep == ASSUME KInv, UNCHANGED vars PROVE KInv'
<1>1. UNCHANGED io /\ UNCHANGED <<keypad, others>> /\ UNCHANGED statics /\ UNCHANGED history
      /\ motors' = motors
  BY Zenon DEF vars, io, keypad, statics, history
<1>2. KeypadTyped' /\ StaticsTyped' /\ ToldTyped' /\ car' = car /\ lost' = lost
  BY <1>1, KeypadKept, StaticsKept, ToldKept
<1>3. TimersTyped' /\ Promised'
  BY <1>1, <1>2, IoKept
<1> QED
  BY <1>2, <1>3, Zenon DEF KInv

LEMMA NextStep == ASSUME KInv, [Next]_vars PROVE KInv'
<1>1. CASE (\E k \in Keys : Tap(k) \/ Hold(k)) \/ Release \/ OtherClient \/ StepsDone
  BY <1>1, KeypadSteps
<1>2. CASE Tick \/ Expire
  BY <1>2, TickStep, ExpireStep
<1>3. CASE IoStep
  BY <1>3, PollStep, StopTimerStep, AskStep, KeyStep, CallStep, StartStep, RearmStep, Zenon
     DEF IoStep
<1>4. CASE UNCHANGED vars
  BY <1>4, StutterStep
<1> QED
  BY <1>1, <1>2, <1>3, <1>4, Zenon DEF Next

-----------------------------------------------------------------------------
LEMMA Inductive == Spec => []KInv
<1>1. Init => KInv
  BY InitFacts
<1>2. KInv /\ [Next]_vars => KInv'
  BY NextStep
<1> QED
  BY <1>1, <1>2, PTL DEF Spec

(* The variables have their types; every timer waits once at most, and the   *)
(* waits are in the order of their deadlines, for any keys and times.        *)
THEOREM RemoteTypes == Spec => []TypeOK
<1>1. KInv => TypeOK
  BY TypesFollow
<1> QED
  BY <1>1, Inductive, PTL

(* Whatever keys are pressed and however the calls fail: a car that a key    *)
(* has set moving without an end has its stop under way (handleKeyPress and  *)
(* timerDirKey of remote_key.cpp), unless the stop itself was lost.          *)
THEOREM MovementsHaveStops == Spec => []MoveHasStop
<1>1. KInv => MoveHasStop
  BY StopIsPromised DEF KInv
<1> QED
  BY <1>1, Inductive, PTL

-----------------------------------------------------------------------------
(* What a completion has left, by the kinds of its steps.                  *)

Kinds == {"ask", "key", "rearm", "level", "stop", "steps", "start", "move", "turn"}
Plan(s) == [i \in DOMAIN s |-> s[i].do]

\* The lambda of the stop timer, and the last and the longest of what a poll leads to.
StopPlan  == <<"stop">>
RearmPlan == <<"rearm">>
StepsPlan == <<"steps", "rearm">>

\* A key was read, and waits for the number of motors or to be handled.
Keyed == {<<"ask", "key", "rearm">>, <<"key", "rearm">>}

\* The car was told to move, or is going to be, and the stop timer is going to be started.
Moved == {<<"start", "rearm">>, <<"turn", "start", "rearm">>}
Timed == Moved \cup {<<"move", "start", "rearm">>, <<"move", "turn", "start", "rearm">>}

\* What does not come of an arrow that is held.
Dull == {<<"stop">>, <<"ask", "rearm">>, <<"level", "rearm">>, <<"stop", "rearm">>}

Polls == Keyed \cup Timed \cup {RearmPlan, StepsPlan, <<"ask", "rearm">>, <<"level", "rearm">>,
                                <<"stop", "rearm">>}
Plans == Polls \cup {<<>>, StopPlan}

LEMMA PlanTail ==
  ASSUME NEW s \in Seq(StepSet), s # <<>>
  PROVE  /\ Plan(s) # <<>>
         /\ Plan(Tail(s)) = Tail(Plan(s))
         /\ Head(s).do = Head(Plan(s))
<1>0. \A e \in StepSet : e.do \in Kinds
  BY StepFacts DEF Kinds
<1> HIDE DEF StepSet
<1>1. /\ DOMAIN s = 1 .. Len(s) /\ Len(s) \in Nat /\ Len(s) > 0
      /\ \A i \in DOMAIN s : s[i].do \in Kinds
  BY <1>0
<1>2. /\ Plan(s) \in Seq(Kinds) /\ Len(Plan(s)) = Len(s)
      /\ DOMAIN Plan(s) = 1 .. Len(s) /\ \A i \in DOMAIN s : Plan(s)[i] = s[i].do
  BY <1>1 DEF Plan
<1> QED
  BY <1>1, <1>2 DEF Plan

LEMMA PlanJoin ==
  ASSUME NEW s \in Seq(StepSet), NEW u \in Seq(StepSet)
  PROVE  Plan(s \o u) = Plan(s) \o Plan(u)
<1>0. \A e \in StepSet : e.do \in Kinds
  BY StepFacts DEF Kinds
<1> HIDE DEF StepSet
<1>1. /\ DOMAIN s = 1 .. Len(s) /\ Len(s) \in Nat /\ DOMAIN u = 1 .. Len(u) /\ Len(u) \in Nat
      /\ \A i \in DOMAIN s : s[i].do \in Kinds
      /\ \A i \in DOMAIN u : u[i].do \in Kinds
  BY <1>0
<1>2. /\ Plan(s) \in Seq(Kinds) /\ Len(Plan(s)) = Len(s)
      /\ DOMAIN Plan(s) = 1 .. Len(s) /\ \A i \in DOMAIN s : Plan(s)[i] = s[i].do
  BY <1>1 DEF Plan
<1>3. /\ Plan(u) \in Seq(Kinds) /\ Len(Plan(u)) = Len(u)
      /\ DOMAIN Plan(u) = 1 .. Len(u) /\ \A i \in DOMAIN u : Plan(u)[i] = u[i].do
  BY <1>1 DEF Plan
<1>4. /\ Len(s \o u) = Len(s) + Len(u) /\ s \o u \in Seq(StepSet)
      /\ \A k \in 1 .. Len(s) + Len(u) :
           (s \o u)[k] = IF k <= Len(s) THEN s[k] ELSE u[k - Len(s)]
  BY Joined
<1> DEFINE a == Plan(s)
           b == Plan(u)
<1>5. /\ a \in Seq(Kinds) /\ Len(a) = Len(s) /\ b \in Seq(Kinds) /\ Len(b) = Len(u)
      /\ \A i \in DOMAIN s : a[i] = s[i].do
      /\ \A i \in DOMAIN u : b[i] = u[i].do
  BY <1>2, <1>3
<1> HIDE DEF a, b
<1>6. /\ a \o b \in Seq(Kinds) /\ Len(a \o b) = Len(s) + Len(u)
      /\ \A k \in 1 .. Len(s) + Len(u) :
           (a \o b)[k] = IF k <= Len(s) THEN a[k] ELSE b[k - Len(s)]
  <2>1. /\ a \o b \in Seq(Kinds) /\ Len(a \o b) = Len(a) + Len(b)
        /\ \A k \in 1 .. Len(a) + Len(b) :
             (a \o b)[k] = IF k <= Len(a) THEN a[k] ELSE b[k - Len(a)]
    <3>1. a \in Seq(Kinds) /\ b \in Seq(Kinds)
      BY <1>5
    <3> QED
      BY <3>1, Joined
  <2>2. Len(a) = Len(s) /\ Len(b) = Len(u)
    BY <1>5
  <2> QED
    BY <2>1, <2>2, Zenon
<1>7. \A k \in 1 .. Len(s) + Len(u) : (a \o b)[k] = (s \o u)[k].do
  <2> SUFFICES ASSUME NEW k \in 1 .. Len(s) + Len(u)
               PROVE  (a \o b)[k] = (s \o u)[k].do
    OBVIOUS
  <2>1. CASE k <= Len(s)
    <3>1. k \in DOMAIN s
      BY <1>1, <2>1
    <3> QED
      BY <1>4, <1>5, <1>6, <2>1, <3>1, Zenon
  <2>2. CASE k > Len(s)
    <3>1. k - Len(s) \in DOMAIN u /\ ~(k <= Len(s))
      BY <1>1, <2>2
    <3> QED
      BY <1>4, <1>5, <1>6, <3>1, Zenon
  <2>3. k <= Len(s) \/ k > Len(s)
    BY <1>1
  <2> QED
    BY <2>1, <2>2, <2>3, Zenon
<1> DEFINE v == s \o u
           c == a \o b
<1>8. /\ v \in Seq(StepSet) /\ Len(v) = Len(s) + Len(u)
      /\ c \in Seq(Kinds) /\ Len(c) = Len(s) + Len(u)
      /\ \A k \in 1 .. Len(s) + Len(u) : c[k] = v[k].do
  BY <1>4, <1>6, <1>7
<1> HIDE DEF v, c
<1>9. DOMAIN v = 1 .. Len(s) + Len(u) /\ DOMAIN c = 1 .. Len(s) + Len(u)
  BY <1>1, <1>8
<1>10. c = [k \in DOMAIN c |-> c[k]]
  BY <1>8
<1>11. Plan(v) = c
  BY <1>8, <1>9, <1>10 DEF Plan
<1> QED
  BY <1>11 DEF v, c, a, b

LEMMA PlanSets ==
  /\ {RearmPlan, StepsPlan} \subseteq Polls /\ Keyed \subseteq Polls
  /\ Moved \subseteq Timed /\ Timed \subseteq Polls
  /\ <<>> \notin Polls /\ StopPlan \notin Polls
  /\ {RearmPlan, StepsPlan} \cap (Keyed \cup Timed \cup Dull) = {} /\ Keyed \cap Timed = {}
  /\ RearmPlan # StepsPlan
  /\ Dull \cap (Keyed \cup Timed) = {} /\ <<>> \notin Dull /\ StopPlan \in Dull
  /\ <<"ask", "rearm">> \in Polls \ (Keyed \cup Timed \cup {StepsPlan, RearmPlan})
  BY DEF Polls, Keyed, Timed, Moved, Dull, RearmPlan, StepsPlan, StopPlan

\* The step that is next says which plan it is, and which is left after it.
LEMMA PlanSteps ==
  ASSUME NEW p \in Plans, p # <<>>
  PROVE  LET q == Tail(p) IN
    /\ q \in Plans
    /\ Head(p) = "rearm" => p = RearmPlan /\ q = <<>>
    /\ Head(p) = "ask" => /\ p \in Polls /\ p # RearmPlan
                          /\ q \in Polls \ (Timed \cup {StepsPlan})
                          /\ q \in Keyed => p \in Keyed
                          /\ p \notin Dull => q \in Keyed
    /\ Head(p) = "key" => p \in Keyed /\ q = RearmPlan
    /\ Head(p) = "start" => p \in Moved /\ q = RearmPlan
    /\ Head(p) \in Calls =>
         /\ p # RearmPlan /\ p \notin Keyed
         /\ (p \in Polls /\ q \in Polls) \/ (p = StopPlan /\ q = <<>>)
         /\ q \notin Keyed \cup {StepsPlan, StopPlan}
         /\ q \in Timed => p \in Timed /\ q \in Moved /\ Head(p) \in {"move", "turn"}
         /\ Head(p) = "turn" => p \in Moved
         /\ Head(p) = "steps" => p = StepsPlan
         /\ p \notin Dull /\ Head(p) # "steps" => q \in Timed
<1> USE DEF Plans, Polls, Keyed, Timed, Moved, Dull, RearmPlan, StepsPlan, StopPlan, Calls
<1>1. CASE p = <<"stop">>
  <2>1. Head(p) = "stop" /\ Tail(p) = <<>>
    BY <1>1
  <2> QED
    BY <1>1, <2>1
<1>2. CASE p = <<"rearm">>
  <2>1. Head(p) = "rearm" /\ Tail(p) = <<>>
    BY <1>2
  <2> QED
    BY <1>2, <2>1
<1>3. CASE p = <<"steps", "rearm">>
  <2>1. Head(p) = "steps" /\ Tail(p) = <<"rearm">>
    BY <1>3
  <2> QED
    BY <1>3, <2>1
<1>4. CASE p = <<"ask", "key", "rearm">>
  <2>1. Head(p) = "ask" /\ Tail(p) = <<"key", "rearm">>
    BY <1>4
  <2> QED
    BY <1>4, <2>1
<1>5. CASE p = <<"key", "rearm">>
  <2>1. Head(p) = "key" /\ Tail(p) = <<"rearm">>
    BY <1>5
  <2> QED
    BY <1>5, <2>1
<1>6. CASE p = <<"start", "rearm">>
  <2>1. Head(p) = "start" /\ Tail(p) = <<"rearm">>
    BY <1>6
  <2> QED
    BY <1>6, <2>1
<1>7. CASE p = <<"turn", "start", "rearm">>
  <2>1. Head(p) = "turn" /\ Tail(p) = <<"start", "rearm">>
    BY <1>7
  <2> QED
    BY <1>7, <2>1
<1>8. CASE p = <<"move", "start", "rearm">>
  <2>1. Head(p) = "move" /\ Tail(p) = <<"start", "rearm">>
    BY <1>8
  <2> QED
    BY <1>8, <2>1
<1>9. CASE p = <<"move", "turn", "start", "rearm">>
  <2>1. Head(p) = "move" /\ Tail(p) = <<"turn", "start", "rearm">>
    BY <1>9
  <2> QED
    BY <1>9, <2>1
<1>10. CASE p = <<"ask", "rearm">>
  <2>1. Head(p) = "ask" /\ Tail(p) = <<"rearm">>
    BY <1>10
  <2> QED
    BY <1>10, <2>1
<1>11. CASE p = <<"level", "rearm">>
  <2>1. Head(p) = "level" /\ Tail(p) = <<"rearm">>
    BY <1>11
  <2> QED
    BY <1>11, <2>1
<1>12. CASE p = <<"stop", "rearm">>
  <2>1. Head(p) = "stop" /\ Tail(p) = <<"rearm">>
    BY <1>12
  <2> QED
    BY <1>12, <2>1
<1> QED
  BY <1>1, <1>2, <1>3, <1>4, <1>5, <1>6, <1>7, <1>8, <1>9, <1>10, <1>11, <1>12

\* Tuples, by their elements.
LEMMA Joined2 ==
  ASSUME NEW S, NEW a \in S, NEW b \in S
  PROVE  <<a>> \o <<b>> = <<a, b>>
<1> DEFINE s == <<a>> \o <<b>>
           t == <<a, b>>
<1>1. s \in Seq(S) /\ Len(s) = 2 /\ s[1] = a /\ s[2] = b
  OBVIOUS
<1>2. t \in Seq(S) /\ Len(t) = 2 /\ t[1] = a /\ t[2] = b
  OBVIOUS
<1> HIDE DEF s, t
<1>3. s = t
  BY <1>1, <1>2
<1> QED
  BY <1>3 DEF s, t

LEMMA Joined3 ==
  ASSUME NEW S, NEW a \in S, NEW b \in S, NEW c \in S
  PROVE  <<a, b>> \o <<c>> = <<a, b, c>>
<1> DEFINE s == <<a, b>> \o <<c>>
           t == <<a, b, c>>
<1>1. s \in Seq(S) /\ Len(s) = 3 /\ s[1] = a /\ s[2] = b /\ s[3] = c
  OBVIOUS
<1>2. t \in Seq(S) /\ Len(t) = 3 /\ t[1] = a /\ t[2] = b /\ t[3] = c
  OBVIOUS
<1> HIDE DEF s, t
<1>3. s = t
  BY <1>1, <1>2
<1> QED
  BY <1>3 DEF s, t

LEMMA Plan1 == ASSUME NEW a PROVE Plan(<<a>>) = <<a.do>>
<1> DEFINE s == <<a>>
           t == <<a.do>>
<1>1. DOMAIN s = {1} /\ t = [i \in {1} |-> t[i]] /\ s[1] = a /\ t[1] = a.do
  OBVIOUS
<1> HIDE DEF s, t
<1>2. Plan(s) = t
  BY <1>1 DEF Plan
<1> QED
  BY <1>2 DEF s, t

LEMMA Plan2 == ASSUME NEW a, NEW b PROVE Plan(<<a, b>>) = <<a.do, b.do>>
<1> DEFINE s == <<a, b>>
           t == <<a.do, b.do>>
<1>1. DOMAIN s = {1, 2} /\ t = [i \in {1, 2} |-> t[i]]
  OBVIOUS
<1>2. s[1] = a /\ t[1] = a.do /\ s[2] = b /\ t[2] = b.do
  OBVIOUS
<1> HIDE DEF s, t
<1>3. Plan(s) = t
  BY <1>1, <1>2 DEF Plan
<1> QED
  BY <1>3 DEF s, t

LEMMA Plan3 == ASSUME NEW a, NEW b, NEW c PROVE Plan(<<a, b, c>>) = <<a.do, b.do, c.do>>
<1> DEFINE s == <<a, b, c>>
           t == <<a.do, b.do, c.do>>
<1>1. DOMAIN s = {1, 2, 3} /\ t = [i \in {1, 2, 3} |-> t[i]]
  OBVIOUS
<1>2. s[1] = a /\ t[1] = a.do /\ s[2] = b /\ t[2] = b.do /\ s[3] = c /\ t[3] = c.do
  OBVIOUS
<1> HIDE DEF s, t
<1>3. Plan(s) = t
  BY <1>1, <1>2 DEF Plan
<1> QED
  BY <1>3 DEF s, t

\* The calls of a key.
LEMMA PlainPlans ==
  /\ Plan(<<>>) = <<>> /\ Plan(<<StopAll>>) = <<"stop">>
  /\ \A n : Plan(<<SpeedLevel(n)>>) = <<"level">>
  /\ \A d, n : Plan(<<Steps(d, n)>>) = <<"steps">>
  /\ \A d : Plan(<<Move(d), Start>>) = <<"move", "start">>
  /\ \A d, e, n : Plan(<<Move(d), Turn(e, n), Start>>) = <<"move", "turn", "start">>
<1>1. Plan(<<>>) = <<>>
  BY DEF Plan
<1>2. Plan(<<StopAll>>) = <<"stop">>
  BY Plan1, StepKinds, Zenon
<1>3. ASSUME NEW n PROVE Plan(<<SpeedLevel(n)>>) = <<"level">>
  BY Plan1, StepKinds, Zenon
<1>4. ASSUME NEW d, NEW n PROVE Plan(<<Steps(d, n)>>) = <<"steps">>
  <2>1. Steps(d, n).do = "steps"
    BY StepKinds, Zenon
  <2>2. Plan(<<Steps(d, n)>>) = <<Steps(d, n).do>>
    BY Plan1, Zenon
  <2> QED
    BY <2>1, <2>2, Zenon
<1>5. ASSUME NEW d PROVE Plan(<<Move(d), Start>>) = <<"move", "start">>
  BY Plan2, StepKinds, Zenon
<1>6. ASSUME NEW d, NEW e, NEW n
      PROVE  Plan(<<Move(d), Turn(e, n), Start>>) = <<"move", "turn", "start">>
  <2>1. Move(d).do = "move" /\ Turn(e, n).do = "turn" /\ Start.do = "start"
    BY StepKinds, Zenon
  <2>2. Plan(<<Move(d), Turn(e, n), Start>>) = <<Move(d).do, Turn(e, n).do, Start.do>>
    BY Plan3, Zenon
  <2> QED
    BY <2>1, <2>2, Zenon
<1> QED
  BY <1>1, <1>2, <1>3, <1>4, <1>5, <1>6, Zenon

TimedCalls == {<<"move", "start">>, <<"move", "turn", "start">>}

LEMMA ArrowPlans ==
  ASSUME input \in Nat, NEW k \in Arrows
  PROVE  \/ Plan(Arrow(k)) = <<"steps">> /\ input # 0
         \/ Plan(Arrow(k)) \in TimedCalls
<1>1. CASE Stepped
  <2>1. Arrow(k) = ArrowSteps(k) /\ input # 0
    BY <1>1 DEF Arrow, Stepped
  <2>2. Plan(ArrowSteps(k)) = <<"steps">>
    BY PlainPlans, Zenon DEF ArrowSteps
  <2> QED
    BY <2>1, <2>2
<1>2. CASE ~Stepped /\ input = 0
  <2>1. PICK d \in Directions : Arrow(k) = <<Move(d)>> \o <<Start>>
    BY <1>2 DEF Arrow, ArrowMoves, Arrows, Directions, UP, DOWN, LEFT, RIGHT
  <2>2. Move(d) \in StepSet /\ Start \in StepSet
    BY StepTypes
  <2> DEFINE m == Move(d)
             e == Start
  <2>3. m \in StepSet /\ e \in StepSet /\ Arrow(k) = <<m>> \o <<e>>
    BY <2>1, <2>2
  <2> HIDE DEF m, e, StepSet
  <2>4. <<m>> \o <<e>> = <<m, e>>
    BY <2>3, Joined2
  <2>5. Arrow(k) = <<Move(d), Start>>
    BY <2>3, <2>4 DEF m, e
  <2> QED
    BY <2>5, PlainPlans, Zenon DEF TimedCalls
<1>3. CASE ~Stepped /\ input # 0
  <2> DEFINE a == IF k = DOWN THEN "dirDown" ELSE "dirUp"
             t == CASE k = LEFT -> 1 [] k = RIGHT -> -1 [] OTHER -> 0
             m == Move(a)
             r == Turn(t, input)
             e == Start
  <2>1. Arrow(k) = <<m, r>> \o <<e>>
    BY <1>3, Zenon DEF Arrow, ArrowMoves
  <2>2. a \in Directions /\ t \in {-1, 0, 1}
    BY DEF Directions
  <2>3. m \in StepSet /\ r \in StepSet /\ e \in StepSet
    BY <2>2, StepTypes
  <2>4. Plan(<<m, r, e>>) = <<"move", "turn", "start">>
    BY PlainPlans, Zenon
  <2> HIDE DEF m, r, e, StepSet
  <2>5. <<m, r>> \o <<e>> = <<m, r, e>>
    BY <2>3, Joined3
  <2> QED
    BY <2>1, <2>4, <2>5, Zenon DEF TimedCalls
<1> QED
  BY <1>1, <1>2, <1>3

LEMMA PoundPlans ==
  ASSUME motorNum \in Nat
  PROVE  \/ Pound = <<>>
         \/ Plan(Pound) = <<"steps">> /\ input # 0
         \/ Plan(Pound) \in TimedCalls /\ ~(motorNum < 4)
<1>1. CASE motorNum < 4
  BY <1>1 DEF Pound
<1>2. CASE motorNum >= 4 /\ input = 0
  <2>1. ~(motorNum < 4)
    BY <1>2
  <2>2. Pound = <<Move("dirRotation"), Start>>
    BY <1>2, <2>1, Zenon DEF Pound
  <2> QED
    BY <2>1, <2>2, PlainPlans, Zenon DEF TimedCalls
<1>3. CASE motorNum >= 4 /\ input # 0
  <2>1. ~(motorNum < 4)
    BY <1>3
  <2>2. Pound = <<Steps("dirRotation", input)>>
    BY <1>3, <2>1, Zenon DEF Pound
  <2> QED
    BY <1>3, <2>2, PlainPlans, Zenon
<1> QED
  BY <1>1, <1>2, <1>3

\* An arrow is no digit and no other key.
LEMMA ArrowsApart ==
  ASSUME NEW k \in Arrows
  PROVE  /\ ~\E d \in 0 .. 9 : k = Digit[d + 1]
         /\ k \notin {OK, STAR, POUND, NoKey} /\ ~(k > \hFF)
<1>1. \A d \in 0 .. 9 : Digit[d + 1] \in {25, 69, 70, 71, 68, 64, 67, 7, 21, 9}
  <2> SUFFICES ASSUME NEW i \in 1 .. 10
               PROVE  Digit[i] \in {25, 69, 70, 71, 68, 64, 67, 7, 21, 9}
    OBVIOUS
  <2> QED
    BY DEF Digit
<1>2. k \in {24, 82, 8, 90}
  BY DEF Arrows, UP, DOWN, LEFT, RIGHT
<1>3. k \notin {OK, STAR, POUND, NoKey} /\ ~(k > \hFF)
  BY <1>2 DEF OK, STAR, POUND, NoKey
<1>4. \A d \in 0 .. 9 : k # Digit[d + 1]
  BY <1>1, <1>2
<1> QED
  BY <1>3, <1>4

LEMMA HandlePlans ==
  ASSUME input \in Nat, motorNum \in Nat, NEW k
  PROVE  \/ k \notin Arrows /\ Plan(Handle(k).calls) \in {<<>>, <<"level">>, <<"stop">>}
         \/ Plan(Handle(k).calls) = <<"steps">> /\ input # 0
         \/ Plan(Handle(k).calls) \in TimedCalls /\ Handle(k).input = 0
<1> DEFINE Good(h) ==
             \/ k \notin Arrows /\ Plan(h.calls) \in {<<>>, <<"level">>, <<"stop">>}
             \/ Plan(h.calls) = <<"steps">> /\ input # 0
             \/ Plan(h.calls) \in TimedCalls /\ h.input = 0
           digit == \E d \in 0 .. 9 : k = Digit[d + 1]
           d0 == CHOOSE d \in 0 .. 9 : k = Digit[d + 1]
           hd == [calls |-> <<>>, input |-> 10 * input + d0]
           ha == [calls |-> Arrow(k), input |-> 0]
           ho == [calls |-> IF input \in 1 .. 9 THEN <<SpeedLevel(input)>> ELSE <<>>, input |-> 0]
           hs == [calls |-> <<StopAll>>, input |-> 0]
           hp == [calls |-> Pound, input |-> IF motorNum < 4 THEN input ELSE 0]
           hn == [calls |-> <<>>, input |-> input]
<1>1. Handle(k) = CASE digit -> hd [] k \in Arrows -> ha [] k = OK -> ho
                    [] k = STAR -> hs [] k = POUND -> hp [] OTHER -> hn
  BY Zenon DEF Handle
<1>2. k \in Arrows => ~digit /\ k \notin {OK, STAR, POUND}
  BY ArrowsApart, Zenon
<1>3. k \in Arrows => Good(ha)
  <2>1. ha.calls = Arrow(k) /\ ha.input = 0
    OBVIOUS
  <2> HIDE DEF ha
  <2> QED
    BY <2>1, ArrowPlans, Zenon
<1>4. ASSUME k \notin Arrows PROVE Good(hd) /\ Good(ho) /\ Good(hs) /\ Good(hn)
  <2>1. /\ hd.calls = <<>> /\ hs.calls = <<StopAll>> /\ hn.calls = <<>>
        /\ ho.calls \in {<<>>, <<SpeedLevel(input)>>}
    <3> HIDE DEF d0
    <3> QED
      OBVIOUS
  <2> HIDE DEF hd, hs, hn, ho
  <2> QED
    BY <1>4, <2>1, PlainPlans
<1>5. ASSUME k \notin Arrows PROVE Good(hp)
  <2>1. hp.calls = Pound /\ (~(motorNum < 4) => hp.input = 0)
    OBVIOUS
  <2> HIDE DEF hp
  <2> QED
    BY <1>5, <2>1, PoundPlans, PlainPlans, Zenon
<1> HIDE DEF Good, digit, hd, ha, ho, hs, hp, hn
<1>6. k \in Arrows => Handle(k) = ha
  BY <1>1, <1>2
<1>7. k \notin Arrows => Handle(k) \in {hd, ho, hs, hp, hn}
  BY <1>1
<1>8. Good(Handle(k))
  BY <1>3, <1>4, <1>5, <1>6, <1>7, Zenon
<1> QED
  BY <1>8 DEF Good

\* What a key that is not ignored leaves: the calls, then the timer of the polls.
LEMMA KeyPlans ==
  ASSUME input \in Nat, motorNum \in Nat, NEW k,
         NEW u \in Seq(StepSet), Plan(u) = RearmPlan
  PROVE  LET q == Plan(Handle(k).calls \o u) IN
         /\ q \in Polls \ (Keyed \cup Moved)
         /\ q \in Timed => Handle(k).input = 0
         /\ q = StepsPlan => input # 0
         /\ k \in Arrows => q \in Timed \cup {StepsPlan}
<1> DEFINE s == Handle(k).calls
           q == Plan(s \o u)
<1>1. q = Plan(s) \o <<"rearm">>
  BY HandleFacts, PlanJoin DEF RearmPlan
<1> HIDE DEF s, q
<1>2. \/ k \notin Arrows /\ Plan(s) \in {<<>>, <<"level">>, <<"stop">>}
      \/ Plan(s) = <<"steps">> /\ input # 0
      \/ Plan(s) \in TimedCalls /\ Handle(k).input = 0
  BY HandlePlans, Zenon DEF s
<1>3. /\ <<>> \o <<"rearm">> = <<"rearm">>
      /\ <<"level">> \o <<"rearm">> = <<"level", "rearm">>
      /\ <<"stop">> \o <<"rearm">> = <<"stop", "rearm">>
      /\ <<"steps">> \o <<"rearm">> = <<"steps", "rearm">>
      /\ <<"move", "start">> \o <<"rearm">> = <<"move", "start", "rearm">>
  <2>1. <<>> \o <<"rearm">> = <<"rearm">>
    OBVIOUS
  <2>2. /\ <<"level">> \o <<"rearm">> = <<"level", "rearm">>
        /\ <<"stop">> \o <<"rearm">> = <<"stop", "rearm">>
        /\ <<"steps">> \o <<"rearm">> = <<"steps", "rearm">>
    <3> {"level", "stop", "steps", "rearm"} \subseteq Kinds
      BY DEF Kinds
    <3> QED
      BY Joined2
  <2>3. <<"move", "start">> \o <<"rearm">> = <<"move", "start", "rearm">>
    <3> {"move", "start", "rearm"} \subseteq Kinds
      BY DEF Kinds
    <3> QED
      BY Joined3
  <2> QED
    BY <2>1, <2>2, <2>3
<1>4. <<"move", "turn", "start">> \o <<"rearm">> = <<"move", "turn", "start", "rearm">>
  <2> DEFINE v == <<"move", "turn", "start">> \o <<"rearm">>
             t == <<"move", "turn", "start", "rearm">>
  <2>0. {"move", "turn", "start", "rearm"} \subseteq Kinds
    BY DEF Kinds
  <2>1. /\ v \in Seq(Kinds) /\ Len(v) = 4
        /\ v[1] = "move" /\ v[2] = "turn" /\ v[3] = "start" /\ v[4] = "rearm"
    BY <2>0
  <2>2. /\ t \in Seq(Kinds) /\ Len(t) = 4
        /\ t[1] = "move" /\ t[2] = "turn" /\ t[3] = "start" /\ t[4] = "rearm"
    BY <2>0
  <2> HIDE DEF v, t
  <2>3. v = t
    BY <2>1, <2>2
  <2> QED
    BY <2>3 DEF v, t
<1>5. \/ k \notin Arrows /\ q \in {<<"rearm">>, <<"level", "rearm">>, <<"stop", "rearm">>}
      \/ q = StepsPlan /\ input # 0
      \/ q \in {<<"move", "start", "rearm">>, <<"move", "turn", "start", "rearm">>}
         /\ Handle(k).input = 0
  BY <1>1, <1>2, <1>3, <1>4, Zenon DEF TimedCalls, StepsPlan
<1>6. /\ {<<"rearm">>, <<"level", "rearm">>, <<"stop", "rearm">>}
           \subseteq Polls \ (Keyed \cup Timed \cup {StepsPlan})
      /\ {<<"move", "start", "rearm">>, <<"move", "turn", "start", "rearm">>}
           \subseteq Timed \ Moved
  BY DEF Polls, Keyed, Timed, Moved, RearmPlan, StepsPlan
<1>7. /\ q \in Polls \ (Keyed \cup Moved)
      /\ q \in Timed => Handle(k).input = 0
      /\ q = StepsPlan => input # 0
      /\ k \in Arrows => q \in Timed \cup {StepsPlan}
  BY <1>5, <1>6, PlanSets
<1> QED
  BY <1>7 DEF q, s

-----------------------------------------------------------------------------
(* Where the two timers are.                                               *)

\* The poll timer runs, its completion is queued, or the completion runs.
PollWaits == \E i \in DOMAIN timers : timers[i].who = "poll"
PollQueued == \E i \in DOMAIN queued : queued[i] = "poll"
Polling == Plan(todo) \in Polls
OneQueued == \A i, j \in DOMAIN queued : queued[i] = "poll" /\ queued[j] = "poll" => i = j

\* The stop comes before the poll, among the waits and in the queue.
StopFirst ==
  \A i, j \in DOMAIN timers : timers[i].who = "poll" /\ timers[j].who = "stop" => j < i
StopQueuedFirst ==
  \A i, j \in DOMAIN queued : queued[i] = "poll" /\ queued[j] = "stop" => j < i

\* What is left of the stop timer: no more than a poll, or than a poll after the next one.
WithinPoll ==
  \A j \in DOMAIN timers : timers[j].who = "stop" => timers[j].left <= CheckTime
NextPoll ==
  \A i, j \in DOMAIN timers : timers[i].who = "poll" /\ timers[j].who = "stop"
    => timers[j].left <= timers[i].left + CheckTime

LEMMA ListsKept ==
  ASSUME UNCHANGED <<timers, queued>>
  PROVE  /\ (PollWaits' <=> PollWaits) /\ (PollQueued' <=> PollQueued)
         /\ (Waiting' <=> Waiting) /\ (Queued' <=> Queued) /\ (OneQueued' <=> OneQueued)
         /\ (StopFirst' <=> StopFirst) /\ (StopQueuedFirst' <=> StopQueuedFirst)
         /\ (WithinPoll' <=> WithinPoll) /\ (NextPoll' <=> NextPoll)
<1>1. timers' = timers /\ queued' = queued
  OBVIOUS
<1>2. /\ (PollWaits' <=> PollWaits) /\ (Waiting' <=> Waiting) /\ (StopFirst' <=> StopFirst)
      /\ (WithinPoll' <=> WithinPoll) /\ (NextPoll' <=> NextPoll)
  BY <1>1, Zenon DEF PollWaits, Waiting, StopFirst, WithinPoll, NextPoll
<1>3. /\ (PollQueued' <=> PollQueued) /\ (Queued' <=> Queued) /\ (OneQueued' <=> OneQueued)
      /\ (StopQueuedFirst' <=> StopQueuedFirst)
  BY <1>1, Zenon DEF PollQueued, Queued, OneQueued, StopQueuedFirst
<1> QED
  BY <1>2, <1>3

LEMMA TickLists ==
  ASSUME KInv, Tick
  PROVE  /\ (PollWaits' <=> PollWaits) /\ (PollQueued' <=> PollQueued)
         /\ (Waiting' <=> Waiting) /\ (Queued' <=> Queued) /\ (OneQueued' <=> OneQueued)
         /\ (StopFirst' <=> StopFirst) /\ (StopQueuedFirst' <=> StopQueuedFirst)
         /\ (WithinPoll => WithinPoll') /\ (NextPoll => NextPoll')
<1>1. queued' = queued /\ timers \in Seq(Waits)
  BY DEF Tick, KInv, TimersTyped, Typed
<1>2. /\ DOMAIN timers' = DOMAIN timers
      /\ \A i \in DOMAIN timers :
           /\ timers'[i].who = timers[i].who
           /\ timers'[i].left = IF timers[i].left > 0 THEN timers[i].left - 1 ELSE 0
           /\ timers[i].left \in 0 .. StopTime
  BY <1>1, TickWaits, WaitFields
<1>3. (PollWaits' <=> PollWaits) /\ (Waiting' <=> Waiting) /\ (StopFirst' <=> StopFirst)
  BY <1>2, Zenon DEF PollWaits, Waiting, StopFirst
<1>4. /\ (PollQueued' <=> PollQueued) /\ (Queued' <=> Queued) /\ (OneQueued' <=> OneQueued)
      /\ (StopQueuedFirst' <=> StopQueuedFirst)
  BY <1>1, Zenon DEF PollQueued, Queued, OneQueued, StopQueuedFirst
<1>5. ASSUME WithinPoll PROVE WithinPoll'
  <2> SUFFICES ASSUME NEW j \in DOMAIN timers, timers'[j].who = "stop"
               PROVE  timers'[j].left <= CheckTime
    BY <1>2, Zenon DEF WithinPoll
  <2>1. timers[j].left <= CheckTime /\ timers[j].left \in 0 .. StopTime
    BY <1>2, <1>5, Zenon DEF WithinPoll
  <2>2. timers'[j].left = IF timers[j].left > 0 THEN timers[j].left - 1 ELSE 0
    BY <1>2, Zenon
  <2> QED
    BY <2>1, <2>2, Constants
<1>6. ASSUME NextPoll PROVE NextPoll'
  <2> SUFFICES ASSUME NEW i \in DOMAIN timers, NEW j \in DOMAIN timers,
                      timers'[i].who = "poll", timers'[j].who = "stop"
               PROVE  timers'[j].left <= timers'[i].left + CheckTime
    BY <1>2, Zenon DEF NextPoll
  <2>1. /\ timers[j].left <= timers[i].left + CheckTime
        /\ timers[i].left \in 0 .. StopTime /\ timers[j].left \in 0 .. StopTime
    BY <1>2, <1>6, Zenon DEF NextPoll
  <2>2. /\ timers'[i].left = IF timers[i].left > 0 THEN timers[i].left - 1 ELSE 0
        /\ timers'[j].left = IF timers[j].left > 0 THEN timers[j].left - 1 ELSE 0
    BY <1>2, Zenon
  <2> QED
    BY <2>1, <2>2, Constants
<1> QED
  BY <1>3, <1>4, <1>5, <1>6

\* The first wait has expired: the others are as they were.
LEMMA ExpireWaits ==
  ASSUME KInv, Expire
  PROVE  /\ StopFirst => StopFirst'
         /\ WithinPoll => WithinPoll'
         /\ NextPoll => NextPoll'
<1>1. /\ timers' = Tail(timers) /\ timers \in Seq(Waits) /\ Tail(timers) \in Seq(Waits)
      /\ \A i \in DOMAIN Tail(timers) :
           i + 1 \in DOMAIN timers /\ Tail(timers)[i] = timers[i + 1]
  BY ExpireLists, Zenon
<1>2. \A i \in DOMAIN timers' : i + 1 \in DOMAIN timers /\ timers'[i] = timers[i + 1]
  BY <1>1, Zenon
<1>3. ASSUME StopFirst PROVE StopFirst'
  <2> SUFFICES ASSUME NEW i \in DOMAIN timers', NEW j \in DOMAIN timers',
                      timers'[i].who = "poll", timers'[j].who = "stop"
               PROVE  j < i
    BY DEF StopFirst
  <2>1. j + 1 < i + 1
    BY <1>2, <1>3, Zenon DEF StopFirst
  <2>2. i \in Nat /\ j \in Nat
    BY <1>1
  <2> QED
    BY <2>1, <2>2
<1>4. WithinPoll => WithinPoll'
  BY <1>2, Zenon DEF WithinPoll
<1>5. NextPoll => NextPoll'
  BY <1>2, Zenon DEF NextPoll
<1> QED
  BY <1>3, <1>4, <1>5

LEMMA ExpireQueue ==
  ASSUME KInv, Expire
  PROVE  /\ PollQueued' <=> PollQueued \/ timers[1].who = "poll"
         /\ Queued' <=> Queued \/ timers[1].who = "stop"
         /\ ~PollQueued \/ (OneQueued /\ timers[1].who = "stop") => OneQueued'
         /\ ~PollQueued => StopQueuedFirst'
<1> DEFINE n == Len(queued)
<1>1. /\ queued' = Append(queued, timers[1].who)
      /\ queued \in Seq({"poll", "stop"}) /\ queued' \in Seq({"poll", "stop"})
  BY ExpireLists, Zenon
<1>2. /\ DOMAIN queued = 1 .. n /\ n \in Nat /\ DOMAIN queued' = 1 .. n + 1
      /\ \A i \in 1 .. n : queued'[i] = queued[i]
      /\ queued'[n + 1] = timers[1].who
  BY <1>1
<1> HIDE DEF n
<1>3. \A i \in DOMAIN queued' : i \in DOMAIN queued \/ i = n + 1
  BY <1>2
<1>4. n + 1 \in DOMAIN queued' /\ \A i \in DOMAIN queued : i \in DOMAIN queued' /\ queued'[i] = queued[i]
  BY <1>2
<1>5. PollQueued' <=> PollQueued \/ timers[1].who = "poll"
  BY <1>2, <1>3, <1>4, Zenon DEF PollQueued
<1>6. Queued' <=> Queued \/ timers[1].who = "stop"
  BY <1>2, <1>3, <1>4, Zenon DEF Queued
<1>7. ~PollQueued => OneQueued'
  BY <1>3, <1>4, Zenon DEF PollQueued, OneQueued
<1>8. OneQueued /\ timers[1].who = "stop" => OneQueued'
  <2>1. "stop" # "poll"
    OBVIOUS
  <2> QED
    BY <1>2, <1>3, <1>4, <2>1, Zenon DEF OneQueued
<1>9. ASSUME ~PollQueued PROVE StopQueuedFirst'
  <2> SUFFICES ASSUME NEW i \in DOMAIN queued', NEW j \in DOMAIN queued',
                      queued'[i] = "poll", queued'[j] = "stop"
               PROVE  j < i
    BY DEF StopQueuedFirst
  <2>1. i = n + 1
    BY <1>3, <1>4, <1>9, Zenon DEF PollQueued
  <2>2. j # n + 1
    BY <2>1
  <2> QED
    BY <1>2, <2>1, <2>2
<1> QED
  BY <1>5, <1>6, <1>7, <1>8, <1>9

\* Every timer waits once: the one that has expired does not wait any more.
LEMMA ExpireWho ==
  ASSUME KInv, Expire
  PROVE  /\ timers[1].who = "poll" => PollWaits /\ ~PollWaits' /\ (Waiting' <=> Waiting)
         /\ timers[1].who = "stop" => Waiting /\ ~Waiting' /\ (PollWaits' <=> PollWaits)
         /\ timers[1].who \in {"poll", "stop"}
         /\ timers[1].who = "poll" /\ StopFirst => ~Waiting
         /\ timers[1].who = "poll" /\ NextPoll => WithinPoll
<1>1. /\ timers' = Tail(timers) /\ timers \in Seq(Waits) /\ 1 \in DOMAIN timers
      /\ \A i \in DOMAIN Tail(timers) :
           i + 1 \in DOMAIN timers /\ Tail(timers)[i] = timers[i + 1]
      /\ \A i \in DOMAIN timers : i # 1 =>
           i - 1 \in DOMAIN Tail(timers) /\ Tail(timers)[i - 1] = timers[i]
      /\ timers[1].who \in {"poll", "stop"}
  BY ExpireLists, Zenon
<1>2. \A i \in DOMAIN timers : 1 < i \/ i = 1
  BY <1>1
<1>3. \A i \in DOMAIN timers : i # 1 => timers[i].who # timers[1].who
  BY <1>1, <1>2, Zenon DEF KInv, TimersTyped, Sorted
<1>4. \A i \in DOMAIN Tail(timers) : i + 1 # 1
  BY <1>1
<1>5. timers[1].left = 0
  BY DEF Expire
<1>6. \A i \in DOMAIN timers' : timers'[i].who # timers[1].who
  <2> SUFFICES ASSUME NEW i \in DOMAIN Tail(timers)
               PROVE  Tail(timers)[i].who # timers[1].who
    BY <1>1, Zenon
  <2>1. i + 1 \in DOMAIN timers /\ Tail(timers)[i] = timers[i + 1] /\ i + 1 # 1
    BY <1>1, <1>4, Zenon
  <2> QED
    BY <1>3, <2>1, Zenon
<1>7. \A w : w # timers[1].who =>
        ((\E i \in DOMAIN timers' : timers'[i].who = w) <=> \E i \in DOMAIN timers : timers[i].who = w)
  BY <1>1, Zenon
<1>8. "poll" # "stop"
  OBVIOUS
<1>9. ASSUME timers[1].who = "poll"
      PROVE  PollWaits /\ ~PollWaits' /\ (Waiting' <=> Waiting)
  BY <1>1, <1>6, <1>7, <1>8, <1>9, Zenon DEF PollWaits, Waiting
<1>10. ASSUME timers[1].who = "stop"
       PROVE  Waiting /\ ~Waiting' /\ (PollWaits' <=> PollWaits)
  BY <1>1, <1>6, <1>7, <1>8, <1>10, Zenon DEF PollWaits, Waiting
<1>11. ASSUME timers[1].who = "poll", StopFirst PROVE ~Waiting
  <2>1. \A j \in DOMAIN timers : ~(j < 1)
    BY <1>1
  <2> QED
    BY <1>1, <1>11, <2>1, Zenon DEF StopFirst, Waiting
<1>12. ASSUME timers[1].who = "poll", NextPoll PROVE WithinPoll
  <2>1. 0 + CheckTime = CheckTime
    BY Constants
  <2> QED
    BY <1>1, <1>5, <1>12, <2>1, Zenon DEF NextPoll, WithinPoll
<1> QED
  BY <1>1, <1>9, <1>10, <1>11, <1>12

\* The first completion of the queue begins.
LEMMA DequeueFacts ==
  ASSUME KInv, queued # <<>>, queued' = Tail(queued), OneQueued
  PROVE  /\ OneQueued' /\ (StopQueuedFirst => StopQueuedFirst') /\ (Queued' => Queued)
         /\ Head(queued) = "poll" => PollQueued /\ ~PollQueued' /\ (StopQueuedFirst => ~Queued)
         /\ Head(queued) = "stop" => Queued /\ (PollQueued' <=> PollQueued)
<1>1. /\ queued \in Seq({"poll", "stop"}) /\ Head(queued) = queued[1] /\ 1 \in DOMAIN queued
      /\ \A i \in DOMAIN queued' : i + 1 \in DOMAIN queued /\ queued'[i] = queued[i + 1]
      /\ \A i \in DOMAIN queued : i # 1 =>
           i - 1 \in DOMAIN queued' /\ queued'[i - 1] = queued[i]
  <2>1. queued \in Seq({"poll", "stop"})
    BY DEF KInv, TimersTyped, Typed
  <2> QED
    BY <2>1, TailFacts
<1>2. /\ \A i \in DOMAIN queued : i \in Nat
      /\ \A i \in DOMAIN queued' : i \in Nat /\ i + 1 # 1
      /\ \A i \in DOMAIN queued : ~(i < 1)
  <2>1. queued' \in Seq({"poll", "stop"})
    BY <1>1, TailFacts
  <2> QED
    BY <1>1, <2>1
<1>3. \A i, j \in DOMAIN queued' : (i + 1 = j + 1 => i = j) /\ (j + 1 < i + 1 => j < i)
  BY <1>2
<1>4. OneQueued'
  <2> SUFFICES ASSUME NEW i \in DOMAIN queued', NEW j \in DOMAIN queued',
                      queued'[i] = "poll", queued'[j] = "poll"
               PROVE  i = j
    BY Zenon DEF OneQueued
  <2>1. /\ i + 1 \in DOMAIN queued /\ queued[i + 1] = "poll"
        /\ j + 1 \in DOMAIN queued /\ queued[j + 1] = "poll"
    BY <1>1, Zenon
  <2>2. i + 1 = j + 1
    BY <2>1, Zenon DEF OneQueued
  <2> QED
    BY <1>3, <2>2, Zenon
<1>5. ASSUME StopQueuedFirst PROVE StopQueuedFirst'
  <2> SUFFICES ASSUME NEW i \in DOMAIN queued', NEW j \in DOMAIN queued',
                      queued'[i] = "poll", queued'[j] = "stop"
               PROVE  j < i
    BY Zenon DEF StopQueuedFirst
  <2>1. /\ i + 1 \in DOMAIN queued /\ queued[i + 1] = "poll"
        /\ j + 1 \in DOMAIN queued /\ queued[j + 1] = "stop"
    BY <1>1, Zenon
  <2>2. j + 1 < i + 1
    BY <1>5, <2>1, Zenon DEF StopQueuedFirst
  <2> QED
    BY <1>3, <2>2, Zenon
<1>6. "poll" # "stop"
  OBVIOUS
<1>7. ASSUME Head(queued) = "poll"
      PROVE  PollQueued /\ ~PollQueued' /\ (StopQueuedFirst => ~Queued)
  <2>1. PollQueued
    BY <1>1, <1>7, Zenon DEF PollQueued
  <2>2. ASSUME NEW i \in DOMAIN queued', queued'[i] = "poll" PROVE FALSE
    <3>1. i + 1 \in DOMAIN queued /\ queued[i + 1] = "poll" /\ i + 1 # 1
      BY <1>1, <1>2, <2>2, Zenon
    <3> QED
      BY <1>1, <1>7, <3>1, Zenon DEF OneQueued
  <2>3. StopQueuedFirst => ~Queued
    BY <1>1, <1>2, <1>7, Zenon DEF Queued, StopQueuedFirst
  <2> QED
    BY <2>1, <2>2, <2>3, Zenon DEF PollQueued
<1>9. Queued' => Queued
  <2> SUFFICES ASSUME NEW i \in DOMAIN queued', queued'[i] = "stop" PROVE Queued
    BY Zenon DEF Queued
  <2>1. i + 1 \in DOMAIN queued /\ queued[i + 1] = "stop"
    BY <1>1, Zenon
  <2> QED
    BY <2>1, Zenon DEF Queued
<1>8. ASSUME Head(queued) = "stop" PROVE Queued /\ (PollQueued' <=> PollQueued)
  <2>1. \A i \in DOMAIN queued : queued[i] = "poll" => i # 1
    BY <1>1, <1>6, <1>8, Zenon
  <2>2. Queued
    BY <1>1, <1>8, Zenon DEF Queued
  <2>3. ASSUME NEW i \in DOMAIN queued, queued[i] = "poll" PROVE PollQueued'
    <3>1. i - 1 \in DOMAIN queued' /\ queued'[i - 1] = "poll"
      BY <1>1, <2>1, <2>3, Zenon
    <3> QED
      BY <3>1, Zenon DEF PollQueued
  <2>4. ASSUME NEW i \in DOMAIN queued', queued'[i] = "poll" PROVE PollQueued
    <3>1. i + 1 \in DOMAIN queued /\ queued[i + 1] = "poll"
      BY <1>1, <2>4, Zenon
    <3> QED
      BY <3>1, Zenon DEF PollQueued
  <2> QED
    BY <2>2, <2>3, <2>4, Zenon DEF PollQueued
<1> QED
  BY <1>4, <1>5, <1>7, <1>8, <1>9

\* The stop timer is set while the poll timer does not run.
LEMMA StartLists ==
  ASSUME KInv, StartStopTimer, ~PollWaits
  PROVE  ~PollWaits' /\ Waiting' /\ \A j \in DOMAIN timers' : timers'[j].left = StopTime
<1> DEFINE new == SetTimer("stop", StopTime)
<1>1. timers' = new
  BY DEF StartStopTimer
<1>2. /\ new \in Seq(Waits)
      /\ \E k \in DOMAIN new : new[k].who = "stop"
      /\ \A k \in DOMAIN new : new[k].who = "stop" => new[k].left = StopTime
      /\ \A k \in DOMAIN new : new[k].who # "stop"
           => \E i \in DOMAIN timers : timers[i] = new[k]
  <2>1. Typed /\ Sorted(timers) /\ "stop" \in {"poll", "stop"} /\ StopTime \in 0 .. StopTime
    BY Constants DEF KInv, TimersTyped
  <2> QED
    BY <2>1, SetFacts, Zenon
<1> HIDE DEF new
<1>3. \A k \in DOMAIN new : new[k].who \in {"poll", "stop"}
  BY <1>2, WaitFields
<1>4. \A k \in DOMAIN new : new[k].who # "poll"
  <2>1. "poll" # "stop"
    OBVIOUS
  <2> QED
    BY <1>2, <2>1, Zenon DEF PollWaits
<1>5. \A k \in DOMAIN new : new[k].who = "stop"
  BY <1>3, <1>4
<1> QED
  BY <1>1, <1>2, <1>4, <1>5, Zenon DEF PollWaits, Waiting

\* The poll timer is set again: the stop timer is as it was, and goes first when it
\* is due within a poll.
LEMMA RearmLists ==
  ASSUME KInv, RearmPoll
  PROVE  /\ PollWaits' /\ (Waiting' <=> Waiting) /\ NextPoll'
         /\ \A i \in DOMAIN timers' : timers'[i].who = "poll" => timers'[i].left = CheckTime
         /\ \A j \in DOMAIN timers' : timers'[j].who = "stop"
              => \E i \in DOMAIN timers : timers[i] = timers'[j]
         /\ \A i, j \in DOMAIN timers' :
              timers'[i].who = "poll" /\ timers'[j].who = "stop" /\ timers'[j].left <= CheckTime
                => j < i
         /\ WithinPoll => StopFirst'
<1> DEFINE new == SetTimer("poll", CheckTime)
<1>1. timers' = new
  BY DEF RearmPoll
<1>2. /\ new \in Seq(Waits)
      /\ \E k \in DOMAIN new : new[k].who = "poll"
      /\ \A k \in DOMAIN timers : timers[k].who # "poll"
           => \E i \in DOMAIN new : new[i].who = timers[k].who
      /\ \A k \in DOMAIN new : new[k].who = "poll" => new[k].left = CheckTime
      /\ \A k \in DOMAIN new : new[k].who # "poll"
           => \E i \in DOMAIN timers : timers[i] = new[k]
      /\ \A k, j \in DOMAIN new :
           new[k].who # "poll" /\ new[j].who = "poll" /\ new[k].left <= CheckTime => k < j
  <2>1. Typed /\ Sorted(timers) /\ "poll" \in {"poll", "stop"} /\ CheckTime \in 0 .. StopTime
    BY Constants DEF KInv, TimersTyped
  <2> QED
    BY <2>1, SetFacts, Zenon
<1> HIDE DEF new
<1>3. "poll" # "stop"
  OBVIOUS
<1>4. PollWaits' /\ (Waiting' <=> Waiting)
  BY <1>1, <1>2, <1>3, Zenon DEF PollWaits, Waiting
<1>5. \A j \in DOMAIN new : new[j].who = "stop" => \E i \in DOMAIN timers : timers[i] = new[j]
  BY <1>2, <1>3, Zenon
<1>6. \A i, j \in DOMAIN new :
        new[i].who = "poll" /\ new[j].who = "stop" /\ new[j].left <= CheckTime => j < i
  BY <1>2, <1>3, Zenon
<1>7. ASSUME WithinPoll PROVE StopFirst'
  <2>1. \A j \in DOMAIN new : new[j].who = "stop" => new[j].left <= CheckTime
    <3> SUFFICES ASSUME NEW j \in DOMAIN new, new[j].who = "stop"
                 PROVE  new[j].left <= CheckTime
      OBVIOUS
    <3>1. PICK i \in DOMAIN timers : timers[i] = new[j]
      BY <1>5, Zenon
    <3>2. timers[i].who = "stop" => timers[i].left <= CheckTime
      BY <1>7, Zenon DEF WithinPoll
    <3> QED
      BY <3>1, <3>2, Zenon
  <2> QED
    BY <1>1, <1>6, <2>1, Zenon DEF StopFirst
<1>8. NextPoll'
  <2> SUFFICES ASSUME NEW i \in DOMAIN new, NEW j \in DOMAIN new, new[i].who = "poll"
               PROVE  new[j].left <= new[i].left + CheckTime
    BY <1>1 DEF NextPoll
  <2>1. new[i].left = CheckTime /\ new[j].left \in 0 .. StopTime
    BY <1>2, WaitFields
  <2> QED
    BY <2>1, Constants DEF StopTime
<1> QED
  BY <1>1, <1>2, <1>4, <1>5, <1>6, <1>7, <1>8, Zenon

-----------------------------------------------------------------------------
(* What keeps the stop timer of an earlier key away from counted steps.     *)

\* The poll timer is in one place.
OnePoll ==
  /\ Polling => ~PollWaits /\ ~PollQueued
  /\ PollWaits => ~PollQueued
  /\ PollWaits \/ PollQueued \/ Polling
  /\ OneQueued

\* The stop timer is due within a poll of the poll that comes, and when a poll is due
\* or has more to do than to set its timer, or a number is typed, within a poll.
Near ==
  /\ NextPoll
  /\ PollQueued => WithinPoll
  /\ Polling /\ (input # 0 \/ Plan(todo) # RearmPlan) => WithinPoll

\* Once a number is typed, the stop timer that runs is due before the next key is read.
TypedLast ==
  input # 0 =>
    /\ StopFirst /\ StopQueuedFirst
    /\ PollQueued => ~Waiting
    /\ Plan(todo) \in Keyed => ~Waiting /\ ~Queued

\* What the movements of a key know of the number, the car and the stop timer.
Planned ==
  /\ Plan(todo) = StepsPlan => ~Waiting /\ ~Queued
  /\ Plan(todo) \in Timed => input = 0
  /\ Plan(todo) \in Moved => car # "steps" \/ "move" \in lost
  /\ car = "steps" /\ "move" \notin lost => ~Waiting /\ ~Queued /\ Plan(todo) # StopPlan

CutInv == Plan(todo) \in Plans /\ OnePoll /\ Near /\ TypedLast /\ Planned

LEMMA CutInit == Init => CutInv
<1> SUFFICES ASSUME Init PROVE CutInv
  OBVIOUS
<1>1. /\ timers = <<[who |-> "poll", left |-> CheckTime]>> /\ queued = <<>> /\ todo = <<>>
      /\ input = 0 /\ car = "stopped"
  BY DEF Init
<1>2. /\ 1 \in DOMAIN timers /\ \A i \in DOMAIN timers : timers[i].who = "poll"
      /\ \A i \in DOMAIN queued : FALSE
  BY <1>1
<1>3. PollWaits /\ ~Waiting /\ ~PollQueued /\ OneQueued /\ NextPoll
  BY <1>2 DEF PollWaits, Waiting, PollQueued, OneQueued, NextPoll
<1>4. Plan(todo) = <<>>
  BY <1>1 DEF Plan
<1>5. Plan(todo) \in Plans /\ Plan(todo) \notin Polls
  BY <1>4, PlanSets DEF Plans
<1>6. OnePoll /\ Near
  BY <1>3, <1>5, Zenon DEF OnePoll, Near, Polling
<1>7. TypedLast
  BY <1>1 DEF TypedLast
<1>8. Planned
  <2>1. Plan(todo) # StepsPlan /\ Plan(todo) \notin Timed /\ Plan(todo) \notin Moved
    BY <1>5, PlanSets
  <2>2. car # "steps"
    BY <1>1
  <2> QED
    BY <2>1, <2>2, Zenon DEF Planned
<1> QED
  BY <1>5, <1>6, <1>7, <1>8 DEF CutInv

\* Neither the lists nor what is left to do, and the car moves by other means.
LEMMA CutKept ==
  ASSUME CutInv, UNCHANGED <<timers, queued, todo, input, lost>>, car' = "steps" => car = "steps"
  PROVE  CutInv'
<1>1. todo' = todo /\ input' = input /\ lost' = lost /\ UNCHANGED <<timers, queued>>
  OBVIOUS
<1>2. Plan(todo)' = Plan(todo)
  BY <1>1
<1>3. /\ (PollWaits' <=> PollWaits) /\ (PollQueued' <=> PollQueued)
      /\ (Waiting' <=> Waiting) /\ (Queued' <=> Queued) /\ (OneQueued' <=> OneQueued)
      /\ (StopFirst' <=> StopFirst) /\ (StopQueuedFirst' <=> StopQueuedFirst)
      /\ (WithinPoll' <=> WithinPoll) /\ (NextPoll' <=> NextPoll)
  BY ListsKept
<1>4. OnePoll' /\ Near'
  BY <1>1, <1>2, <1>3, Zenon DEF CutInv, OnePoll, Near, Polling
<1>5. TypedLast'
  BY <1>1, <1>2, <1>3, Zenon DEF CutInv, TypedLast
<1>6. Planned'
  BY <1>1, <1>2, <1>3, Zenon DEF CutInv, Planned
<1> QED
  BY <1>2, <1>4, <1>5, <1>6, Zenon DEF CutInv

LEMMA CutKeypad ==
  ASSUME KInv, CutInv,
         (\E k \in Keys : Tap(k) \/ Hold(k)) \/ Release \/ OtherClient \/ StepsDone
  PROVE  CutInv'
<1>1. UNCHANGED io /\ UNCHANGED statics
  BY Zenon DEF Tap, Hold, Release, OtherClient, StepsDone, io, statics
<1>2. lost' = lost /\ car' \in {car, "other", "stopped"}
  BY DEF Tap, Hold, Release, OtherClient, StepsDone, history
<1>3. car' = "steps" => car = "steps"
  BY <1>2
<1>4. UNCHANGED <<timers, queued, todo, input, lost>>
  BY <1>1, <1>2 DEF io, statics
<1> QED
  BY <1>3, <1>4, CutKept

LEMMA CutTick == ASSUME KInv, CutInv, Tick PROVE CutInv'
<1>1. todo' = todo /\ input' = input /\ lost' = lost /\ car' = car
  BY DEF Tick, statics, history
<1>2. Plan(todo)' = Plan(todo)
  BY <1>1
<1>3. /\ (PollWaits' <=> PollWaits) /\ (PollQueued' <=> PollQueued)
      /\ (Waiting' <=> Waiting) /\ (Queued' <=> Queued) /\ (OneQueued' <=> OneQueued)
      /\ (StopFirst' <=> StopFirst) /\ (StopQueuedFirst' <=> StopQueuedFirst)
      /\ (WithinPoll => WithinPoll') /\ (NextPoll => NextPoll')
  BY TickLists
<1>4. OnePoll' /\ Near'
  BY <1>1, <1>2, <1>3, Zenon DEF CutInv, OnePoll, Near, Polling
<1>5. TypedLast'
  BY <1>1, <1>2, <1>3, Zenon DEF CutInv, TypedLast
<1>6. Planned'
  BY <1>1, <1>2, <1>3, Zenon DEF CutInv, Planned
<1> QED
  BY <1>2, <1>4, <1>5, <1>6, Zenon DEF CutInv

\* Nothing is left to do: no plan.
LEMMA NoPlan ==
  ASSUME todo = <<>>
  PROVE  /\ Plan(todo) = <<>> /\ ~Polling
         /\ Plan(todo) \notin Keyed \cup Timed \cup Moved \cup {StepsPlan, StopPlan, RearmPlan}
<1>1. Plan(todo) = <<>>
  BY DEF Plan
<1>2. <<>> # StopPlan
  BY DEF StopPlan
<1> QED
  BY <1>1, <1>2, PlanSets DEF Polling

LEMMA CutExpire == ASSUME KInv, CutInv, Expire PROVE CutInv'
<1>1. /\ todo = <<>> /\ todo' = todo /\ input' = input /\ lost' = lost /\ car' = car
      /\ timers[1].who \in {"poll", "stop"}
  BY ExpireWho DEF Expire, statics, history
<1>2. /\ Plan(todo)' = Plan(todo) /\ ~Polling /\ ~Polling'
      /\ Plan(todo) \notin Keyed \cup Timed \cup Moved \cup {StepsPlan, StopPlan, RearmPlan}
  BY <1>1, NoPlan DEF Polling
<1>3. /\ Plan(todo)' \notin Keyed /\ Plan(todo)' \notin Timed /\ Plan(todo)' \notin Moved
      /\ Plan(todo)' # StepsPlan /\ Plan(todo)' # StopPlan
  BY <1>2
<1>4. /\ StopFirst => StopFirst'
      /\ WithinPoll => WithinPoll'
      /\ NextPoll => NextPoll'
  BY ExpireWaits
<1>5. /\ PollQueued' <=> PollQueued \/ timers[1].who = "poll"
      /\ Queued' <=> Queued \/ timers[1].who = "stop"
      /\ ~PollQueued \/ (OneQueued /\ timers[1].who = "stop") => OneQueued'
      /\ ~PollQueued => StopQueuedFirst'
  BY ExpireQueue
<1>6. CASE timers[1].who = "poll"
  <2>1. /\ PollWaits /\ ~PollWaits' /\ (Waiting' <=> Waiting) /\ (StopFirst => ~Waiting)
        /\ (NextPoll => WithinPoll)
    BY <1>6, ExpireWho
  <2>2. ~PollQueued /\ PollQueued' /\ timers[1].who # "stop" /\ (Queued' <=> Queued)
    BY <1>5, <1>6, <2>1 DEF CutInv, OnePoll
  <2>3. OnePoll' /\ Near'
    BY <1>2, <1>4, <1>5, <2>1, <2>2, Zenon DEF CutInv, OnePoll, Near
  <2>4. TypedLast'
    BY <1>1, <1>3, <1>4, <1>5, <2>1, <2>2, Zenon DEF CutInv, TypedLast
  <2>5. Planned'
    BY <1>1, <1>3, <2>1, <2>2, Zenon DEF CutInv, Planned
  <2> QED
    BY <1>2, <2>3, <2>4, <2>5, Zenon DEF CutInv
<1>7. CASE timers[1].who = "stop"
  <2>1. Waiting /\ ~Waiting' /\ (PollWaits' <=> PollWaits)
    BY <1>7, ExpireWho
  <2>2. (PollQueued' <=> PollQueued) /\ OneQueued'
    BY <1>5, <1>7 DEF CutInv, OnePoll
  <2>3. OnePoll' /\ Near'
    BY <1>1, <1>2, <1>4, <2>1, <2>2, Zenon DEF CutInv, OnePoll, Near
  <2>4. TypedLast'
    BY <1>1, <1>3, <1>4, <1>5, <2>1, <2>2, Zenon DEF CutInv, TypedLast
  <2>5. Planned'
    BY <1>1, <1>3, <2>1, Zenon DEF CutInv, Planned
  <2> QED
    BY <1>2, <2>3, <2>4, <2>5, Zenon DEF CutInv
<1> QED
  BY <1>1, <1>6, <1>7

LEMMA CutPoll == ASSUME KInv, CutInv, Poll PROVE CutInv'
<1>1. /\ todo = <<>> /\ queued # <<>> /\ Head(queued) = "poll" /\ queued' = Tail(queued)
      /\ timers' = timers /\ input' = input /\ lost' = lost /\ car' = car
  BY DEF Poll, statics, history
<1>2. (Waiting' <=> Waiting) /\ (PollWaits' <=> PollWaits) /\ (NextPoll' <=> NextPoll)
      /\ (WithinPoll' <=> WithinPoll) /\ (StopFirst' <=> StopFirst)
  BY <1>1, Zenon DEF Waiting, PollWaits, NextPoll, WithinPoll, StopFirst
<1>3. /\ OneQueued' /\ (StopQueuedFirst => StopQueuedFirst') /\ (Queued' => Queued)
      /\ PollQueued /\ ~PollQueued' /\ (StopQueuedFirst => ~Queued)
  BY <1>1, DequeueFacts DEF CutInv, OnePoll
<1>4. Plan(todo)' \in Keyed \cup {<<"ask", "rearm">>, RearmPlan}
  <2>1. \A n : Key(n).do = "key"
    BY StepKinds, Zenon
  <2>2. Ask.do = "ask" /\ Rearm.do = "rearm"
    BY StepKinds
  <2>3. \A n : Plan(<<Ask, Key(n), Rearm>>) = <<"ask", "key", "rearm">>
    <3> SUFFICES ASSUME NEW n PROVE Plan(<<Ask, Key(n), Rearm>>) = <<"ask", "key", "rearm">>
      OBVIOUS
    <3>1. Plan(<<Ask, Key(n), Rearm>>) = <<Ask.do, Key(n).do, Rearm.do>>
      BY Plan3, Zenon
    <3>2. Key(n).do = "key"
      BY <2>1, Zenon
    <3> QED
      BY <2>2, <3>1, <3>2, Zenon
  <2>4. Plan(<<Rearm>>) = <<"rearm">> /\ Plan(<<Ask, Rearm>>) = <<"ask", "rearm">>
    BY <2>2, Plan1, Plan2, Zenon
  <2>5. \/ \E n : todo' = <<Ask, Key(n), Rearm>>
        \/ todo' = <<Rearm>> \/ todo' = <<Ask, Rearm>>
    BY Zenon DEF Poll
  <2>6. Plan(todo)' \in {<<"ask", "key", "rearm">>, <<"ask", "rearm">>, <<"rearm">>}
    BY <2>3, <2>4, <2>5, Zenon
  <2> QED
    BY <2>6 DEF Keyed, RearmPlan
<1>5. /\ Plan(todo)' \in Polls /\ Plan(todo)' # StepsPlan /\ Plan(todo)' # StopPlan
      /\ Plan(todo)' \notin Timed /\ Plan(todo)' \notin Moved
  BY <1>4, PlanSets
<1>6. OnePoll' /\ Near'
  BY <1>2, <1>3, <1>5, Zenon DEF CutInv, OnePoll, Near, Polling
<1>7. TypedLast'
  BY <1>1, <1>2, <1>3, Zenon DEF CutInv, TypedLast
<1>8. Planned'
  BY <1>1, <1>2, <1>3, <1>5, Zenon DEF CutInv, Planned
<1> QED
  BY <1>5, <1>6, <1>7, <1>8, Zenon DEF CutInv, Plans

LEMMA CutStopTimer == ASSUME KInv, CutInv, StopTimer PROVE CutInv'
<1>1. /\ todo = <<>> /\ queued # <<>> /\ Head(queued) = "stop" /\ queued' = Tail(queued)
      /\ timers' = timers /\ input' = input /\ lost' = lost /\ car' = car
      /\ todo' = <<StopAll>>
  BY DEF StopTimer, statics, history
<1>2. (Waiting' <=> Waiting) /\ (PollWaits' <=> PollWaits) /\ (NextPoll' <=> NextPoll)
      /\ (WithinPoll' <=> WithinPoll) /\ (StopFirst' <=> StopFirst)
  BY <1>1, Zenon DEF Waiting, PollWaits, NextPoll, WithinPoll, StopFirst
<1>3. /\ OneQueued' /\ (StopQueuedFirst => StopQueuedFirst') /\ (Queued' => Queued)
      /\ Queued /\ (PollQueued' <=> PollQueued)
  BY <1>1, DequeueFacts DEF CutInv, OnePoll
<1>4. Plan(todo)' = StopPlan
  <2>1. Plan(<<StopAll>>) = StopPlan
    BY PlainPlans DEF StopPlan
  <2> QED
    BY <1>1, <2>1
<1>5. /\ Plan(todo)' \notin Polls /\ Plan(todo)' # StepsPlan /\ Plan(todo)' \notin Keyed
      /\ Plan(todo)' \notin Timed /\ Plan(todo)' \notin Moved
  BY <1>4, PlanSets
<1>6. ~Polling
  BY <1>1, NoPlan
<1>7. OnePoll' /\ Near'
  BY <1>2, <1>3, <1>5, <1>6, Zenon DEF CutInv, OnePoll, Near, Polling
<1>8. TypedLast'
  BY <1>1, <1>2, <1>3, <1>5, Zenon DEF CutInv, TypedLast
<1>9. Planned'
  BY <1>1, <1>2, <1>3, <1>5, Zenon DEF CutInv, Planned
<1>10. Plan(todo)' \in Plans
  BY <1>4 DEF Plans
<1> QED
  BY <1>7, <1>8, <1>9, <1>10, Zenon DEF CutInv

\* A step of a poll's completion that leaves more of it to do, and no key.
LEMMA PollGoesOn ==
  ASSUME CutInv, UNCHANGED <<timers, queued>>, Polling, Plan(todo)' \in Polls,
         Plan(todo) # RearmPlan,
         Plan(todo)' \in Keyed => Plan(todo) \in Keyed /\ input' = input
  PROVE  OnePoll' /\ Near' /\ TypedLast'
<1>1. /\ (PollWaits' <=> PollWaits) /\ (PollQueued' <=> PollQueued)
      /\ (Waiting' <=> Waiting) /\ (Queued' <=> Queued) /\ (OneQueued' <=> OneQueued)
      /\ (WithinPoll' <=> WithinPoll) /\ (NextPoll' <=> NextPoll)
  BY ListsKept
<1>2. ~PollWaits /\ ~PollQueued
  BY DEF CutInv, OnePoll
<1>3. StopFirst' /\ StopQueuedFirst'
  BY <1>1, <1>2, Zenon DEF StopFirst, StopQueuedFirst, PollWaits, PollQueued
<1>4. OnePoll' /\ Near'
  BY <1>1, <1>2, Zenon DEF CutInv, OnePoll, Near, Polling
<1>5. TypedLast'
  BY <1>1, <1>2, <1>3, Zenon DEF CutInv, TypedLast
<1> QED
  BY <1>4, <1>5

\* What is next, and what is left after it.
LEMMA NextPlan ==
  ASSUME KInv, Plan(todo) \in Plans, todo # <<>>
  PROVE  /\ Plan(todo) # <<>> /\ Head(todo).do = Head(Plan(todo))
         /\ Plan(Tail(todo)) = Tail(Plan(todo))
<1>1. todo \in Seq(StepSet)
  BY DEF KInv, TimersTyped, Typed
<1> QED
  BY <1>1, PlanTail

LEMMA CutAsk == ASSUME KInv, CutInv, AskMotorNum PROVE CutInv'
<1>1. /\ todo # <<>> /\ Head(todo).do = "ask" /\ todo' = Tail(todo)
      /\ UNCHANGED <<timers, queued>> /\ input' = input /\ lost' = lost /\ car' = car
  BY DEF AskMotorNum, history
<1> DEFINE p == Plan(todo)
           q == Tail(p)
<1>2. p \in Plans /\ p # <<>> /\ Head(p) = "ask" /\ Plan(todo)' = q
  BY <1>1, NextPlan DEF CutInv
<1> HIDE DEF p
<1>3. /\ p \in Polls /\ p # RearmPlan
      /\ q \in Polls \ (Timed \cup {StepsPlan})
      /\ q \in Keyed => p \in Keyed
  BY <1>2, PlanSteps
<1>4. OnePoll' /\ Near' /\ TypedLast'
  BY <1>1, <1>2, <1>3, PollGoesOn DEF Polling, p
<1>5. /\ Plan(todo)' \in Polls /\ Plan(todo)' # StepsPlan /\ Plan(todo)' # StopPlan
      /\ Plan(todo)' \notin Timed /\ Plan(todo)' \notin Moved
  BY <1>2, <1>3, PlanSets
<1>6. (Waiting' <=> Waiting) /\ (Queued' <=> Queued)
  BY <1>1, ListsKept
<1>7. Planned'
  BY <1>1, <1>5, <1>6, Zenon DEF CutInv, Planned
<1> QED
  BY <1>4, <1>5, <1>7, Zenon DEF CutInv, Plans

\* handleKeyPress plans counted steps only for a number that was typed.
LEMMA CutKey == ASSUME KInv, CutInv, HandleKeyPress PROVE CutInv'
<1> DEFINE k == Head(todo).n
           p == Plan(todo)
<1>1. /\ todo # <<>> /\ Head(todo).do = "key"
      /\ UNCHANGED <<timers, queued>> /\ lost' = lost /\ car' = car
  BY DEF HandleKeyPress
<1>2. p \in Plans /\ p # <<>> /\ Head(p) = "key" /\ Plan(Tail(todo)) = Tail(p)
  BY <1>1, NextPlan DEF CutInv
<1>3. p \in Keyed /\ Tail(p) = RearmPlan
  BY <1>2, PlanSteps
<1>4. Tail(todo) \in Seq(StepSet) /\ Plan(Tail(todo)) = RearmPlan
  BY <1>1, <1>2, <1>3, TodoFacts
<1>5. input \in Nat /\ motorNum \in Nat
  BY RemoteAssumption DEF KInv, StaticsTyped, KeypadTyped
<1>6. /\ Plan(todo)' \in Polls /\ Plan(todo)' \notin Keyed /\ Plan(todo)' \notin Moved
      /\ Plan(todo)' \in Timed => input' = 0
      /\ Plan(todo)' = StepsPlan => input # 0
  <2>1. CASE Ignored(k)
    <3>1. Plan(todo)' = RearmPlan
      BY <1>4, <2>1, Zenon DEF HandleKeyPress
    <3> QED
      BY <3>1, PlanSets
  <2>2. CASE ~Ignored(k)
    <3>1. todo' = Handle(k).calls \o Tail(todo) /\ input' = Handle(k).input
      BY <2>2, Zenon DEF HandleKeyPress
    <3> DEFINE u == Tail(todo)
               r == Plan(Handle(k).calls \o u)
    <3>0. u \in Seq(StepSet) /\ Plan(u) = RearmPlan
      BY <1>4
    <3> HIDE DEF k, u, StepSet
    <3>2. /\ r \in Polls \ (Keyed \cup Moved)
          /\ r \in Timed => Handle(k).input = 0
          /\ r = StepsPlan => input # 0
      BY <1>5, <3>0, KeyPlans
    <3>3. Plan(todo)' = r
      BY <3>1 DEF u
    <3> HIDE DEF r
    <3> QED
      BY <3>1, <3>2, <3>3
  <2> QED
    BY <2>1, <2>2
<1>7. p # RearmPlan /\ p \in Polls
  BY <1>3, PlanSets
<1>8. OnePoll' /\ Near' /\ TypedLast'
  BY <1>1, <1>6, <1>7, PollGoesOn DEF Polling
<1>9. (Waiting' <=> Waiting) /\ (Queued' <=> Queued)
  BY <1>1, ListsKept
<1>10. Plan(todo)' # StopPlan
  BY <1>6, PlanSets
<1>11. input # 0 => ~Waiting /\ ~Queued
  BY <1>3 DEF CutInv, TypedLast
<1>12. Planned'
  BY <1>1, <1>6, <1>9, <1>10, <1>11, Zenon DEF CutInv, Planned
<1> QED
  BY <1>6, <1>8, <1>12, Zenon DEF CutInv, Plans

\* What a call leaves of the car, and which calls have failed since.
LEMMA CallCar ==
  ASSUME KInv, Call
  PROVE  LET do == Head(todo).do IN
         /\ do = "move" => car' # "steps" \/ "move" \in lost'
         /\ do = "turn" => car' = car /\ lost' = lost
         /\ do # "steps" /\ car' = "steps" /\ "move" \notin lost'
              => car = "steps" /\ "move" \notin lost
<1> DEFINE c == Head(todo)
<1>1. /\ c.do \in Calls /\ car' \in {car, Effect(c)} /\ Remember(c)
  BY DEF Call
<1> HIDE DEF c
<1>2. /\ c.do = "move" => Effect(c) = "moving" /\ Moves(c)
      /\ c.do = "stop" => Effect(c) = "stopped" /\ Moves(c)
      /\ c.do \in {"turn", "level"} => Effect(c) = car /\ ~Moves(c)
  BY DEF Effect, Moves
<1>3. /\ ~Moves(c) => lost' = lost
      /\ Moves(c) /\ car' # Effect(c) => lost' = lost \cup {c.do}
  <2>1. lost' = CASE ~Moves(c) -> lost
                  [] Moves(c) /\ car' = Effect(c) -> {}
                  [] OTHER -> lost \cup {c.do}
    BY <1>1, Zenon DEF Remember
  <2> QED
    BY <2>1
<1>4. c.do = "move" => car' # "steps" \/ "move" \in lost'
  BY <1>2, <1>3
<1>5. c.do = "turn" => car' = car /\ lost' = lost
  BY <1>1, <1>2, <1>3
<1>6. c.do # "steps" /\ car' = "steps" /\ "move" \notin lost'
        => car = "steps" /\ "move" \notin lost
  <2>1. CASE c.do = "move"
    BY <1>4, <2>1
  <2>2. CASE c.do = "stop"
    BY <1>1, <1>2, <1>3, <2>2
  <2>3. CASE c.do \in {"turn", "level"}
    BY <1>1, <1>2, <1>3, <2>3
  <2> QED
    BY <1>1, <2>1, <2>2, <2>3 DEF Calls
<1> QED
  BY <1>4, <1>5, <1>6 DEF c

LEMMA CutCall == ASSUME KInv, CutInv, Call PROVE CutInv'
<1> DEFINE p == Plan(todo)
           q == Tail(p)
           do == Head(todo).do
<1>1. /\ todo # <<>> /\ do \in Calls /\ todo' = Tail(todo)
      /\ UNCHANGED <<timers, queued>> /\ input' = input
  BY DEF Call, statics
<1>2. p \in Plans /\ p # <<>> /\ Head(p) = do /\ Plan(todo)' = q
  BY <1>1, NextPlan DEF CutInv
<1> HIDE DEF p, do
<1>3. /\ p # RearmPlan /\ p \notin Keyed
      /\ (p \in Polls /\ q \in Polls) \/ (p = StopPlan /\ q = <<>>)
      /\ q \notin Keyed \cup {StepsPlan, StopPlan}
      /\ q \in Timed => p \in Timed /\ q \in Moved /\ do \in {"move", "turn"}
      /\ do = "turn" => p \in Moved
      /\ do = "steps" => p = StepsPlan
  BY <1>1, <1>2, PlanSteps
<1> HIDE DEF q
<1>4. /\ do = "move" => car' # "steps" \/ "move" \in lost'
      /\ do = "turn" => car' = car /\ lost' = lost
      /\ do # "steps" /\ car' = "steps" /\ "move" \notin lost'
           => car = "steps" /\ "move" \notin lost
  BY CallCar DEF do
<1>5. /\ (PollWaits' <=> PollWaits) /\ (PollQueued' <=> PollQueued)
      /\ (Waiting' <=> Waiting) /\ (Queued' <=> Queued) /\ (OneQueued' <=> OneQueued)
      /\ (StopFirst' <=> StopFirst) /\ (StopQueuedFirst' <=> StopQueuedFirst)
      /\ (WithinPoll' <=> WithinPoll) /\ (NextPoll' <=> NextPoll)
  BY <1>1, ListsKept
<1>6. OnePoll' /\ Near' /\ TypedLast'
  <2>1. CASE p \in Polls /\ q \in Polls
    BY <1>1, <1>2, <1>3, <2>1, PollGoesOn DEF Polling, p
  <2>2. CASE p = StopPlan /\ q = <<>>
    <3>1. p \notin Polls /\ Plan(todo)' \notin Polls /\ Plan(todo)' \notin Keyed
      BY <1>2, <2>2, PlanSets
    <3>2. OnePoll' /\ Near'
      BY <1>1, <1>5, <3>1, Zenon DEF CutInv, OnePoll, Near, Polling, p
    <3>3. TypedLast'
      BY <1>1, <1>5, <3>1, Zenon DEF CutInv, TypedLast
    <3> QED
      BY <3>2, <3>3
  <2> QED
    BY <1>3, <2>1, <2>2
<1>7. Plan(todo)' # StepsPlan /\ Plan(todo)' # StopPlan
  BY <1>2, <1>3
<1>8. Plan(todo)' \in Timed => input' = 0
  BY <1>1, <1>2, <1>3 DEF CutInv, Planned, p
<1>9. Plan(todo)' \in Moved => car' # "steps" \/ "move" \in lost'
  <2>1. SUFFICES ASSUME q \in Moved PROVE car' # "steps" \/ "move" \in lost'
    BY <1>2
  <2>2. do \in {"move", "turn"}
    BY <1>3, <2>1, PlanSets
  <2>3. CASE do = "move"
    BY <1>4, <2>3
  <2>4. CASE do = "turn"
    BY <1>3, <1>4, <2>4 DEF CutInv, Planned, p
  <2> QED
    BY <2>2, <2>3, <2>4
<1>10. ASSUME car' = "steps", "move" \notin lost' PROVE ~Waiting' /\ ~Queued'
  <2>1. CASE do = "steps"
    BY <1>3, <1>5, <2>1 DEF CutInv, Planned, p
  <2>2. CASE do # "steps"
    BY <1>4, <1>5, <1>10, <2>2 DEF CutInv, Planned
  <2> QED
    BY <2>1, <2>2
<1>11. Planned'
  BY <1>7, <1>8, <1>9, <1>10, Zenon DEF Planned
<1>12. Plan(todo)' \in Plans
  BY <1>2, <1>3 DEF Plans
<1> QED
  BY <1>6, <1>11, <1>12, Zenon DEF CutInv

LEMMA CutStart == ASSUME KInv, CutInv, StartStopTimer PROVE CutInv'
<1> DEFINE p == Plan(todo)
<1>1. /\ todo # <<>> /\ Head(todo).do = "start" /\ todo' = Tail(todo)
      /\ queued' = queued /\ input' = input /\ lost' = lost /\ car' = car
  BY DEF StartStopTimer, statics
<1>2. p \in Plans /\ p # <<>> /\ Head(p) = "start" /\ Plan(todo)' = Tail(p)
  BY <1>1, NextPlan DEF CutInv
<1>3. p \in Moved /\ Plan(todo)' = RearmPlan
  BY <1>2, PlanSteps
<1>4. p \in Timed /\ p \in Polls
  BY <1>3, PlanSets
<1>5. input = 0 /\ input' = 0 /\ (car # "steps" \/ "move" \in lost)
  BY <1>1, <1>3, <1>4 DEF CutInv, Planned
<1>6. ~PollWaits /\ ~PollQueued /\ OneQueued
  BY <1>4 DEF CutInv, OnePoll, Polling
<1>7. ~PollWaits'
  BY <1>6, StartLists
<1>8. ~PollQueued' /\ OneQueued'
  BY <1>1, <1>6, Zenon DEF PollQueued, OneQueued
<1>9. NextPoll'
  BY <1>7, Zenon DEF NextPoll, PollWaits
<1>10. /\ Plan(todo)' \in Polls /\ Plan(todo)' \notin Timed /\ Plan(todo)' \notin Moved
       /\ Plan(todo)' # StepsPlan /\ Plan(todo)' # StopPlan
  BY <1>3, PlanSets
<1>11. OnePoll' /\ Near'
  BY <1>3, <1>5, <1>7, <1>8, <1>9, <1>10, Zenon DEF OnePoll, Near, Polling
<1>12. TypedLast'
  BY <1>5, Zenon DEF TypedLast
<1>13. Planned'
  BY <1>1, <1>5, <1>10, Zenon DEF Planned
<1> QED
  BY <1>10, <1>11, <1>12, <1>13, Zenon DEF CutInv, Plans

LEMMA CutRearm == ASSUME KInv, CutInv, RearmPoll PROVE CutInv'
<1> DEFINE p == Plan(todo)
<1>1. /\ todo # <<>> /\ Head(todo).do = "rearm" /\ todo' = Tail(todo)
      /\ queued' = queued /\ input' = input /\ lost' = lost /\ car' = car
  BY DEF RearmPoll, statics, history
<1>2. p \in Plans /\ p # <<>> /\ Head(p) = "rearm" /\ Plan(todo)' = Tail(p)
  BY <1>1, NextPlan DEF CutInv
<1>3. p = RearmPlan /\ Plan(todo)' = <<>>
  BY <1>2, PlanSteps
<1>4. p \in Polls /\ Plan(todo)' \notin Polls /\ Plan(todo)' \notin Keyed
      /\ Plan(todo)' \notin Timed /\ Plan(todo)' \notin Moved
      /\ Plan(todo)' # StepsPlan
  BY <1>3, PlanSets
<1>5. Plan(todo)' # StopPlan /\ Plan(todo)' \in Plans
  BY <1>3 DEF StopPlan, Plans
<1>6. ~PollQueued /\ OneQueued
  BY <1>4 DEF CutInv, OnePoll, Polling
<1>7. /\ ~PollQueued' /\ OneQueued' /\ (Queued' <=> Queued)
  BY <1>1, <1>6, Zenon DEF PollQueued, OneQueued, Queued
<1>8. PollWaits' /\ (Waiting' <=> Waiting) /\ NextPoll' /\ (WithinPoll => StopFirst')
  BY RearmLists
<1>9. OnePoll' /\ Near'
  BY <1>4, <1>7, <1>8, Zenon DEF OnePoll, Near, Polling
<1>10. input # 0 => WithinPoll
  BY <1>4 DEF CutInv, Near, Polling
<1>11. StopQueuedFirst'
  BY <1>7, Zenon DEF StopQueuedFirst, PollQueued
<1>12. TypedLast'
  BY <1>1, <1>4, <1>7, <1>8, <1>10, <1>11, Zenon DEF TypedLast
<1>13. Planned'
  BY <1>1, <1>4, <1>5, <1>7, <1>8, Zenon DEF CutInv, Planned
<1> QED
  BY <1>5, <1>9, <1>12, <1>13, Zenon DEF CutInv

LEMMA CutStep == ASSUME KInv, CutInv, [Next]_vars PROVE CutInv'
<1>1. CASE (\E k \in Keys : Tap(k) \/ Hold(k)) \/ Release \/ OtherClient \/ StepsDone
  BY <1>1, CutKeypad
<1>2. CASE Tick \/ Expire
  BY <1>2, CutTick, CutExpire
<1>3. CASE IoStep
  BY <1>3, CutPoll, CutStopTimer, CutAsk, CutKey, CutCall, CutStart, CutRearm, Zenon DEF IoStep
<1>4. CASE UNCHANGED vars
  <2>1. UNCHANGED <<timers, queued, todo, input, lost>> /\ car' = car
    BY <1>4, Zenon DEF vars
  <2> QED
    BY <2>1, CutKept
<1> QED
  BY <1>1, <1>2, <1>3, <1>4, Zenon DEF Next

LEMMA CutInductive == Spec => [](KInv /\ CutInv)
<1>1. Init => KInv /\ CutInv
  BY InitFacts, CutInit
<1>2. KInv /\ CutInv /\ [Next]_vars => KInv' /\ CutInv'
  BY NextStep, CutStep
<1> QED
  BY <1>1, <1>2, PTL DEF Spec

(* A movement that counts its steps is not cut short by the stop timer of an *)
(* earlier key, however late the io thread is: the key that types the number *)
(* takes a poll, and the stop timer is due before the next one               *)
(* (handleKeyPress and timerDirKey of remote_key.cpp).                       *)
THEOREM CountedStepsNotCut == Spec => []StepsNotCut
<1>1. CutInv => StepsNotCut
  <2> SUFFICES ASSUME CutInv, car = "steps", "move" \notin lost PROVE ~StopPending
    BY DEF StepsNotCut
  <2>1. ~Waiting /\ ~Queued /\ Plan(todo) # StopPlan
    BY DEF CutInv, Planned
  <2>2. "stop" \notin ToSet(queued)
    BY <2>1 DEF ToSet, Queued
  <2>3. todo # <<StopAll>>
    BY <2>1, PlainPlans DEF StopPlan
  <2> QED
    BY <2>1, <2>2, <2>3, Zenon DEF StopPending, Waiting
<1> QED
  BY <1>1, CutInductive, PTL

-----------------------------------------------------------------------------
(* What keeps the stop timer away while an arrow is held.                  *)

\* The io thread is late by less than half a poll.
OnTime == 2 * MaxLate < CheckTime

\* The wait j of the stop timer was started at a poll, and the wait i of the poll
\* timer after it: the stop is due a poll later, but for what the io thread was late.
Fresh(i, j) ==
  timers[j].left >= timers[i].left + CheckTime - MaxLate
                    - (IF timers[i].left = 0 THEN late ELSE 0)

AllFresh ==
  \A i, j \in DOMAIN timers : timers[i].who = "poll" /\ timers[j].who = "stop" => Fresh(i, j)
Apart ==
  \A i, j \in DOMAIN timers :
    timers[i].who = "poll" /\ timers[j].who = "stop" => j < i \/ Fresh(i, j)

\* What is left of the stop timer when the poll is queued, and when it was started
\* by the completion that runs.
AfterPoll ==
  \A j \in DOMAIN timers : timers[j].who = "stop" => timers[j].left >= CheckTime - MaxLate - late
Renewed ==
  \A j \in DOMAIN timers : timers[j].who = "stop" => timers[j].left >= StopTime - late
NearOrRenewed ==
  \A j \in DOMAIN timers : timers[j].who = "stop"
    => timers[j].left <= CheckTime \/ timers[j].left >= StopTime - late

HoldInv ==
  /\ Apart
  /\ PollQueued => AfterPoll
  /\ Plan(todo) = RearmPlan => NearOrRenewed
  /\ StopQueuedFirst
  /\ Polling => ~Queued
  /\ driving => /\ held \in Arrows
                /\ ~Queued
                /\ Plan(todo) \notin Dull
                /\ AllFresh
                /\ Plan(todo) = RearmPlan => Renewed

LEMMA TimesKept ==
  ASSUME UNCHANGED <<timers, late>>
  PROVE  /\ (Apart' <=> Apart) /\ (AllFresh' <=> AllFresh) /\ (AfterPoll' <=> AfterPoll)
         /\ (Renewed' <=> Renewed) /\ (NearOrRenewed' <=> NearOrRenewed)
<1>1. timers' = timers /\ late' = late
  OBVIOUS
<1> QED
  BY <1>1, Zenon DEF Apart, AllFresh, Fresh, AfterPoll, Renewed, NearOrRenewed

\* A wait that is due keeps the thread from being idle.
LEMMA DueNotIdle ==
  ASSUME KInv, NEW i \in DOMAIN timers, timers[i].left = 0
  PROVE  ~Idle
<1>1. timers \in Seq(Waits)
  BY DEF KInv, TimersTyped, Typed
<1>2. 1 \in DOMAIN timers /\ (1 < i \/ i = 1)
  BY <1>1
<1>3. timers[1].left <= timers[i].left
  <2>1. CASE 1 < i
    BY <1>2, <2>1, Zenon DEF KInv, TimersTyped, Sorted
  <2>2. CASE i = 1
    BY <1>1, <2>2, WaitFields
  <2> QED
    BY <1>2, <2>1, <2>2
<1>4. timers[1].left \in 0 .. StopTime
  BY <1>1, <1>2, WaitFields
<1>5. ~(timers[1].left > 0)
  BY <1>3, <1>4
<1> QED
  BY <1>5, Zenon DEF Idle

LEMMA TickFresh ==
  ASSUME KInv, OnTime, Tick, NEW i \in DOMAIN timers, NEW j \in DOMAIN timers, Fresh(i, j)
  PROVE  Fresh(i, j)'
<1> DEFINE p == timers[i].left
           s == timers[j].left
           q == timers'[i].left
           t == timers'[j].left
<1>1. timers \in Seq(Waits)
  BY DEF KInv, TimersTyped, Typed
<1>2. /\ p \in Nat /\ s \in Nat
      /\ q = IF p > 0 THEN p - 1 ELSE 0
      /\ t = IF s > 0 THEN s - 1 ELSE 0
  BY <1>1, TickWaits, WaitFields
<1>3. late \in 0 .. MaxLate /\ late' \in 0 .. MaxLate /\ MaxLate \in Nat /\ CheckTime \in Nat
      /\ 2 * MaxLate < CheckTime
  BY NextStep, Constants DEF KInv, TimersTyped, OnTime, Next
<1>4. p = 0 => late' = late + 1
  <2>1. p = 0 => ~Idle
    BY DueNotIdle
  <2> QED
    BY <2>1, Zenon DEF Tick
<1>5. s >= p + CheckTime - MaxLate - (IF p = 0 THEN late ELSE 0)
  BY DEF Fresh
<1>6. (timers[i].left)' = q /\ (timers[j].left)' = t
  OBVIOUS
<1> HIDE DEF p, s, q, t
<1>7. t >= q + CheckTime - MaxLate - (IF q = 0 THEN late' ELSE 0)
  <2>1. CASE p = 0
    BY <1>2, <1>3, <1>4, <1>5, <2>1
  <2>2. CASE p = 1
    <3>1. q = 0 /\ s >= 1 + CheckTime - MaxLate
      BY <1>2, <1>3, <1>5, <2>2
    <3>2. t >= CheckTime - MaxLate /\ t \in Nat
      BY <1>2, <1>3, <3>1
    <3> DEFINE l == late'
               b == CheckTime - MaxLate
    <3>3. b \in Int /\ l \in Nat /\ t \in Nat /\ t >= b
      BY <1>3, <3>2
    <3>4. q + CheckTime - MaxLate - (IF q = 0 THEN late' ELSE 0) = b - l
      BY <1>3, <3>1
    <3> HIDE DEF b, l
    <3>5. t >= b - l
      BY <3>3
    <3> QED
      BY <3>4, <3>5
  <2>3. CASE p > 1
    <3>1. q = p - 1 /\ q # 0 /\ s >= p + CheckTime - MaxLate
      BY <1>2, <1>3, <1>5, <2>3
    <3>2. t = s - 1
      BY <1>2, <1>3, <2>3, <3>1
    <3> QED
      BY <1>2, <1>3, <3>1, <3>2
  <2> QED
    BY <1>2, <2>1, <2>2, <2>3
<1> QED
  BY <1>6, <1>7, Zenon DEF Fresh

LEMMA TickTimes ==
  ASSUME KInv, OnTime, Tick
  PROVE  /\ Apart => Apart'
         /\ AllFresh => AllFresh'
         /\ ~Idle => /\ AfterPoll => AfterPoll'
                     /\ Renewed => Renewed'
                     /\ NearOrRenewed => NearOrRenewed'
<1>1. /\ DOMAIN timers' = DOMAIN timers
      /\ \A i \in DOMAIN timers : timers'[i].who = timers[i].who
  BY TickWaits
<1>2. \A i, j \in DOMAIN timers : Fresh(i, j) => Fresh(i, j)'
  BY TickFresh
<1>3. Apart => Apart'
  BY <1>1, <1>2, Zenon DEF Apart
<1>4. AllFresh => AllFresh'
  BY <1>1, <1>2, Zenon DEF AllFresh
<1>5. ASSUME ~Idle
      PROVE  /\ AfterPoll => AfterPoll'
             /\ Renewed => Renewed'
             /\ NearOrRenewed => NearOrRenewed'
  <2>1. late' = late + 1 /\ late \in Nat /\ MaxLate \in Nat /\ CheckTime \in Nat /\ StopTime \in Nat
    BY <1>5, Constants DEF Tick, KInv, TimersTyped
  <2>2. \A j \in DOMAIN timers : /\ timers[j].left \in Nat /\ timers'[j].left \in Nat
                                 /\ timers'[j].left <= timers[j].left
                                 /\ timers'[j].left >= timers[j].left - 1
    <3> SUFFICES ASSUME NEW j \in DOMAIN timers
                 PROVE  /\ timers[j].left \in Nat /\ timers'[j].left \in Nat
                        /\ timers'[j].left <= timers[j].left
                        /\ timers'[j].left >= timers[j].left - 1
      OBVIOUS
    <3>1. timers[j].left \in Nat
      BY WaitFields DEF KInv, TimersTyped, Typed
    <3>2. timers'[j].left = IF timers[j].left > 0 THEN timers[j].left - 1 ELSE 0
      BY TickWaits
    <3> QED
      BY <3>1, <3>2
  <2>3. \A j \in DOMAIN timers :
          /\ timers[j].left >= CheckTime - MaxLate - late
               => timers'[j].left >= CheckTime - MaxLate - late'
          /\ timers[j].left >= StopTime - late => timers'[j].left >= StopTime - late'
          /\ timers[j].left <= CheckTime => timers'[j].left <= CheckTime
    <3> SUFFICES ASSUME NEW j \in DOMAIN timers
                 PROVE  /\ timers[j].left >= CheckTime - MaxLate - late
                             => timers'[j].left >= CheckTime - MaxLate - late'
                        /\ timers[j].left >= StopTime - late
                             => timers'[j].left >= StopTime - late'
                        /\ timers[j].left <= CheckTime => timers'[j].left <= CheckTime
      OBVIOUS
    <3>1. /\ timers[j].left \in Nat /\ timers'[j].left \in Nat
          /\ timers'[j].left <= timers[j].left
          /\ timers'[j].left >= timers[j].left - 1
      BY <2>2
    <3> QED
      BY <2>1, <3>1
  <2> QED
    BY <1>1, <2>3, Zenon DEF AfterPoll, Renewed, NearOrRenewed
<1> QED
  BY <1>3, <1>4, <1>5

\* The first wait has expired.
LEMMA ExpireTimes ==
  ASSUME KInv, OnTime, Expire
  PROVE  /\ (Apart => Apart') /\ (AllFresh => AllFresh')
         /\ timers[1].who = "poll" /\ Apart => AfterPoll'
         /\ timers[1].who = "stop" => ~AfterPoll /\ ~(AllFresh /\ PollWaits)
<1>1. /\ timers' = Tail(timers) /\ timers \in Seq(Waits) /\ Tail(timers) \in Seq(Waits)
      /\ 1 \in DOMAIN timers
      /\ \A i \in DOMAIN Tail(timers) :
           i + 1 \in DOMAIN timers /\ Tail(timers)[i] = timers[i + 1]
  BY ExpireLists, Zenon
<1>2. /\ \A i \in DOMAIN timers' : /\ i \in Nat /\ i + 1 \in DOMAIN timers
                                   /\ timers'[i] = timers[i + 1] /\ ~(i + 1 < 1)
      /\ timers[1].left = 0 /\ late' = late
  BY <1>1 DEF Expire
<1>3. \A i, j \in DOMAIN timers' : (j + 1 < i + 1 => j < i) /\ (Fresh(i + 1, j + 1) => Fresh(i, j)')
  <2> SUFFICES ASSUME NEW i \in DOMAIN timers', NEW j \in DOMAIN timers'
               PROVE  (j + 1 < i + 1 => j < i) /\ (Fresh(i + 1, j + 1) => Fresh(i, j)')
    OBVIOUS
  <2>1. i \in Nat /\ j \in Nat /\ timers'[i] = timers[i + 1] /\ timers'[j] = timers[j + 1]
    BY <1>2
  <2>2. j + 1 < i + 1 => j < i
    BY <2>1
  <2>3. Fresh(i + 1, j + 1) => Fresh(i, j)'
    BY <1>2, <2>1, Zenon DEF Fresh
  <2> QED
    BY <2>2, <2>3
<1>4. ASSUME Apart PROVE Apart'
  <2> SUFFICES ASSUME NEW i \in DOMAIN timers', NEW j \in DOMAIN timers',
                      timers'[i].who = "poll", timers'[j].who = "stop"
               PROVE  j < i \/ Fresh(i, j)'
    BY Zenon DEF Apart
  <2>1. /\ i + 1 \in DOMAIN timers /\ timers[i + 1].who = "poll"
        /\ j + 1 \in DOMAIN timers /\ timers[j + 1].who = "stop"
    BY <1>2, Zenon
  <2>2. j + 1 < i + 1 \/ Fresh(i + 1, j + 1)
    BY <1>4, <2>1, Zenon DEF Apart
  <2> QED
    BY <1>3, <2>2, Zenon
<1>5. ASSUME AllFresh PROVE AllFresh'
  <2> SUFFICES ASSUME NEW i \in DOMAIN timers', NEW j \in DOMAIN timers',
                      timers'[i].who = "poll", timers'[j].who = "stop"
               PROVE  Fresh(i, j)'
    BY Zenon DEF AllFresh
  <2>1. /\ i + 1 \in DOMAIN timers /\ timers[i + 1].who = "poll"
        /\ j + 1 \in DOMAIN timers /\ timers[j + 1].who = "stop"
    BY <1>2, Zenon
  <2>2. Fresh(i + 1, j + 1)
    BY <1>5, <2>1, Zenon DEF AllFresh
  <2> QED
    BY <1>3, <2>2, Zenon
<1>6. late \in 0 .. MaxLate /\ MaxLate \in Nat /\ CheckTime \in Nat /\ 2 * MaxLate < CheckTime
  BY Constants DEF KInv, TimersTyped, OnTime
<1>7. ASSUME timers[1].who = "poll", Apart PROVE AfterPoll'
  <2> SUFFICES ASSUME NEW j \in DOMAIN timers', timers'[j].who = "stop"
               PROVE  timers'[j].left >= CheckTime - MaxLate - late'
    BY Zenon DEF AfterPoll
  <2>1. /\ j + 1 \in DOMAIN timers /\ timers[j + 1].who = "stop" /\ timers'[j] = timers[j + 1]
        /\ ~(j + 1 < 1)
    BY <1>2, Zenon
  <2>2. Fresh(1, j + 1)
    BY <1>1, <1>7, <2>1, Zenon DEF Apart
  <2>3. timers[j + 1].left \in 0 .. StopTime
    BY <1>1, <2>1, WaitFields
  <2>4. timers[j + 1].left >= 0 + CheckTime - MaxLate - late
    BY <1>2, <2>2 DEF Fresh
  <2> QED
    BY <1>2, <1>6, <2>1, <2>3, <2>4
<1>8. ASSUME timers[1].who = "stop", AfterPoll PROVE FALSE
  <2>1. 0 >= CheckTime - MaxLate - late
    BY <1>1, <1>2, <1>8, Zenon DEF AfterPoll
  <2> QED
    BY <1>6, <2>1
<1>9. ASSUME timers[1].who = "stop", AllFresh, PollWaits PROVE FALSE
  <2>1. PICK i \in DOMAIN timers : timers[i].who = "poll"
    BY <1>9 DEF PollWaits
  <2>2. Fresh(i, 1)
    BY <1>1, <1>9, <2>1, Zenon DEF AllFresh
  <2>3. timers[i].left \in Nat
    BY <1>1, WaitFields
  <2>4. 0 >= timers[i].left + CheckTime - MaxLate - (IF timers[i].left = 0 THEN late ELSE 0)
    BY <1>2, <2>2 DEF Fresh
  <2> QED
    BY <1>6, <2>3, <2>4
<1> QED
  BY <1>4, <1>5, <1>7, <1>8, <1>9

\* The stop timer was started, or the poll timer set again.
LEMMA StartTimes ==
  ASSUME KInv, StartStopTimer, ~PollWaits
  PROVE  Apart' /\ AllFresh' /\ Renewed' /\ NearOrRenewed'
<1>1. ~PollWaits' /\ \A j \in DOMAIN timers' : timers'[j].left = StopTime
  BY StartLists
<1>2. late \in Nat /\ late' = late /\ StopTime \in Nat
  BY Constants DEF StartStopTimer, KInv, TimersTyped
<1>3. StopTime >= StopTime - late'
  BY <1>2
<1>4. Apart' /\ AllFresh'
  BY <1>1, Zenon DEF Apart, AllFresh, PollWaits
<1> QED
  BY <1>1, <1>3, <1>4, Zenon DEF Renewed, NearOrRenewed

LEMMA RearmTimes ==
  ASSUME KInv, OnTime, RearmPoll
  PROVE  (NearOrRenewed => Apart') /\ (Renewed => AllFresh')
<1>1. /\ \A i \in DOMAIN timers' : timers'[i].who = "poll" => timers'[i].left = CheckTime
      /\ \A j \in DOMAIN timers' : timers'[j].who = "stop"
           => \E i \in DOMAIN timers : timers[i] = timers'[j]
      /\ \A i, j \in DOMAIN timers' :
           timers'[i].who = "poll" /\ timers'[j].who = "stop" /\ timers'[j].left <= CheckTime
             => j < i
  BY RearmLists
<1>2. /\ late \in 0 .. MaxLate /\ MaxLate \in Nat /\ CheckTime \in Nat
      /\ 2 * MaxLate < CheckTime /\ late' = late /\ StopTime = 2 * CheckTime
  BY Constants DEF RearmPoll, KInv, TimersTyped, OnTime, StopTime
<1>3. ASSUME NEW i \in DOMAIN timers', NEW j \in DOMAIN timers',
             timers'[i].who = "poll", timers'[j].who = "stop", timers'[j].left >= StopTime - late
      PROVE  Fresh(i, j)'
  <2>1. timers'[i].left = CheckTime
    BY <1>1, <1>3
  <2>2. timers' \in Seq(Waits)
    BY NextStep DEF Next, IoStep, KInv, TimersTyped, Typed
  <2>3. timers'[j].left \in Nat
    BY <2>2, WaitFields
  <2>4. timers'[j].left >= CheckTime + CheckTime - MaxLate - 0 /\ CheckTime # 0
    BY <1>2, <1>3, <2>3
  <2> QED
    BY <2>1, <2>4 DEF Fresh
<1>4. ASSUME NearOrRenewed PROVE Apart'
  <2> SUFFICES ASSUME NEW i \in DOMAIN timers', NEW j \in DOMAIN timers',
                      timers'[i].who = "poll", timers'[j].who = "stop"
               PROVE  j < i \/ Fresh(i, j)'
    BY Zenon DEF Apart
  <2>1. PICK k \in DOMAIN timers : timers[k] = timers'[j]
    BY <1>1, Zenon
  <2>2. timers[k].left <= CheckTime \/ timers[k].left >= StopTime - late
    BY <1>4, <2>1, Zenon DEF NearOrRenewed
  <2> QED
    BY <1>1, <1>3, <2>1, <2>2, Zenon
<1>5. ASSUME Renewed PROVE AllFresh'
  <2> SUFFICES ASSUME NEW i \in DOMAIN timers', NEW j \in DOMAIN timers',
                      timers'[i].who = "poll", timers'[j].who = "stop"
               PROVE  Fresh(i, j)'
    BY Zenon DEF AllFresh
  <2>1. PICK k \in DOMAIN timers : timers[k] = timers'[j]
    BY <1>1, Zenon
  <2>2. timers[k].left >= StopTime - late
    BY <1>5, <2>1, Zenon DEF Renewed
  <2> QED
    BY <1>3, <2>1, <2>2, Zenon
<1> QED
  BY <1>4, <1>5

LEMMA HoldInit == Init => HoldInv
<1> SUFFICES ASSUME Init PROVE HoldInv
  OBVIOUS
<1>1. /\ timers = <<[who |-> "poll", left |-> CheckTime]>> /\ queued = <<>> /\ todo = <<>>
      /\ driving = FALSE
  BY DEF Init
<1>2. /\ \A i \in DOMAIN timers : timers[i].who # "stop"
      /\ \A i \in DOMAIN queued : FALSE
  BY <1>1
<1>3. Apart /\ ~PollQueued /\ StopQueuedFirst /\ ~Queued
  BY <1>2, Zenon DEF Apart, PollQueued, StopQueuedFirst, Queued
<1>4. Plan(todo) # RearmPlan
  BY <1>1, NoPlan
<1> QED
  BY <1>1, <1>3, <1>4 DEF HoldInv

\* A step of the person, of another client or of the car.
LEMMA HoldKept ==
  ASSUME HoldInv, UNCHANGED <<timers, queued, todo, late>>,
         driving' => driving /\ held' = held
  PROVE  HoldInv'
<1>1. UNCHANGED <<timers, queued>> /\ UNCHANGED <<timers, late>> /\ Plan(todo)' = Plan(todo)
  OBVIOUS
<1>2. /\ (PollQueued' <=> PollQueued) /\ (Queued' <=> Queued)
      /\ (StopQueuedFirst' <=> StopQueuedFirst)
      /\ (Apart' <=> Apart) /\ (AllFresh' <=> AllFresh) /\ (AfterPoll' <=> AfterPoll)
      /\ (Renewed' <=> Renewed) /\ (NearOrRenewed' <=> NearOrRenewed)
  BY <1>1, ListsKept, TimesKept
<1> QED
  BY <1>1, <1>2, Zenon DEF HoldInv, Polling

LEMMA HoldKeypad ==
  ASSUME KInv, HoldInv,
         (\E k \in Keys : Tap(k) \/ Hold(k)) \/ Release \/ OtherClient \/ StepsDone
  PROVE  HoldInv'
<1>1. UNCHANGED io
  BY Zenon DEF Tap, Hold, Release, OtherClient, StepsDone, io
<1>2. UNCHANGED <<timers, queued, todo, late>>
  BY <1>1 DEF io
<1>3. driving => held # NoKey
  BY ArrowsApart DEF HoldInv
<1>4. driving' => driving /\ held' = held
  <2>1. CASE \E k \in Keys : Tap(k) \/ Hold(k)
    <3>1. held = NoKey /\ driving' = driving
      BY <2>1 DEF Tap, Hold, history
    <3> QED
      BY <1>3, <3>1
  <2>2. CASE Release
    BY <2>2 DEF Release
  <2>3. CASE OtherClient \/ StepsDone
    BY <2>3 DEF OtherClient, StepsDone, keypad
  <2> QED
    BY <2>1, <2>2, <2>3
<1> QED
  BY <1>2, <1>4, HoldKept

LEMMA HoldTick == ASSUME OnTime, KInv, HoldInv, Tick PROVE HoldInv'
<1>1. todo' = todo /\ held' = held /\ driving' = driving
  BY DEF Tick, keypad, history
<1>2. Plan(todo)' = Plan(todo)
  BY <1>1
<1>3. (PollQueued' <=> PollQueued) /\ (Queued' <=> Queued) /\ (StopQueuedFirst' <=> StopQueuedFirst)
  BY TickLists
<1>4. /\ Apart => Apart'
      /\ AllFresh => AllFresh'
      /\ ~Idle => /\ AfterPoll => AfterPoll'
                  /\ Renewed => Renewed'
                  /\ NearOrRenewed => NearOrRenewed'
  BY TickTimes
<1>5. PollQueued => ~Idle
  BY DEF PollQueued, Idle
<1>6. Plan(todo) = RearmPlan => ~Idle
  BY NoPlan DEF Idle
<1> QED
  BY <1>1, <1>2, <1>3, <1>4, <1>5, <1>6, Zenon DEF HoldInv, Polling

\* What is queued is the poll: an io thread that is on time has set the stop timer
\* again before it is due, or the stop has come first.
LEMMA HoldExpire == ASSUME OnTime, KInv, CutInv, HoldInv, Expire PROVE HoldInv'
<1>1. /\ todo = <<>> /\ todo' = todo /\ held' = held /\ driving' = driving
      /\ timers[1].who \in {"poll", "stop"}
  BY ExpireWho DEF Expire, keypad, history
<1>2. /\ Plan(todo)' = Plan(todo) /\ ~Polling /\ ~Polling' /\ Plan(todo) # RearmPlan
      /\ Plan(todo)' # RearmPlan
  BY <1>1, NoPlan DEF Polling
<1>3. /\ PollQueued' <=> PollQueued \/ timers[1].who = "poll"
      /\ Queued' <=> Queued \/ timers[1].who = "stop"
      /\ ~PollQueued => StopQueuedFirst'
  BY ExpireQueue
<1>4. /\ (Apart => Apart') /\ (AllFresh => AllFresh')
      /\ timers[1].who = "poll" /\ Apart => AfterPoll'
      /\ timers[1].who = "stop" => ~AfterPoll /\ ~(AllFresh /\ PollWaits)
  BY ExpireTimes
<1>5. CASE timers[1].who = "poll"
  <2>1. PollWaits /\ timers[1].who # "stop"
    BY <1>5, ExpireWho
  <2>2. ~PollQueued
    BY <2>1 DEF CutInv, OnePoll
  <2> QED
    BY <1>1, <1>2, <1>3, <1>4, <1>5, <2>1, <2>2, Zenon DEF HoldInv
<1>6. CASE timers[1].who = "stop"
  <2>1. ~PollQueued
    BY <1>4, <1>6 DEF HoldInv
  <2>2. PollWaits
    BY <1>2, <2>1 DEF CutInv, OnePoll
  <2>3. ~driving
    BY <1>4, <1>6, <2>2 DEF HoldInv
  <2>4. ~PollQueued'
    BY <1>3, <1>6, <2>1
  <2> QED
    BY <1>1, <1>2, <1>3, <1>4, <2>1, <2>3, <2>4, Zenon DEF HoldInv
<1> QED
  BY <1>1, <1>5, <1>6

LEMMA HoldPoll == ASSUME KInv, CutInv, HoldInv, Poll PROVE HoldInv'
<1>1. /\ todo = <<>> /\ queued # <<>> /\ Head(queued) = "poll" /\ queued' = Tail(queued)
      /\ timers' = timers /\ late' = late /\ held' = held /\ driving' = driving
  BY DEF Poll, history
<1>2. /\ (Apart' <=> Apart) /\ (AllFresh' <=> AllFresh)
      /\ (Renewed' <=> Renewed) /\ (NearOrRenewed' <=> NearOrRenewed)
  BY <1>1, TimesKept
<1>3. /\ StopQueuedFirst' /\ PollQueued /\ ~PollQueued' /\ ~Queued /\ ~Queued'
  BY <1>1, DequeueFacts DEF CutInv, OnePoll, HoldInv
<1>4. WithinPoll
  BY <1>3 DEF CutInv, Near
<1>5. NearOrRenewed
  BY <1>4, Zenon DEF WithinPoll, NearOrRenewed
<1>6. ASSUME driving PROVE Plan(todo)' = <<"ask", "key", "rearm">>
  <2>1. held \in Arrows
    BY <1>6 DEF HoldInv
  <2>2. First(held) # NoKey
    BY <2>1, ArrowsApart DEF First
  <2>3. todo' = <<Ask, Key(First(held)), Rearm>>
    BY <2>2, Zenon DEF Poll
  <2>4. Plan(todo') = <<Ask.do, Key(First(held)).do, Rearm.do>>
    BY <2>3, Plan3, Zenon
  <2> QED
    BY <2>4, StepKinds, Zenon
<1>7. <<"ask", "key", "rearm">> \in Keyed
  BY DEF Keyed
<1>8. driving => Plan(todo)' \notin Dull /\ Plan(todo)' # RearmPlan
  BY <1>6, <1>7, PlanSets
<1> QED
  BY <1>1, <1>2, <1>3, <1>5, <1>8, Zenon DEF HoldInv

LEMMA HoldStopTimer == ASSUME KInv, CutInv, HoldInv, StopTimer PROVE HoldInv' /\ ~driving
<1>1. /\ todo = <<>> /\ queued # <<>> /\ Head(queued) = "stop" /\ queued' = Tail(queued)
      /\ timers' = timers /\ late' = late /\ driving' = driving /\ todo' = <<StopAll>>
  BY DEF StopTimer, history
<1>2. (Apart' <=> Apart) /\ (AfterPoll' <=> AfterPoll)
  BY <1>1, TimesKept
<1>3. StopQueuedFirst' /\ Queued /\ (PollQueued' <=> PollQueued)
  BY <1>1, DequeueFacts DEF CutInv, OnePoll, HoldInv
<1>4. Plan(todo)' = StopPlan
  <2>1. Plan(<<StopAll>>) = StopPlan
    BY PlainPlans DEF StopPlan
  <2> QED
    BY <1>1, <2>1
<1>5. Plan(todo)' # RearmPlan /\ Plan(todo)' \notin Polls
  BY <1>4, PlanSets
<1>6. ~driving
  BY <1>3 DEF HoldInv
<1> QED
  BY <1>1, <1>2, <1>3, <1>5, <1>6, Zenon DEF HoldInv, Polling

\* A step of a poll's completion that leaves more of it to do.
LEMMA HoldGoesOn ==
  ASSUME CutInv, HoldInv, UNCHANGED <<timers, queued, late>>, held' = held,
         Polling, Plan(todo) # RearmPlan,
         driving' => driving /\ Plan(todo)' \notin Dull /\ Plan(todo)' # RearmPlan
  PROVE  HoldInv'
<1>1. UNCHANGED <<timers, queued>> /\ UNCHANGED <<timers, late>>
  OBVIOUS
<1>2. /\ (PollQueued' <=> PollQueued) /\ (Queued' <=> Queued)
      /\ (StopQueuedFirst' <=> StopQueuedFirst)
      /\ (Apart' <=> Apart) /\ (AllFresh' <=> AllFresh) /\ (AfterPoll' <=> AfterPoll)
      /\ (Renewed' <=> Renewed) /\ (NearOrRenewed' <=> NearOrRenewed)
  BY <1>1, ListsKept, TimesKept
<1>3. WithinPoll
  BY DEF CutInv, Near
<1>4. NearOrRenewed /\ ~Queued
  BY <1>3, Zenon DEF WithinPoll, NearOrRenewed, HoldInv
<1> QED
  BY <1>2, <1>4, Zenon DEF HoldInv

LEMMA HoldAsk == ASSUME KInv, CutInv, HoldInv, AskMotorNum PROVE HoldInv'
<1>1. /\ todo # <<>> /\ Head(todo).do = "ask" /\ todo' = Tail(todo)
      /\ UNCHANGED <<timers, queued, late>> /\ held' = held /\ driving' = driving
  BY DEF AskMotorNum, history, keypad
<1> DEFINE p == Plan(todo)
           q == Tail(p)
<1>2. p \in Plans /\ p # <<>> /\ Head(p) = "ask" /\ Plan(todo)' = q
  BY <1>1, NextPlan DEF CutInv
<1> HIDE DEF p
<1>3. p \in Polls /\ p # RearmPlan /\ (p \notin Dull => q \in Keyed)
  BY <1>2, PlanSteps
<1> HIDE DEF q
<1>4. driving => q \notin Dull /\ q # RearmPlan
  BY <1>3, PlanSets DEF HoldInv, p
<1> QED
  BY <1>1, <1>2, <1>3, <1>4, HoldGoesOn DEF Polling, p

\* An arrow is never ignored, and an arrow that is held goes on to drive.
LEMMA HoldKey == ASSUME KInv, CutInv, HoldInv, HandleKeyPress PROVE HoldInv'
<1> DEFINE k == Head(todo).n
           p == Plan(todo)
<1>1. /\ todo # <<>> /\ Head(todo).do = "key"
      /\ UNCHANGED <<timers, queued, late>> /\ held' = held
      /\ driving' = (driving /\ k = held)
  BY DEF HandleKeyPress, keypad
<1>2. p \in Plans /\ p # <<>> /\ Head(p) = "key" /\ Plan(Tail(todo)) = Tail(p)
  BY <1>1, NextPlan DEF CutInv
<1>3. p \in Keyed /\ Tail(p) = RearmPlan
  BY <1>2, PlanSteps
<1>4. Tail(todo) \in Seq(StepSet) /\ Plan(Tail(todo)) = RearmPlan
  BY <1>1, <1>2, <1>3, TodoFacts
<1>5. input \in Nat /\ motorNum \in Nat
  BY RemoteAssumption DEF KInv, StaticsTyped, KeypadTyped
<1>6. p # RearmPlan /\ p \in Polls
  BY <1>3, PlanSets
<1>7. ASSUME driving' PROVE driving /\ Plan(todo)' \notin Dull /\ Plan(todo)' # RearmPlan
  <2>1. driving /\ k \in Arrows
    BY <1>1, <1>7 DEF HoldInv
  <2>2. ~Ignored(k)
    BY <2>1, ArrowsApart DEF Ignored
  <2>3. todo' = Handle(k).calls \o Tail(todo)
    BY <2>2, Zenon DEF HandleKeyPress
  <2> DEFINE u == Tail(todo)
             r == Plan(Handle(k).calls \o u)
  <2>4. u \in Seq(StepSet) /\ Plan(u) = RearmPlan
    BY <1>4
  <2> HIDE DEF k, u, StepSet
  <2>5. r \in Timed \cup {StepsPlan}
    BY <1>5, <2>1, <2>4, KeyPlans
  <2>6. Plan(todo)' = r
    BY <2>3 DEF u
  <2> HIDE DEF r
  <2> QED
    BY <2>1, <2>5, <2>6, PlanSets
<1> QED
  BY <1>1, <1>6, <1>7, HoldGoesOn DEF Polling

LEMMA HoldCall == ASSUME KInv, CutInv, HoldInv, Call PROVE HoldInv'
<1> DEFINE p == Plan(todo)
           q == Tail(p)
           do == Head(todo).do
<1>1. /\ todo # <<>> /\ do \in Calls /\ todo' = Tail(todo)
      /\ UNCHANGED <<timers, queued, late>> /\ held' = held
      /\ driving' = (driving /\ do # "steps")
  BY DEF Call, Remember, keypad
<1>2. p \in Plans /\ p # <<>> /\ Head(p) = do /\ Plan(todo)' = q
  BY <1>1, NextPlan DEF CutInv
<1> HIDE DEF p, do
<1>3. /\ p # RearmPlan
      /\ (p \in Polls /\ q \in Polls) \/ (p = StopPlan /\ q = <<>>)
      /\ p \notin Dull /\ do # "steps" => q \in Timed
  BY <1>1, <1>2, PlanSteps
<1> HIDE DEF q
<1>4. driving' => driving /\ q \in Timed
  BY <1>1, <1>3 DEF HoldInv, p
<1>5. driving' => driving /\ Plan(todo)' \notin Dull /\ Plan(todo)' # RearmPlan
  BY <1>2, <1>4, PlanSets
<1>6. CASE p \in Polls
  BY <1>1, <1>3, <1>5, <1>6, HoldGoesOn DEF Polling, p
<1>7. CASE p = StopPlan /\ q = <<>>
  <2>1. Plan(todo)' # RearmPlan /\ Plan(todo)' \notin Polls /\ Plan(todo)' \notin Timed
    BY <1>2, <1>7, PlanSets
  <2>2. ~driving'
    BY <1>2, <1>4, <2>1
  <2>3. (PollQueued' <=> PollQueued) /\ (StopQueuedFirst' <=> StopQueuedFirst)
    BY <1>1, ListsKept
  <2>4. (Apart' <=> Apart) /\ (AfterPoll' <=> AfterPoll)
    BY <1>1, TimesKept
  <2> QED
    BY <2>1, <2>2, <2>3, <2>4, Zenon DEF HoldInv, Polling
<1> QED
  BY <1>3, <1>6, <1>7

LEMMA HoldStart == ASSUME KInv, CutInv, HoldInv, StartStopTimer PROVE HoldInv'
<1> DEFINE p == Plan(todo)
<1>1. /\ todo # <<>> /\ Head(todo).do = "start" /\ todo' = Tail(todo)
      /\ queued' = queued /\ held' = held /\ (driving' => held \in Arrows)
  BY DEF StartStopTimer, keypad
<1>2. p \in Plans /\ p # <<>> /\ Head(p) = "start" /\ Plan(todo)' = Tail(p)
  BY <1>1, NextPlan DEF CutInv
<1>3. p \in Moved /\ Plan(todo)' = RearmPlan
  BY <1>2, PlanSteps
<1>4. p \in Polls /\ Plan(todo)' \notin Dull
  BY <1>3, PlanSets
<1>5. ~PollWaits /\ ~PollQueued /\ ~Queued
  BY <1>4 DEF CutInv, OnePoll, HoldInv, Polling
<1>6. ~PollQueued' /\ ~Queued' /\ StopQueuedFirst'
  BY <1>1, <1>5, Zenon DEF PollQueued, Queued, StopQueuedFirst
<1>7. Apart' /\ AllFresh' /\ Renewed' /\ NearOrRenewed'
  BY <1>5, StartTimes
<1> QED
  BY <1>1, <1>4, <1>6, <1>7, Zenon DEF HoldInv

LEMMA HoldRearm == ASSUME OnTime, KInv, CutInv, HoldInv, RearmPoll PROVE HoldInv'
<1> DEFINE p == Plan(todo)
<1>1. /\ todo # <<>> /\ Head(todo).do = "rearm" /\ todo' = Tail(todo)
      /\ queued' = queued /\ held' = held /\ driving' = driving
  BY DEF RearmPoll, history, keypad
<1>2. p \in Plans /\ p # <<>> /\ Head(p) = "rearm" /\ Plan(todo)' = Tail(p)
  BY <1>1, NextPlan DEF CutInv
<1>3. p = RearmPlan /\ Plan(todo)' = <<>>
  BY <1>2, PlanSteps
<1>4. p \in Polls /\ Plan(todo)' \notin Polls /\ Plan(todo)' \notin Dull /\ Plan(todo)' # RearmPlan
  BY <1>3, PlanSets
<1>5. ~PollQueued /\ ~Queued
  BY <1>4 DEF CutInv, OnePoll, HoldInv, Polling
<1>6. ~PollQueued' /\ ~Queued' /\ StopQueuedFirst'
  BY <1>1, <1>5, Zenon DEF PollQueued, Queued, StopQueuedFirst
<1>7. (NearOrRenewed => Apart') /\ (Renewed => AllFresh')
  BY RearmTimes
<1> QED
  BY <1>1, <1>3, <1>4, <1>6, <1>7, Zenon DEF HoldInv

LEMMA HoldStep == ASSUME OnTime, KInv, CutInv, HoldInv, [Next]_vars PROVE HoldInv'
<1>1. CASE (\E k \in Keys : Tap(k) \/ Hold(k)) \/ Release \/ OtherClient \/ StepsDone
  BY <1>1, HoldKeypad
<1>2. CASE Tick \/ Expire
  BY <1>2, HoldTick, HoldExpire
<1>3. CASE IoStep
  BY <1>3, HoldPoll, HoldStopTimer, HoldAsk, HoldKey, HoldCall, HoldStart, HoldRearm, Zenon
     DEF IoStep
<1>4. CASE UNCHANGED vars
  <2>1. UNCHANGED <<timers, queued, todo, late>> /\ driving' = driving /\ held' = held
    BY <1>4, Zenon DEF vars
  <2> QED
    BY <2>1, HoldKept
<1> QED
  BY <1>1, <1>2, <1>3, <1>4, Zenon DEF Next

(* As long as the arrow that moves the car is held, the stop timer does not  *)
(* stop it, for any poll time, when the io thread is late by less than half  *)
(* of one: every poll starts the timer of two polls again before it is due   *)
(* (timerCallback, handleKeyPress and k_stopTime of remote_key.cpp).         *)
THEOREM HeldKeysMove ==
  ASSUME OnTime
  PROVE  Spec => HeldKeyMoves
<1>1. Init => HoldInv
  BY HoldInit
<1>2. KInv /\ CutInv /\ HoldInv /\ [Next]_vars => HoldInv'
  BY HoldStep
<1>3. KInv /\ CutInv /\ HoldInv => [~(StopTimer /\ driving)]_vars
  BY HoldStopTimer
<1> QED
  BY <1>1, <1>2, <1>3, CutInductive, PTL DEF Spec, HeldKeyMoves
=============================================================================
