------------------------- MODULE RemoteCall_proofs -------------------------
(***************************************************************************)
(* Proofs about RemoteCall: what its actions promise of every behaviour.   *)
(***************************************************************************)
EXTENDS RemoteCall, TLAPS

Results == {"pending", "ok", "failed", "refused"}

\* The types, without those of the functions.
Typed ==
  /\ Len(calls) \in Nat /\ DOMAIN calls = 1 .. Len(calls)
  /\ calls # <<>> => Len(calls) \in DOMAIN calls
  /\ Len(done) \in Nat /\ DOMAIN done = 1 .. Len(done)
  /\ calls \in Seq([func : Funcs, res : Results])
  /\ done \in Seq(DOMAIN calls)

LEMMA Domains ==
  ASSUME NEW S, NEW s \in Seq(S)
  PROVE  /\ Len(s) \in Nat /\ DOMAIN s = 1 .. Len(s)
         /\ s # <<>> => Len(s) \in DOMAIN s
         /\ \A k \in DOMAIN s : s[k] \in S
OBVIOUS

LEMMA Appended ==
  ASSUME NEW S, NEW s \in Seq(S), NEW e \in S
  PROVE  /\ Append(s, e) \in Seq(S)
         /\ Len(Append(s, e)) = Len(s) + 1
         /\ DOMAIN Append(s, e) = 1 .. Len(s) + 1
         /\ \A k \in 1 .. Len(s) : Append(s, e)[k] = s[k]
         /\ Append(s, e)[Len(s) + 1] = e
OBVIOUS

LEMMA Wider ==
  ASSUME NEW S, NEW T, S \subseteq T, NEW s \in Seq(S)
  PROVE  s \in Seq(T)
<1>1. /\ Len(s) \in Nat /\ s = [k \in 1 .. Len(s) |-> s[k]]
      /\ \A k \in 1 .. Len(s) : s[k] \in T
  OBVIOUS
<1> QED  BY <1>1

Inv == Typed /\ Promise

LEMMA IssueStep == ASSUME Inv, NEW f \in Funcs, Issue(f) PROVE Inv'
<1> DEFINE C == [func : Funcs, res : Results]
<1>1. PICK res \in {"pending", "refused"} : calls' = Append(calls, [func |-> f, res |-> res])
  BY DEF Issue
<1> DEFINE c == [func |-> f, res |-> res]
<1>2. calls \in Seq(C) /\ c \in C /\ done' = done /\ done \in Seq(DOMAIN calls)
  BY DEF Inv, Typed, Results, Issue
<1>3. /\ calls' \in Seq(C) /\ Len(calls') = Len(calls) + 1
      /\ DOMAIN calls' = 1 .. Len(calls) + 1
      /\ \A k \in 1 .. Len(calls) : calls'[k] = calls[k]
      /\ calls'[Len(calls) + 1] = c
  <2> HIDE DEF C, c
  <2> QED  BY <1>1, <1>2, Appended DEF c
<1>4. Len(calls) \in Nat /\ DOMAIN calls = 1 .. Len(calls)  BY DEF Inv, Typed
<1>5. DOMAIN calls \subseteq DOMAIN calls'  BY <1>3, <1>4
<1>6. done' \in Seq(DOMAIN calls')  BY <1>2, <1>5, Wider, Zenon
<1>7. \A k \in DOMAIN done : done[k] \in DOMAIN calls  BY <1>2, Domains
<1>8. Typed'
  <2> HIDE DEF C
  <2>1. /\ Len(calls') \in Nat /\ DOMAIN calls' = 1 .. Len(calls')
        /\ calls' # <<>> => Len(calls') \in DOMAIN calls'
    BY <1>3, Domains
  <2> QED  BY <1>2, <1>3, <1>6, <2>1 DEF Inv, Typed, C
<1>9. Promise'
  <2>1. \A i \in DOMAIN calls' : calls'[i].res = "ok" => \E k \in DOMAIN done : done[k] = i
    <3>1. \A i \in DOMAIN calls' : i \in DOMAIN calls \/ i = Len(calls) + 1  BY <1>3, <1>4
    <3> QED  BY <1>3, <1>4, <3>1 DEF Inv, Promise
  <2> QED  BY <1>2, <1>3, <1>4, <1>7, <2>1 DEF Inv, Promise
<1> QED  BY <1>8, <1>9 DEF Inv

LEMMA ExecuteStep == ASSUME Inv, NEW i \in DOMAIN calls, Execute(i) PROVE Inv'
<1>1. calls' = calls /\ done' = Append(done, i) /\ done \in Seq(DOMAIN calls)
  BY DEF Execute, Inv, Typed
<1>2. /\ done' \in Seq(DOMAIN calls') /\ Len(done') = Len(done) + 1
      /\ DOMAIN done' = 1 .. Len(done) + 1
      /\ \A k \in 1 .. Len(done) : done'[k] = done[k]
      /\ done'[Len(done) + 1] = i
  BY <1>1, Appended
<1>3. Len(done) \in Nat /\ DOMAIN done = 1 .. Len(done)  BY DEF Inv, Typed
<1>4. Typed'  BY <1>1, <1>2, <1>3 DEF Inv, Typed
<1>5. \A k \in DOMAIN done' : k \in 1 .. Len(done) \/ k = Len(done) + 1  BY <1>2, <1>3
<1>6. \A k \in DOMAIN done : done[k] < i  BY DEF Execute
<1>7. Promise'
  <2>1. \A k, l \in DOMAIN done' : k < l => done'[k] < done'[l]
    BY <1>2, <1>3, <1>5, <1>6 DEF Inv, Promise
  <2>2. \A j \in DOMAIN calls' : calls'[j].res = "ok" => \E k \in DOMAIN done' : done'[k] = j
    <3>1. \A k \in DOMAIN done : k \in DOMAIN done' /\ done'[k] = done[k]  BY <1>2, <1>3
    <3> QED  BY <1>1, <3>1 DEF Inv, Promise
  <2>3. \A k \in DOMAIN done' : calls'[done'[k]].res # "refused"
    BY <1>1, <1>2, <1>3, <1>5 DEF Inv, Promise, Execute
  <2> QED  BY <2>1, <2>2, <2>3 DEF Promise
<1> QED  BY <1>4, <1>7 DEF Inv

LEMMA ReturnStep == ASSUME Inv, Return PROVE Inv'
<1> DEFINE n == Len(calls)
           C == [func : Funcs, res : Results]
<1>1. PICK res \in {"ok", "failed"} :
        /\ res = "ok" => \E k \in DOMAIN done : done[k] = n
        /\ calls' = [calls EXCEPT ![n].res = res]
        /\ done' = done
  BY DEF Return
<1>2. n \in DOMAIN calls /\ calls[n].res = "pending"
  BY DEF Return, Idle, Inv, Typed
<1>3. calls \in Seq(C) /\ DOMAIN calls = 1 .. n /\ n \in Nat  BY DEF Inv, Typed
<1>4. \A k \in DOMAIN calls : calls[k] \in C
  <2> HIDE DEF C
  <2> QED  BY <1>3, Domains
<1>5. DOMAIN calls' = DOMAIN calls /\ \A k \in DOMAIN calls : calls'[k] \in C
  BY <1>1, <1>4 DEF Results
<1>6. calls' \in Seq(C) /\ Len(calls') = n
  <2>1. calls' = [k \in 1 .. n |-> calls'[k]]  BY <1>1, <1>3, <1>5
  <2> HIDE DEF C
  <2> QED  BY <1>3, <1>5, <2>1
<1>7. Typed'  BY <1>1, <1>2, <1>5, <1>6 DEF Inv, Typed
<1>8. /\ calls'[n].res = res
      /\ \A k \in DOMAIN calls : k # n => calls'[k] = calls[k]
  BY <1>1, <1>2, <1>4
<1>9. Promise'  BY <1>1, <1>5, <1>8 DEF Inv, Promise
<1> QED  BY <1>7, <1>9 DEF Inv

\* Whatever implements RemoteCall keeps the promise.
THEOREM PromiseKept == Spec => []Promise
<1>1. Init => Inv
  <2>1. <<>> \in Seq([func : Funcs, res : Results]) /\ <<>> \in Seq({})
    <3> DEFINE C == [func : Funcs, res : Results]
    <3> HIDE DEF C
    <3>1. <<>> \in Seq(C) /\ <<>> \in Seq({})  OBVIOUS
    <3> QED  BY <3>1 DEF C
  <2> SUFFICES ASSUME Init PROVE Inv
    OBVIOUS
  <2>2. DOMAIN calls = {} /\ DOMAIN done = {} /\ Len(calls) = 0 /\ Len(done) = 0
    BY DEF Init
  <2>3. Typed  BY <2>1, <2>2 DEF Init, Typed
  <2> QED  BY <2>2, <2>3 DEF Inv, Promise
<1>2. Inv /\ [Next]_vars => Inv'
  <2> SUFFICES ASSUME Inv, [Next]_vars PROVE Inv'
    OBVIOUS
  <2>1. CASE UNCHANGED vars  BY <2>1 DEF vars, Inv, Typed, Promise
  <2> QED  BY <2>1, IssueStep, ExecuteStep, ReturnStep DEF Next
<1>3. Inv => Promise  BY DEF Inv
<1> QED  BY <1>1, <1>2, <1>3, PTL DEF Spec
=============================================================================
