------------------------- MODULE CarClients_proofs -------------------------
(***************************************************************************)
(* Proofs about CarClients: the handlers use the path of RpcClient as its  *)
(* specification allows, and so inherit what RemoteCall promises.          *)
(***************************************************************************)
EXTENDS CarClients, RpcClient_proofs

Promised == INSTANCE RemoteCall_proofs

-----------------------------------------------------------------------------
(* The handlers call functions the client has. *)

HandlersTyped ==
  /\ todo \in Seq(Funcs)
  /\ motorNum \in Nat
  /\ asked => handler \in AllHandlers /\ Asks(handler)

LEMMA EachIsSequence ==
  ASSUME NEW n \in Nat, NEW fs \in Seq(Funcs), Len(fs) \in 1 .. 4
  PROVE  Each(n, fs) \in Seq(Funcs)
<1>1. n * Len(fs) \in Nat  BY Z3
<1>2. \A k \in 1 .. n * Len(fs) : fs[((k - 1) % Len(fs)) + 1] \in Funcs
  <2> SUFFICES ASSUME NEW k \in 1 .. n * Len(fs) PROVE fs[((k - 1) % Len(fs)) + 1] \in Funcs
    OBVIOUS
  <2>1. k - 1 \in Nat  BY <1>1
  <2>2. (k - 1) % Len(fs) \in 0 .. Len(fs) - 1  BY <2>1
  <2> QED  BY <2>2
<1>3. /\ Each(n, fs) = [k \in 1 .. n * Len(fs) |-> Each(n, fs)[k]]
      /\ \A k \in 1 .. n * Len(fs) : Each(n, fs)[k] \in Funcs
  BY <1>2 DEF Each
<1> QED  BY <1>1, <1>3, IsSequence

LEMMA NamesAreFuncs == ServiceFuncs \subseteq Funcs
BY ClientsAssumption

LEMMA FirstTyped == ASSUME HandlersTyped, NEW h \in AllHandlers PROVE First(h) \in Seq(Funcs)
BY NamesAreFuncs DEF HandlersTyped, First, AllHandlers, MenuItems, WebRequests, RemoteEvents,
   StopHandlers, ServiceFuncs, ServerFuncs

LEMMA RestTyped ==
  ASSUME NEW h \in AllHandlers, Asks(h), NEW n \in Nat
  PROVE  \A s \in Rest(h, n) : s \in Seq(Funcs)
<1>1. {"getActualSpeed", "getActualSteps", "getMotorPwm", "getCtrlSteps", "setMotorPwm",
       "setCtrlSteps", "setCarSteps", "setCarMoving", "setMotorSpeedLevel",
       "setAllMotorState", "setSteerTurn"} \subseteq Funcs
  BY NamesAreFuncs DEF ServiceFuncs, ServerFuncs
<1>2. /\ Each(n, <<"getActualSpeed", "getActualSteps", "getMotorPwm">>) \in Seq(Funcs)
      /\ Each(n, <<"getActualSpeed", "getMotorPwm", "getCtrlSteps", "getActualSteps">>) \in Seq(Funcs)
      /\ Each(n, <<"getActualSteps", "getCtrlSteps">>) \in Seq(Funcs)
      /\ \A k \in Nat : Each(k, <<"setMotorPwm">>) \in Seq(Funcs)
  <2> DEFINE a == <<"getActualSpeed", "getActualSteps", "getMotorPwm">>
             b == <<"getActualSpeed", "getMotorPwm", "getCtrlSteps", "getActualSteps">>
             c == <<"getActualSteps", "getCtrlSteps">>
             d == <<"setMotorPwm">>
  <2>1. a \in Seq(Funcs) /\ b \in Seq(Funcs) /\ c \in Seq(Funcs) /\ d \in Seq(Funcs)
    BY <1>1
  <2>2. Len(a) \in 1 .. 4 /\ Len(b) \in 1 .. 4 /\ Len(c) \in 1 .. 4 /\ Len(d) \in 1 .. 4  OBVIOUS
  <2> HIDE DEF a, b, c, d
  <2>3. /\ Each(n, a) \in Seq(Funcs) /\ Each(n, b) \in Seq(Funcs) /\ Each(n, c) \in Seq(Funcs)
        /\ \A k \in Nat : Each(k, d) \in Seq(Funcs)
    BY <2>1, <2>2, EachIsSequence, Zenon
  <2> QED  BY <2>3 DEF a, b, c, d
<1>3. /\ <<>> \in Seq(Funcs)
      /\ <<"setCtrlSteps">> \in Seq(Funcs) /\ <<"setCarSteps">> \in Seq(Funcs)
      /\ <<"setCarMoving">> \in Seq(Funcs) /\ <<"setMotorSpeedLevel">> \in Seq(Funcs)
      /\ <<"setAllMotorState">> \in Seq(Funcs)
      /\ <<"setCarMoving", "setSteerTurn">> \in Seq(Funcs)
  BY <1>1
<1> QED  BY <1>2, <1>3 DEF Rest, Asks, KeyCalls

LEMMA HandlersInit == ASSUME ClientsInit PROVE HandlersTyped
<1>1. <<>> \in Seq(Funcs)  OBVIOUS
<1> QED  BY <1>1 DEF ClientsInit, HandlersTyped

LEMMA HandlersStep == ASSUME HandlersTyped, [ClientsNext]_cvars PROVE HandlersTyped'
<1>1. CASE UNCHANGED interface
  BY <1>1 DEF interface, HandlersTyped
<1>2. ASSUME NEW h \in Handlers, Begin(h) PROVE HandlersTyped'
  <2>1. h \in AllHandlers  BY ClientsAssumption
  <2> QED  BY <1>2, <2>1, FirstTyped DEF Begin, HandlersTyped
<1>3. CASE NextCall
  <2>1. Tail(todo) \in Seq(Funcs)  BY <1>3, TailFacts DEF NextCall, HandlersTyped
  <2> QED  BY <1>3, <2>1 DEF NextCall, HandlersTyped
<1>4. CASE Decide
  <2> DEFINE n == IF handler = "key" /\ motorNum # 0 THEN motorNum ELSE Answer
  <2>1. Answer \in Nat  BY ClientsAssumption DEF Answer
  <2>2. n \in Nat  BY <2>1 DEF HandlersTyped
  <2>3. /\ todo' \in Rest(handler, n) /\ asked' = FALSE /\ asked
        /\ motorNum' = IF handler = "key" THEN n ELSE motorNum
    BY <1>4 DEF Decide
  <2>4. todo' \in Seq(Funcs)  BY <2>2, <2>3, RestTyped DEF HandlersTyped
  <2> HIDE DEF n
  <2> QED  BY <2>2, <2>3, <2>4 DEF HandlersTyped
<1>5. CASE Return \/ Exit
  BY <1>5 DEF Return, Exit, HandlersTyped, Asks
<1> QED  BY <1>1, <1>2, <1>3, <1>4, <1>5 DEF ClientsNext, cvars

LEMMA HandlersUsePath == ASSUME HandlersTyped, [ClientsNext]_cvars PROVE [Next]_vars
<1>1. CASE NextCall
  <2>1. Head(todo) \in Funcs  BY <1>1, TailFacts DEF NextCall, HandlersTyped
  <2> QED  BY <1>1, <2>1 DEF NextCall, Next
<1>2. CASE \/ RpcConnect \/ Internal \/ Exit
  BY <1>2 DEF Exit, Next
<1>3. CASE \/ \E h \in Handlers : Begin(h)
           \/ Decide \/ Return \/ UNCHANGED cvars
  BY <1>3 DEF Begin, Decide, Return, cvars
<1> QED  BY <1>1, <1>2, <1>3 DEF ClientsNext

-----------------------------------------------------------------------------
\* What holds of the path holds of the interfaces that use it.
LEMMA ClientsUsePath == ClientsSpec => Spec
<1>1. ClientsInit => Init  BY DEF ClientsInit
<1> QED  BY <1>1, HandlersInit, HandlersStep, HandlersUsePath, PTL DEF ClientsSpec, Spec

LEMMA PathKeepsPromise == Spec => []Promised!Promise
BY PathImplementsRemoteCall, Promised!PromiseKept, PTL
DEF ImplementsRemoteCall, Abstract!Spec, Promised!Spec, Abstract!Init, Promised!Init,
    Abstract!Next, Promised!Next, Abstract!vars, Promised!vars, Abstract!Issue, Promised!Issue,
    Abstract!Execute, Promised!Execute, Abstract!Return, Promised!Return,
    Abstract!Idle, Promised!Idle

LEMMA PromiseStops == ASSUME TypeOK, Promised!Promise PROVE StopHolds
<1> SUFFICES ASSUME NEW i \in DOMAIN calls,
                    calls[i].func = "setAllMotorState", calls[i].res = "ok",
                    \A j \in i + 1 .. Last : calls[j].func \notin Movers,
                    NEW k \in DOMAIN done, calls[done[k]].func \in Movers,
                    \A l \in k + 1 .. Len(done) : calls[done[l]].func # "setAllMotorState"
             PROVE  FALSE
  BY DEF StopHolds, Moving
<1>1. /\ DOMAIN calls = 1 .. Last /\ Last \in Nat
      /\ DOMAIN done = 1 .. Len(done) /\ Len(done) \in Nat
      /\ \A l \in DOMAIN done : done[l] \in 1 .. Last
  BY ElementOf DEF TypeOK, Last
<1>2. PICK m \in DOMAIN done : done[m] = i  BY DEF Promised!Promise
<1>3. done[k] # i  BY DEF Movers
<1>4. ~(done[k] > i)  BY <1>1
<1>5. done[k] < done[m]  BY <1>1, <1>2, <1>3, <1>4
<1>6. k < m
  <2>1. \A a, b \in DOMAIN done : a < b => done[a] < done[b]  BY DEF Promised!Promise
  <2> QED  BY <1>1, <1>5, <2>1
<1>7. m \in k + 1 .. Len(done)  BY <1>1, <1>6
<1> QED  BY <1>2, <1>7

\* For any controller, any motors and any handlers: once a stop was answered, no movement
\* that was asked for before it starts any more.
THEOREM StopsHold == ClientsSpec => []StopHolds
BY ClientsUsePath, TypesHold, PathKeepsPromise, PromiseStops, PTL

(* Whatever handlers run, the path they share keeps its types, every call that is *)
(* outstanding has an end, and every failure has its cause (rpc_client.cpp and the *)
(* client of coro_rpc).                                                            *)
THEOREM ClientsKeepPath == ClientsSpec => [](TypeOK /\ WaitHasEnd /\ FailureHasCause)
BY ClientsUsePath, TypesHold, WaitsHaveEnds, FailuresHaveCauses, PTL

(* The interfaces see of the controller what the abstract remote call promises:    *)
(* every step of a handler, the client, the network or the server is one of its    *)
(* steps or none.                                                                  *)
THEOREM ClientsImplementRemoteCall == ClientsSpec => ImplementsRemoteCall
BY ClientsUsePath, PathImplementsRemoteCall, PTL
=============================================================================
