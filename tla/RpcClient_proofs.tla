-------------------------- MODULE RpcClient_proofs --------------------------
(***************************************************************************)
(* Proofs about RpcClient, for every set of functions, every registration  *)
(* and any number of calls.                                                *)
(***************************************************************************)
EXTENDS RpcClient, TLAPS

-----------------------------------------------------------------------------
(* The inductive invariants. *)

\* A call that is being written has been made, and its timer runs, or has expired and
\* will close the socket, or the socket is closed.
Calling ==
  /\ caller \in {"start", "connect"} => calls = <<>>
  /\ caller = "write" =>
       /\ Last \in DOMAIN calls /\ calls[Last].res = "pending"
       /\ Last \in armed \cup expired \/ socket = "closed"

\* Requests are read in the order of the calls, each once, after those that were executed;
\* a good answer is to an executed request.
Ordered ==
  /\ \A k, l \in DOMAIN requests : k < l => requests[k] < requests[l]
  /\ \A k \in DOMAIN done, l \in DOMAIN requests : done[k] < requests[l]
  /\ \A l \in DOMAIN requests : calls[requests[l]].res # "refused"
  /\ \A k \in DOMAIN responses : responses[k].ok =>
       \E l \in DOMAIN done : done[l] = responses[k].id

IInv == TypeOK /\ WaitHasEnd /\ Calling /\ Ordered

Cause == broken \/ \E j \in DOMAIN calls : calls[j].func \notin Registered

\* The states of the socket that go with those of the io thread.
Sockets ==
  /\ socket = "closed" => hasClosed
  /\ socket = "new" => caller = "start"
  /\ socket = "connecting" => caller = "connect"

\* A running timer is of a call that waits; only unknown functions are turned down.
InUse ==
  /\ \A t \in armed : Waits(t)
  /\ \A k \in DOMAIN responses :
       ~responses[k].ok => calls[responses[k].id].func \notin Registered

\* Without a cause for failure the client is open, and only the call that waits is on the way.
InFlight ==
  ~Cause =>
    /\ expired = {} /\ socket \notin {"lost", "unconnected"}
    /\ hasClosed => caller = "ended"
    /\ requests # <<>> => requests = <<Last>> /\ responses = <<>>
    /\ responses # <<>> => Len(responses) = 1 /\ responses[1].id = Last
    /\ (requests # <<>> \/ responses # <<>>) => calls # <<>> /\ calls[Last].res = "pending"

CInv == IInv /\ Sockets /\ InUse /\ InFlight /\ FailureHasCause

-----------------------------------------------------------------------------
(* Facts about sequences and the operators. *)

LEMMA ElementOf ==
  ASSUME NEW S, NEW s \in Seq(S)
  PROVE  /\ Len(s) \in Nat /\ DOMAIN s = 1 .. Len(s)
         /\ \A k \in 1 .. Len(s) : s[k] \in S
OBVIOUS

LEMMA IsSequence ==
  ASSUME NEW S, NEW n \in Nat, NEW s, s = [k \in 1 .. n |-> s[k]], \A k \in 1 .. n : s[k] \in S
  PROVE  s \in Seq(S) /\ Len(s) = n
OBVIOUS

LEMMA WiderSet ==
  ASSUME NEW S, NEW T, S \subseteq T, NEW s \in Seq(S)
  PROVE  s \in Seq(T)
<1>1. \A k \in 1 .. Len(s) : s[k] \in T  BY ElementOf
<1>2. Len(s) \in Nat /\ s = [k \in 1 .. Len(s) |-> s[k]]  OBVIOUS
<1> QED  BY <1>1, <1>2, IsSequence

LEMMA AppendFacts ==
  ASSUME NEW S, NEW s \in Seq(S), NEW e \in S
  PROVE  /\ Append(s, e) \in Seq(S)
         /\ Len(Append(s, e)) = Len(s) + 1
         /\ \A k \in 1 .. Len(s) : Append(s, e)[k] = s[k]
         /\ Append(s, e)[Len(s) + 1] = e
OBVIOUS

LEMMA TailFacts ==
  ASSUME NEW S, NEW s \in Seq(S), s # <<>>
  PROVE  /\ Head(s) \in S /\ Head(s) = s[1] /\ 1 \in DOMAIN s
         /\ Tail(s) \in Seq(S)
         /\ Len(Tail(s)) = Len(s) - 1
         /\ \A k \in 1 .. Len(Tail(s)) : Tail(s)[k] = s[k + 1]
<1>1. Len(s) \in Nat /\ Len(s) # 0  OBVIOUS
<1> QED  BY <1>1

LEMMA NotEmpty == ASSUME NEW S, NEW s \in Seq(S), s # <<>> PROVE Len(s) # 0
OBVIOUS

LEMMA TailOfOne == ASSUME NEW S, NEW s \in Seq(S), Len(s) = 1 PROVE Tail(s) = <<>>
<1>1. CASE s = <<>>  BY <1>1
<1>2. CASE s # <<>>
  <2>1. Tail(s) \in Seq(S) /\ Len(Tail(s)) = 0  BY <1>2, TailFacts
  <2> QED  BY <2>1, NotEmpty
<1> QED  BY <1>1, <1>2

\* Resolving the last call changes its result and nothing else.
LEMMA ResolveFacts ==
  ASSUME TypeOK, NEW ids \in SUBSET (1 .. Last), NEW res \in Results, Resolve(ids, res)
  PROVE  /\ calls' \in Seq([func : Funcs, res : Results])
         /\ Len(calls') = Len(calls)
         /\ DOMAIN calls' = DOMAIN calls
         /\ \A i \in DOMAIN calls : calls'[i].func = calls[i].func
         /\ \A i \in DOMAIN calls : i \in ids => calls'[i].res = res
         /\ \A i \in DOMAIN calls : i \notin ids => calls'[i] = calls[i]
<1> DEFINE C == [func : Funcs, res : Results]
<1>1. calls \in Seq(C)  BY DEF TypeOK
<1>2. calls' = [i \in DOMAIN calls |-> IF i \in ids THEN [calls[i] EXCEPT !.res = res]
                                                    ELSE calls[i]]
  BY DEF Resolve
<1>3. /\ Len(calls) \in Nat /\ DOMAIN calls = 1 .. Len(calls)
      /\ \A i \in 1 .. Len(calls) : calls[i] \in C
  <2> HIDE DEF C
  <2> QED  BY <1>1, ElementOf
<1>4. \A i \in 1 .. Len(calls) : calls'[i] \in C  BY <1>2, <1>3
<1>5. calls' = [i \in 1 .. Len(calls) |-> calls'[i]]  BY <1>2, <1>3
<1>6. calls' \in Seq(C) /\ Len(calls') = Len(calls)
  <2> HIDE DEF C
  <2> QED  BY <1>3, <1>4, <1>5, IsSequence
<1>7. \A i \in DOMAIN calls : calls'[i].func = calls[i].func  BY <1>2, <1>3
<1>8. \A i \in DOMAIN calls : i \in ids => calls'[i].res = res  BY <1>2, <1>3
<1>9. \A i \in DOMAIN calls : i \notin ids => calls'[i] = calls[i]  BY <1>2
<1>10. DOMAIN calls' = DOMAIN calls  BY <1>2
<1> QED  BY <1>6, <1>7, <1>8, <1>9, <1>10

-----------------------------------------------------------------------------
(* The types. *)

\* Calls are only added: what had its type keeps it.
LEMMA TypesKept ==
  ASSUME TypeOK, calls' \in Seq([func : Funcs, res : Results]),
         Len(calls') = Len(calls) \/ Len(calls') = Len(calls) + 1
  PROVE  /\ Last \in Nat /\ Last' \in Nat /\ Last <= Last'
         /\ done \in Seq(1 .. Last') /\ requests \in Seq(1 .. Last')
         /\ responses \in Seq([id : 1 .. Last', ok : BOOLEAN])
         /\ table \subseteq 1 .. Last'
         /\ armed \subseteq 0 .. Last' /\ expired \subseteq 0 .. Last'
<1>1. Len(calls) \in Nat  BY ElementOf DEF TypeOK
<1>2. Last \in Nat /\ Last' \in Nat /\ Last <= Last'  BY <1>1 DEF Last
<1>3. 1 .. Last \subseteq 1 .. Last' /\ 0 .. Last \subseteq 0 .. Last'  BY <1>2
<1>4. [id : 1 .. Last, ok : BOOLEAN] \subseteq [id : 1 .. Last', ok : BOOLEAN]  BY <1>3
<1>5. done \in Seq(1 .. Last') /\ requests \in Seq(1 .. Last')
  BY <1>3, WiderSet, Zenon DEF TypeOK
<1>6. responses \in Seq([id : 1 .. Last', ok : BOOLEAN])
  BY <1>4, WiderSet, Zenon DEF TypeOK
<1> QED  BY <1>2, <1>3, <1>5, <1>6 DEF TypeOK

LEMMA NothingLeft ==
  <<>> \in Seq(1 .. Last') /\ <<>> \in Seq([id : 1 .. Last', ok : BOOLEAN])
<1> DEFINE A == [id : 1 .. Last', ok : BOOLEAN]
           N == 1 .. Last'
<1> HIDE DEF A, N
<1>1. <<>> \in Seq(A) /\ <<>> \in Seq(N)  OBVIOUS
<1> QED  BY <1>1 DEF A, N

LEMMA CallAdded ==
  ASSUME TypeOK, NEW f \in Funcs, NEW res \in Results,
         calls' = Append(calls, [func |-> f, res |-> res])
  PROVE  /\ calls' \in Seq([func : Funcs, res : Results])
         /\ Len(calls') = Len(calls) + 1
         /\ Last' = Last + 1
<1> DEFINE C == [func : Funcs, res : Results]
<1>1. calls \in Seq(C) /\ [func |-> f, res |-> res] \in C  BY DEF TypeOK
<1>2. calls' \in Seq(C) /\ Len(calls') = Len(calls) + 1
  <2> HIDE DEF C
  <2> QED  BY <1>1, AppendFacts
<1> QED  BY <1>2 DEF Last

\* The controller answers the first request, or takes it without an answer.
LEMMA RequestServed ==
  ASSUME TypeOK, requests # <<>>
  PROVE  /\ Head(requests) \in 1 .. Last /\ Head(requests) = requests[1]
         /\ 1 \in DOMAIN requests
         /\ Tail(requests) \in Seq(1 .. Last)
         /\ \A i \in 1 .. Last : Append(done, i) \in Seq(1 .. Last)
         /\ \A i \in 1 .. Last, b \in BOOLEAN :
              Append(responses, [id |-> i, ok |-> b]) \in Seq([id : 1 .. Last, ok : BOOLEAN])
         /\ <<>> \in Seq(1 .. Last) /\ <<>> \in Seq([id : 1 .. Last, ok : BOOLEAN])
<1> DEFINE A == [id : 1 .. Last, ok : BOOLEAN]
<1>1. requests \in Seq(1 .. Last) /\ done \in Seq(1 .. Last) /\ responses \in Seq(A)
  BY DEF TypeOK
<1>2. \A i \in 1 .. Last, b \in BOOLEAN : [id |-> i, ok |-> b] \in A  OBVIOUS
<1>3. \A a \in A : Append(responses, a) \in Seq(A)
  <2> HIDE DEF A
  <2> QED  BY <1>1, AppendFacts
<1>4. \A i \in 1 .. Last : Append(done, i) \in Seq(1 .. Last)  BY <1>1, AppendFacts
<1>5. <<>> \in Seq(1 .. Last) /\ <<>> \in Seq(A)
  <2> HIDE DEF A
  <2> QED  OBVIOUS
<1>6. /\ Head(requests) \in 1 .. Last /\ Head(requests) = requests[1]
      /\ 1 \in DOMAIN requests /\ Tail(requests) \in Seq(1 .. Last)
  BY <1>1, TailFacts
<1> QED  BY <1>2, <1>3, <1>4, <1>5, <1>6, Zenon

\* The client reads the first answer.
LEMMA AnswerRead ==
  ASSUME TypeOK, responses # <<>>
  PROVE  /\ Head(responses) \in [id : 1 .. Last, ok : BOOLEAN]
         /\ Head(responses) = responses[1] /\ 1 \in DOMAIN responses
         /\ Tail(responses) \in Seq([id : 1 .. Last, ok : BOOLEAN])
         /\ Len(Tail(responses)) = Len(responses) - 1
         /\ \A k \in 1 .. Len(Tail(responses)) : Tail(responses)[k] = responses[k + 1]
<1> DEFINE A == [id : 1 .. Last, ok : BOOLEAN]
<1>1. responses \in Seq(A)  BY DEF TypeOK
<1> HIDE DEF A
<1>2. /\ Head(responses) \in A
      /\ Head(responses) = responses[1] /\ 1 \in DOMAIN responses
      /\ Tail(responses) \in Seq(A)
      /\ Len(Tail(responses)) = Len(responses) - 1
      /\ \A k \in 1 .. Len(Tail(responses)) : Tail(responses)[k] = responses[k + 1]
  BY <1>1, TailFacts
<1> QED  BY <1>2 DEF A

LEMMA TypeInit == ASSUME Init PROVE TypeOK
<1>1. <<>> \in Seq([func : Funcs, res : Results]) /\ <<>> \in Seq(1 .. Last)
      /\ <<>> \in Seq([id : 1 .. Last, ok : BOOLEAN])
  <2> DEFINE C == [func : Funcs, res : Results]
             A == [id : 1 .. Last, ok : BOOLEAN]
             N == 1 .. Last
  <2> HIDE DEF C, A, N
  <2>1. <<>> \in Seq(C) /\ <<>> \in Seq(A) /\ <<>> \in Seq(N)  OBVIOUS
  <2> QED  BY <2>1 DEF C, A, N
<1> QED  BY <1>1, RpcAssumption DEF Init, TypeOK

\* Every step keeps the types.
LEMMA TypeStep == ASSUME TypeOK, Calling, [Next]_vars PROVE TypeOK'
<1> USE DEF history
<1>0. calls \in Seq([func : Funcs, res : Results])  BY DEF TypeOK
<1>1. ASSUME calls' = calls PROVE
        /\ Last' = Last /\ Last \in Nat /\ calls' \in Seq([func : Funcs, res : Results])
        /\ done \in Seq(1 .. Last') /\ requests \in Seq(1 .. Last')
        /\ responses \in Seq([id : 1 .. Last', ok : BOOLEAN])
        /\ table \subseteq 1 .. Last' /\ armed \subseteq 0 .. Last' /\ expired \subseteq 0 .. Last'
  BY <1>0, <1>1, TypesKept DEF Last
<1>2. CASE RpcConnect
  <2>1. calls' = calls /\ armed' = armed \cup {0}  BY <1>2 DEF RpcConnect, ConnectTimer
  <2>2. 0 \in 0 .. Last'  BY <1>1, <2>1
  <2>3. armed' \subseteq 0 .. Last'  BY <1>1, <2>1, <2>2
  <2> QED  BY <1>1, <1>2, <2>1, <2>3 DEF RpcConnect, TypeOK
<1>3. ASSUME NEW f \in Funcs, Refuse(f) PROVE TypeOK'
  <2>1. calls' = Append(calls, [func |-> f, res |-> "refused"])  BY <1>3 DEF Refuse
  <2>2. calls' \in Seq([func : Funcs, res : Results]) /\ Len(calls') = Len(calls) + 1
    BY <2>1, CallAdded DEF Results
  <2> QED  BY <1>3, <2>2, TypesKept DEF Refuse, TypeOK
<1>4. ASSUME NEW f \in Funcs, Send(f) PROVE TypeOK'
  <2>1. calls' = Append(calls, [func |-> f, res |-> "pending"])  BY <1>4 DEF Send
  <2>2. /\ calls' \in Seq([func : Funcs, res : Results]) /\ Len(calls') = Len(calls) + 1
        /\ Last' = Last + 1
    BY <2>1, CallAdded DEF Results
  <2>3. Last \in Nat /\ requests \in Seq(1 .. Last')  BY <2>2, TypesKept
  <2>4. requests' \in Seq(1 .. Last')
    <3>1. Last + 1 \in 1 .. Last'  BY <2>2, <2>3
    <3>2. Append(requests, Last + 1) \in Seq(1 .. Last')  BY <2>3, <3>1, AppendFacts
    <3> QED  BY <1>4, <2>3, <3>2 DEF Send
  <2>5. armed' \subseteq 0 .. Last'  BY <1>4, <2>2, <2>3 DEF Send, TypeOK
  <2> QED  BY <1>4, <2>2, <2>4, <2>5, TypesKept DEF Send, TypeOK
<1>5. CASE ProcessEnds
  BY <1>1, <1>5 DEF ProcessEnds, Close, TypeOK
<1>6. CASE ConnectDone
  BY <1>1, <1>6 DEF ConnectDone, TypeOK
<1>7. CASE WriteDone
  <2>1. Last \in 1 .. Last'
    BY <1>0, <1>1, <1>7, ElementOf DEF WriteDone, Calling, Last
  <2> QED  BY <1>1, <1>7, <2>1 DEF WriteDone, TypeOK
<1>8. CASE WriteFailed
  <2>1. /\ Resolve({Last}, "failed") /\ Close
        /\ UNCHANGED <<server, table, expired, requests, responses, done, broken>>
    BY <1>8 DEF WriteFailed
  <2>2. {Last} \in SUBSET (1 .. Last) /\ "failed" \in Results
    BY <1>0, <1>8, ElementOf DEF WriteFailed, Calling, Last, Results
  <2>3. calls' \in Seq([func : Funcs, res : Results]) /\ Len(calls') = Len(calls)
    BY <2>1, <2>2, ResolveFacts
  <2>4. armed' \subseteq armed /\ caller' \in {caller, "idle"}  BY <2>1 DEF Resolve
  <2> QED  BY <2>1, <2>3, <2>4, TypesKept DEF Close, TypeOK
<1>9. CASE ReadAnswer
  <2> DEFINE r == Head(responses)
             res == IF r.ok THEN "ok" ELSE "failed"
  <2>1. /\ responses # <<>> /\ Resolve({r.id}, res)
        /\ table' \subseteq table /\ responses' = Tail(responses)
        /\ UNCHANGED <<socket, hasClosed>> \/ Close
        /\ UNCHANGED <<server, expired, requests, done, broken>>
    BY <1>9 DEF ReadAnswer
  <2>2. {r.id} \in SUBSET (1 .. Last) /\ res \in Results
    BY <2>1, AnswerRead DEF Results
  <2>3. calls' \in Seq([func : Funcs, res : Results]) /\ Len(calls') = Len(calls)
    BY <2>1, <2>2, ResolveFacts
  <2>4. armed' \subseteq armed /\ caller' \in {caller, "idle"}  BY <2>1 DEF Resolve
  <2>5. responses' \in Seq([id : 1 .. Last', ok : BOOLEAN])
    <3>1. Last' = Last  BY <2>3 DEF Last
    <3> QED  BY <2>1, <3>1, AnswerRead, Zenon
  <2>6. hasClosed' \in BOOLEAN /\ socket' \in {socket, "closed"}  BY <2>1 DEF Close, TypeOK
  <2> QED  BY <2>1, <2>3, <2>4, <2>5, <2>6, TypesKept DEF TypeOK
<1>10. CASE RecvFails
  <2>1. /\ Resolve(table, "failed") /\ Close /\ table' = {}
        /\ UNCHANGED <<server, expired, requests, responses, done, broken>>
    BY <1>10 DEF RecvFails
  <2>2. table \in SUBSET (1 .. Last) /\ "failed" \in Results  BY DEF TypeOK, Results
  <2>3. calls' \in Seq([func : Funcs, res : Results]) /\ Len(calls') = Len(calls)
    BY <2>1, <2>2, ResolveFacts
  <2>4. armed' \subseteq armed /\ caller' \in {caller, "idle"}  BY <2>1 DEF Resolve
  <2> QED  BY <2>1, <2>3, <2>4, TypesKept DEF Close, TypeOK
<1>11. ASSUME NEW t \in Timers, TimedOut(t) PROVE TypeOK'
  BY <1>1, <1>11 DEF TimedOut, Close, TypeOK
<1>12. ASSUME NEW t \in Timers, Expire(t) PROVE TypeOK'
  BY <1>1, <1>12 DEF Expire, TypeOK, Waits
<1>13. CASE Serve
  <2> DEFINE i == Head(requests)
             registered == calls[i].func \in Registered
  <2>1. /\ requests # <<>> /\ calls' = calls /\ requests' = Tail(requests)
        /\ done' = IF registered THEN Append(done, i) ELSE done
        /\ responses' = IF socket = "open" THEN Append(responses, [id |-> i, ok |-> registered])
                                           ELSE responses
        /\ UNCHANGED <<server, socket, hasClosed, caller, table, armed, expired, broken>>
    BY <1>13 DEF Serve
  <2>2. i \in 1 .. Last /\ registered \in BOOLEAN /\ Last' = Last  BY <2>1, <1>1, RequestServed
  <2>3. done' \in Seq(1 .. Last') /\ requests' \in Seq(1 .. Last')
    BY <2>1, <2>2, <1>1, RequestServed, Zenon
  <2>4. responses' \in Seq([id : 1 .. Last', ok : BOOLEAN])
    BY <2>1, <2>2, <1>1, RequestServed, Zenon
  <2> HIDE DEF i, registered
  <2> QED  BY <1>1, <2>1, <2>3, <2>4 DEF TypeOK
<1>14. ASSUME Down, calls' = calls, done' \in Seq(1 .. Last'),
              UNCHANGED <<hasClosed, caller, table, armed, expired>>
       PROVE  TypeOK'
  <2>1. requests' \in Seq(1 .. Last') /\ responses' \in Seq([id : 1 .. Last', ok : BOOLEAN])
    BY <1>1, <1>14, NothingLeft, Zenon DEF Down
  <2> QED  BY <1>1, <1>14, <2>1 DEF Down, TypeOK
<1>15. CASE ServeQuit
  <2>1. /\ requests # <<>> /\ calls' = calls /\ done' = Append(done, Head(requests)) /\ Down
        /\ UNCHANGED <<hasClosed, caller, table, armed, expired>>
    BY <1>15 DEF ServeQuit
  <2>2. done' \in Seq(1 .. Last')  BY <2>1, <1>1, RequestServed, Zenon
  <2> QED  BY <1>14, <2>1, <2>2
<1>19. CASE Stop
  <2>1. /\ Down /\ calls' = calls /\ done' = done
        /\ UNCHANGED <<hasClosed, caller, table, armed, expired>>
    BY <1>19 DEF Stop
  <2> QED  BY <1>1, <1>14, <2>1
<1>16. CASE Restart
  BY <1>1, <1>16 DEF Restart, TypeOK
<1>17. CASE Drop
  BY <1>1, <1>17 DEF Drop, TypeOK
<1>18. CASE UNCHANGED vars
  BY <1>18 DEF TypeOK, vars, Last
<1> QED
  BY <1>2, <1>3, <1>4, <1>5, <1>6, <1>7, <1>8, <1>9, <1>10, <1>11, <1>12, <1>13, <1>14, <1>15,
     <1>16, <1>17, <1>18, <1>19 DEF Next, Call, Internal, Executor, Time, Controller

-----------------------------------------------------------------------------
(* Every step keeps the invariant. *)

LEMMA WaitStep == ASSUME TypeOK, WaitHasEnd, Calling, [Next]_vars PROVE WaitHasEnd'
<1> USE DEF history, Last
<1>1. CASE RpcConnect
  BY <1>1 DEF RpcConnect, ConnectTimer, TypeOK, WaitHasEnd, Calling
<1>2. ASSUME NEW f \in Funcs, Refuse(f) PROVE WaitHasEnd'
  BY <1>2 DEF Refuse, TypeOK, WaitHasEnd, Calling
<1>3. ASSUME NEW f \in Funcs, Send(f) PROVE WaitHasEnd'
  BY <1>3 DEF Send, TypeOK, WaitHasEnd, Calling
<1>4. CASE ProcessEnds
  BY <1>4 DEF ProcessEnds, Close, TypeOK, WaitHasEnd, Calling
<1>5. CASE ConnectDone
  BY <1>5 DEF ConnectDone, ConnectTimer, TypeOK, WaitHasEnd, Calling
<1>6. CASE WriteDone
  BY <1>6 DEF WriteDone, TypeOK, WaitHasEnd, Calling
<1>7. CASE WriteFailed
  BY <1>7 DEF WriteFailed, Close, Resolve, TypeOK, WaitHasEnd, Calling
<1>8. CASE ReadAnswer
  BY <1>8 DEF ReadAnswer, Close, Resolve, TypeOK, WaitHasEnd, Calling
<1>9. CASE RecvFails
  BY <1>9 DEF RecvFails, Close, Resolve, TypeOK, WaitHasEnd, Calling
<1>10. ASSUME NEW t \in Timers, TimedOut(t) PROVE WaitHasEnd'
  BY <1>10 DEF TimedOut, Close, TypeOK, WaitHasEnd, Calling
<1>11. ASSUME NEW t \in Timers, Expire(t) PROVE WaitHasEnd'
  BY <1>11 DEF Expire, Waits, TypeOK, WaitHasEnd, Calling
<1>12. CASE Serve
  BY <1>12 DEF Serve, TypeOK, WaitHasEnd, Calling
<1>13. CASE ServeQuit
  BY <1>13 DEF ServeQuit, Down, TypeOK, WaitHasEnd, Calling
<1>14. CASE Stop
  BY <1>14 DEF Stop, Down, TypeOK, WaitHasEnd, Calling
<1>15. CASE Restart
  BY <1>15 DEF Restart, TypeOK, WaitHasEnd, Calling
<1>16. CASE Drop
  BY <1>16 DEF Drop, TypeOK, WaitHasEnd, Calling
<1>17. CASE UNCHANGED vars
  BY <1>17 DEF vars, TypeOK, WaitHasEnd, Calling
<1> QED
  BY <1>1, <1>2, <1>3, <1>4, <1>5, <1>6, <1>7, <1>8, <1>9, <1>10, <1>11, <1>12, <1>13, <1>14,
     <1>15, <1>16, <1>17
  DEF Next, Call, Internal, Executor, Time, Controller

LEMMA CallingStep == ASSUME TypeOK, WaitHasEnd, Calling, [Next]_vars PROVE Calling'
<1> USE DEF history, Last
<1>1. CASE RpcConnect
  BY <1>1 DEF RpcConnect, ConnectTimer, TypeOK, WaitHasEnd, Calling
<1>2. ASSUME NEW f \in Funcs, Refuse(f) PROVE Calling'
  BY <1>2 DEF Refuse, TypeOK, WaitHasEnd, Calling
<1>3. ASSUME NEW f \in Funcs, Send(f) PROVE Calling'
  BY <1>3 DEF Send, TypeOK, WaitHasEnd, Calling
<1>4. CASE ProcessEnds
  BY <1>4 DEF ProcessEnds, Close, TypeOK, WaitHasEnd, Calling
<1>5. CASE ConnectDone
  BY <1>5 DEF ConnectDone, ConnectTimer, TypeOK, WaitHasEnd, Calling
<1>6. CASE WriteDone
  BY <1>6 DEF WriteDone, TypeOK, WaitHasEnd, Calling
<1>7. CASE WriteFailed
  BY <1>7 DEF WriteFailed, Close, Resolve, TypeOK, WaitHasEnd, Calling
<1>8. CASE ReadAnswer
  BY <1>8 DEF ReadAnswer, Close, Resolve, TypeOK, WaitHasEnd, Calling
<1>9. CASE RecvFails
  BY <1>9 DEF RecvFails, Close, Resolve, TypeOK, WaitHasEnd, Calling
<1>10. ASSUME NEW t \in Timers, TimedOut(t) PROVE Calling'
  BY <1>10 DEF TimedOut, Close, TypeOK, WaitHasEnd, Calling
<1>11. ASSUME NEW t \in Timers, Expire(t) PROVE Calling'
  BY <1>11 DEF Expire, Waits, TypeOK, WaitHasEnd, Calling
<1>12. CASE Serve
  BY <1>12 DEF Serve, TypeOK, WaitHasEnd, Calling
<1>13. CASE ServeQuit
  BY <1>13 DEF ServeQuit, Down, TypeOK, WaitHasEnd, Calling
<1>14. CASE Stop
  BY <1>14 DEF Stop, Down, TypeOK, WaitHasEnd, Calling
<1>15. CASE Restart
  BY <1>15 DEF Restart, TypeOK, WaitHasEnd, Calling
<1>16. CASE Drop
  BY <1>16 DEF Drop, TypeOK, WaitHasEnd, Calling
<1>17. CASE UNCHANGED vars
  BY <1>17 DEF vars, TypeOK, WaitHasEnd, Calling
<1> QED
  BY <1>1, <1>2, <1>3, <1>4, <1>5, <1>6, <1>7, <1>8, <1>9, <1>10, <1>11, <1>12, <1>13, <1>14,
     <1>15, <1>16, <1>17
  DEF Next, Call, Internal, Executor, Time, Controller

LEMMA OrderedStep == ASSUME IInv, [Next]_vars PROVE Ordered'
<1> USE DEF history
<1>a. requests \in Seq(1 .. Last) /\ done \in Seq(1 .. Last) /\ Last \in Nat
  BY ElementOf DEF IInv, TypeOK, Last
<1>b. /\ DOMAIN requests = 1 .. Len(requests) /\ DOMAIN done = 1 .. Len(done)
      /\ \A k \in DOMAIN requests : requests[k] \in 1 .. Last
      /\ \A k \in DOMAIN done : done[k] \in 1 .. Last
      /\ DOMAIN calls = 1 .. Last /\ Len(requests) \in Nat /\ Len(done) \in Nat
  BY <1>a, ElementOf DEF IInv, TypeOK, Last
<1>c. \A k \in DOMAIN responses : responses[k].id \in 1 .. Last /\ responses[k].ok \in BOOLEAN
  <2> DEFINE A == [id : 1 .. Last, ok : BOOLEAN]
  <2>1. responses \in Seq(A)  BY DEF IInv, TypeOK
  <2>2. \A k \in DOMAIN responses : responses[k] \in A
    <3> HIDE DEF A
    <3> QED  BY <2>1, ElementOf
  <2> QED  BY <2>2
\* Nothing is sent, executed or answered, and no call is refused.
<1>d. ASSUME requests' \in {requests, <<>>}, done' = done,
             responses' \in {responses, <<>>},
             \A i \in DOMAIN calls : calls'[i].res \in {calls[i].res, "pending", "ok", "failed"}
      PROVE  Ordered'
  <2>1. DOMAIN requests' \subseteq DOMAIN requests /\ \A k \in DOMAIN requests' : requests'[k] = requests[k]
    BY <1>d
  <2>2. DOMAIN responses' \subseteq DOMAIN responses /\ \A k \in DOMAIN responses' : responses'[k] = responses[k]
    BY <1>d
  <2> QED  BY <1>b, <1>d, <2>1, <2>2 DEF IInv, Ordered
<1>1. CASE RpcConnect
  BY <1>d, <1>1 DEF RpcConnect
<1>2. ASSUME NEW f \in Funcs, Refuse(f) PROVE Ordered'
  <2>1. \A i \in DOMAIN calls : calls'[i] = calls[i]
    BY <1>2, <1>b DEF Refuse, IInv, TypeOK, Last
  <2> QED  BY <1>d, <1>2, <2>1 DEF Refuse
<1>3. ASSUME NEW f \in Funcs, Send(f) PROVE Ordered'
  <2>1. \A i \in DOMAIN calls : calls'[i] = calls[i]
    BY <1>3, <1>b DEF Send, IInv, TypeOK, Last
  <2>2. calls'[Last + 1].res = "pending"
    BY <1>3, <1>b DEF Send, IInv, TypeOK, Last
  <2>3. CASE requests' = requests
    BY <1>d, <1>3, <2>1, <2>3 DEF Send
  <2>4. CASE requests' = Append(requests, Last + 1)
    <3>1. requests \in Seq(1 .. Last + 1) /\ Last + 1 \in 1 .. Last + 1
      BY <1>a, WiderSet
    <3>2. /\ DOMAIN requests' = 1 .. Len(requests) + 1
          /\ \A k \in 1 .. Len(requests) : requests'[k] = requests[k]
          /\ requests'[Len(requests) + 1] = Last + 1
      BY <2>4, <3>1, AppendFacts, ElementOf
    <3>3. done' = done /\ responses' = responses  BY <1>3 DEF Send
    <3>4. \A l \in DOMAIN requests' : (l \in DOMAIN requests /\ requests'[l] = requests[l])
                                     \/ (l = Len(requests) + 1 /\ requests'[l] = Last + 1)
      <4>1. \A l \in 1 .. Len(requests) + 1 : l \in 1 .. Len(requests) \/ l = Len(requests) + 1
        BY <1>b
      <4> QED  BY <1>b, <3>2, <4>1, Zenon
    <3>5. \A k, l \in DOMAIN requests' : k < l => requests'[k] < requests'[l]
      BY <1>a, <1>b, <3>4 DEF IInv, Ordered
    <3>6. \A k \in DOMAIN done', l \in DOMAIN requests' : done'[k] < requests'[l]
      <4> SUFFICES ASSUME NEW k \in DOMAIN done, NEW l \in DOMAIN requests'
                   PROVE  done[k] < requests'[l]
        BY <3>3
      <4>1. done[k] \in 1 .. Last  BY <1>b
      <4>2. done[k] < Last + 1  BY <1>a, <4>1
      <4>3. CASE l \in DOMAIN requests /\ requests'[l] = requests[l]
        BY <4>3 DEF IInv, Ordered
      <4>4. CASE requests'[l] = Last + 1
        BY <4>2, <4>4
      <4> QED  BY <3>4, <4>3, <4>4
    <3>7. \A l \in DOMAIN requests' : calls'[requests'[l]].res # "refused"
      BY <1>b, <2>1, <2>2, <3>4 DEF IInv, Ordered
    <3> QED  BY <3>3, <3>5, <3>6, <3>7 DEF IInv, Ordered
  <2> QED  BY <1>3, <2>3, <2>4 DEF Send
<1>4. CASE ProcessEnds
  BY <1>d, <1>4 DEF ProcessEnds
<1>5. CASE ConnectDone
  BY <1>d, <1>5 DEF ConnectDone
<1>6. CASE WriteDone
  BY <1>d, <1>6 DEF WriteDone
<1>7. CASE WriteFailed
  <2>1. {Last} \in SUBSET (1 .. Last) /\ "failed" \in Results
    BY <1>7, <1>b DEF WriteFailed, IInv, Calling, Results
  <2>2. \A i \in DOMAIN calls : calls'[i].res \in {calls[i].res, "failed"}
    <3>1. Resolve({Last}, "failed")  BY <1>7 DEF WriteFailed
    <3>2. TypeOK  BY DEF IInv
    <3>3. \A i \in DOMAIN calls : (i \in {Last} => calls'[i].res = "failed")
                                 /\ (i \notin {Last} => calls'[i] = calls[i])
      BY <2>1, <3>1, <3>2, ResolveFacts
    <3> QED  BY <3>3
  <2> QED  BY <1>d, <1>7, <2>2 DEF WriteFailed
<1>8. CASE ReadAnswer
  <2>1. /\ responses # <<>> /\ Head(responses).id \in table
        /\ Resolve({Head(responses).id}, IF Head(responses).ok THEN "ok" ELSE "failed")
        /\ responses' = Tail(responses) /\ UNCHANGED <<requests, done>>
    BY <1>8 DEF ReadAnswer
  <2>2. \A i \in DOMAIN calls : calls'[i].res \in {calls[i].res, "ok", "failed"}
    <3>1. {Head(responses).id} \in SUBSET (1 .. Last)  BY <2>1 DEF IInv, TypeOK
    <3> QED  BY <2>1, <3>1, ResolveFacts DEF IInv, Results
  <2>3. \A k \in DOMAIN responses' : k + 1 \in DOMAIN responses /\ responses'[k] = responses[k + 1]
    <3>1. DOMAIN responses' = 1 .. Len(Tail(responses)) /\ DOMAIN responses = 1 .. Len(responses)
          /\ Len(responses) \in Nat
      BY <2>1, AnswerRead, ElementOf DEF IInv, TypeOK
    <3> QED  BY <2>1, <3>1, AnswerRead DEF IInv
  <2>4. \A l \in DOMAIN requests' : calls'[requests'[l]].res # "refused"
    BY <1>b, <2>1, <2>2 DEF IInv, Ordered
  <2>5. \A k \in DOMAIN responses' : responses'[k].ok =>
          \E l \in DOMAIN done' : done'[l] = responses'[k].id
    BY <2>1, <2>3 DEF IInv, Ordered
  <2> QED  BY <2>1, <2>4, <2>5 DEF IInv, Ordered
<1>9. CASE RecvFails
  <2>1. table \in SUBSET (1 .. Last) /\ "failed" \in Results
    BY DEF IInv, TypeOK, Results
  <2>2. \A i \in DOMAIN calls : calls'[i].res \in {calls[i].res, "failed"}
    <3>1. Resolve(table, "failed")  BY <1>9 DEF RecvFails
    <3>2. TypeOK  BY DEF IInv
    <3>3. \A i \in DOMAIN calls : (i \in table => calls'[i].res = "failed")
                                 /\ (i \notin table => calls'[i] = calls[i])
      BY <2>1, <3>1, <3>2, ResolveFacts
    <3> QED  BY <3>3
  <2> QED  BY <1>d, <1>9, <2>2 DEF RecvFails
<1>10. ASSUME NEW t \in Timers, TimedOut(t) PROVE Ordered'
  BY <1>d, <1>10 DEF TimedOut
<1>11. ASSUME NEW t \in Timers, Expire(t) PROVE Ordered'
  BY <1>d, <1>11 DEF Expire
<1>e. ASSUME requests # <<>> PROVE
        /\ 1 \in DOMAIN requests /\ Head(requests) = requests[1]
        /\ DOMAIN Append(done, Head(requests)) = 1 .. Len(done) + 1
        /\ \A k \in 1 .. Len(done) : Append(done, Head(requests))[k] = done[k]
        /\ Append(done, Head(requests))[Len(done) + 1] = Head(requests)
        /\ \A k \in DOMAIN Tail(requests) :
             k \in Nat /\ k > 0 /\ k + 1 \in DOMAIN requests /\ Tail(requests)[k] = requests[k + 1]
  <2>1. Head(requests) \in 1 .. Last /\ 1 \in DOMAIN requests /\ Head(requests) = requests[1]
    BY <1>e, RequestServed DEF IInv
  <2>2. Append(done, Head(requests)) \in Seq(1 .. Last)
    BY <1>a, <2>1, AppendFacts
  <2>3. Tail(requests) \in Seq(1 .. Last) /\ Len(Tail(requests)) = Len(requests) - 1
        /\ \A k \in 1 .. Len(Tail(requests)) : Tail(requests)[k] = requests[k + 1]
    BY <1>a, <1>e, TailFacts
  <2>4. DOMAIN Tail(requests) = 1 .. Len(requests) - 1  BY <2>3, ElementOf
  <2>5. \A k \in DOMAIN Tail(requests) :
             k \in Nat /\ k > 0 /\ k + 1 \in DOMAIN requests /\ Tail(requests)[k] = requests[k + 1]
    BY <1>b, <2>3, <2>4
  <2> QED  BY <1>a, <2>1, <2>2, <2>5, AppendFacts, ElementOf
\* An executed request comes before those that are left.
<1>f. ASSUME requests # <<>>, done' \in {done, Append(done, Head(requests))},
             requests' \in {Tail(requests), <<>>}, calls' = calls
      PROVE  /\ \A k, l \in DOMAIN requests' : k < l => requests'[k] < requests'[l]
             /\ \A k \in DOMAIN done', l \in DOMAIN requests' : done'[k] < requests'[l]
             /\ \A l \in DOMAIN requests' : calls'[requests'[l]].res # "refused"
             /\ \A k \in DOMAIN done : k \in DOMAIN done' /\ done'[k] = done[k]
  <2>1. \A k \in DOMAIN requests' :
          k \in Nat /\ k > 0 /\ k + 1 \in DOMAIN requests /\ requests'[k] = requests[k + 1]
    <3>1. CASE requests' = Tail(requests)
      BY <1>e, <1>f, <3>1, Zenon
    <3>2. CASE requests' = <<>>
      BY <3>2
    <3> QED  BY <1>f, <3>1, <3>2
  <2>2. \A k \in DOMAIN done : k \in DOMAIN done' /\ done'[k] = done[k]
    BY <1>b, <1>e, <1>f
  <2>3. \A k \in DOMAIN done' : (k \in DOMAIN done /\ done'[k] = done[k]) \/ done'[k] = requests[1]
    BY <1>b, <1>e, <1>f
  <2>4. \A k, l \in DOMAIN requests' : k < l => requests'[k] < requests'[l]
    BY <1>b, <2>1 DEF IInv, Ordered
  <2>5. \A k \in DOMAIN done', l \in DOMAIN requests' : done'[k] < requests'[l]
    <3> SUFFICES ASSUME NEW k \in DOMAIN done', NEW l \in DOMAIN requests'
                 PROVE  done'[k] < requests'[l]
      OBVIOUS
    <3>1. l + 1 \in DOMAIN requests /\ requests'[l] = requests[l + 1] /\ 1 < l + 1 /\ 1 \in DOMAIN requests
      BY <1>b, <1>e, <1>f, <2>1
    <3>2. CASE k \in DOMAIN done /\ done'[k] = done[k]
      BY <3>1, <3>2 DEF IInv, Ordered
    <3>3. CASE done'[k] = requests[1]
      BY <3>1, <3>3 DEF IInv, Ordered
    <3> QED  BY <2>3, <3>2, <3>3
  <2>6. \A l \in DOMAIN requests' : calls'[requests'[l]].res # "refused"
    BY <1>f, <2>1 DEF IInv, Ordered
  <2> QED  BY <2>2, <2>4, <2>5, <2>6
<1>12. CASE Serve
  <2> DEFINE i == Head(requests)
             registered == calls[i].func \in Registered
             r == [id |-> i, ok |-> registered]
  <2>1. /\ requests # <<>> /\ requests' = Tail(requests) /\ calls' = calls
        /\ done' = IF registered THEN Append(done, i) ELSE done
        /\ responses' = IF socket = "open" THEN Append(responses, r) ELSE responses
    BY <1>12 DEF Serve
  <2>2. \A k \in DOMAIN responses' : (k \in DOMAIN responses /\ responses'[k] = responses[k]) \/ responses'[k] = r
    <3> DEFINE A == [id : 1 .. Last, ok : BOOLEAN]
    <3>1. responses \in Seq(A) /\ r \in A  BY <2>1, RequestServed DEF IInv, TypeOK
    <3> HIDE DEF A, r
    <3>2. DOMAIN responses = 1 .. Len(responses) /\ Len(responses) \in Nat
      BY <3>1, ElementOf
    <3>3. DOMAIN Append(responses, r) = 1 .. Len(responses) + 1
      BY <3>1, AppendFacts, ElementOf
    <3>4. \A k \in DOMAIN Append(responses, r) :
            (k \in DOMAIN responses /\ Append(responses, r)[k] = responses[k]) \/ Append(responses, r)[k] = r
      BY <3>1, <3>2, <3>3, AppendFacts
    <3> QED  BY <2>1, <3>4
  <2>3. registered => \E l \in DOMAIN done' : done'[l] = i
    <3>1. Len(done) + 1 \in 1 .. Len(done) + 1  BY <1>b
    <3> QED  BY <2>1, <3>1, <1>e, Zenon
  <2>4. r.id = i /\ (r.ok <=> registered)  OBVIOUS
  <2> HIDE DEF i, registered, r
  <2>5. \A k \in DOMAIN responses' : responses'[k].ok =>
          \E l \in DOMAIN done' : done'[l] = responses'[k].id
    BY <2>1, <2>2, <2>3, <2>4, <1>f DEF IInv, Ordered, i
  <2> QED  BY <2>1, <2>5, <1>f DEF Ordered, i
<1>13. CASE ServeQuit
  <2>1. /\ requests # <<>> /\ requests' = <<>> /\ calls' = calls
        /\ done' = Append(done, Head(requests)) /\ responses' \in {responses, <<>>}
    BY <1>13 DEF ServeQuit, Down
  <2>2. \A k \in DOMAIN responses' : k \in DOMAIN responses /\ responses'[k] = responses[k]
    BY <2>1
  <2> QED  BY <2>1, <2>2, <1>f DEF IInv, Ordered
<1>14. CASE Stop
  BY <1>d, <1>14 DEF Stop, Down
<1>15. CASE Restart
  BY <1>d, <1>15 DEF Restart
<1>16. CASE Drop
  BY <1>d, <1>16 DEF Drop
<1>17. CASE UNCHANGED vars
  BY <1>d, <1>17 DEF vars
<1> QED
  BY <1>1, <1>2, <1>3, <1>4, <1>5, <1>6, <1>7, <1>8, <1>9, <1>10, <1>11, <1>12, <1>13, <1>14,
     <1>15,
     <1>16, <1>17 DEF Next, Call, Internal, Executor, Time, Controller

LEMMA InvInit == ASSUME Init PROVE IInv
<1>1. TypeOK  BY TypeInit
<1>2. WaitHasEnd /\ Calling /\ Ordered
  BY DEF Init, WaitHasEnd, Calling, Ordered
<1> QED  BY <1>1, <1>2 DEF IInv

LEMMA InvStep == ASSUME IInv, [Next]_vars PROVE IInv'
<1>1. TypeOK /\ WaitHasEnd /\ Calling  BY DEF IInv
<1>2. TypeOK' /\ WaitHasEnd' /\ Calling'  BY <1>1, TypeStep, WaitStep, CallingStep
<1>3. Ordered'  BY OrderedStep
<1> QED  BY <1>2, <1>3 DEF IInv

\* Every reachable state has the types.
THEOREM TypesHold == Spec => []TypeOK
<1>1. IInv => TypeOK  BY DEF IInv
<1> QED  BY <1>1, InvInit, InvStep, PTL DEF Spec

\* The io thread never waits for a call that nothing can end any more.
THEOREM WaitsHaveEnds == Spec => []WaitHasEnd
<1>1. IInv => WaitHasEnd  BY DEF IInv
<1> QED  BY <1>1, InvInit, InvStep, PTL DEF Spec

\* A step is one of RemoteCall, or leaves what it speaks of alone.
LEMMA StepImplements == ASSUME IInv, [Next]_vars PROVE [Abstract!Next]_(Abstract!vars)
<1> USE DEF history
<1>a. /\ calls \in Seq([func : Funcs, res : Results]) /\ Last \in Nat /\ DOMAIN calls = 1 .. Last
      /\ done \in Seq(1 .. Last)
  BY ElementOf DEF IInv, TypeOK, Last
<1>b. ASSUME UNCHANGED <<calls, done>> PROVE [Abstract!Next]_(Abstract!vars)
  BY <1>b DEF Abstract!vars
<1>c. ASSUME caller = "idle" PROVE Abstract!Idle
  <2>1. calls # <<>> => Last \in DOMAIN calls  BY <1>a DEF Last
  <2> QED  BY <1>c, <2>1 DEF IInv, WaitHasEnd, Abstract!Idle, Last
\* The waiting call is told its result.
<1>d. ASSUME NEW res \in {"ok", "failed"}, Resolve({Last}, res), done' = done,
             Last \in DOMAIN calls, calls[Last].res = "pending",
             res = "ok" => \E l \in DOMAIN done : done[l] = Last
      PROVE  Abstract!Return
  <2>1. calls' = [calls EXCEPT ![Last].res = res]
    BY <1>a, <1>d DEF Resolve
  <2>2. ~Abstract!Idle  BY <1>a, <1>d DEF Abstract!Idle, Last
  <2> QED  BY <1>d, <2>1, <2>2 DEF Abstract!Return, Last
\* The first request is executed.
<1>e. ASSUME requests # <<>>, calls' = calls, done' = Append(done, Head(requests)),
             calls[Head(requests)].func \in Registered
      PROVE  Abstract!Next
  <2>1. Head(requests) \in DOMAIN calls /\ 1 \in DOMAIN requests /\ Head(requests) = requests[1]
    BY <1>a, <1>e, RequestServed DEF IInv
  <2>2. /\ calls[Head(requests)].res # "refused"
        /\ \A k \in DOMAIN done : done[k] < Head(requests)
    BY <2>1 DEF IInv, Ordered
  <2>3. Abstract!Execute(Head(requests))
    BY <1>e, <2>2 DEF Abstract!Execute
  <2> QED  BY <2>1, <2>3 DEF Abstract!Next
<1>1. ASSUME NEW f \in Funcs, Refuse(f) PROVE Abstract!Next
  BY <1>1, <1>c DEF Refuse, Abstract!Next, Abstract!Issue
<1>2. ASSUME NEW f \in Funcs, Send(f) PROVE Abstract!Next
  BY <1>2, <1>c DEF Send, Abstract!Next, Abstract!Issue
<1>3. CASE WriteFailed
  <2>1. Resolve({Last}, "failed") /\ done' = done /\ caller = "write"
    BY <1>3 DEF WriteFailed
  <2>2. Last \in DOMAIN calls /\ calls[Last].res = "pending"
    BY <2>1 DEF IInv, Calling
  <2> QED  BY <1>d, <2>1, <2>2 DEF Abstract!Next
<1>f. table # {} => table = {Last} /\ Last \in DOMAIN calls /\ calls[Last].res = "pending"
  BY <1>a DEF IInv, WaitHasEnd, TypeOK
<1>4. CASE ReadAnswer
  <2> DEFINE r == Head(responses)
             res == IF r.ok THEN "ok" ELSE "failed"
  <2>1. /\ responses # <<>> /\ r.id \in table /\ Resolve({r.id}, res) /\ done' = done
    BY <1>4 DEF ReadAnswer
  <2>2. r.id = Last  BY <2>1, <1>f
  <2>3. r.ok => \E l \in DOMAIN done : done[l] = Last
    BY <2>1, <2>2, AnswerRead DEF IInv, Ordered
  <2>4. Abstract!Return  BY <2>1, <2>2, <2>3, <1>f, <1>d
  <2> QED  BY <2>4 DEF Abstract!Next
<1>5. CASE RecvFails
  <2>1. Resolve(table, "failed") /\ table # {} /\ done' = done
    BY <1>5 DEF RecvFails
  <2> QED  BY <1>d, <1>f, <2>1 DEF Abstract!Next
<1>6. CASE Serve
  <2>1. CASE calls[Head(requests)].func \in Registered
    <3>1. requests # <<>> /\ calls' = calls /\ done' = Append(done, Head(requests))
      BY <1>6, <2>1 DEF Serve
    <3> QED  BY <1>e, <2>1, <3>1
  <2>2. CASE calls[Head(requests)].func \notin Registered
    BY <1>6, <1>b, <2>2 DEF Serve
  <2> QED  BY <2>1, <2>2
<1>7. CASE ServeQuit
  <2>1. /\ requests # <<>> /\ calls' = calls /\ done' = Append(done, Head(requests))
        /\ calls[Head(requests)].func = Quit
    BY <1>7 DEF ServeQuit
  <2>2. Head(requests) \in DOMAIN calls  BY <1>a, <2>1, RequestServed DEF IInv
  <2>3. calls[Head(requests)].func \in Funcs
    <3>1. \A i \in DOMAIN calls : calls[i] \in [func : Funcs, res : Results]
      BY <1>a, ElementOf, Zenon
    <3> QED  BY <2>2, <3>1
  <2> QED  BY <1>e, <2>1, <2>3, RpcAssumption
<1>8. CASE \/ RpcConnect \/ ProcessEnds \/ ConnectDone \/ WriteDone \/ Stop \/ Restart \/ Drop
         \/ UNCHANGED vars
  BY <1>8, <1>b DEF RpcConnect, ProcessEnds, ConnectDone, WriteDone, Stop, Restart, Drop, vars
<1>9. ASSUME NEW t \in Timers, TimedOut(t) \/ Expire(t) PROVE [Abstract!Next]_(Abstract!vars)
  BY <1>9, <1>b DEF TimedOut, Expire
<1> QED
  BY <1>1, <1>2, <1>3, <1>4, <1>5, <1>6, <1>7, <1>8, <1>9
  DEF Next, Call, Internal, Executor, Time, Controller

\* The path from the wrappers of rpc_client.cpp to the handlers of the controller executes
\* calls at most once and in order, and reports success only of what was executed.
THEOREM PathImplementsRemoteCall == Spec => ImplementsRemoteCall
<1>1. Init => Abstract!Init  BY DEF Init, Abstract!Init
<1> QED  BY <1>1, InvInit, InvStep, StepImplements, PTL DEF Spec, ImplementsRemoteCall, Abstract!Spec

-----------------------------------------------------------------------------
(* Why a call fails. *)

LEMMA ResolveKeeps ==
  ASSUME CInv, NEW ids \in SUBSET (1 .. Last), NEW res \in Results, Resolve(ids, res),
         broken' = broken
  PROVE  /\ Last' = Last /\ DOMAIN calls' = DOMAIN calls /\ DOMAIN calls = 1 .. Last
         /\ Cause' <=> Cause
         /\ \A i \in DOMAIN calls : calls'[i].func = calls[i].func
         /\ \A t \in armed' : Waits(t)'
         /\ \A i \in DOMAIN calls : calls'[i].res \in {calls[i].res, res}
         /\ \A i \in DOMAIN calls : i \notin ids => calls'[i].res = calls[i].res
<1>0. TypeOK /\ calls \in Seq([func : Funcs, res : Results])  BY DEF CInv, IInv, TypeOK
<1>1. /\ Len(calls') = Len(calls) /\ DOMAIN calls' = DOMAIN calls
      /\ \A i \in DOMAIN calls : calls'[i].func = calls[i].func
      /\ \A i \in DOMAIN calls : i \in ids => calls'[i].res = res
      /\ \A i \in DOMAIN calls : i \notin ids => calls'[i] = calls[i]
  BY <1>0, ResolveFacts
<1>2. DOMAIN calls = 1 .. Last /\ Last \in Nat  BY <1>0, ElementOf DEF Last
<1>3. Cause' <=> Cause  BY <1>1 DEF Cause
<1>4. \A t \in armed' : Waits(t)'
  <2> SUFFICES ASSUME NEW t \in armed' PROVE Waits(t)'
    OBVIOUS
  <2>1. t \in armed /\ t \notin ids /\ caller' \in {caller, "idle"}
        /\ (Last \notin ids => caller' = caller)
    BY DEF Resolve
  <2>2. Waits(t) /\ t \in 0 .. Last  BY <1>0, <2>1 DEF CInv, InUse, TypeOK
  <2>3. CASE t = ConnectTimer
    <3>1. caller = "connect" /\ calls = <<>>  BY <2>2, <2>3 DEF Waits, CInv, IInv, Calling
    <3>2. ids = {}  BY <3>1 DEF Last
    <3> QED  BY <2>1, <2>3, <3>1, <3>2 DEF Waits
  <2>4. CASE t # ConnectTimer
    BY <1>1, <1>2, <2>1, <2>2, <2>4 DEF Waits, ConnectTimer
  <2> QED  BY <2>3, <2>4
<1> QED  BY <1>1, <1>2, <1>3, <1>4 DEF Last

\* A call is added; what was known of the others stays.
LEMMA AddKeeps ==
  ASSUME CInv, NEW f \in Funcs, NEW res \in Results,
         calls' = Append(calls, [func |-> f, res |-> res]), broken' = broken
  PROVE  /\ Last' = Last + 1 /\ Last \in Nat /\ DOMAIN calls = 1 .. Last
         /\ DOMAIN calls' = 1 .. Last + 1
         /\ \A i \in 1 .. Last : calls'[i] = calls[i]
         /\ calls'[Last + 1] = [func |-> f, res |-> res]
         /\ Cause => Cause'
         /\ \A k \in DOMAIN responses : responses[k].id \in 1 .. Last
<1> DEFINE C == [func : Funcs, res : Results]
           A == [id : 1 .. Last, ok : BOOLEAN]
           c == [func |-> f, res |-> res]
<1>1. calls \in Seq(C) /\ c \in C /\ responses \in Seq(A)  BY DEF CInv, IInv, TypeOK
<1>2. \A k \in DOMAIN responses : responses[k] \in A
  <2> HIDE DEF A
  <2> QED  BY <1>1, ElementOf
<1>3. /\ Len(calls) \in Nat /\ DOMAIN calls = 1 .. Len(calls)
      /\ Append(calls, c) \in Seq(C) /\ Len(Append(calls, c)) = Len(calls) + 1
      /\ \A i \in 1 .. Len(calls) : Append(calls, c)[i] = calls[i]
      /\ Append(calls, c)[Len(calls) + 1] = c
  <2> HIDE DEF C, c
  <2> QED  BY <1>1, AppendFacts, ElementOf
<1>4. DOMAIN Append(calls, c) = 1 .. Len(calls) + 1
  <2> HIDE DEF C, c
  <2> QED  BY <1>3, ElementOf
<1>5. Cause => Cause'
  <2>1. CASE broken  BY <2>1 DEF Cause
  <2>2. ASSUME NEW j \in DOMAIN calls, calls[j].func \notin Registered PROVE Cause'
    <3>1. j \in DOMAIN calls' /\ calls'[j] = calls[j]  BY <1>3, <1>4
    <3> QED  BY <2>2, <3>1 DEF Cause
  <2> QED  BY <2>1, <2>2 DEF Cause
<1> QED  BY <1>2, <1>3, <1>4, <1>5 DEF Last

\* What makes a call fail comes from a cause.
LEMMA LossHasCause ==
  ASSUME CInv
  PROVE  /\ \A f \in Funcs : Refuse(f) => Cause
         /\ WriteFailed => Cause
         /\ ReadAnswer /\ ~Head(responses).ok => Cause
         /\ RecvFails => Cause
         /\ table # {} => table = {Last} /\ Last \in 1 .. Last
<1>1. ASSUME NEW f \in Funcs, Refuse(f) PROVE Cause
  BY <1>1 DEF Refuse, CInv, InFlight
<1>2. ASSUME WriteFailed PROVE Cause
  BY <1>2 DEF WriteFailed, CInv, IInv, TypeOK, Sockets, InFlight
<1>3. ASSUME ReadAnswer, ~Head(responses).ok PROVE Cause
  <2>1. responses # <<>> /\ Head(responses).id \in table  BY <1>3 DEF ReadAnswer
  <2>2. Head(responses) = responses[1] /\ 1 \in DOMAIN responses
    BY <2>1, AnswerRead DEF CInv, IInv
  <2>3. calls[Head(responses).id].func \notin Registered
    BY <1>3, <2>2 DEF CInv, InUse
  <2>4. Head(responses).id \in DOMAIN calls
    <3>1. Head(responses).id \in 1 .. Last  BY <2>1 DEF CInv, IInv, TypeOK
    <3>2. DOMAIN calls = 1 .. Last  BY ElementOf DEF CInv, IInv, TypeOK, Last
    <3> QED  BY <3>1, <3>2
  <2> QED  BY <2>3, <2>4 DEF Cause
<1>4. table # {} => table = {Last} /\ Last \in 1 .. Last /\ caller = "wait"
  BY DEF CInv, IInv, TypeOK, WaitHasEnd
<1>5. ASSUME RecvFails, ~Cause PROVE FALSE
  <2>1. table = {Last} /\ caller = "wait"  BY <1>4, <1>5 DEF RecvFails
  <2>2. socket \notin {"closed", "lost"}  BY <1>5, <2>1 DEF CInv, Sockets, InFlight
  <2>3. responses # <<>> /\ Head(responses).id \notin table  BY <1>5, <2>2 DEF RecvFails
  <2>4. Head(responses) = responses[1]  BY <2>3, AnswerRead DEF CInv, IInv
  <2>5. responses[1].id = Last  BY <1>5, <2>3 DEF CInv, InFlight
  <2> QED  BY <2>1, <2>3, <2>4, <2>5
<1> QED  BY <1>1, <1>2, <1>3, <1>4, <1>5

\* The answers on the way are to calls, and reading one leaves the others.
LEMMA AnswersOfCalls ==
  ASSUME CInv
  PROVE  /\ \A k \in DOMAIN responses : responses[k].id \in DOMAIN calls
         /\ responses # <<>> => \A k \in DOMAIN Tail(responses) :
              k + 1 \in DOMAIN responses /\ Tail(responses)[k] = responses[k + 1]
<1> DEFINE A == [id : 1 .. Last, ok : BOOLEAN]
<1>1. responses \in Seq(A) /\ TypeOK  BY DEF CInv, IInv, TypeOK
<1>2. DOMAIN calls = 1 .. Last
  <2>1. calls \in Seq([func : Funcs, res : Results])  BY <1>1 DEF TypeOK
  <2> QED  BY <2>1, ElementOf, Zenon DEF Last
<1>3. \A k \in DOMAIN responses : responses[k] \in A
  <2> HIDE DEF A
  <2> QED  BY <1>1, ElementOf
<1>4. ASSUME responses # <<>>, NEW k \in DOMAIN Tail(responses)
      PROVE  k + 1 \in DOMAIN responses /\ Tail(responses)[k] = responses[k + 1]
  <2> HIDE DEF A
  <2>1. /\ Tail(responses) \in Seq(A) /\ Len(Tail(responses)) = Len(responses) - 1
        /\ \A l \in 1 .. Len(Tail(responses)) : Tail(responses)[l] = responses[l + 1]
    BY <1>1, <1>4, TailFacts
  <2>2. /\ DOMAIN Tail(responses) = 1 .. Len(responses) - 1
        /\ DOMAIN responses = 1 .. Len(responses) /\ Len(responses) \in Nat
    BY <1>1, <2>1, ElementOf
  <2> QED  BY <1>4, <2>1, <2>2
<1> QED  BY <1>2, <1>3, <1>4

LEMMA AnswerFields ==
  ASSUME NEW r, NEW i, NEW b, r = [id |-> i, ok |-> b]
  PROVE  r.id = i /\ r.ok = b
OBVIOUS

\* Answering adds one answer and leaves the others.
LEMMA AnswerAdded ==
  ASSUME CInv, requests # <<>>, NEW b \in BOOLEAN, NEW c, c = [id |-> Head(requests), ok |-> b]
  PROVE  \A k \in DOMAIN Append(responses, c) :
           (k \in DOMAIN responses /\ Append(responses, c)[k] = responses[k])
           \/ Append(responses, c)[k] = c
<1> DEFINE A == [id : 1 .. Last, ok : BOOLEAN]
<1>1. responses \in Seq(A) /\ c \in A
  BY RequestServed DEF CInv, IInv, TypeOK
<1> HIDE DEF A
<1>2. /\ DOMAIN Append(responses, c) = 1 .. Len(responses) + 1
      /\ DOMAIN responses = 1 .. Len(responses) /\ Len(responses) \in Nat
  BY <1>1, AppendFacts, ElementOf
<1>3. \A k \in 1 .. Len(responses) + 1 : k \in 1 .. Len(responses) \/ k = Len(responses) + 1
  BY <1>2
<1> QED  BY <1>1, <1>2, <1>3, AppendFacts

\* The last call is told its result, for a cause when it failed.
LEMMA FailureKeeps ==
  ASSUME CInv, NEW res, Resolve({Last}, res), broken' = broken, Last \in 1 .. Last,
         res = "ok" \/ (res = "failed" /\ Cause)
  PROVE  FailureHasCause'
<1>1. {Last} \in SUBSET (1 .. Last) /\ res \in Results  BY DEF Results
<1>2. /\ DOMAIN calls' = DOMAIN calls /\ DOMAIN calls = 1 .. Last
      /\ \A i \in DOMAIN calls : calls'[i].func = calls[i].func
      /\ \A i \in DOMAIN calls : calls'[i].res \in {calls[i].res, res}
      /\ \A i \in DOMAIN calls : i # Last => calls'[i].res = calls[i].res
  BY <1>1, ResolveKeeps
<1>3. ASSUME NEW i \in DOMAIN calls', calls'[i].res \in {"failed", "refused"}
      PROVE  broken' \/ \E j \in 1 .. i : calls'[j].func \notin Registered
  <2>1. \A j \in 1 .. i : j \in DOMAIN calls  BY <1>2
  <2>2. CASE calls[i].res \in {"failed", "refused"}
    BY <1>2, <2>1, <2>2 DEF CInv, FailureHasCause
  <2>3. CASE i = Last /\ Cause
    BY <1>2, <2>1, <2>3 DEF Cause
  <2> QED  BY <1>2, <1>3, <2>2, <2>3
<1> QED  BY <1>3 DEF FailureHasCause

LEMMA SocketsStep == ASSUME CInv, [Next]_vars PROVE Sockets'
<1> USE DEF history
<1>1. CASE RpcConnect
  BY <1>1 DEF RpcConnect, CInv, IInv, TypeOK, WaitHasEnd, Calling, Sockets, Last
<1>2. ASSUME NEW f \in Funcs, Refuse(f) PROVE Sockets'
  BY <1>2 DEF Refuse, CInv, IInv, TypeOK, WaitHasEnd, Calling, Sockets, Last
<1>3. ASSUME NEW f \in Funcs, Send(f) PROVE Sockets'
  BY <1>3 DEF Send, CInv, IInv, TypeOK, WaitHasEnd, Calling, Sockets, Last
<1>4. CASE ProcessEnds
  BY <1>4 DEF ProcessEnds, Close, CInv, IInv, TypeOK, WaitHasEnd, Calling, Sockets, Last
<1>5. CASE ConnectDone
  BY <1>5 DEF ConnectDone, CInv, IInv, TypeOK, WaitHasEnd, Calling, Sockets, Last
<1>6. CASE WriteDone
  BY <1>6 DEF WriteDone, CInv, IInv, TypeOK, WaitHasEnd, Calling, Sockets, Last
<1>7. CASE WriteFailed
  BY <1>7 DEF WriteFailed, Close, Resolve, CInv, IInv, TypeOK, WaitHasEnd, Calling, Sockets, Last
<1>8. CASE ReadAnswer
  BY <1>8 DEF ReadAnswer, Close, Resolve, CInv, IInv, TypeOK, WaitHasEnd, Calling, Sockets, Last
<1>9. CASE RecvFails
  BY <1>9 DEF RecvFails, Close, Resolve, CInv, IInv, TypeOK, WaitHasEnd, Calling, Sockets, Last
<1>10. ASSUME NEW t \in Timers, TimedOut(t) PROVE Sockets'
  BY <1>10 DEF TimedOut, Close, CInv, IInv, TypeOK, WaitHasEnd, Calling, Sockets, Last
<1>11. ASSUME NEW t \in Timers, Expire(t) PROVE Sockets'
  BY <1>11 DEF Expire, CInv, IInv, TypeOK, WaitHasEnd, Calling, Sockets, Last
<1>12. CASE Serve
  BY <1>12 DEF Serve, CInv, IInv, TypeOK, WaitHasEnd, Calling, Sockets, Last
<1>13. CASE ServeQuit
  BY <1>13 DEF ServeQuit, Down, CInv, IInv, TypeOK, WaitHasEnd, Calling, Sockets, Last
<1>14. CASE Stop
  BY <1>14 DEF Stop, Down, CInv, IInv, TypeOK, WaitHasEnd, Calling, Sockets, Last
<1>15. CASE Restart
  BY <1>15 DEF Restart, CInv, IInv, TypeOK, WaitHasEnd, Calling, Sockets, Last
<1>16. CASE Drop
  BY <1>16 DEF Drop, CInv, IInv, TypeOK, WaitHasEnd, Calling, Sockets, Last
<1>17. CASE UNCHANGED vars
  BY <1>17 DEF vars, Drop, CInv, IInv, TypeOK, WaitHasEnd, Calling, Sockets, Last
<1> QED
  BY <1>1, <1>2, <1>3, <1>4, <1>5, <1>6, <1>7, <1>8, <1>9, <1>10, <1>11, <1>12, <1>13, <1>14,
     <1>15, <1>16, <1>17
  DEF Next, Call, Internal, Executor, Time, Controller

LEMMA InUseStep == ASSUME CInv, [Next]_vars PROVE InUse'
<1> USE DEF history
<1>1. CASE RpcConnect
  BY <1>1 DEF RpcConnect, CInv, IInv, Calling, InUse, Waits, ConnectTimer, Last
<1>2. ASSUME NEW f \in Funcs, Refuse(f) PROVE InUse'
  <2>1. /\ calls' = Append(calls, [func |-> f, res |-> "refused"]) /\ broken' = broken
        /\ caller = "idle" /\ responses' = responses
    BY <1>2 DEF Refuse
  <2>2. /\ DOMAIN calls = 1 .. Last /\ Last' = Last + 1 /\ Last \in Nat
        /\ \A i \in 1 .. Last : calls'[i] = calls[i]
        /\ calls'[Last + 1] = [func |-> f, res |-> "refused"]
        /\ \A k \in DOMAIN responses : responses[k].id \in 1 .. Last
        /\ Cause => Cause'
    BY <2>1, AddKeeps DEF Results

  <2>3. \A k \in DOMAIN responses' :
          ~responses'[k].ok => calls'[responses'[k].id].func \notin Registered
    BY <2>1, <2>2 DEF CInv, InUse
  <2>4. \A t \in armed' : Waits(t)'
    <3> SUFFICES ASSUME NEW t \in armed' PROVE Waits(t)'
      OBVIOUS
    <3>1. CASE t \in armed
      <4>1. Waits(t) /\ t \in 0 .. Last  BY <3>1 DEF CInv, IInv, TypeOK, InUse
      <4> QED  BY <2>1, <2>2, <4>1 DEF Waits, ConnectTimer
    <3>2. CASE t \notin armed
      BY <1>2, <2>2, <3>2 DEF Refuse, Waits, ConnectTimer
    <3> QED  BY <3>1, <3>2
  <2> QED  BY <2>3, <2>4 DEF InUse
<1>3. ASSUME NEW f \in Funcs, Send(f) PROVE InUse'
  <2>1. /\ calls' = Append(calls, [func |-> f, res |-> "pending"]) /\ broken' = broken
        /\ caller = "idle" /\ responses' = responses
    BY <1>3 DEF Send
  <2>2. /\ DOMAIN calls = 1 .. Last /\ Last' = Last + 1 /\ Last \in Nat
        /\ \A i \in 1 .. Last : calls'[i] = calls[i]
        /\ calls'[Last + 1] = [func |-> f, res |-> "pending"]
        /\ \A k \in DOMAIN responses : responses[k].id \in 1 .. Last
        /\ Cause => Cause'
    BY <2>1, AddKeeps DEF Results

  <2>3. \A k \in DOMAIN responses' :
          ~responses'[k].ok => calls'[responses'[k].id].func \notin Registered
    BY <2>1, <2>2 DEF CInv, InUse
  <2>4. \A t \in armed' : Waits(t)'
    <3> SUFFICES ASSUME NEW t \in armed' PROVE Waits(t)'
      OBVIOUS
    <3>1. CASE t \in armed
      <4>1. Waits(t) /\ t \in 0 .. Last  BY <3>1 DEF CInv, IInv, TypeOK, InUse
      <4> QED  BY <2>1, <2>2, <4>1 DEF Waits, ConnectTimer
    <3>2. CASE t \notin armed
      BY <1>3, <2>2, <3>2 DEF Send, Waits, ConnectTimer
    <3> QED  BY <3>1, <3>2
  <2> QED  BY <2>3, <2>4 DEF InUse
<1>4. CASE ProcessEnds
  BY <1>4 DEF ProcessEnds, Close, CInv, IInv, Calling, InUse, Waits, ConnectTimer, Last
<1>5. CASE ConnectDone
  BY <1>5 DEF ConnectDone, CInv, IInv, Calling, InUse, Waits, ConnectTimer, Last
<1>6. CASE WriteDone
  BY <1>6 DEF WriteDone, CInv, IInv, Calling, InUse, Waits, ConnectTimer, Last
<1>7. CASE WriteFailed
  <2>1. Resolve({Last}, "failed") /\ broken' = broken /\ responses' = responses
    BY <1>7 DEF WriteFailed
  <2>2. {Last} \in SUBSET (1 .. Last) /\ "failed" \in Results
    BY <1>7 DEF WriteFailed, CInv, IInv, TypeOK, Calling, Results
  <2>3. /\ \A t \in armed' : Waits(t)'
        /\ \A i \in DOMAIN calls : calls'[i].func = calls[i].func
        /\ \A k \in DOMAIN responses : responses[k].id \in DOMAIN calls
    BY <2>1, <2>2, ResolveKeeps, AnswersOfCalls
  <2> QED  BY <2>1, <2>3 DEF CInv, InUse
<1>8. CASE ReadAnswer
  <2> DEFINE r == Head(responses)
             res == IF r.ok THEN "ok" ELSE "failed"
  <2>1. /\ responses # <<>> /\ r.id \in table /\ Resolve({r.id}, res)
        /\ broken' = broken /\ responses' = Tail(responses)
    BY <1>8 DEF ReadAnswer
  <2>2. {r.id} \in SUBSET (1 .. Last) /\ res \in Results
    BY <2>1 DEF CInv, IInv, TypeOK, Results
  <2>3. /\ \A t \in armed' : Waits(t)'
        /\ \A i \in DOMAIN calls : calls'[i].func = calls[i].func
        /\ \A k \in DOMAIN responses : responses[k].id \in DOMAIN calls
    BY <2>1, <2>2, ResolveKeeps, AnswersOfCalls
  <2>4. \A k \in DOMAIN responses' :
          k + 1 \in DOMAIN responses /\ responses'[k] = responses[k + 1]
    BY <2>1, AnswersOfCalls
  <2> QED  BY <2>3, <2>4 DEF CInv, InUse
<1>9. CASE RecvFails
  <2>1. Resolve(table, "failed") /\ broken' = broken /\ responses' = responses
    BY <1>9 DEF RecvFails
  <2>2. table \in SUBSET (1 .. Last) /\ "failed" \in Results
    BY <1>9 DEF RecvFails, CInv, IInv, TypeOK, Calling, Results
  <2>3. /\ \A t \in armed' : Waits(t)'
        /\ \A i \in DOMAIN calls : calls'[i].func = calls[i].func
        /\ \A k \in DOMAIN responses : responses[k].id \in DOMAIN calls
    BY <2>1, <2>2, ResolveKeeps, AnswersOfCalls
  <2> QED  BY <2>1, <2>3 DEF CInv, InUse
<1>10. ASSUME NEW t \in Timers, TimedOut(t) PROVE InUse'
  BY <1>10 DEF TimedOut, Close, CInv, IInv, Calling, InUse, Waits, ConnectTimer, Last
<1>11. ASSUME NEW t \in Timers, Expire(t) PROVE InUse'
  BY <1>11 DEF Expire, CInv, IInv, Calling, InUse, Waits, ConnectTimer, Last
<1>12. CASE Serve
  <2>1. /\ requests # <<>> /\ calls' = calls /\ armed' = armed /\ caller' = caller
        /\ responses' = IF socket = "open"
                        THEN Append(responses, [id |-> Head(requests),
                                                ok |-> calls[Head(requests)].func \in Registered])
                        ELSE responses
    BY <1>12 DEF Serve
  <2>2. \A k \in DOMAIN responses' :
          (k \in DOMAIN responses /\ responses'[k] = responses[k])
          \/ responses'[k] = [id |-> Head(requests), ok |-> calls[Head(requests)].func \in Registered]
    BY <2>1, AnswerAdded
  <2>3. \A k \in DOMAIN responses' :
          ~responses'[k].ok => calls'[responses'[k].id].func \notin Registered
    <3> SUFFICES ASSUME NEW k \in DOMAIN responses', ~responses'[k].ok
                 PROVE  calls[responses'[k].id].func \notin Registered
      BY <2>1
    <3>1. CASE k \in DOMAIN responses /\ responses'[k] = responses[k]
      BY <3>1 DEF CInv, InUse
    <3>2. CASE responses'[k] = [id |-> Head(requests), ok |-> calls[Head(requests)].func \in Registered]
      <4>1. PICK b : b = (calls[Head(requests)].func \in Registered)  OBVIOUS
      <4>2. responses'[k] = [id |-> Head(requests), ok |-> b]  BY <3>2, <4>1
      <4>3. responses'[k].id = Head(requests) /\ responses'[k].ok = b
        BY <4>2, AnswerFields
      <4> QED  BY <4>1, <4>3, Zenon
    <3> QED  BY <2>2, <3>1, <3>2
  <2>4. \A t \in armed' : Waits(t)'
    BY <2>1 DEF CInv, InUse, Waits
  <2> QED  BY <2>3, <2>4 DEF InUse
<1>13. CASE ServeQuit
  BY <1>13 DEF ServeQuit, Down, CInv, IInv, Calling, InUse, Waits, ConnectTimer, Last
<1>14. CASE Stop
  BY <1>14 DEF Stop, Down, CInv, IInv, Calling, InUse, Waits, ConnectTimer, Last
<1>15. CASE Restart
  BY <1>15 DEF Restart, CInv, IInv, Calling, InUse, Waits, ConnectTimer, Last
<1>16. CASE Drop
  BY <1>16 DEF Drop, CInv, IInv, Calling, InUse, Waits, ConnectTimer, Last
<1>17. CASE UNCHANGED vars
  BY <1>17 DEF vars, Drop, CInv, IInv, Calling, InUse, Waits, ConnectTimer, Last
<1> QED
  BY <1>1, <1>2, <1>3, <1>4, <1>5, <1>6, <1>7, <1>8, <1>9, <1>10, <1>11, <1>12, <1>13, <1>14,
     <1>15, <1>16, <1>17
  DEF Next, Call, Internal, Executor, Time, Controller

LEMMA InFlightStep == ASSUME CInv, [Next]_vars PROVE InFlight'
<1> USE DEF history
<1>1. CASE RpcConnect
  BY <1>1 DEF RpcConnect, CInv, IInv, WaitHasEnd, Calling, Sockets, InUse, InFlight, Cause,
     Waits, Last
<1>2. ASSUME NEW f \in Funcs, Refuse(f) PROVE InFlight'
  <2>1. calls' = Append(calls, [func |-> f, res |-> "refused"]) /\ broken' = broken
    BY <1>2 DEF Refuse
  <2>2. Cause => Cause'  BY <2>1, AddKeeps DEF Results
  <2> QED  BY <1>2, <2>2, LossHasCause DEF InFlight
<1>3. ASSUME NEW f \in Funcs, Send(f) PROVE InFlight'
  <2>1. /\ calls' = Append(calls, [func |-> f, res |-> "pending"]) /\ broken' = broken
        /\ caller = "idle" /\ ~hasClosed
        /\ requests' = IF socket = "open" THEN Append(requests, Last + 1) ELSE requests
        /\ UNCHANGED <<socket, hasClosed, expired, responses>>
    BY <1>3 DEF Send
  <2>2. /\ DOMAIN calls = 1 .. Last /\ Last' = Last + 1 /\ Last \in Nat
        /\ \A i \in 1 .. Last : calls'[i] = calls[i]
        /\ calls'[Last + 1] = [func |-> f, res |-> "pending"]
        /\ \A k \in DOMAIN responses : responses[k].id \in 1 .. Last
        /\ Cause => Cause'
    BY <2>1, AddKeeps DEF Results

  <2>3. ASSUME ~Cause PROVE requests = <<>> /\ responses = <<>>
    <3>1. calls # <<>> => Last \in DOMAIN calls  BY <2>2 DEF Last
    <3> QED  BY <2>1, <2>3, <3>1 DEF CInv, IInv, WaitHasEnd, InFlight
  <2>4. ASSUME ~Cause PROVE requests' \in {<<>>, <<Last'>>} /\ responses' = <<>>
    BY <2>1, <2>2, <2>3, <2>4
  <2>5. calls' # <<>> /\ calls'[Last'].res = "pending"
    BY <2>1, <2>2
  <2>6. ASSUME ~Cause' PROVE expired' = {} /\ socket' \notin {"lost", "unconnected"} /\ ~hasClosed'
    BY <2>1, <2>2, <2>6 DEF CInv, InFlight
  <2> QED  BY <2>2, <2>4, <2>5, <2>6 DEF InFlight
<1>4. CASE ProcessEnds
  BY <1>4 DEF ProcessEnds, Close, CInv, IInv, WaitHasEnd, Calling, Sockets, InUse, InFlight,
     Cause, Waits, Last
<1>5. CASE ConnectDone
  BY <1>5 DEF ConnectDone, CInv, IInv, TypeOK, WaitHasEnd, Calling, Sockets, InUse, InFlight,
     Cause, Waits, Last
<1>6. CASE WriteDone
  BY <1>6 DEF WriteDone, CInv, IInv, WaitHasEnd, Calling, Sockets, InUse, InFlight, Cause,
     Waits, Last
<1>7. CASE WriteFailed
  BY <1>7 DEF WriteFailed, Close, Resolve, CInv, IInv, TypeOK, WaitHasEnd, Calling, Sockets,
     InUse, InFlight, Cause, Waits, Last
<1>8. CASE ReadAnswer
  <2> SUFFICES ASSUME ~Cause' PROVE /\ expired' = {} /\ socket' \notin {"lost", "unconnected"}
                                    /\ hasClosed' => caller' = "ended"
                                    /\ requests' = <<>> /\ responses' = <<>>
    BY DEF InFlight
  <2> DEFINE r == Head(responses)
             res == IF r.ok THEN "ok" ELSE "failed"
  <2>1. /\ responses # <<>> /\ r.id \in table /\ Resolve({r.id}, res)
        /\ broken' = broken /\ responses' = Tail(responses)
        /\ requests' = requests /\ expired' = expired
        /\ r.ok => UNCHANGED <<socket, hasClosed>>
    BY <1>8 DEF ReadAnswer
  <2>2. {r.id} \in SUBSET (1 .. Last) /\ res \in Results
    BY <2>1 DEF CInv, IInv, TypeOK, Results
  <2>3. ~Cause  BY <2>1, <2>2, ResolveKeeps
  <2>4. r.ok  BY <1>8, <2>3, LossHasCause
  <2>5. caller = "wait"  BY <2>1 DEF CInv, IInv, WaitHasEnd
  <2>6. ~hasClosed' /\ socket' \notin {"lost", "unconnected"} /\ expired' = {} /\ requests' = <<>>
    BY <2>1, <2>3, <2>4, <2>5 DEF CInv, InFlight
  <2>7. responses' = <<>>
    <3>1. Len(responses) = 1  BY <2>1, <2>3 DEF CInv, InFlight
    <3> QED  BY <2>1, <3>1, TailOfOne DEF CInv, IInv, TypeOK
  <2> QED  BY <2>6, <2>7
<1>9. CASE RecvFails
  BY <1>9 DEF RecvFails, Close, Resolve, CInv, IInv, WaitHasEnd, Calling, Sockets, InUse,
     InFlight, Cause, Waits, Last
<1>10. ASSUME NEW t \in Timers, TimedOut(t) PROVE InFlight'
  BY <1>10 DEF TimedOut, Close, CInv, IInv, WaitHasEnd, Calling, Sockets, InUse, InFlight,
     Cause, Waits, Last
<1>11. ASSUME NEW t \in Timers, Expire(t) PROVE InFlight'
  BY <1>11 DEF Expire, CInv, IInv, WaitHasEnd, Calling, Sockets, InUse, InFlight, Cause, Waits,
     Last
<1>12. CASE Serve
  <2> SUFFICES ASSUME ~Cause' PROVE InFlight'
    BY DEF InFlight
  <2>1. /\ requests # <<>> /\ calls' = calls /\ broken' = broken /\ requests' = Tail(requests)
        /\ responses' = IF socket = "open"
                        THEN Append(responses, [id |-> Head(requests),
                                                ok |-> calls[Head(requests)].func \in Registered])
                        ELSE responses
        /\ UNCHANGED <<socket, hasClosed, caller, expired>>
    BY <1>12 DEF Serve
  <2>2. ~Cause /\ Last' = Last  BY <2>1 DEF Cause, Last
  <2>3. requests = <<Last>> /\ responses = <<>> /\ calls # <<>> /\ calls[Last].res = "pending"
    BY <2>1, <2>2 DEF CInv, InFlight
  <2>4. requests' = <<>> /\ Head(requests) = Last  BY <2>1, <2>3
  <2>5. responses' = <<>> \/ (Len(responses') = 1 /\ responses'[1].id = Last)
    BY <2>1, <2>3, <2>4
  <2>6. expired' = {} /\ socket' \notin {"lost", "unconnected"} /\ (hasClosed' => caller' = "ended")
    BY <2>1, <2>2 DEF CInv, InFlight
  <2> QED  BY <2>1, <2>2, <2>3, <2>4, <2>5, <2>6 DEF InFlight
<1>13. CASE ServeQuit
  BY <1>13 DEF ServeQuit, Down, CInv, IInv, WaitHasEnd, Calling, Sockets, InUse, InFlight,
     Cause, Waits, Last
<1>14. CASE Stop
  BY <1>14 DEF Stop, Down, CInv, IInv, WaitHasEnd, Calling, Sockets, InUse, InFlight, Cause,
     Waits, Last
<1>15. CASE Restart
  BY <1>15 DEF Restart, CInv, IInv, WaitHasEnd, Calling, Sockets, InUse, InFlight, Cause,
     Waits, Last
<1>16. CASE Drop
  BY <1>16 DEF Drop, CInv, IInv, WaitHasEnd, Calling, Sockets, InUse, InFlight, Cause, Waits, Last
<1>17. CASE UNCHANGED vars
  BY <1>17 DEF vars, Drop, CInv, IInv, WaitHasEnd, Calling, Sockets, InUse, InFlight, Cause,
     Waits, Last
<1> QED
  BY <1>1, <1>2, <1>3, <1>4, <1>5, <1>6, <1>7, <1>8, <1>9, <1>10, <1>11, <1>12, <1>13, <1>14,
     <1>15, <1>16, <1>17
  DEF Next, Call, Internal, Executor, Time, Controller

LEMMA CauseStep == ASSUME CInv, [Next]_vars PROVE FailureHasCause'
<1> USE DEF history
<1>1. CASE RpcConnect
  BY <1>1 DEF RpcConnect, CInv, Cause, FailureHasCause, Last
<1>2. ASSUME NEW f \in Funcs, Refuse(f) PROVE FailureHasCause'
  <2>1. calls' = Append(calls, [func |-> f, res |-> "refused"]) /\ broken' = broken
    BY <1>2 DEF Refuse
  <2>2. /\ DOMAIN calls = 1 .. Last /\ Last \in Nat /\ DOMAIN calls' = 1 .. Last + 1
        /\ \A i \in 1 .. Last : calls'[i] = calls[i]
    BY <2>1, AddKeeps DEF Results
  <2>3. Cause  BY <1>2, LossHasCause
  <2>4. ASSUME NEW i \in DOMAIN calls', calls'[i].res \in {"failed", "refused"}
        PROVE  broken' \/ \E j \in 1 .. i : calls'[j].func \notin Registered
    <3>1. CASE i \in 1 .. Last
      BY <2>1, <2>2, <2>4, <3>1 DEF CInv, FailureHasCause
    <3>2. CASE i = Last + 1
      <4>1. \A j \in DOMAIN calls : j \in 1 .. i /\ calls'[j] = calls[j]  BY <2>2, <3>2
      <4> QED  BY <2>1, <2>3, <4>1 DEF Cause
    <3> QED  BY <2>2, <3>1, <3>2
  <2> QED  BY <2>4 DEF FailureHasCause
<1>3. ASSUME NEW f \in Funcs, Send(f) PROVE FailureHasCause'
  BY <1>3 DEF Send, CInv, Cause, FailureHasCause, Last
<1>4. CASE ProcessEnds
  BY <1>4 DEF ProcessEnds, Close, CInv, Cause, FailureHasCause, Last
<1>5. CASE ConnectDone
  BY <1>5 DEF ConnectDone, CInv, Cause, FailureHasCause, Last
<1>6. CASE WriteDone
  BY <1>6 DEF WriteDone, CInv, Cause, FailureHasCause, Last
<1>7. CASE WriteFailed
  <2>1. Resolve({Last}, "failed") /\ broken' = broken /\ Last \in 1 .. Last
    BY <1>7, LossHasCause DEF WriteFailed, CInv, IInv, TypeOK, Calling
  <2>2. Cause  BY <1>7, LossHasCause
  <2> QED  BY <2>1, <2>2, FailureKeeps
<1>8. CASE ReadAnswer
  <2> DEFINE r == Head(responses)
             res == IF r.ok THEN "ok" ELSE "failed"
  <2>1. Resolve({r.id}, res) /\ broken' = broken /\ r.id \in table
    BY <1>8 DEF ReadAnswer
  <2>2. r.id = Last /\ Last \in 1 .. Last  BY <2>1, LossHasCause
  <2>3. res = "ok" \/ (res = "failed" /\ Cause)
    <3>1. CASE r.ok  BY <3>1
    <3>2. CASE ~r.ok  BY <1>8, <3>2, LossHasCause
    <3> QED  BY <3>1, <3>2
  <2> QED  BY <2>1, <2>2, <2>3, FailureKeeps
<1>9. CASE RecvFails
  <2>1. Resolve({Last}, "failed") /\ broken' = broken /\ Last \in 1 .. Last
    BY <1>9, LossHasCause DEF RecvFails, CInv, IInv, TypeOK, Calling
  <2>2. Cause  BY <1>9, LossHasCause
  <2> QED  BY <2>1, <2>2, FailureKeeps
<1>10. ASSUME NEW t \in Timers, TimedOut(t) PROVE FailureHasCause'
  BY <1>10 DEF TimedOut, Close, CInv, Cause, FailureHasCause, Last
<1>11. ASSUME NEW t \in Timers, Expire(t) PROVE FailureHasCause'
  BY <1>11 DEF Expire, CInv, Cause, FailureHasCause, Last
<1>12. CASE Serve
  BY <1>12 DEF Serve, CInv, Cause, FailureHasCause, Last
<1>13. CASE ServeQuit
  BY <1>13 DEF ServeQuit, Down, CInv, Cause, FailureHasCause, Last
<1>14. CASE Stop
  BY <1>14 DEF Stop, Down, CInv, Cause, FailureHasCause, Last
<1>15. CASE Restart
  BY <1>15 DEF Restart, CInv, Cause, FailureHasCause, Last
<1>16. CASE Drop
  BY <1>16 DEF Drop, CInv, Cause, FailureHasCause, Last
<1>17. CASE UNCHANGED vars
  BY <1>17 DEF vars, Drop, CInv, Cause, FailureHasCause, Last
<1> QED
  BY <1>1, <1>2, <1>3, <1>4, <1>5, <1>6, <1>7, <1>8, <1>9, <1>10, <1>11, <1>12, <1>13, <1>14,
     <1>15, <1>16, <1>17
  DEF Next, Call, Internal, Executor, Time, Controller

LEMMA CauseInit == ASSUME Init PROVE CInv
<1>1. IInv  BY InvInit
<1> QED  BY <1>1 DEF Init, CInv, Sockets, InUse, InFlight, FailureHasCause

\* No call fails or is refused while time was never up, the controller never went away and
\* no unknown function was called.
THEOREM FailuresHaveCauses == Spec => []FailureHasCause
<1>1. CInv /\ [Next]_vars => CInv'
  BY InvStep, SocketsStep, InUseStep, InFlightStep, CauseStep DEF CInv
<1>2. CInv => FailureHasCause  BY DEF CInv
<1> QED  BY <1>1, <1>2, CauseInit, PTL DEF Spec
=============================================================================
