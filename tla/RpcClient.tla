------------------------------ MODULE RpcClient ------------------------------
(***************************************************************************)
(* The way of a command from the cli process to the controller: the        *)
(* wrappers of cli/src/rpc_client.cpp, the one coro_rpc_client they share  *)
(* (include/ylt/coro_rpc/impl/coro_rpc_client.hpp) and the connection of   *)
(* the controller's coro_rpc_server (coro_connection.hpp, router.hpp).     *)
(*                                                                         *)
(* Three threads take part.  The io thread of the cli process makes the    *)
(* calls, one at a time: it blocks in syncAwait until a call has ended.    *)
(* The executor thread of the client completes connects, writes, reads and *)
(* timers.  A thread of the controller reads the requests of a connection  *)
(* and answers each before it reads the next.                              *)
(*                                                                         *)
(* rpc_connect is called once, and only connect clears has_closed_: once   *)
(* the client has closed its socket, for whatever reason, every later call *)
(* is refused.                                                             *)
(***************************************************************************)
EXTENDS Integers, Sequences

CONSTANTS
  Funcs,       \* the functions of rpc_client.cpp
  Registered,  \* those that main.cpp registers at the server
  Quit,        \* quitApp, which ends the controller instead of answering
  MaxCalls,    \* bound of the model: the calls made
  Faulty       \* TRUE: timers may expire, the controller may be down or end

ASSUME RpcAssumption ==
  /\ Registered \subseteq Funcs
  /\ Quit \in Funcs => Quit \in Registered
  /\ MaxCalls \in Nat
  /\ Faulty \in BOOLEAN

VARIABLES
  server,     \* the controller process: "up" or "off"
  socket,     \* the client's socket
  hasClosed,  \* control_t::has_closed_
  caller,     \* where the io thread is
  table,      \* control_t::response_handler_table_: request ids; not empty: recv runs
  armed,      \* timers that run: of a request, by its id, or of the connect, 0
  expired,    \* timers that have expired and whose completion is queued
  requests,   \* sent and not yet read by the controller
  responses,  \* answered and not yet read by the client
  calls,      \* history: the calls, in order; call i has request id i
  done,       \* history: the calls the controller executed, in that order
  broken      \* history: time was up for a call, or the controller was off

vars == <<server, socket, hasClosed, caller, table, armed, expired, requests,
          responses, calls, done, broken>>
history == <<calls, done, broken>>

ConnectTimer == 0
Last == Len(calls)

Init ==
  /\ server \in IF Faulty THEN {"up", "off"} ELSE {"up"}
  /\ socket = "new" /\ hasClosed = FALSE /\ caller = "start"
  /\ table = {} /\ armed = {} /\ expired = {}
  /\ requests = <<>> /\ responses = <<>>
  /\ calls = <<>> /\ done = <<>> /\ broken = FALSE

-----------------------------------------------------------------------------
(* Shared pieces of the client. *)

\* close_socket_async; the socket's close is dispatched to the executor, where it runs at once.
Close == hasClosed' = TRUE /\ socket' = "closed"

\* The promise of the pending calls is set, their timers are cancelled and the io thread goes on.
Resolve(ids, res) ==
  /\ calls' = [i \in DOMAIN calls |-> IF i \in ids THEN [calls[i] EXCEPT !.res = res]
                                                   ELSE calls[i]]
  /\ armed' = armed \ ids
  /\ caller' = IF Last \in ids THEN "idle" ELSE caller

-----------------------------------------------------------------------------
(* The io thread. *)

\* rpc_connect, called by CliCar::initCliCommand: the timer starts before the connect.
RpcConnect ==
  /\ caller = "start"
  /\ caller' = "connect"
  /\ socket' = "connecting"
  /\ hasClosed' = FALSE
  /\ armed' = armed \cup {ConnectTimer}
  /\ UNCHANGED <<server, table, expired, requests, responses, history>>

\* Mutant of Refuse: the request is written before has_closed_ is looked at.
RefuseLate(f) ==
  /\ caller = "idle" /\ Last < MaxCalls /\ hasClosed
  /\ calls' = Append(calls, [func |-> f, res |-> "refused"])
  /\ requests' = Append(requests, Last + 1)
  /\ UNCHANGED <<server, socket, hasClosed, caller, table, armed, expired,
                 responses, done, broken>>

\* send_request: a client that has closed its socket refuses the call.
Refuse(f) ==
  /\ caller = "idle" /\ Last < MaxCalls
  /\ hasClosed
  /\ calls' = Append(calls, [func |-> f, res |-> "refused"])
  /\ UNCHANGED <<server, socket, hasClosed, caller, table, armed, expired,
                 requests, responses, done, broken>>

\* Mutants of Send: the id is advanced again for the header; the timer is forgotten; a
\* closed client connects again, and its new connection is served before the old one.
SendNextId(f) ==
  /\ caller = "idle" /\ Last < MaxCalls /\ ~hasClosed
  /\ calls' = Append(calls, [func |-> f, res |-> "pending"])
  /\ armed' = armed \cup {Last + 1}
  /\ requests' = IF socket = "open" THEN Append(requests, Last + 2) ELSE requests
  /\ caller' = "write"
  /\ UNCHANGED <<server, socket, hasClosed, table, expired, responses, done, broken>>
SendNoTimer(f) ==
  /\ caller = "idle" /\ Last < MaxCalls /\ ~hasClosed
  /\ calls' = Append(calls, [func |-> f, res |-> "pending"])
  /\ requests' = IF socket = "open" THEN Append(requests, Last + 1) ELSE requests
  /\ caller' = "write"
  /\ UNCHANGED <<server, socket, hasClosed, table, armed, expired, responses, done, broken>>
SendReconnects(f) ==
  /\ caller = "idle" /\ Last < MaxCalls
  /\ calls' = Append(calls, [func |-> f, res |-> "pending"])
  /\ armed' = armed \cup {Last + 1}
  /\ hasClosed' = FALSE /\ socket' = "open"
  /\ requests' = <<Last + 1>> \o requests
  /\ caller' = "write"
  /\ UNCHANGED <<server, table, expired, responses, done, broken>>

\* send_request: the request's timer starts, and the write is begun; a small request is
\* with the controller's host at once when there is a connection.
Send(f) ==
  /\ caller = "idle" /\ Last < MaxCalls
  /\ ~hasClosed
  /\ calls' = Append(calls, [func |-> f, res |-> "pending"])
  /\ armed' = armed \cup {Last + 1}
  /\ requests' = IF socket = "open" THEN Append(requests, Last + 1) ELSE requests
  /\ caller' = "write"
  /\ UNCHANGED <<server, socket, hasClosed, table, expired, responses, done, broken>>

Call(f) == Refuse(f) \/ Send(f)

\* std::exit: the socket is closed with the process.
ProcessEnds ==
  /\ caller = "idle"
  /\ caller' = "ended"
  /\ Close
  /\ UNCHANGED <<server, table, armed, expired, requests, responses, history>>

-----------------------------------------------------------------------------
(* The executor thread of the client. *)

\* connect_impl after async_connect: connected, refused, or closed by the timer meanwhile.
ConnectDone ==
  /\ caller = "connect"
  /\ caller' = "idle"
  /\ armed' = armed \ {ConnectTimer}
  /\ socket' = CASE socket = "closed" -> "closed"
                 [] socket # "closed" /\ server = "up" -> "open"
                 [] OTHER -> "unconnected"
  /\ broken' = (broken \/ server = "off")
  /\ UNCHANGED <<server, hasClosed, table, expired, requests, responses, calls, done>>

\* send_impl and send_request after the write: the handler is entered in the table; recv
\* is started when it is the only one.
WriteDone ==
  /\ caller = "write"
  /\ socket \in {"open", "lost", "closed"}
  /\ table' = table \cup {Last}
  /\ caller' = "wait"
  /\ UNCHANGED <<server, socket, hasClosed, armed, expired, requests, responses, history>>

\* send_impl: the write has failed; the client closes itself.
WriteFailed ==
  /\ caller = "write"
  /\ socket # "open"
  /\ Close
  /\ Resolve({Last}, "failed")
  /\ UNCHANGED <<server, table, expired, requests, responses, done, broken>>

\* Mutant of ReadAnswer: the timer of the answered request runs on.
ReadAnswerKeepsTimer ==
  /\ table # {} /\ socket \in {"open", "lost"} /\ responses # <<>>
  /\ LET r == Head(responses)
     IN  /\ r.id \in table
         /\ table' = table \ {r.id}
         /\ calls' = [calls EXCEPT ![r.id].res = IF r.ok THEN "ok" ELSE "failed"]
         /\ caller' = "idle"
         /\ IF r.ok THEN UNCHANGED <<socket, hasClosed>> ELSE Close
  /\ responses' = Tail(responses)
  /\ UNCHANGED <<server, armed, expired, requests, done, broken>>

\* recv, a response to a request of the table; an error that is not the function's own
\* (function_not_registered) makes deserialize_rpc_result close the client.
ReadAnswer ==
  /\ table # {} /\ socket \in {"open", "lost"} /\ responses # <<>>
  /\ LET r == Head(responses)
     IN  /\ r.id \in table
         /\ table' = table \ {r.id}
         /\ Resolve({r.id}, IF r.ok THEN "ok" ELSE "failed")
         /\ IF r.ok THEN UNCHANGED <<socket, hasClosed>> ELSE Close
  /\ responses' = Tail(responses)
  /\ UNCHANGED <<server, expired, requests, done, broken>>

\* Mutant of RecvFails: the requests that wait are not told.
RecvFailsSilently ==
  /\ table # {} /\ socket \in {"lost", "closed"}
  /\ Close
  /\ table' = {}
  /\ UNCHANGED <<server, caller, armed, expired, requests, responses, history>>

\* recv ends: the socket is closed or at its end, or the id is not in the table; the client
\* closes itself and send_err_response fails every request that waits.
RecvFails ==
  /\ table # {}
  /\ \/ socket = "closed"
     \/ socket = "lost" /\ responses = <<>>
     \/ socket \in {"open", "lost"} /\ responses # <<>> /\ Head(responses).id \notin table
  /\ Close
  /\ Resolve(table, "failed")
  /\ table' = {}
  /\ UNCHANGED <<server, expired, requests, responses, done, broken>>

\* Mutant of TimedOut: the socket is left open.
TimedOutLeaves(t) ==
  /\ t \in expired
  /\ expired' = expired \ {t}
  /\ UNCHANGED <<server, socket, hasClosed, caller, table, armed, requests, responses, history>>

\* timeout: the completion of an expired timer, which a cancel does not take back.
TimedOut(t) ==
  /\ t \in expired
  /\ expired' = expired \ {t}
  /\ Close
  /\ UNCHANGED <<server, caller, table, armed, requests, responses, history>>

-----------------------------------------------------------------------------
(* Time, and the controller. *)

Waits(t) == IF t = ConnectTimer THEN caller = "connect" ELSE calls[t].res = "pending"

\* Thirty seconds have passed since the timer was started.
Expire(t) ==
  /\ Faulty
  /\ t \in armed
  /\ armed' = armed \ {t}
  /\ expired' = expired \cup {t}
  /\ broken' = (broken \/ Waits(t))
  /\ UNCHANGED <<server, socket, hasClosed, caller, table, requests, responses, calls, done>>

\* start_impl: the next request is read, routed and answered.
Serve ==
  /\ server = "up" /\ requests # <<>>
  /\ LET i == Head(requests)
         registered == calls[i].func \in Registered
     IN  /\ calls[i].func # Quit
         /\ done' = IF registered THEN Append(done, i) ELSE done
         /\ responses' = IF socket = "open"
                         THEN Append(responses, [id |-> i, ok |-> registered])
                         ELSE responses
  /\ requests' = Tail(requests)
  /\ UNCHANGED <<server, socket, hasClosed, caller, table, armed, expired, calls, broken>>

\* The connection ends with the controller; answers on the way may still arrive.
Down ==
  /\ server' = "off"
  /\ requests' = <<>>
  /\ responses' \in {responses, <<>>}
  /\ socket' = IF socket = "open" THEN "lost" ELSE socket
  /\ broken' = TRUE

\* quitApp: exit is called in the handler, there is no answer.
ServeQuit ==
  /\ server = "up" /\ requests # <<>>
  /\ calls[Head(requests)].func = Quit
  /\ done' = Append(done, Head(requests))
  /\ Down
  /\ UNCHANGED <<hasClosed, caller, table, armed, expired, calls>>

\* The controller is killed or crashes.
Stop ==
  /\ Faulty
  /\ server = "up"
  /\ Down
  /\ UNCHANGED <<hasClosed, caller, table, armed, expired, calls, done>>

\* The controller is started, again or for the first time.
Restart ==
  /\ server = "off"
  /\ server' = "up"
  /\ UNCHANGED <<socket, hasClosed, caller, table, armed, expired, requests, responses, history>>

\* The client has closed its socket: the controller reads what was sent before, or loses it.
Drop ==
  /\ socket = "closed" /\ requests # <<>>
  /\ requests' = <<>>
  /\ UNCHANGED <<server, socket, hasClosed, caller, table, armed, expired, responses, history>>

-----------------------------------------------------------------------------
Timers == 0 .. MaxCalls
Executor ==
  \/ ConnectDone \/ WriteDone \/ WriteFailed \/ ReadAnswer \/ RecvFails
  \/ \E t \in Timers : TimedOut(t)
Time == \E t \in Timers : Expire(t)
Controller == Serve \/ ServeQuit \/ Stop \/ Restart \/ Drop

Internal == Executor \/ Time \/ Controller

Next == RpcConnect \/ (\E f \in Funcs : Call(f)) \/ ProcessEnds \/ Internal

Spec == Init /\ [][Next]_vars

\* The executor runs what is ready, and time passes.  Nothing is assumed of the controller.
Fairness == WF_vars(RpcConnect) /\ WF_vars(Executor) /\ WF_vars(Time)
FairSpec == Spec /\ Fairness
-----------------------------------------------------------------------------
Results == {"pending", "ok", "failed", "refused"}

(* The variables have their types; requests, answers and timers name calls that were made. *)
TypeOK ==
  /\ server \in {"up", "off"}
  /\ socket \in {"new", "connecting", "open", "unconnected", "lost", "closed"}
  /\ hasClosed \in BOOLEAN
  /\ caller \in {"start", "connect", "idle", "write", "wait", "ended"}
  /\ calls \in Seq([func : Funcs, res : Results])
  /\ done \in Seq(1 .. Last) /\ requests \in Seq(1 .. Last)
  /\ responses \in Seq([id : 1 .. Last, ok : BOOLEAN])
  /\ table \subseteq 1 .. Last
  /\ armed \subseteq 0 .. Last /\ expired \subseteq 0 .. Last
  /\ broken \in BOOLEAN

(* A waiting io thread can always be woken: its call, and no other, is in   *)
(* the table, and its timer runs, or has expired and will close the socket, *)
(* or the socket is closed and recv will fail.  No call before it still     *)
(* waits.                                                                   *)
WaitHasEnd ==
  /\ caller = "wait" =>
       /\ table = {Last} /\ calls[Last].res = "pending"
       /\ Last \in armed \cup expired \/ socket = "closed"
  /\ caller # "wait" => table = {}
  /\ \A i \in DOMAIN calls : calls[i].res = "pending" => i = Last /\ caller \in {"write", "wait"}

(* A call fails, or is refused, only for a reason: time was up for a call,   *)
(* the controller was off, or this call or an earlier one was to a function  *)
(* the controller does not have.  The client does not close itself over an   *)
(* answer that came, or a timer of a call that has ended.                    *)
FailureHasCause ==
  \A i \in DOMAIN calls : calls[i].res \in {"failed", "refused"} =>
    broken \/ \E j \in 1 .. i : calls[j].func \notin Registered

(* The promise of the path, RemoteCall: executed at most once and in order,  *)
(* "ok" only when executed, and never executed when refused.                 *)
Abstract == INSTANCE RemoteCall
ImplementsRemoteCall == Abstract!Spec

(* syncAwait comes back: the io thread, which every interface of the cli     *)
(* process runs on, is not blocked for ever, whatever the controller does.   *)
EveryCallReturns == caller \notin {"idle", "ended"} ~> caller = "idle"
=============================================================================
