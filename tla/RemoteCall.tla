----------------------------- MODULE RemoteCall -----------------------------
(***************************************************************************)
(* What a caller may rely on when it calls a function of the controller    *)
(* from another process: an abstract specification, without sockets,       *)
(* timers or threads.  Calls are made one after another.  A call that has  *)
(* been sent is executed at most once, in the order of the calls, possibly *)
(* after the caller was told that it failed; it is answered "ok" only      *)
(* after it was executed; a call that was refused is never executed.       *)
(***************************************************************************)
EXTENDS Naturals, Sequences

CONSTANTS
  Funcs,       \* the functions a caller knows
  Registered   \* the functions the controller has registered

VARIABLES
  calls,  \* the calls so far: what was called, and what the caller was told
  done    \* the numbers of the calls that were executed, in that order

vars == <<calls, done>>

Idle == calls # <<>> => calls[Len(calls)].res # "pending"

Init == calls = <<>> /\ done = <<>>

\* The caller makes a call; it is sent, or refused at once.
Issue(f) ==
  /\ Idle
  /\ \E res \in {"pending", "refused"} : calls' = Append(calls, [func |-> f, res |-> res])
  /\ UNCHANGED done

\* The controller executes call i: not twice, and no earlier call afterwards.
Execute(i) ==
  /\ calls[i].func \in Registered
  /\ calls[i].res # "refused"
  /\ \A k \in DOMAIN done : done[k] < i
  /\ done' = Append(done, i)
  /\ UNCHANGED calls

\* The caller is told how its call ended.
Return ==
  LET i == Len(calls)
  IN  /\ ~Idle
      /\ \E res \in {"ok", "failed"} :
           /\ res = "ok" => \E k \in DOMAIN done : done[k] = i
           /\ calls' = [calls EXCEPT ![i].res = res]
      /\ UNCHANGED done

Next ==
  \/ \E f \in Funcs : Issue(f)
  \/ \E i \in DOMAIN calls : Execute(i)
  \/ Return

Spec == Init /\ [][Next]_vars

(* What a caller may conclude: calls are executed in their order, none      *)
(* twice; an answered call was executed; a refused one never is.            *)
Promise ==
  /\ \A k, l \in DOMAIN done : k < l => done[k] < done[l]
  /\ \A i \in DOMAIN calls : calls[i].res = "ok" => \E k \in DOMAIN done : done[k] = i
  /\ \A k \in DOMAIN done : calls[done[k]].res # "refused"
=============================================================================
