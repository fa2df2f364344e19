------------------------------ MODULE WhenGroup ------------------------------
(***************************************************************************)
(* What dispatcher::when_any and dispatcher::when_every have in common.    *)
(*                                                                         *)
(* A call with N futures dispatches one subtask for each of them, the last *)
(* future first, on connections of their own that nobody can interrupt.    *)
(* The subtasks share a promise, whose future is the result of the call,   *)
(* and the client's connection, which each of them looks at.  They are run *)
(* by a dispatcher, of which only the promises of TaskQueue are used: its  *)
(* actions are conjuncts of the actions below.                             *)
(***************************************************************************)
EXTENDS Naturals, Sequences

CONSTANTS N,         (* the number of futures                              *)
          Failures   (* whether the futures may be given an exception      *)

ASSUME GroupAssumption == N \in Nat \ {0} /\ Failures \in BOOLEAN

VARIABLES
  (* The dispatcher's queue, of which only the subtasks are shown.         *)
  waiting, active, revoked, conn, outcome,
  input,        (* the state of each of the futures                        *)
  interrupted,  (* the client has interrupted the connection of the call   *)
  returned,     (* the call has returned, and its reference is gone        *)
  destroyed,    (* the dispatcher is gone                                  *)
  stage,        (* where the running subtask is, "none" if none runs       *)
  promise       (* the shared promise                                      *)

queueVars == <<waiting, active, revoked, conn, outcome>>
clientVars == <<input, interrupted, returned, destroyed>>
groupVars == <<queueVars, clientVars, stage, promise>>

Futures == 1 .. N

Queue == INSTANCE TaskQueue WITH Tasks <- Futures, Conns <- Futures, NoConn <- 0

GroupTypeOK ==
  /\ waiting \in Seq(Futures)
  /\ active \in SUBSET Futures
  /\ conn \in [Futures -> 0 .. N]
  /\ input \in [Futures -> {"pending", "value", "error"}]
  /\ interrupted \in BOOLEAN /\ returned \in BOOLEAN /\ destroyed \in BOOLEAN
  /\ promise \in {"pending", "value", "error", "broken"}

GroupInit ==
  /\ Queue!Init
  /\ input = [i \in Futures |-> "pending"]
  /\ interrupted = FALSE
  /\ returned = FALSE
  /\ destroyed = FALSE
  /\ stage = "none"
  /\ promise = "pending"

Submitted(i) == conn[i] # 0
Goto(label) == stage' = label

-----------------------------------------------------------------------------
(* Fault: the shared data is never destroyed.                              *)
ReleaseLeaking(settled) == promise' = settled

(* The shared data is destroyed with the last subtask, once the call has   *)
(* returned: a promise that is still to be settled is broken.  settled is  *)
(* what the step makes of the promise before that.                         *)
Release(settled) ==
  promise' = IF settled = "pending" /\ returned' /\ waiting' = << >>
             THEN "broken" ELSE settled

(* The recursion over the futures: the last one is dispatched first.       *)
DispatchNext(i) ==
  /\ ~Submitted(i)
  /\ \A j \in i + 1 .. N : Submitted(j)
  /\ Queue!Submit(i, i)
  /\ UNCHANGED <<clientVars, stage, promise>>

Return ==
  /\ ~returned
  /\ \A i \in Futures : Submitted(i)
  /\ returned' = TRUE
  /\ UNCHANGED <<queueVars, input, interrupted, destroyed, stage>>
  /\ Release(promise)

(* Whoever holds the promise of a future given to the call.                *)
SettleInput(i, result) ==
  /\ input[i] = "pending"
  /\ input' = [input EXCEPT ![i] = result]
  /\ UNCHANGED <<queueVars, interrupted, returned, destroyed, stage, promise>>

Interrupt ==
  /\ interrupted' = TRUE
  /\ UNCHANGED <<queueVars, input, returned, destroyed, stage, promise>>

(* The dispatcher calls the front subtask.                                 *)
Begin ==
  /\ Queue!Start
  /\ Goto("point")
  /\ UNCHANGED <<clientVars, promise>>

(* A subtask ends; its own future was dropped when it was dispatched.      *)
End(result, settled) ==
  /\ Queue!Finish(result)
  /\ Goto("none")
  /\ UNCHANGED clientVars
  /\ Release(settled)

DestroyDispatcher ==
  /\ returned
  /\ ~destroyed
  /\ Queue!Discard
  /\ destroyed' = TRUE
  /\ UNCHANGED <<input, interrupted, returned, stage>>
  /\ Release(promise)

(* What clients and other dispatchers do, which no subtask controls.       *)
ClientNext ==
  \/ \E i \in Futures : DispatchNext(i)
  \/ Return
  \/ \E i \in Futures, result \in {"value"} \cup (IF Failures THEN {"error"} ELSE {}) :
        SettleInput(i, result)
  \/ Interrupt
  \/ DestroyDispatcher
=============================================================================
