------------------------------- MODULE WhenAny -------------------------------
(***************************************************************************)
(* One call of dispatcher::when_any and its when_any_worker.               *)
(***************************************************************************)
EXTENDS WhenGroup, FiniteSets

CONSTANT Throws    (* the callback may throw                               *)

ASSUME CallbackAssumption == Throws \in BOOLEAN

VARIABLES void,    (* the futures are std::future<void>                    *)
          size,    (* when_any_worker_data::size                           *)
          worked,  (* when_any_worker_data::worked                         *)
          locked,  (* when_any_worker_data::mutex is locked                *)
          called   (* the futures the callback was called for              *)

dataVars == <<size, worked, locked>>
vars == <<groupVars, dataVars, void, called>>

Stages == {"none", "point", "lock", "get", "linger", "catch"}

TypeOK ==
  /\ GroupTypeOK
  /\ stage \in Stages
  /\ void \in BOOLEAN
  /\ size \in 0 .. N
  /\ worked \in BOOLEAN /\ locked \in BOOLEAN
  /\ called \in SUBSET Futures

Init ==
  /\ GroupInit
  /\ void \in BOOLEAN
  /\ size = N
  /\ worked = FALSE
  /\ locked = FALSE
  /\ called = {}

Met(i) == input[i] # "pending"

-----------------------------------------------------------------------------
(* The future whose subtask is running.                                    *)
Running == Head(waiting)

(* interruption_point() of the client's connection.                        *)
Point ==
  /\ stage = "point"
  /\ Goto(IF interrupted THEN "catch" ELSE "lock")
  /\ UNCHANGED <<queueVars, clientVars, promise, dataVars, called>>

(* Fault: _data->worked is not looked at.                                  *)
NotLookedAt == FALSE
TooLate == worked

(* _data->mutex.lock(), unlocked at once by a subtask that comes too late. *)
LockData ==
  /\ stage = "lock"
  /\ ~locked
  /\ locked' = ~TooLate
  /\ Goto(IF TooLate THEN "linger" ELSE "get")
  /\ UNCHANGED <<queueVars, clientVars, promise, size, worked, called>>

(* A subtask that comes too late waits for its future all the same.        *)
Linger ==
  /\ stage = "linger"
  /\ Met(Running)
  /\ End("value", promise)
  /\ UNCHANGED <<dataVars, called>>

(* promised_work: f.get() returns a value, or f.wait() returns, and the    *)
(* callback is called; its result goes to the promise ...                  *)
Callable == stage = "get" /\ Met(Running) /\ (input[Running] = "value" \/ void)

Win ==
  /\ Callable
  /\ worked' = TRUE
  /\ locked' = FALSE
  /\ called' = called \cup {Running}
  /\ End("value", "value")
  /\ UNCHANGED size

(* ... or it throws, as f.get() does if the future has an exception: both  *)
(* are caught with _data->mutex still locked.                              *)
Throw ==
  /\ \/ /\ Callable
        /\ Throws
        /\ called' = called \cup {Running}
     \/ /\ stage = "get"
        /\ Met(Running) /\ ~Callable
        /\ UNCHANGED called
  /\ Goto("catch")
  /\ UNCHANGED <<queueVars, clientVars, promise, dataVars>>

(* Fault: the last exception is taken for the first.                       *)
FirstFailure == ~worked /\ promise = "pending"
LastFailure == ~worked /\ size = 1

(* Fault: _data->size is not decremented.                                  *)
CountNothing == UNCHANGED size
CountFailure == size' = IF worked THEN size ELSE size - 1

(* catch_exception() locks _data->mutex, which deadlocks if this thread    *)
(* has it locked already, and gives up when all subtasks have failed.      *)
Catch ==
  /\ stage = "catch"
  /\ ~locked
  /\ CountFailure
  /\ End("value", IF LastFailure THEN "error" ELSE promise)
  /\ UNCHANGED <<worked, locked, called>>

-----------------------------------------------------------------------------
Subtask ==
  /\ Point \/ LockData \/ Linger \/ Win \/ Throw \/ Catch
  /\ UNCHANGED void

Start == Begin /\ UNCHANGED <<dataVars, void, called>>

Client == ClientNext /\ UNCHANGED <<dataVars, void, called>>

Next == Client \/ Start \/ Subtask

Spec == Init /\ [][Next]_vars

(* The call returns, the futures are settled by whoever promised them, and *)
(* the dispatcher is processed.                                            *)
Fairness ==
  /\ WF_vars(Client /\ returned' /\ ~returned)
  /\ \A i \in Futures :
       /\ WF_vars(Client /\ conn'[i] # conn[i])
       /\ WF_vars(Client /\ input'[i] # input[i])
  /\ WF_vars(Start \/ Subtask)

FairSpec == Spec /\ Fairness

-----------------------------------------------------------------------------
(* The callback is called for one future only, although every subtask runs *)
(* to its end: _data->worked is set before the next one looks at it.       *)
AtMostOneCall == Cardinality(called) <= 1

(* The promise is given an exception only when no subtask is left that     *)
(* could still succeed.                                                    *)
ErrorIsLast ==
  promise = "error" => waiting = << >> /\ \A i \in Futures : Submitted(i)

(* The result of the call does not depend on the dispatcher's destructor:  *)
(* however the subtasks end, the last of them settles the promise.         *)
NotAbandoned == promise = "broken" => destroyed

(* The result of when_any comes at last, unless an exception was thrown    *)
(* with _data->mutex locked: then the dispatcher's thread is stuck.        *)
SettlesOrSticks == <>(promise # "pending" \/ (stage = "catch" /\ locked))

-----------------------------------------------------------------------------
(* Until a subtask succeeds, size counts the subtasks that have not failed.*)
AInv ==
  /\ TypeOK
  /\ ~worked /\ ~destroyed =>
       size = Len(waiting) + Cardinality({i \in Futures : ~Submitted(i)})
=============================================================================
