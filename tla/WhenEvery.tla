------------------------------ MODULE WhenEvery ------------------------------
(***************************************************************************)
(* One call of dispatcher::when_every and its when_every_worker.           *)
(*                                                                         *)
(* _data->mutex is held by lock_guards only, and the dispatcher runs one   *)
(* subtask at a time: what happens under it is one step.                   *)
(***************************************************************************)
EXTENDS WhenGroup

VARIABLES size,    (* when_every_worker_data::size                         *)
          results, (* when_every_worker_data::results: whose they are      *)
          got,     (* the value of the promise                             *)
          sets,    (* how often set_value was called                       *)
          thrown   (* the callback has thrown                              *)

dataVars == <<size, results, got, sets, thrown>>
vars == <<groupVars, dataVars>>

TypeOK ==
  /\ GroupTypeOK
  /\ stage \in {"none", "point", "get", "catch"}
  /\ size \in 0 .. N
  /\ results \in Seq(Futures) /\ got \in Seq(Futures)
  /\ sets \in Nat
  /\ thrown \in BOOLEAN

Init ==
  /\ GroupInit
  /\ size = N
  /\ results = << >>
  /\ got = << >>
  /\ sets = 0
  /\ thrown = FALSE

-----------------------------------------------------------------------------
(* The future whose subtask is running.                                    *)
Running == Head(waiting)
Met(i) == input[i] # "pending"

Point ==
  /\ stage = "point"
  /\ Goto(IF interrupted THEN "catch" ELSE "get")
  /\ UNCHANGED <<queueVars, clientVars, promise, dataVars>>

(* Fault: the promise is settled again by every result that is too many.   *)
EnoughResults(n, rs) == n <= Len(rs)
Complete(n, rs) == n = Len(rs)

(* step(w), from the return of the callback on: the promise is settled     *)
(* when there are as many results as subtasks that have not failed.        *)
Step(n, rs) ==
  /\ UNCHANGED thrown
  /\ IF Complete(n, rs)
     THEN /\ got' = rs
          /\ sets' = sets + 1
          /\ End("value", "value")
     ELSE /\ UNCHANGED <<got, sets>>
          /\ End("value", promise)

(* Fault: the result is not stored.                                        *)
StoreNothing == UNCHANGED results
(* Fault: the result is put in front of the others.                        *)
StoreInFront == results' = <<Running>> \o results
Store == results' = Append(results, Running)

(* f.get() returns, and the callback after push_back does.                 *)
Push ==
  /\ stage = "get"
  /\ Met(Running) /\ input[Running] = "value"
  /\ Store
  /\ Step(size, results')
  /\ UNCHANGED size

(* The callback throws, with the result already stored.                    *)
PushThrow ==
  /\ stage = "get"
  /\ Met(Running) /\ input[Running] = "value"
  /\ Store
  /\ thrown' = TRUE
  /\ Goto("catch")
  /\ UNCHANGED <<queueVars, clientVars, promise, size, got, sets>>

(* f.get() throws.                                                         *)
GetThrow ==
  /\ stage = "get"
  /\ input[Running] = "error"
  /\ Goto("catch")
  /\ UNCHANGED <<queueVars, clientVars, promise, dataVars>>

(* Fault: _data->size is not decremented.                                  *)
CountNothing == UNCHANGED size
(* Fault: _data->size is decremented twice.                                *)
CountTwice == size' = size - 2
CountFailure == size' = size - 1

(* Whatever was thrown: one future less, and the callback again.           *)
Catch ==
  /\ stage = "catch"
  /\ CountFailure
  /\ Step(size', results)
  /\ UNCHANGED results

(* An exception of the callback, or of set_value, leaves work().           *)
CatchThrow ==
  /\ stage = "catch"
  /\ thrown' = TRUE
  /\ CountFailure
  /\ End("error", promise)
  /\ UNCHANGED <<results, got, sets>>

-----------------------------------------------------------------------------
Subtask == Point \/ Push \/ PushThrow \/ GetThrow \/ Catch \/ CatchThrow
Start == Begin /\ UNCHANGED dataVars
Client == ClientNext /\ UNCHANGED dataVars

Next == Client \/ Start \/ Subtask

Spec == Init /\ [][Next]_vars

(* The call returns, the futures are settled by whoever promised them, and *)
(* the dispatcher is processed.                                            *)
Fairness ==
  /\ WF_vars(Client /\ returned' /\ ~returned)
  /\ \A i \in Futures :
       /\ WF_vars(Client /\ conn'[i] # conn[i])
       /\ WF_vars(Client /\ input'[i] # input[i])
  /\ WF_vars(Start \/ Subtask)

FairSpec == Spec /\ Fairness

-----------------------------------------------------------------------------
(* What the documentation says, that the result comes when every future of *)
(* the list is met: no subtask is left, nor to be dispatched.              *)
EveryFutureMet ==
  promise = "value" => waiting = << >> /\ \A i \in Futures : Submitted(i)

(* It is so as long as the callback does not throw.                        *)
MetUnlessThrown == ~thrown => EveryFutureMet

(* The vector has values only, from the last future to the first, whatever *)
(* the callback throws and whatever is interrupted in between.             *)
ResultsInOrder ==
  /\ \A i, j \in 1 .. Len(got) : i < j => got[i] > got[j]
  /\ \A i \in 1 .. Len(got) : input[got[i]] = "value"

(* Without an exception or an interruption it has all of them.             *)
ResultsComplete ==
  promise = "value" /\ ~interrupted /\ ~thrown =>
    \A i \in Futures : input[i] = "value" => \E j \in 1 .. Len(got) : got[j] = i

(* The promise is set once: a second set_value would throw, and make the   *)
(* worker call the callback again for a future it was called for before.   *)
SetOnce == sets <= 1

(* The last subtask settles the promise, whatever becomes of the futures,  *)
(* as long as the callback does not throw.                                 *)
NotAbandoned == promise = "broken" => destroyed \/ thrown

(* The result of when_every comes at last.                                 *)
Settles == <>(promise # "pending")

-----------------------------------------------------------------------------
(* The inductive invariant: m futures are still to be dispatched, the ones *)
(* after them wait in the queue, and the worker's counters tell how many   *)
(* of both there are; exactly, until the callback throws.                  *)
Remaining(m) ==
  /\ \A i \in Futures : Submitted(i) <=> i > m
  /\ ~destroyed => size >= m + Len(waiting)
  /\ returned \/ destroyed => m = 0
  /\ destroyed => waiting = << >>

Exactly(m) ==
  /\ ~destroyed => size = Len(results) + m + Len(waiting)
  /\ promise = "value" => m = 0 /\ waiting = << >>
  /\ m = 0 /\ waiting = << >> /\ ~destroyed => promise = "value"
  /\ promise = "broken" => destroyed

(* The running subtask is the front one.                                   *)
FrontRuns ==
  /\ stage # "none" => active # {}
  /\ active # {} => waiting # << >> /\ active = {Head(waiting)}

CountInv == \E m \in 0 .. N : Remaining(m) /\ (~thrown => Exactly(m))

EInv == TypeOK /\ FrontRuns /\ CountInv
=============================================================================
