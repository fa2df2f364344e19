---------------------------- MODULE Continuations ----------------------------
(***************************************************************************)
(* dispatcher::when, when_all, when_throw and when_throw_continue: tasks   *)
(* whose callback gets the futures of other tasks.  A node is a task; its  *)
(* inputs are the futures moved into it, none for a plain dispatch.  How   *)
(* the nodes are queued is Dispatcher's subject: here a node may start at  *)
(* any time, on any dispatcher, and waits in future::get for its inputs.   *)
(*                                                                         *)
(* Errors are told apart by what catches them: "data" stands for a class   *)
(* derived from std::exception, "other" for what is not a std::exception   *)
(* (the library throws pointers); connection_interrupted and the           *)
(* std::future_error of a broken promise are derived from it too.          *)
(***************************************************************************)
EXTENDS Naturals

CONSTANTS
  N,       (* the number of nodes                                          *)
  Inputs,  (* the nodes whose futures each node gets                       *)
  Void     (* the futures are std::future<void>                            *)

Nodes == 1 .. N

ASSUME ContinuationsAssumption ==
  /\ N \in Nat
  /\ Void \in BOOLEAN
  /\ Inputs \in [Nodes -> SUBSET Nodes]
  /\ \A n \in Nodes : \A i \in Inputs[n] : i < n
  /\ \A n, m \in Nodes : n # m => Inputs[n] \cap Inputs[m] = {}

Thrown == {"std", "data", "other"}   (* by callbacks *)
Errors == Thrown \cup {"interrupted", "broken"}
Kinds == {"when", "throw", "throw_data", "continue"}

VARIABLES
  kind,         (* which of the functions made each node                   *)
  at,           (* "queued", "working", "ran", or "skipped"                *)
  outcome,      (* "pending", "value", or the error in the node's future   *)
  interrupted,  (* the nodes whose connection is interrupted               *)
  called        (* the nodes whose callback has been called                *)

vars == <<kind, at, outcome, interrupted, called>>

(* A handler has one future; when over several values is when_all.  The    *)
(* callbacks of when and when_all take values, so no future they get is    *)
(* void.                                                                   *)
WellFormed(k) == \A n \in Nodes :
  /\ k[n] # "when" => \E i \in Nodes : Inputs[n] = {i}
  /\ Void /\ k[n] = "when" => Inputs[n] = {}

Init ==
  /\ kind \in {k \in [Nodes -> Kinds] : WellFormed(k)}
  /\ at = [n \in Nodes |-> "queued"]
  /\ outcome = [n \in Nodes |-> "pending"]
  /\ interrupted = {}
  /\ called = {}
-----------------------------------------------------------------------------
(* What the catch clause of a handler takes; that of when_throw_continue   *)
(* is always const std::exception&.                                        *)
Catches(k, e) ==
  \/ k \in {"throw", "continue"} /\ e \in Errors \ {"other"}
  \/ k = "throw_data" /\ e = "data"

(* "throw e" throws a copy of the static type of e.                        *)
Rethrown(k) == IF k = "throw_data" THEN "data" ELSE "std"

(* The node ends, with what is in its future.                              *)
Settle(n, how, what) ==
  /\ at' = [at EXCEPT ![n] = how]
  /\ outcome' = [outcome EXCEPT ![n] = what]
  /\ UNCHANGED <<kind, interrupted>>

(* future::get; future::wait, which does not throw, if the future is void. *)
GetsError(n, e) == ~Void /\ \E i \in Inputs[n] : outcome[i] = e
GetsValues(n) == \A i \in Inputs[n] :
  outcome[i] = "value" \/ (Void /\ outcome[i] # "pending")

-----------------------------------------------------------------------------
(* connection::interrupt.                                                  *)
Interrupt(n) ==
  /\ n \notin interrupted
  /\ interrupted' = interrupted \cup {n}
  /\ UNCHANGED <<kind, at, outcome, called>>

(* The handler passes its interruption point ...                           *)
Start(n) ==
  /\ at[n] = "queued"
  /\ n \notin interrupted
  /\ at' = [at EXCEPT ![n] = "working"]
  /\ UNCHANGED <<kind, outcome, interrupted, called>>

(* Fault: the interruption is not stored in the promise.                   *)
SkipUnsettled(n) ==
  /\ at[n] = "queued"
  /\ n \in interrupted
  /\ Settle(n, "skipped", "pending")
  /\ UNCHANGED called

(* ... or throws there.                                                    *)
Skip(n) ==
  /\ at[n] = "queued"
  /\ n \in interrupted
  /\ Settle(n, "skipped", "interrupted")
  /\ UNCHANGED called

(* The dispatcher is destroyed with the task in its queue.                 *)
Break(n) ==
  /\ at[n] = "queued"
  /\ Settle(n, "skipped", "broken")
  /\ UNCHANGED called

(* Fault: the callback is forgotten.                                       *)
CallNothing(n) == UNCHANGED called
Call(n) == called' = called \cup {n}

(* The callback of dispatch, when or when_all, with the values.  A handler *)
(* returns the value it got.                                               *)
Work(n) ==
  /\ at[n] = "working"
  /\ GetsValues(n)
  /\ \/ /\ kind[n] = "when"
        /\ \E what \in {"value"} \cup Thrown : Settle(n, "ran", what)
        /\ Call(n)
     \/ /\ kind[n] # "when"
        /\ Settle(n, "ran", "value")
        /\ UNCHANGED called

(* Fault: an error that is not caught is dropped.                          *)
FailSwallowing(n) ==
  /\ at[n] = "working"
  /\ \E e \in Errors : GetsError(n, e) /\ ~Catches(kind[n], e)
  /\ Settle(n, "ran", "value")
  /\ UNCHANGED called

(* Fault: an error that is not caught is thrown again by value.            *)
FailSlicing(n) ==
  /\ at[n] = "working"
  /\ \E e \in Errors :
       /\ GetsError(n, e)
       /\ ~Catches(kind[n], e)
       /\ Settle(n, "ran", IF e = "other" THEN "other" ELSE "std")
  /\ UNCHANGED called

(* The error of an input that is not caught ends the node.  The order of   *)
(* the get calls of when_all is not specified; those after an error are    *)
(* not made.                                                               *)
Fail(n) ==
  /\ at[n] = "working"
  /\ \E e \in Errors :
       /\ GetsError(n, e)
       /\ ~Catches(kind[n], e)
       /\ Settle(n, "ran", e)
  /\ UNCHANGED called

(* The handler is called; what it throws replaces the error.  Else         *)
(* when_throw throws again, and when_throw_continue has a new value.       *)
Handle(n) ==
  /\ at[n] = "working"
  /\ \E e \in Errors : GetsError(n, e) /\ Catches(kind[n], e)
  /\ \E what \in Thrown \cup {IF kind[n] = "continue" THEN "value" ELSE Rethrown(kind[n])} :
       Settle(n, "ran", what)
  /\ Call(n)

Step(n) == Start(n) \/ Skip(n) \/ Work(n) \/ Fail(n) \/ Handle(n)

Next == \E n \in Nodes : Interrupt(n) \/ Break(n) \/ Step(n)

Spec == Init /\ [][Next]_vars

(* Every task is processed, by a thread that waits for nothing else.       *)
FairSpec == Spec /\ \A n \in Nodes : WF_vars(Step(n))

-----------------------------------------------------------------------------
(* Properties                                                              *)

TypeOK ==
  /\ kind \in [Nodes -> Kinds]
  /\ at \in [Nodes -> {"queued", "working", "ran", "skipped"}]
  /\ outcome \in [Nodes -> {"pending", "value"} \cup Errors]
  /\ interrupted \in SUBSET Nodes
  /\ called \in SUBSET Nodes

(* "Call a function when a future throws an exception": a handler that ran *)
(* has called its callback exactly if its input is an error that it        *)
(* catches.                                                                *)
HandlerCalled ==
  \A n \in Nodes : kind[n] # "when" /\ at[n] = "ran" =>
    \A i \in Inputs[n] : n \in called <=> Catches(kind[n], outcome[i])

(* The callback of a when_throw_continue has answered an error.            *)
Answered(n) == kind[n] = "continue" /\ n \in called

(* The nodes that a node goes back to -- its inputs, theirs, and so on --  *)
(* but for those whose error the callback of a when_throw_continue has     *)
(* answered.                                                               *)
Behind[n \in Nodes] ==
  IF Answered(n) THEN {} ELSE Inputs[n] \cup UNION {Behind[i] : i \in Inputs[n]}

(* An error never disappears: a node that ends with a value goes back to   *)
(* values only.                                                            *)
NoErrorLost ==
  \A n \in Nodes : outcome[n] = "value" =>
    \A i \in Behind[n] : outcome[i] = "value"

(* The nodes an error may come from: the node itself if it was not run or  *)
(* called its callback, else those where the same error of an input began. *)
Origin[n \in Nodes] ==
  IF at[n] = "skipped" \/ n \in called
  THEN {n}
  ELSE UNION {Origin[i] : i \in {j \in Inputs[n] : outcome[j] = outcome[n]}}

Raises(n, e) ==
  \/ e = "interrupted" /\ at[n] = "skipped" /\ n \in interrupted
  \/ e = "broken" /\ at[n] = "skipped"
  \/ e \in Thrown /\ n \in called

(* An error is what it was where it began, however many continuations it   *)
(* goes through: a future that throws connection_interrupted goes back to  *)
(* an interrupted task, a broken promise to a task destroyed with its      *)
(* dispatcher, and every other exception to a callback that was called --  *)
(* that of when_throw included, after which an error is thrown anew.       *)
ErrorsHaveOrigins ==
  \A n \in Nodes : outcome[n] \in Errors =>
    \E i \in Origin[n] : outcome[i] = outcome[n] /\ Raises(i, outcome[n])

(* Interruptions, errors and broken promises travel: every future of the   *)
(* graph is settled at last.                                               *)
EverythingSettles == <>(\A n \in Nodes : outcome[n] # "pending")
-----------------------------------------------------------------------------
(* The inductive invariant behind the safety properties, if the futures    *)
(* have values.                                                            *)

(* The callback of when and when_all is only called with values, all of    *)
(* them there, and no interrupted or dropped task calls anything.          *)
CalledWithValues ==
  /\ \A n \in called : at[n] = "ran"
  /\ \A n \in called : kind[n] = "when" =>
       \A i \in Inputs[n] : outcome[i] = "value"

(* A promise is set when its task ends, a handler ends after its input,    *)
(* and only the callback of a when_throw_continue makes a value of what is *)
(* not one.                                                                *)
ContInv ==
  /\ TypeOK
  /\ WellFormed(kind)
  /\ \A n \in Nodes : at[n] \in {"ran", "skipped"} <=> outcome[n] # "pending"
  /\ \A n \in Nodes : kind[n] # "when" /\ at[n] = "ran" =>
       \A i \in Inputs[n] : outcome[i] # "pending"
  /\ \A n \in Nodes : outcome[n] = "value" /\ ~Answered(n) =>
       \A i \in Inputs[n] : outcome[i] = "value"
  /\ HandlerCalled
  /\ CalledWithValues
=============================================================================
