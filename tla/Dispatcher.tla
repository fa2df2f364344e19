----------------------------- MODULE Dispatcher -----------------------------
(***************************************************************************)
(* One eventually::dispatcher, the tasks dispatched to it, the connections *)
(* the tasks are tied to, and the threads that call it.                    *)
(*                                                                         *)
(* process_one keeps the dispatcher's mutex while it runs the task at the  *)
(* front of the queue, and handler::operator() keeps the mutex of the      *)
(* task's connection while it runs the callback.  The destructor of a      *)
(* connection takes that mutex too, so it waits for a running callback.    *)
(* The steps below are separated wherever another thread can act between   *)
(* them; a lock_guard block in which nothing blocks is one step.           *)
(***************************************************************************)
EXTENDS Naturals, Sequences, FiniteSets

CONSTANTS
  Tasks,     (* the task objects clients create, one per call of dispatch  *)
  External,  (* futures settled elsewhere: another dispatcher, std::async  *)
  Conns,     (* connection_data objects                                    *)
  Threads,   (* the threads that call the dispatcher                       *)
  NoThread,  (* owner of a mutex nobody holds                              *)
  NoConn     (* connection of a task not yet dispatched                    *)

ASSUME ConstantsAssumption == /\ NoThread \notin Threads
                              /\ NoConn \notin Conns
                              /\ Tasks \cap External = {}

VARIABLES
  tasks,      (* dispatcher::_tasks                                        *)
  mutex,      (* dispatcher::_mutex, its owner                             *)
  alive,      (* FALSE once ~dispatcher has run                            *)
  conn,       (* task::_connection                                         *)
  gated,      (* the task was given a retry function by its client         *)
  inputs,     (* the futures moved into the task: task::_handler._args     *)
  outcome,    (* the state behind each std::promise / std::future pair     *)
  flag,       (* connection_data::_interrupt_flag                          *)
  connMutex,  (* connection_data::_mutex, its owner                        *)
  handle,     (* the client's connection object on each connection_data    *)
  pc,         (* where each thread is, in process_one or ~connection       *)
  looping,    (* the call of process_one is made by process_all            *)
  closing     (* the connection a thread is destroying                     *)

dispatcherVars == <<tasks, mutex, alive>>
taskVars == <<conn, gated, inputs>>
connVars == <<flag, connMutex, handle>>
threadVars == <<pc, looping, closing>>
vars == <<dispatcherVars, taskVars, outcome, connVars, threadVars>>

Futures == Tasks \cup External
Results == {"value", "error", "interrupted"}   \* what set_value, set_exception store
Outcomes == {"pending", "broken"} \cup Results

(* Points in process_one at which the caller holds dispatcher::_mutex.     *)
Busy == {"retry", "enter", "point", "work", "pop"}
(* Points in handler::operator() at which it holds the connection's mutex. *)
Guarded == {"point", "work"}

TypeOK ==
  /\ tasks \in Seq(Tasks)
  /\ mutex \in Threads \cup {NoThread}
  /\ alive \in BOOLEAN
  /\ conn \in [Tasks -> Conns \cup {NoConn}]
  /\ gated \in [Tasks -> BOOLEAN]
  /\ inputs \in [Tasks -> SUBSET Futures]
  /\ outcome \in [Futures -> Outcomes]
  /\ flag \in [Conns -> BOOLEAN]
  /\ connMutex \in [Conns -> Threads \cup {NoThread}]
  /\ handle \in [Conns -> {"open", "closing", "closed"}]
  /\ pc \in [Threads -> {"idle", "lock", "drop"} \cup Busy]
  /\ looping \in [Threads -> BOOLEAN]
  /\ closing \in [Threads -> Conns \cup {NoConn}]

Init ==
  /\ tasks = << >>
  /\ mutex = NoThread
  /\ alive = TRUE
  /\ conn = [t \in Tasks |-> NoConn]
  /\ gated = [t \in Tasks |-> FALSE]
  /\ inputs = [t \in Tasks |-> {}]
  /\ outcome = [f \in Futures |-> "pending"]
  /\ flag = [c \in Conns |-> FALSE]
  /\ connMutex = [c \in Conns |-> NoThread]
  /\ handle = [c \in Conns |-> "open"]
  /\ pc = [th \in Threads |-> "idle"]
  /\ looping = [th \in Threads |-> FALSE]
  /\ closing = [th \in Threads |-> NoConn]

-----------------------------------------------------------------------------
(* The task process_one works on: _tasks.front().                          *)
Front == Head(tasks)
FrontConn == conn[Front]

Dispatched(t) == conn[t] # NoConn
IsSettled(f) == outcome[f] # "pending"

(* A std::future can be moved into one task only.                          *)
Available(f) == /\ f \in External \/ (f \in Tasks /\ Dispatched(f))
                /\ \A t \in Tasks : f \notin inputs[t]

(* A connection only its creator has seen.                                 *)
Untouched(c) == handle[c] = "open" /\ ~flag[c] /\ \A t \in Tasks : conn[t] # c

Goto(th, label) == pc' = [pc EXCEPT ![th] = label]
-----------------------------------------------------------------------------
(* Clients: dispatch                                                       *)

(* Fault: push_front.                                                      *)
PushFront(t) == tasks' = <<t>> \o tasks
Push(t) == tasks' = Append(tasks, t)

(* make_task_ptr and the locked push_back: every dispatch, dispatch_retry, *)
(* dispatch_future and when... call ends here.  g tells whether the retry  *)
(* function is the client's (it may answer false) or the library's, which  *)
(* always answers true; D are the futures moved into the task.             *)
Enqueue(t, c, g, D) ==
  /\ alive
  /\ mutex = NoThread
  /\ ~Dispatched(t)
  /\ handle[c] = "open"
  /\ \A f \in D : Available(f)
  /\ conn' = [conn EXCEPT ![t] = c]
  /\ gated' = [gated EXCEPT ![t] = g]
  /\ inputs' = [inputs EXCEPT ![t] = D]
  /\ Push(t)
  /\ UNCHANGED <<mutex, alive, outcome, flag, connMutex>>

(* The overloads that take the client's connection.                        *)
Dispatch(th, t, c, g, D) ==
  /\ pc[th] = "idle"
  /\ Enqueue(t, c, g, D)
  /\ UNCHANGED <<handle, threadVars>>

(* The overloads without one: they create a connection and destroy it as   *)
(* they return, when a thread may already be running the task.             *)
DispatchUnconnected(th, t, c, g, D) ==
  /\ pc[th] = "idle"
  /\ Untouched(c)
  /\ Enqueue(t, c, g, D)
  /\ handle' = [handle EXCEPT ![c] = "closing"]
  /\ closing' = [closing EXCEPT ![th] = c]
  /\ Goto(th, "drop")
  /\ UNCHANGED looping

-----------------------------------------------------------------------------
(* Clients: connections                                                    *)

Interrupt(c) ==
  /\ handle[c] = "open"
  /\ flag' = [flag EXCEPT ![c] = TRUE]
  /\ UNCHANGED <<dispatcherVars, taskVars, outcome, connMutex, handle, threadVars>>

(* A thread enters ~connection, or ~scoped_connection, which interrupts    *)
(* first and then runs ~connection.                                        *)
Destroy(th, c, interrupts) ==
  /\ pc[th] = "idle"
  /\ handle[c] = "open"
  /\ handle' = [handle EXCEPT ![c] = "closing"]
  /\ flag' = [flag EXCEPT ![c] = @ \/ interrupts]
  /\ closing' = [closing EXCEPT ![th] = c]
  /\ Goto(th, "drop")
  /\ UNCHANGED <<dispatcherVars, taskVars, outcome, connMutex, looping>>

(* Fault: ~connection does not take the mutex.                             *)
TakesNoMutex(c) == TRUE
NoCallbackIn(c) == connMutex[c] = NoThread

(* ~connection locks the mutex, which waits for a running callback, and    *)
(* unlocks it.                                                             *)
Drop(th) ==
  /\ pc[th] = "drop"
  /\ NoCallbackIn(closing[th])
  /\ handle' = [handle EXCEPT ![closing[th]] = "closed"]
  /\ closing' = [closing EXCEPT ![th] = NoConn]
  /\ Goto(th, "idle")
  /\ UNCHANGED <<dispatcherVars, taskVars, outcome, flag, connMutex, looping>>

(* Somebody else settles a promise whose future clients hold.              *)
SettleExternal(f, result) ==
  /\ ~IsSettled(f)
  /\ outcome' = [outcome EXCEPT ![f] = result]
  /\ UNCHANGED <<dispatcherVars, taskVars, connVars, threadVars>>

-----------------------------------------------------------------------------
(* process_one and process_all                                             *)

Process(th, all) ==
  /\ alive
  /\ pc[th] = "idle"
  /\ Goto(th, "lock")
  /\ looping' = [looping EXCEPT ![th] = all]
  /\ UNCHANGED <<dispatcherVars, taskVars, outcome, connVars, closing>>

(* process_one returns: process_all calls it again if it returned true.    *)
Return(th, result) ==
  /\ Goto(th, IF result /\ looping[th] THEN "lock" ELSE "idle")
  /\ looping' = [looping EXCEPT ![th] = @ /\ result]
  /\ UNCHANGED closing

(* Fault: process_one does not wait for _mutex.                            *)
QueueTaken == TRUE
QueueFree == mutex = NoThread

Lock(th) ==
  /\ pc[th] = "lock"
  /\ QueueFree
  /\ tasks # << >>
  /\ mutex' = th
  /\ Goto(th, "retry")
  /\ UNCHANGED <<tasks, alive, taskVars, outcome, connVars, looping, closing>>

FindEmpty(th) ==
  /\ pc[th] = "lock"
  /\ mutex = NoThread
  /\ tasks = << >>
  /\ Return(th, FALSE)
  /\ UNCHANGED <<dispatcherVars, taskVars, outcome, connVars>>

(* The retry function is called under the connection's mutex.              *)
RetryReady(th) ==
  /\ pc[th] = "retry"
  /\ connMutex[FrontConn] = NoThread
  /\ Goto(th, "enter")
  /\ UNCHANGED <<dispatcherVars, taskVars, outcome, connVars, looping, closing>>

(* Fault: the promise of a destroyed task stays as it is.                  *)
BreakNothing(T) == UNCHANGED outcome

(* A destroyed task breaks its promise, if that is still to be settled.    *)
BreakPromises(T) ==
  outcome' = [f \in Futures |-> IF f \in T /\ ~IsSettled(f) THEN "broken" ELSE outcome[f]]

(* Fault: process_one returns without unlocking the queue.                 *)
KeepQueue == UNCHANGED mutex
UnlockQueue == mutex' = NoThread

(* Fault: pop_front also when the task was not ready.                      *)
PopUnready == tasks' = Tail(tasks)
(* Fault: a task that was not ready goes to the back of the queue.         *)
Rotate == tasks' = Append(Tail(tasks), Front)
StayInFront == UNCHANGED tasks

(* It answers false: the task stays at the front and process_one returns.  *)
RetryNotReady(th) ==
  /\ pc[th] = "retry"
  /\ connMutex[FrontConn] = NoThread
  /\ gated[Front]
  /\ UnlockQueue
  /\ StayInFront
  /\ Return(th, TRUE)
  /\ UNCHANGED <<alive, taskVars, outcome, connVars>>

(* handler::operator() for the work: the connection's mutex first ...      *)
Enter(th) ==
  /\ pc[th] = "enter"
  /\ connMutex[FrontConn] = NoThread
  /\ connMutex' = [connMutex EXCEPT ![FrontConn] = th]
  /\ Goto(th, "point")
  /\ UNCHANGED <<dispatcherVars, taskVars, outcome, flag, handle, looping, closing>>

(* Fault: the connection stays locked.                                     *)
KeepConn == UNCHANGED connMutex
UnlockConn == connMutex' = [connMutex EXCEPT ![FrontConn] = NoThread]

(* set_value or set_exception, then the end of the lock_guard's block.     *)
SetPromise(th, result) ==
  /\ outcome' = [outcome EXCEPT ![Front] = result]
  /\ UnlockConn
  /\ Goto(th, "pop")
  /\ UNCHANGED <<dispatcherVars, taskVars, flag, handle, looping, closing>>

(* Fault: the exception is stored but the work is called all the same.     *)
InterruptionIgnored(th) ==
  /\ pc[th] = "point"
  /\ flag[FrontConn]
  /\ outcome' = [outcome EXCEPT ![Front] = "interrupted"]
  /\ Goto(th, "work")
  /\ UNCHANGED <<dispatcherVars, taskVars, connVars, looping, closing>>

(* ... then the interruption point: throws, and the promise gets the       *)
(* exception,                                                              *)
Interrupted(th) ==
  /\ pc[th] = "point"
  /\ flag[FrontConn]
  /\ SetPromise(th, "interrupted")

(* or passes, and the work is called.                                      *)
BeginWork(th) ==
  /\ pc[th] = "point"
  /\ ~flag[FrontConn]
  /\ Goto(th, "work")
  /\ UNCHANGED <<dispatcherVars, taskVars, outcome, connVars, looping, closing>>

(* The work of when, when_all... calls get() on the futures it was given,  *)
(* so it cannot end before they are settled.                               *)
FinishWork(th, result) ==
  /\ pc[th] = "work"
  /\ \A f \in inputs[Front] : IsSettled(f)
  /\ SetPromise(th, result)

(* pop_front destroys the task, whose connection locks its mutex once.     *)
Pop(th) ==
  /\ pc[th] = "pop"
  /\ connMutex[FrontConn] = NoThread
  /\ tasks' = Tail(tasks)
  /\ BreakPromises({Front})
  /\ mutex' = NoThread
  /\ Return(th, TRUE)
  /\ UNCHANGED <<alive, taskVars, connVars>>

(* ~dispatcher, which nobody may run while another thread is in a call,    *)
(* destroys the queue: the promises of the tasks left in it are broken.    *)
DestroyDispatcher ==
  /\ alive
  /\ \A th \in Threads : pc[th] \in {"idle", "drop"}
  /\ alive' = FALSE
  /\ tasks' = << >>
  /\ BreakPromises({tasks[i] : i \in 1 .. Len(tasks)})
  /\ UNCHANGED <<mutex, taskVars, connVars, threadVars>>

-----------------------------------------------------------------------------
ProcessStep(th) ==
  \/ Lock(th) \/ FindEmpty(th)
  \/ RetryReady(th) \/ RetryNotReady(th)
  \/ Enter(th) \/ Interrupted(th) \/ BeginWork(th)
  \/ \E result \in Results : FinishWork(th, result)
  \/ Pop(th)

ClientStep(th) ==
  \/ \E t \in Tasks, c \in Conns, g \in BOOLEAN, D \in SUBSET Futures :
        Dispatch(th, t, c, g, D) \/ DispatchUnconnected(th, t, c, g, D)
  \/ \E c \in Conns, interrupts \in BOOLEAN : Destroy(th, c, interrupts)
  \/ \E all \in BOOLEAN : Process(th, all)
  \/ Drop(th)

Environment ==
  \/ \E c \in Conns : Interrupt(c)
  \/ \E f \in External, result \in Results : SettleExternal(f, result)

Next ==
  \/ \E th \in Threads : ProcessStep(th) \/ ClientStep(th)
  \/ Environment
  \/ DestroyDispatcher

Spec == Init /\ [][Next]_vars

-----------------------------------------------------------------------------
(* Fairness, for clients that keep calling process_all: every thread goes  *)
(* on with the call it is in and starts another one; callbacks end once    *)
(* their futures are settled, which somebody does; a retry function that   *)
(* is asked again and again answers true at last.                          *)
ProcessFairness ==
  /\ \A th \in Threads : WF_vars(ProcessStep(th) \/ Process(th, TRUE) \/ Drop(th))
  /\ \A f \in External : WF_vars(\E result \in Results : SettleExternal(f, result))

RetryFairness == \A t \in Tasks :
  SF_vars(\E th \in Threads : RetryReady(th) /\ Front = t)

FairSpec == Spec /\ ProcessFairness /\ RetryFairness

-----------------------------------------------------------------------------
(* Safety                                                                  *)

(* One task at a time: process_one holds _mutex from the choice of the     *)
(* front task to pop_front, so however many threads process the queue, no  *)
(* two of them are ever inside a task.                                     *)
OneTaskAtATime ==
  \A th1, th2 \in Threads : pc[th1] \in Busy /\ pc[th2] \in Busy => th1 = th2

(* No task is dropped: one whose future is pending is still in the queue,  *)
(* so a later process_one comes to it, and no promise is broken while the  *)
(* dispatcher lives, whatever retries and interruptions there are.         *)
NoTaskLost ==
  \A t \in Tasks : Dispatched(t) =>
    /\ ~IsSettled(t) => \E i \in 1 .. Len(tasks) : tasks[i] = t
    /\ outcome[t] = "broken" => ~alive

(* Callbacks of when, when_all... block in future::get while the thread    *)
(* holds the dispatcher's mutex, and nothing else is run meanwhile.  They  *)
(* never block on a future of the same dispatcher: a task is dispatched    *)
(* after the tasks whose futures it takes, and the queue is first in first *)
(* out even across retries.                                                *)
NeverWaitsForOwnQueue ==
  \A th \in Threads : pc[th] = "work"
     => \A f \in inputs[Front] \cap Tasks : IsSettled(f)

(* The contract of scoped_connection: once its destructor has returned, no *)
(* callback tied to it is running or is ever called again, so callbacks    *)
(* may capture the owner of the connection by reference.                   *)
NoCallbackAfterScope ==
  \A th \in Threads : pc[th] = "work"
     => ~(flag[FrontConn] /\ handle[FrontConn] = "closed")

(* A future is settled once: a promise that has its value or its exception *)
(* is never set again, nor broken by pop_front or by ~dispatcher.          *)
SettledOnce ==
  [][\A f \in Futures : IsSettled(f) => outcome'[f] = outcome[f]]_outcome

(* The dispatcher implements the task queue: callbacks start in the order  *)
(* of dispatch, one at a time, and none starts for a revoked connection.   *)
waitingTasks == IF \E th \in Threads : pc[th] = "pop" THEN Tail(tasks) ELSE tasks
activeTasks == IF \E th \in Threads : pc[th] = "work" THEN {Front} ELSE {}
revokedConns == {c \in Conns : flag[c] /\ handle[c] = "closed"}
taskOutcomes == [t \in Tasks |-> outcome[t]]

TQ == INSTANCE TaskQueue WITH waiting <- waitingTasks,
                              active <- activeTasks,
                              revoked <- revokedConns,
                              outcome <- taskOutcomes

ImplementsTaskQueue == TQ!Spec

-----------------------------------------------------------------------------
(* Liveness                                                                *)

(* Every dispatched task is settled at last, if clients keep processing.   *)
EveryTaskSettles == \A t \in Tasks : Dispatched(t) ~> IsSettled(t)

(* ~connection, which waits for a running callback, returns.               *)
DestructorsReturn == \A th \in Threads : pc[th] = "drop" ~> pc[th] = "idle"

-----------------------------------------------------------------------------
(* The inductive invariant behind the safety properties.                   *)

(* The holder of _mutex is the thread inside process_one, at the front     *)
(* task, which is settled exactly from the promise to pop_front.           *)
LockInv ==
  /\ \A th \in Threads : pc[th] \in Busy <=> mutex = th
  /\ mutex # NoThread => tasks # << >>
  /\ \A th \in Threads : pc[th] = "pop" => IsSettled(Front)

(* A connection is locked by the thread in a callback tied to it.          *)
ConnLockInv ==
  \A c \in Conns, th \in Threads :
    connMutex[c] = th <=> pc[th] \in Guarded /\ FrontConn = c

(* The connection a thread is destroying is nobody else's any more.        *)
ClosingInv ==
  /\ \A th \in Threads : pc[th] = "drop" =>
       closing[th] \in Conns /\ handle[closing[th]] = "closing"
  /\ \A th1, th2 \in Threads :
       pc[th1] = "drop" /\ pc[th2] = "drop" /\ closing[th1] = closing[th2] => th1 = th2

(* The queue holds dispatched tasks, each once, and only the front task    *)
(* can be settled.                                                         *)
QueueInv ==
  /\ \A i, j \in 1 .. Len(tasks) : tasks[i] = tasks[j] => i = j
  /\ \A i \in 1 .. Len(tasks) :
       /\ Dispatched(tasks[i])
       /\ IsSettled(tasks[i]) => i = 1 /\ mutex # NoThread /\ pc[mutex] = "pop"
  /\ \A t \in Tasks : ~Dispatched(t) => ~IsSettled(t)

(* The inputs of a task that are tasks are done or ahead of it.            *)
InputsInv ==
  \A i \in 1 .. Len(tasks) : \A f \in inputs[tasks[i]] \cap Tasks :
    IsSettled(f) \/ \E j \in 1 .. i - 1 : tasks[j] = f

AliveInv ==
  ~alive => tasks = << >> /\ \A th \in Threads : pc[th] \in {"idle", "drop"}

IInv == /\ TypeOK
        /\ LockInv
        /\ ConnLockInv
        /\ ClosingInv
        /\ QueueInv
        /\ InputsInv
        /\ AliveInv
        /\ NoTaskLost
        /\ NoCallbackAfterScope
=============================================================================
