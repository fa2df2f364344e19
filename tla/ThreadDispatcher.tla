-------------------------- MODULE ThreadDispatcher --------------------------
(***************************************************************************)
(* eventually::thread_dispatcher: a dispatcher whose queue is processed by *)
(* worker threads of its own, and whose destructor stops and joins them.   *)
(*                                                                         *)
(* Workers that find the queue empty wait on the condition variable        *)
(* dispatcher::_new_task.  They wait with the mutex _wait_mutex, whereas   *)
(* dispatch pushes and notifies under dispatcher::_mutex: the two are kept *)
(* apart here as they are in the code.                                     *)
(***************************************************************************)
EXTENDS Dispatcher

CONSTANTS Workers,    (* the threads in thread_dispatcher::_threads        *)
          Destroyer   (* the client thread that runs ~thread_dispatcher    *)

ASSUME WorkersAssumption == /\ Workers \subseteq Threads
                            /\ Destroyer \in Threads \ Workers

VARIABLES done,       (* thread_dispatcher::_done                          *)
          waitMutex,  (* thread_dispatcher::_wait_mutex, its owner         *)
          wpc,        (* where each worker is in worker_thread             *)
          dtor        (* where the constructor or the destructor is        *)

poolVars == <<done, waitMutex, wpc, dtor>>
tdVars == <<vars, poolVars>>

Clients == Threads \ Workers
Sleeping == {w \in Workers : wpc[w] = "sleep"}

TDTypeOK ==
  /\ TypeOK
  /\ done \in BOOLEAN
  /\ waitMutex \in Workers \cup {Destroyer, NoThread}
  /\ wpc \in [Workers -> {"unborn", "top", "drain", "check", "wait", "sleep", "awake", "exited"}]
  /\ dtor \in {"init", "failed", "none", "locked", "stored", "join", "over"}

(* The constructor is about to start the workers.                          *)
TDInit == /\ Init
          /\ done = FALSE
          /\ waitMutex = NoThread
          /\ wpc = [w \in Workers |-> "unborn"]
          /\ dtor = "init"

WGoto(w, label) == wpc' = [wpc EXCEPT ![w] = label]
-----------------------------------------------------------------------------
(* The constructor                                                         *)

(* init starts one worker after the other; those it has started run.       *)
StartThread(w) ==
  /\ dtor = "init"
  /\ wpc[w] = "unborn"
  /\ WGoto(w, "top")
  /\ UNCHANGED <<vars, done, waitMutex, dtor>>

InitReturns ==
  /\ dtor = "init"
  /\ \A w \in Workers : wpc[w] # "unborn"
  /\ dtor' = "none"
  /\ UNCHANGED <<vars, done, waitMutex, wpc>>

(* A thread cannot be started: init stores _done and throws, and _threads  *)
(* is destroyed, which ends the program if a joinable thread is in it.     *)
InitThrows ==
  /\ dtor = "init"
  /\ \E w \in Workers : wpc[w] = "unborn"
  /\ done' = TRUE
  /\ wpc' = [w \in Workers |-> "exited"]
  /\ waitMutex' = NoThread
  /\ dtor' = "failed"
  /\ UNCHANGED vars

Constructor == InitReturns \/ InitThrows \/ \E w \in Workers : StartThread(w)

-----------------------------------------------------------------------------
(* Clients                                                                 *)

(* _new_task.notify_one(): wakes one waiter, and nobody if there is none.  *)
NotifyOne == IF Sleeping = {} THEN UNCHANGED wpc
                              ELSE \E w \in Sleeping : WGoto(w, "awake")

(* dispatch, with its notify_one.  Clients do not dispatch to an object    *)
(* that is being destroyed.                                                *)
PoolDispatch(th) ==
  /\ dtor = "none"
  /\ \E t \in Tasks, c \in Conns, g \in BOOLEAN, D \in SUBSET Futures :
        Dispatch(th, t, c, g, D) \/ DispatchUnconnected(th, t, c, g, D)
  /\ NotifyOne
  /\ UNCHANGED <<done, waitMutex, dtor>>

(* A client may process the pool's queue itself, too.                      *)
PoolProcess(th) ==
  /\ dtor = "none"
  /\ \E all \in BOOLEAN : Process(th, all)
  /\ UNCHANGED poolVars

PoolHelp(th) == ProcessStep(th) /\ UNCHANGED poolVars

PoolConnection(th) ==
  /\ dtor \in {"none", "over"} \/ th # Destroyer
  /\ \E c \in Conns, interrupts \in BOOLEAN : Destroy(th, c, interrupts)
  /\ UNCHANGED poolVars

PoolDrop(th) == Drop(th) /\ UNCHANGED poolVars

PoolEnvironment == Environment /\ UNCHANGED poolVars

-----------------------------------------------------------------------------
(* worker_thread                                                           *)

(* Fault: the inner loop is not a loop.                                    *)
ProcessOne(w) == Process(w, FALSE)
ProcessAll(w) == Process(w, TRUE)

(* while(!_done.load()): enter the inner loop over process_one, or leave.  *)
Top(w) ==
  /\ wpc[w] = "top"
  /\ \/ /\ done
        /\ WGoto(w, "exited")
        /\ UNCHANGED vars
     \/ /\ ~done
        /\ WGoto(w, "drain")
        /\ ProcessAll(w)
  /\ UNCHANGED <<done, waitMutex, dtor>>

(* Fault: while(!_done && process_one()).                                  *)
DrainUntilDone(w) ==
  /\ wpc[w] = "drain"
  /\ \/ /\ ~(done /\ pc[w] = "lock")
        /\ ProcessStep(w)
     \/ /\ done /\ pc[w] = "lock"
        /\ Return(w, FALSE)
        /\ UNCHANGED <<dispatcherVars, taskVars, outcome, connVars>>
  /\ UNCHANGED poolVars

(* while(process_one()), with a yield or a sleep between the calls.        *)
Drain(w) == /\ wpc[w] = "drain"
            /\ ProcessStep(w)
            /\ UNCHANGED poolVars

(* process_one returned false: lock _wait_mutex ...                        *)
LockWait(w) ==
  /\ wpc[w] = "drain"
  /\ pc[w] = "idle"
  /\ waitMutex = NoThread
  /\ waitMutex' = w
  /\ WGoto(w, "check")
  /\ UNCHANGED <<vars, done, dtor>>

(* ... look at _done ...                                                   *)
CheckDone(w) ==
  /\ wpc[w] = "check"
  /\ \/ /\ done
        /\ waitMutex' = NoThread
        /\ WGoto(w, "top")
     \/ /\ ~done
        /\ WGoto(w, "wait")
        /\ UNCHANGED waitMutex
  /\ UNCHANGED <<vars, done, dtor>>

(* ... and wait, which releases _wait_mutex and sleeps in one step.        *)
Wait(w) ==
  /\ wpc[w] = "wait"
  /\ waitMutex' = NoThread
  /\ WGoto(w, "sleep")
  /\ UNCHANGED <<vars, done, dtor>>

WakeSpuriously(w) ==
  /\ wpc[w] = "sleep"
  /\ WGoto(w, "awake")
  /\ UNCHANGED <<vars, done, waitMutex, dtor>>

(* wait returns with _wait_mutex, which the end of the block unlocks.      *)
Reacquire(w) ==
  /\ wpc[w] = "awake"
  /\ waitMutex = NoThread
  /\ WGoto(w, "top")
  /\ UNCHANGED <<vars, done, waitMutex, dtor>>

-----------------------------------------------------------------------------
(* ~thread_dispatcher                                                      *)

(* Fault: the destructor does not lock _wait_mutex.                        *)
LockNoWaitMutex == UNCHANGED waitMutex
LockWaitMutex == waitMutex = NoThread /\ waitMutex' = Destroyer

BeginDestructor ==
  /\ dtor = "none"
  /\ pc[Destroyer] = "idle"
  /\ LockWaitMutex
  /\ dtor' = "locked"
  /\ UNCHANGED <<vars, done, wpc>>

StoreDone ==
  /\ dtor = "locked"
  /\ done' = TRUE
  /\ dtor' = "stored"
  /\ UNCHANGED <<vars, waitMutex, wpc>>

(* Fault: notify_one instead of notify_all.                                *)
WakeOne == NotifyOne
WakeAll == wpc' = [w \in Workers |-> IF wpc[w] = "sleep" THEN "awake" ELSE wpc[w]]

NotifyAll ==
  /\ dtor = "stored"
  /\ WakeAll
  /\ waitMutex' = NoThread
  /\ dtor' = "join"
  /\ UNCHANGED <<vars, done>>

Joined == \A w \in Workers : wpc[w] = "exited"

(* All workers are joined; then ~dispatcher.                               *)
JoinAndDestroy ==
  /\ dtor = "join"
  /\ Joined
  /\ DestroyDispatcher
  /\ dtor' = "over"
  /\ UNCHANGED <<done, waitMutex, wpc>>

-----------------------------------------------------------------------------
WorkerStep(w) ==
  \/ Top(w) \/ Drain(w)
  \/ LockWait(w) \/ CheckDone(w) \/ Wait(w) \/ WakeSpuriously(w) \/ Reacquire(w)

Destructor == BeginDestructor \/ StoreDone \/ NotifyAll \/ JoinAndDestroy

TDNext ==
  \/ Constructor
  \/ \E th \in Clients :
        PoolDispatch(th) \/ PoolProcess(th) \/ PoolHelp(th) \/ PoolConnection(th) \/ PoolDrop(th)
  \/ PoolEnvironment
  \/ \E w \in Workers : WorkerStep(w)
  \/ Destructor

TDSpec == TDInit /\ [][TDNext]_tdVars

(* Fairness: threads that can go on do so.  A mutex that is free again and *)
(* again is obtained at last, so its acquisition is strongly fair; nothing *)
(* is assumed of spurious wakeups, of clients' dispatches, nor of whether  *)
(* the object is ever destroyed.                                           *)
TDFairness ==
  /\ \A w \in Workers :
       /\ WF_tdVars(Top(w) \/ CheckDone(w) \/ Wait(w))
       /\ SF_tdVars(LockWait(w) \/ Reacquire(w))
       /\ SF_tdVars(Drain(w) /\ (Lock(w) \/ FindEmpty(w)))
       /\ WF_tdVars(Drain(w) /\ pc[w] # "lock")
       /\ WF_tdVars(Drain(w) /\ \E result \in Results : FinishWork(w, result))
  /\ \A th \in Clients : WF_tdVars(PoolDrop(th) \/ PoolHelp(th))
  /\ WF_tdVars(Constructor)
  /\ WF_tdVars(StoreDone \/ NotifyAll \/ JoinAndDestroy)
  /\ \A f \in External :
       WF_tdVars(PoolEnvironment /\ \E result \in Results : SettleExternal(f, result))

(* A retry function that is asked again and again answers true at last.    *)
TDRetryFairness ==
  \A t \in Tasks : SF_tdVars(/\ \E th \in Threads : RetryReady(th) /\ Front = t
                            /\ UNCHANGED poolVars)

TDFairSpec == TDSpec /\ TDFairness /\ TDRetryFairness

-----------------------------------------------------------------------------
(* Properties                                                              *)

(* No worker sleeps through the destructor: once it has notified, no       *)
(* worker is waiting or has decided to wait on a _done it read too early.  *)
NoWorkerLeftAsleep ==
  dtor \in {"join", "over"} => \A w \in Workers : wpc[w] \notin {"wait", "sleep"}

(* Shutting down drops only what no worker was on its way to: a worker     *)
(* looks at _done again when process_one has found the queue empty, and    *)
(* ~dispatcher waits for it.  So a task that is in the queue together with *)
(* a worker in the inner loop stays that way until it has a result: no     *)
(* retry, interruption or destructor, whenever it begins, makes the last   *)
(* worker leave such a task behind, where ~dispatcher would break its      *)
(* promise.                                                                *)
AtHand(t) == /\ \E i \in 1 .. Len(tasks) : tasks[i] = t
             /\ \E w \in Workers : pc[w] # "idle"

NoTaskAtHandDropped ==
  [][\A t \in Tasks : AtHand(t) => AtHand(t)' \/ outcome'[t] \in Results]_tdVars

(* Nobody waits forever on a future of a dispatcher that is gone: what was *)
(* dispatched has a result, or its promise was broken.                     *)
SettledWhenDestroyed ==
  dtor = "over" => \A t \in Tasks : Dispatched(t) => IsSettled(t)

(* The destructor returns, whatever the workers are doing when it begins.  *)
DestructorReturns == dtor = "locked" ~> dtor = "over"

(* A worker that is on its way to the queue empties it: while one worker   *)
(* is awake, every task in the queue is settled at last.                   *)
AwakeWorkerDrains ==
  \A t \in Tasks :
    (/\ Dispatched(t)
     /\ \E w \in Workers : wpc[w] \in {"top", "awake"} \/ pc[w] # "idle")
    ~> IsSettled(t)

-----------------------------------------------------------------------------
(* The inductive invariant behind the safety properties, to which that of  *)
(* Dispatcher is added.                                                    *)

(* _wait_mutex is held by the worker that looks at _done, and by the       *)
(* destructor from before it stores _done until it has notified.           *)
WaitMutexInv ==
  /\ \A w \in Workers : waitMutex = w <=> wpc[w] \in {"check", "wait"}
  /\ waitMutex = Destroyer <=> dtor \in {"locked", "stored"}

DestructorInv ==
  /\ done <=> dtor \in {"failed", "stored", "join", "over"}
  /\ ~alive <=> dtor = "over"
  /\ dtor = "over" => \A w \in Workers : wpc[w] = "exited"

PoolInv == TDTypeOK /\ WaitMutexInv /\ DestructorInv /\ NoWorkerLeftAsleep
=============================================================================
