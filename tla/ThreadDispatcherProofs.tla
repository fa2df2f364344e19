----------------------- MODULE ThreadDispatcherProofs -----------------------
(***************************************************************************)
(* Theorems about ThreadDispatcher, for every number of workers, clients,  *)
(* tasks and connections.                                                  *)
(***************************************************************************)
EXTENDS ThreadDispatcher, DispatcherProofs

-----------------------------------------------------------------------------
(* A thread_dispatcher is a dispatcher                                     *)

LEMMA PoolStep == [TDNext]_tdVars => [Next]_vars
<1> SUFFICES ASSUME TDNext PROVE Next \/ UNCHANGED vars
  BY DEF tdVars
<1> USE WorkersAssumption DEF Clients
<1>1. ASSUME NEW th \in Clients,
             \/ PoolDispatch(th) \/ PoolProcess(th) \/ PoolHelp(th)
             \/ PoolConnection(th) \/ PoolDrop(th)
      PROVE  Next
  BY <1>1 DEF PoolDispatch, PoolProcess, PoolHelp, PoolConnection, PoolDrop, Next, ClientStep
<1>2. CASE PoolEnvironment
  BY <1>2 DEF PoolEnvironment, Next
<1>3. ASSUME NEW w \in Workers, WorkerStep(w) PROVE Next \/ UNCHANGED vars
  <2>1. CASE Top(w)
    BY <2>1 DEF ProcessAll, Top, Next, ClientStep
  <2>2. CASE Drain(w)
    BY <2>2 DEF Drain, Next
  <2>3. QED
    BY <1>3, <2>1, <2>2
    DEF WorkerStep, LockWait, CheckDone, Wait, WakeSpuriously, Reacquire
<1>4. CASE Destructor
  BY <1>4 DEF LockWaitMutex, WakeAll, Joined, Destructor, BeginDestructor, StoreDone, NotifyAll, JoinAndDestroy, Next
<1>5. CASE Constructor
  BY <1>5 DEF Constructor, StartThread, InitReturns, InitThrows
<1>6. QED
  BY <1>1, <1>2, <1>3, <1>4, <1>5 DEF TDNext

(* Workers, clients and the destructor use the dispatcher as any threads   *)
(* may, so what is proved of a dispatcher holds of a thread_dispatcher.    *)
THEOREM PoolIsDispatcher == TDSpec => Spec
<1>1. TDInit => Init
  BY DEF TDInit
<1>2. QED
  BY <1>1, PoolStep, PTL DEF TDSpec, Spec

(* Clients of a pool get what TaskQueue promises, whatever the number of   *)
(* its workers and whenever its destructor runs.                           *)
THEOREM PoolImplementsTaskQueue == TDSpec => ImplementsTaskQueue
BY PoolIsDispatcher, Refinement

-----------------------------------------------------------------------------
(* The destructor and the workers                                          *)

LEMMA PoolInit == TDInit => PoolInv
  BY IInvInit, WorkersAssumption, ConstantsAssumption
  DEF TDInit, Init, IInv, PoolInv, TDTypeOK, WaitMutexInv, DestructorInv, NoWorkerLeftAsleep

LEMMA StepKeepsAlive == ASSUME NEW th \in Threads, ProcessStep(th) PROVE alive' = alive
BY DEF UnlockQueue, StayInFront, QueueFree, UnlockConn, ProcessStep, Lock, FindEmpty, RetryReady, RetryNotReady, Enter, Interrupted, BeginWork,
       FinishWork, SetPromise, Pop, dispatcherVars

LEMMA PoolNext == IInv /\ IInv' /\ PoolInv /\ [TDNext]_tdVars => PoolInv'
<1> SUFFICES ASSUME IInv, TypeOK', PoolInv, [TDNext]_tdVars PROVE PoolInv'
  BY DEF IInv
<1> USE WorkersAssumption, ConstantsAssumption
    DEF PoolInv, TDTypeOK, WaitMutexInv, DestructorInv, NoWorkerLeftAsleep, poolVars,
        dispatcherVars, taskVars, connVars, threadVars, Clients, WGoto
<1>1. ASSUME NEW th \in Clients,
             \/ PoolDispatch(th) \/ PoolProcess(th) \/ PoolHelp(th)
             \/ PoolConnection(th) \/ PoolDrop(th)
      PROVE  PoolInv'
  <2>1. CASE PoolDispatch(th)
    <3>1. alive' = alive /\ dtor = "none" /\ UNCHANGED <<done, waitMutex, dtor>>
      BY <2>1 DEF PoolDispatch, Dispatch, DispatchUnconnected, Enqueue
    <3>2. wpc' = wpc \/ \E w \in Workers : wpc[w] = "sleep" /\ wpc' = [wpc EXCEPT ![w] = "awake"]
      BY <2>1 DEF PoolDispatch, NotifyOne, Sleeping
    <3>3. QED
      BY <3>1, <3>2
  <2>2. CASE PoolConnection(th) \/ PoolDrop(th)
    BY <2>2 DEF NoCallbackIn, PoolConnection, PoolDrop, Destroy, Drop
  <2>3. CASE PoolProcess(th)
    BY <2>3 DEF PoolProcess, Process
  <2>4. CASE PoolHelp(th)
    <3>1. alive' = alive
      BY <2>4, StepKeepsAlive DEF PoolHelp
    <3>2. QED
      BY <2>4, <3>1 DEF PoolHelp
  <2>5. QED
    BY <1>1, <2>1, <2>2, <2>3, <2>4
<1>2. CASE PoolEnvironment
  BY <1>2 DEF PoolEnvironment, Environment, Interrupt, SettleExternal
<1>3. ASSUME NEW w \in Workers, WorkerStep(w) PROVE PoolInv'
  <2>1. CASE Top(w)
    BY <2>1 DEF ProcessAll, Top, Process, vars
  <2>2. CASE Drain(w)
    <3>1. alive' = alive
      BY <2>2, StepKeepsAlive DEF Drain
    <3>2. QED
      BY <2>2, <3>1 DEF Drain
  <2>3. CASE LockWait(w)
    BY <2>3 DEF LockWait, vars
  <2>4. CASE CheckDone(w)
    BY <2>4 DEF CheckDone, vars
  <2>5. CASE Wait(w)
    BY <2>5 DEF Wait, vars
  <2>6. CASE WakeSpuriously(w) \/ Reacquire(w)
    BY <2>6 DEF WakeSpuriously, Reacquire, vars
  <2>7. QED
    BY <1>3, <2>1, <2>2, <2>3, <2>4, <2>5, <2>6 DEF WorkerStep
<1>4. CASE Destructor
  <2>1. CASE BeginDestructor
    BY <2>1 DEF LockWaitMutex, BeginDestructor, vars
  <2>2. CASE StoreDone
    BY <2>2 DEF StoreDone, vars
  <2>3. CASE NotifyAll
    BY <2>3 DEF WakeAll, NotifyAll, vars
  <2>4. CASE JoinAndDestroy
    BY <2>4 DEF Joined, JoinAndDestroy, DestroyDispatcher
  <2>5. QED
    BY <1>4, <2>1, <2>2, <2>3, <2>4 DEF Destructor
<1>5. CASE Constructor
  <2>1. ASSUME NEW w \in Workers, StartThread(w) PROVE PoolInv'
    BY <2>1 DEF StartThread, vars
  <2>2. CASE InitReturns
    BY <2>2 DEF InitReturns, vars
  <2>3. CASE InitThrows
    BY <2>3 DEF InitThrows, vars
  <2>4. QED
    BY <1>5, <2>1, <2>2, <2>3 DEF Constructor
<1>6. CASE UNCHANGED tdVars
  BY <1>6 DEF tdVars, vars
<1>7. QED
  BY <1>1, <1>2, <1>3, <1>4, <1>5, <1>6 DEF TDNext

(* The invariant of workers and destructor, with that of the dispatcher.   *)
THEOREM PoolInvariance == TDSpec => [](IInv /\ PoolInv)
<1>1. TDInit => PoolInv
  BY PoolInit
<1>2. IInv /\ IInv' /\ PoolInv /\ [TDNext]_tdVars => PoolInv'
  BY PoolNext
<1>3. QED
  BY <1>1, <1>2, PoolIsDispatcher, Invariance, PTL DEF TDSpec

(* Once the destructor has notified, no worker waits or is about to.       *)
THEOREM NobodySleepsThroughDestructor == TDSpec => []NoWorkerLeftAsleep
<1>1. PoolInv => NoWorkerLeftAsleep
  BY DEF PoolInv
<1>2. QED
  BY <1>1, PoolInvariance, PTL

(* When the destructor has returned no future is left pending.             *)
THEOREM DestructionSettles == TDSpec => []SettledWhenDestroyed
<1>1. IInv /\ PoolInv => SettledWhenDestroyed
  <2> SUFFICES ASSUME IInv, PoolInv, dtor = "over", NEW t \in Tasks, Dispatched(t)
               PROVE  IsSettled(t)
    BY DEF SettledWhenDestroyed
  <2>1. tasks = << >> /\ Len(tasks) = 0
    BY DEF PoolInv, DestructorInv, IInv, AliveInv
  <2>2. QED
    BY <2>1 DEF IInv, NoTaskLost
<1>2. QED
  BY <1>1, PoolInvariance, PTL

-----------------------------------------------------------------------------
(* The destructor goes on                                                  *)

(* A worker is in process_one only from the inner loop of worker_thread,   *)
(* and the constructor has started all workers before it returns.          *)
HomeInv ==
  /\ dtor # "init" => \A w \in Workers : wpc[w] # "unborn"
  /\ dtor # "failed" => \A w \in Workers : pc[w] # "idle" => wpc[w] = "drain"

LEMMA StepMovesOne ==
  ASSUME TypeOK, NEW th \in Threads, ProcessStep(th) \/ ClientStep(th)
  PROVE  \A s \in Threads \ {th} : pc'[s] = pc[s] /\ looping'[s] = looping[s]
BY DEF TypeOK, ProcessStep, Lock, FindEmpty, RetryReady, RetryNotReady, Enter, Interrupted, BeginWork,
       FinishWork, SetPromise, Pop, Return, ClientStep, Dispatch, DispatchUnconnected, Enqueue,
       Destroy, Process, Drop, Goto, threadVars

LEMMA HomeNext == IInv /\ PoolInv /\ HomeInv /\ [TDNext]_tdVars => HomeInv'
<1> SUFFICES ASSUME TypeOK, TDTypeOK, HomeInv, [TDNext]_tdVars PROVE HomeInv'
  BY DEF IInv, PoolInv
<1> USE WorkersAssumption DEF HomeInv, TDTypeOK, poolVars, threadVars, Clients, WGoto
<1>1. ASSUME NEW th \in Clients,
             \/ PoolDispatch(th) \/ PoolProcess(th) \/ PoolHelp(th)
             \/ PoolConnection(th) \/ PoolDrop(th)
      PROVE  HomeInv'
  <2>1. ProcessStep(th) \/ ClientStep(th)
    BY <1>1 DEF PoolDispatch, PoolProcess, PoolHelp, PoolConnection, PoolDrop, ClientStep
  <2>2. \A w \in Workers : pc'[w] = pc[w]
    BY <2>1, StepMovesOne
  <2>3. dtor' = dtor
    BY <1>1 DEF PoolDispatch, PoolProcess, PoolHelp, PoolConnection, PoolDrop
  <2>4. wpc' = wpc \/ \E w \in Workers : wpc[w] = "sleep" /\ wpc' = [wpc EXCEPT ![w] = "awake"]
    BY <1>1 DEF PoolDispatch, NotifyOne, Sleeping, PoolProcess, PoolHelp, PoolConnection, PoolDrop
  <2> QED
    BY <2>2, <2>3, <2>4
<1>2. CASE PoolEnvironment
  BY <1>2 DEF PoolEnvironment, Environment, Interrupt, SettleExternal
<1>3. ASSUME NEW w \in Workers, WorkerStep(w) PROVE HomeInv'
  <2>1. CASE Top(w)
    <3>1. dtor' = dtor /\ \A v \in Workers \ {w} : pc'[v] = pc[v] /\ wpc'[v] = wpc[v]
      BY <2>1 DEF Top, ProcessAll, Process, Goto, vars, TypeOK
    <3>2. wpc[w] = "top" /\ (wpc'[w] = "drain" \/ (wpc'[w] = "exited" /\ pc'[w] = pc[w]))
      BY <2>1 DEF Top, vars
    <3> QED
      BY <3>1, <3>2
  <2>2. CASE Drain(w)
    <3>1. \A v \in Workers \ {w} : pc'[v] = pc[v]
      BY <2>2, StepMovesOne DEF Drain
    <3> QED
      BY <2>2, <3>1 DEF Drain
  <2>3. CASE LockWait(w) \/ CheckDone(w) \/ Wait(w) \/ WakeSpuriously(w) \/ Reacquire(w)
    BY <2>3 DEF LockWait, CheckDone, Wait, WakeSpuriously, Reacquire, vars
  <2> QED
    BY <1>3, <2>1, <2>2, <2>3 DEF WorkerStep
<1>4. CASE Destructor
  <2>1. CASE BeginDestructor \/ StoreDone \/ NotifyAll
    BY <2>1 DEF BeginDestructor, StoreDone, NotifyAll, WakeAll, vars
  <2>2. CASE JoinAndDestroy
    BY <2>2 DEF JoinAndDestroy, DestroyDispatcher
  <2> QED
    BY <1>4, <2>1, <2>2 DEF Destructor
<1>5. CASE Constructor
  <2>1. ASSUME NEW w \in Workers, StartThread(w) PROVE HomeInv'
    BY <2>1 DEF StartThread, vars
  <2>2. CASE InitReturns \/ InitThrows
    BY <2>2 DEF InitReturns, InitThrows, vars
  <2> QED
    BY <1>5, <2>1, <2>2 DEF Constructor
<1>6. CASE UNCHANGED tdVars
  BY <1>6 DEF tdVars, vars
<1> QED
  BY <1>1, <1>2, <1>3, <1>4, <1>5, <1>6 DEF TDNext

(* The worker, or the client in process_one, can take its next step.       *)
InCall(th) == pc[th] # "idle" /\ (th \in Workers => wpc[th] = "drain")

WorkerGoesOn(w) ==
  \/ wpc[w] \in {"top", "check", "wait"}
  \/ waitMutex = NoThread /\ (wpc[w] = "awake" \/ (wpc[w] = "drain" /\ pc[w] = "idle"))

CanJoin == Joined /\ alive /\ \A th \in Threads : pc[th] \in {"idle", "drop"}

(* ~thread_dispatcher never hangs in join: all workers have ended, or one  *)
(* of them goes on, or whoever is inside a call that the others wait for,  *)
(* unless a callback waits for a future settled elsewhere.                 *)
THEOREM DestructorGoesOn ==
  TDSpec => [](dtor = "join" =>
    \/ CanJoin
    \/ \E w \in Workers : WorkerGoesOn(w)
    \/ \E th \in Threads : InCall(th) /\ (~Blocked(th) \/ WaitsOutside(th)))
<1>1. TDInit => HomeInv
  BY WorkersAssumption DEF TDInit, Init, HomeInv
<1>2. IInv /\ PoolInv /\ HomeInv => (dtor = "join" =>
    \/ CanJoin
    \/ \E w \in Workers : WorkerGoesOn(w)
    \/ \E th \in Threads : InCall(th) /\ (~Blocked(th) \/ WaitsOutside(th)))
  <2> SUFFICES ASSUME IInv, PoolInv, HomeInv, dtor = "join",
                      ~\E w \in Workers : WorkerGoesOn(w),
                      ~\E th \in Threads : InCall(th) /\ (~Blocked(th) \/ WaitsOutside(th))
               PROVE  CanJoin
    OBVIOUS
  <2>1. \A th \in Threads : pc[th] = "idle"
    BY CallGoesOn DEF InCall, HomeInv
  <2>2. waitMutex = NoThread
    BY DEF PoolInv, TDTypeOK, WaitMutexInv, WorkerGoesOn
  <2>3. Joined
    BY <2>1, <2>2, WorkersAssumption
    DEF PoolInv, TDTypeOK, NoWorkerLeftAsleep, HomeInv, WorkerGoesOn, Joined
  <2>4. alive
    BY DEF PoolInv, DestructorInv
  <2> QED
    BY <2>1, <2>3, <2>4 DEF CanJoin
<1> QED
  BY <1>1, <1>2, HomeNext, PoolInvariance, PTL DEF TDSpec

-----------------------------------------------------------------------------
(* Tasks at hand                                                           *)

(* Workers call process_one from a loop that ends with an empty queue.     *)
LoopInv == \A w \in Workers : pc[w] # "idle" => looping[w]

(* What a step does to a worker that is in process_one, or is going there. *)
LEMMA WorkerMoves ==
  ASSUME IInv, PoolInv, HomeInv, [TDNext]_tdVars, NEW w \in Workers
  PROVE  \/ pc'[w] = pc[w] /\ looping'[w] = looping[w]
         \/ pc'[w] = "lock" /\ looping'[w]
         \/ ProcessStep(w)
<1> USE WorkersAssumption DEF Clients
<1>1. ASSUME NEW th \in Threads \ {w}, ProcessStep(th) \/ ClientStep(th)
      PROVE  pc'[w] = pc[w] /\ looping'[w] = looping[w]
  BY <1>1, StepMovesOne DEF IInv
<1>2. ASSUME NEW th \in Clients,
             \/ PoolDispatch(th) \/ PoolProcess(th) \/ PoolHelp(th)
             \/ PoolConnection(th) \/ PoolDrop(th)
      PROVE  pc'[w] = pc[w] /\ looping'[w] = looping[w]
  <2>1. ProcessStep(th) \/ ClientStep(th)
    BY <1>2 DEF PoolDispatch, PoolProcess, PoolHelp, PoolConnection, PoolDrop, ClientStep
  <2> QED
    BY <1>1, <2>1
<1>3. CASE PoolEnvironment \/ Constructor \/ Destructor \/ UNCHANGED tdVars
  BY <1>3 DEF PoolEnvironment, Environment, Interrupt, SettleExternal, Constructor, StartThread,
              InitReturns, InitThrows, Destructor, BeginDestructor, StoreDone, NotifyAll,
              JoinAndDestroy, DestroyDispatcher, tdVars, vars, threadVars
<1>4. ASSUME NEW v \in Workers, WorkerStep(v)
      PROVE  \/ pc'[w] = pc[w] /\ looping'[w] = looping[w]
             \/ pc'[w] = "lock" /\ looping'[w]
             \/ ProcessStep(w)
  <2>1. CASE Top(v)
    BY <2>1 DEF Top, ProcessAll, Process, Goto, vars, threadVars, IInv, TypeOK
  <2>2. CASE Drain(v)
    BY <1>1, <2>2 DEF Drain
  <2>3. CASE LockWait(v) \/ CheckDone(v) \/ Wait(v) \/ WakeSpuriously(v) \/ Reacquire(v)
    BY <2>3 DEF LockWait, CheckDone, Wait, WakeSpuriously, Reacquire, vars, threadVars
  <2> QED
    BY <1>4, <2>1, <2>2, <2>3 DEF WorkerStep
<1> QED
  BY <1>2, <1>3, <1>4 DEF TDNext

(* A thread that loops leaves process_one for good with an empty queue.    *)
LEMMA LoopEndsEmpty ==
  ASSUME TypeOK, NEW th \in Threads, ProcessStep(th), looping[th]
  PROVE  (pc'[th] # "idle" /\ looping'[th]) \/ (pc'[th] = "idle" /\ tasks = << >>)
BY DEF TypeOK, ProcessStep, Lock, FindEmpty, RetryReady, RetryNotReady, Enter, Interrupted, BeginWork,
       FinishWork, SetPromise, Pop, Return, Goto, threadVars

LEMMA LoopNext == IInv /\ PoolInv /\ HomeInv /\ LoopInv /\ [TDNext]_tdVars => LoopInv'
<1> SUFFICES ASSUME IInv, PoolInv, HomeInv, LoopInv, [TDNext]_tdVars, NEW w \in Workers, pc'[w] # "idle"
             PROVE  looping'[w]
  BY DEF LoopInv
<1>1. ASSUME ProcessStep(w) PROVE looping'[w]
  <2>1. pc[w] # "idle"
    BY <1>1 DEF ProcessStep, Lock, FindEmpty, RetryReady, RetryNotReady, Enter, Interrupted, BeginWork,
                FinishWork, Pop
  <2> QED
    BY <1>1, <2>1, LoopEndsEmpty, WorkersAssumption DEF LoopInv, IInv
<1> QED
  BY <1>1, WorkerMoves DEF LoopInv

THEOREM LoopInvariance == TDSpec => [](IInv /\ PoolInv /\ HomeInv /\ LoopInv)
<1>1. TDInit => HomeInv /\ LoopInv
  BY WorkersAssumption DEF TDInit, Init, HomeInv, LoopInv
<1> QED
  BY <1>1, HomeNext, LoopNext, PoolInvariance, PTL DEF TDSpec

LEMMA StaysDispatched ==
  ASSUME IInv, [Next]_vars, NEW t \in Tasks, Dispatched(t)
  PROVE  Dispatched(t)'
<1> USE DEF IInv, TypeOK, Dispatched
<1>1. ASSUME NEW u \in Tasks, NEW c \in Conns, NEW g \in BOOLEAN, NEW D \in SUBSET Futures,
             Enqueue(u, c, g, D)
      PROVE  Dispatched(t)'
  BY <1>1, ConstantsAssumption DEF Enqueue
<1>2. CASE DestroyDispatcher \/ Undisturbed \/ \E th \in Threads : Pop(th)
  BY <1>2 DEF DestroyDispatcher, Undisturbed, Pop, taskVars
<1> QED
  BY <1>1, <1>2, QueueSteps

(* What is in the queue together with a worker gets its result: as long as *)
(* it has none, some worker stays in its loop, and the destructor waits.   *)
LEMMA AtHandStep ==
  ASSUME IInv, PoolInv, HomeInv, LoopInv, [TDNext]_tdVars, NEW t \in Tasks, AtHand(t)
  PROVE  AtHand(t)' \/ outcome'[t] \in Results
<1>1. PICK w \in Workers : pc[w] # "idle"
  BY DEF AtHand
<1>2. looping[w] /\ w \in Threads /\ w \notin Clients
  BY <1>1, WorkersAssumption DEF LoopInv, Clients
<1>3. tasks # << >> /\ Dispatched(t) /\ alive
  BY DEF AtHand, IInv, QueueInv, AliveInv
<1>4. [Next]_vars /\ IInv'
  BY PoolStep, IInvNext
<1>5. pc'[w] # "idle"
  BY <1>1, <1>2, <1>3, WorkerMoves, LoopEndsEmpty DEF IInv
<1>6. alive'
  <2>1. ~(dtor = "join" /\ Joined)
    BY <1>1 DEF HomeInv, Joined
  <2>2. dtor' # "over"
    BY <2>1, <1>3
    DEF TDNext, Constructor, StartThread, InitReturns, InitThrows, PoolDispatch, PoolProcess,
        PoolHelp, PoolConnection, PoolDrop, PoolEnvironment, WorkerStep, Top, Drain, LockWait,
        CheckDone, Wait, WakeSpuriously, Reacquire, Destructor, BeginDestructor, StoreDone,
        NotifyAll, JoinAndDestroy, tdVars, poolVars, PoolInv, DestructorInv
  <2>3. PoolInv'
    BY <1>4, PoolNext
  <2> QED
    BY <2>2, <2>3 DEF PoolInv, DestructorInv, TDTypeOK, TypeOK
<1>7. Dispatched(t)'
  BY <1>3, <1>4, StaysDispatched
<1>8. CASE IsSettled(t)'
  <2>1. outcome'[t] \in Outcomes /\ outcome'[t] # "pending" /\ outcome'[t] # "broken"
    BY <1>4, <1>6, <1>7, <1>8 DEF IInv, NoTaskLost, TypeOK, IsSettled, Futures
  <2> QED
    BY <2>1 DEF Outcomes
<1>9. CASE ~IsSettled(t)'
  <2>1. \E i \in 1 .. Len(tasks') : tasks'[i] = t
    BY <1>4, <1>7, <1>9 DEF IInv, NoTaskLost
  <2> QED
    BY <2>1, <1>5 DEF AtHand
<1> QED
  BY <1>8, <1>9

(* The workers of a pool never leave a task behind that they had at hand,  *)
(* whatever the moment at which the destructor begins.                     *)
THEOREM WorkersFinishWhatIsAtHand == TDSpec => NoTaskAtHandDropped
<1>1. IInv /\ PoolInv /\ HomeInv /\ LoopInv /\ [TDNext]_tdVars =>
        [\A t \in Tasks : AtHand(t) => AtHand(t)' \/ outcome'[t] \in Results]_tdVars
  BY AtHandStep
<1> QED
  BY <1>1, LoopInvariance, PTL DEF TDSpec, NoTaskAtHandDropped

(* Hence ~dispatcher breaks the promise of no task that ever was in the    *)
(* queue together with a worker in process_one.                            *)
THEOREM AtHandIsNeverBroken ==
  ASSUME NEW t \in Tasks
  PROVE  TDSpec => [](AtHand(t) => [](outcome[t] # "broken"))
<1> DEFINE Safe == AtHand(t) \/ outcome[t] \in Results
           Invs == IInv /\ PoolInv /\ HomeInv /\ LoopInv
<1>1. Invs /\ Safe => outcome[t] # "broken"
  BY DEF Results, AtHand, IInv, QueueInv, AliveInv, NoTaskLost
<1>2. Invs /\ Safe /\ [TDNext]_tdVars => Safe'
  <2>1. ASSUME Invs, [TDNext]_tdVars, outcome[t] \in Results PROVE outcome'[t] \in Results
    BY <2>1, PoolStep, SettledStays DEF IInv, Results, IsSettled, Futures
  <2> QED
    BY <2>1, AtHandStep
<1>3. AtHand(t) => Safe
  OBVIOUS
<1>4. TDSpec => []Invs /\ [][TDNext]_tdVars
  BY LoopInvariance, PTL DEF TDSpec
<1> HIDE DEF Safe, Invs
<1> QED
  BY <1>1, <1>2, <1>3, <1>4, PTL
=============================================================================
