-------------------------- MODULE DispatcherProofs --------------------------
(***************************************************************************)
(* Theorems about Dispatcher, for every set of tasks, futures, connections *)
(* and threads.                                                            *)
(***************************************************************************)
EXTENDS Dispatcher, SequenceTheorems, TLAPS

-----------------------------------------------------------------------------
(* Type correctness                                                        *)

LEMMA TypeInit == Init => TypeOK
  BY EmptySeq, ConstantsAssumption DEF Init, TypeOK, Outcomes, Busy, Futures

(* Every overload of dispatch stores values of the right types.            *)
LEMMA EnqueueType ==
  ASSUME TypeOK, NEW t \in Tasks, NEW c \in Conns, NEW g \in BOOLEAN,
         NEW D \in SUBSET Futures, Enqueue(t, c, g, D)
  PROVE  /\ tasks' \in Seq(Tasks)
         /\ conn' \in [Tasks -> Conns \cup {NoConn}]
         /\ gated' \in [Tasks -> BOOLEAN]
         /\ inputs' \in [Tasks -> SUBSET Futures]
  BY DEF Enqueue, Push, TypeOK

LEMMA TypeNext == TypeOK /\ LockInv /\ [Next]_vars => TypeOK'
<1> SUFFICES ASSUME TypeOK, LockInv, [Next]_vars PROVE TypeOK'
  OBVIOUS
<1> USE DEF dispatcherVars, taskVars, connVars, threadVars
<1>1. ASSUME NEW th \in Threads, ProcessStep(th) PROVE TypeOK'
  <2>1. CASE Lock(th)
    BY <2>1 DEF QueueFree, Lock, Goto, TypeOK, Busy
  <2>2. CASE FindEmpty(th)
    BY <2>2 DEF FindEmpty, Return, Goto, TypeOK, Busy
  <2>3. CASE RetryReady(th)
    BY <2>3 DEF RetryReady, Goto, TypeOK, Busy
  <2>4. CASE RetryNotReady(th)
    BY <2>4 DEF UnlockQueue, StayInFront, RetryNotReady, Return, Goto, TypeOK, Busy
  <2>5. CASE Enter(th)
    BY <2>5 DEF Enter, Goto, TypeOK, Busy
  <2>6. ASSUME NEW result \in Results, SetPromise(th, result) PROVE TypeOK'
    BY <2>6, ConstantsAssumption DEF UnlockConn, SetPromise, Goto, TypeOK, Busy, Outcomes
  <2>7. CASE BeginWork(th)
    BY <2>7 DEF BeginWork, Goto, TypeOK, Busy
  <2>8. CASE Pop(th)
    <3>1. tasks # << >>
      BY <2>8, ConstantsAssumption DEF Pop, LockInv, Busy
    <3>2. tasks' \in Seq(Tasks)
      BY <2>8, <3>1 DEF Pop, TypeOK
    <3>3. QED
      BY <2>8, <3>2, ConstantsAssumption
      DEF Pop, BreakPromises, Return, Goto, TypeOK, Busy, Outcomes
  <2>9. QED
    BY <1>1, <2>1, <2>2, <2>3, <2>4, <2>5, <2>6, <2>7, <2>8
    DEF ProcessStep, Interrupted, FinishWork, Results
<1>2. ASSUME NEW th \in Threads, ClientStep(th) PROVE TypeOK'
  <2>1. ASSUME NEW t \in Tasks, NEW c \in Conns, NEW g \in BOOLEAN,
               NEW D \in SUBSET Futures, Dispatch(th, t, c, g, D)
        PROVE  TypeOK'
    BY <2>1, EnqueueType DEF Dispatch, Enqueue, TypeOK
  <2>2. ASSUME NEW t \in Tasks, NEW c \in Conns, NEW g \in BOOLEAN,
               NEW D \in SUBSET Futures, DispatchUnconnected(th, t, c, g, D)
        PROVE  TypeOK'
    BY <2>2, EnqueueType DEF DispatchUnconnected, Enqueue, Goto, TypeOK
  <2>3. ASSUME NEW c \in Conns, NEW interrupts \in BOOLEAN, Destroy(th, c, interrupts)
        PROVE  TypeOK'
    BY <2>3 DEF Destroy, Goto, TypeOK
  <2>4. ASSUME NEW all \in BOOLEAN, Process(th, all) PROVE TypeOK'
    BY <2>4 DEF Process, Goto, TypeOK
  <2>5. CASE Drop(th)
    BY <2>5 DEF NoCallbackIn, Drop, Goto, TypeOK
  <2>6. QED
    BY <1>2, <2>1, <2>2, <2>3, <2>4, <2>5 DEF ClientStep
<1>3. CASE Environment
  BY <1>3 DEF Environment, Interrupt, SettleExternal, TypeOK, Outcomes, Futures
<1>4. CASE DestroyDispatcher
  BY <1>4, EmptySeq DEF DestroyDispatcher, BreakPromises, TypeOK, Outcomes
<1>5. CASE UNCHANGED vars
  BY <1>5 DEF vars, TypeOK
<1>6. QED
  BY <1>1, <1>2, <1>3, <1>4, <1>5 DEF Next

-----------------------------------------------------------------------------
(* The queue                                                               *)

(* push_back: the queue grows at its end and its front stays.              *)
LEMMA PushFacts ==
  ASSUME tasks \in Seq(Tasks), NEW t \in Tasks, Push(t)
  PROVE  /\ Len(tasks') = Len(tasks) + 1
         /\ \A i \in 1 .. Len(tasks) : tasks'[i] = tasks[i]
         /\ tasks'[Len(tasks) + 1] = t
         /\ tasks' # << >>
         /\ tasks # << >> => Head(tasks') = Head(tasks)
  BY DEF Push

(* pop_front: every other task moves one place forward.                    *)
LEMMA PopFacts ==
  ASSUME tasks \in Seq(Tasks), tasks # << >>, tasks' = Tail(tasks)
  PROVE  /\ tasks' \in Seq(Tasks)
         /\ Len(tasks) \in Nat /\ Len(tasks) >= 1
         /\ Len(tasks') = Len(tasks) - 1
         /\ \A i \in 1 .. Len(tasks') : i + 1 \in 1 .. Len(tasks) /\ tasks'[i] = tasks[i + 1]
         /\ Head(tasks) = tasks[1]
  OBVIOUS

(* The front task is the first of the queue.                               *)
LEMMA FrontFacts ==
  ASSUME tasks \in Seq(Tasks), tasks # << >>
  PROVE  /\ Len(tasks) \in Nat /\ 1 \in 1 .. Len(tasks)
         /\ Front = tasks[1] /\ Front \in Tasks
  BY DEF Front

-----------------------------------------------------------------------------
(* Locks                                                                   *)

LEMMA LockNext == TypeOK /\ LockInv /\ [Next]_vars => LockInv'
<1> SUFFICES ASSUME TypeOK, LockInv, [Next]_vars PROVE LockInv'
  OBVIOUS
<1> USE ConstantsAssumption
    DEF dispatcherVars, taskVars, connVars, threadVars, Busy, IsSettled, Front
<1>1. ASSUME NEW th \in Threads, ProcessStep(th) PROVE LockInv'
  <2>1. CASE Lock(th)
    BY <2>1 DEF QueueFree, Lock, Goto, TypeOK, LockInv
  <2>2. CASE FindEmpty(th)
    BY <2>2 DEF FindEmpty, Return, Goto, TypeOK, LockInv
  <2>3. CASE RetryReady(th)
    BY <2>3 DEF RetryReady, Goto, TypeOK, LockInv
  <2>4. CASE RetryNotReady(th)
    BY <2>4 DEF UnlockQueue, StayInFront, RetryNotReady, Return, Goto, TypeOK, LockInv
  <2>5. CASE Enter(th)
    BY <2>5 DEF Enter, Goto, TypeOK, LockInv
  <2>6. ASSUME NEW result \in Results, pc[th] \in Guarded, SetPromise(th, result)
        PROVE  LockInv'
    <3>1. tasks # << >> /\ Head(tasks) \in Futures
      BY <2>6, FrontFacts DEF Guarded, LockInv, TypeOK, Futures
    <3>2. QED
      BY <2>6, <3>1 DEF UnlockConn, SetPromise, Goto, TypeOK, LockInv, Guarded, Results
  <2>7. CASE BeginWork(th)
    BY <2>7 DEF BeginWork, Goto, TypeOK, LockInv
  <2>8. CASE Pop(th)
    BY <2>8 DEF Pop, Return, Goto, TypeOK, LockInv
  <2>9. QED
    BY <1>1, <2>1, <2>2, <2>3, <2>4, <2>5, <2>6, <2>7, <2>8
    DEF ProcessStep, Interrupted, FinishWork, Results, Guarded
<1>2. ASSUME NEW th \in Threads, ClientStep(th) PROVE LockInv'
  <2>1. ASSUME NEW t \in Tasks, NEW c \in Conns, NEW g \in BOOLEAN,
               NEW D \in SUBSET Futures, Dispatch(th, t, c, g, D)
        PROVE  LockInv'
    BY <2>1, PushFacts DEF Dispatch, Enqueue, TypeOK, LockInv
  <2>2. ASSUME NEW t \in Tasks, NEW c \in Conns, NEW g \in BOOLEAN,
               NEW D \in SUBSET Futures, DispatchUnconnected(th, t, c, g, D)
        PROVE  LockInv'
    BY <2>2, PushFacts DEF DispatchUnconnected, Enqueue, Goto, TypeOK, LockInv
  <2>3. ASSUME NEW c \in Conns, NEW interrupts \in BOOLEAN, Destroy(th, c, interrupts)
        PROVE  LockInv'
    BY <2>3 DEF Destroy, Goto, TypeOK, LockInv
  <2>4. ASSUME NEW all \in BOOLEAN, Process(th, all) PROVE LockInv'
    BY <2>4 DEF Process, Goto, TypeOK, LockInv
  <2>5. CASE Drop(th)
    BY <2>5 DEF NoCallbackIn, Drop, Goto, TypeOK, LockInv
  <2>6. QED
    BY <1>2, <2>1, <2>2, <2>3, <2>4, <2>5 DEF ClientStep
<1>3. CASE Environment
  BY <1>3, FrontFacts DEF Environment, Interrupt, SettleExternal, TypeOK, LockInv, Results, Futures
<1>4. CASE DestroyDispatcher
  BY <1>4 DEF DestroyDispatcher, TypeOK, LockInv
<1>5. CASE UNCHANGED vars
  BY <1>5 DEF vars, LockInv
<1>6. QED
  BY <1>1, <1>2, <1>3, <1>4, <1>5 DEF Next

LEMMA ConnLockNext ==
  TypeOK /\ LockInv /\ ConnLockInv /\ [Next]_vars => ConnLockInv'
<1> SUFFICES ASSUME TypeOK, LockInv, ConnLockInv, [Next]_vars PROVE ConnLockInv'
  OBVIOUS
<1> USE ConstantsAssumption
    DEF dispatcherVars, taskVars, connVars, threadVars, Busy, Guarded, Front, FrontConn
<1>1. ASSUME NEW th \in Threads, ProcessStep(th) PROVE ConnLockInv'
  <2>1. CASE Lock(th)
    BY <2>1 DEF QueueFree, Lock, Goto, TypeOK, ConnLockInv, LockInv
  <2>2. CASE FindEmpty(th)
    BY <2>2 DEF FindEmpty, Return, Goto, TypeOK, ConnLockInv, LockInv
  <2>3. CASE RetryReady(th)
    BY <2>3 DEF RetryReady, Goto, TypeOK, ConnLockInv, LockInv
  <2>4. CASE RetryNotReady(th)
    BY <2>4 DEF UnlockQueue, StayInFront, RetryNotReady, Return, Goto, TypeOK, ConnLockInv, LockInv
  <2>5. CASE Enter(th)
    BY <2>5 DEF Enter, Goto, TypeOK, ConnLockInv, LockInv
  <2>6. ASSUME NEW result \in Results, pc[th] \in Guarded, SetPromise(th, result)
        PROVE  ConnLockInv'
    BY <2>6 DEF UnlockConn, SetPromise, Goto, TypeOK, ConnLockInv, LockInv
  <2>7. CASE BeginWork(th)
    BY <2>7 DEF BeginWork, Goto, TypeOK, ConnLockInv, LockInv
  <2>8. CASE Pop(th)
    BY <2>8 DEF Pop, Return, Goto, TypeOK, ConnLockInv, LockInv
  <2>9. QED
    BY <1>1, <2>1, <2>2, <2>3, <2>4, <2>5, <2>6, <2>7, <2>8
    DEF ProcessStep, Interrupted, FinishWork, Results
<1>2. ASSUME NEW th \in Threads, ClientStep(th) PROVE ConnLockInv'
  <2>1. ASSUME NEW t \in Tasks, NEW c \in Conns, NEW g \in BOOLEAN,
               NEW D \in SUBSET Futures, Enqueue(t, c, g, D),
               pc' = pc \/ pc' = [pc EXCEPT ![th] = "drop"], pc[th] = "idle"
        PROVE  ConnLockInv'
    BY <2>1 DEF Enqueue, TypeOK, ConnLockInv, LockInv
  <2>2. ASSUME NEW c \in Conns, NEW interrupts \in BOOLEAN, Destroy(th, c, interrupts)
        PROVE  ConnLockInv'
    BY <2>2 DEF Destroy, Goto, TypeOK, ConnLockInv, LockInv
  <2>3. ASSUME NEW all \in BOOLEAN, Process(th, all) PROVE ConnLockInv'
    BY <2>3 DEF Process, Goto, TypeOK, ConnLockInv, LockInv
  <2>4. CASE Drop(th)
    BY <2>4 DEF NoCallbackIn, Drop, Goto, TypeOK, ConnLockInv, LockInv
  <2>5. QED
    BY <1>2, <2>1, <2>2, <2>3, <2>4 DEF ClientStep, Dispatch, DispatchUnconnected, Goto
<1>3. CASE Environment
  BY <1>3 DEF Environment, Interrupt, SettleExternal, ConnLockInv
<1>4. CASE DestroyDispatcher
  BY <1>4 DEF DestroyDispatcher, TypeOK, ConnLockInv
<1>5. CASE UNCHANGED vars
  BY <1>5 DEF vars, ConnLockInv
<1>6. QED
  BY <1>1, <1>2, <1>3, <1>4, <1>5 DEF Next

(* A thread that begins to destroy an open connection is the only one.     *)
LEMMA BeginClosing ==
  ASSUME TypeOK, ClosingInv, NEW th \in Threads, NEW c \in Conns, handle[c] = "open",
         pc[th] = "idle", Goto(th, "drop"),
         handle' = [handle EXCEPT ![c] = "closing"],
         closing' = [closing EXCEPT ![th] = c]
  PROVE  ClosingInv'
<1>1. \A o \in Threads : o # th /\ pc'[o] = "drop" =>
        pc[o] = "drop" /\ closing'[o] = closing[o] /\ closing[o] # c
  BY DEF Goto, TypeOK, ClosingInv
<1>2. closing'[th] = c /\ handle'[c] = "closing"
  BY DEF TypeOK
<1>3. \A d \in Conns : d # c => handle'[d] = handle[d]
  BY DEF TypeOK
<1>4. QED
  BY <1>1, <1>2, <1>3 DEF ClosingInv

LEMMA ClosingNext == TypeOK /\ ClosingInv /\ [Next]_vars => ClosingInv'
<1> SUFFICES ASSUME TypeOK, ClosingInv, [Next]_vars PROVE ClosingInv'
  OBVIOUS
<1> USE DEF dispatcherVars, taskVars, connVars, threadVars
<1>1. ASSUME NEW th \in Threads, ProcessStep(th) PROVE ClosingInv'
  <2>1. /\ UNCHANGED <<closing, handle>>
        /\ \A o \in Threads : pc'[o] = "drop" => pc[o] = "drop"
    BY <1>1 DEF UnlockQueue, StayInFront, QueueFree, UnlockConn, ProcessStep, Lock, FindEmpty, RetryReady, RetryNotReady, Enter, Interrupted,
                BeginWork, FinishWork, SetPromise, Pop, Return, Goto, TypeOK
  <2>2. QED
    BY <2>1 DEF ClosingInv
<1>2. ASSUME NEW th \in Threads, ClientStep(th) PROVE ClosingInv'
  <2>1. ASSUME NEW t \in Tasks, NEW c \in Conns, NEW g \in BOOLEAN,
               NEW D \in SUBSET Futures, Dispatch(th, t, c, g, D)
        PROVE  ClosingInv'
    BY <2>1 DEF Dispatch, ClosingInv
  <2>2. ASSUME NEW t \in Tasks, NEW c \in Conns, NEW g \in BOOLEAN,
               NEW D \in SUBSET Futures, DispatchUnconnected(th, t, c, g, D)
        PROVE  ClosingInv'
    BY <2>2, BeginClosing DEF DispatchUnconnected, Enqueue
  <2>3. ASSUME NEW c \in Conns, NEW interrupts \in BOOLEAN, Destroy(th, c, interrupts)
        PROVE  ClosingInv'
    BY <2>3, BeginClosing DEF Destroy
  <2>4. ASSUME NEW all \in BOOLEAN, Process(th, all) PROVE ClosingInv'
    BY <2>4 DEF Process, Goto, TypeOK, ClosingInv
  <2>5. CASE Drop(th)
    BY <2>5 DEF NoCallbackIn, Drop, Goto, TypeOK, ClosingInv
  <2>6. QED
    BY <1>2, <2>1, <2>2, <2>3, <2>4, <2>5 DEF ClientStep
<1>3. CASE Environment
  BY <1>3 DEF Environment, Interrupt, SettleExternal, ClosingInv
<1>4. CASE DestroyDispatcher
  BY <1>4 DEF DestroyDispatcher, ClosingInv
<1>5. CASE UNCHANGED vars
  BY <1>5 DEF vars, ClosingInv
<1>6. QED
  BY <1>1, <1>2, <1>3, <1>4, <1>5 DEF Next

(* Tasks leave the queue at its front and are settled there only.          *)
LEMMA QueueNext ==
  TypeOK /\ LockInv /\ QueueInv /\ [Next]_vars => QueueInv'
<1> SUFFICES ASSUME TypeOK, LockInv, QueueInv, [Next]_vars PROVE QueueInv'
  OBVIOUS
<1> USE ConstantsAssumption
    DEF dispatcherVars, taskVars, connVars, threadVars, Busy, IsSettled, Dispatched
<1>1. ASSUME NEW th \in Threads, ProcessStep(th) PROVE QueueInv'
  <2>1. CASE Lock(th)
    BY <2>1 DEF QueueFree, Lock, Goto, TypeOK, QueueInv, LockInv
  <2>2. CASE FindEmpty(th)
    BY <2>2 DEF FindEmpty, Return, Goto, TypeOK, QueueInv, LockInv
  <2>3. CASE RetryReady(th)
    BY <2>3 DEF RetryReady, Goto, TypeOK, QueueInv, LockInv
  <2>4. CASE RetryNotReady(th)
    BY <2>4 DEF UnlockQueue, StayInFront, RetryNotReady, Return, Goto, TypeOK, QueueInv, LockInv
  <2>5. CASE Enter(th)
    BY <2>5 DEF Enter, Goto, TypeOK, QueueInv, LockInv
  <2>6. ASSUME NEW result \in Results, pc[th] \in Guarded, SetPromise(th, result)
        PROVE  QueueInv'
    <3>1. tasks # << >> /\ mutex = th
      BY <2>6 DEF Guarded, LockInv, TypeOK
    <3>2. Front = tasks[1] /\ Front \in Tasks /\ 1 \in 1 .. Len(tasks)
      BY <3>1, FrontFacts DEF TypeOK
    <3>3. \A t \in Futures : t # Front => outcome'[t] = outcome[t]
      BY <2>6, <3>2 DEF UnlockConn, SetPromise, TypeOK
    <3>4. \A i \in 1 .. Len(tasks) : i # 1 => tasks[i] # Front
      BY <3>2 DEF QueueInv
    <3>5. Tasks \subseteq Futures /\ \A i \in 1 .. Len(tasks) : tasks[i] \in Tasks
      BY DEF Futures, TypeOK
    <3>6. pc'[th] = "pop" /\ UNCHANGED <<tasks, conn, mutex>>
      BY <2>6 DEF UnlockConn, SetPromise, Goto, TypeOK
    <3>7. conn[Front] # NoConn
      BY <3>2 DEF QueueInv
    <3>8. QED
      BY <3>1, <3>2, <3>3, <3>4, <3>5, <3>6, <3>7 DEF QueueInv
  <2>7. CASE BeginWork(th)
    BY <2>7 DEF BeginWork, Goto, TypeOK, QueueInv, LockInv
  <2>8. CASE Pop(th)
    <3>1. tasks # << >>
      BY <2>8 DEF Pop, LockInv
    <3>2. /\ Len(tasks') = Len(tasks) - 1 /\ Len(tasks) \in Nat
          /\ \A i \in 1 .. Len(tasks') : i + 1 \in 1 .. Len(tasks) /\ tasks'[i] = tasks[i + 1]
      BY <2>8, <3>1, PopFacts DEF Pop, TypeOK
    <3>3. outcome' = outcome /\ conn' = conn
      BY <2>8 DEF Pop, LockInv, BreakPromises, TypeOK
    <3>4. QED
      BY <3>2, <3>3 DEF QueueInv
  <2>9. QED
    BY <1>1, <2>1, <2>2, <2>3, <2>4, <2>5, <2>6, <2>7, <2>8
    DEF ProcessStep, Interrupted, FinishWork, Results, Guarded
<1>2. ASSUME NEW th \in Threads, ClientStep(th) PROVE QueueInv'
  <2>1. ASSUME NEW t \in Tasks, NEW c \in Conns, NEW g \in BOOLEAN,
               NEW D \in SUBSET Futures, Enqueue(t, c, g, D)
        PROVE  QueueInv'
    <3>1. /\ Len(tasks') = Len(tasks) + 1 /\ Len(tasks) \in Nat
          /\ \A i \in 1 .. Len(tasks) : tasks'[i] = tasks[i]
          /\ tasks'[Len(tasks) + 1] = t
      BY <2>1, PushFacts DEF Enqueue, TypeOK
    <3>2. /\ conn[t] = NoConn /\ conn'[t] # NoConn /\ outcome[t] = "pending"
          /\ \A o \in Tasks : o # t => conn'[o] = conn[o]
          /\ outcome' = outcome
      BY <2>1 DEF Enqueue, QueueInv, TypeOK
    <3>3. \A i \in 1 .. Len(tasks) : tasks[i] \in Tasks /\ tasks[i] # t
      BY <3>2 DEF QueueInv, TypeOK
    <3>4. \A i \in 1 .. Len(tasks) : outcome[tasks[i]] = "pending"
      BY <2>1 DEF Enqueue, QueueInv
    <3>5. \A i, j \in 1 .. Len(tasks') : tasks'[i] = tasks'[j] => i = j
      BY <3>1, <3>3 DEF QueueInv
    <3>6. \A i \in 1 .. Len(tasks') : conn'[tasks'[i]] # NoConn /\ outcome'[tasks'[i]] = "pending"
      BY <3>1, <3>2, <3>3, <3>4 DEF QueueInv
    <3>7. QED
      BY <3>2, <3>5, <3>6 DEF QueueInv
  <2>2. ASSUME NEW c \in Conns, NEW interrupts \in BOOLEAN, Destroy(th, c, interrupts)
        PROVE  QueueInv'
    BY <2>2 DEF Destroy, Goto, TypeOK, QueueInv
  <2>3. ASSUME NEW all \in BOOLEAN, Process(th, all) PROVE QueueInv'
    BY <2>3 DEF Process, Goto, TypeOK, QueueInv
  <2>4. CASE Drop(th)
    BY <2>4 DEF NoCallbackIn, Drop, Goto, TypeOK, QueueInv
  <2>5. QED
    BY <1>2, <2>1, <2>2, <2>3, <2>4 DEF ClientStep, Dispatch, DispatchUnconnected
<1>3. CASE Environment
  <2>1. \A i \in 1 .. Len(tasks) : tasks[i] \in Tasks
    BY DEF TypeOK
  <2>2. \A t \in Tasks : outcome'[t] = outcome[t]
    BY <1>3 DEF Environment, Interrupt, SettleExternal, TypeOK, Futures
  <2>3. UNCHANGED <<tasks, mutex, conn, pc>>
    BY <1>3 DEF Environment, Interrupt, SettleExternal
  <2>4. QED
    BY <2>1, <2>2, <2>3 DEF QueueInv
<1>4. CASE DestroyDispatcher
  <2>1. tasks' = << >> /\ Len(tasks') = 0 /\ conn' = conn
    BY <1>4 DEF DestroyDispatcher
  <2>2. \A t \in Tasks : conn[t] = NoConn => outcome'[t] = outcome[t]
    BY <1>4 DEF DestroyDispatcher, BreakPromises, QueueInv, TypeOK, Futures
  <2>3. QED
    BY <2>1, <2>2 DEF QueueInv
<1>5. CASE UNCHANGED vars
  BY <1>5 DEF vars, QueueInv
<1>6. QED
  BY <1>1, <1>2, <1>3, <1>4, <1>5 DEF Next

-----------------------------------------------------------------------------
(* Futures                                                                 *)

(* The promise a thread is about to set is still pending.                  *)
LEMMA GuardedIsPending ==
  ASSUME TypeOK, LockInv, QueueInv, NEW th \in Threads, pc[th] \in Guarded
  PROVE  /\ tasks # << >> /\ mutex = th
         /\ Front \in Tasks /\ Dispatched(Front) /\ ~IsSettled(Front)
<1>1. tasks # << >> /\ mutex = th /\ pc[mutex] # "pop"
  BY ConstantsAssumption DEF Guarded, LockInv, Busy, TypeOK
<1>2. Front = tasks[1] /\ Front \in Tasks /\ 1 \in 1 .. Len(tasks)
  BY <1>1, FrontFacts DEF TypeOK
<1>3. QED
  BY <1>1, <1>2 DEF QueueInv

(* No step changes the result of a settled future.                         *)
LEMMA SettledStays ==
  ASSUME TypeOK, LockInv, QueueInv, [Next]_vars, NEW f \in Futures, IsSettled(f)
  PROVE  outcome'[f] = outcome[f]
<1> USE DEF dispatcherVars, taskVars, connVars, threadVars, IsSettled
<1>1. ASSUME NEW th \in Threads, ProcessStep(th) PROVE outcome'[f] = outcome[f]
  <2>1. ASSUME NEW result \in Results, pc[th] \in Guarded, SetPromise(th, result)
        PROVE  outcome'[f] = outcome[f]
    BY <2>1, GuardedIsPending DEF UnlockConn, SetPromise, TypeOK
  <2>2. CASE Lock(th) \/ FindEmpty(th) \/ RetryReady(th) \/ RetryNotReady(th)
             \/ Enter(th) \/ BeginWork(th)
    BY <2>2 DEF UnlockQueue, StayInFront, QueueFree, Lock, FindEmpty, RetryReady, RetryNotReady, Enter, BeginWork
  <2>3. CASE Pop(th)
    BY <2>3 DEF Pop, BreakPromises
  <2>4. QED
    BY <1>1, <2>1, <2>2, <2>3 DEF ProcessStep, Interrupted, FinishWork, Results, Guarded
<1>2. ASSUME NEW th \in Threads, ClientStep(th) PROVE outcome'[f] = outcome[f]
  BY <1>2 DEF NoCallbackIn, ClientStep, Dispatch, DispatchUnconnected, Enqueue, Destroy, Process, Drop
<1>3. CASE Environment
  BY <1>3 DEF Environment, Interrupt, SettleExternal, TypeOK, Futures
<1>4. CASE DestroyDispatcher
  BY <1>4 DEF DestroyDispatcher, BreakPromises
<1>5. CASE UNCHANGED vars
  BY <1>5 DEF vars
<1>6. QED
  BY <1>1, <1>2, <1>3, <1>4, <1>5 DEF Next

(* What the steps do to the queue: only dispatch, pop_front and ~dispatcher*)
(* change it, and only the last two break promises.                        *)
Undisturbed == /\ UNCHANGED <<tasks, conn, inputs, alive>>
               /\ \A t \in Tasks : outcome'[t] = "broken" => outcome[t] = "broken"

LEMMA QueueSteps ==
  ASSUME TypeOK, LockInv, [Next]_vars
  PROVE  \/ \E t \in Tasks, c \in Conns, g \in BOOLEAN, D \in SUBSET Futures :
               Enqueue(t, c, g, D)
         \/ \E th \in Threads : Pop(th)
         \/ DestroyDispatcher
         \/ Undisturbed
<1> USE DEF dispatcherVars, taskVars, connVars, threadVars, Undisturbed
<1>1. ASSUME NEW th \in Threads, ProcessStep(th), ~Pop(th) PROVE Undisturbed
  <2>1. ASSUME NEW result \in Results, SetPromise(th, result) PROVE Undisturbed
    BY <2>1 DEF UnlockConn, SetPromise, TypeOK, Results, Futures
  <2>2. QED
    BY <1>1, <2>1 DEF UnlockQueue, StayInFront, QueueFree, ProcessStep, Lock, FindEmpty, RetryReady, RetryNotReady, Enter,
                      Interrupted, BeginWork, FinishWork, Results
<1>2. ASSUME NEW th \in Threads, ClientStep(th)
      PROVE  \/ \E t \in Tasks, c \in Conns, g \in BOOLEAN, D \in SUBSET Futures :
                   Enqueue(t, c, g, D)
             \/ Undisturbed
  BY <1>2 DEF NoCallbackIn, ClientStep, Dispatch, DispatchUnconnected, Destroy, Process, Drop
<1>3. CASE Environment
  BY <1>3 DEF Environment, Interrupt, SettleExternal, TypeOK, Results, Futures
<1>4. CASE UNCHANGED vars
  BY <1>4 DEF vars
<1>5. QED
  BY <1>1, <1>2, <1>3, <1>4 DEF Next

LEMMA NoTaskLostNext ==
  TypeOK /\ LockInv /\ QueueInv /\ AliveInv /\ NoTaskLost /\ [Next]_vars => NoTaskLost'
<1> SUFFICES ASSUME TypeOK, LockInv, QueueInv, AliveInv, NoTaskLost, [Next]_vars,
                    NEW t \in Tasks, Dispatched(t)'
             PROVE  /\ ~IsSettled(t)' => \E i \in 1 .. Len(tasks') : tasks'[i] = t
                    /\ outcome'[t] = "broken" => ~alive'
  BY DEF NoTaskLost
<1> USE DEF dispatcherVars, taskVars, connVars, threadVars, Dispatched, IsSettled
<1>0. Tasks \subseteq Futures /\ (IsSettled(t) => outcome'[t] = outcome[t])
  BY SettledStays DEF Futures
<1>1. ASSUME NEW u \in Tasks, NEW c \in Conns, NEW g \in BOOLEAN, NEW D \in SUBSET Futures,
             Enqueue(u, c, g, D)
      PROVE  /\ ~IsSettled(t)' => \E i \in 1 .. Len(tasks') : tasks'[i] = t
             /\ outcome'[t] = "broken" => ~alive'
  <2>1. /\ Len(tasks') = Len(tasks) + 1 /\ Len(tasks) \in Nat
        /\ \A i \in 1 .. Len(tasks) : tasks'[i] = tasks[i]
        /\ tasks'[Len(tasks) + 1] = u
    BY <1>1, PushFacts DEF Enqueue, TypeOK
  <2>2. /\ conn[u] = NoConn /\ outcome[u] = "pending" /\ outcome' = outcome
        /\ alive' = alive /\ (t # u => conn'[t] = conn[t])
    BY <1>1 DEF Enqueue, QueueInv, TypeOK
  <2>3. QED
    BY <2>1, <2>2 DEF NoTaskLost
<1>2. ASSUME NEW th \in Threads, Pop(th)
      PROVE  /\ ~IsSettled(t)' => \E i \in 1 .. Len(tasks') : tasks'[i] = t
             /\ outcome'[t] = "broken" => ~alive'
  <2>1. tasks # << >> /\ IsSettled(Front)
    BY <1>2, ConstantsAssumption DEF Pop, LockInv, Busy, TypeOK
  <2>2. outcome' = outcome /\ conn' = conn /\ alive' = alive
    BY <1>2, <2>1 DEF Pop, BreakPromises, TypeOK
  <2>3. /\ Len(tasks') = Len(tasks) - 1 /\ Len(tasks) \in Nat /\ Front = tasks[1]
        /\ \A i \in 1 .. Len(tasks') : tasks'[i] = tasks[i + 1]
    BY <1>2, <2>1, PopFacts, FrontFacts DEF Pop, TypeOK
  <2>4. ASSUME NEW i \in 1 .. Len(tasks), tasks[i] = t, t # Front
        PROVE  i - 1 \in 1 .. Len(tasks') /\ tasks'[i - 1] = t
    BY <2>3, <2>4
  <2>5. QED
    BY <2>1, <2>2, <2>4 DEF NoTaskLost
<1>3. CASE DestroyDispatcher
  BY <1>0, <1>3 DEF DestroyDispatcher, BreakPromises, NoTaskLost
<1>4. CASE Undisturbed
  BY <1>0, <1>4 DEF Undisturbed, NoTaskLost
<1>5. QED
  BY <1>1, <1>2, <1>3, <1>4, QueueSteps

(* The inputs of a task are futures of tasks already dispatched, which are *)
(* settled or somewhere in front of it.                                    *)
LEMMA InputsNext ==
  TypeOK /\ LockInv /\ QueueInv /\ InputsInv /\ NoTaskLost /\ [Next]_vars => InputsInv'
<1> SUFFICES ASSUME TypeOK, LockInv, QueueInv, InputsInv, NoTaskLost, [Next]_vars
             PROVE  InputsInv'
  OBVIOUS
<1> USE DEF dispatcherVars, taskVars, connVars, threadVars, Dispatched, IsSettled
<1>0. \A f \in Tasks : IsSettled(f) => IsSettled(f)'
  BY SettledStays DEF Futures
<1>1. ASSUME NEW u \in Tasks, NEW c \in Conns, NEW g \in BOOLEAN, NEW D \in SUBSET Futures,
             Enqueue(u, c, g, D)
      PROVE  InputsInv'
  <2>1. /\ Len(tasks') = Len(tasks) + 1 /\ Len(tasks) \in Nat
        /\ \A i \in 1 .. Len(tasks) : tasks'[i] = tasks[i]
        /\ tasks'[Len(tasks) + 1] = u
    BY <1>1, PushFacts DEF Enqueue, TypeOK
  <2>2. \A i \in 1 .. Len(tasks) : tasks[i] \in Tasks /\ tasks[i] # u
    BY <1>1 DEF Enqueue, QueueInv, TypeOK
  <2>3. inputs'[u] = D /\ \A t \in Tasks : t # u => inputs'[t] = inputs[t]
    BY <1>1 DEF Enqueue, TypeOK
  <2>4. ASSUME NEW f \in D \cap Tasks
        PROVE  IsSettled(f)' \/ \E j \in 1 .. Len(tasks) : tasks'[j] = f
    <3>1. Available(f)
      BY <1>1 DEF Enqueue
    <3>2. IsSettled(f) \/ \E j \in 1 .. Len(tasks) : tasks[j] = f
      BY <3>1, ConstantsAssumption DEF Available, NoTaskLost
    <3>3. QED
      BY <1>0, <2>1, <3>2
  <2>5. ASSUME NEW i \in 1 .. Len(tasks), NEW f \in inputs[tasks[i]] \cap Tasks
        PROVE  IsSettled(f)' \/ \E j \in 1 .. i - 1 : tasks'[j] = f
    BY <1>0, <2>1 DEF InputsInv
  <2>6. QED
    BY <2>1, <2>2, <2>3, <2>4, <2>5 DEF InputsInv
<1>2. ASSUME NEW th \in Threads, Pop(th) PROVE InputsInv'
  <2>1. tasks # << >> /\ IsSettled(Front)
    BY <1>2, ConstantsAssumption DEF Pop, LockInv, Busy, TypeOK
  <2>2. inputs' = inputs
    BY <1>2 DEF Pop
  <2>3. /\ Len(tasks') = Len(tasks) - 1 /\ Len(tasks) \in Nat /\ Front = tasks[1]
        /\ \A i \in 1 .. Len(tasks') : i + 1 \in 1 .. Len(tasks) /\ tasks'[i] = tasks[i + 1]
    BY <1>2, <2>1, PopFacts, FrontFacts DEF Pop, TypeOK
  <2>4. ASSUME NEW i \in 1 .. Len(tasks'), NEW f \in inputs[tasks[i + 1]] \cap Tasks,
               ~IsSettled(f)
        PROVE  \E j \in 1 .. i - 1 : tasks'[j] = f
    <3>1. PICK j \in 1 .. i : tasks[j] = f
      BY <2>3, <2>4 DEF InputsInv
    <3>2. j # 1
      BY <2>1, <2>3, <2>4, <3>1
    <3>3. j - 1 \in 1 .. i - 1 /\ tasks'[j - 1] = f
      BY <2>3, <3>1, <3>2
    <3>4. QED
      BY <3>3
  <2>5. QED
    BY <1>0, <2>2, <2>3, <2>4 DEF InputsInv
<1>3. CASE DestroyDispatcher
  BY <1>3 DEF DestroyDispatcher, InputsInv
<1>4. CASE Undisturbed
  <2>1. \A i \in 1 .. Len(tasks) : \A f \in inputs[tasks[i]] \cap Tasks :
          IsSettled(f)' \/ \E j \in 1 .. i - 1 : tasks[j] = f
    BY <1>0 DEF InputsInv
  <2>2. QED
    BY <1>4, <2>1 DEF Undisturbed, InputsInv
<1>5. QED
  BY <1>1, <1>2, <1>3, <1>4, QueueSteps

LEMMA AliveNext == TypeOK /\ LockInv /\ AliveInv /\ [Next]_vars => AliveInv'
<1> SUFFICES ASSUME TypeOK, LockInv, AliveInv, [Next]_vars PROVE AliveInv'
  OBVIOUS
<1> USE DEF dispatcherVars, taskVars, connVars, threadVars, Busy
<1>1. ASSUME NEW th \in Threads, ProcessStep(th) PROVE AliveInv'
  BY <1>1 DEF UnlockQueue, StayInFront, QueueFree, UnlockConn, ProcessStep, Lock, FindEmpty, RetryReady, RetryNotReady, Enter, Interrupted,
              BeginWork, FinishWork, SetPromise, Pop, AliveInv
<1>2. ASSUME NEW th \in Threads, ClientStep(th) PROVE AliveInv'
  BY <1>2 DEF NoCallbackIn, ClientStep, Dispatch, DispatchUnconnected, Enqueue, Destroy, Process, Drop, Goto,
              TypeOK, AliveInv
<1>3. CASE Environment
  BY <1>3 DEF Environment, Interrupt, SettleExternal, AliveInv
<1>4. CASE DestroyDispatcher
  BY <1>4 DEF DestroyDispatcher, AliveInv
<1>5. CASE UNCHANGED vars
  BY <1>5 DEF vars, AliveInv
<1>6. QED
  BY <1>1, <1>2, <1>3, <1>4, <1>5 DEF Next

(* ~connection cannot pass a callback of its connection, and no callback   *)
(* of an interrupted connection starts.                                    *)
LEMMA NoCallbackNext ==
  /\ TypeOK /\ LockInv /\ ConnLockInv /\ ClosingInv /\ QueueInv
  /\ NoCallbackAfterScope /\ [Next]_vars
  => NoCallbackAfterScope'
<1> SUFFICES ASSUME TypeOK, LockInv, ConnLockInv, ClosingInv, QueueInv,
                    NoCallbackAfterScope, [Next]_vars,
                    NEW w \in Threads, pc'[w] = "work"
             PROVE  ~(flag'[FrontConn'] /\ handle'[FrontConn'] = "closed")
  BY DEF NoCallbackAfterScope
<1> USE ConstantsAssumption
    DEF dispatcherVars, taskVars, connVars, threadVars, Busy, Guarded, Front, FrontConn
<1>0. ASSUME pc[w] = "work"
      PROVE  /\ tasks # << >> /\ mutex = w /\ Front \in Tasks /\ FrontConn \in Conns
             /\ connMutex[FrontConn] = w
             /\ ~(flag[FrontConn] /\ handle[FrontConn] = "closed")
  BY <1>0, GuardedIsPending DEF ConnLockInv, NoCallbackAfterScope, Dispatched, TypeOK
<1>1. ASSUME NEW th \in Threads, ProcessStep(th)
      PROVE  ~(flag'[FrontConn'] /\ handle'[FrontConn'] = "closed")
  <2>1. CASE Lock(th) \/ FindEmpty(th) \/ RetryReady(th) \/ RetryNotReady(th) \/ Enter(th)
    BY <1>0, <2>1 DEF UnlockQueue, StayInFront, QueueFree, Lock, FindEmpty, RetryReady, RetryNotReady, Enter, Return, Goto, TypeOK
  <2>2. ASSUME NEW result \in Results, pc[th] \in Guarded, SetPromise(th, result)
        PROVE  FALSE
    BY <1>0, <2>2, GuardedIsPending DEF UnlockConn, SetPromise, Goto, TypeOK
  <2>3. CASE BeginWork(th)
    BY <1>0, <2>3, GuardedIsPending DEF BeginWork, Goto, TypeOK
  <2>4. CASE Pop(th)
    BY <1>0, <2>4 DEF Pop, Return, Goto, TypeOK, LockInv
  <2>5. QED
    BY <1>1, <2>1, <2>2, <2>3, <2>4 DEF ProcessStep, Interrupted, FinishWork, Results
<1>2. ASSUME NEW th \in Threads, ClientStep(th)
      PROVE  ~(flag'[FrontConn'] /\ handle'[FrontConn'] = "closed")
  <2>1. ASSUME NEW t \in Tasks, NEW c \in Conns, NEW g \in BOOLEAN,
               NEW D \in SUBSET Futures, Enqueue(t, c, g, D), pc[w] = "work"
        PROVE  FALSE
    BY <1>0, <2>1 DEF Enqueue
  <2>2. ASSUME NEW c \in Conns, NEW interrupts \in BOOLEAN, Destroy(th, c, interrupts)
        PROVE  ~(flag'[FrontConn'] /\ handle'[FrontConn'] = "closed")
    <3>1. pc[w] = "work" /\ FrontConn' = FrontConn
      BY <2>2 DEF Destroy, Goto, TypeOK
    <3>2. \A d \in Conns : d # c => handle'[d] = handle[d] /\ flag'[d] = flag[d]
      BY <2>2 DEF Destroy, TypeOK
    <3>3. handle'[c] = "closing"
      BY <2>2 DEF Destroy, TypeOK
    <3>4. QED
      BY <1>0, <3>1, <3>2, <3>3
  <2>3. ASSUME NEW all \in BOOLEAN, Process(th, all)
        PROVE  ~(flag'[FrontConn'] /\ handle'[FrontConn'] = "closed")
    BY <1>0, <2>3 DEF Process, Goto, TypeOK
  <2>4. CASE Drop(th)
    <3>1. pc[w] = "work" /\ FrontConn' = FrontConn /\ flag' = flag
      BY <2>4 DEF NoCallbackIn, Drop, Goto, TypeOK
    <3>2. closing[th] \in Conns /\ closing[th] # FrontConn
      BY <1>0, <2>4, <3>1 DEF NoCallbackIn, Drop, ClosingInv
    <3>3. handle'[FrontConn] = handle[FrontConn]
      BY <2>4, <3>2 DEF NoCallbackIn, Drop, TypeOK
    <3>4. QED
      BY <1>0, <3>1, <3>3
  <2>5. QED
    BY <1>2, <2>1, <2>2, <2>3, <2>4
    DEF ClientStep, Dispatch, DispatchUnconnected, Goto, TypeOK
<1>3. CASE Environment
  <2>1. ASSUME NEW c \in Conns, Interrupt(c)
        PROVE  ~(flag'[FrontConn'] /\ handle'[FrontConn'] = "closed")
    BY <1>0, <2>1 DEF Interrupt, TypeOK
  <2>2. QED
    BY <1>0, <1>3, <2>1 DEF Environment, SettleExternal
<1>4. CASE DestroyDispatcher
  BY <1>0, <1>4 DEF DestroyDispatcher
<1>5. CASE UNCHANGED vars
  BY <1>0, <1>5 DEF vars
<1>6. QED
  BY <1>1, <1>2, <1>3, <1>4, <1>5 DEF Next

-----------------------------------------------------------------------------
(* The inductive invariant                                                 *)

LEMMA IInvInit == Init => IInv
<1> SUFFICES ASSUME Init PROVE IInv
  OBVIOUS
<1>1. TypeOK
  BY TypeInit
<1>2. Len(tasks) = 0 /\ (\A t \in Tasks : ~Dispatched(t) /\ ~IsSettled(t))
  BY DEF Init, Dispatched, IsSettled, Futures
<1>3. QED
  BY <1>1, <1>2, ConstantsAssumption
  DEF Init, IInv, LockInv, ConnLockInv, ClosingInv, QueueInv, InputsInv, AliveInv, NoTaskLost,
      NoCallbackAfterScope, Busy, Guarded

LEMMA IInvNext == IInv /\ [Next]_vars => IInv'
  BY TypeNext, LockNext, ConnLockNext, ClosingNext, QueueNext, InputsNext, AliveNext,
     NoTaskLostNext, NoCallbackNext
  DEF IInv

(* The invariant on which the other theorems rest holds in every state a   *)
(* dispatcher, its clients and its threads can reach.                      *)
THEOREM Invariance == Spec => []IInv
<1>1. Init => IInv
  BY IInvInit
<1>2. IInv /\ [Next]_vars => IInv'
  BY IInvNext
<1>3. QED
  BY <1>1, <1>2, PTL DEF Spec

(* Every variable keeps its type: no step works on an empty queue, a task  *)
(* never dispatched or a connection that does not exist.                   *)
THEOREM TypeCorrectness == Spec => []TypeOK
<1>1. IInv => TypeOK
  BY DEF IInv
<1>2. QED
  BY <1>1, Invariance, PTL

(* process_one runs one task at a time, however many threads call it.      *)
THEOREM MutualExclusion == Spec => []OneTaskAtATime
<1>1. IInv => OneTaskAtATime
  BY DEF IInv, LockInv, OneTaskAtATime
<1>2. QED
  BY <1>1, Invariance, PTL

(* A task whose future is pending is still queued, and only ~dispatcher    *)
(* breaks promises.                                                        *)
THEOREM NothingLost == Spec => []NoTaskLost
<1>1. IInv => NoTaskLost
  BY DEF IInv
<1>2. QED
  BY <1>1, Invariance, PTL

(* No callback runs or starts after ~scoped_connection has returned.       *)
THEOREM ScopeRespected == Spec => []NoCallbackAfterScope
<1>1. IInv => NoCallbackAfterScope
  BY DEF IInv
<1>2. QED
  BY <1>1, Invariance, PTL

(* A callback that blocks in future::get under the dispatcher's mutex      *)
(* never waits for a task of the same dispatcher.                          *)
THEOREM OwnInputsAreReady == Spec => []NeverWaitsForOwnQueue
<1>1. IInv => NeverWaitsForOwnQueue
  <2> SUFFICES ASSUME IInv, NEW th \in Threads, pc[th] = "work",
                      NEW f \in inputs[Front] \cap Tasks
               PROVE  IsSettled(f)
    BY DEF NeverWaitsForOwnQueue
  <2>1. tasks # << >>
    BY GuardedIsPending DEF IInv, Guarded
  <2>2. Front = tasks[1] /\ 1 \in 1 .. Len(tasks)
    BY <2>1, FrontFacts DEF IInv, TypeOK
  <2>3. QED
    BY <2>2 DEF IInv, InputsInv
<1>2. QED
  BY <1>1, Invariance, PTL

(* No promise is set twice, by handler::operator(), pop_front, ~dispatcher *)
(* or anyone else.                                                         *)
THEOREM FuturesSettleOnce == Spec => SettledOnce
<1>1. IInv /\ [Next]_vars => [\A f \in Futures : IsSettled(f) => outcome'[f] = outcome[f]]_outcome
  BY SettledStays DEF IInv
<1>2. QED
  BY <1>1, Invariance, PTL DEF Spec, SettledOnce
-----------------------------------------------------------------------------
(* Nobody waits in a circle.                                               *)

(* What keeps a thread from going on with the call it is in: a mutex that  *)
(* is locked, or a future that its callback gets.                          *)
Blocked(th) ==
  \/ pc[th] = "lock" /\ mutex # NoThread
  \/ pc[th] = "drop" /\ connMutex[closing[th]] # NoThread
  \/ pc[th] \in {"retry", "enter", "pop"} /\ connMutex[FrontConn] # NoThread
  \/ pc[th] = "work" /\ \E f \in inputs[Front] : ~IsSettled(f)

(* Its callback gets a future that somebody else has to settle.            *)
WaitsOutside(th) == pc[th] = "work" /\ \E f \in inputs[Front] \cap External : ~IsSettled(f)

(* The thread in the front task waits for no other thread of the           *)
(* dispatcher: it is the one that may hold the mutex of the connection.    *)
LEMMA OwnerGoesOn ==
  ASSUME IInv, mutex # NoThread
  PROVE  mutex \in Threads /\ pc[mutex] \in Busy /\ (~Blocked(mutex) \/ WaitsOutside(mutex))
<1>1. mutex \in Threads /\ pc[mutex] \in Busy /\ tasks # << >> /\ TypeOK
  BY DEF IInv, TypeOK, LockInv
<1>2. Front \in Tasks /\ Front = tasks[1] /\ 1 \in 1 .. Len(tasks)
  BY <1>1, FrontFacts DEF TypeOK
<1>3. FrontConn \in Conns
  BY <1>2 DEF IInv, TypeOK, QueueInv, Dispatched, FrontConn
<1>4. connMutex[FrontConn] # NoThread => pc[mutex] \in Guarded
  <2> SUFFICES ASSUME NEW s \in Threads, connMutex[FrontConn] = s PROVE pc[mutex] \in Guarded
    BY <1>1, <1>3 DEF TypeOK
  <2>1. pc[s] \in Guarded
    BY <1>3 DEF IInv, ConnLockInv
  <2>2. mutex = s
    BY <2>1 DEF IInv, LockInv, Guarded, Busy
  <2> QED
    BY <2>1, <2>2
<1>5. \A f \in inputs[Front] \cap Tasks : IsSettled(f)
  BY <1>2 DEF IInv, InputsInv
<1>6. inputs[Front] \subseteq Tasks \cup External
  BY <1>1, <1>2 DEF TypeOK, Futures
<1> QED
  BY <1>1, <1>4, <1>5, <1>6 DEF Blocked, WaitsOutside, Busy, Guarded

LEMMA CallGoesOn ==
  ASSUME IInv, NEW th \in Threads, pc[th] # "idle"
  PROVE  \E s \in Threads : pc[s] # "idle" /\ (~Blocked(s) \/ WaitsOutside(s))
<1>1. CASE mutex # NoThread
  BY <1>1, OwnerGoesOn DEF Busy
<1>2. CASE mutex = NoThread
  <2>1. \A s \in Threads : pc[s] \notin Busy
    BY <1>2, ConstantsAssumption DEF IInv, LockInv
  <2>2. \A c \in Conns : connMutex[c] = NoThread
    BY <2>1 DEF IInv, TypeOK, ConnLockInv, Guarded, Busy
  <2>3. pc[th] = "drop" => closing[th] \in Conns
    BY DEF IInv, ClosingInv
  <2> QED
    BY <1>2, <2>1, <2>2, <2>3 DEF Blocked, Busy
<1> QED
  BY <1>1, <1>2

(* process_one, ~connection and the destruction of tasks lock the mutexes  *)
(* of the dispatcher and of its connections, callbacks block in            *)
(* future::get with both locked: as long as any thread is in a call, one   *)
(* of them can go on, or its callback waits for a future that is settled   *)
(* elsewhere.                                                              *)
THEOREM SomeCallGoesOn ==
  Spec => []((\E th \in Threads : pc[th] # "idle") =>
               \E th \in Threads : pc[th] # "idle" /\ (~Blocked(th) \/ WaitsOutside(th)))
<1>1. IInv => ((\E th \in Threads : pc[th] # "idle") =>
                 \E th \in Threads : pc[th] # "idle" /\ (~Blocked(th) \/ WaitsOutside(th)))
  BY CallGoesOn
<1> QED
  BY <1>1, Invariance, PTL
-----------------------------------------------------------------------------
(* Refinement: Dispatcher implements TaskQueue.                            *)

(* The part of the mapping a step keeps when it is internal.               *)
MappedVars == <<waitingTasks, activeTasks, revokedConns, conn, taskOutcomes>>

-----------------------------------------------------------------------------
(* The refinement mapping                                                  *)

(* The mapping looks at one thread only, the one that holds _mutex.        *)
LEMMA Mapping ==
  ASSUME TypeOK, LockInv
  PROVE  /\ waitingTasks = IF mutex # NoThread /\ pc[mutex] = "pop" THEN Tail(tasks) ELSE tasks
         /\ activeTasks = IF mutex # NoThread /\ pc[mutex] = "work" THEN {Front} ELSE {}
  BY ConstantsAssumption DEF waitingTasks, activeTasks, LockInv, Busy, TypeOK

LEMMA MappingNext ==
  ASSUME TypeOK', LockInv'
  PROVE  /\ waitingTasks' = IF mutex' # NoThread /\ pc'[mutex'] = "pop"
                            THEN Tail(tasks') ELSE tasks'
         /\ activeTasks' = IF mutex' # NoThread /\ pc'[mutex'] = "work" THEN {Front'} ELSE {}
  BY ConstantsAssumption DEF waitingTasks, activeTasks, LockInv, Busy, TypeOK

LEMMA MappingKept ==
  ASSUME TypeOK, LockInv, TypeOK', LockInv', tasks' = tasks, mutex' = mutex,
         mutex # NoThread => pc'[mutex] = pc[mutex]
  PROVE  waitingTasks' = waitingTasks /\ activeTasks' = activeTasks
<1>1. CASE mutex = NoThread
  BY <1>1, Mapping, MappingNext
<1>2. CASE mutex # NoThread
  <2>1. pc'[mutex'] = pc[mutex] /\ mutex' # NoThread /\ Front' = Front
    BY <1>2 DEF Front
  <2>2. CASE pc[mutex] = "pop"
    BY <1>2, <2>1, <2>2, Mapping, MappingNext
  <2>3. CASE pc[mutex] = "work"
    BY <1>2, <2>1, <2>3, Mapping, MappingNext
  <2>4. CASE pc[mutex] \notin {"pop", "work"}
    BY <1>2, <2>1, <2>4, Mapping, MappingNext
  <2>5. QED
    BY <2>2, <2>3, <2>4
<1>3. QED
  BY <1>1, <1>2

LEMMA InitRefines == Init => TQ!Init
<1> SUFFICES ASSUME Init PROVE TQ!Init
  OBVIOUS
<1>1. waitingTasks = << >> /\ activeTasks = {}
  BY DEF Init, waitingTasks, activeTasks
<1>2. revokedConns = {}
  BY DEF Init, revokedConns
<1>3. taskOutcomes = [t \in Tasks |-> "pending"]
  BY DEF Init, taskOutcomes, Futures
<1>4. QED
  BY <1>1, <1>2, <1>3 DEF TQ!Init, Init

-----------------------------------------------------------------------------
(* Steps                                                                   *)

LEMMA EnqueueRefines ==
  ASSUME IInv, IInv', NEW th \in Threads, NEW t \in Tasks, NEW c \in Conns, NEW g \in BOOLEAN,
         NEW D \in SUBSET Futures,
         Dispatch(th, t, c, g, D) \/ DispatchUnconnected(th, t, c, g, D)
  PROVE  TQ!Submit(t, c)
<1> USE DEF dispatcherVars, taskVars, connVars, threadVars
<1>1. mutex = NoThread /\ mutex' = NoThread /\ tasks' = Append(tasks, t)
  BY DEF Dispatch, DispatchUnconnected, Enqueue, Push
<1>2. waitingTasks' = Append(waitingTasks, t) /\ activeTasks' = activeTasks
  BY <1>1, Mapping, MappingNext DEF IInv
<1>3. revokedConns' = revokedConns
  BY DEF Dispatch, DispatchUnconnected, Enqueue, revokedConns, IInv, TypeOK
<1>4. taskOutcomes' = taskOutcomes
  BY DEF Dispatch, DispatchUnconnected, Enqueue, taskOutcomes
<1>5. conn[t] = NoConn /\ conn' = [conn EXCEPT ![t] = c]
  BY DEF Dispatch, DispatchUnconnected, Enqueue, Dispatched
<1>6. QED
  BY <1>2, <1>3, <1>4, <1>5 DEF TQ!Submit

LEMMA BeginWorkRefines ==
  ASSUME IInv, IInv', NEW th \in Threads, BeginWork(th)
  PROVE  TQ!Start
<1> USE DEF dispatcherVars, taskVars, connVars, threadVars
<1>1. /\ tasks # << >> /\ mutex = th /\ Front \in Tasks
      /\ th # NoThread /\ pc[th] = "point" /\ pc'[th] = "work"
      /\ UNCHANGED <<tasks, mutex, conn, outcome, flag, handle>>
  BY GuardedIsPending, ConstantsAssumption DEF BeginWork, Goto, Guarded, IInv, TypeOK
<1>2. waitingTasks = tasks /\ waitingTasks' = tasks
  BY <1>1, Mapping, MappingNext DEF IInv
<1>3. activeTasks = {} /\ activeTasks' = {Head(tasks)}
  BY <1>1, Mapping, MappingNext DEF IInv, Front
<1>4. conn[Head(tasks)] \notin revokedConns
  BY DEF BeginWork, FrontConn, Front, revokedConns
<1>5. revokedConns' = revokedConns /\ taskOutcomes' = taskOutcomes
  BY <1>1 DEF revokedConns, taskOutcomes
<1>6. QED
  BY <1>1, <1>2, <1>3, <1>4, <1>5 DEF TQ!Start

(* set_value and set_exception, for a callback that ran and for one that   *)
(* the interruption point kept from running.                               *)
LEMMA SetPromiseRefines ==
  ASSUME IInv, IInv', NEW th \in Threads, NEW result \in Results, SetPromise(th, result),
         pc[th] = "work" \/ (pc[th] = "point" /\ result = "interrupted")
  PROVE  TQ!Finish(result) \/ TQ!Cancel
<1> USE DEF dispatcherVars, taskVars, connVars, threadVars
<1>1. /\ tasks # << >> /\ mutex = th /\ Front \in Tasks
      /\ th # NoThread /\ pc'[th] = "pop"
      /\ UNCHANGED <<tasks, mutex, conn, flag, handle>>
  BY GuardedIsPending, ConstantsAssumption DEF UnlockConn, SetPromise, Goto, Guarded, IInv, TypeOK
<1>2. waitingTasks = tasks /\ waitingTasks' = Tail(tasks) /\ activeTasks' = {}
  BY <1>1, Mapping, MappingNext DEF IInv
<1>3. revokedConns' = revokedConns
  BY <1>1 DEF revokedConns
<1>4. taskOutcomes' = [taskOutcomes EXCEPT ![Head(tasks)] = result]
  BY <1>1 DEF UnlockConn, SetPromise, taskOutcomes, Front, Futures, IInv, TypeOK
<1>5. TQ!Settle(Head(tasks), result)
  BY <1>1, <1>2, <1>3, <1>4 DEF TQ!Settle
<1>6. CASE pc[th] = "work"
  <2>1. activeTasks = {Head(tasks)}
    BY <1>1, <1>6, Mapping DEF IInv, Front
  <2>2. QED
    BY <1>1, <1>2, <1>5, <2>1 DEF TQ!Finish
<1>7. CASE pc[th] = "point" /\ result = "interrupted"
  <2>1. activeTasks = {}
    BY <1>1, <1>7, Mapping DEF IInv
  <2>2. QED
    BY <1>1, <1>2, <1>5, <1>7, <2>1 DEF TQ!Cancel
<1>8. QED
  BY <1>6, <1>7

(* pop_front removes what the abstract queue has already given up.         *)
LEMMA PopRefines ==
  ASSUME IInv, IInv', NEW th \in Threads, Pop(th)
  PROVE  UNCHANGED MappedVars
<1> USE DEF dispatcherVars, taskVars, connVars, threadVars
<1>1. /\ mutex = th /\ pc[th] = "pop" /\ th # NoThread /\ mutex' = NoThread
      /\ tasks' = Tail(tasks) /\ UNCHANGED <<conn, flag, handle>>
  BY ConstantsAssumption DEF Pop, IInv, LockInv, Busy
<1>2. waitingTasks' = waitingTasks /\ activeTasks' = activeTasks
  BY <1>1, Mapping, MappingNext DEF IInv
<1>3. tasks # << >> /\ IsSettled(Front)
  BY <1>1 DEF IInv, LockInv
<1>4. taskOutcomes' = taskOutcomes
  BY <1>3 DEF Pop, BreakPromises, taskOutcomes, IInv, TypeOK
<1>5. QED
  BY <1>1, <1>2, <1>4 DEF MappedVars, revokedConns

LEMMA DropRefines ==
  ASSUME IInv, IInv', NEW th \in Threads, Drop(th)
  PROVE  (\E c \in Conns : TQ!Revoke(c)) \/ UNCHANGED MappedVars
<1> USE DEF dispatcherVars, taskVars, connVars, threadVars
<1> DEFINE c == closing[th]
<1>1. /\ c \in Conns /\ handle[c] = "closing" /\ connMutex[c] = NoThread
      /\ handle' = [handle EXCEPT ![c] = "closed"]
      /\ UNCHANGED <<tasks, mutex, conn, outcome, flag>>
  BY DEF NoCallbackIn, Drop, IInv, ClosingInv
<1>2. \A w \in Threads : pc'[w] \in Busy \/ pc[w] \in Busy => pc'[w] = pc[w]
  BY DEF NoCallbackIn, Drop, Goto, Busy, IInv, TypeOK
<1>3. mutex # NoThread => mutex \in Threads /\ pc'[mutex] = pc[mutex]
  BY <1>2 DEF IInv, LockInv, TypeOK
<1>4. waitingTasks' = waitingTasks /\ activeTasks' = activeTasks
  BY <1>1, <1>3, MappingKept DEF IInv
<1>5. taskOutcomes' = taskOutcomes
  BY <1>1 DEF taskOutcomes
<1>6. CASE ~flag[c]
  <2>1. revokedConns' = revokedConns
    BY <1>1, <1>6 DEF revokedConns, IInv, TypeOK
  <2>2. QED
    BY <1>1, <1>4, <1>5, <2>1 DEF MappedVars
<1>7. CASE flag[c]
  <2>1. revokedConns' = revokedConns \cup {c}
    BY <1>1, <1>7 DEF revokedConns, IInv, TypeOK
  <2>2. ASSUME NEW t \in activeTasks PROVE conn[t] # c
    <3>1. mutex # NoThread /\ pc[mutex] = "work" /\ t = Front
      BY <2>2, Mapping DEF IInv
    <3>2. connMutex[FrontConn] = mutex
      BY <3>1 DEF IInv, ConnLockInv, Guarded, TypeOK, LockInv, FrontConn,
                  QueueInv, Dispatched, Front
    <3>3. QED
      BY <1>1, <3>1, <3>2 DEF FrontConn
  <2>3. TQ!Revoke(c)
    BY <1>1, <1>4, <1>5, <2>1, <2>2 DEF TQ!Revoke
  <2>4. QED
    BY <1>1, <2>3
<1>8. QED
  BY <1>6, <1>7

LEMMA DestroyRefines ==
  ASSUME IInv, IInv', DestroyDispatcher
  PROVE  TQ!Discard
<1> USE DEF dispatcherVars, taskVars, connVars, threadVars
<1>1. mutex = NoThread /\ mutex' = NoThread /\ tasks' = << >>
  BY DEF DestroyDispatcher, IInv, TypeOK, LockInv, Busy
<1>2. waitingTasks = tasks /\ waitingTasks' = << >> /\ activeTasks = {} /\ activeTasks' = {}
  BY <1>1, Mapping, MappingNext DEF IInv
<1>3. revokedConns' = revokedConns /\ conn' = conn
  BY DEF DestroyDispatcher, revokedConns
<1>4. \A i \in 1 .. Len(tasks) : tasks[i] \in Tasks /\ ~IsSettled(tasks[i])
  BY <1>1 DEF IInv, QueueInv, TypeOK
<1>5. taskOutcomes' = [t \in Tasks |-> IF \E i \in 1 .. Len(tasks) : tasks[i] = t
                                       THEN "broken" ELSE taskOutcomes[t]]
  BY <1>4 DEF DestroyDispatcher, BreakPromises, taskOutcomes, Futures
<1>6. QED
  BY <1>2, <1>3, <1>5 DEF TQ!Discard

(* The other steps of process_one are internal.                            *)
LEMMA InternalProcessStep ==
  ASSUME IInv, IInv', NEW th \in Threads,
         Lock(th) \/ FindEmpty(th) \/ RetryReady(th) \/ RetryNotReady(th) \/ Enter(th)
  PROVE  UNCHANGED MappedVars
<1> USE DEF dispatcherVars, taskVars, connVars, threadVars
<1>1. UNCHANGED <<tasks, conn, outcome, flag, handle>>
  BY DEF UnlockQueue, StayInFront, QueueFree, Lock, FindEmpty, RetryReady, RetryNotReady, Enter
<1>2. /\ mutex # NoThread => mutex \in Threads /\ pc[mutex] \notin {"work", "pop"}
      /\ mutex' # NoThread => pc'[mutex'] \notin {"work", "pop"}
  <2>1. CASE Lock(th)
    BY <2>1 DEF QueueFree, Lock, Goto, IInv, TypeOK
  <2>2. CASE FindEmpty(th)
    BY <2>2 DEF FindEmpty
  <2>3. CASE RetryReady(th) \/ RetryNotReady(th) \/ Enter(th)
    <3>1. mutex = th
      BY <2>3, ConstantsAssumption DEF UnlockQueue, StayInFront, RetryReady, RetryNotReady, Enter, IInv, LockInv, Busy
    <3>2. QED
      BY <2>3, <3>1 DEF UnlockQueue, StayInFront, RetryReady, RetryNotReady, Enter, Goto, IInv, TypeOK
  <2>4. QED
    BY <2>1, <2>2, <2>3
<1>3. waitingTasks' = waitingTasks /\ activeTasks' = activeTasks
  BY <1>1, <1>2, Mapping, MappingNext DEF IInv
<1>4. QED
  BY <1>1, <1>3 DEF MappedVars, revokedConns, taskOutcomes

(* So are a call of process_one, an interruption and the settling of other *)
(* people's promises; a connection is revoked when its destructor returns, *)
(* not when it begins.                                                     *)
LEMMA InternalClientStep ==
  ASSUME IInv, IInv',
         \/ \E th \in Threads, all \in BOOLEAN : Process(th, all)
         \/ \E th \in Threads, c \in Conns, interrupts \in BOOLEAN : Destroy(th, c, interrupts)
         \/ Environment
         \/ UNCHANGED vars
  PROVE  UNCHANGED MappedVars
<1> USE DEF dispatcherVars, taskVars, connVars, threadVars
<1>1. UNCHANGED <<tasks, mutex, conn>>
  BY DEF Process, Destroy, Environment, Interrupt, SettleExternal, vars
<1>2. \A w \in Threads : pc'[w] \in Busy \/ pc[w] \in Busy => pc'[w] = pc[w]
  BY DEF Process, Destroy, Environment, Interrupt, SettleExternal, vars, Goto, Busy, IInv, TypeOK
<1>3. mutex # NoThread => mutex \in Threads /\ pc'[mutex] = pc[mutex]
  BY <1>2 DEF IInv, LockInv, TypeOK
<1>4. waitingTasks' = waitingTasks /\ activeTasks' = activeTasks
  BY <1>1, <1>3, MappingKept DEF IInv
<1>5. \A t \in Tasks : outcome'[t] = outcome[t]
  BY ConstantsAssumption
  DEF Process, Destroy, Environment, Interrupt, SettleExternal, vars, IInv, TypeOK, Futures
<1>6. \A c \in Conns : (flag'[c] /\ handle'[c] = "closed") <=> (flag[c] /\ handle[c] = "closed")
  BY DEF Process, Destroy, Environment, Interrupt, SettleExternal, vars, IInv, TypeOK
<1>7. QED
  BY <1>1, <1>4, <1>5, <1>6 DEF MappedVars, revokedConns, taskOutcomes

LEMMA NextRefines == IInv /\ IInv' /\ [Next]_vars => [TQ!Next]_MappedVars
<1> SUFFICES ASSUME IInv, IInv', [Next]_vars PROVE TQ!Next \/ UNCHANGED MappedVars
  OBVIOUS
<1>1. ASSUME NEW th \in Threads, ProcessStep(th) PROVE TQ!Next \/ UNCHANGED MappedVars
  <2>1. CASE Interrupted(th)
    BY <2>1, SetPromiseRefines DEF Interrupted, Results, TQ!Next
  <2>2. ASSUME NEW result \in Results, FinishWork(th, result) PROVE TQ!Next
    BY <2>2, SetPromiseRefines DEF FinishWork, Results, TQ!Next
  <2>3. CASE BeginWork(th)
    BY <2>3, BeginWorkRefines DEF TQ!Next
  <2>4. QED
    BY <1>1, <2>1, <2>2, <2>3, PopRefines, InternalProcessStep DEF ProcessStep
<1>2. ASSUME NEW th \in Threads, ClientStep(th) PROVE TQ!Next \/ UNCHANGED MappedVars
  BY <1>2, EnqueueRefines, DropRefines, InternalClientStep DEF ClientStep, TQ!Next
<1>3. QED
  BY <1>1, <1>2, DestroyRefines, InternalClientStep DEF Next, TQ!Next

(* A dispatcher is a task queue: callbacks start in the order of dispatch, *)
(* one at a time, none starts for a revoked connection, and every future   *)
(* is settled once.                                                        *)
THEOREM Refinement == Spec => ImplementsTaskQueue
<1>1. Init => TQ!Init
  BY InitRefines
<1>2. IInv /\ IInv' /\ [Next]_vars => [TQ!Next]_TQ!vars
  BY NextRefines DEF MappedVars, TQ!vars
<1>3. QED
  BY <1>1, <1>2, Invariance, PTL DEF Spec, TQ!Spec, ImplementsTaskQueue
=============================================================================
