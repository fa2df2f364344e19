------------------------- MODULE DispatcherNetProofs -------------------------
(***************************************************************************)
(* Who holds which mutex, for any dispatchers, threads, scripts, callbacks *)
(* and connections that clients may have; and why disciplined clients,     *)
(* whose dispatchers are in an order, never wait for each other in a       *)
(* circle.                                                                 *)
(***************************************************************************)
EXTENDS DispatcherNet, SequenceTheorems, WellFoundedInduction, TLAPS

(* A script dispatches, interrupts and destroys, and none of that throws.  *)
ScriptInv == \A th \in Threads : pc[th] = "script" => todo[th] \in Seq(Call)

IInv == NetInv /\ ScriptInv

(* At first nothing is locked, and all threads are in their scripts.       *)
LEMMA InitNet == Init => IInv
<1> SUFFICES ASSUME Init PROVE IInv
  OBVIOUS
<1>1. \A th \in Threads : todo[th] \in Seq(Call) /\ Seq(Call) \subseteq Seq(Operation)
  BY NetAssumption DEF Init, Operation
<1>2. TypeOK
  BY <1>1, NetAssumption DEF Init, TypeOK
<1> QED
  BY <1>1, <1>2, NetAssumption DEF Init, IInv, NetInv, ScriptInv, Busy

(* What a thread dispatches goes behind what the queues hold already, and  *)
(* an exception is thrown in a callback only.                              *)
LEMMA OperateKeeps ==
  ASSUME IInv, NEW th \in Threads, Operate(th)
  PROVE  IInv'
<1> DEFINE next == Head(todo[th])  d == DispatcherOf[next.task]
<1>1. /\ TypeOK /\ pc[th] \in {"script", "work", "throw"}
      /\ todo[th] # << >> /\ todo[th] \in Seq(Operation) /\ Ready(next)
      /\ todo' = [todo EXCEPT ![th] = Tail(todo[th])]
      /\ UNCHANGED <<mutex, connMutex, settled, failed>>
      /\ flag' = IF next.op = "interrupt" THEN flag \cup {next.conn} ELSE flag
  BY DEF IInv, NetInv, TypeOK, Operate, futureVars
<1>2. next \in Operation /\ Tail(todo[th]) \in Seq(Operation)
  BY <1>1
<1>3. pc' = pc \/ (pc' = [pc EXCEPT ![th] = "throw"] /\ pc[th] # "script")
  <2>1. CASE pc[th] = "script"
    <3>1. next \in Call
      BY <1>1, <2>1 DEF IInv, ScriptInv
    <3> QED
      BY <3>1 DEF Operate, Throws, Call
  <2>2. CASE pc[th] # "script"
    BY <2>2 DEF Operate, Goto
  <2> QED
    BY <2>1, <2>2
<1>4. /\ tasks' \in [Dispatchers -> Seq(Tasks)]
      /\ \A e \in Dispatchers : (mutex[e] # Nobody => tasks'[e] = tasks[e])
  <2>1. CASE next.op = "dispatch"
    <3>1. next.task \in Tasks /\ d \in Dispatchers /\ mutex[d] = Nobody
      BY <1>1, <1>2, <2>1, NetAssumption DEF Ready, Operation, Call
    <3>2. tasks' = [tasks EXCEPT ![d] = Append(tasks[d], next.task)]
      BY <2>1 DEF Operate, Push
    <3> QED
      BY <1>1, <3>1, <3>2 DEF TypeOK
  <2>2. CASE next.op # "dispatch"
    BY <1>1, <2>2 DEF Operate, TypeOK
  <2> QED
    BY <2>1, <2>2
<1>5. \A t \in Threads : Busy(t)' <=> Busy(t)
  BY <1>1, <1>3 DEF Busy, TypeOK
<1>6. \A t \in Threads : Busy(t) => tasks'[Serves[t]] = tasks[Serves[t]] /\ Front(t)' = Front(t)
  <2> SUFFICES ASSUME NEW t \in Threads, Busy(t)
               PROVE  tasks'[Serves[t]] = tasks[Serves[t]] /\ Front(t)' = Front(t)
    OBVIOUS
  <2>1. mutex[Serves[t]] = t /\ Serves[t] \in Dispatchers /\ t # Nobody
    BY NetAssumption DEF IInv, NetInv
  <2>2. tasks'[Serves[t]] = tasks[Serves[t]]
    BY <1>4, <2>1
  <2> QED
    BY <2>2 DEF Front
<1>7. TypeOK'
  <2>1. flag' \in SUBSET Conns
    BY <1>1, <1>2 DEF TypeOK, Operation, Call
  <2> QED
    BY <1>1, <1>2, <1>3, <1>4, <2>1 DEF TypeOK
<1>8. ScriptInv'
  <2>1. \A t \in Threads : pc'[t] = "script" => pc[t] = "script" /\ todo[t] \in Seq(Call)
    BY <1>1, <1>3 DEF IInv, ScriptInv, TypeOK
  <2>2. todo[th] \in Seq(Call) => Tail(todo[th]) \in Seq(Call)
    BY <1>1
  <2> QED
    BY <1>1, <2>1, <2>2 DEF ScriptInv, TypeOK
<1>9. \A t \in Threads : pc'[t] \in {"work", "throw"} <=> pc[t] \in {"work", "throw"}
  BY <1>1, <1>3 DEF TypeOK
<1> QED
  BY <1>1, <1>5, <1>6, <1>7, <1>8, <1>9 DEF IInv, NetInv, Busy

(* A thread passes its queue, its mutex and its connection on as it goes   *)
(* through a task.                                                         *)
LEMMA StepKeeps ==
  ASSUME IInv, NEW th \in Threads, Step(th)
  PROVE  IInv'
<1> DEFINE d == Serves[th]  c == ConnOf[Front(th)]
<1>t. /\ TypeOK /\ d \in Dispatchers /\ th # Nobody
      /\ \A e \in Dispatchers, t \in Threads : mutex[e] = t <=> Busy(t) /\ Serves[t] = e
      /\ \A t \in Threads : Busy(t) => tasks[Serves[t]] # << >>
      /\ \A e \in Conns, t \in Threads :
           connMutex[e] = t <=> pc[t] \in {"work", "throw"} /\ ConnOf[Front(t)] = e
  BY NetAssumption DEF IInv, NetInv
<1>f. \A t \in Threads : tasks[Serves[t]] # << >> =>
         Front(t) \in Tasks /\ ConnOf[Front(t)] \in Conns /\ Body[Front(t)] \in Seq(Operation)
  BY <1>t, NetAssumption DEF Front, TypeOK
<1>1. CASE Operate(th)
  BY <1>1, OperateKeeps
<1>2. CASE PassOver(th)
  <2>1. /\ UNCHANGED <<tasks, mutex, connMutex, settled, failed, flag, pc>>
        /\ todo' = [todo EXCEPT ![th] = Tail(todo[th])] /\ pc[th] # "script"
        /\ todo[th] # << >>
    BY <1>2 DEF PassOver, Skips, futureVars
  <2>2. TypeOK'
    BY <1>t, <2>1 DEF TypeOK
  <2> QED
    BY <1>t, <2>1, <2>2 DEF IInv, NetInv, ScriptInv, Busy, Front, TypeOK
<1>3. CASE EndScript(th)
  <2>1. /\ UNCHANGED <<tasks, mutex, connMutex, settled, failed, flag, todo>>
        /\ pc[th] = "script" /\ pc' = [pc EXCEPT ![th] = "idle"]
    BY <1>3 DEF EndScript, Goto, futureVars
  <2> QED
    BY <1>t, <2>1 DEF IInv, NetInv, ScriptInv, Busy, Front, TypeOK
<1>4. CASE Lock(th)
  <2>1. /\ UNCHANGED <<tasks, connMutex, settled, failed, flag, todo>>
        /\ pc[th] = "idle" /\ pc' = [pc EXCEPT ![th] = "enter"]
        /\ mutex[d] = Nobody /\ tasks[d] # << >> /\ mutex' = [mutex EXCEPT ![d] = th]
    BY <1>4 DEF Lock, Goto, futureVars
  <2>2. TypeOK'
    BY <1>t, <2>1 DEF TypeOK
  <2>3. Busy(th)' /\ ~Busy(th) /\ \A t \in Threads \ {th} : Busy(t)' <=> Busy(t)
    BY <1>t, <2>1 DEF Busy, TypeOK
  <2>4. \A e \in Dispatchers, t \in Threads : mutex'[e] = t <=> Busy(t)' /\ Serves[t] = e
    BY <1>t, <2>1, <2>3, NetAssumption DEF TypeOK
  <2>5. \A t \in Threads : pc'[t] \in {"work", "throw"} <=> pc[t] \in {"work", "throw"}
    BY <1>t, <2>1 DEF TypeOK
  <2>6. ScriptInv'
    BY <1>t, <2>1 DEF IInv, ScriptInv, TypeOK
  <2> QED
    BY <1>t, <2>1, <2>2, <2>3, <2>4, <2>5, <2>6 DEF IInv, NetInv, Front
<1>5. CASE Enter(th)
  <2>1. /\ UNCHANGED <<tasks, mutex, settled, failed, flag>>
        /\ pc[th] = "enter" /\ connMutex[c] = Nobody /\ connMutex' = [connMutex EXCEPT ![c] = th]
        /\ \/ pc' = [pc EXCEPT ![th] = "throw"] /\ todo' = todo
           \/ pc' = [pc EXCEPT ![th] = "work"] /\ todo' = [todo EXCEPT ![th] = Body[Front(th)]]
    BY <1>5 DEF Enter, Goto, futureVars
  <2>2. tasks[d] # << >> /\ c \in Conns /\ Body[Front(th)] \in Seq(Operation)
    BY <1>t, <1>f, <2>1 DEF Busy
  <2>3. TypeOK'
    <3>1. todo' \in [Threads -> Seq(Operation)]
      BY <1>t, <2>1, <2>2 DEF TypeOK
    <3>2. connMutex' \in [Conns -> Threads \cup {Nobody}]
      BY <1>t, <2>1, <2>2 DEF TypeOK
    <3> QED
      BY <1>t, <2>1, <3>1, <3>2 DEF TypeOK
  <2>4. \A t \in Threads : Busy(t)' <=> Busy(t)
    BY <1>t, <2>1 DEF Busy, TypeOK
  <2>5. \A e \in Conns, t \in Threads :
          connMutex'[e] = t <=> pc'[t] \in {"work", "throw"} /\ ConnOf[Front(t)] = e
    BY <1>t, <2>1, <2>2, NetAssumption DEF TypeOK
  <2>6. ScriptInv'
    BY <1>t, <2>1 DEF IInv, ScriptInv, TypeOK
  <2> QED
    BY <1>t, <2>1, <2>3, <2>4, <2>5, <2>6 DEF IInv, NetInv, Front
<1>6. CASE SetPromise(th)
  <2>1. /\ UNCHANGED <<tasks, mutex, flag, todo>>
        /\ pc[th] \in {"work", "throw"} /\ connMutex' = [connMutex EXCEPT ![c] = Nobody]
        /\ pc' = [pc EXCEPT ![th] = "pop"] /\ settled' = settled \cup {Front(th)}
        /\ failed' = failed \/ failed' = failed \cup {Front(th)}
    BY <1>6 DEF SetPromise, Unlock, Goto
  <2>2. tasks[d] # << >> /\ c \in Conns /\ Front(th) \in Tasks
    BY <1>t, <1>f, <2>1 DEF Busy
  <2>3. TypeOK'
    BY <1>t, <2>1, <2>2 DEF TypeOK
  <2>4. \A t \in Threads : Busy(t)' <=> Busy(t)
    BY <1>t, <2>1 DEF Busy, TypeOK
  <2>5. \A e \in Conns, t \in Threads :
          connMutex'[e] = t <=> pc'[t] \in {"work", "throw"} /\ ConnOf[Front(t)] = e
    BY <1>t, <2>1, <2>2, NetAssumption DEF TypeOK
  <2>6. ScriptInv'
    BY <1>t, <2>1 DEF IInv, ScriptInv, TypeOK
  <2> QED
    BY <1>t, <2>1, <2>3, <2>4, <2>5, <2>6 DEF IInv, NetInv, Front
<1>7. CASE Pop(th)
  <2>1. /\ UNCHANGED <<connMutex, settled, failed, flag, todo>>
        /\ pc[th] = "pop" /\ pc' = [pc EXCEPT ![th] = "idle"]
        /\ tasks' = [tasks EXCEPT ![d] = Tail(tasks[d])]
        /\ mutex' = [mutex EXCEPT ![d] = Nobody]
    BY <1>7 DEF Pop, Goto, futureVars
  <2>2. tasks[d] # << >>
    BY <1>t, <2>1 DEF Busy
  <2>3. TypeOK'
    BY <1>t, <2>1, <2>2 DEF TypeOK
  <2>4. \A t \in Threads \ {th} : (Busy(t)' <=> Busy(t)) /\ pc'[t] = pc[t]
    BY <1>t, <2>1 DEF Busy, TypeOK
  <2>5. \A t \in Threads \ {th} : Busy(t) => Serves[t] # d
    BY <1>t, <2>1 DEF Busy
  <2>6. \A t \in Threads \ {th} : Busy(t) =>
           tasks'[Serves[t]] = tasks[Serves[t]] /\ Front(t)' = Front(t)
    BY <1>t, <2>1, <2>5, NetAssumption DEF Front, TypeOK
  <2>7. pc'[th] = "idle" /\ ~Busy(th)'
    BY <1>t, <2>1 DEF Busy, TypeOK
  <2>8. ScriptInv'
    BY <1>t, <2>1 DEF IInv, ScriptInv, TypeOK
  <2>9. \A e \in Dispatchers, t \in Threads : mutex'[e] = t <=> Busy(t)' /\ Serves[t] = e
    BY <1>t, <2>1, <2>4, <2>5, <2>7, NetAssumption DEF TypeOK
  <2>10. \A e \in Conns, t \in Threads :
           connMutex'[e] = t <=> pc'[t] \in {"work", "throw"} /\ ConnOf[Front(t)'] = e
    <3> SUFFICES ASSUME NEW e \in Conns, NEW t \in Threads
                 PROVE  connMutex'[e] = t <=> pc'[t] \in {"work", "throw"} /\ ConnOf[Front(t)'] = e
      OBVIOUS
    <3>1. CASE t = th
      BY <1>t, <2>1, <2>7, <3>1
    <3>2. CASE t # th
      BY <1>t, <2>1, <2>4, <2>6, <3>2 DEF Busy
    <3> QED
      BY <3>1, <3>2
  <2>11. \A t \in Threads : Busy(t)' => tasks'[Serves[t]] # << >>
    BY <1>t, <2>4, <2>6, <2>7
  <2> QED
    BY <2>3, <2>8, <2>9, <2>10, <2>11 DEF IInv, NetInv
<1> QED
  BY <1>1, <1>2, <1>3, <1>4, <1>5, <1>6, <1>7 DEF Step

(* Whatever clients do on several dispatchers, a thread holds the mutex of *)
(* a dispatcher exactly while it is in one of its tasks, which is in the   *)
(* queue until then, and the mutex of a connection exactly while it is in  *)
(* a callback that is tied to it: exceptions leave nothing locked.         *)
THEOREM NetInvariance == Spec => []NetInv
<1>1. IInv /\ [Next]_vars => IInv'
  <2>1. IInv /\ Next => IInv'
    BY StepKeeps DEF Next
  <2>2. IInv /\ UNCHANGED vars => IInv'
    BY DEF vars, futureVars, IInv, NetInv, ScriptInv, TypeOK, Busy, Front
  <2> QED
    BY <2>1, <2>2
<1>2. IInv => NetInv
  BY DEF IInv
<1> QED
  BY InitNet, <1>1, <1>2, PTL DEF Spec
-----------------------------------------------------------------------------
(* Disciplined clients                                                     *)

(* There is a future of task u: it has been dispatched.                    *)
Queued(u) == \E j \in 1 .. Len(tasks[DispatcherOf[u]]) : tasks[DispatcherOf[u]][j] = u
Known(u) == u \in settled \/ Queued(u)

(* What a thread is going to move into tasks exists, or will by then.      *)
Supplied(seq) ==
  \A i \in 1 .. Len(seq) : seq[i].op = "dispatch" =>
    \A u \in Gets(seq[i].task) :
      Known(u) \/ \E j \in 1 .. i - 1 : seq[j].op \in {"get", "dispatch"} /\ seq[j].task = u

(* Tasks are in the queues they were dispatched to.                        *)
PlaceInv ==
  \A d \in Dispatchers : \A k \in 1 .. Len(tasks[d]) : DispatcherOf[tasks[d][k]] = d

(* A future that a task in a queue gets is settled, or its task is in      *)
(* another queue, or in the same one and ahead.                            *)
AheadInv ==
  \A d \in Dispatchers : \A k \in 1 .. Len(tasks[d]) : \A u \in Gets(tasks[d][k]) :
    \/ u \in settled
    \/ DispatcherOf[u] = d /\ \E j \in 1 .. k - 1 : tasks[d][j] = u
    \/ DispatcherOf[u] # d /\ Queued(u)

(* What a thread has to do is a part of its script or its callback.        *)
PartOf(seq, whole) == \A i \in 1 .. Len(seq) : \E j \in 1 .. Len(whole) : seq[i] = whole[j]

TodoOf(th) ==
  /\ pc[th] \in {"script", "work"} => Supplied(todo[th])
  /\ pc[th] = "script" /\ Script[th] = << >> => todo[th] = << >>
  /\ pc[th] \in {"idle", "enter", "pop"} => todo[th] = << >>
  /\ pc[th] \in {"work", "throw"} => PartOf(todo[th], Body[Front(th)])
  /\ pc[th] = "pop" => Front(th) \in settled

TodoInv == \A th \in Threads : TodoOf(th)

OrderedInv == IInv /\ PlaceInv /\ AheadInv /\ TodoInv

Sequenced ==
  /\ \A th \in Threads : FuturesFirst(Script[th])
  /\ \A t \in Tasks : FuturesFirst(Body[t])

LEMMA OrderedInit == ASSUME Sequenced PROVE Init => OrderedInv
<1> SUFFICES ASSUME Init PROVE OrderedInv
  OBVIOUS
<1>1. IInv
  BY InitNet
<1>2. PlaceInv /\ AheadInv
  BY DEF Init, PlaceInv, AheadInv
<1>3. TodoInv
  <2> SUFFICES ASSUME NEW th \in Threads
               PROVE  Supplied(todo[th]) /\ pc[th] = "script" /\ (Script[th] = << >> => todo[th] = << >>)
    BY DEF TodoInv, TodoOf
  <2>1. pc[th] = "script" /\ todo[th] = Script[th]
    BY DEF Init
  <2> QED
    BY <2>1 DEF Sequenced, FuturesFirst, Supplied
<1> QED
  BY <1>1, <1>2, <1>3 DEF OrderedInv

(* A future that exists does not cease to.                                 *)
LEMMA KnownStays ==
  ASSUME OrderedInv, NEW th \in Threads, Step(th), NEW u \in Tasks, Known(u)
  PROVE  Known(u)'
<1> DEFINE d == DispatcherOf[u]
<1>0. TypeOK /\ d \in Dispatchers
  BY NetAssumption DEF OrderedInv, IInv, NetInv
<1>1. settled \subseteq settled'
  BY DEF Step, Operate, PassOver, EndScript, Lock, Enter, SetPromise, Pop, futureVars
<1>2. CASE u \in settled
  BY <1>1, <1>2 DEF Known
<1>3. CASE Queued(u) /\ u \notin settled
  <2>1. PICK j \in 1 .. Len(tasks[d]) : tasks[d][j] = u
    BY <1>3 DEF Queued
  <2>2. tasks[d] \in Seq(Tasks)
    BY <1>0 DEF TypeOK
  <2>3. CASE Pop(th)
    <3>1. tasks' = [tasks EXCEPT ![Serves[th]] = Tail(tasks[Serves[th]])] /\ Front(th) \in settled
      BY <2>3 DEF Pop, OrderedInv, TodoInv, TodoOf
    <3>2. CASE Serves[th] = d
      <4>1. tasks[d][1] = Front(th)
        BY <2>1, <2>2, <3>2 DEF Front
      <4>2. j # 1
        BY <1>3, <2>1, <3>1, <4>1
      <4>3. tasks'[d] = Tail(tasks[d])
        BY <1>0, <3>1, <3>2 DEF TypeOK
      <4>4. j - 1 \in 1 .. Len(tasks'[d]) /\ tasks'[d][j - 1] = u
        BY <2>1, <2>2, <4>2, <4>3
      <4> QED
        BY <4>4 DEF Known, Queued
    <3>3. CASE Serves[th] # d
      BY <1>0, <2>1, <3>1, <3>3 DEF Known, Queued, TypeOK
    <3> QED
      BY <3>2, <3>3
  <2>4. CASE Operate(th)
    <3>1. \/ tasks' = tasks
          \/ \E t \in Tasks : tasks' = [tasks EXCEPT ![DispatcherOf[t]] = Append(tasks[DispatcherOf[t]], t)]
      <4> DEFINE next == Head(todo[th])
      <4>1. next \in Operation
        BY <1>0, <2>4 DEF Operate, TypeOK
      <4>2. next.op = "dispatch" => next.task \in Tasks
        BY <4>1 DEF Operation, Call
      <4> QED
        BY <2>4, <4>2 DEF Operate, Push
    <3>2. CASE tasks' = tasks
      BY <2>1, <3>2 DEF Known, Queued
    <3>3. ASSUME NEW t \in Tasks,
                 tasks' = [tasks EXCEPT ![DispatcherOf[t]] = Append(tasks[DispatcherOf[t]], t)]
          PROVE  Known(u)'
      <4>1. tasks'[d] = tasks[d] \/ tasks'[d] = Append(tasks[d], t)
        BY <1>0, <3>3 DEF TypeOK
      <4>2. j \in 1 .. Len(tasks'[d]) /\ tasks'[d][j] = u
        BY <2>1, <2>2, <4>1
      <4> QED
        BY <4>2 DEF Known, Queued
    <3> QED
      BY <3>1, <3>2, <3>3
  <2>5. CASE tasks' = tasks
    BY <2>1, <2>5 DEF Known, Queued
  <2> QED
    BY <2>3, <2>4, <2>5 DEF Step, PassOver, EndScript, Lock, Enter, SetPromise
<1> QED
  BY <1>2, <1>3 DEF Known

(* Supplied is about the rest of a script or a callback.                   *)
LEMMA SuppliedStays ==
  ASSUME OrderedInv, NEW th \in Threads, Step(th), NEW seq \in Seq(Operation), Supplied(seq)
  PROVE  Supplied(seq)'
BY KnownStays DEF Supplied, Gets

LEMMA SuppliedNext ==
  ASSUME OrderedInv, NEW th \in Threads, Step(th),
         NEW seq \in Seq(Operation), seq # << >>, Supplied(seq),
         Head(seq).op \in {"get", "dispatch"} => Known(Head(seq).task)'
  PROVE  Supplied(Tail(seq))'
<1> SUFFICES ASSUME NEW i \in 1 .. Len(Tail(seq)), Tail(seq)[i].op = "dispatch",
                    NEW u \in Gets(Tail(seq)[i].task), ~Known(u)'
             PROVE  \E j \in 1 .. i - 1 : Tail(seq)[j].op \in {"get", "dispatch"} /\ Tail(seq)[j].task = u
  BY DEF Supplied, Gets
<1>1. Len(seq) \in Nat \ {0} /\ Len(Tail(seq)) = Len(seq) - 1 /\ Head(seq) = seq[1]
  OBVIOUS
<1>2. \A k \in 1 .. Len(Tail(seq)) : k + 1 \in 1 .. Len(seq) /\ Tail(seq)[k] = seq[k + 1]
  OBVIOUS
<1>3. u \in Tasks /\ ~Known(u)
  BY KnownStays DEF Gets
<1>4. PICK j \in 1 .. (i + 1) - 1 : seq[j].op \in {"get", "dispatch"} /\ seq[j].task = u
  BY <1>2, <1>3 DEF Supplied
<1>5. j # 1
  BY <1>1, <1>4
<1>6. j - 1 \in 1 .. i - 1 /\ j - 1 \in 1 .. Len(Tail(seq)) /\ (j - 1) + 1 = j
  BY <1>1, <1>4, <1>5
<1> QED
  BY <1>2, <1>4, <1>6

(* The queues are not touched, and no thread is in front of a new task.    *)
LEMMA QueuesStay ==
  ASSUME OrderedInv, tasks' = tasks, settled \subseteq settled'
  PROVE  PlaceInv' /\ AheadInv'
<1>1. PlaceInv'
  BY DEF OrderedInv, PlaceInv
<1>2. \A u : Queued(u) => Queued(u)'
  BY DEF Queued
<1>3. \A d \in Dispatchers : \A k \in 1 .. Len(tasks[d]) : \A u \in Gets(tasks[d][k]) :
        \/ u \in settled'
        \/ DispatcherOf[u] = d /\ \E j \in 1 .. k - 1 : tasks[d][j] = u
        \/ DispatcherOf[u] # d /\ Queued(u)'
  BY <1>2, Zenon DEF OrderedInv, AheadInv
<1>4. \A d \in Dispatchers : \A k \in 1 .. Len(tasks'[d]) : \A u \in Gets(tasks'[d][k]) :
        \/ u \in settled'
        \/ DispatcherOf[u] = d /\ \E j \in 1 .. k - 1 : tasks'[d][j] = u
        \/ DispatcherOf[u] # d /\ Queued(u)'
  BY <1>3
<1>5. AheadInv'
  BY <1>4, Zenon DEF AheadInv, Gets
<1> QED
  BY <1>1, <1>5

LEMMA QueueGrows ==
  ASSUME OrderedInv, NEW t \in Tasks, settled' = settled,
         tasks' = [tasks EXCEPT ![DispatcherOf[t]] = Append(tasks[DispatcherOf[t]], t)],
         \A u \in Gets(t) : Known(u)
  PROVE  PlaceInv' /\ AheadInv'
<1> DEFINE e == DispatcherOf[t]
<1>0. TypeOK /\ e \in Dispatchers /\ \A d \in Dispatchers : tasks[d] \in Seq(Tasks)
  BY NetAssumption DEF OrderedInv, IInv, NetInv, TypeOK
<1>1. \A d \in Dispatchers : tasks'[d] = IF d = e THEN Append(tasks[d], t) ELSE tasks[d]
  BY <1>0 DEF TypeOK
<1>2. \A d \in Dispatchers : \A k \in 1 .. Len(tasks'[d]) :
         \/ k \in 1 .. Len(tasks[d]) /\ tasks'[d][k] = tasks[d][k]
         \/ d = e /\ k = Len(tasks[d]) + 1 /\ tasks'[d][k] = t
  BY <1>0, <1>1
<1>3. \A d \in Dispatchers : \A k \in 1 .. Len(tasks[d]) :
         k \in 1 .. Len(tasks'[d]) /\ tasks'[d][k] = tasks[d][k]
  BY <1>0, <1>1
<1>4. PlaceInv'
  BY <1>2 DEF OrderedInv, PlaceInv
<1>5. \A u \in Tasks : Queued(u) => Queued(u)'
  BY <1>3, NetAssumption DEF Queued
<1>6. AheadInv'
  <2> SUFFICES ASSUME NEW d \in Dispatchers, NEW k \in 1 .. Len(tasks'[d]),
                      NEW u \in Gets(tasks'[d][k]), u \notin settled
               PROVE  \/ DispatcherOf[u] = d /\ \E j \in 1 .. k - 1 : tasks'[d][j] = u
                      \/ DispatcherOf[u] # d /\ Queued(u)'
    BY DEF AheadInv, Gets
  <2>0. u \in Tasks
    BY DEF Gets
  <2>1. CASE k \in 1 .. Len(tasks[d]) /\ tasks'[d][k] = tasks[d][k]
    <3>1. \A j \in 1 .. k - 1 : j \in 1 .. Len(tasks[d]) /\ tasks'[d][j] = tasks[d][j]
      BY <1>0, <1>3, <2>1
    <3> QED
      BY <1>5, <2>0, <2>1, <3>1 DEF OrderedInv, AheadInv
  <2>2. CASE d = e /\ k = Len(tasks[d]) + 1 /\ tasks'[d][k] = t
    <3>1. Queued(u)
      BY <2>2 DEF Known
    <3>2. CASE DispatcherOf[u] # d
      BY <1>5, <2>0, <3>1, <3>2
    <3>3. CASE DispatcherOf[u] = d
      <4>1. PICK j \in 1 .. Len(tasks[d]) : tasks[d][j] = u
        BY <3>1, <3>3 DEF Queued
      <4>2. j \in 1 .. k - 1 /\ tasks'[d][j] = u
        BY <1>0, <1>3, <2>2, <4>1
      <4> QED
        BY <3>3, <4>2
    <3> QED
      BY <3>2, <3>3
  <2> QED
    BY <1>2, <2>1, <2>2
<1> QED
  BY <1>4, <1>6

LEMMA QueueShrinks ==
  ASSUME OrderedInv, NEW e \in Dispatchers, tasks[e] # << >>, Head(tasks[e]) \in settled,
         settled' = settled, tasks' = [tasks EXCEPT ![e] = Tail(tasks[e])]
  PROVE  PlaceInv' /\ AheadInv'
<1>0. TypeOK /\ \A d \in Dispatchers : tasks[d] \in Seq(Tasks)
  BY NetAssumption DEF OrderedInv, IInv, NetInv, TypeOK
<1>1. tasks'[e] = Tail(tasks[e]) /\ \A d \in Dispatchers \ {e} : tasks'[d] = tasks[d]
  BY <1>0 DEF TypeOK
<1>2. /\ tasks[e][1] \in settled
      /\ \A k \in 1 .. Len(tasks'[e]) : k + 1 \in 1 .. Len(tasks[e]) /\ tasks'[e][k] = tasks[e][k + 1]
      /\ \A k \in 2 .. Len(tasks[e]) : k - 1 \in 1 .. Len(tasks'[e]) /\ tasks'[e][k - 1] = tasks[e][k]
  <2> DEFINE queue == tasks[e]
  <2>1. queue \in Seq(Tasks) /\ queue # << >> /\ tasks'[e] = Tail(queue) /\ Head(queue) \in settled
    BY <1>0, <1>1
  <2> HIDE DEF queue
  <2>2. /\ queue[1] \in settled
        /\ Len(queue) \in Nat /\ Len(Tail(queue)) = Len(queue) - 1
    BY <2>1
  <2>3. \A k \in 1 .. Len(Tail(queue)) : k + 1 \in 1 .. Len(queue) /\ Tail(queue)[k] = queue[k + 1]
    BY <2>1
  <2>4. \A k \in 2 .. Len(queue) : k - 1 \in 1 .. Len(Tail(queue)) /\ (k - 1) + 1 = k
    BY <2>2
  <2>5. \A k \in 2 .. Len(queue) : Tail(queue)[k - 1] = queue[k]
    BY <2>3, <2>4
  <2> QED
    BY <2>1, <2>2, <2>3, <2>4, <2>5 DEF queue
<1>3. PlaceInv'
  <2>1. \A k \in 1 .. Len(tasks'[e]) : DispatcherOf[tasks'[e][k]] = e
    BY <1>2 DEF OrderedInv, PlaceInv
  <2> QED
    BY <1>1, <2>1 DEF OrderedInv, PlaceInv
<1>4. \A u \in Tasks : Queued(u) /\ u \notin settled => Queued(u)'
  <2> SUFFICES ASSUME NEW u \in Tasks, Queued(u), u \notin settled PROVE Queued(u)'
    OBVIOUS
  <2>1. CASE DispatcherOf[u] = e
    <3>1. PICK j \in 1 .. Len(tasks[e]) : tasks[e][j] = u
      BY <2>1 DEF Queued
    <3>2. j \in 2 .. Len(tasks[e])
      BY <1>0, <1>2, <3>1
    <3>3. j - 1 \in 1 .. Len(tasks'[e]) /\ tasks'[e][j - 1] = u
      BY <1>2, <3>1, <3>2
    <3> QED
      BY <2>1, <3>3 DEF Queued
  <2>2. CASE DispatcherOf[u] # e
    BY <1>1, <2>2, NetAssumption DEF Queued
  <2> QED
    BY <2>1, <2>2
<1>5. AheadInv'
  <2> SUFFICES ASSUME NEW d \in Dispatchers, NEW k \in 1 .. Len(tasks'[d]),
                      NEW u \in Gets(tasks'[d][k]), u \notin settled
               PROVE  \/ DispatcherOf[u] = d /\ \E j \in 1 .. k - 1 : tasks'[d][j] = u
                      \/ DispatcherOf[u] # d /\ Queued(u)'
    BY DEF AheadInv, Gets
  <2>0. u \in Tasks
    BY DEF Gets
  <2>1. CASE d # e
    BY <1>1, <1>4, <2>0, <2>1 DEF OrderedInv, AheadInv
  <2>2. CASE d = e
    <3>1. u \in Gets(tasks[e][k + 1]) /\ k + 1 \in 1 .. Len(tasks[e])
      BY <1>2, <2>2
    <3>2. \/ DispatcherOf[u] = e /\ \E j \in 1 .. (k + 1) - 1 : tasks[e][j] = u
          \/ DispatcherOf[u] # e /\ Queued(u)
      BY <3>1 DEF OrderedInv, AheadInv
    <3>3. CASE DispatcherOf[u] # e
      BY <1>4, <2>0, <2>2, <3>2, <3>3
    <3>4. CASE DispatcherOf[u] = e
      <4>1. PICK j \in 1 .. (k + 1) - 1 : tasks[e][j] = u
        BY <3>2, <3>4
      <4>2. j \in 2 .. Len(tasks[e]) /\ j - 1 \in 1 .. k - 1
        BY <1>0, <1>2, <3>1, <4>1
      <4> QED
        BY <1>2, <2>2, <3>4, <4>1, <4>2
    <3> QED
      BY <3>3, <3>4
  <2> QED
    BY <2>1, <2>2
<1> QED
  BY <1>3, <1>5

(* The queue of a thread that is in a task changes at its end only.        *)
LEMMA FrontStays ==
  ASSUME IInv, NEW th \in Threads, Step(th), NEW t \in Threads, Busy(t), t # th \/ ~Pop(th)
  PROVE  tasks'[Serves[t]] = tasks[Serves[t]] /\ Front(t)' = Front(t)
<1>0. /\ TypeOK /\ Serves[t] \in Dispatchers /\ Serves[th] \in Dispatchers
      /\ mutex[Serves[t]] = t /\ t # Nobody
  BY NetAssumption DEF IInv, NetInv
<1>1. tasks'[Serves[t]] = tasks[Serves[t]]
  <2>1. CASE Operate(th)
    <3> DEFINE next == Head(todo[th])
    <3>1. next \in Operation /\ Ready(next)
      BY <1>0, <2>1 DEF Operate, TypeOK
    <3>2. CASE next.op = "dispatch"
      <4>1. next.task \in Tasks /\ mutex[DispatcherOf[next.task]] = Nobody
        BY <3>1, <3>2 DEF Ready, Operation, Call
      <4>2. tasks' = [tasks EXCEPT ![DispatcherOf[next.task]] = Append(tasks[DispatcherOf[next.task]], next.task)]
        BY <2>1, <3>2 DEF Operate, Push
      <4> QED
        BY <1>0, <4>1, <4>2 DEF TypeOK
    <3>3. CASE next.op # "dispatch"
      BY <2>1, <3>3 DEF Operate
    <3> QED
      BY <3>2, <3>3
  <2>2. CASE Pop(th)
    <3>1. Serves[t] # Serves[th]
      BY <1>0, <2>2 DEF Pop, IInv, NetInv, Busy
    <3> QED
      BY <1>0, <2>2, <3>1 DEF Pop, TypeOK
  <2> QED
    BY <2>1, <2>2 DEF Step, PassOver, EndScript, Lock, Enter, SetPromise
<1> QED
  BY <1>1 DEF Front

(* Other threads neither take from what a thread has to do nor change it.  *)
LEMMA OthersTodo ==
  ASSUME OrderedInv, NEW th \in Threads, Step(th), NEW t \in Threads \ {th}
  PROVE  TodoOf(t)'
<1>1. TypeOK /\ IInv /\ TodoOf(t) /\ todo[t] \in Seq(Operation)
  BY DEF OrderedInv, IInv, NetInv, TypeOK, TodoInv
<1>2. pc'[t] = pc[t] /\ todo'[t] = todo[t]
  BY <1>1 DEF TypeOK, Step, Operate, PassOver, EndScript, Lock, Enter, SetPromise, Pop, Goto
<1>3. settled \subseteq settled'
  BY DEF Step, Operate, PassOver, EndScript, Lock, Enter, SetPromise, Pop, futureVars
<1>4. Busy(t) => Front(t)' = Front(t)
  BY <1>1, FrontStays
<1>5. Supplied(todo[t]) => Supplied(todo[t])'
  BY <1>1, <1>2, SuppliedStays
<1> QED
  BY <1>1, <1>2, <1>3, <1>4, <1>5 DEF TodoOf, Busy

LEMMA PartOfTail ==
  ASSUME NEW whole, NEW seq \in Seq(Operation), seq # << >>, PartOf(seq, whole)
  PROVE  PartOf(Tail(seq), whole)
<1>1. \A k \in 1 .. Len(Tail(seq)) : k + 1 \in 1 .. Len(seq) /\ Tail(seq)[k] = seq[k + 1]
  OBVIOUS
<1> QED
  BY <1>1 DEF PartOf

(* What a thread does keeps its own rest in order: before it gets past the *)
(* wait for a future, or past a dispatch, the future exists.               *)
LEMMA OwnTodo ==
  ASSUME Sequenced, OrderedInv, NEW th \in Threads, Step(th)
  PROVE  TodoOf(th)'
<1>0. /\ TypeOK /\ IInv /\ TodoOf(th) /\ todo[th] \in Seq(Operation)
      /\ pc \in [Threads -> {"script", "idle", "enter", "work", "throw", "pop"}]
      /\ todo \in [Threads -> Seq(Operation)]
  BY DEF OrderedInv, IInv, NetInv, TypeOK, TodoInv
<1>1. CASE Operate(th)
  <2>1. PICK seq \in Seq(Operation) : seq = todo[th]
    BY <1>0
  <2>2. PICK next \in Operation : seq # << >> /\ next = Head(seq)
    BY <1>1, <2>1 DEF Operate
  <2>3. /\ pc[th] \in {"script", "work", "throw"} /\ Ready(next)
        /\ todo'[th] = Tail(seq) /\ settled' = settled
        /\ pc'[th] = IF Throws(next) THEN "throw" ELSE pc[th]
    BY <1>0, <1>1, <2>1, <2>2 DEF Operate, Goto, futureVars
  <2>4. pc[th] = "script" => pc'[th] = "script"
    <3>1. pc[th] = "script" => next \in Call
      BY <1>0, <2>1, <2>2 DEF IInv, ScriptInv
    <3> QED
      BY <2>3, <3>1 DEF Throws, Call
  <2>5. next.op \in {"get", "dispatch"} => Known(next.task)'
    <3>1. CASE next.op = "get"
      BY <2>3, <3>1 DEF Ready, Known
    <3>2. CASE next.op = "dispatch"
      <4>1. PICK u \in Tasks : u = next.task
        BY <2>2, <3>2 DEF Operation, Call
      <4>2. PICK d \in Dispatchers : d = DispatcherOf[u]
        BY NetAssumption
      <4>3. tasks' = [tasks EXCEPT ![d] = Append(tasks[d], u)]
        BY <1>1, <2>1, <2>2, <3>2, <4>1, <4>2 DEF Operate, Push
      <4>4. tasks'[d] = Append(tasks[d], u) /\ tasks[d] \in Seq(Tasks)
        BY <1>0, <4>3 DEF TypeOK
      <4>5. Len(tasks[d]) + 1 \in 1 .. Len(tasks'[d]) /\ tasks'[d][Len(tasks[d]) + 1] = u
        BY <4>4
      <4>6. Queued(u)'
        BY <4>2, <4>5 DEF Queued
      <4> QED
        BY <4>1, <4>6 DEF Known
    <3> QED
      BY <3>1, <3>2
  <2>6. Supplied(seq) => Supplied(Tail(seq))'
    BY <2>2, <2>5, SuppliedNext
  <2>7. pc'[th] \in {"script", "work"} => Supplied(todo[th])'
    <3>1. Supplied(todo[th]) <=> Supplied(seq)
      BY <2>1
    <3>2. Supplied(Tail(seq))' => Supplied(todo[th])'
      BY <2>3
    <3> QED
      BY <1>0, <2>3, <2>4, <2>6, <3>1, <3>2 DEF TodoOf
  <2>8. pc'[th] \in {"work", "throw"} => PartOf(todo'[th], Body[Front(th)])
    BY <1>0, <2>1, <2>2, <2>3, <2>4, PartOfTail DEF TodoOf
  <2>9. pc[th] # "script" => Front(th)' = Front(th)
    <3>1. ~Pop(th) /\ (pc[th] # "script" => Busy(th))
      BY <2>3 DEF Pop, Busy
    <3> QED
      BY <1>0, <3>1, FrontStays
  <2>10. pc'[th] = "script" /\ Script[th] = << >> => FALSE
    BY <1>0, <2>1, <2>2, <2>3 DEF TodoOf
  <2> QED
    BY <2>3, <2>4, <2>7, <2>8, <2>9, <2>10 DEF TodoOf
<1>2. CASE PassOver(th)
  <2>1. /\ pc'[th] = "throw" /\ pc[th] = "throw" /\ todo[th] # << >> /\ todo'[th] = Tail(todo[th])
        /\ tasks' = tasks
    BY <1>0, <1>2 DEF PassOver, Skips
  <2>2. PartOf(Tail(todo[th]), Body[Front(th)])
    BY <1>0, <2>1, PartOfTail DEF TodoOf
  <2> QED
    BY <2>1, <2>2 DEF TodoOf, Front
<1>3. CASE EndScript(th)
  <2>1. pc'[th] = "idle" /\ todo'[th] = << >>
    BY <1>0, <1>3 DEF EndScript, Goto
  <2> QED
    BY <2>1 DEF TodoOf
<1>4. CASE Lock(th)
  <2>1. pc'[th] = "enter" /\ todo'[th] = << >>
    BY <1>0, <1>4 DEF Lock, Goto, TodoOf
  <2> QED
    BY <2>1 DEF TodoOf
<1>5. CASE Enter(th)
  <2>1. /\ tasks' = tasks /\ settled' = settled /\ pc[th] = "enter" /\ todo[th] = << >>
        /\ \/ pc'[th] = "throw" /\ todo'[th] = << >>
           \/ pc'[th] = "work" /\ todo'[th] = Body[Front(th)]
    BY <1>0, <1>5 DEF Enter, Goto, TodoOf, futureVars
  <2>2. Serves[th] \in Dispatchers /\ tasks[Serves[th]] \in Seq(Tasks) /\ tasks[Serves[th]] # << >>
    BY <1>0, <2>1, NetAssumption DEF IInv, NetInv, Busy, TypeOK
  <2>3. Front(th) \in Tasks /\ 1 \in 1 .. Len(tasks[Serves[th]]) /\ Front(th) = tasks[Serves[th]][1]
    BY <2>2 DEF Front
  <2>4. Front(th)' = Front(th)
    BY <2>1 DEF Front
  <2>5. CASE pc'[th] = "throw" /\ todo'[th] = << >>
    <3>1. PartOf(todo'[th], Body[Front(th)])
      BY <2>5 DEF PartOf
    <3> QED
      BY <2>4, <2>5, <3>1 DEF TodoOf
  <2>6. CASE pc'[th] = "work" /\ todo'[th] = Body[Front(th)]
    <3>0. PICK body : body = Body[Front(th)] /\ FuturesFirst(body)
      BY <2>3 DEF Sequenced
    <3>1. Supplied(todo[th])'
      BY <2>6, <3>0 DEF FuturesFirst, Supplied, Gets
    <3>2. PartOf(todo'[th], Body[Front(th)])
      BY <2>6 DEF PartOf
    <3> QED
      BY <2>4, <2>6, <3>1, <3>2 DEF TodoOf
  <2> QED
    BY <2>1, <2>5, <2>6
<1>6. CASE SetPromise(th)
  <2>1. pc'[th] = "pop" /\ todo'[th] = << >> /\ Front(th)' = Front(th) /\ Front(th) \in settled'
    BY <1>0, <1>6 DEF SetPromise, Goto, Front
  <2> QED
    BY <2>1 DEF TodoOf
<1>7. CASE Pop(th)
  <2>1. pc'[th] = "idle" /\ todo'[th] = << >>
    BY <1>0, <1>7 DEF Pop, Goto, TodoOf
  <2> QED
    BY <2>1 DEF TodoOf
<1> QED
  BY <1>1, <1>2, <1>3, <1>4, <1>5, <1>6, <1>7 DEF Step

LEMMA OrderedStep ==
  ASSUME Sequenced, OrderedInv, NEW th \in Threads, Step(th)
  PROVE  OrderedInv'
<1>0. TypeOK /\ IInv /\ TodoOf(th) /\ Serves[th] \in Dispatchers
  BY NetAssumption DEF OrderedInv, IInv, NetInv, TodoInv
<1>1. IInv'
  BY <1>0, StepKeeps
<1>2. TodoInv'
  BY OthersTodo, OwnTodo DEF TodoInv
<1>3. PlaceInv' /\ AheadInv'
  <2>1. CASE Operate(th)
    <3>1. PICK next \in Operation : next = Head(todo[th]) /\ todo[th] # << >> /\ todo[th] \in Seq(Operation)
      BY <1>0, <2>1 DEF Operate, TypeOK
    <3>2. CASE next.op = "dispatch"
      <4>1. next.task \in Tasks
        BY <3>1, <3>2 DEF Operation, Call
      <4>2. pc[th] \in {"script", "work"}
        BY <2>1, <3>1, <3>2 DEF Operate, Skips
      <4>3. 1 \in 1 .. Len(todo[th]) /\ todo[th][1] = next
        BY <3>1
      <4>4. \A u \in Gets(next.task) : Known(u)
        BY <1>0, <3>2, <4>2, <4>3 DEF TodoOf, Supplied
      <4>5. /\ tasks' = [tasks EXCEPT ![DispatcherOf[next.task]] = Append(tasks[DispatcherOf[next.task]], next.task)]
            /\ settled' = settled
        BY <2>1, <3>1, <3>2 DEF Operate, Push, futureVars
      <4> QED
        BY <4>1, <4>4, <4>5, QueueGrows
    <3>3. CASE next.op # "dispatch"
      BY <2>1, <3>1, <3>3, QueuesStay DEF Operate, futureVars
    <3> QED
      BY <3>2, <3>3
  <2>2. CASE Pop(th)
    <3>1. /\ Front(th) \in settled /\ tasks[Serves[th]] # << >>
          /\ tasks' = [tasks EXCEPT ![Serves[th]] = Tail(tasks[Serves[th]])] /\ settled' = settled
      BY <1>0, <2>2 DEF Pop, TodoOf, IInv, NetInv, Busy, futureVars
    <3> QED
      BY <1>0, <3>1, QueueShrinks DEF Front
  <2>3. CASE tasks' = tasks /\ settled \subseteq settled'
    BY <2>3, QueuesStay
  <2> QED
    BY <2>1, <2>2, <2>3 DEF Step, PassOver, EndScript, Lock, Enter, SetPromise, futureVars
<1> QED
  BY <1>1, <1>2, <1>3 DEF OrderedInv

(* Clients that dispatch a task before another that gets its future find   *)
(* it settled, in another queue, or ahead in the same one.                 *)
THEOREM FuturesAreAhead == ASSUME Sequenced PROVE Spec => []OrderedInv
<1>1. Init => OrderedInv
  BY OrderedInit
<1>2. OrderedInv /\ [Next]_vars => OrderedInv'
  <2>1. OrderedInv /\ Next => OrderedInv'
    BY OrderedStep DEF Next
  <2>2. ASSUME OrderedInv, UNCHANGED vars PROVE OrderedInv'
    <3>1. /\ UNCHANGED <<tasks, mutex, connMutex, settled, failed, flag, pc, todo>>
      BY <2>2 DEF vars, futureVars
    <3>2. IInv'
      BY <2>2, <3>1 DEF OrderedInv, IInv, NetInv, ScriptInv, TypeOK, Busy, Front
    <3>3. PlaceInv' /\ AheadInv'
      BY <2>2, <3>1, QueuesStay
    <3>4. \A u : Known(u) => Known(u)'
      BY <3>1 DEF Known, Queued
    <3>5. \A th \in Threads : Supplied(todo[th]) => Supplied(todo[th])'
      BY <3>1, <3>4 DEF Supplied, Gets
    <3>6. TodoInv'
      BY <2>2, <3>1, <3>5 DEF OrderedInv, TodoInv, TodoOf, Front
    <3> QED
      BY <3>2, <3>3, <3>6 DEF OrderedInv
  <2> QED
    BY <2>1, <2>2
<1> QED
  BY <1>1, <1>2, PTL DEF Spec

(* Every set of natural numbers that is not empty has a least member.      *)
LEMMA Least ==
  ASSUME NEW T \in SUBSET Nat, T # {}
  PROVE  \E x \in T : \A y \in T : x <= y
<1> DEFINE R == {ss \in Nat \X Nat : ss[1] < ss[2]}
<1>1. IsWellFoundedOn(R, Nat)
  BY NatLessThanWellFounded, Zenon DEF OpToRel
<1>2. \A x, y \in Nat : y < x => <<y, x>> \in R
  OBVIOUS
<1> HIDE DEF R
<1>3. PICK x \in T : \A y \in T : ~(<<y, x>> \in R)
  BY <1>1, WFMin
<1>4. \A y \in T : ~(y < x)
  BY <1>2, <1>3
<1>5. \A m, n \in Nat : ~(m < n) => n <= m
  OBVIOUS
<1> QED
  BY <1>4, <1>5

(* Below the thread in the least dispatcher that is in a task, nothing is  *)
(* queued and nothing is locked.                                           *)
LEMMA NothingBelow ==
  ASSUME NEW Level \in [Dispatchers -> Nat], Disciplined(Level), OrderedInv,
         \A s \in Threads : Blocked(s),
         NEW d \in Dispatchers, \A s \in Threads : Busy(s) => Level[d] <= Level[Serves[s]],
         NEW u \in Tasks, Level[DispatcherOf[u]] < Level[d]
  PROVE  ~Queued(u) /\ mutex[DispatcherOf[u]] = Nobody /\ connMutex[ConnOf[u]] = Nobody
<1> DEFINE e == DispatcherOf[u]
<1>0. /\ TypeOK /\ e \in Dispatchers /\ ConnOf[u] \in Conns
      /\ \A f \in Dispatchers : tasks[f] \in Seq(Tasks)
      /\ Level[e] \in Nat /\ Level[d] \in Nat
  BY NetAssumption DEF OrderedInv, IInv, NetInv, TypeOK
<1>1. \A s \in Threads : Serves[s] = e => ~Busy(s)
  BY <1>0
<1>2. mutex[e] = Nobody
  <2>1. mutex[e] \in Threads \cup {Nobody}
    BY <1>0 DEF TypeOK
  <2>2. \A s \in Threads : mutex[e] # s
    BY <1>0, <1>1 DEF OrderedInv, IInv, NetInv
  <2> QED
    BY <2>1, <2>2
<1>3. ~Queued(u)
  <2> SUFFICES ASSUME Queued(u) PROVE FALSE
    OBVIOUS
  <2>1. tasks[e] # << >>
    BY <1>0 DEF Queued
  <2>2. PICK s \in Threads : Serves[s] = e /\ Script[s] = << >>
    BY DEF Disciplined, Downward
  <2>3. pc[s] \in {"script", "idle"}
    BY <1>1, <2>2 DEF Busy
  <2>4. CASE pc[s] = "script"
    <3>1. todo[s] = << >>
      BY <2>2, <2>4 DEF OrderedInv, TodoInv, TodoOf
    <3> QED
      BY <2>4, <3>1 DEF Blocked
  <2>5. CASE pc[s] = "idle"
    BY <1>2, <2>1, <2>2, <2>5 DEF Blocked
  <2> QED
    BY <2>3, <2>4, <2>5
<1>4. connMutex[ConnOf[u]] = Nobody
  <2> SUFFICES ASSUME NEW s \in Threads, connMutex[ConnOf[u]] = s PROVE FALSE
    BY <1>0 DEF TypeOK
  <2>1. Busy(s) /\ ConnOf[Front(s)] = ConnOf[u] /\ tasks[Serves[s]] # << >>
    BY <1>0 DEF OrderedInv, IInv, NetInv, Busy
  <2>2. /\ Serves[s] \in Dispatchers /\ Front(s) = tasks[Serves[s]][1] /\ Front(s) \in Tasks
        /\ 1 \in 1 .. Len(tasks[Serves[s]])
    BY <1>0, <2>1, NetAssumption DEF Front
  <2>3. DispatcherOf[Front(s)] = Serves[s] /\ DispatcherOf[Front(s)] = e
    BY <2>1, <2>2 DEF OrderedInv, PlaceInv, Disciplined, Downward
  <2> QED
    BY <1>1, <2>1, <2>3
<1> QED
  BY <1>2, <1>3, <1>4

(* If all threads are blocked, none is in a task: the one in the least     *)
(* dispatcher could go on.                                                 *)
LEMMA NobodyBusy ==
  ASSUME NEW Level \in [Dispatchers -> Nat], Disciplined(Level), OrderedInv,
         \A s \in Threads : Blocked(s)
  PROVE  \A s \in Threads : ~Busy(s)
<1> SUFFICES ASSUME NEW busy \in Threads, Busy(busy) PROVE FALSE
  OBVIOUS
<1> DEFINE L == {Level[Serves[s]] : s \in {s \in Threads : Busy(s)}}
<1>0. /\ TypeOK /\ \A s \in Threads : Serves[s] \in Dispatchers /\ Level[Serves[s]] \in Nat
      /\ \A f \in Dispatchers : tasks[f] \in Seq(Tasks)
  BY NetAssumption DEF OrderedInv, IInv, NetInv, TypeOK
<1>1. L \in SUBSET Nat /\ L # {}
  BY <1>0
<1>2. PICK least \in L : \A y \in L : least <= y
  <2> HIDE DEF L
  <2> QED
    BY <1>1, Least
<1>3. PICK th \in Threads : Busy(th) /\ Level[Serves[th]] = least
  BY <1>2
<1>4. \A s \in Threads : Busy(s) => Level[Serves[th]] <= Level[Serves[s]]
  BY <1>2, <1>3
<1> DEFINE d == Serves[th]  t == Front(th)
<1>5. /\ d \in Dispatchers /\ tasks[d] # << >> /\ mutex[d] = th
      /\ t = tasks[d][1] /\ t \in Tasks /\ 1 \in 1 .. Len(tasks[d])
  BY <1>0, <1>3 DEF Front, OrderedInv, IInv, NetInv
<1>6. DispatcherOf[t] = d
  BY <1>5 DEF OrderedInv, PlaceInv
<1>7. \A u \in Tasks : Level[DispatcherOf[u]] < Level[d] =>
        ~Queued(u) /\ mutex[DispatcherOf[u]] = Nobody /\ connMutex[ConnOf[u]] = Nobody
  BY <1>4, <1>5, NothingBelow
<1>8. \A c \in Conns : connMutex[c] # Nobody =>
        \E s \in Threads : /\ pc[s] \in {"work", "throw"} /\ ConnOf[Front(s)] = c
                          /\ connMutex[c] = s /\ Front(s) \in Tasks
                          /\ DispatcherOf[Front(s)] = Serves[s] /\ mutex[Serves[s]] = s
  <2> SUFFICES ASSUME NEW c \in Conns, NEW s \in Threads, connMutex[c] = s
               PROVE  /\ pc[s] \in {"work", "throw"} /\ ConnOf[Front(s)] = c /\ Front(s) \in Tasks
                      /\ DispatcherOf[Front(s)] = Serves[s] /\ mutex[Serves[s]] = s
    BY <1>0 DEF TypeOK
  <2>1. pc[s] \in {"work", "throw"} /\ ConnOf[Front(s)] = c
    BY DEF OrderedInv, IInv, NetInv
  <2>2. Busy(s)
    BY <2>1 DEF Busy
  <2>3. tasks[Serves[s]] # << >> /\ mutex[Serves[s]] = s
    BY <1>0, <2>2 DEF OrderedInv, IInv, NetInv
  <2>4. Front(s) = tasks[Serves[s]][1] /\ Front(s) \in Tasks /\ 1 \in 1 .. Len(tasks[Serves[s]])
    BY <1>0, <2>3 DEF Front
  <2>5. DispatcherOf[Front(s)] = Serves[s]
    BY <1>0, <2>4 DEF OrderedInv, PlaceInv
  <2> QED
    BY <2>1, <2>3, <2>4, <2>5
<1>9. CASE pc[th] \in {"enter", "pop"}
  <2>1. connMutex[ConnOf[t]] # Nobody /\ ConnOf[t] \in Conns
    BY <1>5, <1>9, NetAssumption DEF Blocked
  <2>2. PICK s \in Threads : /\ pc[s] \in {"work", "throw"} /\ ConnOf[Front(s)] = ConnOf[t]
                             /\ Front(s) \in Tasks /\ DispatcherOf[Front(s)] = Serves[s]
                             /\ mutex[Serves[s]] = s
    BY <1>8, <2>1
  <2>3. DispatcherOf[Front(s)] = DispatcherOf[t]
    BY <1>5, <2>2 DEF Disciplined, Downward
  <2>4. s = th
    BY <1>5, <1>6, <2>2, <2>3
  <2> QED
    BY <1>9, <2>2, <2>4
<1>10. CASE pc[th] \in {"work", "throw"}
  <2>1. todo[th] # << >> /\ todo[th] \in Seq(Operation) /\ ~Ready(Head(todo[th]))
    BY <1>0, <1>10 DEF Blocked, TypeOK
  <2>2. PICK next \in Operation : next = Head(todo[th]) /\ next = todo[th][1] /\ 1 \in 1 .. Len(todo[th])
    BY <2>1
  <2>3. PICK j \in 1 .. Len(Body[t]) : Body[t][j] = next
    BY <1>10, <2>2 DEF OrderedInv, TodoInv, TodoOf, PartOf
  <2>4. /\ next.op = "get" => \/ Level[DispatcherOf[next.task]] < Level[d]
                               \/ DispatcherOf[next.task] = d
        /\ next.op = "dispatch" => Level[DispatcherOf[next.task]] < Level[d]
        /\ next.op = "release" =>
             \A u \in Tasks : ConnOf[u] = next.conn => Level[DispatcherOf[u]] < Level[d]
    BY <1>5, <1>6, <2>3 DEF Disciplined, Downward
  <2>5. CASE next.op = "get" /\ next.task \notin settled
    <3>1. next.task \in Tasks /\ next = [op |-> "get", task |-> next.task]
      BY <2>5 DEF Operation, Call
    <3>2. next.task \in Gets(t)
      BY <2>3, <3>1 DEF Gets
    <3>3. DispatcherOf[next.task] # d /\ Queued(next.task)
      BY <1>5, <2>5, <3>2 DEF OrderedInv, AheadInv
    <3> QED
      BY <1>7, <2>4, <2>5, <3>1, <3>3
  <2>6. CASE next.op = "dispatch" /\ mutex[DispatcherOf[next.task]] # Nobody
    <3>1. next.task \in Tasks
      BY <2>6 DEF Operation, Call
    <3> QED
      BY <1>7, <2>4, <2>6, <3>1
  <2>7. CASE next.op = "release" /\ connMutex[next.conn] # Nobody
    <3>1. next.conn \in Conns
      BY <2>7 DEF Operation, Call
    <3>2. PICK s \in Threads : ConnOf[Front(s)] = next.conn /\ Front(s) \in Tasks
      BY <1>8, <2>7, <3>1
    <3> QED
      BY <1>7, <2>4, <2>7, <3>2
  <2> QED
    BY <2>1, <2>2, <2>5, <2>6, <2>7 DEF Ready
<1> QED
  BY <1>0, <1>3, <1>9, <1>10 DEF Busy, TypeOK

(* Clients whose dispatchers have levels never wait for each other in a    *)
(* circle, however many dispatchers, threads, tasks and connections there  *)
(* are: whenever all threads are blocked, all of them are idle, and all    *)
(* queues are empty.                                                       *)
THEOREM NobodyWaitsInCircle ==
  ASSUME NEW Level \in [Dispatchers -> Nat], Disciplined(Level)
  PROVE  Spec => []NoDeadlock
<1>1. OrderedInv => NoDeadlock
  <2> SUFFICES ASSUME OrderedInv, \A s \in Threads : Blocked(s), NEW th \in Threads
               PROVE  pc[th] = "idle" /\ tasks[Serves[th]] = << >>
    BY DEF NoDeadlock
  <2>0. TypeOK
    BY DEF OrderedInv, IInv, NetInv
  <2>1. \A s \in Threads : ~Busy(s)
    BY NobodyBusy
  <2>2. \A e \in Dispatchers : mutex[e] = Nobody
    BY <2>0, <2>1 DEF OrderedInv, IInv, NetInv, TypeOK
  <2>3. \A c \in Conns : connMutex[c] = Nobody
    <3>1. \A c \in Conns : connMutex[c] \in Threads \cup {Nobody}
      BY <2>0 DEF TypeOK
    <3>2. \A c \in Conns, s \in Threads : connMutex[c] # s
      BY <2>1 DEF OrderedInv, IInv, NetInv, Busy
    <3> QED
      BY <3>1, <3>2
  <2>4. pc[th] \in {"script", "idle"}
    BY <2>1 DEF Busy
  <2>5. CASE pc[th] = "script"
    <3>1. todo[th] # << >> /\ todo[th] \in Seq(Call) /\ ~Ready(Head(todo[th]))
      BY <2>5 DEF Blocked, OrderedInv, IInv, ScriptInv
    <3>2. PICK next \in Call : next = Head(todo[th])
      BY <3>1
    <3>3. next.op = "dispatch" => DispatcherOf[next.task] \in Dispatchers
      BY <3>2, NetAssumption DEF Call
    <3>4. next.op = "release" => next.conn \in Conns
      BY <3>2 DEF Call
    <3>5. next.op # "get"
      BY <3>2 DEF Call
    <3> QED
      BY <2>2, <2>3, <3>1, <3>2, <3>3, <3>4, <3>5 DEF Ready
  <2>6. CASE pc[th] = "idle"
    BY <2>2, <2>6, NetAssumption DEF Blocked
  <2> QED
    BY <2>4, <2>5, <2>6
<1>2. Sequenced
  BY DEF Sequenced, Disciplined, Downward
<1>3. Spec => []OrderedInv
  BY <1>2, FuturesAreAhead
<1> QED
  BY <1>1, <1>3, PTL
=============================================================================
