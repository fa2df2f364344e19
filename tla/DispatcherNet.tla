---------------------------- MODULE DispatcherNet ----------------------------
(***************************************************************************)
(* Several dispatchers whose callbacks use each other: a callback runs     *)
(* with the mutex of its dispatcher and of its connection locked, and what *)
(* it calls takes more of them.  Tasks are always ready here; Dispatcher   *)
(* has the details of their retry functions.                               *)
(*                                                                         *)
(* A callback is the sequence of what it does that may block or throw:     *)
(*   get       future::get, for the future of a task (when, when_all...)   *)
(*   dispatch  dispatcher::dispatch of a task                              *)
(*   interrupt connection::interrupt                                       *)
(*   point     connection::interruption_point, for a copy of a connection  *)
(*   release   the destructor of a copy of a connection                    *)
(* When get or an interruption point throws, the callback is left, and of  *)
(* what follows only the releases are done.  A script calls neither.       *)
(***************************************************************************)
EXTENDS Naturals, Sequences

CONSTANTS
  Dispatchers, Threads, Tasks, Conns,
  Nobody,      (* owner of a mutex that is not locked                      *)
  DispatcherOf, (* the dispatcher each task is dispatched to               *)
  ConnOf,      (* the connection each task is tied to                      *)
  Body,        (* what the callback of each task does, a sequence          *)
  Script,      (* what each thread does before it processes tasks          *)
  Serves       (* the dispatcher each thread processes after that          *)

Call == [op : {"dispatch"}, task : Tasks] \cup [op : {"interrupt", "release"}, conn : Conns]
Operation == Call \cup [op : {"get"}, task : Tasks] \cup [op : {"point"}, conn : Conns]

ASSUME NetAssumption ==
  /\ Nobody \notin Threads
  /\ DispatcherOf \in [Tasks -> Dispatchers]
  /\ ConnOf \in [Tasks -> Conns]
  /\ Body \in [Tasks -> Seq(Operation)]
  /\ Script \in [Threads -> Seq(Call)]
  /\ Serves \in [Threads -> Dispatchers]

VARIABLES
  tasks,      (* dispatcher::_tasks of each dispatcher                     *)
  mutex,      (* dispatcher::_mutex of each, its owner                     *)
  connMutex,  (* connection_data::_mutex of each, its owner                *)
  settled,    (* the tasks whose promise is set                            *)
  failed,     (* those of them whose promise has an exception              *)
  flag,       (* the connections that are interrupted                      *)
  pc,         (* where each thread is                                      *)
  todo        (* what the thread's script, or callback, has still to do    *)

futureVars == <<settled, failed>>
vars == <<tasks, mutex, connMutex, futureVars, flag, pc, todo>>

TypeOK ==
  /\ tasks \in [Dispatchers -> Seq(Tasks)]
  /\ mutex \in [Dispatchers -> Threads \cup {Nobody}]
  /\ connMutex \in [Conns -> Threads \cup {Nobody}]
  /\ settled \in SUBSET Tasks
  /\ failed \in SUBSET settled
  /\ flag \in SUBSET Conns
  /\ pc \in [Threads -> {"script", "idle", "enter", "work", "throw", "pop"}]
  /\ todo \in [Threads -> Seq(Operation)]

Init ==
  /\ tasks = [d \in Dispatchers |-> << >>]
  /\ mutex = [d \in Dispatchers |-> Nobody]
  /\ connMutex = [c \in Conns |-> Nobody]
  /\ settled = {}
  /\ failed = {}
  /\ flag = {}
  /\ pc = [th \in Threads |-> "script"]
  /\ todo = Script

Front(th) == Head(tasks[Serves[th]])
Goto(th, label) == pc' = [pc EXCEPT ![th] = label]
-----------------------------------------------------------------------------
(* The next operation of a thread can be done, and whether it throws.      *)
Ready(operation) ==
  /\ operation.op = "get" => operation.task \in settled
  /\ operation.op = "dispatch" => mutex[DispatcherOf[operation.task]] = Nobody
  /\ operation.op = "release" => connMutex[operation.conn] = Nobody

Throws(operation) ==
  \/ operation.op = "get" /\ operation.task \in failed
  \/ operation.op = "point" /\ operation.conn \in flag

(* Fault: dispatch forgets the task.                                       *)
NotPushed(t) == UNCHANGED tasks

(* dispatch's push_back.                                                   *)
Push(t) == tasks' = [tasks EXCEPT ![DispatcherOf[t]] = Append(@, t)]

(* A thread at "throw" is in a callback that is being left by an exception: *)
(* only destructors run there.                                             *)
Skips(th) == pc[th] = "throw" /\ todo[th] # << >> /\ Head(todo[th]).op # "release"

PassOver(th) ==
  /\ Skips(th)
  /\ todo' = [todo EXCEPT ![th] = Tail(@)]
  /\ UNCHANGED <<tasks, mutex, connMutex, futureVars, flag, pc>>

(* One operation of a callback or a script.                                *)
Operate(th) ==
  LET next == Head(todo[th])
  IN  /\ pc[th] \in {"script", "work", "throw"}
      /\ todo[th] # << >>
      /\ ~Skips(th)
      /\ Ready(next)
      /\ todo' = [todo EXCEPT ![th] = Tail(@)]
      /\ IF Throws(next) THEN Goto(th, "throw") ELSE UNCHANGED pc
      /\ IF next.op = "dispatch" THEN Push(next.task) ELSE UNCHANGED tasks
      /\ flag' = IF next.op = "interrupt" THEN flag \cup {next.conn} ELSE flag
      /\ UNCHANGED <<mutex, connMutex, futureVars>>

EndScript(th) ==
  /\ pc[th] = "script"
  /\ todo[th] = << >>
  /\ Goto(th, "idle")
  /\ UNCHANGED <<tasks, mutex, connMutex, futureVars, flag, todo>>

(* process_one takes the front task ...                                    *)
Lock(th) ==
  /\ pc[th] = "idle"
  /\ mutex[Serves[th]] = Nobody
  /\ tasks[Serves[th]] # << >>
  /\ mutex' = [mutex EXCEPT ![Serves[th]] = th]
  /\ Goto(th, "enter")
  /\ UNCHANGED <<tasks, connMutex, futureVars, flag, todo>>

(* ... and the handler locks its connection, and calls the callback if its *)
(* interruption point does not throw.                                      *)
Enter(th) ==
  LET c == ConnOf[Front(th)]
  IN  /\ pc[th] = "enter"
      /\ connMutex[c] = Nobody
      /\ connMutex' = [connMutex EXCEPT ![c] = th]
      /\ IF c \in flag THEN Goto(th, "throw") /\ UNCHANGED todo
                       ELSE Goto(th, "work") /\ todo' = [todo EXCEPT ![th] = Body[Front(th)]]
      /\ UNCHANGED <<tasks, mutex, futureVars, flag>>

(* Fault: the connection stays locked.                                     *)
KeepLocked(c) == UNCHANGED connMutex
Unlock(c) == connMutex' = [connMutex EXCEPT ![c] = Nobody]

(* set_value, or set_exception, and the end of the lock_guard's block.     *)
SetPromise(th) ==
  /\ pc[th] \in {"work", "throw"}
  /\ todo[th] = << >>
  /\ settled' = settled \cup {Front(th)}
  /\ failed' = IF pc[th] = "throw" THEN failed \cup {Front(th)} ELSE failed
  /\ Unlock(ConnOf[Front(th)])
  /\ Goto(th, "pop")
  /\ UNCHANGED <<tasks, mutex, flag, todo>>

(* pop_front, with the destructor of the task's connection.                *)
Pop(th) ==
  /\ pc[th] = "pop"
  /\ connMutex[ConnOf[Front(th)]] = Nobody
  /\ tasks' = [tasks EXCEPT ![Serves[th]] = Tail(@)]
  /\ mutex' = [mutex EXCEPT ![Serves[th]] = Nobody]
  /\ Goto(th, "idle")
  /\ UNCHANGED <<connMutex, futureVars, flag, todo>>

Step(th) ==
  \/ Operate(th) \/ PassOver(th) \/ EndScript(th)
  \/ Lock(th) \/ Enter(th) \/ SetPromise(th) \/ Pop(th)

Next == \E th \in Threads : Step(th)

Spec == Init /\ [][Next]_vars

(* Every thread goes on; a mutex that is free again and again is obtained. *)
FairSpec == Spec /\ \A th \in Threads : SF_vars(Step(th))

-----------------------------------------------------------------------------
(* Properties                                                              *)

Busy(th) == pc[th] \notin {"script", "idle"}

(* What keeps a thread from going on.                                      *)
Blocked(th) ==
  \/ /\ pc[th] \in {"script", "work", "throw"} /\ todo[th] # << >>
     /\ ~Skips(th) /\ ~Ready(Head(todo[th]))
  \/ pc[th] \in {"enter", "pop"} /\ connMutex[ConnOf[Front(th)]] # Nobody
  \/ pc[th] = "idle" /\ (mutex[Serves[th]] # Nobody \/ tasks[Serves[th]] = << >>)

(* Each mutex is locked by the thread whose task needs it, for as long.    *)
NetInv ==
  /\ TypeOK
  /\ \A d \in Dispatchers, th \in Threads : mutex[d] = th <=> Busy(th) /\ Serves[th] = d
  /\ \A th \in Threads : Busy(th) => tasks[Serves[th]] # << >>
  /\ \A c \in Conns, th \in Threads :
       connMutex[c] = th <=> pc[th] \in {"work", "throw"} /\ ConnOf[Front(th)] = c

(* The callbacks, their dispatchers and their connections never wait for   *)
(* each other in a circle: if every thread is blocked, none is in a task   *)
(* or in its script, and all queues are empty.                             *)
NoDeadlock ==
  (\A th \in Threads : Blocked(th)) =>
    \A th \in Threads : pc[th] = "idle" /\ tasks[Serves[th]] = << >>

(* Clients that are safe from that, whatever they are.  The dispatchers    *)
(* have levels.  A callback dispatches to lower levels only; it destroys   *)
(* copies of connections that are tied to tasks of lower levels; it waits  *)
(* for tasks of lower levels, or of its own dispatcher.  A future that is  *)
(* moved into a task is that of a task dispatched, or waited for, before   *)
(* by the same callback or script.  No connection is shared by dispatchers,*)
(* and each is processed by a thread that does nothing else.               *)
Gets(t) == {u \in Tasks : \E i \in 1 .. Len(Body[t]) : Body[t][i] = [op |-> "get", task |-> u]}

FuturesFirst(seq) ==
  \A i \in 1 .. Len(seq) : seq[i].op = "dispatch" =>
    \A u \in Gets(seq[i].task) :
      \E j \in 1 .. i - 1 : seq[j].op \in {"get", "dispatch"} /\ seq[j].task = u

Downward(Level) ==
  LET Below(u, t) == Level[DispatcherOf[u]] < Level[DispatcherOf[t]]
  IN  \A t \in Tasks : \A i \in 1 .. Len(Body[t]) :
        LET o == Body[t][i]
        IN  /\ o.op = "get" => Below(o.task, t) \/ DispatcherOf[o.task] = DispatcherOf[t]
            /\ o.op = "dispatch" => Below(o.task, t)
            /\ o.op = "release" => \A u \in Tasks : ConnOf[u] = o.conn => Below(u, t)

Disciplined(Level) ==
  /\ \A th \in Threads : FuturesFirst(Script[th])
  /\ \A t \in Tasks : FuturesFirst(Body[t])
  /\ Downward(Level)
  /\ \A t, u \in Tasks : ConnOf[t] = ConnOf[u] => DispatcherOf[t] = DispatcherOf[u]
  /\ \A t \in Tasks : \E th \in Threads :
       Serves[th] = DispatcherOf[t] /\ Script[th] = << >>

(* What is dispatched is settled at last, whichever dispatchers, callbacks *)
(* and connections it depends on, and whatever is interrupted on the way.  *)
Dispatching(t) ==
  \E th \in Threads : /\ todo[th] # << >> /\ ~Skips(th)
                      /\ Head(todo[th]) = [op |-> "dispatch", task |-> t]

ChainEnds == \A t \in Tasks : Dispatching(t) ~> t \in settled
=============================================================================
