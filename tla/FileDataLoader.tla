---------------------------- MODULE FileDataLoader ----------------------------
(***************************************************************************)
(* file_data_loader: load opens the file in the caller's thread, and       *)
(* dispatches a task whose retry function reads a block of it each time    *)
(* the dispatcher comes to the task, and whose callback closes it.  Behind *)
(* it in the same queue comes the task of when_throw, for the future that  *)
(* the caller gets.  All blocks, of all loaders, are read under one mutex. *)
(*                                                                         *)
(* A file is the number of its bytes.  The dispatchers are those of        *)
(* Dispatcher: one task at a time, retried at the front of the queue; the  *)
(* thread of a dispatcher holds its mutex whenever it is not idle.         *)
(***************************************************************************)
EXTENDS Naturals, Sequences

CONSTANTS
  Loads,         (* calls of load                                          *)
  Dispatchers,
  DispatcherOf,  (* the dispatcher of the loader of each call              *)
  Size,          (* the size of the file of each call                      *)
  BlockSize,     (* _block_size of the loader of each call                 *)
  nblock,        (* file_data_loader::nblock: blocks without an end        *)
  Nobody         (* owner of the mutex that is not locked                  *)

ASSUME FileAssumption ==
  /\ DispatcherOf \in [Loads -> Dispatchers]
  /\ Size \in [Loads -> Nat]
  /\ BlockSize \in [Loads -> Nat \cup {nblock}]
  /\ nblock \notin Nat
  /\ Nobody \notin Dispatchers

VARIABLES
  call,         (* how far each call of load is                            *)
  file,         (* the FILE of each call                                   *)
  bytes,        (* the number of bytes in the task's data                  *)
  tasks,        (* dispatcher::_tasks: the loads, and the futures, in it   *)
  loaded,       (* the outcome of the task that reads                      *)
  result,       (* the outcome of the future that the caller has           *)
  interrupted,  (* the calls whose connection is interrupted               *)
  work_mutex,   (* the global mutex, the dispatcher whose thread has it    *)
  left,         (* block_size, in file_data_loader_work                    *)
  pc,           (* where the thread of each dispatcher is                  *)
  alive         (* the dispatchers that are not destroyed                  *)

callVars == <<call, interrupted>>
workVars == <<bytes, work_mutex, left>>
vars == <<callVars, workVars, file, tasks, loaded, result, pc, alive>>

Reading(l) == <<"read", l>>
Guarding(l) == <<"guard", l>>
Task == {"read", "guard"} \X Loads
Outcome == {"none", "pending", "data", "interrupted", "broken"}

TypeOK ==
  /\ call \in [Loads -> {"start", "opened", "reading", "returned", "threw"}]
  /\ file \in [Loads -> {"none", "open", "closed"}]
  /\ bytes \in [Loads -> Nat]
  /\ tasks \in [Dispatchers -> Seq(Task)]
  /\ loaded \in [Loads -> Outcome]
  /\ result \in [Loads -> Outcome]
  /\ interrupted \in SUBSET Loads
  /\ work_mutex \in Dispatchers \cup {Nobody}
  /\ left \in [Dispatchers -> Nat \cup {nblock}]
  /\ pc \in [Dispatchers -> {"idle", "retry", "block", "work", "get"}]
  /\ alive \in SUBSET Dispatchers

Init ==
  /\ call = [l \in Loads |-> "start"]
  /\ file = [l \in Loads |-> "none"]
  /\ bytes = [l \in Loads |-> 0]
  /\ tasks = [d \in Dispatchers |-> << >>]
  /\ loaded = [l \in Loads |-> "none"]
  /\ result = [l \in Loads |-> "none"]
  /\ interrupted = {}
  /\ work_mutex = Nobody
  /\ left = [d \in Dispatchers |-> 0]
  /\ pc = [d \in Dispatchers |-> "idle"]
  /\ alive = Dispatchers

Goto(d, label) == pc' = [pc EXCEPT ![d] = label]
Front(d) == Head(tasks[d])[2]    \* the load of the front task
-----------------------------------------------------------------------------
(* file_data_loader::load                                                  *)

(* file_data_loader_start, which throws if there is no such file.          *)
Open(l) ==
  /\ call[l] = "start"
  /\ DispatcherOf[l] \in alive
  /\ \/ /\ call' = [call EXCEPT ![l] = "opened"]
        /\ file' = [file EXCEPT ![l] = "open"]
     \/ /\ call' = [call EXCEPT ![l] = "threw"]
        /\ UNCHANGED file
  /\ UNCHANGED <<workVars, tasks, loaded, result, interrupted, pc, alive>>

(* dispatch_retry, and then when_throw: each waits for _mutex.             *)
DispatchRead(l) ==
  LET d == DispatcherOf[l]
  IN  /\ call[l] = "opened"
      /\ pc[d] = "idle"
      /\ tasks' = [tasks EXCEPT ![d] = Append(@, Reading(l))]
      /\ loaded' = [loaded EXCEPT ![l] = "pending"]
      /\ call' = [call EXCEPT ![l] = "reading"]
      /\ UNCHANGED <<workVars, file, result, interrupted, pc, alive>>

DispatchGuard(l) ==
  LET d == DispatcherOf[l]
  IN  /\ call[l] = "reading"
      /\ pc[d] = "idle"
      /\ tasks' = [tasks EXCEPT ![d] = Append(@, Guarding(l))]
      /\ result' = [result EXCEPT ![l] = "pending"]
      /\ call' = [call EXCEPT ![l] = "returned"]
      /\ UNCHANGED <<workVars, file, loaded, interrupted, pc, alive>>

(* connection::interrupt, whenever the client wants.                       *)
Interrupt(l) ==
  /\ l \notin interrupted
  /\ interrupted' = interrupted \cup {l}
  /\ UNCHANGED <<workVars, call, file, tasks, loaded, result, pc, alive>>

-----------------------------------------------------------------------------
(* The thread of a dispatcher                                              *)

(* process_one takes the front task.                                       *)
Take(d) ==
  /\ d \in alive
  /\ pc[d] = "idle"
  /\ tasks[d] # << >>
  /\ Goto(d, IF Head(tasks[d])[1] = "read" THEN "retry" ELSE "get")
  /\ UNCHANGED <<callVars, workVars, file, tasks, loaded, result, alive>>

(* file_data_loader_work locks work_mutex; nothing looks at the connection.*)
Lock(d) ==
  /\ pc[d] = "retry"
  /\ work_mutex = Nobody
  /\ work_mutex' = d
  /\ left' = [left EXCEPT ![d] = BlockSize[Front(d)]]
  /\ Goto(d, "block")
  /\ UNCHANGED <<callVars, bytes, file, tasks, loaded, result, alive>>

ReadByte(d) ==
  /\ pc[d] = "block"
  /\ left[d] # 0
  /\ bytes[Front(d)] < Size[Front(d)]
  /\ bytes' = [bytes EXCEPT ![Front(d)] = @ + 1]
  /\ left' = [left EXCEPT ![d] = IF @ = nblock THEN @ ELSE @ - 1]
  /\ UNCHANGED <<callVars, work_mutex, file, tasks, loaded, result, pc, alive>>

(* file_data_loader_work returns, and unlocks work_mutex.                  *)
ReturnFromWork(d, label) ==
  /\ work_mutex' = Nobody
  /\ Goto(d, label)
  /\ UNCHANGED <<callVars, bytes, left, file, tasks, loaded, result, alive>>

(* The end of the file: the task is ready.                                 *)
ReadEnd(d) ==
  /\ pc[d] = "block"
  /\ left[d] # 0
  /\ bytes[Front(d)] = Size[Front(d)]
  /\ ReturnFromWork(d, "work")

(* Fault: a full block counts as the end of the file.                      *)
BlockEndReady(d) == pc[d] = "block" /\ left[d] = 0 /\ ReturnFromWork(d, "work")

(* The end of the block: the task stays in front.                          *)
BlockEnd(d) == pc[d] = "block" /\ left[d] = 0 /\ ReturnFromWork(d, "idle")

(* Fault: the file is left to its reader to close.                         *)
LeaveOpen(l) == UNCHANGED file
Close(l) == file' = [file EXCEPT ![l] = "closed"]

(* Fault: the task stays in the queue.                                     *)
PopNothing(d) == UNCHANGED tasks
PopFront(d) == tasks' = [tasks EXCEPT ![d] = Tail(@)]

(* The handler: file_data_loader_end, unless the call was interrupted.     *)
End(d) ==
  /\ pc[d] = "work"
  /\ LET l == Front(d)
     IN  IF l \in interrupted
         THEN /\ loaded' = [loaded EXCEPT ![l] = "interrupted"]
              /\ UNCHANGED file
         ELSE /\ loaded' = [loaded EXCEPT ![l] = "data"]
              /\ Close(l)
  /\ PopFront(d)
  /\ Goto(d, "idle")
  /\ UNCHANGED <<callVars, workVars, result, alive>>

(* when_throw_worker::work<data_exception>: what was read, or the error;   *)
(* file_data_loader_throw would close the file, but neither the retry nor  *)
(* the callback throws a data_exception.                                   *)
Guard(d) ==
  /\ pc[d] = "get"
  /\ loaded[Front(d)] # "pending"
  /\ result' = [result EXCEPT ![Front(d)] = loaded[Front(d)]]
  /\ PopFront(d)
  /\ Goto(d, "idle")
  /\ UNCHANGED <<callVars, workVars, file, loaded, alive>>

(* The tasks left in the queue break their promises.                       *)
Broken(d, kind, outcomes) ==
  [l \in Loads |-> IF \E i \in 1 .. Len(tasks[d]) : tasks[d][i] = <<kind, l>>
                  THEN "broken" ELSE outcomes[l]]

(* Fault: a guard dies without its broken promise.                         *)
BreakReads(d) == loaded' = Broken(d, "read", loaded) /\ UNCHANGED result
BreakPromises(d) == /\ loaded' = Broken(d, "read", loaded)
                    /\ result' = Broken(d, "guard", result)

(* ~file_data_loader, or the owner of the dispatcher, destroys it; no call *)
(* of load is under way.  Its promises are broken.                         *)
Destroy(d) ==
  /\ d \in alive
  /\ pc[d] = "idle"
  /\ \A l \in Loads : DispatcherOf[l] = d => call[l] \notin {"opened", "reading"}
  /\ alive' = alive \ {d}
  /\ BreakPromises(d)
  /\ tasks' = [tasks EXCEPT ![d] = << >>]
  /\ UNCHANGED <<callVars, workVars, file, pc>>

Load(l) == Open(l) \/ DispatchRead(l) \/ DispatchGuard(l)

Process(d) ==
  \/ Take(d) \/ Lock(d) \/ ReadByte(d) \/ ReadEnd(d) \/ BlockEnd(d) \/ End(d) \/ Guard(d)

Next ==
  \/ \E l \in Loads : Load(l) \/ Interrupt(l)
  \/ \E d \in Dispatchers : Process(d) \/ Destroy(d)

Spec == Init /\ [][Next]_vars

(* Threads and callers go on, and get a mutex that is free again and again.*)
FairSpec ==
  /\ Spec
  /\ \A d \in Dispatchers : SF_vars(Process(d))
  /\ \A l \in Loads : SF_vars(DispatchRead(l) \/ DispatchGuard(l))
-----------------------------------------------------------------------------
(* Properties                                                              *)

(* The front task of a thread in file_data_loader_work or in its handler   *)
(* has an open file, work_mutex belongs to the one thread in a block, and  *)
(* a guard never waits in get for a task behind it, which would be forever.*)
ThreadInv(d) ==
  /\ pc[d] # "idle" => tasks[d] # << >> /\ d \in alive
  /\ pc[d] \in {"retry", "block", "work"} =>
       Head(tasks[d])[1] = "read" /\ file[Front(d)] = "open"
  /\ pc[d] = "get" => Head(tasks[d])[1] = "guard" /\ loaded[Front(d)] # "pending"
  /\ pc[d] = "block" <=> work_mutex = d

FileInv == TypeOK /\ \A d \in Dispatchers : ThreadInv(d)

(* Who gets data gets the whole file, whatever the blocks it was read in   *)
(* and whatever else was read between them, and the file is closed.        *)
WholeFile ==
  \A l \in Loads : result[l] = "data" => bytes[l] = Size[l] /\ file[l] = "closed"

(* A file stays open after its caller has an answer only if the load was   *)
(* interrupted or its dispatcher destroyed: then nothing closes it.        *)
LeaksOnlyIfCut ==
  \A l \in Loads :
    result[l] \notin {"none", "pending"} /\ file[l] = "open" =>
      l \in interrupted \/ DispatcherOf[l] \notin alive

(* Whoever called load gets an answer at last, even if the dispatcher is   *)
(* shared, or is destroyed between two blocks.                             *)
LoadEnds ==
  \A l \in Loads : file[l] = "open" ~> result[l] \in {"data", "interrupted", "broken"}
===============================================================================
