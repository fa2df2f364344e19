---------------------------- MODULE DataLoaders ----------------------------
(***************************************************************************)
(* http_client::send, http_data_loader::load and setup_data_loader::load,  *)
(* of one setup_data_loader over one http_data_loader over one http_client *)
(* over one dispatcher.                                                    *)
(*                                                                         *)
(* A load dispatches one task in each of the objects it goes through: the  *)
(* transfer, when_sent behind it, and the set-up of the data behind that.  *)
(* Each captures the object that dispatched it.  Each object may own the   *)
(* next one and deletes it in its destructor; that of a dispatcher waits   *)
(* for the running task and breaks the promises of the others.             *)
(***************************************************************************)
EXTENDS HttpClient

CONSTANTS Loads,  (* the calls of load and send                            *)
          Via     (* the layer whose load or send each call is             *)

Setup == 1
Loader == 2
Client == 3
Dispatcher == 4
Layers == Setup .. Dispatcher

ASSUME LoadsAssumption == Via \in [Loads -> Setup .. Client]

VARIABLES
  (* The dispatcher's queue.                                               *)
  waiting, active, revoked, conn, outcome,
  call,         (* the layers that have still to dispatch, for each call   *)
  interrupted,  (* the calls whose connection is interrupted               *)
  owns,         (* _delete_loader, _delete_client, _delete_dispatcher      *)
  closing,      (* the layers whose destructors run                        *)
  gone          (* the layers that are destroyed                           *)

queueVars == <<waiting, active, revoked, conn, outcome>>
objectVars == <<owns, closing, gone>>
vars == <<queueVars, transferVars, call, interrupted, objectVars>>

(* The task that layer y dispatches for call l.                            *)
Task(y, l) == <<y, l>>
Tasks == (Setup .. Client) \X Loads
NoConn == <<Dispatcher, Dispatcher>>

Queue == INSTANCE TaskQueue WITH Tasks <- Tasks, Conns <- Tasks, NoConn <- NoConn

Running == Head(waiting)
Result(l) == outcome[Task(Via[l], l)]
Settled(l) == Result(l) # "pending"

TypeOK ==
  /\ TransferTypeOK
  /\ waiting \in Seq(Tasks) /\ active \in SUBSET Tasks
  /\ outcome \in [Tasks -> {"pending", "value", "error", "interrupted", "broken"}]
  /\ call \in [Loads -> 0 .. Dispatcher]
  /\ interrupted \in SUBSET Loads
  /\ owns \in SUBSET (Setup .. Client)
  /\ closing \in 0 .. Dispatcher
  /\ gone \in SUBSET Layers

Init ==
  /\ Queue!Init /\ TransferInit
  /\ call = [l \in Loads |-> Dispatcher]
  /\ interrupted = {}
  /\ owns \in SUBSET (Setup .. Client)
  /\ closing = 0
  /\ gone = {}

-----------------------------------------------------------------------------
(* Clients                                                                 *)

(* The layers that the destructor of layer x destroys.                     *)
Freed(x) == {y \in Layers : x <= y /\ \A z \in x .. y - 1 : z \in owns}
Joins(x) == Dispatcher \in Freed(x)

InUse(l) == Via[l] .. Dispatcher
UsersOf(x) == {l \in Loads : InUse(l) \cap Freed(x) # {}}
Calling(l) == call[l] \notin {0, Via[l], Dispatcher}

(* The set-up of the name, or the creation of the request, throws.         *)
Throw(l) ==
  /\ call[l] = Dispatcher
  /\ Via[l] # Client
  /\ call' = [call EXCEPT ![l] = 0]
  /\ UNCHANGED <<queueVars, transferVars, interrupted, objectVars>>

(* send, and then when in the layers above: each waits for the running     *)
(* task, since process_one holds the dispatcher's mutex.                   *)
Dispatch(l, y) ==
  /\ Via[l] <= y
  /\ call[l] = y + 1
  /\ y = Client => InUse(l) \cap (gone \cup Freed(closing)) = {}
  /\ active = {}
  /\ Queue!Submit(Task(y, l), Task(y, l))
  /\ call' = [call EXCEPT ![l] = y]
  /\ UNCHANGED <<transferVars, interrupted, objectVars>>

Interrupt(l) ==
  /\ interrupted' = interrupted \cup {l}
  /\ UNCHANGED <<queueVars, transferVars, call, objectVars>>

(* Who owns a layer destroys it.  No call may be under way in what is then *)
(* destroyed, and all must have their results unless the dispatcher goes,  *)
(* too: its destructor waits for the tasks that have captured a layer.     *)
MayDestroy(x) ==
  /\ closing = 0
  /\ x \notin gone
  /\ x - 1 \notin owns
  /\ \A l \in UsersOf(x) : ~Calling(l) /\ (Joins(x) \/ call[l] # Via[l] \/ Settled(l))

(* Fault: the members go first, and then what they own.                    *)
BeginDestroyMembers(x) ==
  /\ MayDestroy(x)
  /\ closing' = x
  /\ gone' = gone \cup {x}
  /\ UNCHANGED <<queueVars, transferVars, call, interrupted, owns>>

(* The destructor of layer x begins, and so do those of what it owns.      *)
BeginDestroy(x) ==
  /\ MayDestroy(x)
  /\ closing' = x
  /\ UNCHANGED <<queueVars, transferVars, call, interrupted, owns, gone>>

(* The threads are joined, the dispatcher is destroyed, then its owners.   *)
EndDestroy ==
  /\ closing # 0
  /\ IF Joins(closing) THEN Queue!Discard ELSE UNCHANGED queueVars
  /\ gone' = gone \cup Freed(closing)
  /\ closing' = 0
  /\ UNCHANGED <<transferVars, call, interrupted, owns>>

-----------------------------------------------------------------------------
(* The thread that processes the dispatcher                                *)

(* A task is called: that of when_sent, the middle layer's, is tied to the *)
(* client's connection, the others to connections of their own.            *)
Tied(task) == task[1] = Loader

Start ==
  /\ Queue!Start
  /\ ~(Tied(Running) /\ Running[2] \in interrupted)
  /\ IF Running[1] = Client THEN Goto("init") ELSE UNCHANGED transfer
  /\ UNCHANGED <<served, resp, call, interrupted, objectVars>>

Cancel ==
  /\ Queue!Cancel
  /\ Tied(Running) /\ Running[2] \in interrupted
  /\ UNCHANGED <<transferVars, call, interrupted, objectVars>>

(* Fault: send binds the connection of its task, not that of the caller.   *)
CutElsewhere == FALSE
Cut == Running[2] \in interrupted

Request ==
  /\ Transfer(Cut)
  /\ UNCHANGED <<queueVars, call, interrupted, objectVars>>

EndRequest(result) ==
  /\ EndsWith(result, Cut)
  /\ Queue!Finish(result)
  /\ transfer' = "none" /\ served' = Empty /\ resp' = Empty
  /\ UNCHANGED <<call, interrupted, objectVars>>

(* A callback of when: get throws the error of the layer below, and nothing*)
(* else happens; or it has the value, and when_sent gives the body on, or  *)
(* the data is set up, by a function of the client's that may throw.       *)
Below == outcome[Task(Running[1] + 1, Running[2])]
WhenSent(result) == Running[1] = Loader /\ result = Below
SetUp(result) == /\ Running[1] = Setup
                 /\ result = Below \/ (Below = "value" /\ result = "error")

EndCallback(result) ==
  /\ active # {}
  /\ WhenSent(result) \/ SetUp(result)
  /\ Queue!Finish(result)
  /\ UNCHANGED <<transferVars, call, interrupted, objectVars>>

Process ==
  \/ Start \/ Cancel \/ Request
  \/ \E result \in {"value", "error", "interrupted"} :
        EndRequest(result) \/ EndCallback(result)

Next ==
  \/ \E l \in Loads : Throw(l) \/ Interrupt(l) \/ \E y \in Setup .. Client : Dispatch(l, y)
  \/ \E x \in Layers : BeginDestroy(x)
  \/ EndDestroy
  \/ Process

Spec == Init /\ [][Next]_vars

(* Callers go on, and so does the thread that processes the dispatcher;    *)
(* libcurl sets no timeout, so it is the server that lets a transfer end.  *)
FairSpec ==
  /\ Spec
  /\ WF_vars(Process) /\ WF_vars(EndDestroy)
  /\ \A l \in Loads : SF_vars(\E y \in Setup .. Client : Dispatch(l, y) /\ Calling(l))

-----------------------------------------------------------------------------
(* Properties                                                              *)

Started(task) == outcome[task] # "pending" \/ task \in active

(* A transfer is under way exactly while a request runs, and a callback of *)
(* when finds that the layer below has ended: get never blocks here.       *)
LoadersInv ==
  /\ TypeOK
  /\ transfer # "none" <=> active # {} /\ Running[1] = Client
  /\ \A task \in active : active = {task} /\ task = Running
  /\ \A task \in active : task[1] # Client =>
       outcome[Task(task[1] + 1, task[2])] # "pending"

(* No callback runs on an object that is destroyed: the destructor that    *)
(* deletes the dispatcher keeps its own members until the running task is  *)
(* over, however long the chain of owners is.                              *)
NothingDangling == \A task \in active : task[1] \notin gone /\ Dispatcher \notin gone

(* Who interrupts a load before its last callback that can notice has      *)
(* started never gets the data: for send, that is the transfer, although   *)
(* its task is on a connection of its own.                                 *)
InterruptionHeeded ==
  \A l \in Loads :
    LET last == Task(IF Via[l] = Client THEN Client ELSE Loader, l)
    IN  [](l \in interrupted /\ ~Started(last) => [](Result(l) # "value"))

(* Every load that has dispatched its request gets an answer: the data, an *)
(* error, or a broken promise if the dispatcher is destroyed.              *)
LoadAnswered == \A l \in Loads : call[l] \in Setup .. Client ~> Settled(l)
=============================================================================
