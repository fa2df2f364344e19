----------------------------- MODULE TaskQueue -----------------------------
(***************************************************************************)
(* What a dispatcher promises its clients, without locks or threads.       *)
(*                                                                         *)
(* Tasks are submitted to a queue and leave it in the order in which they  *)
(* were submitted.  One callback is active at a time.  A task leaves the   *)
(* queue when its future is settled, and a settled future never changes.   *)
(* A connection can be revoked only while none of its callbacks is active, *)
(* and no callback of a revoked connection ever becomes active again: this *)
(* is what lets the owner of a scoped_connection be captured by reference  *)
(* in the callbacks that are tied to it.                                   *)
(***************************************************************************)
EXTENDS Naturals, Sequences

CONSTANTS Tasks,    (* the tasks clients may submit                        *)
          Conns,    (* the connections tasks are tied to                   *)
          NoConn    (* the connection of a task not yet submitted          *)

VARIABLES waiting,  (* the submitted tasks that are not settled, in order  *)
          active,   (* {}, or the singleton of the task being called back  *)
          revoked,  (* connections whose scoped owner is gone              *)
          conn,     (* the connection each task was submitted with         *)
          outcome   (* how the future of each task is settled              *)

vars == <<waiting, active, revoked, conn, outcome>>

Init == /\ waiting = << >>
        /\ active = {}
        /\ revoked = {}
        /\ conn = [t \in Tasks |-> NoConn]
        /\ outcome = [t \in Tasks |-> "pending"]

(* Fault: the last task submitted is the first to start.                   *)
SubmitInFront(t, c) == /\ conn[t] = NoConn
                       /\ waiting' = <<t>> \o waiting
                       /\ conn' = [conn EXCEPT ![t] = c]
                       /\ UNCHANGED <<active, revoked, outcome>>

Submit(t, c) == /\ conn[t] = NoConn
                /\ waiting' = Append(waiting, t)
                /\ conn' = [conn EXCEPT ![t] = c]
                /\ UNCHANGED <<active, revoked, outcome>>

Settle(t, result) == /\ waiting' = Tail(waiting)
                     /\ outcome' = [outcome EXCEPT ![t] = result]
                     /\ UNCHANGED <<revoked, conn>>

Start == /\ waiting # << >>
         /\ active = {}
         /\ conn[Head(waiting)] \notin revoked
         /\ active' = {Head(waiting)}
         /\ UNCHANGED <<waiting, revoked, conn, outcome>>

Finish(result) == /\ waiting # << >>
                  /\ active = {Head(waiting)}
                  /\ active' = {}
                  /\ Settle(Head(waiting), result)

Cancel == /\ waiting # << >>
          /\ active = {}
          /\ active' = active
          /\ Settle(Head(waiting), "interrupted")

Revoke(c) == /\ \A t \in active : conn[t] # c
             /\ revoked' = revoked \cup {c}
             /\ UNCHANGED <<waiting, active, conn, outcome>>

(* Fault: the promises of a destroyed queue are not broken.                *)
DiscardSilently == active = {} /\ waiting' = << >> /\ UNCHANGED <<active, revoked, conn, outcome>>

(* The queue is destroyed: the futures of what it still holds are broken.  *)
Discard == /\ active = {}
           /\ waiting' = << >>
           /\ outcome' = [t \in Tasks |-> IF \E i \in 1 .. Len(waiting) : waiting[i] = t
                                          THEN "broken" ELSE outcome[t]]
           /\ UNCHANGED <<active, revoked, conn>>

Next == \/ \E t \in Tasks, c \in Conns : Submit(t, c)
        \/ Start
        \/ \E result \in {"value", "error", "interrupted"} : Finish(result)
        \/ Cancel
        \/ \E c \in Conns : Revoke(c)
        \/ Discard

Spec == Init /\ [][Next]_vars
=============================================================================
