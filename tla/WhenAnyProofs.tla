---------------------------- MODULE WhenAnyProofs ----------------------------
(***************************************************************************)
(* Theorems about WhenAny, for every number of futures.                    *)
(*                                                                         *)
(* The inductive invariant.  m futures are still to be dispatched, and as  *)
(* long as no subtask has called the callback in peace, size counts them   *)
(* and the subtasks in the queue.  A subtask that has got past the look at *)
(* _data->worked has _data->mutex, and nobody has succeeded before it.     *)
(***************************************************************************)
EXTENDS WhenAny, FiniteSetTheorems, SequenceTheorems, TLAPS

Left(m) ==
  /\ \A i \in Futures : Submitted(i) <=> i > m
  /\ returned => m = 0
  /\ destroyed => returned /\ waiting = << >>
  /\ ~worked /\ ~destroyed => size = m + Len(waiting)
  /\ ~worked /\ ~destroyed /\ size = 0 => promise # "pending"
  /\ worked => promise # "pending"
  /\ promise = "error" => m = 0 /\ waiting = << >>
  /\ promise = "broken" => destroyed

LockInv ==
  /\ stage = "get" => locked /\ ~worked
  /\ stage = "linger" => worked
  /\ locked => stage \in {"get", "catch"}
  /\ called # {} => worked \/ (locked /\ stage = "catch")
  /\ \E i \in Futures : called \subseteq {i}

(* The running subtask is the front one.                                   *)
FrontRuns ==
  /\ stage # "none" => active # {}
  /\ active # {} => waiting # << >> /\ active = {Head(waiting)}

LeftInv == \E m \in 0 .. N : Left(m)

AnyInv == TypeOK /\ LockInv /\ FrontRuns /\ LeftInv
-----------------------------------------------------------------------------
LEMMA AnyInit == Init => AnyInv
<1> SUFFICES ASSUME Init PROVE AnyInv
  OBVIOUS
<1>1. /\ waiting = << >> /\ active = {} /\ promise = "pending" /\ stage = "none"
      /\ conn = [i \in Futures |-> 0] /\ size = N /\ Len(waiting) = 0 /\ called = {}
      /\ returned = FALSE /\ destroyed = FALSE /\ interrupted = FALSE
      /\ worked = FALSE /\ locked = FALSE /\ void \in BOOLEAN
      /\ input = [i \in Futures |-> "pending"]
  BY DEF Init, GroupInit, Queue!Init
<1>2. N \in Nat /\ N > 0 /\ 1 \in Futures /\ N \in 0 .. N
  BY GroupAssumption DEF Futures
<1>3. TypeOK
  <2>1. waiting \in Seq(Futures) /\ active \in SUBSET Futures /\ called \in SUBSET Futures
    BY <1>1, EmptySeq
  <2>2. conn \in [Futures -> 0 .. N] /\ size \in 0 .. N
    BY <1>1, <1>2
  <2>3. input \in [Futures -> {"pending", "value", "error"}]
    BY <1>1
  <2>4. GroupTypeOK
    BY <1>1, <2>1, <2>2, <2>3 DEF GroupTypeOK
  <2> QED
    BY <1>1, <2>1, <2>2, <2>4 DEF TypeOK, Stages
<1>4. Left(N)
  BY <1>1, <1>2 DEF Left, Submitted, Futures
<1>5. LockInv /\ FrontRuns
  BY <1>1, <1>2 DEF LockInv, FrontRuns
<1> QED
  BY <1>2, <1>3, <1>4, <1>5 DEF AnyInv, LeftInv

(* The running subtask is at the front of a queue that is not destroyed.   *)
LEMMA RunningFacts ==
  ASSUME TypeOK, FrontRuns, NEW m \in 0 .. N, Left(m), stage # "none"
  PROVE  /\ waiting # << >> /\ Running \in Futures /\ active = {Head(waiting)}
         /\ Len(waiting) \in Nat /\ Len(waiting) > 0
         /\ ~destroyed /\ promise \in {"pending", "value"}
         /\ m \in Nat /\ size \in Nat
         /\ ~worked => size = m + Len(waiting)
<1>1. waiting \in Seq(Futures) /\ waiting # << >> /\ active = {Head(waiting)}
  BY DEF FrontRuns, TypeOK, GroupTypeOK
<1>2. Len(waiting) \in Nat /\ Len(waiting) > 0 /\ Running \in Futures
  BY <1>1 DEF Running
<1>3. m \in Nat /\ size \in Nat
  BY GroupAssumption DEF TypeOK
<1> QED
  BY <1>1, <1>2, <1>3 DEF Left, TypeOK, GroupTypeOK

(* The end of a subtask: after a success, or one failure more.             *)
LEMMA EndKeeps ==
  ASSUME TypeOK, FrontRuns, NEW m \in 0 .. N, Left(m), stage # "none",
         NEW result, NEW settled, End(result, settled), worked' \in BOOLEAN,
         \/ worked' /\ settled = "value" /\ size' = size
         \/ worked' /\ worked /\ settled = promise /\ size' = size
         \/ /\ ~worked' /\ ~worked /\ size' = size - 1
            /\ settled = IF size = 1 THEN "error" ELSE promise
  PROVE  /\ Left(m)' /\ FrontRuns' /\ stage' = "none"
         /\ GroupTypeOK' /\ size' \in 0 .. N
<1>1. /\ Len(waiting) \in Nat /\ Len(waiting) > 0 /\ ~destroyed
      /\ promise \in {"pending", "value"} /\ m \in Nat /\ size \in Nat
      /\ ~worked => size = m + Len(waiting)
  BY RunningFacts
<1>2. /\ waiting' = Tail(waiting) /\ active' = {} /\ conn' = conn
      /\ UNCHANGED clientVars /\ stage' = "none"
      /\ promise' = IF settled = "pending" /\ returned' /\ waiting' = << >>
                    THEN "broken" ELSE settled
  BY DEF End, Queue!Finish, Queue!Settle, Release, Goto
<1>3. waiting' \in Seq(Futures) /\ Len(waiting') = Len(waiting) - 1
  BY <1>1, <1>2 DEF TypeOK, GroupTypeOK
<1>4. waiting' = << >> <=> Len(waiting) = 1
  <2>1. waiting' = << >> <=> Len(waiting') = 0
    BY <1>3, EmptySeq
  <2>2. Len(waiting') = 0 <=> Len(waiting) = 1
    BY <1>1, <1>3
  <2> QED
    BY <2>1, <2>2
<1>5. size' \in 0 .. N
  <2>1. size \in 0 .. N /\ N \in Nat /\ (~worked => size > 0)
    BY <1>1, GroupAssumption DEF TypeOK
  <2> QED
    BY <2>1
<1>6. promise' \in {"pending", "value", "error", "broken"}
  BY <1>1, <1>2
<1>7. GroupTypeOK'
  BY <1>2, <1>3, <1>6 DEF TypeOK, GroupTypeOK, clientVars
<1>8. FrontRuns'
  BY <1>2 DEF FrontRuns
<1>9. ~worked' => size' = m + Len(waiting')
  BY <1>1, <1>3
<1>10. settled = "error" => m = 0 /\ waiting' = << >>
  <2> SUFFICES ASSUME settled = "error" PROVE m = 0 /\ Len(waiting) = 1
    BY <1>4
  <2>1. ~worked /\ size = 1
    BY <1>1
  <2>2. 1 = m + Len(waiting) /\ Len(waiting) \in Nat /\ Len(waiting) > 0 /\ m \in Nat
    BY <1>1, <2>1
  <2>3. \A a, b \in Nat : 1 = a + b /\ b > 0 => a = 0 /\ b = 1
    OBVIOUS
  <2> QED
    BY <2>2, <2>3, Zenon
<1>11. promise' # "broken"
  <2> SUFFICES ASSUME settled = "pending", returned', waiting' = << >> PROVE FALSE
    BY <1>1, <1>2
  <2>1. m = 0 /\ Len(waiting) = 1
    BY <1>2, <1>4 DEF Left, clientVars
  <2>2. ~worked
    BY <1>1 DEF Left
  <2> QED
    BY <1>1, <2>1, <2>2
<1>12. ~worked' /\ size' = 0 => promise' # "pending"
  BY <1>1, <1>2
<1>13. worked' => promise' # "pending"
  BY <1>1, <1>2 DEF Left
<1>14. promise' = "error" => m = 0 /\ waiting' = << >>
  BY <1>1, <1>2, <1>10
<1>15. Left(m)'
  BY <1>1, <1>2, <1>9, <1>11, <1>12, <1>13, <1>14 DEF Left, Submitted, clientVars
<1> QED
  BY <1>2, <1>5, <1>7, <1>8, <1>15

LEMMA AnyNext == AnyInv /\ [Next]_vars => AnyInv'
<1> SUFFICES ASSUME TypeOK, LockInv, FrontRuns, NEW m \in 0 .. N, Left(m), [Next]_vars
             PROVE  TypeOK' /\ LockInv' /\ FrontRuns' /\ LeftInv'
  BY DEF AnyInv, LeftInv
<1> USE GroupAssumption DEF dataVars, queueVars, clientVars
<1>1. ASSUME NEW i \in Futures, DispatchNext(i), UNCHANGED <<dataVars, void, called>>
      PROVE  TypeOK' /\ LockInv' /\ FrontRuns' /\ LeftInv'
  <2>1. i = m /\ m - 1 \in 0 .. N /\ m \in Nat /\ m > 0
    <3>1. i <= m /\ \A j \in i + 1 .. N : j > m
      BY <1>1 DEF DispatchNext, Left, Futures
    <3> QED
      BY <3>1 DEF Futures
  <2>2. /\ conn' = [conn EXCEPT ![i] = i] /\ waiting' = Append(waiting, i)
        /\ UNCHANGED <<active, revoked, outcome, promise, stage, void, called>>
        /\ UNCHANGED <<input, interrupted, returned, destroyed, size, worked, locked>>
    BY <1>1 DEF DispatchNext, Queue!Submit
  <2>3. TypeOK'
    BY <2>2 DEF TypeOK, GroupTypeOK, Futures
  <2>4. /\ waiting' # << >> /\ Len(waiting') = Len(waiting) + 1 /\ Len(waiting) \in Nat
        /\ waiting # << >> => Head(waiting') = Head(waiting)
    <3>1. waiting \in Seq(Futures) /\ waiting' = Append(waiting, i)
      BY <2>2 DEF TypeOK, GroupTypeOK
    <3> QED
      BY <3>1
  <2>5. \A j \in Futures : conn'[j] # 0 <=> j > m - 1
    BY <2>1, <2>2 DEF Left, Submitted, TypeOK, GroupTypeOK, Futures
  <2>6. ~worked /\ ~destroyed => size' = (m - 1) + Len(waiting')
    BY <2>1, <2>2, <2>4 DEF Left, TypeOK
  <2>7. Left(m - 1)'
    BY <2>1, <2>2, <2>4, <2>5, <2>6 DEF Left, Submitted
  <2>8. LockInv' /\ FrontRuns'
    BY <2>2, <2>4 DEF LockInv, FrontRuns
  <2> QED
    BY <2>1, <2>3, <2>7, <2>8 DEF LeftInv
<1>2. CASE Return /\ UNCHANGED <<dataVars, void, called>>
  <2>1. /\ UNCHANGED <<waiting, active, revoked, conn, outcome, input, interrupted, destroyed, stage>>
        /\ UNCHANGED <<size, worked, locked, void, called>>
        /\ ~returned /\ returned' = TRUE /\ Release(promise)
    BY <1>2 DEF Return
  <2>2. m = 0 /\ ~destroyed /\ promise # "broken"
    <3>1. m \in Futures => m > m
      BY <1>2 DEF Return, Left
    <3>2. m = 0
      BY <3>1 DEF Futures
    <3> QED
      BY <2>1, <3>2 DEF Left, TypeOK
  <2>3. promise' = promise
    <3> SUFFICES ASSUME promise = "pending", waiting = << >> PROVE FALSE
      BY <2>1 DEF Release
    <3>1. Len(waiting) = 0 /\ size \in Nat
      BY DEF TypeOK
    <3> QED
      BY <2>2, <3>1 DEF Left
  <2>4. TypeOK' /\ LockInv' /\ FrontRuns'
    BY <2>1, <2>3 DEF TypeOK, GroupTypeOK, LockInv, FrontRuns
  <2>5. Left(m)'
    BY <2>1, <2>2, <2>3 DEF Left, Submitted
  <2> QED
    BY <2>4, <2>5 DEF LeftInv
<1>3. ASSUME NEW i \in Futures, NEW r \in {"value", "error"}, SettleInput(i, r),
             UNCHANGED <<dataVars, void, called>>
      PROVE  TypeOK' /\ LockInv' /\ FrontRuns' /\ LeftInv'
  BY <1>3 DEF SettleInput, TypeOK, GroupTypeOK, LeftInv, Left, LockInv, FrontRuns, Submitted
<1>4. CASE Interrupt /\ UNCHANGED <<dataVars, void, called>>
  BY <1>4 DEF Interrupt, TypeOK, GroupTypeOK, LeftInv, Left, LockInv, FrontRuns, Submitted
<1>5. CASE DestroyDispatcher /\ UNCHANGED <<dataVars, void, called>>
  <2>1. /\ returned /\ m = 0 /\ waiting' = << >> /\ destroyed' = TRUE /\ active = {}
        /\ UNCHANGED <<conn, active, input, interrupted, returned, stage, size, worked, locked, void, called>>
        /\ Release(promise)
    BY <1>5 DEF DestroyDispatcher, Queue!Discard, Left
  <2>2. /\ promise' \in {"pending", "value", "error", "broken"}
        /\ promise # "pending" => promise' = promise
    BY <2>1 DEF Release, TypeOK, GroupTypeOK
  <2>3. TypeOK'
    BY <2>1, <2>2, EmptySeq DEF TypeOK, GroupTypeOK
  <2>4. LockInv' /\ FrontRuns'
    BY <2>1 DEF LockInv, FrontRuns
  <2>5. Left(m)'
    BY <2>1, <2>2 DEF Left, Submitted
  <2> QED
    BY <2>3, <2>4, <2>5 DEF LeftInv
<1>6. CASE Start
  <2>1. /\ active' = {Head(waiting)} /\ waiting # << >> /\ stage' = "point" /\ stage = "none"
        /\ UNCHANGED <<waiting, conn, clientVars, promise, dataVars, void, called>>
    BY <1>6 DEF Start, Begin, Goto, Queue!Start, FrontRuns
  <2>2. TypeOK'
    BY <1>6, <2>1 DEF TypeOK, GroupTypeOK, Stages, Start, Begin, Queue!Start
  <2> QED
    BY <2>1, <2>2 DEF LeftInv, Left, LockInv, FrontRuns, Submitted
<1>7. CASE (Point \/ LockData \/ Throw) /\ UNCHANGED void
  <2>1. /\ UNCHANGED <<waiting, active, conn, clientVars, promise, size, worked>>
        /\ stage # "none"
    BY <1>7 DEF Point, LockData, Throw, Callable
  <2>2. Left(m)' /\ FrontRuns'
    BY <2>1 DEF Left, FrontRuns, Submitted
  <2>3. Running \in Futures
    BY <2>1, RunningFacts
  <2>4. TypeOK'
    BY <1>7, <2>1, <2>3 DEF TypeOK, GroupTypeOK, Stages, Point, LockData, Throw, TooLate, Goto
  <2>5. LockInv'
    <3>1. CASE Point
      <4>1. ~locked /\ ~locked' /\ called' = called /\ stage' \in {"catch", "lock"} /\ (called # {} => worked)
        BY <3>1 DEF LockInv, Point, Goto
      <4> QED
        BY <2>1, <4>1 DEF LockInv
    <3>3. CASE LockData
      <4>1. /\ ~locked /\ called' = called /\ (called # {} => worked)
            /\ locked' = ~worked /\ stage' = IF worked THEN "linger" ELSE "get"
        BY <3>3 DEF LockInv, LockData, TooLate, Goto
      <4> QED
        BY <2>1, <4>1 DEF LockInv
    <3>2. CASE Throw
      <4>1. /\ stage = "get" /\ stage' = "catch" /\ locked' = locked /\ locked /\ ~worked
            /\ called = {} /\ called' \subseteq {Running}
        BY <3>2 DEF LockInv, Throw, Callable, Goto
      <4> QED
        BY <2>1, <2>3, <4>1 DEF LockInv
    <3> QED
      BY <1>7, <3>1, <3>2, <3>3
  <2> QED
    BY <2>2, <2>4, <2>5 DEF LeftInv
<1>8. CASE Linger /\ UNCHANGED void
  <2>1. /\ stage = "linger" /\ worked /\ End("value", promise)
        /\ UNCHANGED <<size, worked, locked, called, void>>
    BY <1>8 DEF Linger, LockInv
  <2>2. Left(m)' /\ FrontRuns' /\ stage' = "none" /\ GroupTypeOK'
    BY <2>1, EndKeeps DEF TypeOK
  <2>3. TypeOK' /\ LockInv'
    BY <2>1, <2>2 DEF TypeOK, LockInv, Stages
  <2> QED
    BY <2>2, <2>3 DEF LeftInv
<1>9. CASE Win /\ UNCHANGED void
  <2>1. /\ stage = "get" /\ worked' = TRUE /\ locked' = FALSE /\ End("value", "value")
        /\ called' = {Running} /\ UNCHANGED <<size, void>>
    BY <1>9 DEF Win, Callable, LockInv
  <2>2. Left(m)' /\ FrontRuns' /\ stage' = "none" /\ GroupTypeOK'
    BY <2>1, EndKeeps
  <2>3. Running \in Futures
    BY <2>1, RunningFacts
  <2>4. TypeOK' /\ LockInv'
    BY <2>1, <2>2, <2>3 DEF TypeOK, LockInv, Stages
  <2> QED
    BY <2>2, <2>4 DEF LeftInv
<1>10. CASE Catch /\ UNCHANGED void
  <2>1. /\ stage = "catch" /\ ~locked /\ UNCHANGED <<worked, locked, called, void>>
        /\ size' = (IF worked THEN size ELSE size - 1)
        /\ End("value", IF ~worked /\ size = 1 THEN "error" ELSE promise)
    BY <1>10 DEF Catch, CountFailure, LastFailure
  <2> DEFINE settled == IF ~worked /\ size = 1 THEN "error" ELSE promise
  <2>2. /\ \/ worked' /\ worked /\ settled = promise /\ size' = size
           \/ /\ ~worked' /\ ~worked /\ size' = size - 1
              /\ settled = IF size = 1 THEN "error" ELSE promise
        /\ worked' \in BOOLEAN /\ End("value", settled) /\ stage # "none"
    BY <2>1 DEF TypeOK
  <2> HIDE DEF settled
  <2>3. Left(m)' /\ FrontRuns' /\ stage' = "none" /\ GroupTypeOK' /\ size' \in 0 .. N
    BY <2>2, EndKeeps
  <2>4. TypeOK' /\ LockInv'
    BY <2>1, <2>3 DEF TypeOK, LockInv, Stages
  <2> QED
    BY <2>3, <2>4 DEF LeftInv
<1>11. CASE UNCHANGED vars
  BY <1>11 DEF vars, groupVars, TypeOK, GroupTypeOK, LeftInv, Left, LockInv, FrontRuns, Submitted
<1> QED
  BY <1>1, <1>2, <1>3, <1>4, <1>5, <1>6, <1>7, <1>8, <1>9, <1>10, <1>11
  DEF Next, Client, ClientNext, Subtask

-----------------------------------------------------------------------------
(* The counter and the mutex of the shared data keep in step with the      *)
(* queue, for any number of futures.                                       *)
THEOREM AnyInvariance == Spec => []AnyInv
BY AnyInit, AnyNext, PTL DEF Spec

(* Until a subtask succeeds, size counts the ones that have not failed.    *)
THEOREM SizeCounts == Spec => []AInv
<1>1. AnyInv => AInv
  <2> SUFFICES ASSUME TypeOK, NEW m \in 0 .. N, Left(m), ~worked, ~destroyed
               PROVE  size = Len(waiting) + Cardinality({i \in Futures : ~Submitted(i)})
    BY DEF AnyInv, LeftInv, AInv
  <2>1. {i \in Futures : ~Submitted(i)} = 1 .. m /\ m \in Nat
    BY GroupAssumption DEF Left, Futures
  <2>2. Cardinality(1 .. m) = m
    BY <2>1, FS_Interval
  <2>3. Cardinality({i \in Futures : ~Submitted(i)}) = m
    BY <2>1, <2>2
  <2>4. Len(waiting) \in Nat /\ size = m + Len(waiting)
    BY DEF Left, TypeOK, GroupTypeOK
  <2> QED
    BY <2>1, <2>3, <2>4
<1> QED
  BY <1>1, AnyInvariance, PTL

(* The callback of when_any is called for one future at most.              *)
THEOREM CalledOnce == Spec => []AtMostOneCall
<1>1. AnyInv => AtMostOneCall
  <2> SUFFICES ASSUME NEW i \in Futures, called \in SUBSET {i}
               PROVE  Cardinality(called) <= 1
    BY DEF AnyInv, LockInv, AtMostOneCall
  <2>1. IsFiniteSet({i}) /\ Cardinality({i}) = 1
    BY FS_Singleton
  <2>2. Cardinality(called) <= Cardinality({i})
    BY <2>1, FS_Subset
  <2> QED
    BY <2>1, <2>2
<1> QED
  BY <1>1, AnyInvariance, PTL

(* An exception is the result only after every future has been met.        *)
THEOREM ErrorComesLast == Spec => []ErrorIsLast
<1>1. AnyInv => ErrorIsLast
  BY DEF AnyInv, LeftInv, Left, ErrorIsLast, Futures
<1> QED
  BY <1>1, AnyInvariance, PTL

(* Only the destruction of the dispatcher breaks the promise of when_any.  *)
THEOREM ResultIsNotAbandoned == Spec => []NotAbandoned
<1>1. AnyInv => NotAbandoned
  BY DEF AnyInv, LeftInv, Left, NotAbandoned
<1> QED
  BY <1>1, AnyInvariance, PTL

-----------------------------------------------------------------------------
(* The step that throws under _data->mutex is the end of the call: the     *)
(* same thread waits in catch_exception() for a mutex that it has itself.  *)
Stuck == stage = "catch" /\ locked

(* What the invariant above does not say of the promise and of the queue.  *)
PromiseInv ==
  /\ promise = "value" => worked
  /\ locked => ~worked
  /\ returned /\ waiting = << >> => promise # "pending"
  /\ active # {} => stage # "none"
  /\ revoked = {}

LEMMA PromiseNext == AnyInv /\ PromiseInv /\ [Next]_vars => PromiseInv'
<1> SUFFICES ASSUME AnyInv, PromiseInv, [Next]_vars PROVE PromiseInv'
  OBVIOUS
<1> USE DEF dataVars, queueVars, clientVars
<1>1. ASSUME NEW i \in Futures, DispatchNext(i), UNCHANGED <<dataVars, void, called>>
      PROVE  PromiseInv'
  <2>1. /\ waiting' = Append(waiting, i)
        /\ UNCHANGED <<active, revoked, promise, stage, returned, worked, locked>>
    BY <1>1 DEF DispatchNext, Queue!Submit
  <2>2. waiting' # << >>
    BY <2>1 DEF AnyInv, TypeOK, GroupTypeOK
  <2> QED
    BY <2>1, <2>2 DEF PromiseInv
<1>2. CASE (Return \/ DestroyDispatcher) /\ UNCHANGED <<dataVars, void, called>>
  <2>1. /\ Release(promise)
        /\ UNCHANGED <<active, revoked, stage, worked, locked>>
    BY <1>2 DEF Return, DestroyDispatcher, Queue!Discard
  <2> QED
    BY <2>1 DEF PromiseInv, Release
<1>3. ASSUME NEW i \in Futures, NEW r \in {"value", "error"}, SettleInput(i, r),
             UNCHANGED <<dataVars, void, called>>
      PROVE  PromiseInv'
  BY <1>3 DEF SettleInput, PromiseInv
<1>4. CASE Interrupt /\ UNCHANGED <<dataVars, void, called>>
  BY <1>4 DEF Interrupt, PromiseInv
<1>5. CASE Start
  BY <1>5 DEF Start, Begin, Goto, Queue!Start, PromiseInv
<1>6. CASE Point \/ Throw
  <2>1. UNCHANGED <<waiting, active, revoked, promise, returned, worked, locked>>
    BY <1>6 DEF Point, Throw
  <2>2. stage' # "none"
    BY <1>6 DEF Point, Throw, Goto
  <2> QED
    BY <2>1, <2>2 DEF PromiseInv
<1>7. CASE LockData
  <2>1. UNCHANGED <<waiting, active, revoked, promise, returned, worked>> /\ locked' = ~worked
    BY <1>7 DEF LockData, TooLate
  <2>2. stage' # "none"
    BY <1>7 DEF LockData, Goto
  <2> QED
    BY <2>1, <2>2 DEF PromiseInv
<1>8. ASSUME NEW settled, End("value", settled), settled = "value" => worked', locked' => ~worked'
      PROVE  PromiseInv'
  <2>1. Release(settled) /\ active' = {} /\ revoked' = revoked
    BY <1>8 DEF End, Queue!Finish, Queue!Settle
  <2>2. /\ promise' = "value" => settled = "value"
        /\ returned' /\ waiting' = << >> => promise' # "pending"
    BY <2>1 DEF Release
  <2> QED
    BY <1>8, <2>1, <2>2 DEF PromiseInv
<1>9. CASE Linger
  BY <1>8, <1>9 DEF Linger, PromiseInv
<1>10. CASE Win
  <2>1. End("value", "value") /\ worked' = TRUE /\ locked' = FALSE
    BY <1>10 DEF Win
  <2> QED
    BY <1>8, <2>1
<1>11. CASE Catch
  <2> DEFINE settled == IF LastFailure THEN "error" ELSE promise
  <2>1. End("value", settled) /\ worked' = worked /\ locked' = locked
    BY <1>11 DEF Catch
  <2>2. settled = "value" => worked'
    BY <2>1 DEF PromiseInv
  <2> HIDE DEF settled
  <2> QED
    BY <1>8, <2>1, <2>2 DEF PromiseInv
<1>12. CASE UNCHANGED vars
  BY <1>12 DEF vars, groupVars, PromiseInv
<1> QED
  BY <1>1, <1>2, <1>3, <1>4, <1>5, <1>6, <1>7, <1>9, <1>10, <1>11, <1>12
  DEF Next, Client, ClientNext, Subtask

THEOREM PromiseInvariance == Spec => []PromiseInv
<1>1. Init => PromiseInv
  BY DEF Init, GroupInit, Queue!Init, PromiseInv
<1> QED
  BY <1>1, PromiseNext, AnyInvariance, PTL DEF Spec

(* Nothing that the client or another subtask does releases the mutex.     *)
LEMMA StuckStays == AnyInv /\ Stuck /\ [Next]_vars => Stuck'
<1> SUFFICES ASSUME AnyInv, stage = "catch", locked, [Next]_vars
             PROVE  stage' = "catch" /\ locked'
  BY DEF Stuck
<1>1. active # {}
  BY DEF AnyInv, FrontRuns
<1>2. CASE Client
  <2>1. ~DestroyDispatcher
    BY <1>1 DEF DestroyDispatcher, Queue!Discard
  <2> QED
    BY <1>2, <2>1 DEF Client, ClientNext, DispatchNext, Return, SettleInput, Interrupt, dataVars
<1>3. ~Start
  BY <1>1 DEF Start, Begin, Queue!Start
<1>4. ~Subtask
  BY DEF Subtask, Point, LockData, Linger, Win, Throw, Catch, Callable
<1>5. CASE UNCHANGED vars
  BY <1>5 DEF vars, groupVars, dataVars
<1> QED
  BY <1>2, <1>3, <1>4, <1>5 DEF Next

(* An exception under _data->mutex, whether a future's or the callback's,  *)
(* leaves the future of the call without a result for ever, for any number *)
(* of futures, also of futures that have a value: the promise is not even  *)
(* broken, because the dispatcher can no longer be destroyed.              *)
THEOREM StuckForever == Spec => [](Stuck => [](promise = "pending" /\ ~destroyed))
<1>1. AnyInv /\ PromiseInv /\ Stuck => promise = "pending" /\ ~destroyed
  <2> SUFFICES ASSUME TypeOK, FrontRuns, NEW m \in 0 .. N, Left(m), PromiseInv, Stuck
               PROVE  promise = "pending" /\ ~destroyed
    BY DEF AnyInv, LeftInv
  <2>1. waiting # << >> /\ ~destroyed
    BY DEF Stuck, FrontRuns, Left
  <2>2. promise \in {"pending", "value", "error", "broken"}
    BY DEF TypeOK, GroupTypeOK
  <2> QED
    BY <2>1, <2>2 DEF Left, PromiseInv, Stuck
<1> QED
  BY <1>1, StuckStays, AnyInvariance, PromiseInvariance, PTL DEF Spec

-----------------------------------------------------------------------------
(* The guard of a step of the call, of the dispatcher or of the subtask    *)
(* holds.                                                                  *)
GoesOn ==
  \/ \E i \in Futures : ~Submitted(i) /\ \A j \in i + 1 .. N : Submitted(j)
  \/ ~returned /\ \A i \in Futures : Submitted(i)
  \/ waiting # << >> /\ active = {} /\ conn[Head(waiting)] \notin revoked
  \/ stage = "point"
  \/ stage \in {"lock", "catch"} /\ ~locked
  \/ stage \in {"get", "linger"} /\ Met(Running)

(* Until the result is there a step can be taken, unless the subtask has   *)
(* its mutex locked twice or waits for a future that is not met: nothing   *)
(* else can keep when_any from its end.                                    *)
THEOREM OnlyAFutureIsWaitedFor ==
  Spec => [](promise = "pending" =>
               GoesOn \/ Stuck \/ (stage \in {"get", "linger"} /\ ~Met(Running)))
<1>1. AnyInv /\ PromiseInv =>
        (promise = "pending" =>
           GoesOn \/ Stuck \/ (stage \in {"get", "linger"} /\ ~Met(Running)))
  <2> SUFFICES ASSUME TypeOK, LockInv, FrontRuns, NEW m \in 0 .. N, Left(m), PromiseInv,
                      promise = "pending"
               PROVE  GoesOn \/ Stuck \/ (stage \in {"get", "linger"} /\ ~Met(Running))
    BY DEF AnyInv, LeftInv
  <2>1. CASE ~returned
    <3>1. CASE m = 0
      BY <2>1, <3>1 DEF Left, GoesOn, Futures
    <3>2. CASE m # 0
      <4>1. m \in Futures /\ ~Submitted(m) /\ \A j \in m + 1 .. N : Submitted(j)
        BY <3>2, GroupAssumption DEF Left, Futures
      <4> QED
        BY <4>1 DEF GoesOn
    <3> QED
      BY <3>1, <3>2
  <2>2. CASE returned /\ stage = "none"
    <3>1. waiting # << >> /\ active = {} /\ revoked = {}
      BY <2>2 DEF PromiseInv
    <3> QED
      BY <3>1 DEF GoesOn
  <2>3. CASE stage # "none"
    <3>1. stage \in {"point", "lock", "get", "linger", "catch"} /\ locked \in BOOLEAN
      BY <2>3 DEF TypeOK, Stages
    <3>2. stage = "lock" => ~locked
      BY DEF LockInv
    <3> QED
      BY <3>1, <3>2 DEF GoesOn, Stuck
  <2>4. returned \in BOOLEAN
    BY DEF TypeOK, GroupTypeOK
  <2> QED
    BY <2>1, <2>2, <2>3, <2>4
<1> QED
  BY <1>1, AnyInvariance, PromiseInvariance, PTL
=============================================================================
