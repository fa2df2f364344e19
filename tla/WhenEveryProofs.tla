-------------------------- MODULE WhenEveryProofs --------------------------
(***************************************************************************)
(* Theorems about WhenEvery, for every number of futures: its counters,    *)
(* its result, and what can keep it from its end.                          *)
(***************************************************************************)
EXTENDS WhenEvery, SequenceTheorems, TLAPS

LEMMA EInit == Init => EInv
<1> SUFFICES ASSUME Init PROVE EInv
  OBVIOUS
<1>1. /\ waiting = << >> /\ active = {} /\ promise = "pending"
      /\ conn = [i \in Futures |-> 0] /\ size = N /\ results = << >> /\ Len(waiting) = 0
      /\ returned = FALSE /\ destroyed = FALSE
  BY DEF Init, GroupInit, Queue!Init
<1>2. N \in Nat /\ N > 0
  BY GroupAssumption
<1>3. TypeOK
  <2>1. waiting \in Seq(Futures) /\ results \in Seq(Futures) /\ got \in Seq(Futures)
    BY <1>1, EmptySeq DEF Init
  <2>2. conn \in [Futures -> 0 .. N] /\ size \in 0 .. N /\ active \in SUBSET Futures
    BY <1>1, <1>2
  <2>3. input \in [Futures -> {"pending", "value", "error"}] /\ interrupted = FALSE /\ stage = "none"
        /\ sets = 0 /\ thrown = FALSE
    BY DEF Init, GroupInit
  <2>4. GroupTypeOK
    BY <1>1, <2>1, <2>2, <2>3 DEF GroupTypeOK
  <2>5. QED
    BY <2>1, <2>2, <2>3, <2>4 DEF TypeOK
<1>4. Remaining(N) /\ Exactly(N)
  BY <1>1, <1>2 DEF Remaining, Exactly, Submitted, Futures
<1>5. QED
  BY <1>1, <1>2, <1>3, <1>4 DEF EInv, CountInv, FrontRuns, Init, GroupInit

(* A running subtask is at the front of the queue.                         *)
LEMMA RunningFacts ==
  ASSUME TypeOK, NEW result, Queue!Finish(result)
  PROVE  /\ waiting # << >> /\ Running \in Futures
         /\ waiting' \in Seq(Futures) /\ Len(waiting) \in Nat /\ Len(waiting) > 0
         /\ Len(waiting') = Len(waiting) - 1
         /\ waiting' = << >> <=> Len(waiting) = 1
         /\ active' = {} /\ conn' = conn
<1>1. waiting \in Seq(Futures) /\ waiting # << >> /\ waiting' = Tail(waiting)
      /\ active' = {} /\ conn' = conn
  BY DEF Queue!Finish, Queue!Settle, TypeOK, GroupTypeOK
<1>2. Running \in Futures /\ waiting' \in Seq(Futures) /\ Len(waiting) \in Nat
      /\ Len(waiting) > 0 /\ Len(waiting') = Len(waiting) - 1
  BY <1>1 DEF Running
<1>3. waiting' = << >> <=> Len(waiting') = 0
  BY <1>2, EmptySeq
<1>4. QED
  BY <1>1, <1>2, <1>3

(* The end of a subtask leaves one less, and size above it if the subtask  *)
(* has taken at most one from it.                                          *)
LEMMA EndKeepsRemaining ==
  ASSUME TypeOK, NEW m \in 0 .. N, Remaining(m), NEW result, NEW settled,
         End(result, settled), size' \in Int, size' >= size - 1
  PROVE  Remaining(m)'
<1>1. /\ waiting # << >> /\ Len(waiting) \in Nat /\ Len(waiting') = Len(waiting) - 1
      /\ conn' = conn /\ UNCHANGED <<returned, destroyed>>
  BY RunningFacts DEF End, clientVars
<1>2. ~destroyed /\ size \in Int /\ m \in Int /\ size >= m + Len(waiting)
  BY <1>1, GroupAssumption DEF Remaining, TypeOK
<1>3. size' >= m + Len(waiting')
  BY <1>1, <1>2
<1>4. QED
  BY <1>1, <1>2, <1>3 DEF Remaining, Submitted

(* It keeps the count exact, if the subtask accounts for its future in one *)
(* of the two counters and settles the promise when they are equal.        *)
LEMMA EndKeepsCount ==
  ASSUME TypeOK, NEW m \in 0 .. N, Remaining(m), Exactly(m), NEW result, NEW settled,
         End(result, settled),
         size' \in Int, results' \in Seq(Futures),
         size' - Len(results') = size - Len(results) - 1,
         settled = (IF size' = Len(results') THEN "value" ELSE promise)
  PROVE  Exactly(m)'
<1>1. /\ waiting # << >> /\ Len(waiting) \in Nat /\ Len(waiting) > 0
      /\ Len(waiting') = Len(waiting) - 1
      /\ (waiting' = << >> <=> Len(waiting) = 1)
      /\ UNCHANGED <<returned, destroyed>>
      /\ promise' = IF settled = "pending" /\ returned' /\ waiting' = << >>
                    THEN "broken" ELSE settled
  BY RunningFacts DEF End, Release, clientVars
<1>2. /\ ~destroyed /\ promise # "value" /\ promise # "broken"
      /\ size = Len(results) + m + Len(waiting)
  BY <1>1 DEF Remaining, Exactly
<1>3. /\ Len(results) \in Nat /\ Len(results') \in Nat /\ size \in Int /\ m \in Nat
      /\ N \in Nat
  BY GroupAssumption DEF TypeOK
<1>4. size' = Len(results') + m + Len(waiting')
  BY <1>1, <1>2, <1>3
<1>5. size' = Len(results') <=> m = 0 /\ waiting' = << >>
  BY <1>1, <1>3, <1>4
<1>6. promise' = "value" <=> m = 0 /\ waiting' = << >>
  BY <1>1, <1>2, <1>5
<1>7. promise' # "broken"
  BY <1>1, <1>2, <1>5 DEF Remaining
<1>8. QED
  BY <1>1, <1>2, <1>4, <1>6, <1>7 DEF Exactly

(* The running subtask stays the front one.                                *)
LEMMA FrontNext == TypeOK /\ FrontRuns /\ [Next]_vars => FrontRuns'
<1> SUFFICES ASSUME TypeOK, FrontRuns, [Next]_vars
             PROVE  FrontRuns'
  OBVIOUS
<1> USE DEF queueVars, clientVars, dataVars
<1>1. ASSUME NEW i \in Futures, DispatchNext(i)
      PROVE  FrontRuns'
  <2>1. waiting \in Seq(Futures) /\ waiting' = Append(waiting, i)
        /\ UNCHANGED <<active, stage>>
    BY <1>1 DEF DispatchNext, Queue!Submit, TypeOK, GroupTypeOK
  <2>2. waiting' # << >> /\ (waiting # << >> => Head(waiting') = Head(waiting))
    BY <2>1
  <2>3. QED
    BY <2>1, <2>2 DEF FrontRuns
<1>2. CASE Return \/ Interrupt \/ \E i \in Futures, r \in {"value", "error"} : SettleInput(i, r)
  BY <1>2 DEF Return, Interrupt, SettleInput, FrontRuns
<1>3. CASE DestroyDispatcher
  BY <1>3 DEF DestroyDispatcher, Queue!Discard, FrontRuns
<1>4. CASE Start
  BY <1>4 DEF Start, Begin, Queue!Start, FrontRuns
<1>5. CASE Point \/ GetThrow \/ PushThrow
  <2>1. UNCHANGED <<waiting, active>> /\ stage # "none"
    BY <1>5 DEF Store, Point, GetThrow, PushThrow
  <2>2. QED
    BY <2>1 DEF FrontRuns
<1>6. ASSUME NEW result, NEW settled, End(result, settled)
      PROVE  FrontRuns'
  BY <1>6 DEF End, Goto, Queue!Finish, FrontRuns
<1>7. CASE Push \/ Catch \/ CatchThrow
  <2>1. \E result, settled \in {"value", "error", promise} : End(result, settled)
    BY <1>7 DEF Store, CountFailure, Push, Catch, CatchThrow, Step, Complete
  <2>2. QED
    BY <2>1, <1>6
<1>8. CASE UNCHANGED vars
  BY <1>8 DEF vars, groupVars, FrontRuns
<1>9. QED
  BY <1>1, <1>2, <1>3, <1>4, <1>5, <1>7, <1>8 DEF Next, Client, ClientNext, Subtask

LEMMA ENext == EInv /\ [Next]_vars => EInv'
<1> SUFFICES ASSUME TypeOK, FrontRuns, NEW m \in 0 .. N, Remaining(m),
                    ~thrown => Exactly(m), [Next]_vars
             PROVE  TypeOK' /\ CountInv'
  BY FrontNext DEF EInv, CountInv
<1> USE GroupAssumption DEF dataVars, queueVars, clientVars
<1>1. ASSUME NEW i \in Futures, DispatchNext(i), UNCHANGED dataVars
      PROVE  TypeOK' /\ CountInv'
  <2>1. i = m /\ m - 1 \in 0 .. N
    <3>1. i <= m /\ \A j \in i + 1 .. N : j > m
      BY <1>1 DEF DispatchNext, Remaining, Futures
    <3>2. QED
      BY <3>1 DEF Futures
  <2>2. /\ conn' = [conn EXCEPT ![i] = i] /\ waiting' = Append(waiting, i)
        /\ UNCHANGED <<active, revoked, outcome, promise, stage>>
        /\ UNCHANGED <<input, interrupted, returned, destroyed, size, results, got, sets, thrown>>
    BY <1>1 DEF DispatchNext, Queue!Submit
  <2>3. TypeOK'
    BY <2>2 DEF TypeOK, GroupTypeOK, Futures
  <2>4. /\ ~returned /\ ~destroyed /\ m \in Nat /\ m > 0
        /\ ~thrown => promise # "value"
    BY <2>1 DEF Remaining, Exactly
  <2>5. waiting' # << >> /\ Len(waiting') = Len(waiting) + 1 /\ Len(waiting) \in Nat
    <3>1. waiting \in Seq(Futures) /\ waiting' = Append(waiting, i)
      BY <2>2 DEF TypeOK, GroupTypeOK
    <3>2. QED
      BY <3>1
  <2>6. \A j \in Futures : conn'[j] # 0 <=> j > m - 1
    BY <2>1, <2>2 DEF Remaining, Submitted, TypeOK, GroupTypeOK, Futures
  <2>7. size' >= (m - 1) + Len(waiting')
    BY <2>2, <2>4, <2>5 DEF Remaining, TypeOK
  <2>8. ~thrown => size' = Len(results') + (m - 1) + Len(waiting')
    BY <2>2, <2>4, <2>5 DEF Remaining, Exactly, TypeOK
  <2>9. Remaining(m - 1)'
    BY <2>1, <2>2, <2>4, <2>5, <2>6, <2>7 DEF Remaining, Submitted
  <2>10. ~thrown' => Exactly(m - 1)'
    BY <2>2, <2>4, <2>5, <2>8 DEF Exactly
  <2>11. QED
    BY <2>1, <2>3, <2>9, <2>10 DEF CountInv
<1>2. CASE Return /\ UNCHANGED dataVars
  <2>1. m = 0
    <3>1. m \in Futures => m > m
      BY <1>2 DEF Return, Remaining
    <3>2. QED
      BY <3>1 DEF Futures
  <2>2. QED
    BY <1>2, <2>1
    DEF Return, Release, Remaining, Exactly, Submitted, CountInv, TypeOK, GroupTypeOK, Futures
<1>3. ASSUME NEW i \in Futures, NEW r \in {"value", "error"}, SettleInput(i, r),
             UNCHANGED dataVars
      PROVE  TypeOK' /\ CountInv'
  BY <1>3 DEF SettleInput, TypeOK, GroupTypeOK, CountInv, Remaining, Exactly, Submitted
<1>4. CASE Interrupt /\ UNCHANGED dataVars
  BY <1>4 DEF Interrupt, TypeOK, GroupTypeOK, CountInv, Remaining, Exactly, Submitted
<1>5. CASE DestroyDispatcher /\ UNCHANGED dataVars
  <2>1. /\ returned /\ m = 0 /\ waiting' = << >> /\ destroyed' /\ conn' = conn
        /\ UNCHANGED <<active, input, interrupted, returned, stage, size, results, got, sets, thrown>>
    BY <1>5 DEF DestroyDispatcher, Queue!Discard, Remaining
  <2>2. promise' \in {"pending", "value", "error", "broken"}
    BY <1>5 DEF DestroyDispatcher, Release, TypeOK, GroupTypeOK
  <2>3. TypeOK'
    BY <2>1, <2>2, EmptySeq DEF TypeOK, GroupTypeOK
  <2>4. QED
    BY <2>1, <2>2, <2>3 DEF Remaining, Exactly, CountInv, Submitted
<1>6. CASE Start
  <2>1. /\ active' = {Head(waiting)} /\ waiting # << >> /\ stage' = "point"
        /\ UNCHANGED <<waiting, revoked, conn, outcome, clientVars, promise, dataVars>>
    BY <1>6 DEF Start, Begin, Goto, Queue!Start
  <2>2. TypeOK'
    BY <2>1 DEF TypeOK, GroupTypeOK
  <2>3. QED
    BY <2>1, <2>2 DEF CountInv, Remaining, Exactly, Submitted
<1>7. CASE Point \/ GetThrow
  <2>1. /\ UNCHANGED <<waiting, active, conn, clientVars, promise, dataVars>>
        /\ stage' \in {"get", "catch"}
    BY <1>7 DEF Point, GetThrow, Goto
  <2>2. TypeOK'
    BY <2>1 DEF TypeOK, GroupTypeOK
  <2>3. QED
    BY <2>1, <2>2 DEF CountInv, Remaining, Exactly, Submitted
<1>8. ASSUME NEW n, n = size', NEW rs \in Seq(Futures), rs = results', n \in 0 .. N,
             Step(n, rs), n >= size - 1,
             ~thrown => n - Len(rs) = size - Len(results) - 1
      PROVE  TypeOK' /\ CountInv'
  <2> DEFINE settled == IF n = Len(rs) THEN "value" ELSE promise
  <2>1. End("value", settled)
    BY <1>8 DEF Step, Complete
  <2>2. Remaining(m)' /\ (~thrown' => Exactly(m)')
    <3>1. /\ size' \in Int /\ thrown' = thrown /\ size \in Int
          /\ Len(results) \in Nat /\ Len(rs) \in Nat
      BY <1>8 DEF Step, Complete, TypeOK
    <3>2. QED
      BY <1>8, <2>1, <3>1, EndKeepsRemaining, EndKeepsCount
  <2>3. /\ waiting' \in Seq(Futures) /\ active' = {} /\ conn' = conn
        /\ UNCHANGED clientVars /\ stage' = "none"
        /\ promise' \in {"pending", "value", "error", "broken"}
    BY <2>1, RunningFacts DEF End, Release, Goto, TypeOK, GroupTypeOK
  <2>4. got' \in Seq(Futures) /\ sets' \in Nat /\ thrown' \in BOOLEAN
    BY <1>8 DEF Step, Complete, TypeOK
  <2>5. TypeOK'
    BY <1>8, <2>3, <2>4 DEF TypeOK, GroupTypeOK
  <2>6. QED
    BY <2>2, <2>5 DEF CountInv
<1>9. CASE Push
  <2>1. End("value", "value") \/ End("value", promise)
    BY <1>9 DEF Store, Push, Step, Complete
  <2>2. Running \in Futures
    BY <2>1, RunningFacts DEF End
  <2>3. results' \in Seq(Futures) /\ Len(results') = Len(results) + 1 /\ Len(results) \in Nat
    BY <1>9, <2>2 DEF Store, Push, TypeOK
  <2>4. size' = size /\ size \in 0 .. N /\ Step(size', results')
    BY <1>9 DEF Store, Push, TypeOK
  <2>5. size' >= size - 1 /\ size' - Len(results') = size - Len(results) - 1
    BY <2>3, <2>4
  <2>6. QED
    BY <1>8, <2>3, <2>4, <2>5
<1>10. CASE Catch
  <2>1. End("value", "value") \/ End("value", promise)
    BY <1>10 DEF CountFailure, Catch, Step, Complete
  <2>2. Len(waiting) > 0 /\ Len(waiting) \in Nat /\ waiting # << >>
    BY <2>1, RunningFacts DEF End
  <2>3. size \in 0 .. N /\ size > 0 /\ Len(results) \in Nat
    BY <2>2 DEF Remaining, TypeOK
  <2>4. size' = size - 1 /\ size' \in 0 .. N /\ results' = results /\ Step(size', results')
    BY <1>10, <2>3 DEF CountFailure, Catch
  <2>5. results' \in Seq(Futures)
    BY <2>4 DEF TypeOK
  <2>6. size' - Len(results') = size - Len(results) - 1
    BY <2>3, <2>4
  <2>7. QED
    BY <1>8, <2>4, <2>5, <2>6
<1>11. CASE PushThrow
  <2>1. /\ UNCHANGED <<waiting, active, conn, clientVars, promise, size, got, sets>>
        /\ stage' = "catch" /\ thrown' = TRUE /\ results' = Append(results, Running)
    BY <1>11 DEF Store, PushThrow, Goto
  <2>2. Running \in Futures
    BY <1>11 DEF Store, PushThrow, FrontRuns, TypeOK, GroupTypeOK, Running
  <2>3. results' \in Seq(Futures)
    BY <2>1, <2>2 DEF TypeOK
  <2>4. TypeOK'
    BY <2>1, <2>3 DEF TypeOK, GroupTypeOK
  <2>5. QED
    BY <2>1, <2>4 DEF CountInv, Remaining, Submitted
<1>12. CASE CatchThrow
  <2>1. /\ End("error", promise) /\ size' = size - 1 /\ thrown' = TRUE
        /\ UNCHANGED <<results, got, sets>>
    BY <1>12 DEF CountFailure, CatchThrow
  <2>2. /\ waiting # << >> /\ Len(waiting) \in Nat /\ Len(waiting) > 0
        /\ waiting' \in Seq(Futures) /\ active' = {} /\ conn' = conn
        /\ UNCHANGED clientVars /\ stage' = "none"
        /\ promise' \in {"pending", "value", "error", "broken"}
    BY <2>1, RunningFacts DEF End, Release, Goto, TypeOK, GroupTypeOK
  <2>3. size' \in 0 .. N /\ size' \in Int /\ size' >= size - 1
    BY <2>1, <2>2 DEF Remaining, TypeOK
  <2>4. Remaining(m)'
    BY <2>1, <2>3, EndKeepsRemaining
  <2>5. TypeOK'
    BY <2>1, <2>2, <2>3 DEF TypeOK, GroupTypeOK
  <2>6. QED
    BY <2>1, <2>4, <2>5 DEF CountInv
<1>13. CASE UNCHANGED vars
  BY <1>13 DEF vars, groupVars, TypeOK, GroupTypeOK, CountInv, Remaining, Exactly, Submitted
<1>14. QED
  BY <1>1, <1>2, <1>3, <1>4, <1>5, <1>6, <1>7, <1>9, <1>10, <1>11, <1>12, <1>13
  DEF Next, Client, ClientNext, Subtask

(* The worker's counters tell what is left of the call: until the callback *)
(* throws, their difference is the number of futures dispatched or to be   *)
(* dispatched, and afterwards size is still no less than it.               *)
THEOREM Counting == Spec => []EInv
<1>1. Init => EInv
  BY EInit
<1>2. EInv /\ [Next]_vars => EInv'
  BY ENext
<1>3. QED
  BY <1>1, <1>2, PTL DEF Spec

(* As long as the callback does not throw, the result comes after every    *)
(* future of the list was met.                                             *)
THEOREM ResultComesLast == Spec => []MetUnlessThrown
<1>1. EInv => MetUnlessThrown
  BY DEF EInv, CountInv, Remaining, Exactly, MetUnlessThrown, EveryFutureMet, Futures
<1>2. QED
  BY <1>1, Counting, PTL

(* As long as the callback does not throw, only the destruction of the     *)
(* dispatcher can break the promise of when_every.                         *)
THEOREM ResultComes == Spec => []NotAbandoned
<1>1. EInv => NotAbandoned
  BY DEF EInv, CountInv, Remaining, Exactly, NotAbandoned
<1>2. QED
  BY <1>1, Counting, PTL

-----------------------------------------------------------------------------
(* What has been set, and what the results are.                            *)
SetInv == sets = 0 \/ (sets = 1 /\ size <= Len(results))

Descending(seq) == \A i, j \in 1 .. Len(seq) : i < j => seq[i] > seq[j]
AllValues(seq) == \A i \in 1 .. Len(seq) : input[seq[i]] = "value"

(* The results are of futures whose subtasks are over, or about to be: the *)
(* queue has the futures below them, in the same order.                    *)
OrderInv ==
  /\ Descending(results) /\ AllValues(results)
  /\ Descending(got) /\ AllValues(got)
  /\ Descending(waiting)
  /\ \A i \in 1 .. Len(waiting) : Submitted(waiting[i])
  /\ \A i \in 1 .. Len(results) : Submitted(results[i])
  /\ \A i \in 1 .. Len(results), k \in 1 .. Len(waiting) :
       k > 1 \/ stage # "catch" => results[i] > waiting[k]

(* Of a future whose subtask is over everything is known.                  *)
Known(i, seq) ==
  /\ input[i] # "pending"
  /\ input[i] = "value" => \E j \in 1 .. Len(seq) : seq[j] = i

DoneInv ==
  ~interrupted /\ ~thrown =>
    /\ ~destroyed => \A i \in Futures :
         Submitted(i) /\ (\A k \in 1 .. Len(waiting) : waiting[k] # i) => Known(i, results)
    /\ stage = "catch" => input[Running] = "error"
    /\ promise = "value" => \A i \in Futures : Known(i, got)

RInv == EInv /\ SetInv /\ OrderInv /\ DoneInv

LEMMA SetNext ==
  ASSUME EInv, SetInv, [Next]_vars
  PROVE  SetInv'
<1> USE DEF queueVars, clientVars, dataVars
<1>1. size \in Nat /\ Len(results) \in Nat /\ results \in Seq(Futures) /\ N \in Nat
  BY GroupAssumption DEF EInv, TypeOK
<1>2. CASE UNCHANGED <<sets, size, results>>
  BY <1>2 DEF SetInv
<1>3. CASE Push \/ PushThrow
  <2>1. results' = Append(results, Running) /\ size' = size
    BY <1>3 DEF Push, PushThrow, Store
  <2>2. Running \in Futures
    BY <1>3 DEF Push, PushThrow, EInv, TypeOK, GroupTypeOK, FrontRuns, Running
  <2>3. Len(results') = Len(results) + 1
    BY <1>1, <2>1, <2>2
  <2>4. sets' = sets \/ (sets' = sets + 1 /\ size = Len(results'))
    BY <1>3 DEF Push, PushThrow, Step, Complete
  <2> QED
    BY <1>1, <2>1, <2>3, <2>4 DEF SetInv
<1>4. CASE Catch \/ CatchThrow
  <2>1. /\ size' = size - 1 /\ results' = results
        /\ sets' = sets \/ (sets' = sets + 1 /\ size' = Len(results))
    BY <1>4 DEF Catch, CatchThrow, CountFailure, Step, Complete
  <2> QED
    BY <1>1, <2>1 DEF SetInv
<1>5. CASE ~(Push \/ PushThrow \/ Catch \/ CatchThrow)
  <2>1. UNCHANGED <<sets, size, results>>
    BY <1>5 DEF Next, Client, Start, Subtask, Point, GetThrow, vars
  <2> QED
    BY <1>2, <2>1
<1> QED
  BY <1>3, <1>4, <1>5

LEMMA AppendDescending ==
  ASSUME NEW seq \in Seq(Futures), NEW e \in Futures, Descending(seq),
         \A i \in 1 .. Len(seq) : seq[i] > e
  PROVE  Descending(Append(seq, e))
<1>1. /\ Len(seq) \in Nat /\ Len(Append(seq, e)) = Len(seq) + 1
      /\ Append(seq, e)[Len(seq) + 1] = e
      /\ \A i \in 1 .. Len(seq) : Append(seq, e)[i] = seq[i]
  OBVIOUS
<1> QED
  BY <1>1 DEF Descending

LEMMA TailDescending ==
  ASSUME NEW seq \in Seq(Futures), seq # << >>, Descending(seq)
  PROVE  Descending(Tail(seq))
<1>1. /\ Len(seq) \in Nat /\ Len(Tail(seq)) = Len(seq) - 1
      /\ \A i \in 1 .. Len(seq) - 1 : Tail(seq)[i] = seq[i + 1]
  OBVIOUS
<1> QED
  BY <1>1 DEF Descending

(* The result of the running subtask fits behind the others.               *)
LEMMA StoreKeepsOrder ==
  ASSUME EInv, OrderInv, stage = "get", input[Running] = "value", Store
  PROVE  /\ Running \in Futures /\ results' = Append(results, Running)
         /\ Descending(results') /\ AllValues(results')
         /\ \A i \in 1 .. Len(results') : Submitted(results'[i])
         /\ \A i \in 1 .. Len(results'), k \in 2 .. Len(waiting) : results'[i] > waiting[k]
<1>1. /\ waiting \in Seq(Futures) /\ waiting # << >> /\ results \in Seq(Futures)
      /\ results' = Append(results, Running)
  BY DEF EInv, TypeOK, GroupTypeOK, FrontRuns, Store
<1>2. /\ Running = waiting[1] /\ Running \in Futures /\ 1 \in 1 .. Len(waiting)
      /\ Len(waiting) \in Nat
  BY <1>1 DEF Running
<1>3. /\ Len(results) \in Nat /\ Len(results') = Len(results) + 1
      /\ results'[Len(results) + 1] = Running
      /\ \A i \in 1 .. Len(results) : results'[i] = results[i]
  BY <1>1, <1>2
<1>4. \A i \in 1 .. Len(results), k \in 1 .. Len(waiting) : results[i] > waiting[k]
  BY DEF OrderInv
<1>5. Descending(results')
  BY <1>1, <1>2, <1>4, AppendDescending DEF OrderInv
<1>6. AllValues(results')
  BY <1>3 DEF OrderInv, AllValues
<1>7. \A i \in 1 .. Len(results') : Submitted(results'[i])
  BY <1>2, <1>3 DEF OrderInv
<1>8. \A k \in 2 .. Len(waiting) : Running > waiting[k]
  BY <1>2 DEF OrderInv, Descending
<1>9. \A i \in 1 .. Len(results'), k \in 2 .. Len(waiting) : results'[i] > waiting[k]
  BY <1>2, <1>3, <1>4, <1>8
<1> QED
  BY <1>1, <1>2, <1>5, <1>6, <1>7, <1>9

(* The end of a subtask leaves the futures behind the front.               *)
LEMMA EndKeepsOrder ==
  ASSUME EInv, OrderInv, NEW result, NEW settled, End(result, settled),
         results' \in Seq(Futures), Descending(results'), AllValues(results'),
         \A i \in 1 .. Len(results') : Submitted(results'[i]),
         \A i \in 1 .. Len(results'), k \in 2 .. Len(waiting) : results'[i] > waiting[k],
         got' \in {got, results'}
  PROVE  OrderInv'
<1>1. /\ waiting \in Seq(Futures) /\ waiting # << >> /\ waiting' = Tail(waiting)
      /\ conn' = conn /\ input' = input
  BY DEF EInv, TypeOK, GroupTypeOK, End, Queue!Finish, Queue!Settle, clientVars
<1>2. /\ Len(waiting) \in Nat /\ Len(waiting') = Len(waiting) - 1
      /\ \A k \in 1 .. Len(waiting') : waiting'[k] = waiting[k + 1] /\ k + 1 \in 2 .. Len(waiting)
  BY <1>1
<1>3. Descending(waiting')
  BY <1>1, TailDescending DEF OrderInv
<1>4. \A i \in 1 .. Len(waiting') : conn'[waiting'[i]] # 0
  BY <1>1, <1>2 DEF OrderInv, Submitted
<1>5. \A i \in 1 .. Len(results'), k \in 1 .. Len(waiting') : results'[i] > waiting'[k]
  BY <1>2
<1>6. AllValues(results)' /\ Descending(results)'
  BY <1>1 DEF AllValues, Descending
<1>7. AllValues(got)' /\ Descending(got)'
  BY <1>1 DEF OrderInv, AllValues, Descending
<1>8. \A i \in 1 .. Len(results') : conn'[results'[i]] # 0
  BY <1>1 DEF Submitted
<1> QED
  BY <1>3, <1>4, <1>5, <1>6, <1>7, <1>8 DEF OrderInv, Submitted, Descending, AllValues

LEMMA OrderNext ==
  ASSUME EInv, OrderInv, [Next]_vars
  PROVE  OrderInv'
<1> USE DEF queueVars, clientVars, dataVars
<1>1. /\ waiting \in Seq(Futures) /\ results \in Seq(Futures) /\ got \in Seq(Futures)
      /\ FrontRuns
  BY DEF EInv, TypeOK, GroupTypeOK
<1>2. ASSUME NEW i \in Futures, DispatchNext(i), UNCHANGED dataVars
      PROVE  OrderInv'
  <2>1. /\ conn' = [conn EXCEPT ![i] = i] /\ waiting' = Append(waiting, i)
        /\ UNCHANGED <<input, stage, results, got>> /\ ~Submitted(i) /\ i # 0
    BY <1>2 DEF DispatchNext, Queue!Submit, Futures
  <2>2. \A j \in Futures : Submitted(j) => j > i
    BY <2>1, GroupAssumption DEF EInv, CountInv, Remaining, Futures
  <2>3. \A j \in Futures : Submitted(j) => conn'[j] # 0
    BY <2>1 DEF Submitted, EInv, TypeOK, GroupTypeOK
  <2>4. \A k \in 1 .. Len(waiting) : waiting[k] \in Futures /\ waiting[k] > i
    BY <1>1, <2>2 DEF OrderInv
  <2>5. Descending(waiting')
    BY <1>1, <2>1, <2>4, AppendDescending DEF OrderInv
  <2>6. /\ Len(waiting) \in Nat /\ Len(waiting') = Len(waiting) + 1
        /\ waiting'[Len(waiting) + 1] = i
        /\ \A k \in 1 .. Len(waiting) : waiting'[k] = waiting[k]
    BY <1>1, <2>1
  <2>7. conn'[i] # 0
    BY <2>1 DEF EInv, TypeOK, GroupTypeOK
  <2>8. \A k \in 1 .. Len(waiting') : conn'[waiting'[k]] # 0
    BY <2>3, <2>4, <2>6, <2>7 DEF OrderInv
  <2>9. \A j \in 1 .. Len(results) : results[j] > i /\ conn'[results[j]] # 0
    BY <1>1, <2>2, <2>3 DEF OrderInv
  <2>10. \A j \in 1 .. Len(results), k \in 1 .. Len(waiting') :
           k > 1 \/ stage # "catch" => results[j] > waiting'[k]
    BY <2>6, <2>9 DEF OrderInv
  <2> QED
    BY <2>1, <2>5, <2>8, <2>9, <2>10 DEF OrderInv, Submitted, Descending, AllValues
<1>3. ASSUME NEW i \in Futures, NEW r, SettleInput(i, r), UNCHANGED dataVars
      PROVE  OrderInv'
  <2>1. /\ UNCHANGED <<waiting, conn, stage, results, got>>
        /\ input[i] = "pending" /\ input' = [input EXCEPT ![i] = r]
    BY <1>3 DEF SettleInput
  <2>2. \A j \in Futures : input[j] = "value" => input'[j] = "value"
    BY <2>1 DEF EInv, TypeOK, GroupTypeOK
  <2>3. AllValues(results)' /\ AllValues(got)'
    BY <1>1, <2>1, <2>2 DEF OrderInv, AllValues
  <2> QED
    BY <2>1, <2>3 DEF OrderInv, Descending, AllValues, Submitted
<1>4. CASE (Return \/ Interrupt) /\ UNCHANGED dataVars
  BY <1>4 DEF Return, Interrupt, OrderInv, Descending, AllValues, Submitted
<1>5. CASE DestroyDispatcher /\ UNCHANGED dataVars
  <2>1. waiting' = << >> /\ Len(waiting') = 0 /\ UNCHANGED <<conn, input, stage, results, got>>
    BY <1>5 DEF DestroyDispatcher, Queue!Discard
  <2> QED
    BY <2>1 DEF OrderInv, Descending, AllValues, Submitted
<1>6. CASE Start \/ Point \/ GetThrow
  <2>1. UNCHANGED <<waiting, conn, input, results, got>> /\ stage # "catch"
    BY <1>1, <1>6 DEF Start, Begin, Queue!Start, Point, GetThrow, FrontRuns
  <2> QED
    BY <2>1 DEF OrderInv, Descending, AllValues, Submitted
<1>7. CASE Push
  <2>1. /\ stage = "get" /\ input[Running] = "value" /\ Store /\ got' \in {got, results'}
        /\ End("value", "value") \/ End("value", promise)
    BY <1>7 DEF Push, Step
  <2>2. results' \in Seq(Futures)
    BY <1>1, <2>1, StoreKeepsOrder
  <2> QED
    BY <2>1, <2>2, StoreKeepsOrder, EndKeepsOrder
<1>8. CASE PushThrow
  <2>1. /\ stage = "get" /\ input[Running] = "value" /\ Store /\ stage' = "catch"
        /\ UNCHANGED <<waiting, conn, input, got>>
    BY <1>8 DEF PushThrow, Goto
  <2>2. /\ Descending(results') /\ AllValues(results')
        /\ \A i \in 1 .. Len(results') : Submitted(results'[i])
        /\ \A i \in 1 .. Len(results'), k \in 2 .. Len(waiting) : results'[i] > waiting[k]
    BY <2>1, StoreKeepsOrder
  <2>3. Len(waiting) \in Nat
    BY <1>1
  <2>4. \A i \in 1 .. Len(results'), k \in 1 .. Len(waiting) : k > 1 => results'[i] > waiting[k]
    BY <2>2, <2>3
  <2> QED
    BY <2>1, <2>2, <2>4 DEF OrderInv, Descending, AllValues, Submitted
<1>9. CASE Catch \/ CatchThrow
  <2>1. /\ results' = results /\ got' \in {got, results'}
        /\ \/ End("value", "value") \/ End("value", promise)
           \/ End("error", promise)
    BY <1>9 DEF Catch, CatchThrow, Step
  <2>2. /\ Descending(results') /\ AllValues(results')
        /\ \A i \in 1 .. Len(results') : Submitted(results'[i])
        /\ \A i \in 1 .. Len(results'), k \in 2 .. Len(waiting) : results'[i] > waiting[k]
    BY <1>1, <2>1 DEF OrderInv
  <2> QED
    BY <1>1, <2>1, <2>2, EndKeepsOrder
<1>10. CASE UNCHANGED vars
  BY <1>10 DEF vars, groupVars, OrderInv, Descending, AllValues, Submitted
<1> QED
  BY <1>2, <1>3, <1>4, <1>5, <1>6, <1>7, <1>8, <1>9, <1>10
  DEF Next, Client, ClientNext, Subtask

(* The subtask that ends leaves the queue, and is known.                   *)
LEMMA EndKeepsKnown ==
  ASSUME EInv, OrderInv, DoneInv, NEW result, NEW settled, End(result, settled),
         ~interrupted, ~thrown,
         \A i \in Futures : Known(i, results) => Known(i, results)',
         NEW f, f = Running, Known(f, results)'
  PROVE  \A i \in Futures :
           conn'[i] # 0 /\ (\A k \in 1 .. Len(waiting') : waiting'[k] # i) => Known(i, results)'
<1> SUFFICES ASSUME NEW i \in Futures, conn'[i] # 0,
                    \A k \in 1 .. Len(waiting') : waiting'[k] # i, ~Known(i, results)'
             PROVE  FALSE
  OBVIOUS
<1>1. /\ waiting \in Seq(Futures) /\ waiting # << >> /\ waiting' = Tail(waiting) /\ conn' = conn
      /\ ~destroyed
  BY DEF EInv, TypeOK, GroupTypeOK, CountInv, Remaining, End, Queue!Finish, Queue!Settle
<1>2. /\ Len(waiting) \in Nat /\ Len(waiting') = Len(waiting) - 1 /\ Running = waiting[1]
      /\ \A k \in 1 .. Len(waiting') : waiting'[k] = waiting[k + 1]
  BY <1>1 DEF Running
<1>3. PICK k \in 1 .. Len(waiting) : waiting[k] = i
  <2>1. ~Known(i, results) /\ Submitted(i)
    BY <1>1 DEF Submitted
  <2> QED
    BY <1>1, <2>1 DEF DoneInv
<1>4. k # 1
  <2>1. i # f
    OBVIOUS
  <2> QED
    BY <1>2, <1>3, <2>1
<1>5. k - 1 \in 1 .. Len(waiting') /\ waiting'[k - 1] = waiting[k]
  BY <1>2, <1>4
<1> QED
  BY <1>3, <1>5

LEMMA DoneNext ==
  ASSUME EInv, OrderInv, DoneInv, [Next]_vars, EInv'
  PROVE  DoneInv'
<1> USE DEF queueVars, clientVars, dataVars
<1> SUFFICES ASSUME ~interrupted', ~thrown'
             PROVE  /\ ~destroyed' => \A i \in Futures :
                         conn'[i] # 0 /\ (\A k \in 1 .. Len(waiting') : waiting'[k] # i) =>
                           Known(i, results)'
                    /\ stage' = "catch" => input'[Head(waiting')] = "error"
                    /\ promise' = "value" => \A i \in Futures : Known(i, got)'
  BY DEF DoneInv, Submitted, Running
<1>1. /\ waiting \in Seq(Futures) /\ results \in Seq(Futures) /\ got \in Seq(Futures)
      /\ FrontRuns
      /\ conn \in [Futures -> 0 .. N] /\ input \in [Futures -> {"pending", "value", "error"}]
  BY DEF EInv, TypeOK, GroupTypeOK
<1> DEFINE Goal == /\ ~destroyed' => \A i \in Futures :
                         conn'[i] # 0 /\ (\A k \in 1 .. Len(waiting') : waiting'[k] # i) =>
                           Known(i, results)'
                   /\ stage' = "catch" => input'[Head(waiting')] = "error"
                   /\ promise' = "value" => \A i \in Futures : Known(i, got)'
<1> HIDE DEF Goal
<1>2. ASSUME NEW i \in Futures, DispatchNext(i), UNCHANGED dataVars
      PROVE  Goal
  <2>1. /\ conn' = [conn EXCEPT ![i] = i] /\ waiting' = Append(waiting, i)
        /\ UNCHANGED <<input, interrupted, destroyed, stage, promise, results, got, thrown>>
    BY <1>2 DEF DispatchNext, Queue!Submit
  <2>2. /\ Len(waiting) \in Nat /\ Len(waiting') = Len(waiting) + 1
        /\ waiting'[Len(waiting) + 1] = i
        /\ \A k \in 1 .. Len(waiting) : waiting'[k] = waiting[k]
        /\ waiting # << >> => Head(waiting') = Head(waiting)
    BY <1>1, <2>1
  <2>3. ASSUME NEW j \in Futures, conn'[j] # 0, \A k \in 1 .. Len(waiting') : waiting'[k] # j,
               ~destroyed
        PROVE  Known(j, results)'
    <3>1. j # i /\ \A k \in 1 .. Len(waiting) : waiting[k] # j
      BY <2>2, <2>3
    <3>2. Submitted(j)
      BY <1>1, <2>1, <2>3, <3>1 DEF Submitted
    <3> QED
      BY <2>1, <2>3, <3>1, <3>2 DEF DoneInv, Known
  <2>4. stage = "catch" => waiting # << >>
    BY <1>1 DEF FrontRuns
  <2> QED
    BY <2>1, <2>2, <2>3, <2>4 DEF Goal, DoneInv, Known, Running
<1>3. CASE Return /\ UNCHANGED dataVars
  <2>1. /\ UNCHANGED <<waiting, conn, input, interrupted, destroyed, stage, results, got, thrown>>
        /\ promise' = "value" => promise = "value"
    BY <1>3 DEF Return, Release
  <2> QED
    BY <2>1 DEF Goal, DoneInv, Known, Submitted, Running
<1>4. ASSUME NEW i \in Futures, NEW r \in {"value", "error"}, SettleInput(i, r), UNCHANGED dataVars
      PROVE  Goal
  <2>1. /\ UNCHANGED <<waiting, conn, interrupted, destroyed, stage, promise, results, got, thrown>>
        /\ input[i] = "pending" /\ input' = [input EXCEPT ![i] = r]
    BY <1>4 DEF SettleInput
  <2>2. ASSUME NEW j \in Futures, NEW seq, Known(j, seq), seq' = seq
        PROVE  Known(j, seq)'
    BY <1>1, <2>1, <2>2 DEF Known
  <2>3. stage = "catch" => Running \in Futures
    BY <1>1 DEF FrontRuns, Running
  <2>4. stage = "catch" => input'[Head(waiting)] = "error"
    BY <1>1, <2>1, <2>3 DEF DoneInv, Running
  <2> QED
    BY <2>1, <2>2, <2>4 DEF Goal, DoneInv, Submitted, Known
<1>5. CASE Interrupt
  BY <1>5 DEF Interrupt
<1>6. CASE DestroyDispatcher /\ UNCHANGED dataVars
  <2>1. /\ destroyed' /\ stage' # "catch" /\ UNCHANGED <<input, interrupted, got, thrown>>
        /\ promise' = "value" => promise = "value"
    BY <1>1, <1>6 DEF DestroyDispatcher, Queue!Discard, Release, FrontRuns
  <2> QED
    BY <2>1 DEF Goal, DoneInv, Known
<1>7. CASE Start \/ Point
  <2>1. /\ UNCHANGED <<waiting, conn, input, interrupted, destroyed, promise, results, got, thrown>>
        /\ stage' # "catch"
    BY <1>7 DEF Start, Begin, Queue!Start, Point, Goto
  <2> QED
    BY <2>1 DEF Goal, DoneInv, Known, Submitted
<1>8. CASE GetThrow
  <2>1. /\ UNCHANGED <<waiting, conn, input, interrupted, destroyed, promise, results, got, thrown>>
        /\ input[Head(waiting)] = "error"
    BY <1>8 DEF GetThrow, Running
  <2> QED
    BY <2>1 DEF Goal, DoneInv, Known, Submitted
<1>9. CASE PushThrow \/ CatchThrow
  BY <1>9 DEF PushThrow, CatchThrow
<1>10. ASSUME results' \in Seq(Futures), UNCHANGED thrown,
              \/ got' = results' /\ End("value", "value")
              \/ got' = got /\ End("value", promise),
              \A f \in Futures : f = Running => Known(f, results)',
              \A i \in Futures : Known(i, results) => Known(i, results)'
       PROVE  Goal
  <2>1. /\ UNCHANGED <<input, interrupted, destroyed, thrown, conn>> /\ stage' = "none"
        /\ \E settled : End("value", settled)
        /\ promise' = "value" => \/ got' = results'
                                 \/ got' = got /\ promise = "value"
    BY <1>10 DEF End, Release, Goto, Queue!Finish, Queue!Settle
  <2>2. \A i \in Futures :
          conn'[i] # 0 /\ (\A k \in 1 .. Len(waiting') : waiting'[k] # i) => Known(i, results)'
    <3>1. ~interrupted /\ ~thrown
      BY <2>1
    <3>2. Running \in Futures
      BY <1>1, <2>1 DEF End, Queue!Finish, Running
    <3>3. PICK f \in Futures : f = Running
      BY <3>2
    <3> QED
      BY <1>10, <2>1, <3>1, <3>3, EndKeepsKnown
  <2>3. ASSUME promise' = "value", NEW i \in Futures
        PROVE  Known(i, got)'
    <3>1. CASE got' = results'
      <4>1. waiting' = << >> /\ Len(waiting') = 0 /\ conn'[i] # 0
        BY <2>1, <2>3 DEF EInv, CountInv, Remaining, Exactly, Futures, Submitted
      <4> QED
        BY <2>2, <3>1, <4>1 DEF Known
    <3>2. CASE got' = got /\ promise = "value"
      BY <2>1, <3>2 DEF DoneInv, Known
    <3> QED
      BY <2>1, <2>3, <3>1, <3>2
  <2> QED
    BY <2>1, <2>2, <2>3 DEF Goal
<1>11. CASE Push
  <2>1. /\ results' = Append(results, Running) /\ input[Running] = "value" /\ input' = input
        /\ UNCHANGED thrown
        /\ \/ got' = results' /\ End("value", "value")
           \/ got' = got /\ End("value", promise)
    BY <1>11 DEF Push, Store, Step, End
  <2>2. Running \in Futures
    BY <1>1, <1>11 DEF Push, FrontRuns, Running
  <2>3. /\ Len(results) \in Nat /\ Len(results') = Len(results) + 1 /\ results' \in Seq(Futures)
        /\ results'[Len(results) + 1] = Running
        /\ \A j \in 1 .. Len(results) : results'[j] = results[j]
    BY <1>1, <2>1, <2>2
  <2>4. ASSUME NEW f \in Futures, f = Running
        PROVE  Known(f, results)'
    <3>1. Len(results) + 1 \in 1 .. Len(results')
      BY <2>3
    <3>2. input'[f] = "value" /\ \E j \in 1 .. Len(results') : results'[j] = f
      BY <2>1, <2>3, <2>4, <3>1
    <3> QED
      BY <3>2 DEF Known
  <2>5. \A i \in Futures : Known(i, results) => Known(i, results)'
    BY <2>1, <2>3 DEF Known
  <2>6. \A f \in Futures : f = Running => Known(f, results)'
    BY <2>4
  <2> QED
    BY <1>10, <2>1, <2>3, <2>5, <2>6 DEF Goal
<1>12. CASE Catch
  <2>1. /\ results' = results /\ input' = input /\ stage = "catch"
        /\ UNCHANGED <<interrupted, thrown>>
        /\ \/ got' = results' /\ End("value", "value")
           \/ got' = got /\ End("value", promise)
    BY <1>12 DEF Catch, Step, End
  <2>2. input[Running] = "error"
    BY <2>1 DEF DoneInv
  <2>3. ASSUME NEW f \in Futures, f = Running
        PROVE  Known(f, results)'
    BY <2>1, <2>2, <2>3 DEF Known
  <2>4. \A i \in Futures : Known(i, results) => Known(i, results)'
    BY <2>1 DEF Known
  <2>5. \A f \in Futures : f = Running => Known(f, results)'
    BY <2>3
  <2>6. results' \in Seq(Futures)
    BY <1>1, <2>1
  <2> QED
    BY <1>10, <2>1, <2>4, <2>5, <2>6 DEF Goal
<1>13. CASE UNCHANGED vars
  BY <1>13 DEF vars, groupVars, Goal, DoneInv, Known, Submitted, Running
<1> QED
  BY <1>2, <1>3, <1>4, <1>5, <1>6, <1>7, <1>8, <1>9, <1>11, <1>12, <1>13
  DEF Goal, Next, Client, ClientNext, Subtask

(* What was set, in which order, and what is known of a future whose       *)
(* subtask is over.                                                        *)
THEOREM Results == Spec => []RInv
<1>1. Init => RInv
  <2> SUFFICES ASSUME Init PROVE RInv
    OBVIOUS
  <2>1. /\ EInv /\ waiting = << >> /\ results = << >> /\ got = << >> /\ sets = 0
        /\ conn = [i \in Futures |-> 0] /\ stage = "none" /\ promise = "pending"
        /\ Len(waiting) = 0 /\ Len(results) = 0 /\ Len(got) = 0
    BY EInit DEF Init, GroupInit, Queue!Init
  <2>2. SetInv /\ OrderInv
    BY <2>1 DEF SetInv, OrderInv, Descending, AllValues
  <2>3. DoneInv
    BY <2>1 DEF DoneInv, Submitted
  <2> QED
    BY <2>1, <2>2, <2>3 DEF RInv
<1>2. RInv /\ [Next]_vars => RInv'
  BY ENext, SetNext, OrderNext, DoneNext DEF RInv
<1> QED
  BY <1>1, <1>2, PTL DEF Spec

(* The promise is set once, whatever the callback throws.                  *)
THEOREM SetAtMostOnce == Spec => []SetOnce
<1>1. RInv => SetOnce
  BY DEF RInv, SetInv, SetOnce
<1> QED
  BY <1>1, Results, PTL

(* The vector has values, from the last future to the first.               *)
THEOREM ResultsDescend == Spec => []ResultsInOrder
<1>1. RInv => ResultsInOrder
  BY DEF RInv, OrderInv, Descending, AllValues, ResultsInOrder
<1> QED
  BY <1>1, Results, PTL

(* It has all of them, unless somebody interrupts or the callback throws.  *)
THEOREM NothingIsMissing == Spec => []ResultsComplete
<1>1. RInv => ResultsComplete
  BY DEF RInv, DoneInv, Known, ResultsComplete
<1> QED
  BY <1>1, Results, PTL

-----------------------------------------------------------------------------
(* What the counters do not say of the promise and of the queue.           *)
EndsInv ==
  /\ returned /\ waiting = << >> => promise # "pending"
  /\ active # {} => stage # "none"
  /\ revoked = {}

LEMMA EndsNext == EInv /\ EndsInv /\ [Next]_vars => EndsInv'
<1> SUFFICES ASSUME EInv, EndsInv, [Next]_vars PROVE EndsInv'
  OBVIOUS
<1> USE DEF queueVars, clientVars
<1>1. ASSUME NEW i \in Futures, DispatchNext(i)
      PROVE  EndsInv'
  <2>1. waiting' = Append(waiting, i) /\ UNCHANGED <<active, revoked, promise, stage, returned>>
    BY <1>1 DEF DispatchNext, Queue!Submit
  <2>2. waiting' # << >>
    BY <2>1 DEF EInv, TypeOK, GroupTypeOK
  <2> QED
    BY <2>1, <2>2 DEF EndsInv
<1>2. CASE Return \/ DestroyDispatcher
  <2>1. Release(promise) /\ UNCHANGED <<active, revoked, stage>>
    BY <1>2 DEF Return, DestroyDispatcher, Queue!Discard
  <2> QED
    BY <2>1 DEF EndsInv, Release
<1>3. ASSUME NEW i \in Futures, NEW r \in {"value", "error"}, SettleInput(i, r)
      PROVE  EndsInv'
  BY <1>3 DEF SettleInput, EndsInv
<1>4. CASE Interrupt
  BY <1>4 DEF Interrupt, EndsInv
<1>5. CASE Start
  BY <1>5 DEF Start, Begin, Goto, Queue!Start, EndsInv
<1>6. CASE Point \/ PushThrow \/ GetThrow
  <2>1. UNCHANGED <<waiting, active, revoked, promise, returned>>
    BY <1>6 DEF Point, PushThrow, GetThrow
  <2>2. stage' # "none"
    BY <1>6 DEF Point, PushThrow, GetThrow, Goto
  <2> QED
    BY <2>1, <2>2 DEF EndsInv
<1>7. ASSUME NEW result, NEW settled, End(result, settled)
      PROVE  EndsInv'
  BY <1>7 DEF End, Queue!Finish, Queue!Settle, Release, EndsInv
<1>8. CASE Push \/ Catch \/ CatchThrow
  <2>1. \E result, settled : End(result, settled)
    BY <1>8 DEF Push, Catch, CatchThrow, Step
  <2> QED
    BY <1>7, <2>1
<1>9. CASE UNCHANGED vars
  BY <1>9 DEF vars, groupVars, EndsInv
<1> QED
  BY <1>1, <1>2, <1>3, <1>4, <1>5, <1>6, <1>8, <1>9 DEF Next, Client, ClientNext, Subtask

(* The guard of a step of the call, of the dispatcher or of the subtask    *)
(* holds.                                                                  *)
GoesOn ==
  \/ \E i \in Futures : ~Submitted(i) /\ \A j \in i + 1 .. N : Submitted(j)
  \/ ~returned /\ \A i \in Futures : Submitted(i)
  \/ waiting # << >> /\ active = {} /\ conn[Head(waiting)] \notin revoked
  \/ stage \in {"point", "catch"}
  \/ stage = "get" /\ Met(Running)

(* Until the promise is settled a step can be taken, unless the subtask    *)
(* waits for a future that is not met: whatever is thrown or interrupted,  *)
(* nothing else keeps when_every from its end.                             *)
THEOREM OnlyAFutureIsWaitedFor ==
  Spec => [](promise = "pending" => GoesOn \/ (stage = "get" /\ ~Met(Running)))
<1>1. Init => EndsInv
  BY DEF Init, GroupInit, Queue!Init, EndsInv
<1>2. EInv /\ EndsInv =>
        (promise = "pending" => GoesOn \/ (stage = "get" /\ ~Met(Running)))
  <2> SUFFICES ASSUME TypeOK, NEW m \in 0 .. N, Remaining(m), EndsInv, promise = "pending"
               PROVE  GoesOn \/ (stage = "get" /\ ~Met(Running))
    BY DEF EInv, CountInv
  <2>1. CASE ~returned
    <3>1. CASE m = 0
      BY <2>1, <3>1 DEF Remaining, GoesOn, Futures
    <3>2. CASE m # 0
      <4>1. m \in Futures /\ ~Submitted(m) /\ \A j \in m + 1 .. N : Submitted(j)
        BY <3>2, GroupAssumption DEF Remaining, Futures
      <4> QED
        BY <4>1 DEF GoesOn
    <3> QED
      BY <3>1, <3>2
  <2>2. CASE returned /\ stage = "none"
    <3>1. waiting # << >> /\ active = {} /\ revoked = {}
      BY <2>2 DEF EndsInv
    <3> QED
      BY <3>1 DEF GoesOn
  <2>3. CASE stage # "none"
    BY <2>3 DEF TypeOK, GoesOn
  <2>4. returned \in BOOLEAN
    BY DEF TypeOK, GroupTypeOK
  <2> QED
    BY <2>1, <2>2, <2>3, <2>4
<1> QED
  BY <1>1, <1>2, EndsNext, Counting, PTL DEF Spec
=============================================================================
