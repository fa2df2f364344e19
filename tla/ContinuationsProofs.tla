-------------------------- MODULE ContinuationsProofs --------------------------
(***************************************************************************)
(* Theorems about Continuations, for every graph of continuations: what    *)
(* becomes of errors if the futures have values, and what is left of that  *)
(* if they are void; and that no graph comes to a standstill.              *)
(***************************************************************************)
EXTENDS Continuations, WellFoundedInduction, TLAPS

(* A node that has not ended ends: nothing that an ended node says of its  *)
(* inputs changes, since they had ended too.                               *)
LEMMA Ending ==
  ASSUME ContInv, NEW n \in Nodes,
         NEW how \in {"ran", "skipped"}, NEW what \in {"value"} \cup Errors,
         at[n] \in {"queued", "working"},
         Settle(n, how, what),
         called' = called \/ (called' = called \cup {n} /\ how = "ran"),
         kind[n] # "when" /\ how = "ran" => \A i \in Inputs[n] :
           outcome[i] # "pending" /\ (n \in called' <=> Catches(kind[n], outcome[i])),
         kind[n] = "when" /\ n \in called' => \A i \in Inputs[n] : outcome[i] = "value",
         what = "value" /\ ~(kind[n] = "continue" /\ n \in called') =>
           \A i \in Inputs[n] : outcome[i] = "value"
  PROVE  ContInv'
<1> USE DEF Settle, ContInv, TypeOK
<1>1. \A i \in Nodes : \A m \in Inputs[i] : m \in Nodes /\ m < i
  BY ContinuationsAssumption
<1>2. n \notin called /\ outcome[n] = "pending"
  BY DEF CalledWithValues
<1>3. \A m \in Nodes \ {n} : at'[m] = at[m] /\ outcome'[m] = outcome[m]
                          /\ (m \in called' <=> m \in called)
  OBVIOUS
<1>4. at'[n] = how /\ outcome'[n] = what /\ n \notin Inputs[n]
  BY <1>1 DEF Nodes
<1>5. TypeOK' /\ WellFormed(kind)'
  BY DEF Errors, Thrown, WellFormed
<1>6. \A m \in Nodes : at'[m] \in {"ran", "skipped"} <=> outcome'[m] # "pending"
  BY <1>3, <1>4 DEF Errors, Thrown
<1>7. \A m \in Nodes : kind[m] # "when" /\ at'[m] = "ran" =>
        \A i \in Inputs[m] : outcome[i] # "pending" /\ outcome'[i] = outcome[i]
  BY <1>1, <1>2, <1>3, <1>4
<1>8. \A m \in Nodes : outcome'[m] = "value" /\ ~Answered(m)' =>
        \A i \in Inputs[m] : outcome[i] = "value" /\ outcome'[i] = outcome[i]
  BY <1>1, <1>2, <1>3, <1>4 DEF Answered
<1>9. \A m \in called' : at'[m] = "ran" /\ (kind[m] = "when" =>
        \A i \in Inputs[m] : outcome[i] = "value" /\ outcome'[i] = outcome[i])
  BY <1>1, <1>2, <1>3, <1>4 DEF CalledWithValues
<1>10. \A m \in Nodes : kind[m] # "when" /\ at'[m] = "ran" =>
         \A i \in Inputs[m] : m \in called' <=> Catches(kind[m], outcome[i])
  BY <1>3, <1>4 DEF HandlerCalled
<1>11. HandlerCalled'
  BY <1>7, <1>10 DEF HandlerCalled
<1> QED
  BY <1>5, <1>6, <1>7, <1>8, <1>9, <1>11 DEF CalledWithValues

LEMMA NextKeeps ==
  ASSUME ~Void, ContInv, [Next]_vars
  PROVE  ContInv'
<1>1. ASSUME NEW n \in Nodes, Interrupt(n) PROVE ContInv'
  BY <1>1 DEF Interrupt, ContInv, TypeOK, WellFormed, Answered, HandlerCalled, CalledWithValues
<1>2. ASSUME NEW n \in Nodes, Start(n) PROVE ContInv'
  BY <1>2 DEF Start, ContInv, TypeOK, WellFormed, Answered, HandlerCalled, CalledWithValues
<1>3. ASSUME NEW n \in Nodes, Break(n) PROVE ContInv'
  <2>1. n \notin called
    BY <1>3 DEF Break, ContInv, CalledWithValues
  <2> QED
    BY <1>3, <2>1, Ending DEF Break, Errors
<1>4. ASSUME NEW n \in Nodes, Skip(n) PROVE ContInv'
  <2>1. n \notin called
    BY <1>4 DEF Skip, ContInv, CalledWithValues
  <2> QED
    BY <1>4, <2>1, Ending DEF Skip, Errors
<1>5. ASSUME NEW n \in Nodes, Work(n) PROVE ContInv'
  <2>1. \A i \in Inputs[n] : outcome[i] = "value"
    BY <1>5 DEF Call, Work, GetsValues
  <2>2. n \notin called
    BY <1>5 DEF Call, Work, ContInv, CalledWithValues
  <2>3. CASE kind[n] = "when"
    <3>1. PICK what \in {"value"} \cup Thrown : Settle(n, "ran", what)
      BY <1>5, <2>3 DEF Call, Work
    <3> QED
      BY <1>5, <2>1, <2>3, <3>1, Ending DEF Call, Work, Errors
  <2>4. CASE kind[n] # "when"
    <3>1. \A i \in Inputs[n] : ~Catches(kind[n], outcome[i])
      BY <2>1 DEF Catches, Errors, Thrown
    <3>2. Settle(n, "ran", "value") /\ called' = called
      BY <1>5, <2>4 DEF Call, Work
    <3> QED
      BY <1>5, <2>1, <2>2, <2>4, <3>1, <3>2, Ending DEF Call, Work
  <2> QED
    BY <2>3, <2>4
<1>6. ASSUME NEW n \in Nodes, Fail(n) PROVE ContInv'
  <2>1. PICK e \in Errors : /\ GetsError(n, e)
                            /\ ~Catches(kind[n], e)
                            /\ Settle(n, "ran", e)
    BY <1>6 DEF Fail
  <2>2. n \notin called
    BY <1>6 DEF Fail, ContInv, CalledWithValues
  <2>3. kind[n] # "when" => \A i \in Inputs[n] : outcome[i] = e
    BY <2>1, ContinuationsAssumption DEF GetsError, ContInv, WellFormed
  <2>4. e # "value" /\ e # "pending"
    BY DEF Errors, Thrown
  <2> QED
    BY <1>6, <2>1, <2>2, <2>3, <2>4, Ending DEF Fail
<1>7. ASSUME NEW n \in Nodes, Handle(n) PROVE ContInv'
  <2>1. PICK e \in Errors : GetsError(n, e) /\ Catches(kind[n], e)
    BY <1>7 DEF Call, Handle
  <2>2. kind[n] # "when"
    BY <2>1 DEF Catches
  <2>3. \A i \in Inputs[n] : outcome[i] = e
    BY <2>1, <2>2, ContinuationsAssumption DEF GetsError, ContInv, WellFormed
  <2>4. PICK what \in Thrown \cup {IF kind[n] = "continue" THEN "value" ELSE Rethrown(kind[n])} :
          Settle(n, "ran", what)
    BY <1>7 DEF Call, Handle
  <2>5. what \in {"value"} \cup Errors /\ (what = "value" => kind[n] = "continue")
    BY DEF Rethrown, Errors, Thrown
  <2>6. e # "pending"
    BY DEF Errors, Thrown
  <2> QED
    BY <1>7, <2>1, <2>2, <2>3, <2>4, <2>5, <2>6, Ending DEF Call, Handle
<1>8. CASE UNCHANGED vars
  BY <1>8 DEF vars, ContInv, TypeOK, WellFormed, Answered, HandlerCalled, CalledWithValues
<1> QED
  BY <1>1, <1>2, <1>3, <1>4, <1>5, <1>6, <1>7, <1>8 DEF Next, Step

(* dispatcher::when, when_all, when_throw, when_throw_continue: the        *)
(* invariant of every graph of nodes whose futures have values.            *)
THEOREM ContinuationsInvariance ==
  ASSUME ~Void
  PROVE  Spec => []ContInv
<1>1. Init => ContInv
  BY DEF Init, ContInv, TypeOK, WellFormed, Answered, HandlerCalled, CalledWithValues, Errors
<1>2. ContInv /\ [Next]_vars => ContInv'
  BY NextKeeps
<1> QED
  BY <1>1, <1>2, PTL DEF Spec

(* when_throw and when_throw_continue call their callback exactly for the  *)
(* errors they catch.                                                      *)
THEOREM HandlersAreCalled ==
  ASSUME ~Void
  PROVE  Spec => []HandlerCalled
<1>1. ContInv => HandlerCalled
  BY DEF ContInv
<1> QED
  BY <1>1, ContinuationsInvariance, PTL
--------------------------------------------------------------------------------
(* Every set of natural numbers that is not empty has a least member.      *)
LEMMA Least ==
  ASSUME NEW T \in SUBSET Nat, T # {}
  PROVE  \E x \in T : \A y \in T : x <= y
<1> DEFINE R == {ss \in Nat \X Nat : ss[1] < ss[2]}
<1>1. IsWellFoundedOn(R, Nat)
  BY NatLessThanWellFounded, Zenon DEF OpToRel
<1>2. \A x, y \in Nat : y < x => <<y, x>> \in R
  OBVIOUS
<1> HIDE DEF R
<1>3. PICK x \in T : \A y \in T : ~(<<y, x>> \in R)
  BY <1>1, WFMin
<1>4. \A y \in T : ~(y < x)
  BY <1>2, <1>3
<1>5. \A m, n \in Nat : ~(m < n) => n <= m
  OBVIOUS
<1> QED
  BY <1>4, <1>5

(* g is what each node has of its own and gets along some of its edges.    *)
Collects(g, Own, From) == g = [n \in Nodes |-> Own[n] \cup UNION {g[i] : i \in From[n]}]

(* There is such a function: the one for the nodes up to one extends to    *)
(* the next.                                                               *)
LEMMA Collecting ==
  ASSUME NEW Own, NEW From, \A n \in Nodes : From[n] \subseteq Inputs[n]
  PROVE  \E g : Collects(g, Own, From)
<1> DEFINE Solves(g, m) == g = [n \in 1 .. m |-> Own[n] \cup UNION {g[i] : i \in From[n]}]
           T == {m \in 0 .. N : ~\E g : Solves(g, m)}
<1>0. N \in Nat /\ \A n \in 1 .. N : \A i \in From[n] : i \in 1 .. N /\ i < n
  BY ContinuationsAssumption DEF Nodes
<1>1. T = {}
  <2> SUFFICES ASSUME T # {} PROVE FALSE
    OBVIOUS
  <2>1. PICK m \in T : \A y \in T : m <= y
    <3>1. T \in SUBSET Nat
      BY <1>0
    <3> HIDE DEF T
    <3> QED
      BY <3>1, Least
  <2>2. m \in 0 .. N /\ ~\E g : Solves(g, m)
    BY <2>1
  <2>3. m # 0
    <3>1. ASSUME m = 0 PROVE \E g : Solves(g, m)
      <4> DEFINE g == [n \in 1 .. 0 |-> {}]
      <4>1. Solves(g, 0)
        OBVIOUS
      <4> HIDE DEF g, Solves
      <4> QED
        BY <3>1, <4>1
    <3> QED
      BY <2>2, <3>1
  <2>4. m - 1 \in 0 .. N /\ ~(m <= m - 1)
    BY <1>0, <2>2, <2>3
  <2>5. \E g : Solves(g, m - 1)
    BY <2>1, <2>4
  <2>6. PICK g : Solves(g, m - 1)
    <3> HIDE DEF Solves
    <3> QED
      BY <2>5
  <2> DEFINE Of(h, n) == Own[n] \cup UNION {h[i] : i \in From[n]}
             f == [n \in 1 .. m |-> Of(g, n)]
  <2>7. ASSUME NEW n \in 1 .. m PROVE \A i \in From[n] : f[i] = g[i]
    <3>1. ASSUME NEW i \in From[n] PROVE i \in 1 .. m - 1 /\ i \in 1 .. m
      BY <1>0, <2>2
    <3> QED
      BY <2>6, <3>1
  <2>8. \A n \in 1 .. m : Of(f, n) = Of(g, n)
    <3> SUFFICES ASSUME NEW n \in 1 .. m PROVE Of(f, n) = Of(g, n)
      OBVIOUS
    <3>1. {f[i] : i \in From[n]} = {g[i] : i \in From[n]}
      <4> HIDE DEF f
      <4> QED
        BY <2>7
    <3> QED
      BY <3>1
  <2>9. f = [n \in 1 .. m |-> Of(f, n)]
    <3>1. f = [n \in 1 .. m |-> Of(g, n)]
      OBVIOUS
    <3> HIDE DEF f, Of
    <3> QED
      BY <2>8, <3>1
  <2>10. Solves(f, m)
    <3> HIDE DEF f
    <3> QED
      BY <2>9
  <2> QED
    <3> HIDE DEF f, Solves
    <3> QED
      BY <2>2, <2>10
<1>2. \E g : Solves(g, N)
  <2>1. N \in 0 .. N
    BY <1>0
  <2> HIDE DEF Solves
  <2> QED
    BY <1>1, <2>1
<1> QED
  BY <1>2 DEF Nodes, Collects

LEMMA BehindDef ==
  Behind = [n \in Nodes |->
    IF Answered(n) THEN {} ELSE Inputs[n] \cup UNION {Behind[i] : i \in Inputs[n]}]
<1> DEFINE From == [n \in Nodes |-> IF Answered(n) THEN {} ELSE Inputs[n]]
<1>1. PICK g : Collects(g, From, From)
  <2>1. \A n \in Nodes : From[n] \subseteq Inputs[n]
    OBVIOUS
  <2> HIDE DEF From
  <2> QED
    BY <2>1, Collecting
<1>2. ASSUME NEW n \in Nodes
      PROVE  From[n] \cup UNION {g[i] : i \in From[n]} =
               IF Answered(n) THEN {} ELSE Inputs[n] \cup UNION {g[i] : i \in Inputs[n]}
  <2>1. CASE Answered(n)
    BY <2>1
  <2>2. CASE ~Answered(n)
    <3>1. From[n] = Inputs[n]
      BY <2>2
    <3> HIDE DEF From
    <3> QED
      BY <2>2, <3>1
  <2> QED
    BY <2>1, <2>2
<1>3. g = [n \in Nodes |-> IF Answered(n) THEN {} ELSE Inputs[n] \cup UNION {g[i] : i \in Inputs[n]}]
  <2> HIDE DEF From
  <2> QED
    BY <1>1, <1>2 DEF Collects
<1> QED
  BY <1>3, Zenon DEF Behind

LEMMA OriginDef ==
  Origin = [n \in Nodes |->
    IF at[n] = "skipped" \/ n \in called
    THEN {n}
    ELSE UNION {Origin[i] : i \in {j \in Inputs[n] : outcome[j] = outcome[n]}}]
<1> DEFINE First(n) == at[n] = "skipped" \/ n \in called
           Alike(n) == {j \in Inputs[n] : outcome[j] = outcome[n]}
           Own == [n \in Nodes |-> IF First(n) THEN {n} ELSE {}]
           From == [n \in Nodes |-> IF First(n) THEN {} ELSE Alike(n)]
<1>1. PICK g : Collects(g, Own, From)
  <2>1. \A n \in Nodes : From[n] \subseteq Inputs[n]
    OBVIOUS
  <2> HIDE DEF Own, From
  <2> QED
    BY <2>1, Collecting
<1>2. ASSUME NEW n \in Nodes
      PROVE  Own[n] \cup UNION {g[i] : i \in From[n]} =
               IF First(n) THEN {n} ELSE UNION {g[i] : i \in Alike(n)}
  <2> HIDE DEF First, Alike
  <2>1. CASE First(n)
    BY <2>1
  <2>2. CASE ~First(n)
    <3>1. From[n] = Alike(n) /\ Own[n] = {}
      BY <2>2
    <3> HIDE DEF From, Own
    <3> QED
      BY <2>2, <3>1
  <2> QED
    BY <2>1, <2>2
<1>3. g = [n \in Nodes |-> IF First(n) THEN {n} ELSE UNION {g[i] : i \in Alike(n)}]
  <2> HIDE DEF From, Own, First, Alike
  <2> QED
    BY <1>1, <1>2 DEF Collects
<1> QED
  BY <1>3, Zenon DEF Origin

(* dispatcher::when, when_all, when_throw, when_throw_continue: however    *)
(* large the graph is, no error is lost on the way through it.  Values go  *)
(* back one step by the invariant; a first node that breaks the property   *)
(* would go back to one before it that does.                               *)
THEOREM ErrorsAreNotLost ==
  ASSUME ~Void
  PROVE  Spec => []NoErrorLost
<1>1. ContInv => NoErrorLost
  <2> SUFFICES ASSUME ContInv, ~NoErrorLost PROVE FALSE
    OBVIOUS
  <2> DEFINE T == {n \in Nodes : outcome[n] = "value" /\ \E i \in Behind[n] : outcome[i] # "value"}
  <2>1. T \in SUBSET Nat /\ T # {}
    BY ContinuationsAssumption DEF Nodes, NoErrorLost
  <2>2. PICK n \in T : \A m \in T : n <= m
    <3> HIDE DEF T
    <3> QED
      BY <2>1, Least
  <2>3. n \in Nodes /\ Behind[n] = IF Answered(n) THEN {} ELSE Inputs[n] \cup UNION {Behind[i] : i \in Inputs[n]}
    BY BehindDef
  <2>4. ~Answered(n)
    BY <2>2, <2>3
  <2>5. \A i \in Inputs[n] : outcome[i] = "value"
    BY <2>2, <2>4 DEF ContInv
  <2>6. \A i \in Inputs[n] : i \in Nodes /\ i \notin T
    BY <2>2, <2>3, ContinuationsAssumption DEF Nodes
  <2>7. \A i \in Inputs[n] : \A j \in Behind[i] : outcome[j] = "value"
    BY <2>5, <2>6
  <2> QED
    BY <2>2, <2>3, <2>4, <2>5, <2>7
<1> QED
  BY <1>1, ContinuationsInvariance, PTL
--------------------------------------------------------------------------------
(* What holds whether the futures are void or not.                         *)

(* A node has a result exactly when it has ended, and calls what it calls  *)
(* after its inputs have ended, too.                                       *)
EndedInv ==
  /\ TypeOK /\ WellFormed(kind)
  /\ \A n \in Nodes : at[n] \in {"ran", "skipped"} <=> outcome[n] # "pending"
  /\ \A n \in called : at[n] = "ran" /\ \A i \in Inputs[n] : outcome[i] # "pending"
  /\ Void => \A n \in called : kind[n] = "when"

LEMMA EndedKeeps ==
  ASSUME EndedInv, [Next]_vars
  PROVE  EndedInv'
<1> USE DEF EndedInv, TypeOK
<1>1. ASSUME NEW n \in Nodes, NEW how \in {"ran", "skipped"}, NEW what \in {"value"} \cup Errors,
             at[n] \in {"queued", "working"}, Settle(n, how, what),
             \/ called' = called
             \/ /\ called' = called \cup {n} /\ how = "ran" /\ (Void => kind[n] = "when")
                /\ \A i \in Inputs[n] : outcome[i] # "pending"
      PROVE  EndedInv'
  <2>1. outcome[n] = "pending" /\ what # "pending" /\ n \notin called
    BY <1>1 DEF Errors, Thrown
  <2>2. /\ at' = [at EXCEPT ![n] = how] /\ outcome' = [outcome EXCEPT ![n] = what]
        /\ UNCHANGED <<kind, interrupted>>
    BY <1>1 DEF Settle
  <2>3. TypeOK' /\ WellFormed(kind)'
    BY <1>1, <2>2 DEF Errors, Thrown, WellFormed
  <2>4. \A m \in Nodes : /\ at'[m] = IF m = n THEN how ELSE at[m]
                         /\ outcome'[m] = IF m = n THEN what ELSE outcome[m]
    BY <2>2
  <2>5. \A m \in Nodes : at'[m] \in {"ran", "skipped"} <=> outcome'[m] # "pending"
    BY <1>1, <2>1, <2>4
  <2>6. \A m \in Nodes : outcome[m] # "pending" => outcome'[m] # "pending"
    BY <2>1, <2>4
  <2>7. \A m \in called' : m \in Nodes /\ at'[m] = "ran" /\ \A i \in Inputs[m] : outcome[i] # "pending"
    BY <1>1, <2>1, <2>4
  <2>8. \A m \in called' : \A i \in Inputs[m] : outcome'[i] # "pending"
    BY <2>6, <2>7, ContinuationsAssumption
  <2>9. Void => \A m \in called' : kind'[m] = "when"
    BY <1>1, <2>2
  <2> QED
    BY <2>3, <2>5, <2>7, <2>8, <2>9
<1>2. ASSUME NEW n \in Nodes, Interrupt(n) PROVE EndedInv'
  BY <1>2 DEF Interrupt, WellFormed
<1>3. ASSUME NEW n \in Nodes, Start(n) PROVE EndedInv'
  BY <1>3 DEF Start, WellFormed
<1>4. ASSUME NEW n \in Nodes, Break(n) \/ Skip(n) PROVE EndedInv'
  BY <1>1, <1>4 DEF Break, Skip, Errors
<1>5. ASSUME NEW n \in Nodes, Work(n) PROVE EndedInv'
  <2>1. \A i \in Inputs[n] : outcome[i] # "pending"
    BY <1>5 DEF Work, GetsValues
  <2>2. CASE kind[n] = "when"
    <3>1. PICK what \in {"value"} \cup Thrown : Settle(n, "ran", what)
      BY <1>5, <2>2 DEF Work
    <3> QED
      BY <1>1, <1>5, <2>1, <2>2, <3>1 DEF Work, Call, Errors
  <2>3. CASE kind[n] # "when"
    BY <1>1, <1>5, <2>3 DEF Work
  <2> QED
    BY <2>2, <2>3
<1>6. ASSUME NEW n \in Nodes, Fail(n) PROVE EndedInv'
  <2>1. PICK e \in Errors : Settle(n, "ran", e)
    BY <1>6 DEF Fail
  <2> QED
    BY <1>1, <1>6, <2>1 DEF Fail
<1>7. ASSUME NEW n \in Nodes, Handle(n) PROVE EndedInv'
  <2>1. PICK e \in Errors : GetsError(n, e) /\ Catches(kind[n], e)
    BY <1>7 DEF Handle
  <2>2. ~Void /\ kind[n] # "when"
    BY <2>1 DEF GetsError, Catches
  <2>3. \A i \in Inputs[n] : outcome[i] = e /\ e # "pending"
    BY <2>1, <2>2, ContinuationsAssumption DEF GetsError, WellFormed, Errors, Thrown
  <2>4. PICK what \in Thrown \cup {IF kind[n] = "continue" THEN "value" ELSE Rethrown(kind[n])} :
          Settle(n, "ran", what)
    BY <1>7 DEF Handle
  <2>5. what \in {"value"} \cup Errors
    BY DEF Rethrown, Errors, Thrown
  <2> QED
    BY <1>1, <1>7, <2>2, <2>3, <2>4, <2>5 DEF Handle, Call
<1>8. CASE UNCHANGED vars
  BY <1>8 DEF vars, WellFormed
<1> QED
  BY <1>2, <1>3, <1>4, <1>5, <1>6, <1>7, <1>8 DEF Next, Step

THEOREM EndedInvariance == Spec => []EndedInv
<1>1. Init => EndedInv
  BY DEF Init, EndedInv, TypeOK, Errors
<1>2. EndedInv /\ [Next]_vars => EndedInv'
  BY EndedKeeps
<1> QED
  BY <1>1, <1>2, PTL DEF Spec

(* The finding about void futures, for every graph: when_throw and         *)
(* when_throw_continue never call their callback, whatever is thrown.      *)
THEOREM VoidHandlersAreNeverCalled ==
  ASSUME Void
  PROVE  Spec => [](\A n \in called : kind[n] = "when")
<1>1. EndedInv => \A n \in called : kind[n] = "when"
  BY DEF EndedInv
<1> QED
  BY <1>1, EndedInvariance, PTL

(* What makes every error go back to an origin: a task that is not run has *)
(* the interruption or a broken promise, one that calls its callback what  *)
(* that throws, and any other the error of an input.                       *)
OriginInv ==
  /\ \A n \in Nodes : at[n] = "skipped" =>
       outcome[n] = "broken" \/ (outcome[n] = "interrupted" /\ n \in interrupted)
  /\ \A n \in called : outcome[n] \in Thrown \cup {"value"}
  /\ \A n \in Nodes : at[n] = "ran" /\ n \notin called /\ outcome[n] \in Errors =>
       \E i \in Inputs[n] : outcome[i] = outcome[n]

LEMMA OriginKeeps ==
  ASSUME EndedInv, OriginInv, [Next]_vars
  PROVE  OriginInv'
<1> USE DEF EndedInv, TypeOK, OriginInv
<1>1. ASSUME NEW n \in Nodes, NEW how \in {"ran", "skipped"}, NEW what \in {"value"} \cup Errors,
             at[n] \in {"queued", "working"}, Settle(n, how, what),
             \/ /\ called' = called
                /\ how = "skipped" => what = "broken" \/ (what = "interrupted" /\ n \in interrupted)
                /\ how = "ran" /\ what \in Errors => \E i \in Inputs[n] : outcome[i] = what
             \/ called' = called \cup {n} /\ how = "ran" /\ what \in Thrown \cup {"value"}
      PROVE  OriginInv'
  <2>1. outcome[n] = "pending" /\ n \notin called
    BY <1>1
  <2>2. \A m \in Nodes : /\ at'[m] = IF m = n THEN how ELSE at[m]
                         /\ outcome'[m] = IF m = n THEN what ELSE outcome[m]
    BY <1>1 DEF Settle
  <2>3. interrupted' = interrupted
    BY <1>1 DEF Settle
  <2>4. \A e \in Errors : \A i \in Nodes : outcome[i] = e => outcome'[i] = e
    BY <2>1, <2>2 DEF Errors, Thrown
  <2>5. \A m \in Nodes : at'[m] = "skipped" =>
          outcome'[m] = "broken" \/ (outcome'[m] = "interrupted" /\ m \in interrupted')
    BY <1>1, <2>2, <2>3
  <2>6. \A m \in called' : outcome'[m] \in Thrown \cup {"value"}
    BY <1>1, <2>1, <2>2
  <2>7. \A m \in Nodes : at'[m] = "ran" /\ m \notin called' /\ outcome'[m] \in Errors =>
          \E i \in Inputs[m] : outcome[i] = outcome'[m]
    BY <1>1, <2>2
  <2>8. \A m \in Nodes : Inputs[m] \subseteq Nodes
    BY ContinuationsAssumption
  <2> QED
    BY <2>4, <2>5, <2>6, <2>7, <2>8
<1>2. ASSUME NEW n \in Nodes, Interrupt(n) \/ Start(n) PROVE OriginInv'
  BY <1>2 DEF Interrupt, Start
<1>3. ASSUME NEW n \in Nodes, Break(n) \/ Skip(n) PROVE OriginInv'
  BY <1>1, <1>3 DEF Break, Skip, Errors
<1>4. ASSUME NEW n \in Nodes, Work(n) PROVE OriginInv'
  <2>1. CASE kind[n] = "when"
    <3>1. PICK what \in {"value"} \cup Thrown : Settle(n, "ran", what)
      BY <1>4, <2>1 DEF Work
    <3> QED
      BY <1>1, <1>4, <2>1, <3>1 DEF Work, Call, Errors
  <2>2. CASE kind[n] # "when"
    <3>1. Settle(n, "ran", "value") /\ called' = called /\ at[n] = "working"
      BY <1>4, <2>2 DEF Work
    <3>2. "value" \notin Errors
      BY DEF Errors, Thrown
    <3> QED
      BY <1>1, <3>1, <3>2
  <2> QED
    BY <2>1, <2>2
<1>5. ASSUME NEW n \in Nodes, Fail(n) PROVE OriginInv'
  <2>1. PICK e \in Errors : GetsError(n, e) /\ Settle(n, "ran", e)
    BY <1>5 DEF Fail
  <2> QED
    BY <1>1, <1>5, <2>1 DEF Fail, GetsError
<1>6. ASSUME NEW n \in Nodes, Handle(n) PROVE OriginInv'
  <2>1. PICK what \in Thrown \cup {IF kind[n] = "continue" THEN "value" ELSE Rethrown(kind[n])} :
          Settle(n, "ran", what)
    BY <1>6 DEF Handle
  <2>2. what \in Thrown \cup {"value"} /\ what \in {"value"} \cup Errors
    BY DEF Rethrown, Errors, Thrown
  <2> QED
    BY <1>1, <1>6, <2>1, <2>2 DEF Handle, Call
<1>7. CASE UNCHANGED vars
  BY <1>7 DEF vars
<1> QED
  BY <1>2, <1>3, <1>4, <1>5, <1>6, <1>7 DEF Next, Step

(* Errors go through any graph of continuations, of void futures as well,  *)
(* without becoming others: by OriginInv an error goes back one step, and  *)
(* a first node that had no origin would go back to one before it that has *)
(* none either.                                                            *)
THEOREM OriginsAreFound == Spec => []ErrorsHaveOrigins
<1>1. EndedInv /\ OriginInv => ErrorsHaveOrigins
  <2> SUFFICES ASSUME EndedInv, OriginInv, ~ErrorsHaveOrigins PROVE FALSE
    OBVIOUS
  <2> DEFINE Found(n) == \E i \in Origin[n] : outcome[i] = outcome[n] /\ Raises(i, outcome[n])
             T == {n \in Nodes : outcome[n] \in Errors /\ ~Found(n)}
  <2>1. T \in SUBSET Nat /\ T # {}
    BY ContinuationsAssumption DEF Nodes, ErrorsHaveOrigins
  <2>2. PICK n \in T : \A m \in T : n <= m
    <3> HIDE DEF T
    <3> QED
      BY <2>1, Least
  <2>3. n \in Nodes /\ outcome[n] \in Errors /\ ~Found(n)
    BY <2>2
  <2>4. Origin[n] = IF at[n] = "skipped" \/ n \in called
                    THEN {n}
                    ELSE UNION {Origin[i] : i \in {j \in Inputs[n] : outcome[j] = outcome[n]}}
    BY <2>3, OriginDef
  <2>5. outcome[n] # "pending" /\ at[n] \in {"ran", "skipped"}
    BY <2>3 DEF EndedInv, Errors, Thrown
  <2>6. CASE at[n] = "skipped" \/ n \in called
    <3>1. Raises(n, outcome[n])
      BY <2>3, <2>6 DEF EndedInv, OriginInv, Raises, Errors, Thrown
    <3> QED
      BY <2>3, <2>4, <2>6, <3>1
  <2>7. CASE at[n] = "ran" /\ n \notin called
    <3>1. PICK i \in Inputs[n] : outcome[i] = outcome[n]
      BY <2>3, <2>7 DEF OriginInv
    <3>2. i \in Nodes /\ i \notin T
      <4>1. i \in Nodes /\ i < n
        BY <2>3, ContinuationsAssumption
      <4> HIDE DEF T
      <4> QED
        BY <4>1, <2>2, <2>3 DEF Nodes
    <3>3. PICK o \in Origin[i] : outcome[o] = outcome[i] /\ Raises(o, outcome[i])
      BY <2>3, <3>1, <3>2
    <3>4. o \in Origin[n]
      <4>1. Origin[n] = UNION {Origin[k] : k \in {j \in Inputs[n] : outcome[j] = outcome[n]}}
        BY <2>4, <2>7
      <4>2. i \in {j \in Inputs[n] : outcome[j] = outcome[n]}
        BY <3>1
      <4> QED
        BY <4>1, <4>2, <3>3
    <3> QED
      BY <2>3, <3>1, <3>3, <3>4
  <2> QED
    BY <2>5, <2>6, <2>7
<1>2. Init => OriginInv
  BY DEF Init, OriginInv, Errors, Thrown
<1>3. EndedInv /\ OriginInv /\ [Next]_vars => OriginInv'
  BY OriginKeeps
<1> QED
  BY <1>1, <1>2, <1>3, EndedInvariance, PTL DEF Spec

(* The node can take a step: Start or Skip, or Work, Fail or Handle.       *)
GoesOn(n) ==
  \/ at[n] = "queued"
  \/ at[n] = "working" /\ (GetsValues(n) \/ \E e \in Errors : GetsError(n, e))

(* No graph gets stuck: as long as a future is to be settled, there is a   *)
(* node that can take a step.  The first of the nodes that have not ended  *)
(* waits for nothing.                                                      *)
THEOREM SomeNodeGoesOn ==
  Spec => []((\E n \in Nodes : outcome[n] = "pending") => \E n \in Nodes : GoesOn(n))
<1>1. ASSUME EndedInv, \E n \in Nodes : outcome[n] = "pending" PROVE \E n \in Nodes : GoesOn(n)
  <2> DEFINE T == {n \in Nodes : outcome[n] = "pending"}
  <2>1. T \in SUBSET Nat /\ T # {}
    BY <1>1, ContinuationsAssumption DEF Nodes
  <2>2. PICK n \in T : \A m \in T : n <= m
    <3> HIDE DEF T
    <3> QED
      BY <2>1, Least
  <2>3. n \in Nodes /\ at[n] \in {"queued", "working"}
    BY <1>1, <2>2 DEF EndedInv, TypeOK
  <2>4. \A i \in Inputs[n] : outcome[i] \in {"value"} \cup Errors
    <3>1. \A i \in Inputs[n] : i \in Nodes /\ i \notin T
      BY <2>2, <2>3, ContinuationsAssumption DEF Nodes
    <3> QED
      BY <1>1, <3>1 DEF EndedInv, TypeOK
  <2>5. \A e \in Errors : e # "pending"
    BY DEF Errors, Thrown
  <2>6. GetsValues(n) \/ \E e \in Errors : GetsError(n, e)
    BY <2>4, <2>5, ContinuationsAssumption DEF GetsValues, GetsError
  <2> QED
    BY <2>3, <2>6 DEF GoesOn
<1> QED
  BY <1>1, EndedInvariance, PTL
================================================================================
