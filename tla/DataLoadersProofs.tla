-------------------------- MODULE DataLoadersProofs --------------------------
(***************************************************************************)
(* Theorems about DataLoaders, for any number of loads through any layers, *)
(* and answers of any length.                                              *)
(*                                                                         *)
(* The inductive invariant.  The tasks of a load are in the queue in the   *)
(* order in which its layers come, so that whoever runs finds the result   *)
(* of the layer below; a response is what the server has sent, up to the   *)
(* callback that is being called; and nobody destroys a layer that a task  *)
(* in the queue, or a call under way, is going to use.                     *)
(***************************************************************************)
EXTENDS DataLoaders, SequenceTheorems, TLAPS

(* Layer y has dispatched its task for call l.                             *)
Sent(y, l) == Via[l] <= y /\ call[l] \in 1 .. y

CallInv == \A l \in Loads : call[l] = 0 \/ Via[l] <= call[l]

QueueInv ==
  /\ \A k \in 1 .. Len(waiting) :
       Sent(waiting[k][1], waiting[k][2]) /\ outcome[waiting[k]] = "pending"
  /\ \A j, k \in 1 .. Len(waiting) : waiting[j] = waiting[k] => j = k

(* The layer below has its result, or its task is ahead in the queue.      *)
OrderInv ==
  \A k \in 1 .. Len(waiting) : waiting[k][1] # Client =>
    LET below == Task(waiting[k][1] + 1, waiting[k][2])
    IN  outcome[below] # "pending" \/ \E j \in 1 .. k - 1 : waiting[j] = below

ResultInv ==
  \A y \in Setup .. Client, l \in Loads :
    /\ outcome[Task(y, l)] # "pending" => Sent(y, l)
    /\ Sent(y, l) /\ outcome[Task(y, l)] = "pending" =>
         \E k \in 1 .. Len(waiting) : waiting[k] = Task(y, l)
    /\ y # Client /\ outcome[Task(y, l)] # "pending" =>
         outcome[Task(y + 1, l)] # "pending"

RunInv ==
  /\ \A task \in active : waiting # << >> /\ active = {task} /\ task = Running
  /\ transfer # "none" <=> active # {} /\ Running[1] = Client

(* What libcurl has handed over is in the response, but for what it is     *)
(* handing over now.                                                       *)
AnswerInv ==
  /\ transfer \in {"none", "init"} => served = Empty /\ resp = Empty
  /\ transfer \in {"perform", "status"} =>
       resp.headers = served.headers /\ resp.body = served.body
  /\ transfer = "header" =>
       served.headers = Append(resp.headers, served.code) /\ resp.body = served.body
  /\ transfer = "piece" =>
       resp.headers = served.headers /\ served.body = Append(resp.body, Len(served.body))
  /\ transfer = "returned" => resp = served

LifeInv ==
  /\ \A k \in 1 .. Len(waiting) : waiting[k][1] \notin gone /\ Dispatcher \notin gone
  /\ \A l \in Loads : Calling(l) => InUse(l) \cap (gone \cup Freed(closing)) = {}
  /\ closing # 0 /\ ~Joins(closing) =>
       \A k \in 1 .. Len(waiting) : InUse(waiting[k][2]) \cap Freed(closing) = {}

DInv == /\ TypeOK /\ CallInv /\ QueueInv /\ OrderInv /\ ResultInv
        /\ RunInv /\ AnswerInv /\ LifeInv
-----------------------------------------------------------------------------
LEMMA Pairs ==
  /\ \A t \in Tasks : t[1] \in 1 .. 3 /\ t[2] \in Loads /\ t = Task(t[1], t[2])
  /\ \A y \in 1 .. 3, l \in Loads : Task(y, l) \in Tasks /\ Task(y, l)[1] = y /\ Task(y, l)[2] = l
  /\ \A y, z, l, m : Task(y, l) = Task(z, m) => y = z /\ l = m
BY DEF Task, Tasks, Setup, Client

(* The queue is not touched.                                               *)
LEMMA QueueStays ==
  ASSUME DInv, UNCHANGED <<waiting, outcome>>,
         \A l \in Loads : call'[l] = call[l] \/ (call[l] = 4 /\ call'[l] = 0)
  PROVE  CallInv' /\ QueueInv' /\ OrderInv' /\ ResultInv'
<1>1. \A y \in 1 .. 3, l \in Loads : Sent(y, l)' <=> Sent(y, l)
  BY DEF Sent
<1>2. waiting \in Seq(Tasks) /\ \A k \in 1 .. Len(waiting) : waiting[k] \in Tasks
  BY DEF DInv, TypeOK
<1>3. CallInv'
  BY DEF DInv, CallInv
<1>4. QueueInv'
  BY <1>1, <1>2, Pairs DEF DInv, QueueInv
<1>5. OrderInv'
  BY DEF DInv, OrderInv
<1>6. ResultInv'
  BY <1>1 DEF DInv, ResultInv, Setup, Client
<1> QED
  BY <1>3, <1>4, <1>5, <1>6

(* A layer dispatches its task: the layer below has done so already.       *)
LEMMA QueueGrows ==
  ASSUME DInv, NEW l \in Loads, NEW y \in 1 .. 3, Dispatch(l, y)
  PROVE  CallInv' /\ QueueInv' /\ OrderInv' /\ ResultInv'
<1> DEFINE t == Task(y, l)  n == Len(waiting)
<1>1. /\ waiting \in Seq(Tasks) /\ n \in Nat /\ t \in Tasks /\ t[1] = y /\ t[2] = l
      /\ \A k \in 1 .. n : waiting[k] \in Tasks
      /\ call \in [Loads -> 0 .. 4] /\ Via[l] \in 1 .. 3
  BY Pairs, LoadsAssumption DEF DInv, TypeOK, Dispatcher, Setup, Client
<1>2. /\ waiting' = Append(waiting, t) /\ outcome' = outcome
      /\ call' = [call EXCEPT ![l] = y] /\ Via[l] <= y /\ call[l] = y + 1
  BY DEF Dispatch, Queue!Submit
<1>3. /\ Len(waiting') = n + 1 /\ waiting'[n + 1] = t
      /\ \A k \in 1 .. n : waiting'[k] = waiting[k]
  BY <1>1, <1>2
<1>4. \A z \in 1 .. 3, m \in Loads : Sent(z, m)' <=> Sent(z, m) \/ (z = y /\ m = l)
  <2> SUFFICES ASSUME NEW z \in 1 .. 3, NEW m \in Loads
               PROVE  Sent(z, m)' <=> Sent(z, m) \/ (z = y /\ m = l)
    OBVIOUS
  <2>1. CASE m = l
    <3>1. call'[m] = y /\ call[m] = y + 1
      BY <1>1, <1>2, <2>1
    <3> QED
      BY <1>1, <1>2, <2>1, <3>1 DEF Sent
  <2>2. CASE m # l
    BY <1>1, <1>2, <2>2 DEF Sent
  <2> QED
    BY <2>1, <2>2
<1>5. ~Sent(y, l) /\ outcome[t] = "pending"
  BY <1>1, <1>2 DEF Sent, DInv, ResultInv, Setup, Client
<1>6. \A k \in 1 .. n : waiting[k] # t
  BY <1>1, <1>5 DEF DInv, QueueInv
<1>7. CallInv'
  BY <1>1, <1>2 DEF DInv, CallInv
<1>8. QueueInv'
  <2>1. ASSUME NEW k \in 1 .. n + 1
        PROVE  /\ Via[waiting'[k][2]] <= waiting'[k][1]
               /\ call'[waiting'[k][2]] \in 1 .. waiting'[k][1]
               /\ outcome'[waiting'[k]] = "pending"
    <3>1. CASE k = n + 1
      <4>1. waiting'[k] = t /\ call'[l] = y /\ y \in 1 .. y
        BY <1>1, <1>2, <1>3, <3>1
      <4> QED
        BY <1>1, <1>2, <1>5, <4>1
    <3>2. CASE k # n + 1
      <4>1. PICK z \in 1 .. 3, m \in Loads :
              waiting[k] = Task(z, m) /\ waiting[k][1] = z /\ waiting[k][2] = m
        BY <1>1, <3>2, Pairs
      <4>2. k \in 1 .. n /\ waiting'[k] = waiting[k]
        BY <1>1, <1>3, <3>2
      <4>3. Sent(z, m) /\ outcome[waiting[k]] = "pending"
        BY <4>1, <4>2 DEF DInv, QueueInv
      <4>4. Via[m] <= z /\ call'[m] \in 1 .. z
        BY <1>4, <4>3 DEF Sent
      <4> QED
        BY <1>2, <4>1, <4>2, <4>3, <4>4
    <3> QED
      BY <3>1, <3>2
  <2>2. \A j, k \in 1 .. n : waiting[j] = waiting[k] => j = k
    BY DEF DInv, QueueInv
  <2>3. \A j, k \in 1 .. n + 1 : waiting'[j] = waiting'[k] => j = k
    BY <1>1, <1>3, <1>6, <2>2
  <2> QED
    BY <1>3, <2>1, <2>3 DEF QueueInv, Sent
<1>9. OrderInv'
  <2> SUFFICES ASSUME NEW k \in 1 .. n + 1, waiting'[k][1] # 3
               PROVE  LET below == Task(waiting'[k][1] + 1, waiting'[k][2])
                      IN  outcome'[below] # "pending" \/ \E j \in 1 .. k - 1 : waiting'[j] = below
    BY <1>3 DEF OrderInv, Client
  <2>1. CASE k = n + 1
    <3>1. y \in 1 .. 2 /\ waiting'[k] = t
      BY <1>1, <1>3, <2>1
    <3>2. Sent(y + 1, l)
      BY <1>1, <1>2, <3>1 DEF Sent
    <3>3. outcome[Task(y + 1, l)] # "pending" \/ \E j \in 1 .. n : waiting[j] = Task(y + 1, l)
      BY <3>1, <3>2 DEF DInv, ResultInv, Setup, Client
    <3> QED
      BY <1>1, <1>2, <1>3, <2>1, <3>1, <3>3
  <2>2. CASE k # n + 1
    <3>1. k \in 1 .. n /\ waiting'[k] = waiting[k] /\ \A j \in 1 .. k - 1 : waiting'[j] = waiting[j]
      BY <1>1, <1>3, <2>2
    <3> QED
      BY <1>2, <3>1 DEF DInv, OrderInv, Client
  <2> QED
    BY <2>1, <2>2
<1>10. ResultInv'
  <2> SUFFICES ASSUME NEW z \in 1 .. 3, NEW m \in Loads
               PROVE  /\ outcome'[Task(z, m)] # "pending" => Sent(z, m)'
                      /\ Sent(z, m)' /\ outcome'[Task(z, m)] = "pending" =>
                           \E k \in 1 .. n + 1 : waiting'[k] = Task(z, m)
                      /\ z # 3 /\ outcome'[Task(z, m)] # "pending" =>
                           outcome'[Task(z + 1, m)] # "pending"
    BY <1>3 DEF ResultInv, Setup, Client
  <2>1. /\ outcome[Task(z, m)] # "pending" => Sent(z, m)
        /\ Sent(z, m) /\ outcome[Task(z, m)] = "pending" =>
             \E k \in 1 .. n : waiting[k] = Task(z, m)
        /\ z # 3 /\ outcome[Task(z, m)] # "pending" => outcome[Task(z + 1, m)] # "pending"
    BY DEF DInv, ResultInv, Setup, Client
  <2>2. (\E k \in 1 .. n : waiting[k] = Task(z, m)) =>
          \E k \in 1 .. n + 1 : waiting'[k] = Task(z, m)
    BY <1>1, <1>3
  <2>3. n + 1 \in 1 .. n + 1
    BY <1>1
  <2> QED
    BY <1>2, <1>3, <1>4, <2>1, <2>2, <2>3
<1> QED
  BY <1>7, <1>8, <1>9, <1>10

(* The task at the head gets its result and leaves the queue.              *)
LEMMA QueueShrinks ==
  ASSUME DInv, waiting # << >>, NEW result, result # "pending",
         Queue!Settle(Running, result), call' = call
  PROVE  CallInv' /\ QueueInv' /\ OrderInv' /\ ResultInv'
<1> DEFINE n == Len(waiting)
<1>1. /\ waiting \in Seq(Tasks) /\ n \in Nat \ {0} /\ Running = waiting[1] /\ Running \in Tasks
      /\ \A k \in 1 .. n : waiting[k] \in Tasks
  BY DEF DInv, TypeOK, Running
<1>2. /\ Len(waiting') = n - 1 /\ \A k \in 1 .. n - 1 : waiting'[k] = waiting[k + 1]
      /\ \A k \in 1 .. n - 1 : k + 1 \in 1 .. n /\ k + 1 # 1
  BY <1>1 DEF Queue!Settle
<1>3. /\ outcome \in [Tasks -> {"pending", "value", "error", "interrupted", "broken"}]
      /\ outcome' = [outcome EXCEPT ![Running] = result]
  BY DEF Queue!Settle, DInv, TypeOK
<1>4. /\ outcome'[Running] # "pending"
      /\ \A t \in Tasks : t # Running => outcome'[t] = outcome[t]
  BY <1>1, <1>3
<1>5. \A j, k \in 1 .. n : waiting[j] = waiting[k] => j = k
  BY DEF DInv, QueueInv
<1>6. \A z, m : Sent(z, m)' <=> Sent(z, m)
  BY DEF Sent
<1>7. CallInv'
  BY DEF DInv, CallInv
<1>8. QueueInv'
  <2>1. \A k \in 1 .. n - 1 : waiting'[k] # Running /\ waiting'[k] \in Tasks
    BY <1>1, <1>2, <1>5
  <2>2. \A k \in 1 .. n - 1 :
           Sent(waiting'[k][1], waiting'[k][2]) /\ outcome'[waiting'[k]] = "pending"
    BY <1>2, <1>4, <2>1 DEF DInv, QueueInv
  <2>3. \A j, k \in 1 .. n - 1 : waiting'[j] = waiting'[k] => j = k
    BY <1>1, <1>2, <1>5
  <2> QED
    BY <1>2, <2>2, <2>3 DEF QueueInv, Sent
<1>9. OrderInv'
  <2> SUFFICES ASSUME NEW k \in 1 .. n - 1, waiting'[k][1] # 3
               PROVE  LET below == Task(waiting'[k][1] + 1, waiting'[k][2])
                      IN  outcome'[below] # "pending" \/ \E j \in 1 .. k - 1 : waiting'[j] = below
    BY <1>2 DEF OrderInv, Client
  <2> DEFINE below == Task(waiting[k + 1][1] + 1, waiting[k + 1][2])
  <2>1. waiting'[k] = waiting[k + 1] /\ k + 1 \in 1 .. n /\ waiting[k + 1][1] # 3 /\ waiting[k + 1] \in Tasks
    BY <1>1, <1>2
  <2>2. below \in Tasks
    BY <2>1, Pairs
  <2>3. outcome[below] # "pending" \/ \E j \in 1 .. (k + 1) - 1 : waiting[j] = below
    BY <2>1 DEF DInv, OrderInv, Client
  <2>4. CASE below = Running
    BY <1>4, <2>1, <2>4
  <2>5. CASE outcome[below] # "pending" /\ below # Running
    BY <1>4, <2>1, <2>2, <2>5
  <2>6. CASE below # Running /\ \E j \in 1 .. (k + 1) - 1 : waiting[j] = below
    <3>1. PICK j \in 1 .. (k + 1) - 1 : waiting[j] = below
      BY <2>6
    <3>2. j - 1 \in 1 .. k - 1 /\ j - 1 \in 1 .. n - 1 /\ (j - 1) + 1 = j
      BY <1>1, <2>6, <3>1
    <3>3. waiting'[j - 1] = below
      BY <1>2, <3>1, <3>2
    <3> QED
      BY <2>1, <3>2, <3>3
  <2> QED
    BY <2>3, <2>4, <2>5, <2>6
<1>10. ResultInv'
  <2> SUFFICES ASSUME NEW z \in 1 .. 3, NEW m \in Loads
               PROVE  /\ outcome'[Task(z, m)] # "pending" => Sent(z, m)
                      /\ Sent(z, m) /\ outcome'[Task(z, m)] = "pending" =>
                           \E k \in 1 .. n - 1 : waiting'[k] = Task(z, m)
                      /\ z # 3 /\ outcome'[Task(z, m)] # "pending" =>
                           outcome'[Task(z + 1, m)] # "pending"
    BY <1>2, <1>6 DEF ResultInv, Setup, Client
  <2>1. /\ outcome[Task(z, m)] # "pending" => Sent(z, m)
        /\ Sent(z, m) /\ outcome[Task(z, m)] = "pending" =>
             \E k \in 1 .. n : waiting[k] = Task(z, m)
        /\ z # 3 /\ outcome[Task(z, m)] # "pending" => outcome[Task(z + 1, m)] # "pending"
    BY DEF DInv, ResultInv, Setup, Client
  <2>2. Task(z, m) \in Tasks /\ (z # 3 => Task(z + 1, m) \in Tasks) /\ Task(z, m)[1] = z /\ Task(z, m)[2] = m
    BY Pairs
  <2>3. CASE Task(z, m) = Running
    <3>1. Sent(z, m) /\ (z # 3 => outcome[Task(z + 1, m)] # "pending")
      BY <1>1, <2>2, <2>3 DEF DInv, QueueInv, OrderInv, Client
    <3> QED
      BY <1>4, <2>2, <2>3, <3>1
  <2>4. CASE Task(z, m) # Running
    <3>1. \A k \in 1 .. n : waiting[k] = Task(z, m) =>
             k - 1 \in 1 .. n - 1 /\ waiting'[k - 1] = Task(z, m)
      BY <1>1, <1>2, <2>4
    <3> QED
      BY <1>4, <2>1, <2>2, <2>4, <3>1
  <2> QED
    BY <2>3, <2>4
<1> QED
  BY <1>7, <1>8, <1>9, <1>10

(* The dispatcher is destroyed, and its queue with it.                     *)
LEMMA QueueGoes ==
  ASSUME DInv, Queue!Discard, call' = call
  PROVE  CallInv' /\ QueueInv' /\ OrderInv' /\ ResultInv'
<1> DEFINE n == Len(waiting)
<1>1. /\ waiting' = << >> /\ Len(waiting') = 0
      /\ \A t \in Tasks : (\E k \in 1 .. n : waiting[k] = t) => outcome'[t] = "broken"
      /\ \A t \in Tasks : ~(\E k \in 1 .. n : waiting[k] = t) => outcome'[t] = outcome[t]
  BY DEF Queue!Discard
<1>2. \A z, m : Sent(z, m)' <=> Sent(z, m)
  BY DEF Sent
<1>3. CallInv'
  BY DEF DInv, CallInv
<1>4. QueueInv' /\ OrderInv'
  BY <1>1 DEF QueueInv, OrderInv
<1>5. ResultInv'
  <2> SUFFICES ASSUME NEW z \in 1 .. 3, NEW m \in Loads
               PROVE  /\ outcome'[Task(z, m)] # "pending" => Sent(z, m)
                      /\ ~(Sent(z, m) /\ outcome'[Task(z, m)] = "pending")
                      /\ z # 3 /\ outcome'[Task(z, m)] # "pending" =>
                           outcome'[Task(z + 1, m)] # "pending"
    BY <1>2 DEF ResultInv, Setup, Client
  <2>1. /\ outcome[Task(z, m)] # "pending" => Sent(z, m)
        /\ Sent(z, m) /\ outcome[Task(z, m)] = "pending" =>
             \E k \in 1 .. n : waiting[k] = Task(z, m)
        /\ z # 3 /\ outcome[Task(z, m)] # "pending" => outcome[Task(z + 1, m)] # "pending"
    BY DEF DInv, ResultInv, Setup, Client
  <2>2. Task(z, m) \in Tasks /\ (z # 3 => Task(z + 1, m) \in Tasks) /\ Task(z, m)[1] = z /\ Task(z, m)[2] = m
    BY Pairs
  <2>3. CASE \E k \in 1 .. n : waiting[k] = Task(z, m)
    <3>1. PICK k \in 1 .. n : waiting[k] = Task(z, m)
      BY <2>3
    <3>2. Sent(z, m)
      BY <2>2, <3>1 DEF DInv, QueueInv
    <3>3. z # 3 => \/ outcome[Task(z + 1, m)] # "pending"
                   \/ \E j \in 1 .. k - 1 : waiting[j] = Task(z + 1, m)
      BY <2>2, <3>1 DEF DInv, OrderInv, Client
    <3>4. \A j \in 1 .. k - 1 : j \in 1 .. n
      BY DEF DInv, TypeOK
    <3> QED
      BY <1>1, <2>2, <3>1, <3>2, <3>3, <3>4
  <2>4. CASE ~ \E k \in 1 .. n : waiting[k] = Task(z, m)
    BY <1>1, <2>1, <2>2, <2>4
  <2> QED
    BY <2>3, <2>4
<1> QED
  BY <1>3, <1>4, <1>5
-----------------------------------------------------------------------------
(* A transfer: the response follows what the server has sent.              *)
LEMMA TransferSteps ==
  ASSUME TransferTypeOK, AnswerInv, NEW cut, Transfer(cut)
  PROVE  TransferTypeOK' /\ AnswerInv' /\ transfer # "none" /\ transfer' # "none"
<1> USE DEF TransferTypeOK, AnswerInv, Answer, InCallback, Goto
<1>1. CASE Prepare
  BY <1>1 DEF Prepare, Empty
<1>2. CASE StatusLine
  BY <1>2 DEF StatusLine, Arrive
<1>3. CASE HeaderLine
  <2>1. /\ transfer = "perform" /\ transfer' = "header" /\ resp' = resp
        /\ served' = [served EXCEPT !.headers = Append(served.headers, served.code)]
    BY <1>3 DEF HeaderLine, Arrive
  <2>2. Append(served.headers, served.code) \in Seq(Nat)
    OBVIOUS
  <2>3. /\ served' \in Answer /\ served'.code = served.code /\ served'.body = served.body
        /\ served'.headers = Append(served.headers, served.code)
    BY <2>1, <2>2
  <2>4. resp.headers = served.headers /\ resp.body = served.body
    BY <2>1
  <2> HIDE DEF Answer
  <2> QED
    BY <2>1, <2>3, <2>4
<1>4. CASE Piece
  <2>1. /\ transfer = "perform" /\ transfer' = "piece" /\ resp' = resp
        /\ served' = [served EXCEPT !.body = Append(served.body, Len(served.body) + 1)]
    BY <1>4 DEF Piece, Arrive
  <2>2. /\ Append(served.body, Len(served.body) + 1) \in Seq(Nat)
        /\ Len(Append(served.body, Len(served.body) + 1)) = Len(served.body) + 1
    OBVIOUS
  <2>3. /\ served' \in Answer /\ served'.headers = served.headers
        /\ served'.body = Append(served.body, Len(served'.body))
    BY <2>1, <2>2
  <2>4. resp.headers = served.headers /\ resp.body = served.body
    BY <2>1
  <2> HIDE DEF Answer
  <2> QED
    BY <2>1, <2>3, <2>4
<1>5. CASE Write(cut)
  BY <1>5 DEF Write, Added, AddHeader, AddPiece
<1>6. CASE Perform
  BY <1>6 DEF Perform
<1> QED
  BY <1>1, <1>2, <1>3, <1>4, <1>5, <1>6 DEF Transfer

(* A layer that is not destroyed is in no chain that is.                   *)
LEMMA NothingFreed == ASSUME TypeOK PROVE Freed(0) = {}
BY DEF TypeOK, Freed, Layers, Setup, Client, Dispatcher

(* The objects that a task of the queue uses stay, if no call goes back to *)
(* dispatching and the queue gets no new tasks.                            *)
LEMMA LifeStays ==
  ASSUME DInv, UNCHANGED objectVars, 
         \A k \in 1 .. Len(waiting') : \E j \in 1 .. Len(waiting) : waiting'[k] = waiting[j],
         \A l \in Loads : call'[l] = call[l] \/ call'[l] = 0
  PROVE  LifeInv'
<1>1. Freed(closing)' = Freed(closing) /\ (Joins(closing)' <=> Joins(closing))
  BY DEF objectVars, Freed, Joins
<1>2. \A l \in Loads : Calling(l)' => Calling(l)
  BY DEF Calling
<1> QED
  BY <1>1, <1>2 DEF DInv, LifeInv, objectVars

(* An object is not destroyed under a call, nor before the results of the  *)
(* calls that use it: their tasks have left the queue.                     *)
LEMMA LifeBegins ==
  ASSUME DInv, NEW x \in Layers, BeginDestroy(x)
  PROVE  LifeInv'
<1> USE DEF Setup, Client, Dispatcher, Layers
<1>1. /\ closing = 0 /\ closing' = x /\ owns' = owns /\ gone' = gone
      /\ waiting' = waiting /\ call' = call
      /\ \A l \in UsersOf(x) : ~Calling(l) /\ (Joins(x) \/ call[l] # Via[l] \/ Settled(l))
  BY DEF BeginDestroy, MayDestroy, queueVars
<1>2. Freed(closing)' = Freed(x) /\ (Joins(closing)' <=> Joins(x))
  BY <1>1 DEF Freed, Joins
<1>3. \A l \in Loads : Calling(l)' => Calling(l) /\ InUse(l) \cap Freed(x) = {}
  BY <1>1 DEF Calling, UsersOf
<1>4. ASSUME ~Joins(x), NEW k \in 1 .. Len(waiting)
      PROVE  InUse(waiting[k][2]) \cap Freed(x) = {}
  <2> DEFINE y == waiting[k][1]  l == waiting[k][2]
  <2>1. /\ waiting[k] \in Tasks /\ y \in 1 .. 3 /\ l \in Loads /\ waiting[k] = Task(y, l)
        /\ Via[l] \in 1 .. 3
    BY Pairs, LoadsAssumption DEF DInv, TypeOK
  <2>2. Via[l] <= y /\ call[l] \in 1 .. y /\ outcome[Task(y, l)] = "pending"
    BY <2>1 DEF DInv, QueueInv, Sent
  <2>3. SUFFICES ASSUME l \in UsersOf(x) PROVE FALSE
    BY <2>1 DEF UsersOf
  <2>4. call[l] = Via[l] /\ outcome[Task(Via[l], l)] # "pending"
    BY <1>1, <1>4, <2>2, <2>3, <2>1 DEF Calling, Settled, Result
  <2>5. \A z \in 1 .. 2 : outcome[Task(z, l)] # "pending" => outcome[Task(z + 1, l)] # "pending"
    BY <2>1 DEF DInv, ResultInv
  <2>6. /\ outcome[Task(1, l)] # "pending" => outcome[Task(2, l)] # "pending"
        /\ outcome[Task(2, l)] # "pending" => outcome[Task(3, l)] # "pending"
    BY <2>5
  <2> QED
    BY <2>1, <2>2, <2>4, <2>6
<1> QED
  BY <1>1, <1>2, <1>3, <1>4 DEF DInv, LifeInv, InUse

LEMMA LifeEnds ==
  ASSUME DInv, EndDestroy
  PROVE  LifeInv'
<1> USE DEF Setup, Client, Dispatcher, Layers
<1>1. /\ closing # 0 /\ closing' = 0 /\ gone' = gone \cup Freed(closing)
      /\ call' = call /\ owns' = owns /\ waiting' = (IF Joins(closing) THEN << >> ELSE waiting)
  BY DEF EndDestroy, Queue!Discard, queueVars
<1>2. Freed(closing)' = {}
  <2>1. TypeOK /\ Freed(closing)' = Freed(0)
    BY <1>1 DEF DInv, Freed
  <2> QED
    BY <2>1, NothingFreed
<1>3. \A l \in Loads : Calling(l)' => InUse(l) \cap (gone \cup Freed(closing))' = {}
  BY <1>1, <1>2 DEF DInv, LifeInv, Calling
<1>4. \A k \in 1 .. Len(waiting') : waiting'[k][1] \notin gone' /\ 4 \notin gone'
  <2>1. CASE Joins(closing)
    BY <1>1, <2>1
  <2>2. CASE ~Joins(closing)
    <3> SUFFICES ASSUME NEW k \in 1 .. Len(waiting)
                 PROVE  waiting[k][1] \notin gone' /\ 4 \notin gone'
      BY <1>1, <2>2
    <3>1. waiting[k][1] \in 1 .. 3 /\ waiting[k][2] \in Loads /\ Via[waiting[k][2]] \in 1 .. 3
      BY Pairs, LoadsAssumption DEF DInv, TypeOK
    <3>2. {waiting[k][1], 4} \subseteq InUse(waiting[k][2])
      BY <3>1 DEF DInv, QueueInv, Sent, InUse
    <3> QED
      BY <1>1, <2>2, <3>2 DEF DInv, LifeInv
  <2> QED
    BY <2>1, <2>2
<1> QED
  BY <1>1, <1>2, <1>3, <1>4 DEF LifeInv

LEMMA LifeGoesOn ==
  ASSUME DInv, NEW l \in Loads, NEW y \in 1 .. 3, Dispatch(l, y)
  PROVE  LifeInv'
<1> USE DEF Setup, Client, Dispatcher, Layers
<1> DEFINE n == Len(waiting)
<1>1. /\ Via[l] <= y /\ call[l] = y + 1 /\ call' = [call EXCEPT ![l] = y]
      /\ y = 3 => InUse(l) \cap (gone \cup Freed(closing)) = {}
      /\ waiting' = Append(waiting, Task(y, l)) /\ closing' = closing /\ gone' = gone /\ owns' = owns
      /\ Via[l] \in 1 .. 3 /\ call \in [Loads -> 0 .. 4]
      /\ waiting \in Seq(Tasks) /\ Task(y, l) \in Tasks /\ Task(y, l)[1] = y /\ Task(y, l)[2] = l
  BY Pairs, LoadsAssumption DEF Dispatch, Queue!Submit, objectVars, DInv, TypeOK
<1>2. Freed(closing)' = Freed(closing) /\ (Joins(closing)' <=> Joins(closing))
  BY <1>1 DEF Freed, Joins
<1>3. InUse(l) \cap (gone \cup Freed(closing)) = {}
  BY <1>1 DEF DInv, LifeInv, Calling
<1>4. \A m \in Loads : Calling(m)' => Calling(m) \/ m = l
  BY <1>1 DEF Calling
<1>5. y \in InUse(l) /\ 4 \in InUse(l)
  BY <1>1 DEF InUse
<1>6. \A k \in 1 .. Len(waiting') :
         \/ k \in 1 .. n /\ waiting'[k] = waiting[k]
         \/ waiting'[k][1] = y /\ waiting'[k][2] = l
  BY <1>1
<1>7. \A k \in 1 .. Len(waiting') : waiting'[k][1] \notin gone /\ 4 \notin gone
  BY <1>3, <1>5, <1>6 DEF DInv, LifeInv
<1>8. closing # 0 /\ ~Joins(closing) =>
         \A k \in 1 .. Len(waiting') : InUse(waiting'[k][2]) \cap Freed(closing) = {}
  BY <1>3, <1>6 DEF DInv, LifeInv
<1>9. \A m \in Loads : Calling(m)' => InUse(m) \cap (gone \cup Freed(closing)) = {}
  BY <1>3, <1>4 DEF DInv, LifeInv
<1> QED
  BY <1>1, <1>2, <1>7, <1>8, <1>9 DEF LifeInv, InUse
-----------------------------------------------------------------------------
LEMMA LoadersInit == Init => DInv
<1> SUFFICES ASSUME Init PROVE DInv
  OBVIOUS
<1> USE LoadsAssumption DEF Init, Queue!Init, TransferInit, Setup, Client, Dispatcher
<1>1. TypeOK
  BY DEF TypeOK, TransferTypeOK, Answer, Empty, Tasks
<1>2. CallInv /\ QueueInv /\ OrderInv /\ ResultInv
  BY Pairs DEF CallInv, QueueInv, OrderInv, ResultInv, Sent
<1>3. RunInv /\ AnswerInv
  BY DEF RunInv, AnswerInv, InCallback
<1>4. LifeInv
  BY DEF LifeInv, Calling
<1> QED
  BY <1>1, <1>2, <1>3, <1>4 DEF DInv

(* One step per action of the clients, of the owners, and of the thread.   *)
LEMMA LoadersStep == DInv /\ [Next]_vars => DInv'
<1> SUFFICES ASSUME DInv, [Next]_vars PROVE DInv'
  OBVIOUS
<1> DEFINE QI == CallInv /\ QueueInv /\ OrderInv /\ ResultInv
<1>t. TypeOK /\ waiting \in Seq(Tasks) /\ RunInv /\ AnswerInv
  BY DEF DInv, TypeOK
<1>1. ASSUME NEW l \in Loads, Throw(l) PROVE DInv'
  <2> USE <1>1 DEF Throw, queueVars, transferVars, objectVars
  <2>1. TypeOK'
    BY <1>t DEF TypeOK, TransferTypeOK, Dispatcher
  <2>2. QI'
    BY <1>t, QueueStays DEF TypeOK, Dispatcher
  <2>3. RunInv' /\ AnswerInv'
    BY <1>t DEF RunInv, AnswerInv, Running
  <2>4. LifeInv'
    BY <1>t, LifeStays DEF TypeOK
  <2> QED
    BY <2>1, <2>2, <2>3, <2>4 DEF DInv
<1>2. ASSUME NEW l \in Loads, Interrupt(l) PROVE DInv'
  <2> USE <1>2 DEF Interrupt, queueVars, transferVars, objectVars
  <2>1. TypeOK'
    BY <1>t DEF TypeOK, TransferTypeOK
  <2>2. QI'
    BY QueueStays
  <2>3. RunInv' /\ AnswerInv'
    BY <1>t DEF RunInv, AnswerInv, Running
  <2>4. LifeInv'
    BY LifeStays
  <2> QED
    BY <2>1, <2>2, <2>3, <2>4 DEF DInv
<1>3. ASSUME NEW l \in Loads, NEW y \in Setup .. Client, Dispatch(l, y) PROVE DInv'
  <2>0. y \in 1 .. 3 /\ Task(y, l) \in Tasks
    BY Pairs DEF Setup, Client
  <2>1. TypeOK'
    BY <1>t, <1>3, <2>0
       DEF TypeOK, TransferTypeOK, Dispatch, Queue!Submit, transferVars, objectVars, Dispatcher
  <2>2. QI'
    BY <1>3, <2>0, QueueGrows
  <2>3. RunInv' /\ AnswerInv'
    BY <1>t, <1>3 DEF RunInv, AnswerInv, Dispatch, Queue!Submit, transferVars, Running
  <2>4. LifeInv'
    BY <1>3, <2>0, LifeGoesOn
  <2> QED
    BY <2>1, <2>2, <2>3, <2>4 DEF DInv
<1>4. ASSUME NEW x \in Layers, BeginDestroy(x) PROVE DInv'
  <2>0. UNCHANGED <<queueVars, transferVars, call, interrupted, owns, gone>> /\ closing' = x
    BY <1>4 DEF BeginDestroy
  <2> USE <2>0 DEF queueVars, transferVars
  <2>1. TypeOK'
    BY <1>t DEF TypeOK, TransferTypeOK, Layers, Setup
  <2>2. QI'
    BY QueueStays
  <2>3. RunInv' /\ AnswerInv'
    BY <1>t DEF RunInv, AnswerInv, Running
  <2>4. LifeInv'
    BY <1>4, LifeBegins
  <2> QED
    BY <2>1, <2>2, <2>3, <2>4 DEF DInv
<1>5. ASSUME EndDestroy PROVE DInv'
  <2> USE <1>5 DEF EndDestroy, transferVars
  <2>1. TypeOK'
    <3>1. (waiting' = waiting \/ waiting' = << >>) /\ active' = active /\ << >> \in Seq(Tasks)
      BY DEF Queue!Discard, queueVars
    <3>2. outcome' \in [Tasks -> {"pending", "value", "error", "interrupted", "broken"}]
      BY <1>t DEF TypeOK, Queue!Discard, queueVars
    <3>3. gone' \in SUBSET Layers /\ closing' \in 0 .. Dispatcher
      BY <1>t DEF TypeOK, Freed, Dispatcher
    <3> QED
      BY <1>t, <3>1, <3>2, <3>3 DEF TypeOK, TransferTypeOK
  <2>2. QI'
    <3>1. CASE Joins(closing)
      BY <3>1, QueueGoes
    <3>2. CASE ~Joins(closing)
      BY <3>2, QueueStays DEF queueVars
    <3> QED
      BY <3>1, <3>2
  <2>3. RunInv' /\ AnswerInv'
    BY <1>t DEF RunInv, AnswerInv, Running, Queue!Discard, queueVars
  <2>4. LifeInv'
    BY LifeEnds
  <2> QED
    BY <2>1, <2>2, <2>3, <2>4 DEF DInv
<1>6. ASSUME Start PROVE DInv'
  <2>0. /\ waiting # << >> /\ active = {} /\ active' = {Running} /\ Running \in Tasks
        /\ UNCHANGED <<waiting, outcome, call, interrupted, served, resp, owns, closing, gone>>
        /\ transfer' = IF Running[1] = Client THEN "init" ELSE transfer
        /\ transfer = "none"
    BY <1>t, <1>6 DEF Start, Queue!Start, Goto, objectVars, Running, RunInv
  <2>1. TypeOK'
    BY <1>t, <2>0 DEF TypeOK, TransferTypeOK
  <2>2. QI'
    BY <2>0, QueueStays
  <2>3. RunInv' /\ AnswerInv'
    BY <1>t, <2>0 DEF RunInv, AnswerInv, Running
  <2>4. LifeInv'
    BY <2>0, LifeStays DEF objectVars
  <2> QED
    BY <2>1, <2>2, <2>3, <2>4 DEF DInv
<1>7. ASSUME waiting # << >>, active' = {}, NEW result \in {"value", "error", "interrupted"},
             Queue!Settle(Running, result),
             UNCHANGED <<call, interrupted, objectVars>>,
             \/ UNCHANGED transferVars /\ transfer = "none"
             \/ transfer' = "none" /\ served' = Empty /\ resp' = Empty
      PROVE  DInv'
  <2> USE <1>7 DEF objectVars, transferVars
  <2>0. waiting' = Tail(waiting) /\ outcome' = [outcome EXCEPT ![Running] = result]
    BY DEF Queue!Settle
  <2>1. TypeOK'
    <3>1. waiting' \in Seq(Tasks)
      BY <1>t, <2>0
    <3>2. outcome' \in [Tasks -> {"pending", "value", "error", "interrupted", "broken"}]
      BY <1>t, <2>0 DEF TypeOK
    <3>3. Empty \in Answer
      BY DEF Empty, Answer
    <3> QED
      BY <1>t, <3>1, <3>2, <3>3 DEF TypeOK, TransferTypeOK
  <2>2. QI'
    BY QueueShrinks
  <2>3. RunInv' /\ AnswerInv'
    BY <1>t DEF RunInv, AnswerInv, InCallback
  <2>4. LifeInv'
    <3>1. \A k \in 1 .. Len(waiting') : k + 1 \in 1 .. Len(waiting) /\ waiting'[k] = waiting[k + 1]
      BY <1>t, <2>0
    <3> QED
      BY <3>1, LifeStays
  <2> QED
    BY <2>1, <2>2, <2>3, <2>4 DEF DInv
<1>8. ASSUME Cancel PROVE DInv'
  <2>1. /\ waiting # << >> /\ active = {} /\ active' = {} /\ transfer = "none"
        /\ Queue!Settle(Running, "interrupted")
        /\ UNCHANGED <<transferVars, call, interrupted, objectVars>>
    BY <1>8, <1>t DEF Cancel, Queue!Cancel, Running, RunInv
  <2> QED
    BY <1>7, <2>1
<1>9. ASSUME Request PROVE DInv'
  <2>0. Transfer(Cut) /\ UNCHANGED <<queueVars, call, interrupted, objectVars>>
    BY <1>9 DEF Request
  <2> USE <2>0 DEF queueVars, objectVars
  <2>0a. TransferTypeOK' /\ AnswerInv' /\ transfer # "none" /\ transfer' # "none"
    BY <1>t, TransferSteps DEF TypeOK
  <2>1. TypeOK'
    BY <1>t, <2>0a DEF TypeOK
  <2>2. QI'
    BY QueueStays
  <2>3. RunInv'
    BY <1>t, <2>0a DEF RunInv, Running
  <2>4. LifeInv'
    BY LifeStays
  <2> QED
    BY <2>0a, <2>1, <2>2, <2>3, <2>4 DEF DInv
<1>10. ASSUME NEW result \in {"value", "error", "interrupted"}, EndRequest(result) PROVE DInv'
  BY <1>7, <1>10 DEF EndRequest, Queue!Finish, Running
<1>11. ASSUME NEW result \in {"value", "error", "interrupted"}, EndCallback(result) PROVE DInv'
  <2>1. /\ waiting # << >> /\ active # {} /\ active' = {} /\ Running[1] # Client
        /\ Queue!Settle(Running, result)
        /\ UNCHANGED <<transferVars, call, interrupted, objectVars>>
    BY <1>11 DEF EndCallback, WhenSent, SetUp, Queue!Finish, Running, Setup, Loader, Client
  <2>2. transfer = "none"
    BY <1>t, <2>1 DEF RunInv
  <2> QED
    BY <1>7, <2>1, <2>2
<1>12. CASE UNCHANGED vars
  <2> USE <1>12 DEF vars, queueVars, transferVars, objectVars
  <2>1. TypeOK' /\ RunInv' /\ AnswerInv'
    BY <1>t DEF TypeOK, TransferTypeOK, RunInv, AnswerInv, Running
  <2>2. QI'
    BY QueueStays
  <2>3. LifeInv'
    BY LifeStays
  <2> QED
    BY <2>1, <2>2, <2>3 DEF DInv
<1> QED
  BY <1>1, <1>2, <1>3, <1>4, <1>5, <1>6, <1>8, <1>9, <1>10, <1>11, <1>12 DEF Next, Process
-----------------------------------------------------------------------------
(* The order of the queue, what runs, and what is destroyed, in every      *)
(* reachable state.                                                        *)
THEOREM LoadersInvariance == Spec => []DInv
BY LoadersInit, LoadersStep, PTL DEF Spec

(* A transfer is under way exactly while send_dispatched runs; one task    *)
(* runs at a time, and it is the head of the queue; and get, in a callback *)
(* of when, finds the result of the layer below: it never blocks the       *)
(* dispatcher's only thread.                                               *)
THEOREM CallbacksNeverBlock == Spec => []LoadersInv
<1>1. DInv => LoadersInv
  <2> SUFFICES ASSUME DInv PROVE LoadersInv
    OBVIOUS
  <2>1. ASSUME NEW task \in active, task[1] # Client
        PROVE  outcome[Task(task[1] + 1, task[2])] # "pending"
    BY <2>1 DEF DInv, TypeOK, RunInv, OrderInv, Running
  <2> QED
    BY <2>1 DEF DInv, RunInv, LoadersInv
<1> QED
  BY <1>1, LoadersInvariance, PTL

(* What perform returns is the server's whole answer, whatever the number  *)
(* of redirections and the sizes of their headers and bodies.              *)
THEOREM ResponseIsWhole == Spec => []WholeResponse
<1>1. DInv => WholeResponse
  BY DEF DInv, AnswerInv, WholeResponse
<1> QED
  BY <1>1, LoadersInvariance, PTL

(* No task of send, when_sent or the set-up of the data runs on an object  *)
(* that is destroyed, if the owners keep to what MayDestroy asks of them.  *)
THEOREM NoCallbackDangles == Spec => []NothingDangling
<1>1. DInv => NothingDangling
  <2> SUFFICES ASSUME DInv, NEW task \in active
               PROVE  task[1] \notin gone /\ Dispatcher \notin gone
    BY DEF NothingDangling
  <2>1. waiting # << >> /\ task = waiting[1] /\ waiting \in Seq(Tasks)
    BY DEF DInv, TypeOK, RunInv, Running
  <2>2. 1 \in 1 .. Len(waiting)
    BY <2>1
  <2> QED
    BY <2>1, <2>2 DEF DInv, LifeInv
<1> QED
  BY <1>1, LoadersInvariance, PTL
-----------------------------------------------------------------------------
(* Interruption.  Last(l) is the task of load l whose start notices it.    *)
Last(l) == Task(IF Via[l] = Client THEN Client ELSE Loader, l)

(* The load is cut: its last chance to succeed has gone, for a transfer at *)
(* the latest when the first line of the answer comes.                     *)
CutInv(l) ==
  /\ l \in interrupted
  /\ outcome[Last(l)] # "value"
  /\ outcome[Task(Via[l], l)] # "value"
  /\ Last(l) \in active =>
       /\ Via[l] = Client
       /\ transfer \in {"init", "perform"} => served.code = 0
       /\ transfer \in {"none", "init", "perform", "status"}

(* A result stays as it is once it is there.                               *)
LEMMA ResultsStay ==
  ASSUME DInv, [Next]_vars, NEW t \in Tasks, outcome[t] # "pending"
  PROVE  outcome'[t] = outcome[t]
<1>1. \A k \in 1 .. Len(waiting) : waiting[k] # t
  BY DEF DInv, QueueInv
<1>2. waiting # << >> => Running # t
  <2>1. waiting # << >> => Running = waiting[1] /\ 1 \in 1 .. Len(waiting)
    BY DEF DInv, TypeOK, Running
  <2> QED
    BY <1>1, <2>1
<1>3. ASSUME NEW result, Queue!Settle(Running, result), waiting # << >>
      PROVE  outcome'[t] = outcome[t]
  BY <1>2, <1>3 DEF Queue!Settle, DInv, TypeOK
<1>4. CASE UNCHANGED outcome
  BY <1>4
<1>5. CASE Queue!Discard
  BY <1>1, <1>5 DEF Queue!Discard
<1>6. CASE Cancel
  BY <1>3, <1>6 DEF Cancel, Queue!Cancel, Running
<1>7. ASSUME NEW result, EndRequest(result) \/ EndCallback(result)
      PROVE  outcome'[t] = outcome[t]
  BY <1>3, <1>7 DEF EndRequest, EndCallback, Queue!Finish, Running
<1>8. CASE EndDestroy
  BY <1>4, <1>5, <1>8 DEF EndDestroy, queueVars
<1> QED
  BY <1>4, <1>6, <1>7, <1>8
     DEF Next, Process, Throw, Dispatch, Queue!Submit, Interrupt, BeginDestroy, Start, Queue!Start,
         Request, vars, queueVars

(* Only the task that runs gets a value.                                   *)
LEMMA ValuesComeFromRuns ==
  ASSUME DInv, [Next]_vars, NEW t \in Tasks, outcome[t] = "pending", outcome'[t] = "value"
  PROVE  active = {t} /\ t = Running /\ (EndRequest("value") \/ EndCallback("value"))
<1>0. TypeOK /\ RunInv
  BY DEF DInv
<1>1. ASSUME NEW result, Queue!Settle(Running, result)
      PROVE  Running = t /\ result = "value"
  BY <1>0, <1>1 DEF Queue!Settle, TypeOK
<1>2. ASSUME NEW result, EndRequest(result) \/ EndCallback(result)
      PROVE  active = {t} /\ t = Running /\ result = "value"
  BY <1>1, <1>2 DEF EndRequest, EndCallback, Queue!Finish, Running
<1>3. ~Cancel
  BY <1>1 DEF Cancel, Queue!Cancel, Running
<1>4. ~EndDestroy
  BY DEF EndDestroy, Queue!Discard, queueVars
<1>5. outcome' # outcome
  OBVIOUS
<1> QED
  BY <1>2, <1>3, <1>4, <1>5
     DEF Next, Process, Throw, Dispatch, Queue!Submit, Interrupt, BeginDestroy, Start, Queue!Start,
         Request, vars, queueVars

LEMMA LastFacts ==
  ASSUME NEW l \in Loads
  PROVE  /\ Via[l] \in 1 .. 3 /\ Last(l) \in Tasks /\ Last(l)[2] = l
         /\ Via[l] = 3 => Last(l) = Task(3, l) /\ Last(l)[1] = 3
         /\ Via[l] # 3 => Last(l) = Task(2, l) /\ Last(l)[1] = 2
         /\ Task(Via[l], l) \in Tasks
BY Pairs, LoadsAssumption DEF Last, Setup, Loader, Client

LEMMA CutBegins ==
  ASSUME DInv, NEW l \in Loads, l \in interrupted, ~Started(Last(l))
  PROVE  CutInv(l)
<1>1. outcome[Last(l)] = "pending" /\ Last(l) \notin active
  BY DEF Started
<1>2. outcome[Task(Via[l], l)] # "value"
  <2>1. \A y \in 1 .. 3 : y # 3 /\ outcome[Task(y, l)] # "pending" => outcome[Task(y + 1, l)] # "pending"
    BY DEF DInv, ResultInv, Setup, Client
  <2>2. outcome[Task(1, l)] # "pending" => outcome[Task(2, l)] # "pending"
    BY <2>1
  <2> QED
    BY <1>1, <2>2, LastFacts
<1> QED
  BY <1>1, <1>2 DEF CutInv

LEMMA CutStays ==
  ASSUME DInv, [Next]_vars, NEW l \in Loads, CutInv(l)
  PROVE  CutInv(l)'
<1>0. TypeOK /\ RunInv /\ AnswerInv /\ DInv'
  BY LoadersStep DEF DInv
<1>1. l \in interrupted'
  BY DEF CutInv, Next, Process, Throw, Dispatch, Interrupt, BeginDestroy, EndDestroy, Start, Cancel,
         Request, EndRequest, EndCallback, vars
<1>2. ASSUME outcome'[Last(l)] = "value" PROVE FALSE
  <2>1. outcome[Last(l)] = "pending"
    BY <1>2, ResultsStay, LastFacts DEF CutInv
  <2>2. /\ active = {Last(l)} /\ Last(l) = Running
        /\ EndRequest("value") \/ EndCallback("value")
    BY <1>2, <2>1, ValuesComeFromRuns, LastFacts
  <2>3. Running[1] = 3 /\ transfer # "returned"
    BY <2>2, LastFacts DEF CutInv, Client
  <2> QED
    BY <2>2, <2>3 DEF EndRequest, EndsWith, EndCallback, WhenSent, SetUp, Setup, Loader, InCallback
<1>3. ASSUME outcome'[Task(Via[l], l)] = "value" PROVE FALSE
  <2>1. outcome[Task(Via[l], l)] = "pending"
    BY <1>3, ResultsStay, LastFacts DEF CutInv
  <2>2. /\ active = {Task(Via[l], l)} /\ Task(Via[l], l) = Running
        /\ EndRequest("value") \/ EndCallback("value")
    BY <1>3, <2>1, ValuesComeFromRuns, LastFacts
  <2>3. Via[l] = 1
    BY <1>2, <1>3, LastFacts
  <2>4. Running[1] = 1 /\ Running[2] = l
    BY <2>2, <2>3, Pairs
  <2>5. EndCallback("value")
    BY <1>0, <2>2, <2>4 DEF RunInv, EndRequest, EndsWith, Client, InCallback
  <2>6. outcome[Task(2, l)] = "value"
    BY <2>4, <2>5 DEF EndCallback, WhenSent, SetUp, Below, Loader
  <2> QED
    BY <2>3, <2>6, LastFacts DEF CutInv
<1>4. ASSUME Last(l) \in active'
      PROVE  /\ Via[l] = Client
             /\ transfer' \in {"init", "perform"} => served'.code = 0
             /\ transfer' \in {"none", "init", "perform", "status"}
  <2>1. CASE Start
    <3>1. /\ Last(l) = Running /\ ~(Tied(Running) /\ Running[2] \in interrupted)
          /\ active = {} /\ served' = served
          /\ transfer' = IF Running[1] = Client THEN "init" ELSE transfer
      BY <1>4, <2>1 DEF Start, Queue!Start, Goto, Running
    <3>2. Via[l] = 3 /\ Running[1] = 3
      BY <3>1, LastFacts DEF CutInv, Tied, Loader
    <3>3. served.code = 0
      BY <1>0, <3>1 DEF RunInv, AnswerInv, Empty
    <3> QED
      BY <3>1, <3>2, <3>3 DEF Client
  <2>2. CASE Request
    <3>1. active' = active /\ Transfer(Cut)
      BY <2>2 DEF Request, queueVars
    <3>2. Last(l) = Running /\ Cut /\ Via[l] = Client
      BY <1>0, <1>4, <3>1, LastFacts DEF RunInv, Cut, CutInv
    <3>3. /\ transfer \in {"init", "perform"} => served.code = 0
          /\ transfer \in {"none", "init", "perform", "status"}
      BY <1>4, <3>1 DEF CutInv
    <3>4. ~HeaderLine
      BY <3>3 DEF HeaderLine, Arrive
    <3> QED
      BY <3>1, <3>2, <3>3, <3>4
         DEF Transfer, Prepare, StatusLine, Arrive, Piece, Write, Perform, Goto
  <2>3. CASE ~Start /\ ~Request
    <3>1. active' \subseteq active
      BY <2>3 DEF Next, Process, Throw, Dispatch, Queue!Submit, Interrupt, BeginDestroy, EndDestroy,
                  Queue!Discard, Cancel, Queue!Cancel, EndRequest, EndCallback, Queue!Finish,
                  vars, queueVars
    <3>2. Last(l) \in active /\ active' # {}
      BY <1>4, <3>1
    <3>3. transfer' = transfer /\ served' = served
      BY <2>3, <3>2 DEF Next, Process, Throw, Dispatch, Interrupt, BeginDestroy, EndDestroy,
                        Cancel, EndRequest, EndCallback, Queue!Finish, vars, transferVars
    <3> QED
      BY <3>2, <3>3 DEF CutInv
  <2> QED
    BY <2>1, <2>2, <2>3
<1>5. (Last(l) \in active)' <=> Last(l) \in active'
  BY DEF Last, Task
<1> QED
  BY <1>1, <1>2, <1>3, <1>4 DEF CutInv, Last, Task

(* Who interrupts a load in time never gets its data, whatever the server  *)
(* answers, whoever else uses the layers, and wherever the load was.       *)
THEOREM InterruptionIsHeeded == Spec => InterruptionHeeded
<1>1. ASSUME NEW l \in Loads
      PROVE  Spec => [](l \in interrupted /\ ~Started(Last(l)) => [](Result(l) # "value"))
  <2>1. DInv /\ l \in interrupted /\ ~Started(Last(l)) => CutInv(l)
    BY CutBegins
  <2>2. DInv /\ CutInv(l) /\ [Next]_vars => CutInv(l)'
    BY CutStays
  <2>3. CutInv(l) => Result(l) # "value"
    BY DEF CutInv, Result
  <2> QED
    BY <2>1, <2>2, <2>3, LoadersInvariance, PTL DEF Spec
<1> QED
  BY <1>1 DEF InterruptionHeeded, Last

-----------------------------------------------------------------------------
(* Nobody waits for ever.  Promises are broken by the destruction of the   *)
(* dispatcher only, and no connection of its tasks is ever withdrawn.      *)
BrokenInv ==
  /\ \A t \in Tasks : outcome[t] = "broken" => Dispatcher \in gone
  /\ revoked = {}

LEMMA BrokenNext == DInv /\ BrokenInv /\ [Next]_vars => BrokenInv'
<1> SUFFICES ASSUME DInv, BrokenInv, [Next]_vars PROVE BrokenInv'
  OBVIOUS
<1> USE DEF queueVars, objectVars
<1>1. ASSUME UNCHANGED <<outcome, revoked>>, Dispatcher \in gone => Dispatcher \in gone'
      PROVE  BrokenInv'
  BY <1>1 DEF BrokenInv
<1>2. ASSUME NEW l \in Loads, Throw(l) \/ Interrupt(l) \/ \E y \in Setup .. Client : Dispatch(l, y)
      PROVE  BrokenInv'
  BY <1>1, <1>2 DEF Throw, Interrupt, Dispatch, Queue!Submit
<1>3. ASSUME NEW x \in Layers, BeginDestroy(x) PROVE BrokenInv'
  BY <1>1, <1>3 DEF BeginDestroy
<1>4. CASE EndDestroy
  <2>1. CASE Joins(closing)
    <3>1. revoked' = revoked /\ gone' = gone \cup Freed(closing) /\ Dispatcher \in Freed(closing)
      BY <1>4, <2>1 DEF EndDestroy, Queue!Discard, Joins
    <3> QED
      BY <3>1 DEF BrokenInv
  <2>2. CASE ~Joins(closing)
    BY <1>1, <1>4, <2>2 DEF EndDestroy
  <2> QED
    BY <2>1, <2>2
<1>5. CASE Start \/ Request
  BY <1>1, <1>5 DEF Start, Request, Queue!Start
<1>6. ASSUME NEW result, result # "broken", Queue!Settle(Running, result), gone' = gone
      PROVE  BrokenInv'
  <2>1. outcome' = [outcome EXCEPT ![Running] = result] /\ revoked' = revoked
    BY <1>6 DEF Queue!Settle
  <2>2. \A t \in Tasks : outcome'[t] = "broken" => outcome[t] = "broken"
    BY <1>6, <2>1 DEF DInv, TypeOK
  <2> QED
    BY <1>6, <2>1, <2>2 DEF BrokenInv
<1>7. CASE Cancel
  BY <1>6, <1>7 DEF Cancel, Queue!Cancel, Running
<1>8. ASSUME NEW result \in {"value", "error", "interrupted"},
             EndRequest(result) \/ EndCallback(result)
      PROVE  BrokenInv'
  <2>1. result # "broken" /\ gone' = gone /\ Queue!Settle(Running, result)
    BY <1>8 DEF EndRequest, EndCallback, Queue!Finish, Running
  <2> QED
    BY <1>6, <2>1
<1>9. CASE UNCHANGED vars
  BY <1>1, <1>9 DEF vars
<1> QED
  BY <1>2, <1>3, <1>4, <1>5, <1>7, <1>8, <1>9 DEF Next, Process

THEOREM BrokenInvariance == Spec => []BrokenInv
<1>1. Init => BrokenInv
  BY DEF Init, Queue!Init, BrokenInv
<1> QED
  BY <1>1, BrokenNext, LoadersInvariance, PTL DEF Spec

(* The guard of a step of the thread that processes the dispatcher holds:  *)
(* it calls or cancels a task, libcurl goes on or gives up, or a callback  *)
(* of when has what it returns or throws.                                  *)
ThreadGoesOn ==
  /\ waiting # << >>
  /\ \/ active = {} /\ conn[Running] \notin revoked
     \/ /\ active = {Running} /\ Running[1] = Client
        /\ transfer \in {"init", "perform", "returned"} \cup InCallback
     \/ /\ active = {Running} /\ Running[1] # Client
        /\ Below \in {"value", "error", "interrupted"}

(* A load that has dispatched its request and has no answer is on its way: *)
(* the dispatcher is there, and either its thread can go on, or it is idle *)
(* and free for the task that the load dispatches next.                    *)
EveryLoadServed ==
  \A l \in Loads : call[l] \in Setup .. Client /\ ~Settled(l) =>
    Dispatcher \notin gone /\ (ThreadGoesOn \/ (active = {} /\ Calling(l)))

(* No caller of load or send waits for a thread that cannot go on, through *)
(* any layers: the callbacks of when never find a broken promise, and no   *)
(* dispatcher is destroyed before a call that needs it.                    *)
THEOREM EveryLoadIsServed == Spec => []EveryLoadServed
<1> USE LoadsAssumption DEF Setup, Client, Dispatcher
<1>1. ASSUME DInv, BrokenInv, active # {} PROVE ThreadGoesOn
  <2>1. waiting # << >> /\ waiting \in Seq(Tasks) /\ active = {Running} /\ Running = waiting[1]
        /\ 1 \in 1 .. Len(waiting)
    BY <1>1 DEF DInv, TypeOK, RunInv, Running
  <2>2. CASE Running[1] = 3
    <3>1. transfer # "none" /\ TransferTypeOK
      BY <1>1, <2>2 DEF DInv, RunInv, TypeOK
    <3> QED
      BY <2>1, <2>2, <3>1 DEF TransferTypeOK, InCallback, ThreadGoesOn
  <2>3. CASE Running[1] # 3
    <3>1. Running[1] \in 1 .. 2 /\ Running[2] \in Loads
      BY <2>1, <2>3, Pairs
    <3>2. Task(Running[1] + 1, Running[2]) \in Tasks
      BY <3>1, Pairs
    <3>3. Below \in {"pending", "value", "error", "interrupted", "broken"}
      BY <1>1, <3>2 DEF DInv, TypeOK, Below
    <3>4. Below # "pending"
      BY <1>1, <2>1, <2>3 DEF DInv, OrderInv, Below
    <3>5. Below # "broken"
      BY <1>1, <2>1, <3>2 DEF DInv, LifeInv, BrokenInv, Below
    <3> QED
      BY <2>1, <2>3, <3>3, <3>4, <3>5 DEF ThreadGoesOn
  <2> QED
    BY <2>2, <2>3
<1>2. DInv /\ BrokenInv => EveryLoadServed
  <2> SUFFICES ASSUME DInv, BrokenInv, NEW l \in Loads, call[l] \in 1 .. 3, ~Settled(l)
               PROVE  4 \notin gone /\ (ThreadGoesOn \/ (active = {} /\ Calling(l)))
    BY DEF EveryLoadServed
  <2>1. Via[l] \in 1 .. 3 /\ Via[l] <= call[l]
    BY DEF DInv, CallInv
  <2>2. CASE call[l] = Via[l]
    <3>1. Sent(Via[l], l) /\ outcome[Task(Via[l], l)] = "pending"
      BY <2>1, <2>2 DEF Sent, Settled, Result
    <3>2. PICK k \in 1 .. Len(waiting) : waiting[k] = Task(Via[l], l)
      BY <2>1, <3>1 DEF DInv, ResultInv
    <3>3. waiting # << >> /\ 4 \notin gone
      BY <3>2 DEF DInv, LifeInv
    <3> QED
      BY <1>1, <3>3 DEF ThreadGoesOn, BrokenInv
  <2>3. CASE call[l] # Via[l]
    <3>1. Calling(l) /\ 4 \in InUse(l)
      BY <2>1, <2>3 DEF Calling, InUse
    <3>2. 4 \notin gone
      BY <3>1 DEF DInv, LifeInv
    <3> QED
      BY <1>1, <3>1, <3>2
  <2> QED
    BY <2>2, <2>3
<1> QED
  BY <1>2, LoadersInvariance, BrokenInvariance, PTL
=============================================================================
