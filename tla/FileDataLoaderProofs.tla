------------------------ MODULE FileDataLoaderProofs ------------------------
(***************************************************************************)
(* Theorems about FileDataLoader: any loads, of files of any size, on any  *)
(* dispatchers.                                                            *)
(*                                                                         *)
(* The inductive invariant.  A queue has each task once; a read in it has  *)
(* an open file and a promise to settle, and a guard has its read ahead of *)
(* it as long as that has not ended.  A caller without an answer has a     *)
(* guard in the queue.                                                     *)
(***************************************************************************)
EXTENDS FileDataLoader, TLAPS

WaitsWell(d, i) ==
  LET l == tasks[d][i][2]
  IN  /\ DispatcherOf[l] = d
      /\ tasks[d][i] = Reading(l) => file[l] = "open" /\ loaded[l] = "pending"
      /\ tasks[d][i] = Guarding(l) =>
           /\ call[l] = "returned"
           /\ loaded[l] = "pending" => \E j \in 1 .. i - 1 : tasks[d][j] = Reading(l)

QueueInv ==
  \A d \in Dispatchers :
    /\ \A i \in 1 .. Len(tasks[d]) : WaitsWell(d, i)
    /\ \A i, j \in 1 .. Len(tasks[d]) : tasks[d][i] = tasks[d][j] => i = j

(* What has become of a call, and of the task that reads for it.           *)
CallInv ==
  \A l \in Loads :
    /\ call[l] \in {"start", "opened", "threw"} => loaded[l] = "none" /\ result[l] = "none"
    /\ call[l] = "opened" => file[l] = "open"
    /\ call[l] = "reading" => result[l] = "none"

LoadedInv ==
  \A l \in Loads :
    /\ loaded[l] = "pending" =>
         \E i \in 1 .. Len(tasks[DispatcherOf[l]]) : tasks[DispatcherOf[l]][i] = Reading(l)
    /\ loaded[l] = "data" => file[l] = "closed" /\ bytes[l] = Size[l]
    /\ loaded[l] = "interrupted" => l \in interrupted
    /\ loaded[l] = "broken" => DispatcherOf[l] \notin alive
    /\ \/ result[l] \in {"none", "pending", loaded[l]}
       \/ result[l] = "broken" /\ DispatcherOf[l] \notin alive

(* A file whose task has come to its callback has been read to its end.    *)
ReadInv == \A d \in Dispatchers : pc[d] = "work" => bytes[Front(d)] = Size[Front(d)]

FInv == FileInv /\ QueueInv /\ CallInv /\ LoadedInv /\ ReadInv

-----------------------------------------------------------------------------
LEMMA Pairs ==
  /\ \A t \in Task : t[2] \in Loads /\ (t = Reading(t[2]) \/ t = Guarding(t[2]))
  /\ \A t \in Task : t[1] = "read" <=> t = Reading(t[2])
  /\ \A t \in Task : t[1] = "guard" <=> t = Guarding(t[2])
  /\ \A l, m : Reading(l) # Guarding(m)
  /\ \A l : Reading(l)[2] = l /\ Guarding(l)[2] = l
  /\ \A l, m : Reading(l) = Reading(m) => l = m
  /\ \A l, m : Guarding(l) = Guarding(m) => l = m
  /\ \A l \in Loads : Reading(l) \in Task /\ Guarding(l) \in Task
BY DEF Task, Reading, Guarding

(* The queue of the running thread: its front task, and what is behind it. *)
LEMMA FrontFacts ==
  ASSUME FInv, NEW d \in Dispatchers, pc[d] # "idle"
  PROVE  /\ tasks[d] \in Seq(Task) /\ Len(tasks[d]) \in Nat /\ Len(tasks[d]) >= 1
         /\ Head(tasks[d]) = tasks[d][1] /\ tasks[d][1] \in Task
         /\ Front(d) \in Loads /\ DispatcherOf[Front(d)] = d /\ d \in alive
         /\ pc[d] \in {"retry", "block", "work"} =>
              /\ tasks[d][1] = Reading(Front(d))
              /\ file[Front(d)] = "open" /\ loaded[Front(d)] = "pending"
         /\ pc[d] = "get" => tasks[d][1] = Guarding(Front(d)) /\ loaded[Front(d)] # "pending"
<1>1. tasks[d] \in Seq(Task) /\ tasks[d] # << >> /\ d \in alive
  BY DEF FInv, FileInv, TypeOK, ThreadInv
<1>2. Len(tasks[d]) \in Nat /\ Len(tasks[d]) >= 1 /\ Head(tasks[d]) = tasks[d][1]
      /\ tasks[d][1] \in Task
  BY <1>1
<1>3. Front(d) = tasks[d][1][2] /\ Front(d) \in Loads
  BY <1>2, Pairs DEF Front
<1>4. WaitsWell(d, 1)
  BY <1>2 DEF FInv, QueueInv
<1>5. /\ pc[d] \in {"retry", "block", "work"} => tasks[d][1] = Reading(Front(d))
      /\ pc[d] = "get" => tasks[d][1] = Guarding(Front(d)) /\ loaded[Front(d)] # "pending"
  BY <1>2, <1>3, Pairs DEF FInv, FileInv, ThreadInv
<1> QED
  BY <1>1, <1>2, <1>3, <1>4, <1>5 DEF WaitsWell

(* Steps that change neither a queue nor an outcome.                       *)
LEMMA QueueStays ==
  ASSUME FInv, UNCHANGED <<tasks, loaded>>,
         \A l \in Loads : file[l] = "open" => file'[l] = "open",
         \A l \in Loads : call[l] = "returned" => call'[l] = "returned"
  PROVE  QueueInv'
<1> SUFFICES ASSUME NEW d \in Dispatchers, NEW i \in 1 .. Len(tasks[d])
             PROVE  WaitsWell(d, i)'
  BY DEF FInv, QueueInv
<1>1. WaitsWell(d, i)
  BY DEF FInv, QueueInv
<1>2. tasks[d][i] \in Task /\ tasks[d][i][2] \in Loads
  BY Pairs DEF FInv, FileInv, TypeOK
<1> QED
  BY <1>1, <1>2 DEF WaitsWell

(* A task is added to one queue.                                           *)
LEMMA QueueGrows ==
  ASSUME FInv, NEW d \in Dispatchers, NEW l \in Loads, NEW t, DispatcherOf[l] = d,
         \/ t = Reading(l) /\ file'[l] = "open" /\ loaded'[l] = "pending"
         \/ /\ t = Guarding(l) /\ call'[l] = "returned"
            /\ loaded'[l] = "pending" => \E i \in 1 .. Len(tasks[d]) : tasks[d][i] = Reading(l),
         tasks' = [tasks EXCEPT ![d] = Append(@, t)],
         \A i \in 1 .. Len(tasks[d]) : tasks[d][i] # t,
         file' = file,
         \A m \in Loads : call[m] = "returned" => call'[m] = "returned",
         \A m \in Loads : \/ loaded'[m] = loaded[m]
                          \/ loaded'[m] = "pending" /\ call[m] # "returned"
  PROVE  QueueInv'
<1> DEFINE n == Len(tasks[d])
<1>1. /\ tasks \in [Dispatchers -> Seq(Task)] /\ tasks[d] \in Seq(Task) /\ n \in Nat
      /\ t \in Task /\ t[2] = l /\ Reading(l) # Guarding(l)
  BY Pairs DEF FInv, FileInv, TypeOK
<1>2. /\ tasks'[d] = Append(tasks[d], t) /\ Len(tasks'[d]) = n + 1 /\ tasks'[d][n + 1] = t
      /\ \A i \in 1 .. n : tasks'[d][i] = tasks[d][i]
  BY <1>1
<1>3. \A e \in Dispatchers \ {d} : tasks'[e] = tasks[e]
  BY <1>1
<1>4. ASSUME NEW e \in Dispatchers, NEW i \in 1 .. Len(tasks[e])
      PROVE  WaitsWell(e, i)'
  <2>1. WaitsWell(e, i) /\ tasks[e][i] \in Task /\ tasks[e][i][2] \in Loads
    BY <1>1, Pairs DEF FInv, QueueInv
  <2>2. \A j \in 1 .. i : tasks'[e][j] = tasks[e][j]
    BY <1>1, <1>2, <1>3
  <2> QED
    BY <2>1, <2>2 DEF WaitsWell
<1>5. ASSUME NEW m \in Nat, m = n + 1
      PROVE  WaitsWell(d, m)'
  <2>1. tasks'[d][m] = t /\ 1 .. m - 1 = 1 .. n
    BY <1>1, <1>2, <1>5
  <2>2. loaded'[l] = "pending" /\ t = Guarding(l) =>
          \E j \in 1 .. m - 1 : tasks'[d][j] = Reading(l)
    BY <1>1, <1>2, <2>1
  <2> QED
    BY <1>1, <2>1, <2>2 DEF WaitsWell
<1>6. \A i \in 1 .. n + 1 : WaitsWell(d, i)'
  <2> SUFFICES ASSUME NEW i \in 1 .. n + 1 PROVE WaitsWell(d, i)'
    OBVIOUS
  <2>1. i \in 1 .. n \/ i = n + 1
    BY <1>1
  <2> QED
    BY <1>4, <1>5, <2>1 DEF WaitsWell
<1>7. \A i, j \in 1 .. n : tasks[d][i] = tasks[d][j] => i = j
  BY DEF FInv, QueueInv
<1>8. \A i, j \in 1 .. n + 1 : tasks'[d][i] = tasks'[d][j] => i = j
  BY <1>1, <1>2, <1>7
<1>9. \A e \in Dispatchers \ {d} : \A i, j \in 1 .. Len(tasks'[e]) :
        tasks'[e][i] = tasks'[e][j] => i = j
  BY <1>3 DEF FInv, QueueInv
<1>10. \A e \in Dispatchers \ {d} : \A i \in 1 .. Len(tasks'[e]) : WaitsWell(e, i)'
  BY <1>3, <1>4
<1> QED
  BY <1>2, <1>6, <1>8, <1>9, <1>10 DEF QueueInv

(* The front task of one queue leaves it, and its read, if it was one, has *)
(* an outcome.                                                             *)
LEMMA QueueShrinks ==
  ASSUME FInv, NEW d \in Dispatchers, pc[d] \in {"work", "get"}, PopFront(d),
         call' = call,
         \A l \in Loads \ {Front(d)} : file'[l] = file[l] /\ loaded'[l] = loaded[l],
         pc[d] = "work" => loaded'[Front(d)] # "pending",
         pc[d] = "get" => file' = file /\ loaded' = loaded
  PROVE  QueueInv'
<1> DEFINE n == Len(tasks[d])  f == Front(d)
<1>1. /\ tasks[d] \in Seq(Task) /\ n \in Nat /\ n >= 1 /\ f \in Loads
      /\ pc[d] = "work" => tasks[d][1] = Reading(f)
      /\ DispatcherOf[f] = d
  BY FrontFacts
<1>2. /\ tasks'[d] = Tail(tasks[d]) /\ Len(tasks'[d]) = n - 1
      /\ \A i \in 1 .. n - 1 : tasks'[d][i] = tasks[d][i + 1]
  BY <1>1 DEF PopFront, FInv, FileInv, TypeOK
<1>3. \A e \in Dispatchers \ {d} : tasks'[e] = tasks[e]
  BY DEF PopFront, FInv, FileInv, TypeOK
<1>4. ASSUME NEW e \in Dispatchers \ {d}, NEW i \in 1 .. Len(tasks[e])
      PROVE  WaitsWell(e, i)'
  <2>1. WaitsWell(e, i) /\ tasks[e][i] \in Task /\ tasks[e][i][2] \in Loads
    BY Pairs DEF FInv, QueueInv, FileInv, TypeOK
  <2>2. tasks[e][i][2] # f
    BY <1>1, <2>1 DEF WaitsWell
  <2> QED
    BY <1>3, <2>1, <2>2 DEF WaitsWell
<1>5. ASSUME NEW i \in 1 .. n - 1
      PROVE  WaitsWell(d, i)'
  <2> DEFINE l == tasks[d][i + 1][2]
  <2>1. i + 1 \in 1 .. n /\ i + 1 # 1 /\ tasks[d][i + 1] \in Task /\ l \in Loads
        /\ tasks'[d][i] = tasks[d][i + 1]
    BY <1>1, <1>2, Pairs
  <2>2. WaitsWell(d, i + 1) /\ tasks[d][i + 1] # tasks[d][1]
    BY <1>1, <2>1 DEF FInv, QueueInv
  <2>3. tasks[d][i + 1] = Reading(l) => file'[l] = "open" /\ loaded'[l] = "pending"
    BY <1>1, <2>1, <2>2 DEF WaitsWell
  <2>4. ASSUME tasks[d][i + 1] = Guarding(l), loaded'[l] = "pending"
        PROVE  \E j \in 1 .. i - 1 : tasks'[d][j] = Reading(l)
    <3>1. loaded[l] = "pending" /\ (pc[d] = "work" => l # f)
      BY <1>1, <2>1, <2>4
    <3>2. PICK j \in 1 .. i : tasks[d][j] = Reading(l)
      BY <2>1, <2>2, <2>4, <3>1 DEF WaitsWell
    <3>3. j # 1
      <4>1. CASE pc[d] = "work"
        BY <1>1, <3>1, <3>2, <4>1, Pairs
      <4>2. CASE pc[d] = "get"
        BY <3>2, <4>2, FrontFacts, Pairs
      <4> QED
        BY <4>1, <4>2
    <3>4. j - 1 \in 1 .. i - 1 /\ tasks'[d][j - 1] = tasks[d][j]
      BY <1>2, <3>3
    <3> QED
      BY <3>2, <3>4
  <2> QED
    BY <2>1, <2>2, <2>3, <2>4 DEF WaitsWell
<1>6. \A i, j \in 1 .. n : tasks[d][i] = tasks[d][j] => i = j
  BY DEF FInv, QueueInv
<1>7. \A i, j \in 1 .. n - 1 : tasks'[d][i] = tasks'[d][j] => i = j
  <2> SUFFICES ASSUME NEW i \in 1 .. n - 1, NEW j \in 1 .. n - 1, tasks'[d][i] = tasks'[d][j]
               PROVE  i + 1 = j + 1
    BY <1>1
  <2>1. /\ i + 1 \in 1 .. n /\ j + 1 \in 1 .. n
        /\ tasks[d][i + 1] = tasks[d][j + 1]
    BY <1>1, <1>2
  <2> QED
    BY <1>6, <2>1
<1>8. \A e \in Dispatchers \ {d} : \A i, j \in 1 .. Len(tasks'[e]) :
        tasks'[e][i] = tasks'[e][j] => i = j
  BY <1>3 DEF FInv, QueueInv
<1>9. \A e \in Dispatchers \ {d} : \A i \in 1 .. Len(tasks'[e]) : WaitsWell(e, i)'
  BY <1>3, <1>4
<1>10. \A i \in 1 .. Len(tasks'[d]) : WaitsWell(d, i)'
  BY <1>2, <1>5
<1>11. \A i, j \in 1 .. Len(tasks'[d]) : tasks'[d][i] = tasks'[d][j] => i = j
  BY <1>2, <1>7
<1> QED
  BY <1>8, <1>9, <1>10, <1>11 DEF QueueInv, WaitsWell

-----------------------------------------------------------------------------
(* What a thread does before it has an outcome for its task.               *)
LEMMA ThreadKeeps ==
  ASSUME FInv, NEW d \in Dispatchers,
         Take(d) \/ Lock(d) \/ ReadByte(d) \/ ReadEnd(d) \/ BlockEnd(d)
  PROVE  FInv'
<1> USE DEF Goto, callVars, workVars
<1>1. TypeOK /\ TypeOK'
  <2>1. TypeOK /\ (pc[d] # "idle" => Front(d) \in Loads)
    BY FrontFacts DEF FInv, FileInv
  <2>2. CASE Take(d)
    BY <2>1, <2>2 DEF Take, TypeOK
  <2>3. CASE Lock(d)
    BY <2>1, <2>3, FileAssumption DEF Lock, TypeOK
  <2>4. CASE ReadByte(d)
    <3>1. bytes' \in [Loads -> Nat]
      BY <2>1, <2>4 DEF ReadByte, TypeOK
    <3>2. left' \in [Dispatchers -> Nat \cup {nblock}]
      BY <2>4, FileAssumption DEF ReadByte, TypeOK, FInv, FileInv
    <3> QED
      BY <2>1, <2>4, <3>1, <3>2 DEF ReadByte, TypeOK
  <2>5. CASE ReadEnd(d) \/ BlockEnd(d)
    BY <2>1, <2>5 DEF ReadEnd, BlockEnd, ReturnFromWork, TypeOK
  <2> QED
    BY <2>2, <2>3, <2>4, <2>5
<1>2. UNCHANGED <<call, interrupted, file, tasks, loaded, result, alive>>
  BY DEF Take, Lock, ReadByte, ReadEnd, BlockEnd, ReturnFromWork, callVars, workVars
<1>3. QueueInv'
  BY <1>2, QueueStays
<1>4. \A e \in Dispatchers \ {d} : pc'[e] = pc[e] /\ (work_mutex' = e <=> work_mutex = e)
  BY <1>1, FileAssumption DEF TypeOK, FInv, FileInv, ThreadInv, Take, Lock, ReadByte, ReadEnd, BlockEnd,
     ReturnFromWork, Goto, workVars
<1>5. \A e \in Dispatchers \ {d} : ThreadInv(e)'
  BY <1>2, <1>4 DEF FInv, FileInv, ThreadInv, Front
<1>6. ThreadInv(d)'
  <2>1. CASE Take(d)
    <3>1. /\ pc[d] = "idle" /\ tasks[d] # << >> /\ d \in alive
          /\ pc'[d] = IF Head(tasks[d])[1] = "read" THEN "retry" ELSE "get"
          /\ work_mutex' = work_mutex /\ work_mutex # d
      <4>1. pc[d] = "idle" /\ tasks[d] # << >> /\ d \in alive /\ work_mutex' = work_mutex
        BY <2>1 DEF Take
      <4>2. pc'[d] = IF Head(tasks[d])[1] = "read" THEN "retry" ELSE "get"
        BY <1>1, <2>1 DEF Take, TypeOK
      <4>3. work_mutex # d
        BY <4>1 DEF FInv, FileInv, ThreadInv
      <4> QED
        BY <4>1, <4>2, <4>3
    <3>2. tasks[d] \in Seq(Task) /\ Head(tasks[d]) = tasks[d][1] /\ tasks[d][1] \in Task
          /\ 1 \in 1 .. Len(tasks[d])
      <4>1. tasks[d] \in Seq(Task) /\ tasks[d] # << >>
        BY <1>1, <3>1 DEF TypeOK
      <4> QED
        BY <4>1
    <3>3. WaitsWell(d, 1)
      BY <3>2 DEF FInv, QueueInv
    <3> DEFINE t == tasks[d][1]
    <3>4. Head(tasks[d])[1] = "read" => file[Front(d)] = "open"
      <4>1. t[1] = "read" => t = Reading(t[2])
        BY <3>2, Pairs
      <4> QED
        BY <3>2, <3>3, <4>1 DEF WaitsWell, Front
    <3>5. Head(tasks[d])[1] # "read" => Head(tasks[d])[1] = "guard" /\ loaded[Front(d)] # "pending"
      <4>1. t[1] # "read" => t = Guarding(t[2]) /\ t[1] = "guard"
        BY <3>2, Pairs
      <4>2. t = Guarding(t[2]) => loaded[t[2]] # "pending" \/ \E j \in 1 .. 0 : TRUE
        BY <3>3 DEF WaitsWell
      <4> QED
        BY <3>2, <4>1, <4>2 DEF Front
    <3> QED
      BY <1>2, <3>1, <3>4, <3>5 DEF ThreadInv, Front
  <2>2. CASE Lock(d)
    BY <1>1, <1>2, <2>2 DEF Lock, FInv, FileInv, ThreadInv, TypeOK, Goto, Front
  <2>3. CASE ReadByte(d)
    BY <1>1, <1>2, <2>3 DEF ReadByte, FInv, FileInv, ThreadInv, TypeOK, Goto, Front
  <2>4. CASE ReadEnd(d)
    BY <1>1, <1>2, <2>4, FileAssumption DEF ReadEnd, ReturnFromWork, FInv, FileInv, ThreadInv, TypeOK, Goto, Front
  <2>5. CASE BlockEnd(d)
    BY <1>1, <1>2, <2>5, FileAssumption DEF BlockEnd, ReturnFromWork, FInv, FileInv, ThreadInv, TypeOK, Goto, Front
  <2> QED
    BY <2>1, <2>2, <2>3, <2>4, <2>5
<1>7. CallInv'
  BY <1>2 DEF FInv, CallInv
<1>8. LoadedInv'
  <2>1. \A l \in Loads : loaded[l] = "data" => bytes'[l] = bytes[l]
    <3>1. CASE ReadByte(d)
      <4>1. loaded[Front(d)] = "pending" /\ Front(d) \in Loads
        BY <3>1, FrontFacts DEF ReadByte
      <4> QED
        BY <1>1, <3>1, <4>1 DEF ReadByte, TypeOK
    <3>2. CASE ~ReadByte(d)
      BY <3>2 DEF Take, Lock, ReadEnd, BlockEnd, ReturnFromWork
    <3> QED
      BY <3>1, <3>2
  <2> QED
    BY <1>2, <2>1 DEF FInv, LoadedInv
<1>9. ReadInv'
  <2> SUFFICES ASSUME NEW e \in Dispatchers, pc'[e] = "work"
               PROVE  bytes'[Front(e)] = Size[Front(e)]
    BY <1>2 DEF ReadInv, Front
  <2>1. CASE e = d
    BY <1>1, <2>1 DEF Take, Lock, ReadByte, ReadEnd, BlockEnd, ReturnFromWork, TypeOK
  <2>2. CASE e # d
    <3>1. pc[e] = "work" /\ bytes[Front(e)] = Size[Front(e)]
      BY <1>4, <2>2 DEF FInv, ReadInv
    <3>2. ReadByte(d) => Front(d) # Front(e)
      BY <2>2, <3>1, FrontFacts DEF ReadByte
    <3>3. Front(e) \in Loads
      BY <3>1, FrontFacts
    <3> QED
      BY <1>1, <3>1, <3>2, <3>3 DEF Take, Lock, ReadByte, ReadEnd, BlockEnd, ReturnFromWork, TypeOK
  <2> QED
    BY <2>1, <2>2
<1> QED
  BY <1>1, <1>3, <1>5, <1>6, <1>7, <1>8, <1>9 DEF FInv, FileInv, ThreadInv

(* The callers, who add a task while the thread of its dispatcher is idle. *)
LEMMA LoadKeeps ==
  ASSUME FInv, NEW l \in Loads, Open(l) \/ DispatchRead(l) \/ DispatchGuard(l)
  PROVE  FInv'
<1> USE DEF callVars, workVars
<1> DEFINE d == DispatcherOf[l]
<1>1. d \in Dispatchers /\ TypeOK
  BY FileAssumption DEF FInv, FileInv
<1>2. TypeOK'
  <2>1. \A t \in Task : Append(tasks[d], t) \in Seq(Task)
    BY <1>1 DEF TypeOK
  <2> QED
    <3>1. CASE Open(l)
      BY <1>1, <3>1 DEF TypeOK, Open
    <3>2. CASE DispatchRead(l)
      BY <1>1, <2>1, <3>2, Pairs DEF TypeOK, DispatchRead, Outcome
    <3>3. CASE DispatchGuard(l)
      BY <1>1, <2>1, <3>3, Pairs DEF TypeOK, DispatchGuard, Outcome
    <3> QED
      BY <3>1, <3>2, <3>3
<1>3. UNCHANGED <<bytes, work_mutex, left, interrupted, pc, alive>>
  BY DEF Open, DispatchRead, DispatchGuard
<1>4. \A e \in Dispatchers : pc[e] # "idle" =>
        /\ UNCHANGED tasks[e] /\ file'[Front(e)] = file[Front(e)]
        /\ loaded'[Front(e)] = loaded[Front(e)]
  <2> SUFFICES ASSUME NEW e \in Dispatchers, pc[e] # "idle"
               PROVE  /\ tasks'[e] = tasks[e] /\ file'[Front(e)] = file[Front(e)]
                      /\ loaded'[Front(e)] = loaded[Front(e)]
    OBVIOUS
  <2>1. Front(e) # l
    <3>1. loaded[Front(e)] # "none" \/ call[Front(e)] = "returned"
      <4>1. WaitsWell(e, 1) /\ Front(e) = tasks[e][1][2] /\ tasks[e][1] \in Task
        BY FrontFacts DEF FInv, QueueInv, Front
      <4> QED
        BY <4>1, Pairs DEF WaitsWell
    <3> QED
      BY <3>1, FrontFacts DEF Open, DispatchRead, DispatchGuard, FInv, CallInv
  <2>2. Front(e) \in Loads
    BY FrontFacts
  <2>3. tasks'[e] = tasks[e]
    BY <1>1 DEF TypeOK, Open, DispatchRead, DispatchGuard
  <2>4. file'[Front(e)] = file[Front(e)] /\ loaded'[Front(e)] = loaded[Front(e)]
    BY <1>1, <2>1, <2>2 DEF TypeOK, Open, DispatchRead, DispatchGuard
  <2> QED
    BY <2>3, <2>4
<1>5. \A e \in Dispatchers : ThreadInv(e)'
  BY <1>3, <1>4 DEF ThreadInv, Front, FInv, FileInv
<1>6. CallInv'
  BY <1>1 DEF FInv, CallInv, TypeOK, Open, DispatchRead, DispatchGuard
<1>7. ReadInv'
  BY <1>3, <1>4 DEF FInv, ReadInv, Front
<1>8. QueueInv'
  <2>1. CASE Open(l)
    <3>1. /\ UNCHANGED <<tasks, loaded>>
          /\ \A m \in Loads : file[m] = "open" => file'[m] = "open"
          /\ \A m \in Loads : call[m] = "returned" => call'[m] = "returned"
      BY <1>1, <2>1 DEF Open, TypeOK
    <3> QED
      BY <3>1, QueueStays
  <2>2. CASE DispatchRead(l)
    <3>1. \A i \in 1 .. Len(tasks[d]) : tasks[d][i] # Reading(l)
      <4> SUFFICES ASSUME NEW i \in 1 .. Len(tasks[d]), tasks[d][i] = Reading(l)
                   PROVE  FALSE
        OBVIOUS
      <4>1. WaitsWell(d, i) /\ tasks[d][i][2] = l
        BY <1>1, Pairs DEF FInv, QueueInv
      <4> QED
        BY <2>2, <4>1 DEF WaitsWell, DispatchRead, FInv, CallInv
    <3>2. /\ tasks' = [tasks EXCEPT ![d] = Append(@, Reading(l))]
          /\ file' = file /\ call[l] = "opened"
          /\ loaded' = [loaded EXCEPT ![l] = "pending"]
          /\ call' = [call EXCEPT ![l] = "reading"]
      BY <2>2 DEF DispatchRead
    <3>3. file'[l] = "open" /\ loaded'[l] = "pending"
      BY <1>1, <3>2 DEF TypeOK, FInv, CallInv
    <3>4. /\ \A m \in Loads : call[m] = "returned" => call'[m] = "returned"
          /\ \A m \in Loads : \/ loaded'[m] = loaded[m]
                              \/ loaded'[m] = "pending" /\ call[m] # "returned"
      <4> SUFFICES ASSUME NEW m \in Loads
                   PROVE  /\ call[m] = "returned" => call'[m] = "returned"
                          /\ \/ loaded'[m] = loaded[m]
                             \/ loaded'[m] = "pending" /\ call[m] # "returned"
        OBVIOUS
      <4>1. m # l => loaded'[m] = loaded[m] /\ call'[m] = call[m]
        BY <1>1, <3>2 DEF TypeOK
      <4> QED
        BY <3>2, <3>3, <4>1
    <3> DEFINE t == Reading(l)
    <3>5. tasks' = [tasks EXCEPT ![d] = Append(@, t)] /\ file' = file
      BY <3>2
    <3>6. t = Reading(l) /\ file'[l] = "open" /\ loaded'[l] = "pending"
      BY <3>3
    <3>7. \A i \in 1 .. Len(tasks[d]) : tasks[d][i] # t
      BY <3>1
    <3> HIDE DEF t
    <3> QED
      BY <1>1, <3>4, <3>5, <3>6, <3>7, QueueGrows
  <2>3. CASE DispatchGuard(l)
    <3>1. \A i \in 1 .. Len(tasks[d]) : tasks[d][i] # Guarding(l)
      <4> SUFFICES ASSUME NEW i \in 1 .. Len(tasks[d]), tasks[d][i] = Guarding(l)
                   PROVE  FALSE
        OBVIOUS
      <4>1. WaitsWell(d, i) /\ tasks[d][i][2] = l
        BY <1>1, Pairs DEF FInv, QueueInv
      <4> QED
        BY <2>3, <4>1 DEF WaitsWell, DispatchGuard
    <3>2. /\ tasks' = [tasks EXCEPT ![d] = Append(@, Guarding(l))]
          /\ file' = file /\ loaded' = loaded /\ call'[l] = "returned"
          /\ \A m \in Loads : call[m] = "returned" => call'[m] = "returned"
      BY <1>1, <2>3 DEF DispatchGuard, TypeOK
    <3>3. loaded[l] = "pending" => \E i \in 1 .. Len(tasks[d]) : tasks[d][i] = Reading(l)
      BY DEF FInv, LoadedInv
    <3> QED
      BY <1>1, <3>1, <3>2, <3>3, QueueGrows
  <2> QED
    BY <2>1, <2>2, <2>3
<1>9. LoadedInv'
  <2>1. \A m \in Loads : \A i \in 1 .. Len(tasks[DispatcherOf[m]]) :
          i \in 1 .. Len(tasks'[DispatcherOf[m]]) /\ tasks'[DispatcherOf[m]][i] = tasks[DispatcherOf[m]][i]
    <3>1. CASE tasks' = tasks
      BY <3>1
    <3>2. ASSUME NEW t, tasks' = [tasks EXCEPT ![d] = Append(@, t)]
          PROVE  \A e \in Dispatchers : \A i \in 1 .. Len(tasks[e]) :
                   i \in 1 .. Len(tasks'[e]) /\ tasks'[e][i] = tasks[e][i]
      <4>1. tasks \in [Dispatchers -> Seq(Task)]
        BY <1>1 DEF TypeOK
      <4>2. \A e \in Dispatchers \ {d} : tasks'[e] = tasks[e]
        BY <3>2, <4>1
      <4>3. tasks'[d] = Append(tasks[d], t) /\ tasks[d] \in Seq(Task)
        BY <1>1, <3>2, <4>1
      <4>4. \A i \in 1 .. Len(tasks[d]) : i \in 1 .. Len(tasks'[d]) /\ tasks'[d][i] = tasks[d][i]
        BY <4>3
      <4> QED
        BY <4>2, <4>4
    <3>3. \/ tasks' = tasks
          \/ tasks' = [tasks EXCEPT ![d] = Append(@, Reading(l))]
          \/ tasks' = [tasks EXCEPT ![d] = Append(@, Guarding(l))]
      BY DEF Open, DispatchRead, DispatchGuard
    <3>4. \A m \in Loads : DispatcherOf[m] \in Dispatchers
      BY FileAssumption
    <3> QED
      BY <3>1, <3>2, <3>3, <3>4
  <2>2. ASSUME NEW m \in Loads, loaded'[m] = "pending"
        PROVE  \E i \in 1 .. Len(tasks'[DispatcherOf[m]]) : tasks'[DispatcherOf[m]][i] = Reading(m)
    <3>1. CASE loaded[m] = "pending"
      BY <2>1, <3>1 DEF FInv, LoadedInv
    <3>2. CASE loaded[m] # "pending"
      <4>1. m = l /\ DispatchRead(l) /\ tasks'[d] = Append(tasks[d], Reading(l)) /\ tasks[d] \in Seq(Task)
        BY <1>1, <2>2, <3>2 DEF Open, DispatchRead, DispatchGuard, TypeOK
      <4> QED
        BY <4>1, Pairs
    <3> QED
      BY <3>1, <3>2
  <2>3. ASSUME NEW m \in Loads
        PROVE  /\ loaded'[m] = "data" => file'[m] = "closed" /\ bytes'[m] = Size[m]
               /\ loaded'[m] = "interrupted" => m \in interrupted'
               /\ loaded'[m] = "broken" => DispatcherOf[m] \notin alive'
               /\ \/ result'[m] \in {"none", "pending", loaded'[m]}
                  \/ result'[m] = "broken" /\ DispatcherOf[m] \notin alive'
    BY <1>1, <1>3 DEF FInv, LoadedInv, CallInv, Open, DispatchRead, DispatchGuard, TypeOK
  <2> QED
    BY <2>2, <2>3 DEF LoadedInv
<1> QED
  BY <1>2, <1>5, <1>6, <1>7, <1>8, <1>9 DEF FInv, FileInv

(* A task has its outcome, and leaves the queue.                           *)
LEMMA EndKeeps ==
  ASSUME FInv, NEW d \in Dispatchers, End(d) \/ Guard(d)
  PROVE  FInv'
<1> USE DEF callVars, workVars, Goto
<1> DEFINE f == Front(d)
<1>1. /\ tasks[d] \in Seq(Task) /\ Len(tasks[d]) \in Nat /\ Len(tasks[d]) >= 1
      /\ f \in Loads /\ DispatcherOf[f] = d /\ pc[d] \in {"work", "get"}
      /\ End(d) => tasks[d][1] = Reading(f) /\ loaded[f] = "pending" /\ pc[d] = "work"
      /\ Guard(d) => tasks[d][1] = Guarding(f) /\ loaded[f] # "pending" /\ pc[d] = "get"
  BY FrontFacts DEF End, Guard
<1>2. TypeOK /\ FileInv
  BY DEF FInv, FileInv
<1>3. /\ UNCHANGED <<call, interrupted, bytes, work_mutex, left, alive>>
      /\ pc' = [pc EXCEPT ![d] = "idle"] /\ PopFront(d)
      /\ \A m \in Loads \ {f} : file'[m] = file[m] /\ loaded'[m] = loaded[m] /\ result'[m] = result[m]
  BY <1>2 DEF End, Guard, Close, TypeOK
<1>4. tasks' = [tasks EXCEPT ![d] = Tail(@)] /\ Tail(tasks[d]) \in Seq(Task)
  BY <1>1, <1>3 DEF PopFront
<1>5. /\ End(d) => /\ result' = result
                    /\ \/ f \in interrupted /\ loaded'[f] = "interrupted"
                       \/ loaded'[f] = "data" /\ file'[f] = "closed"
      /\ Guard(d) => loaded' = loaded /\ file' = file /\ result'[f] = loaded[f]
  BY <1>1, <1>2 DEF End, Guard, Close, TypeOK
<1>6. TypeOK'
  <2>1. CASE End(d)
    <3>1. loaded' \in [Loads -> Outcome] /\ file' \in [Loads -> {"none", "open", "closed"}]
      BY <1>2, <2>1 DEF TypeOK, End, Close, Outcome
    <3> QED
      BY <1>2, <1>3, <1>4, <1>5, <2>1, <3>1 DEF TypeOK
  <2>2. CASE Guard(d)
    BY <1>1, <1>2, <1>3, <1>4, <2>2 DEF TypeOK, Guard
  <2> QED
    BY <2>1, <2>2
<1>7. ASSUME NEW e \in Dispatchers \ {d}, pc[e] # "idle"
      PROVE  /\ tasks'[e] = tasks[e] /\ file'[Front(e)] = file[Front(e)]
             /\ loaded'[Front(e)] = loaded[Front(e)]
  <2>1. Front(e) \in Loads /\ Front(e) # f
    BY <1>1, <1>7, FrontFacts
  <2> QED
    BY <1>2, <1>3, <1>4, <2>1 DEF TypeOK
<1>8. ASSUME NEW e \in Dispatchers
      PROVE  ThreadInv(e)'
  <2>1. CASE e = d
    <3>1. pc'[e] = "idle" /\ pc[e] # "block"
      BY <1>1, <1>2, <1>3, <2>1 DEF TypeOK
    <3>2. work_mutex' # e
      BY <1>2, <1>3, <3>1 DEF FileInv, ThreadInv
    <3> QED
      BY <3>1, <3>2 DEF ThreadInv
  <2>2. CASE e # d
    <3>1. pc'[e] = pc[e] /\ work_mutex' = work_mutex /\ alive' = alive /\ ThreadInv(e)
      BY <1>2, <1>3, <2>2 DEF FileInv, TypeOK
    <3>2. pc[e] # "idle" => /\ tasks'[e] = tasks[e] /\ file'[Front(e)] = file[Front(e)]
                            /\ loaded'[Front(e)] = loaded[Front(e)]
      BY <1>7, <2>2
    <3> QED
      BY <3>1, <3>2 DEF ThreadInv, Front
  <2> QED
    BY <2>1, <2>2
<1>9. QueueInv'
  <2>1. pc[d] = "work" => loaded'[f] # "pending"
    BY <1>1, <1>5
  <2>2. pc[d] = "get" => file' = file /\ loaded' = loaded
    BY <1>1, <1>5
  <2> QED
    BY <1>1, <1>3, <2>1, <2>2, QueueShrinks
<1>10. CallInv'
  <2>1. Guard(d) => call[f] = "returned"
    BY <1>1 DEF FInv, QueueInv, WaitsWell, Front
  <2>2. call[f] \notin {"start", "opened", "threw"}
    BY <1>1, <2>1 DEF FInv, CallInv
  <2> QED
    BY <1>1, <1>3, <1>5, <2>1, <2>2 DEF FInv, CallInv
<1>11. ReadInv'
  BY <1>2, <1>3, <1>7 DEF FInv, ReadInv, TypeOK, Front
<1>12. LoadedInv'
  <2>1. ASSUME NEW m \in Loads, loaded'[m] = "pending"
        PROVE  \E i \in 1 .. Len(tasks'[DispatcherOf[m]]) : tasks'[DispatcherOf[m]][i] = Reading(m)
    <3>1. loaded[m] = "pending" /\ tasks[d][1] # Reading(m)
      BY <1>1, <1>3, <1>5, <2>1, Pairs
    <3>2. PICK i \in 1 .. Len(tasks[DispatcherOf[m]]) : tasks[DispatcherOf[m]][i] = Reading(m)
      BY <3>1 DEF FInv, LoadedInv
    <3>3. CASE DispatcherOf[m] = d
      <4>1. /\ i - 1 \in 1 .. Len(tasks'[d]) /\ tasks'[d][i - 1] = tasks[d][i]
        BY <1>1, <1>2, <1>4, <3>1, <3>2, <3>3 DEF TypeOK
      <4> QED
        BY <3>2, <3>3, <4>1
    <3>4. CASE DispatcherOf[m] # d
      BY <1>2, <1>4, <3>2, <3>4, FileAssumption DEF TypeOK
    <3> QED
      BY <3>3, <3>4
  <2>2. End(d) => bytes[f] = Size[f]
    BY <1>1 DEF FInv, ReadInv
  <2>3. ASSUME NEW m \in Loads
        PROVE  /\ loaded'[m] = "data" => file'[m] = "closed" /\ bytes'[m] = Size[m]
               /\ loaded'[m] = "interrupted" => m \in interrupted'
               /\ loaded'[m] = "broken" => DispatcherOf[m] \notin alive'
               /\ \/ result'[m] \in {"none", "pending", loaded'[m]}
                  \/ result'[m] = "broken" /\ DispatcherOf[m] \notin alive'
    <3>1. CASE m = f
      BY <1>1, <1>3, <1>5, <2>2, <3>1 DEF FInv, LoadedInv
    <3>2. CASE m # f
      BY <1>3, <3>2 DEF FInv, LoadedInv
    <3> QED
      BY <3>1, <3>2
  <2> QED
    BY <2>1, <2>3 DEF LoadedInv
<1> QED
  BY <1>6, <1>8, <1>9, <1>10, <1>11, <1>12 DEF FInv, FileInv

(* A dispatcher goes, with all that is in its queue.                       *)
LEMMA DestroyKeeps ==
  ASSUME FInv, NEW d \in Dispatchers, Destroy(d)
  PROVE  FInv'
<1> USE DEF callVars, workVars
<1>1. TypeOK /\ FileInv
  BY DEF FInv, FileInv
<1>2. /\ UNCHANGED <<call, interrupted, bytes, work_mutex, left, file, pc>>
      /\ pc[d] = "idle" /\ alive' = alive \ {d} /\ tasks' = [tasks EXCEPT ![d] = << >>]
      /\ loaded' = Broken(d, "read", loaded) /\ result' = Broken(d, "guard", result)
  BY DEF Destroy, BreakPromises
<1>3. /\ tasks'[d] = << >> /\ Len(tasks'[d]) = 0
      /\ \A e \in Dispatchers \ {d} : tasks'[e] = tasks[e]
  BY <1>1, <1>2 DEF TypeOK
<1>4. TypeOK'
  <2>1. << >> \in Seq(Task)
    OBVIOUS
  <2> QED
    BY <1>1, <1>2, <2>1 DEF TypeOK, Broken, Outcome
<1>5. ASSUME NEW l \in Loads
      PROVE  /\ \/ loaded'[l] = loaded[l] /\ ~(loaded[l] = "pending" /\ DispatcherOf[l] = d)
                \/ loaded[l] = "pending" /\ loaded'[l] = "broken" /\ DispatcherOf[l] = d
             /\ \/ result'[l] = result[l]
                \/ result'[l] = "broken" /\ DispatcherOf[l] = d /\ call[l] = "returned"
  <2>1. ASSUME NEW i \in 1 .. Len(tasks[d]), tasks[d][i] = Reading(l)
        PROVE  loaded[l] = "pending" /\ DispatcherOf[l] = d
    BY <2>1, Pairs DEF FInv, QueueInv, WaitsWell
  <2>2. ASSUME NEW i \in 1 .. Len(tasks[d]), tasks[d][i] = Guarding(l)
        PROVE  call[l] = "returned" /\ DispatcherOf[l] = d
    BY <2>2, Pairs DEF FInv, QueueInv, WaitsWell
  <2>3. loaded[l] = "pending" /\ DispatcherOf[l] = d =>
          \E i \in 1 .. Len(tasks[d]) : tasks[d][i] = Reading(l)
    BY DEF FInv, LoadedInv
  <2>4. loaded'[l] = IF \E i \in 1 .. Len(tasks[d]) : tasks[d][i] = Reading(l)
                     THEN "broken" ELSE loaded[l]
    BY <1>2 DEF Broken, Reading
  <2>5. result'[l] = IF \E i \in 1 .. Len(tasks[d]) : tasks[d][i] = Guarding(l)
                     THEN "broken" ELSE result[l]
    BY <1>2 DEF Broken, Guarding
  <2>6. /\ \/ loaded'[l] = loaded[l] /\ ~(loaded[l] = "pending" /\ DispatcherOf[l] = d)
           \/ loaded[l] = "pending" /\ loaded'[l] = "broken" /\ DispatcherOf[l] = d
    BY <2>1, <2>3, <2>4
  <2> QED
    BY <2>2, <2>5, <2>6
<1>6. \A e \in Dispatchers \ {d} : pc[e] # "idle" => loaded'[Front(e)] = loaded[Front(e)]
  BY <1>5, FrontFacts
<1>7. ASSUME NEW e \in Dispatchers
      PROVE  ThreadInv(e)'
  <2>1. CASE e = d
    BY <1>1, <1>2, <2>1 DEF FileInv, ThreadInv
  <2>2. CASE e # d
    BY <1>1, <1>2, <1>3, <1>6, <2>2 DEF FileInv, ThreadInv, Front
  <2> QED
    BY <2>1, <2>2
<1>8. QueueInv'
  <2>1. ASSUME NEW e \in Dispatchers \ {d}, NEW i \in 1 .. Len(tasks[e])
        PROVE  WaitsWell(e, i)'
    <3>1. WaitsWell(e, i) /\ tasks[e][i] \in Task /\ tasks[e][i][2] \in Loads
      BY <1>1, Pairs DEF FInv, QueueInv, TypeOK
    <3>2. loaded'[tasks[e][i][2]] = loaded[tasks[e][i][2]]
      BY <1>5, <3>1 DEF WaitsWell
    <3> QED
      BY <1>2, <1>3, <3>1, <3>2 DEF WaitsWell
  <2>2. \A e \in Dispatchers : \A i, j \in 1 .. Len(tasks'[e]) : tasks'[e][i] = tasks'[e][j] => i = j
    BY <1>3 DEF FInv, QueueInv
  <2>3. \A e \in Dispatchers \ {d} : \A i \in 1 .. Len(tasks'[e]) : WaitsWell(e, i)'
    BY <1>3, <2>1
  <2>4. \A i \in 1 .. Len(tasks'[d]) : WaitsWell(d, i)'
    BY <1>3
  <2> QED
    BY <2>2, <2>3, <2>4 DEF QueueInv, WaitsWell
<1>9. CallInv'
  BY <1>2, <1>5 DEF FInv, CallInv
<1>10. ReadInv'
  BY <1>2, <1>3 DEF FInv, ReadInv, Front
<1>11. LoadedInv'
  <2>1. ASSUME NEW m \in Loads, loaded'[m] = "pending"
        PROVE  \E i \in 1 .. Len(tasks'[DispatcherOf[m]]) : tasks'[DispatcherOf[m]][i] = Reading(m)
    <3>1. loaded[m] = "pending" /\ DispatcherOf[m] # d
      BY <1>5, <2>1
    <3>2. tasks'[DispatcherOf[m]] = tasks[DispatcherOf[m]]
      BY <1>3, <3>1, FileAssumption
    <3> QED
      BY <3>1, <3>2 DEF FInv, LoadedInv
  <2>2. ASSUME NEW m \in Loads
        PROVE  /\ loaded'[m] = "data" => file'[m] = "closed" /\ bytes'[m] = Size[m]
               /\ loaded'[m] = "interrupted" => m \in interrupted'
               /\ loaded'[m] = "broken" => DispatcherOf[m] \notin alive'
               /\ \/ result'[m] \in {"none", "pending", loaded'[m]}
                  \/ result'[m] = "broken" /\ DispatcherOf[m] \notin alive'
    BY <1>2, <1>5 DEF FInv, LoadedInv
  <2> QED
    BY <2>1, <2>2 DEF LoadedInv
<1> QED
  BY <1>4, <1>7, <1>8, <1>9, <1>10, <1>11 DEF FInv, FileInv

LEMMA NextKeeps == FInv /\ [Next]_vars => FInv'
<1> SUFFICES ASSUME FInv, [Next]_vars PROVE FInv'
  OBVIOUS
<1>1. ASSUME NEW l \in Loads, Load(l) PROVE FInv'
  BY <1>1, LoadKeeps DEF Load
<1>2. ASSUME NEW l \in Loads, Interrupt(l) PROVE FInv'
  <2>1. UNCHANGED <<call, file, bytes, work_mutex, left, tasks, loaded, result, pc, alive>>
        /\ interrupted' = interrupted \cup {l}
    BY <1>2 DEF Interrupt, workVars
  <2>2. QueueInv'
    BY <2>1, QueueStays
  <2>3. FileInv' /\ CallInv' /\ LoadedInv' /\ ReadInv'
    BY <2>1 DEF FInv, FileInv, TypeOK, ThreadInv, CallInv, LoadedInv, ReadInv, Front
  <2> QED
    BY <2>2, <2>3 DEF FInv
<1>3. ASSUME NEW d \in Dispatchers, Process(d) PROVE FInv'
  BY <1>3, ThreadKeeps, EndKeeps DEF Process
<1>4. ASSUME NEW d \in Dispatchers, Destroy(d) PROVE FInv'
  BY <1>4, DestroyKeeps
<1>5. CASE UNCHANGED vars
  <2>1. UNCHANGED <<call, interrupted, file, bytes, work_mutex, left, tasks, loaded, result, pc, alive>>
    BY <1>5 DEF vars, callVars, workVars
  <2>2. QueueInv'
    BY <2>1, QueueStays
  <2>3. FileInv' /\ CallInv' /\ LoadedInv' /\ ReadInv'
    BY <2>1 DEF FInv, FileInv, TypeOK, ThreadInv, CallInv, LoadedInv, ReadInv, Front
  <2> QED
    BY <2>2, <2>3 DEF FInv
<1> QED
  BY <1>1, <1>2, <1>3, <1>4, <1>5 DEF Next

LEMMA InitHolds == Init => FInv
<1> SUFFICES ASSUME Init PROVE FInv
  OBVIOUS
<1>1. << >> \in Seq(Task) /\ Len(<< >>) = 0
  OBVIOUS
<1>2. TypeOK
  BY <1>1 DEF Init, TypeOK, Outcome
<1>3. \A d \in Dispatchers : ThreadInv(d)
  BY FileAssumption DEF Init, ThreadInv
<1>4. QueueInv
  BY <1>1 DEF Init, QueueInv
<1>5. CallInv /\ LoadedInv /\ ReadInv
  BY DEF Init, CallInv, LoadedInv, ReadInv
<1> QED
  BY <1>2, <1>3, <1>4, <1>5 DEF FInv, FileInv

-----------------------------------------------------------------------------
THEOREM FInvariance == Spec => []FInv
BY InitHolds, NextKeeps, PTL DEF Spec

(* Files are open while their tasks read or close them, work_mutex has one *)
(* owner, and the guard behind a read never waits for it in vain.          *)
THEOREM FilesAreOpen == Spec => []FileInv
<1>1. FInv => FileInv
  BY DEF FInv
<1> QED
  BY <1>1, FInvariance, PTL

(* Data is the whole file, and the file is closed.                         *)
THEOREM FilesAreWhole == Spec => []WholeFile
<1>1. FInv => WholeFile
  BY DEF FInv, LoadedInv, WholeFile
<1> QED
  BY <1>1, FInvariance, PTL

(* A file that nobody closes is that of an interrupted load, or of one     *)
(* whose dispatcher is gone.                                               *)
THEOREM OnlyCutLoadsLeak == Spec => []LeaksOnlyIfCut
<1>1. FInv => LeaksOnlyIfCut
  <2> SUFFICES ASSUME FInv, NEW l \in Loads, result[l] \notin {"none", "pending"}, file[l] = "open"
               PROVE  l \in interrupted \/ DispatcherOf[l] \notin alive
    BY DEF LeaksOnlyIfCut
  <2>1. CASE result[l] = loaded[l]
    <3>1. loaded[l] \in Outcome
      BY DEF FInv, FileInv, TypeOK
    <3> QED
      BY <2>1, <3>1 DEF FInv, LoadedInv, Outcome
  <2>2. CASE result[l] # loaded[l]
    BY <2>2 DEF FInv, LoadedInv
  <2> QED
    BY <2>1, <2>2
<1> QED
  BY <1>1, FInvariance, PTL

-----------------------------------------------------------------------------
(* Nobody waits for ever.  A caller without an answer has a guard in the   *)
(* queue of a dispatcher that is alive, and no file is read past its end.  *)
ServedInv ==
  /\ \A l \in Loads : result[l] = "pending" =>
       \E i \in 1 .. Len(tasks[DispatcherOf[l]]) : tasks[DispatcherOf[l]][i] = Guarding(l)
  /\ \A d \in Dispatchers : tasks[d] # << >> => d \in alive
  /\ \A l \in Loads : call[l] \in {"opened", "reading"} => DispatcherOf[l] \in alive
  /\ \A l \in Loads : bytes[l] <= Size[l]

(* A task is added by a call of load.                                      *)
LEMMA AddingServes ==
  ASSUME FInv, ServedInv, NEW l \in Loads, DispatchRead(l) \/ DispatchGuard(l)
  PROVE  ServedInv'
<1> USE FileAssumption
<1>1. PICK t \in Task : /\ tasks' = [tasks EXCEPT ![DispatcherOf[l]] = Append(@, t)]
                        /\ t = Guarding(l) \/ result' = result
  BY Pairs DEF DispatchRead, DispatchGuard
<1>2. /\ \A m \in Loads : result'[m] = result[m] \/ (m = l /\ t = Guarding(l))
      /\ UNCHANGED <<bytes, alive>>
      /\ \A m \in Loads : call'[m] \in {"opened", "reading"} => call[m] \in {"opened", "reading"}
      /\ DispatcherOf[l] \in alive
  <2>1. /\ call \in [Loads -> {"start", "opened", "reading", "returned", "threw"}]
        /\ result \in [Loads -> Outcome]
    BY DEF FInv, FileInv, TypeOK
  <2>2. \A m \in Loads : result'[m] = result[m] \/ (m = l /\ t = Guarding(l))
    BY <1>1, <2>1 DEF DispatchRead, DispatchGuard
  <2> QED
    BY <1>1, <2>1, <2>2 DEF DispatchRead, DispatchGuard, ServedInv, workVars
<1>3. ASSUME NEW m \in Loads, result'[m] = "pending"
      PROVE  \E i \in 1 .. Len(tasks'[DispatcherOf[m]]) : tasks'[DispatcherOf[m]][i] = Guarding(m)
  <2> DEFINE d == DispatcherOf[m]
  <2>1. tasks \in [Dispatchers -> Seq(Task)] /\ d \in Dispatchers
    BY DEF FInv, FileInv, TypeOK
  <2>2. CASE d = DispatcherOf[l]
    <3>1. tasks'[d] = Append(tasks[d], t) /\ tasks[d] \in Seq(Task)
      BY <1>1, <2>1, <2>2
    <3>2. /\ Len(tasks'[d]) = Len(tasks[d]) + 1 /\ Len(tasks[d]) \in Nat
          /\ tasks'[d][Len(tasks[d]) + 1] = t
          /\ \A i \in 1 .. Len(tasks[d]) : tasks'[d][i] = tasks[d][i]
      BY <3>1
    <3>3. CASE result[m] = "pending"
      BY <3>2, <3>3 DEF ServedInv
    <3>4. CASE result[m] # "pending"
      <4>1. m = l /\ t = Guarding(l)
        BY <1>2, <1>3, <3>4
      <4> QED
        BY <3>2, <4>1
    <3> QED
      BY <3>3, <3>4
  <2>3. CASE d # DispatcherOf[l]
    <3>1. tasks'[d] = tasks[d] /\ m # l
      BY <1>1, <2>1, <2>3
    <3>2. result[m] = "pending"
      BY <1>2, <1>3, <3>1
    <3> QED
      BY <3>1, <3>2 DEF ServedInv
  <2> QED
    BY <2>2, <2>3
<1>4. \A d \in Dispatchers : tasks'[d] # << >> => d \in alive'
  <2> SUFFICES ASSUME NEW d \in Dispatchers, tasks'[d] # << >> PROVE d \in alive
    BY <1>2
  <2>1. d # DispatcherOf[l] => tasks'[d] = tasks[d]
    BY <1>1 DEF FInv, FileInv, TypeOK
  <2> QED
    BY <1>2, <2>1 DEF ServedInv
<1> QED
  BY <1>2, <1>3, <1>4 DEF ServedInv

(* The front task leaves the queue; a guard has answered its caller.       *)
LEMMA EndingServes ==
  ASSUME FInv, ServedInv, NEW d \in Dispatchers, End(d) \/ Guard(d)
  PROVE  ServedInv'
<1> USE FileAssumption DEF callVars, workVars
<1>1. /\ pc[d] # "idle" /\ tasks' = [tasks EXCEPT ![d] = Tail(@)]
      /\ UNCHANGED <<call, bytes, alive>>
      /\ \/ /\ tasks[d][1] = Reading(Front(d))
            /\ result' = result
         \/ /\ tasks[d][1] = Guarding(Front(d)) /\ loaded[Front(d)] # "pending"
            /\ result' = [result EXCEPT ![Front(d)] = loaded[Front(d)]]
  <2>1. CASE End(d)
    <3>1. pc[d] = "work" /\ tasks' = [tasks EXCEPT ![d] = Tail(@)]
          /\ UNCHANGED <<call, bytes, alive, result>>
      BY <2>1 DEF End, PopFront
    <3>2. pc[d] # "idle" /\ pc[d] \in {"retry", "block", "work"}
      BY <3>1
    <3>3. tasks[d][1] = Reading(Front(d))
      BY <3>2, FrontFacts
    <3> QED
      BY <3>1, <3>3
  <2>2. CASE Guard(d)
    <3>1. pc[d] = "get" /\ tasks' = [tasks EXCEPT ![d] = Tail(@)]
          /\ UNCHANGED <<call, bytes, alive>> /\ loaded[Front(d)] # "pending"
          /\ result' = [result EXCEPT ![Front(d)] = loaded[Front(d)]]
      BY <2>2 DEF Guard, PopFront
    <3> QED
      BY <3>1, FrontFacts
  <2> QED
    BY <2>1, <2>2
<1>2. /\ tasks[d] \in Seq(Task) /\ Len(tasks[d]) \in Nat /\ Len(tasks[d]) >= 1 /\ d \in alive
      /\ Front(d) \in Loads
  BY <1>1, FrontFacts
<1>3. tasks'[d] = Tail(tasks[d]) /\ \A e \in Dispatchers \ {d} : tasks'[e] = tasks[e]
  BY <1>1 DEF FInv, FileInv, TypeOK
<1>4. /\ Len(tasks'[d]) = Len(tasks[d]) - 1
      /\ \A i \in 2 .. Len(tasks[d]) : tasks'[d][i - 1] = tasks[d][i]
  BY <1>2, <1>3
<1>5. ASSUME NEW m \in Loads, result'[m] = "pending"
      PROVE  \E i \in 1 .. Len(tasks'[DispatcherOf[m]]) : tasks'[DispatcherOf[m]][i] = Guarding(m)
  <2>1. result[m] = "pending" /\ tasks[d][1] # Guarding(m)
    <3>1. result \in [Loads -> Outcome]
      BY DEF FInv, FileInv, TypeOK
    <3>2. Reading(Front(d)) # Guarding(m) /\ (Guarding(Front(d)) = Guarding(m) => Front(d) = m)
      BY Pairs
    <3>3. CASE tasks[d][1] = Reading(Front(d)) /\ result' = result
      BY <1>5, <3>2, <3>3
    <3>4. CASE /\ tasks[d][1] = Guarding(Front(d)) /\ loaded[Front(d)] # "pending"
               /\ result' = [result EXCEPT ![Front(d)] = loaded[Front(d)]]
      <4>1. m # Front(d)
        BY <1>2, <1>5, <3>1, <3>4
      <4> QED
        BY <1>5, <3>1, <3>2, <3>4, <4>1
    <3> QED
      BY <1>1, <3>3, <3>4
  <2>2. PICK i \in 1 .. Len(tasks[DispatcherOf[m]]) : tasks[DispatcherOf[m]][i] = Guarding(m)
    BY <2>1 DEF ServedInv
  <2>3. CASE DispatcherOf[m] = d
    <3>1. i \in 2 .. Len(tasks[d])
      BY <1>2, <2>1, <2>2, <2>3
    <3>2. i - 1 \in 1 .. Len(tasks'[d]) /\ tasks'[d][i - 1] = Guarding(m)
      BY <1>2, <1>4, <2>2, <2>3, <3>1
    <3> QED
      BY <2>3, <3>2
  <2>4. CASE DispatcherOf[m] # d
    BY <1>3, <2>2, <2>4
  <2> QED
    BY <2>3, <2>4
<1>6. \A e \in Dispatchers : tasks'[e] # << >> => e \in alive'
  BY <1>1, <1>2, <1>3 DEF ServedInv
<1> QED
  BY <1>1, <1>5, <1>6 DEF ServedInv

(* The destructor answers all whose guards are in the queue.               *)
LEMMA DestroyingServes ==
  ASSUME FInv, ServedInv, NEW d \in Dispatchers, Destroy(d)
  PROVE  ServedInv'
<1> USE FileAssumption DEF callVars, workVars
<1>1. /\ tasks' = [tasks EXCEPT ![d] = << >>] /\ alive' = alive \ {d}
      /\ result' = Broken(d, "guard", result) /\ UNCHANGED <<call, bytes>>
      /\ \A l \in Loads : DispatcherOf[l] = d => call[l] \notin {"opened", "reading"}
  BY DEF Destroy, BreakPromises
<1>2. tasks'[d] = << >> /\ \A e \in Dispatchers \ {d} : tasks'[e] = tasks[e]
  BY <1>1 DEF FInv, FileInv, TypeOK
<1>3. ASSUME NEW m \in Loads, result'[m] = "pending"
      PROVE  \E i \in 1 .. Len(tasks'[DispatcherOf[m]]) : tasks'[DispatcherOf[m]][i] = Guarding(m)
  <2>1. result[m] = "pending" /\ ~\E i \in 1 .. Len(tasks[d]) : tasks[d][i] = Guarding(m)
    BY <1>1, <1>3 DEF Broken, Guarding
  <2>2. DispatcherOf[m] # d
    BY <2>1 DEF ServedInv
  <2> QED
    BY <1>2, <2>1, <2>2 DEF ServedInv
<1>4. \A e \in Dispatchers : tasks'[e] # << >> => e \in alive'
  BY <1>1, <1>2 DEF ServedInv
<1> QED
  BY <1>1, <1>3, <1>4 DEF ServedInv

LEMMA ServedNext == FInv /\ ServedInv /\ [Next]_vars => ServedInv'
<1> SUFFICES ASSUME FInv, ServedInv, [Next]_vars PROVE ServedInv'
  OBVIOUS
<1> USE FileAssumption DEF callVars, workVars
<1>1. ASSUME NEW l \in Loads, Open(l) PROVE ServedInv'
  <2>1. UNCHANGED <<tasks, result, bytes, alive>> /\ DispatcherOf[l] \in alive
    BY <1>1 DEF Open
  <2>2. \A m \in Loads \ {l} : call'[m] = call[m]
    BY <1>1 DEF Open, FInv, FileInv, TypeOK
  <2> QED
    BY <2>1, <2>2 DEF ServedInv
<1>2. ASSUME NEW l \in Loads, Interrupt(l) PROVE ServedInv'
  BY <1>2 DEF Interrupt, ServedInv
<1>3. ASSUME NEW d \in Dispatchers, Take(d) \/ Lock(d) \/ ReadEnd(d) \/ BlockEnd(d)
      PROVE  ServedInv'
  BY <1>3 DEF Take, Lock, ReadEnd, BlockEnd, ReturnFromWork, ServedInv
<1>4. ASSUME NEW d \in Dispatchers, ReadByte(d) PROVE ServedInv'
  <2>1. UNCHANGED <<tasks, result, call, alive>>
    BY <1>4 DEF ReadByte
  <2>2. bytes'= [bytes EXCEPT ![Front(d)] = @ + 1] /\ bytes[Front(d)] < Size[Front(d)]
    BY <1>4 DEF ReadByte
  <2>3. bytes \in [Loads -> Nat] /\ Size \in [Loads -> Nat]
    BY DEF FInv, FileInv, TypeOK
  <2>4. \A m \in Loads : bytes'[m] <= Size[m]
    BY <2>2, <2>3 DEF ServedInv
  <2> QED
    BY <2>1, <2>4 DEF ServedInv
<1>5. CASE UNCHANGED vars
  BY <1>5 DEF vars, ServedInv
<1> QED
  BY <1>1, <1>2, <1>3, <1>4, <1>5, AddingServes, EndingServes, DestroyingServes
  DEF Next, Load, Process

THEOREM ServedInvariance == Spec => []ServedInv
<1>1. Init => ServedInv
  <2> SUFFICES ASSUME Init PROVE ServedInv
    OBVIOUS
  <2>1. /\ result = [l \in Loads |-> "none"] /\ tasks = [d \in Dispatchers |-> << >>]
        /\ call = [l \in Loads |-> "start"] /\ bytes = [l \in Loads |-> 0]
    BY DEF Init
  <2>2. \A l \in Loads : 0 <= Size[l]
    BY FileAssumption
  <2> QED
    BY <2>1, <2>2 DEF ServedInv
<1> QED
  BY <1>1, ServedNext, FInvariance, PTL DEF Spec

(* The guard of a step of the thread of dispatcher d holds.                *)
ThreadGoesOn(d) ==
  \/ pc[d] = "idle" /\ d \in alive /\ tasks[d] # << >>
  \/ pc[d] = "retry" /\ work_mutex = Nobody
  \/ pc[d] = "block" /\ (left[d] = 0 \/ bytes[Front(d)] \in 0 .. Size[Front(d)])
  \/ pc[d] = "work"
  \/ pc[d] = "get" /\ loaded[Front(d)] # "pending"

(* It does, or the thread waits for the block that another one reads.      *)
IsServed(d) ==
  \/ ThreadGoesOn(d)
  \/ pc[d] = "retry" /\ \E e \in Dispatchers \ {d} : work_mutex = e /\ ThreadGoesOn(e)

(* Whoever waits for a file is served.  While the call of load is under    *)
(* way, its dispatcher is alive, and free to take its tasks or busy with a *)
(* step that it can take; while the caller has no answer, the thread of    *)
(* the dispatcher can take a step, or waits for a block that another       *)
(* thread reads, which can.  Any number of loaders may share work_mutex.   *)
CallerIsServed(l, d) ==
  /\ call[l] \in {"opened", "reading"} => d \in alive /\ (pc[d] = "idle" \/ IsServed(d))
  /\ result[l] = "pending" => d \in alive /\ IsServed(d)

EveryLoadServed == \A l \in Loads : CallerIsServed(l, DispatcherOf[l])

(* No caller of load waits for a thread that cannot go on, for any number  *)
(* of loaders and files of any size: the guard gets no promise in vain,    *)
(* and work_mutex is not held by a thread that waits.                      *)
THEOREM EveryLoadIsServed == Spec => []EveryLoadServed
<1> USE FileAssumption
<1>1. ASSUME FInv, ServedInv, NEW l \in Loads, pc[DispatcherOf[l]] # "idle"
      PROVE  IsServed(DispatcherOf[l])
  <2> DEFINE d == DispatcherOf[l]
  <2>1. ASSUME NEW e \in Dispatchers, pc[e] = "block" PROVE ThreadGoesOn(e)
    <3>1. Front(e) \in Loads
      BY <1>1, <2>1, FrontFacts
    <3>2. bytes[Front(e)] \in Nat /\ Size[Front(e)] \in Nat
      BY <1>1, <3>1 DEF FInv, FileInv, TypeOK
    <3>3. bytes[Front(e)] <= Size[Front(e)]
      BY <1>1, <3>1 DEF ServedInv
    <3>4. bytes[Front(e)] \in 0 .. Size[Front(e)]
      BY <3>2, <3>3
    <3> QED
      BY <2>1, <3>4 DEF ThreadGoesOn
  <2>2. d \in Dispatchers /\ pc[d] \in {"retry", "block", "work", "get"}
    BY <1>1 DEF FInv, FileInv, TypeOK
  <2>3. CASE pc[d] = "retry"
    <3>1. work_mutex = Nobody \/ (work_mutex \in Dispatchers /\ pc[work_mutex] = "block")
      BY <1>1 DEF FInv, FileInv, TypeOK, ThreadInv
    <3> QED
      BY <2>1, <2>2, <2>3, <3>1 DEF ThreadGoesOn, IsServed
  <2>4. CASE pc[d] = "get"
    BY <1>1, <2>2, <2>4, FrontFacts DEF ThreadGoesOn, IsServed
  <2>5. CASE pc[d] \in {"block", "work"}
    BY <2>1, <2>2, <2>5 DEF ThreadGoesOn, IsServed
  <2> QED
    BY <2>2, <2>3, <2>4, <2>5
<1>2. FInv /\ ServedInv => EveryLoadServed
  <2> SUFFICES ASSUME FInv, ServedInv, NEW l \in Loads
               PROVE  CallerIsServed(l, DispatcherOf[l])
    BY DEF EveryLoadServed
  <2> DEFINE d == DispatcherOf[l]
  <2>1. call[l] \in {"opened", "reading"} => d \in alive
    BY DEF ServedInv
  <2>2. ASSUME result[l] = "pending" PROVE d \in alive /\ tasks[d] # << >>
    <3>1. PICK i \in 1 .. Len(tasks[d]) : tasks[d][i] = Guarding(l)
      BY <2>2 DEF ServedInv
    <3>2. tasks[d] # << >>
      BY <3>1
    <3> QED
      BY <3>2 DEF ServedInv
  <2>3. CASE pc[d] = "idle"
    BY <2>1, <2>2, <2>3 DEF ThreadGoesOn, IsServed, CallerIsServed
  <2>4. CASE pc[d] # "idle"
    <3>1. IsServed(d)
      BY <1>1, <2>4
    <3> QED
      BY <2>1, <2>2, <3>1 DEF CallerIsServed
  <2> QED
    BY <2>3, <2>4
<1> QED
  BY <1>2, FInvariance, ServedInvariance, PTL
-----------------------------------------------------------------------------
(* Blocks of no bytes.                                                     *)

(* A loader with _block_size 0 neither reads nor comes to the end of the   *)
(* file: the retry function of its task always answers false.              *)
ZeroInv(l) ==
  /\ bytes[l] = 0
  /\ loaded[l] \in {"none", "pending", "broken"}
  /\ result[l] \in {"none", "pending", "broken"}
  /\ \A d \in Dispatchers :
       /\ pc[d] = "block" /\ Front(d) = l => left[d] = 0
       /\ pc[d] = "work" => Front(d) # l

LEMMA ZeroNext ==
  ASSUME NEW l \in Loads, BlockSize[l] = 0, FInv, FInv', ZeroInv(l), [Next]_vars
  PROVE  ZeroInv(l)'
<1> USE FileAssumption DEF Goto, callVars, workVars
<1>1. TypeOK /\ TypeOK'
  BY DEF FInv, FileInv
<1>2. ASSUME UNCHANGED <<bytes, left, pc>>,
             \A d \in Dispatchers : pc[d] # "idle" => tasks'[d] = tasks[d],
             loaded'[l] \in {loaded[l], "pending", "broken"},
             result'[l] \in {result[l], "pending", "broken"}
      PROVE  ZeroInv(l)'
  BY <1>2 DEF ZeroInv, Front
<1>3. ASSUME NEW m \in Loads, Load(m) \/ Interrupt(m) PROVE ZeroInv(l)'
  <2>1. CASE Open(m) \/ Interrupt(m)
    BY <1>2, <2>1 DEF Open, Interrupt
  <2>2. CASE DispatchRead(m)
    <3>1. loaded'[l] \in {loaded[l], "pending"}
      BY <1>1, <2>2 DEF DispatchRead, TypeOK
    <3>2. \A d \in Dispatchers : pc[d] # "idle" => tasks'[d] = tasks[d]
      BY <1>1, <2>2 DEF DispatchRead, TypeOK
    <3> QED
      BY <1>2, <2>2, <3>1, <3>2 DEF DispatchRead
  <2>3. CASE DispatchGuard(m)
    <3>1. result'[l] \in {result[l], "pending"}
      BY <1>1, <2>3 DEF DispatchGuard, TypeOK
    <3>2. \A d \in Dispatchers : pc[d] # "idle" => tasks'[d] = tasks[d]
      BY <1>1, <2>3 DEF DispatchGuard, TypeOK
    <3> QED
      BY <1>2, <2>3, <3>1, <3>2 DEF DispatchGuard
  <2> QED
    BY <1>3, <2>1, <2>2, <2>3 DEF Load
<1>4. ASSUME NEW d \in Dispatchers, Take(d) \/ Lock(d) \/ ReadByte(d) \/ ReadEnd(d) \/ BlockEnd(d)
      PROVE  ZeroInv(l)'
  <2>1. UNCHANGED <<tasks, loaded, result>>
    BY <1>4 DEF Take, Lock, ReadByte, ReadEnd, BlockEnd, ReturnFromWork
  <2>2. \A e \in Dispatchers \ {d} : pc'[e] = pc[e] /\ left'[e] = left[e]
    BY <1>1, <1>4 DEF Take, Lock, ReadByte, ReadEnd, BlockEnd, ReturnFromWork, TypeOK
  <2>3. CASE Take(d)
    <3>1. pc'[d] \in {"retry", "get"} /\ bytes' = bytes
      BY <1>1, <2>3 DEF Take, TypeOK
    <3> QED
      BY <2>1, <2>2, <3>1 DEF ZeroInv, Front
  <2>4. CASE Lock(d)
    <3>1. pc'[d] = "block" /\ left'[d] = BlockSize[Front(d)] /\ bytes' = bytes
      BY <1>1, <2>4 DEF Lock, TypeOK
    <3> QED
      BY <2>1, <2>2, <3>1 DEF ZeroInv, Front
  <2>5. CASE ReadByte(d)
    <3>1. pc' = pc /\ pc[d] = "block" /\ Front(d) # l
      BY <2>5 DEF ReadByte, ZeroInv
    <3>2. bytes'[l] = bytes[l]
      BY <1>1, <2>5, <3>1 DEF ReadByte, TypeOK
    <3> QED
      BY <2>1, <2>2, <3>1, <3>2 DEF ZeroInv, Front
  <2>6. CASE ReadEnd(d)
    <3>1. pc'[d] = "work" /\ Front(d) # l /\ bytes' = bytes
      BY <1>1, <2>6 DEF ReadEnd, ReturnFromWork, ZeroInv, TypeOK
    <3> QED
      BY <2>1, <2>2, <3>1 DEF ZeroInv, Front
  <2>7. CASE BlockEnd(d)
    <3>1. pc'[d] = "idle" /\ bytes' = bytes
      BY <1>1, <2>7 DEF BlockEnd, ReturnFromWork, TypeOK
    <3> QED
      BY <2>1, <2>2, <3>1 DEF ZeroInv, Front
  <2> QED
    BY <1>4, <2>3, <2>4, <2>5, <2>6, <2>7
<1>5. ASSUME NEW d \in Dispatchers, End(d) \/ Guard(d) PROVE ZeroInv(l)'
  <2>1. pc'[d] = "idle" /\ UNCHANGED <<bytes, left>>
    BY <1>1, <1>5 DEF End, Guard, TypeOK
  <2>2. \A e \in Dispatchers \ {d} : pc'[e] = pc[e] /\ tasks'[e] = tasks[e]
    BY <1>1, <1>5 DEF End, Guard, PopFront, TypeOK
  <2>3. loaded'[l] = loaded[l]
    BY <1>1, <1>5 DEF End, Guard, ZeroInv, TypeOK
  <2>4. result'[l] \in {result[l], loaded[l]}
    BY <1>1, <1>5 DEF End, Guard, TypeOK
  <2> QED
    BY <2>1, <2>2, <2>3, <2>4 DEF ZeroInv, Front
<1>6. ASSUME NEW d \in Dispatchers, Destroy(d) PROVE ZeroInv(l)'
  <2>1. loaded'[l] \in {loaded[l], "broken"} /\ result'[l] \in {result[l], "broken"}
    BY <1>6 DEF Destroy, BreakPromises, Broken
  <2>2. \A e \in Dispatchers : pc[e] # "idle" => tasks'[e] = tasks[e]
    BY <1>1, <1>6 DEF Destroy, TypeOK
  <2> QED
    BY <1>2, <1>6, <2>1, <2>2 DEF Destroy
<1>7. CASE UNCHANGED vars
  BY <1>2, <1>7 DEF vars
<1> QED
  BY <1>3, <1>4, <1>5, <1>6, <1>7 DEF Next, Process

(* With blocks of no bytes load never has an answer of its own, not even   *)
(* for an empty file and after an interruption: nothing is read, and the   *)
(* caller gets at most the broken promise of a destroyed dispatcher, whose *)
(* front task the load has been until then.                                *)
THEOREM ZeroBlocksReadNothing ==
  ASSUME NEW l \in Loads, BlockSize[l] = 0
  PROVE  Spec => [](bytes[l] = 0 /\ result[l] \in {"none", "pending", "broken"})
<1>1. Init => ZeroInv(l)
  BY DEF Init, ZeroInv
<1>2. FInv /\ FInv' /\ ZeroInv(l) /\ [Next]_vars => ZeroInv(l)'
  BY ZeroNext
<1>3. ZeroInv(l) => bytes[l] = 0 /\ result[l] \in {"none", "pending", "broken"}
  BY DEF ZeroInv
<1> QED
  BY <1>1, <1>2, <1>3, FInvariance, PTL DEF Spec
===============================================================================
