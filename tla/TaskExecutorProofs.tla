-------------------------- MODULE TaskExecutorProofs --------------------------
(***************************************************************************)
(* Proofs about TaskExecutor, for every number of items and of tasks and   *)
(* every task.  Inv is the inductive invariant.                            *)
(***************************************************************************)
EXTENDS TaskExecutor, SequenceTheorems, TLAPS

\* The offset at which batch k (from 0) of taskBatches(n, m) starts.
BatchStart(n, m, k) == k * (n \div m) + (IF k < n % m THEN k ELSE n % m)

Start(k) == BatchStart(total, Workers, k)

Started(w) == tpc[w] # "idle"

\* How far along the input the results pushed by w reach.
Seen(w) == IF tpc[w] = "count" THEN it[w] + 1 ELSE it[w]

\* The mode main has chosen is the one its position says.
ModeInv ==
  /\ pc \in {"sequential", "task"} => Sequentially /\ Workers = 1
  /\ pc \in {"reserve", "spawn", "join", "merge"} => ~Sequentially /\ Workers > 1
  /\ pc \in {"execute", "sequential", "reserve"} => i = 0 /\ end = 0
  /\ pc \in {"spawn", "join", "merge"} => i <= Workers
  /\ pc = "spawn" => end = Start(i)
  /\ pc = "done" => Workers = 0 \/ \A w \in 1..Workers : tpc[w] = "exit"
  /\ pc = "join" => \A w \in 1..i : tpc[w] = "exit"
  /\ pc = "merge" => \A w \in 1..Workers : tpc[w] = "exit"

\* Which task threads exist, and what they were given.
ThreadInv ==
  /\ pc \in {"execute", "sequential", "reserve"} => \A w \in 1..T : ~Started(w)
  /\ pc = "spawn" => \A w \in 1..T : Started(w) <=> w <= i
  /\ pc \in {"task", "join", "merge"} => \A w \in 1..T : Started(w) <=> w <= Workers
  /\ \A w \in 1..T : Started(w) => /\ w <= Workers
                                   /\ begin[w] = Start(w - 1)
                                   /\ last[w] = Start(w)

\* Where each thread is in its batch, and what it has counted.
IterInv ==
  \A w \in 1..T :
    IF Started(w)
    THEN /\ begin[w] <= it[w] /\ it[w] <= last[w]
         /\ counters[w] = it[w] - begin[w]
         /\ tpc[w] = "count" => it[w] < last[w]
         /\ tpc[w] = "exit" => it[w] = last[w]
    ELSE counters[w] = 0

\* What has been pushed where.
ResultInv ==
  /\ pc \in {"execute", "sequential", "reserve", "spawn", "join"} => out = << >>
  /\ pc = "task" => out = Sequential[Seen(1)]
  /\ pc = "merge" => out = Sequential[Start(i)]
  /\ pc = "done" => out = Sequential[IF tasks = 0 THEN 0 ELSE total]
  /\ ~Sequentially =>
       \A w \in 1..T :
         IF Started(w)
         THEN Sequential[begin[w]] \o storages[w] = Sequential[Seen(w)]
         ELSE storages[w] = << >>

\* What the reporter knows while it adds up the counters.
ReporterInv ==
  /\ pc \in {"execute", "sequential", "reserve", "spawn"} => rpc = "idle"
  /\ rpc = "idle" => ridx = 0 /\ current = 0
  /\ rpc # "idle" => /\ Workers > 0
                     /\ \A w \in 1..Workers : Started(w)
                     /\ ridx <= Workers
                     /\ current <= Start(ridx)
                     /\ current = Start(ridx) =>
                          \A w \in 1..ridx : counters[w] = last[w] - begin[w]
  /\ rpc = "exit" => \A w \in 1..Workers : counters[w] = last[w] - begin[w]
  /\ previous <= total

\* No reallocation while references are out.
RefInv ==
  /\ pc = "spawn" => cap = Workers
  /\ \A w \in 1..T : Active(w) => ref[w] = block

Inv == /\ TypeOK /\ ModeInv /\ ThreadInv /\ IterInv /\ ResultInv
       /\ ReporterInv /\ RefInv

-------------------------------------------------------------------------------
(* taskBatches *)

\* Quotient and remainder are unique.
LEMMA DivModUnique ==
  ASSUME NEW m \in Nat \ {0}, NEW q \in Int, NEW r \in 0..(m - 1)
  PROVE  (q * m + r) \div m = q /\ (q * m + r) % m = r
  OBVIOUS

\* Division with remainder.
LEMMA DivMod ==
  ASSUME NEW n \in Nat, NEW m \in Nat \ {0}
  PROVE  /\ n \div m \in Nat
         /\ n % m \in 0..(m - 1)
         /\ n = (n \div m) * m + (n % m)
<1>1. n \div m \in Int /\ n % m \in 0..(m - 1)
  OBVIOUS
<1>2. n = (n \div m) * m + (n % m)
  OBVIOUS
<1>3. n \div m >= 0
  OBVIOUS
<1> QED BY <1>1, <1>2, <1>3

\* What taskBatches pushes for k is the quotient, plus one for the first
\* itemsCount % tasks batches.
LEMMA TaskBatchValue ==
  ASSUME NEW n \in Nat, NEW m \in Nat \ {0}, m <= n, NEW k \in 0..(m - 1)
  PROVE  TaskBatch(n, m, k) = n \div m + (IF k < n % m THEN 1 ELSE 0)
<1> DEFINE q == n \div m
           r == n % m
<1>1. q \in Nat /\ r \in 0..(m - 1) /\ n = q * m + r
  BY DivMod
<1> HIDE DEF q, r
<1>2. CASE k < r
  <2>1. r - k \in 0..(m - 1) /\ r - k # 0 /\ n - k = q * m + (r - k)
    BY <1>1, <1>2
  <2>2. (n - k) \div m = q /\ (n - k) % m = r - k
    BY <2>1, <1>1, DivModUnique
  <2> QED BY <2>1, <2>2, <1>2 DEF TaskBatch, q, r
<1>3. CASE k = r
  <2>1. 0 \in 0..(m - 1) /\ n - k = q * m + 0
    BY <1>1, <1>3
  <2>2. (n - k) \div m = q /\ (n - k) % m = 0
    BY <2>1, <1>1, DivModUnique
  <2> QED BY <2>2, <1>1, <1>3 DEF TaskBatch, q, r
<1>4. CASE k > r
  <2> DEFINE s == m - (k - r)
  <2>1. s \in 0..(m - 1) /\ s # 0
    BY <1>1, <1>4
  <2>2. q * m = (q - 1) * m + m
    BY <1>1
  <2>3. (q - 1) * m \in Int /\ q * m \in Int
    BY <1>1
  <2>4. n - k = (q - 1) * m + s
    BY <2>2, <2>3, <1>1
  <2>5. (n - k) \div m = q - 1 /\ (n - k) % m = s
    BY <2>1, <2>4, <1>1, DivModUnique
  <2> QED BY <2>1, <2>5, <1>1, <1>4 DEF TaskBatch, q, r
<1> QED BY <1>1, <1>2, <1>3, <1>4

\* The batches follow one another, cover the input exactly (the assertion at
\* the end of taskBatches) and are never empty.
THEOREM BatchesPartition ==
  ASSUME NEW n \in Nat, NEW m \in Nat \ {0}, m <= n
  PROVE  /\ BatchStart(n, m, 0) = 0
         /\ BatchStart(n, m, m) = n
         /\ \A k \in 0..(m - 1) :
              /\ BatchStart(n, m, k + 1) = BatchStart(n, m, k) + TaskBatch(n, m, k)
              /\ TaskBatch(n, m, k) \in 1..n
         /\ \A k \in 0..m : BatchStart(n, m, k) \in 0..n
         /\ \A j \in 0..m, k \in 0..m :
              j <= k => BatchStart(n, m, j) <= BatchStart(n, m, k)
<1> DEFINE q == n \div m
           r == n % m
           B(k) == k * q + (IF k < r THEN k ELSE r)
<1>1. q \in Nat /\ r \in 0..(m - 1) /\ n = q * m + r
  BY DivMod
<1>2. \A k : BatchStart(n, m, k) = B(k)
  BY DEF BatchStart
<1>3. \A k \in 0..(m - 1) : TaskBatch(n, m, k) = q + (IF k < r THEN 1 ELSE 0)
  BY TaskBatchValue
<1> HIDE DEF q, r
<1>4. q >= 1
  <2>1. q # 0
    BY <1>1
  <2> QED BY <2>1, <1>1
<1>5. B(0) = 0
  BY <1>1
<1>6. B(m) = n
  BY <1>1
<1>7. ASSUME NEW k \in 0..(m - 1)
      PROVE  B(k + 1) = B(k) + (q + (IF k < r THEN 1 ELSE 0))
  <2>1. (k + 1) * q = k * q + q
    BY <1>1
  <2>2. k * q \in Int /\ (k + 1) * q \in Int
    BY <1>1
  <2> QED BY <2>1, <2>2, <1>1
<1>8. ASSUME NEW j \in 0..m, NEW k \in 0..m, j <= k
      PROVE  B(j) <= B(k)
  <2>1. j * q <= k * q /\ j * q \in Int /\ k * q \in Int
    BY <1>1, <1>8
  <2> QED BY <2>1, <1>1, <1>8
<1>9. ASSUME NEW k \in 0..m
      PROVE  B(k) \in 0..n
  <2>1. B(0) <= B(k) /\ B(k) <= B(m)
    BY <1>8
  <2>2. k * q \in Int
    BY <1>1
  <2>3. B(k) \in Int
    BY <1>1, <2>2
  <2> QED BY <2>1, <2>3, <1>5, <1>6
<1>10. ASSUME NEW k \in 0..(m - 1)
       PROVE  q + (IF k < r THEN 1 ELSE 0) \in 1..n
  <2>1. B(k) \in 0..n /\ B(k + 1) \in 0..n
    BY <1>9
  <2>2. B(k + 1) = B(k) + (q + (IF k < r THEN 1 ELSE 0))
    BY <1>7
  <2> HIDE DEF B
  <2> QED BY <2>1, <2>2, <1>4, <1>1
<1> HIDE DEF B
<1> QED BY <1>2, <1>3, <1>5, <1>6, <1>7, <1>8, <1>9, <1>10

-------------------------------------------------------------------------------
(* The inductive invariant *)

\* The batches of the present call.
LEMMA StartFacts ==
  ASSUME TypeOK, Workers > 0
  PROVE  /\ Workers \in 1..T /\ Workers <= total /\ Workers <= tasks
         /\ Start(0) = 0
         /\ Start(Workers) = total
         /\ \A k \in 0..(Workers - 1) :
              /\ Start(k + 1) = Start(k) + TaskBatch(total, Workers, k)
              /\ TaskBatch(total, Workers, k) \in 1..total
         /\ \A k \in 0..Workers : Start(k) \in 0..total
         /\ \A j \in 0..Workers, k \in 0..Workers : j <= k => Start(j) <= Start(k)
<1>1. /\ total \in Nat /\ Workers \in Nat \ {0} /\ Workers <= total
      /\ Workers \in 1..T /\ Workers <= tasks
  BY BoundsAssumption DEF TypeOK, Workers
<1> HIDE DEF Workers
<1> QED BY <1>1, BatchesPartition DEF Start

\* The number of task threads is bounded by the items and by the tasks.
LEMMA WorkersType ==
  ASSUME TypeOK
  PROVE  Workers \in 0..T
  BY BoundsAssumption DEF TypeOK, Workers

\* The input and the tasks do not change during a call.
LEMMA CallFixed ==
  ASSUME UNCHANGED <<total, tasks>>
  PROVE  Workers' = Workers /\ Sequentially' = Sequentially
  BY DEF Workers, Sequentially

\* The invariant holds before execute() starts.
LEMMA InvInit == Init => Inv
  BY BoundsAssumption, SequentialAssumption
  DEF Init, Inv, TypeOK, ModeInv, ThreadInv, IterInv, ResultInv, ReporterInv,
      RefInv, Started, Active

\* The early returns and the choice of the branch keep the invariant.
LEMMA ExecuteInv ==
  ASSUME Inv, Execute
  PROVE  Inv'
<1>1. /\ TypeOK /\ ModeInv /\ ThreadInv /\ IterInv /\ ResultInv /\ ReporterInv
      /\ RefInv
  BY DEF Inv
<1>2. /\ Workers \in 0..T /\ Workers \in Nat
      /\ Workers' = Workers /\ Sequentially' = Sequentially
      /\ total' = total /\ tasks' = tasks
  BY <1>1, CallFixed, WorkersType, BoundsAssumption DEF Execute
<1>3. pc' \in {"done", "sequential", "reserve"}
  BY DEF Execute
<1>4. /\ pc' = "done" => Workers = 0
      /\ pc' = "sequential" => Sequentially /\ Workers = 1
      /\ pc' = "reserve" => ~Sequentially /\ Workers > 1
  BY <1>1, BoundsAssumption DEF Execute, TypeOK, Workers, Sequentially
<1>5. Sequential[IF tasks = 0 THEN 0 ELSE total] = << >> \/ pc' # "done"
  BY <1>1, BoundsAssumption, SequentialAssumption DEF Execute, TypeOK
<1>6. TypeOK'
  BY <1>1, <1>2, BoundsAssumption
  DEF Execute, threadArgs, reporter, TypeOK
<1>7. ModeInv'
  BY <1>1, <1>2, BoundsAssumption, <1>3, <1>4
  DEF Execute, threadArgs, reporter, TypeOK, ModeInv, Start
<1>8. ThreadInv'
  BY <1>1, <1>2, BoundsAssumption
  DEF Execute, threadArgs, reporter, TypeOK, ThreadInv, Start, Started
<1>9. IterInv'
  BY <1>1, <1>2, BoundsAssumption
  DEF Execute, threadArgs, reporter, TypeOK, IterInv, Started
<1>10. ResultInv'
  BY <1>1, <1>2, BoundsAssumption, <1>3, <1>5
  DEF Execute, threadArgs, reporter, TypeOK, ResultInv, Start, Started, Seen
<1>11. ReporterInv'
  BY <1>1, <1>2, BoundsAssumption
  DEF Execute, threadArgs, reporter, TypeOK, ReporterInv, Start, Started
<1>12. RefInv'
  BY <1>1, <1>2, BoundsAssumption
  DEF Execute, threadArgs, reporter, TypeOK, RefInv, Active
<1> QED BY <1>6, <1>7, <1>8, <1>9, <1>10, <1>11, <1>12 DEF Inv

\* Handing the whole input to main and spawning the reporter keeps it: the
\* one batch ends at the end of the input.
LEMMA ExecuteSequentiallyInv ==
  ASSUME Inv, ExecuteSequentially
  PROVE  Inv'
<1>1. /\ TypeOK /\ ModeInv /\ ThreadInv /\ IterInv /\ ResultInv /\ ReporterInv
      /\ RefInv
  BY DEF Inv
<1>2. /\ Workers \in 0..T /\ Workers \in Nat
      /\ Workers' = Workers /\ Sequentially' = Sequentially
      /\ total' = total /\ tasks' = tasks
  BY <1>1, CallFixed, WorkersType, BoundsAssumption DEF ExecuteSequentially
<1>3. Workers = 1 /\ T >= 1 /\ Start(0) = 0 /\ Start(1) = total /\ 1 \in 1..T
  BY <1>1, <1>2, BoundsAssumption, StartFacts DEF ExecuteSequentially, ModeInv
<1>4. cap' \in Nat /\ block' \in Nat /\ 0 \in 0..N /\ total \in 0..N
  BY <1>1, BoundsAssumption DEF ExecuteSequentially, PushBack, TypeOK
<1>5. /\ begin' \in [1..T -> 0..N] /\ last' \in [1..T -> 0..N]
      /\ it' \in [1..T -> 0..N] /\ ref' \in [1..T -> Nat]
      /\ tpc' \in [1..T -> {"idle", "item", "count", "exit"}]
  BY <1>1, <1>3, <1>4, BoundsAssumption
  DEF ExecuteSequentially, StartTask, TypeOK
<1>6. /\ tpc'[1] = "item" /\ begin'[1] = 0 /\ last'[1] = total /\ it'[1] = 0
      /\ ref'[1] = block' /\ counters'[1] = 0 /\ pc' = "task"
      /\ \A v \in 1..T : ~Started(v) /\ (v # 1 => tpc'[v] = "idle")
  BY <1>1, <1>3
  DEF ExecuteSequentially, StartTask, TypeOK, ThreadInv, IterInv, Started
<1>7. TypeOK'
  BY <1>1, <1>2, BoundsAssumption, <1>4, <1>5
  DEF ExecuteSequentially, PushBack, StartTask, TypeOK
<1>8. ModeInv'
  BY <1>1, <1>2, BoundsAssumption, <1>3
  DEF ExecuteSequentially, PushBack, StartTask, TypeOK, ModeInv, Start
<1>9. ThreadInv'
  BY <1>2, <1>3, <1>6, BoundsAssumption DEF ThreadInv, Started, Start
<1>10. IterInv'
  BY <1>1, <1>2, BoundsAssumption, <1>3, <1>6
  DEF ExecuteSequentially, PushBack, StartTask, TypeOK, IterInv, Started
<1>11. ResultInv'
  BY <1>1, <1>2, BoundsAssumption, <1>3, <1>6, SequentialAssumption
  DEF ExecuteSequentially, PushBack, StartTask, TypeOK, ResultInv, Start,
     Started, Seen, ModeInv
<1>12. ReporterInv'
  BY <1>1, <1>2, BoundsAssumption, <1>3, <1>6
  DEF ExecuteSequentially, PushBack, StartTask, TypeOK, ReporterInv, Start,
     Started
<1>13. RefInv'
  BY <1>1, <1>2, BoundsAssumption, <1>3, <1>6
  DEF ExecuteSequentially, PushBack, StartTask, TypeOK, RefInv, Active
<1> QED BY <1>7, <1>8, <1>9, <1>10, <1>11, <1>12, <1>13 DEF Inv

\* Joining the reporter of the sequential branch keeps it: the task is over, so
\* `out` holds the results of the whole input.
LEMMA JoinReporterInv ==
  ASSUME Inv, JoinReporter
  PROVE  Inv'
<1>1. /\ TypeOK /\ ModeInv /\ ThreadInv /\ IterInv /\ ResultInv /\ ReporterInv
      /\ RefInv
  BY DEF Inv
<1>2. /\ Workers \in 0..T /\ Workers \in Nat
      /\ Workers' = Workers /\ Sequentially' = Sequentially
      /\ total' = total /\ tasks' = tasks
  BY <1>1, CallFixed, WorkersType, BoundsAssumption DEF JoinReporter
<1>3. Workers = 1 /\ tasks # 0 /\ Start(1) = total /\ 1 \in 1..T
  <2>1. Workers = 1
    BY <1>1 DEF JoinReporter, ModeInv
  <2>2. tasks # 0 /\ 1 \in 1..T
    BY <2>1, <1>1, <1>2, BoundsAssumption DEF TypeOK, Workers
  <2> QED BY <2>1, <2>2, <1>1, StartFacts
<1>4. out = Sequential[total]
  <2>1. Started(1) /\ last[1] = Start(1)
    BY <1>1, <1>3 DEF JoinReporter, ThreadInv, Started
  <2>2. it[1] = last[1]
    BY <1>1, <1>3, <2>1 DEF JoinReporter, IterInv
  <2> QED BY <1>1, <1>3, <2>1, <2>2 DEF JoinReporter, ResultInv, Seen
<1>5. TypeOK'
  BY <1>1, <1>2, BoundsAssumption
  DEF JoinReporter, threadArgs, reporter, TypeOK
<1>6. ModeInv'
  BY <1>1, <1>2, BoundsAssumption, <1>3
  DEF JoinReporter, threadArgs, reporter, TypeOK, ModeInv, Start
<1>7. ThreadInv'
  BY <1>1, <1>2, BoundsAssumption
  DEF JoinReporter, threadArgs, reporter, TypeOK, ThreadInv, Start, Started
<1>8. IterInv'
  BY <1>1, <1>2, BoundsAssumption
  DEF JoinReporter, threadArgs, reporter, TypeOK, IterInv, Started
<1>9. ResultInv'
  BY <1>1, <1>2, BoundsAssumption, <1>3, <1>4
  DEF JoinReporter, threadArgs, reporter, TypeOK, ResultInv, Start, Started,
     Seen, ModeInv
<1>10. ReporterInv'
  BY <1>1, <1>2, BoundsAssumption
  DEF JoinReporter, threadArgs, reporter, TypeOK, ReporterInv, Start, Started
<1>11. RefInv'
  BY <1>1, <1>2, BoundsAssumption
  DEF JoinReporter, threadArgs, reporter, TypeOK, RefInv, Active
<1> QED BY <1>5, <1>6, <1>7, <1>8, <1>9, <1>10, <1>11 DEF Inv

\* Reserving the capacity of both vectors keeps it.
LEMMA ReserveInv ==
  ASSUME Inv, Reserve
  PROVE  Inv'
<1>1. /\ TypeOK /\ ModeInv /\ ThreadInv /\ IterInv /\ ResultInv /\ ReporterInv
      /\ RefInv
  BY DEF Inv
<1>2. /\ Workers \in 0..T /\ Workers \in Nat
      /\ Workers' = Workers /\ Sequentially' = Sequentially
      /\ total' = total /\ tasks' = tasks
  BY <1>1, CallFixed, WorkersType, BoundsAssumption DEF Reserve
<1>3. Workers > 1 /\ Start(0) = 0
  BY <1>1, <1>2, StartFacts DEF Reserve, ModeInv
<1>4. cap' \in Nat /\ pc' = "spawn"
  BY <1>2, BoundsAssumption DEF Reserve
<1>5. TypeOK'
  BY <1>1, <1>2, BoundsAssumption, <1>4
  DEF Reserve, threadArgs, reporter, TypeOK
<1>6. ModeInv'
  BY <1>1, <1>2, BoundsAssumption, <1>3
  DEF Reserve, threadArgs, reporter, TypeOK, ModeInv, Start
<1>7. ThreadInv'
  BY <1>1, <1>2, BoundsAssumption, <1>3
  DEF Reserve, threadArgs, reporter, TypeOK, ThreadInv, Start, Started, ModeInv
<1>8. IterInv'
  BY <1>1, <1>2, BoundsAssumption
  DEF Reserve, threadArgs, reporter, TypeOK, IterInv, Started
<1>9. ResultInv'
  BY <1>1, <1>2, BoundsAssumption
  DEF Reserve, threadArgs, reporter, TypeOK, ResultInv, Start, Started, Seen
<1>10. ReporterInv'
  BY <1>1, <1>2, BoundsAssumption
  DEF Reserve, threadArgs, reporter, TypeOK, ReporterInv, Start, Started
<1>11. RefInv'
  BY <1>1, <1>2, BoundsAssumption
  DEF Reserve, threadArgs, reporter, TypeOK, RefInv, Active
<1> QED BY <1>5, <1>6, <1>7, <1>8, <1>9, <1>10, <1>11 DEF Inv

\* A round of the spawn loop keeps it: the new batch starts where the last one
\* ended and the push_backs do not reallocate.
LEMMA SpawnTaskInv ==
  ASSUME Inv, SpawnTask
  PROVE  Inv'
<1>1. /\ TypeOK /\ ModeInv /\ ThreadInv /\ IterInv /\ ResultInv /\ ReporterInv
      /\ RefInv
  BY DEF Inv
<1>2. /\ Workers \in 0..T /\ Workers \in Nat
      /\ Workers' = Workers /\ Sequentially' = Sequentially
      /\ total' = total /\ tasks' = tasks
  BY <1>1, CallFixed, WorkersType, BoundsAssumption DEF SpawnTask
<1>3. /\ Workers > 1 /\ i + 1 \in 1..Workers /\ i + 1 \in 1..T /\ i \in 0..Workers
      /\ end = Start(i) /\ end' = Start(i + 1) /\ i' = i + 1 /\ pc' = "spawn"
      /\ 0 <= end /\ end <= end' /\ end \in 0..N /\ end' \in 0..N
  <2>1. Workers > 1 /\ i \in 0..(Workers - 1) /\ end = Start(i) /\ total \in 0..N
    BY <1>1, <1>2, BoundsAssumption DEF SpawnTask, TypeOK, ModeInv
  <2>2. /\ Start(i + 1) = Start(i) + TaskBatch(total, Workers, i)
        /\ TaskBatch(total, Workers, i) \in 1..total
        /\ Start(i) \in 0..total /\ Start(i + 1) \in 0..total
    BY <1>1, <2>1, <1>2, StartFacts
  <2>3. end' = Start(i + 1) /\ i' = i + 1 /\ pc' = "spawn"
    BY <2>1, <2>2 DEF SpawnTask
  <2> QED BY <2>1, <2>2, <2>3, <1>2, BoundsAssumption
<1>4. cap' = cap /\ block' = block
  BY <1>1, <1>2, BoundsAssumption DEF SpawnTask, PushBack, TypeOK, RefInv
<1>5. /\ begin' \in [1..T -> 0..N] /\ last' \in [1..T -> 0..N]
      /\ it' \in [1..T -> 0..N] /\ ref' \in [1..T -> Nat]
      /\ tpc' \in [1..T -> {"idle", "item", "count", "exit"}]
  BY <1>1, <1>3, <1>4 DEF SpawnTask, StartTask, TypeOK
<1>6. /\ tpc'[i + 1] = "item" /\ it'[i + 1] = end
      /\ begin'[i + 1] = end /\ last'[i + 1] = end' /\ ref'[i + 1] = block
      /\ ~Started(i + 1) /\ counters[i + 1] = 0
      /\ \A v \in 1..T : v # i + 1 => /\ tpc'[v] = tpc[v] /\ it'[v] = it[v]
                                      /\ begin'[v] = begin[v]
                                      /\ last'[v] = last[v] /\ ref'[v] = ref[v]
  BY <1>1, <1>3, <1>4
  DEF SpawnTask, StartTask, TypeOK, ThreadInv, IterInv, Started
<1>7. counters' = counters /\ storages' = storages /\ out' = out
  BY DEF SpawnTask
<1>8. TypeOK'
  <2>1. i' \in 0..T
    BY <1>3, BoundsAssumption
  <2> QED BY <2>1, <1>1, <1>2, <1>3, <1>4, <1>5 DEF SpawnTask, reporter, TypeOK
<1>9. ModeInv'
  BY <1>1, <1>2, <1>3, BoundsAssumption DEF SpawnTask, ModeInv, Start
<1>10. ThreadInv'
  <2>1. \A v \in 1..T : Started(v) <=> v <= i
    BY <1>1 DEF SpawnTask, ThreadInv
  <2>2. \A v \in 1..T : tpc'[v] # "idle" <=> v <= i'
    BY <2>1, <1>1, <1>3, <1>6 DEF Started, TypeOK
  <2>3. (i + 1) - 1 = i /\ i + 1 <= Workers
    BY <1>3
  <2>4. \A v \in 1..T : tpc'[v] # "idle" => /\ v <= Workers
                                           /\ begin'[v] = Start(v - 1)
                                           /\ last'[v] = Start(v)
    BY <2>3, <1>1, <1>3, <1>6 DEF Started, ThreadInv
  <2> QED BY <2>2, <2>4, <1>2, <1>3 DEF ThreadInv, Started, Start
<1>11. IterInv'
  BY <1>1, <1>3, <1>6, <1>7 DEF IterInv, Started
<1>12. ResultInv'
  <2>1. storages[i + 1] = << >> /\ out = << >> /\ ~Sequentially
    BY <1>1, <1>3, <1>6 DEF SpawnTask, ModeInv, ResultInv
  <2>2. Sequential[end] \o << >> = Sequential[end]
    BY <1>3, SequentialAssumption
  <2>3. ASSUME NEW v \in 1..T
        PROVE  (IF Started(v)
                THEN Sequential[begin[v]] \o storages[v] = Sequential[Seen(v)]
                ELSE storages[v] = << >>)'
    BY <1>1, <2>1, <2>2, <1>3, <1>6, <1>7 DEF ResultInv, Started, Seen
  <2> QED BY <2>1, <2>3, <1>2, <1>3, <1>7 DEF ResultInv
<1>13. ReporterInv'
  BY <1>1, <1>2 DEF SpawnTask, reporter, ReporterInv
<1>14. RefInv'
  BY <1>1, <1>2, <1>3, <1>4, <1>6 DEF SpawnTask, RefInv, Active
<1> QED BY <1>8, <1>9, <1>10, <1>11, <1>12, <1>13, <1>14 DEF Inv

\* Spawning the reporter keeps it: the batches spawned cover the input.
LEMMA SpawnReporterInv ==
  ASSUME Inv, SpawnReporter
  PROVE  Inv'
<1>1. /\ TypeOK /\ ModeInv /\ ThreadInv /\ IterInv /\ ResultInv /\ ReporterInv
      /\ RefInv
  BY DEF Inv
<1>2. /\ Workers \in 0..T /\ Workers \in Nat
      /\ Workers' = Workers /\ Sequentially' = Sequentially
      /\ total' = total /\ tasks' = tasks
  BY <1>1, CallFixed, WorkersType, BoundsAssumption DEF SpawnReporter
<1>3. Workers > 1 /\ Start(0) = 0 /\ i = Workers /\ i' = 0 /\ 0 \in 0..T
  BY <1>1, <1>2, StartFacts, BoundsAssumption DEF SpawnReporter, ModeInv
<1>4. TypeOK'
  BY <1>1, <1>2, BoundsAssumption, <1>3
  DEF SpawnReporter, threadArgs, TypeOK
<1>5. ModeInv'
  BY <1>1, <1>2, BoundsAssumption, <1>3
  DEF SpawnReporter, threadArgs, TypeOK, ModeInv, Start
<1>6. ThreadInv'
  BY <1>1, <1>2, BoundsAssumption, <1>3
  DEF SpawnReporter, threadArgs, TypeOK, ThreadInv, Start, Started
<1>7. IterInv'
  BY <1>1, <1>2, BoundsAssumption
  DEF SpawnReporter, threadArgs, TypeOK, IterInv, Started
<1>8. ResultInv'
  BY <1>1, <1>2, BoundsAssumption
  DEF SpawnReporter, threadArgs, TypeOK, ResultInv, Start, Started, Seen
<1>9. ReporterInv'
  <2>1. \A v \in 1..Workers : Started(v)
    BY <1>1, <1>2, <1>3, BoundsAssumption DEF SpawnReporter, ThreadInv
  <2>2. current = 0 /\ ridx = 0 /\ rpc' = "read" /\ pc' = "join" /\ previous <= total
    BY <1>1 DEF SpawnReporter, ReporterInv
  <2>3. UNCHANGED <<tpc, current, ridx, previous>>
    BY DEF SpawnReporter
  <2> QED BY <2>1, <2>2, <2>3, <1>2, <1>3 DEF ReporterInv, Started, Start
<1>10. RefInv'
  BY <1>1, <1>2, BoundsAssumption
  DEF SpawnReporter, threadArgs, TypeOK, RefInv, Active
<1> QED BY <1>4, <1>5, <1>6, <1>7, <1>8, <1>9, <1>10 DEF Inv

\* Joining a thread keeps it.
LEMMA JoinInv ==
  ASSUME Inv, Join
  PROVE  Inv'
<1>1. /\ TypeOK /\ ModeInv /\ ThreadInv /\ IterInv /\ ResultInv /\ ReporterInv
      /\ RefInv
  BY DEF Inv
<1>2. /\ Workers \in 0..T /\ Workers \in Nat
      /\ Workers' = Workers /\ Sequentially' = Sequentially
      /\ total' = total /\ tasks' = tasks
  BY <1>1, CallFixed, WorkersType, BoundsAssumption DEF Join
<1>3. Workers > 1 /\ Start(0) = 0 /\ i \in 0..Workers
  <2>1. Workers > 1 /\ i \in 0..Workers
    BY <1>1, <1>2, BoundsAssumption DEF Join, ModeInv, TypeOK
  <2>2. Start(0) = 0
    BY <2>1, <1>1, <1>2, StartFacts
  <2> QED BY <2>1, <2>2
<1>4. /\ i' \in 0..Workers /\ i' \in 0..T
      /\ \/ pc' = "join" /\ i' = i + 1 /\ tpc[i + 1] = "exit"
         \/ pc' = "merge" /\ i' = 0 /\ i = Workers
  BY <1>2, <1>3, BoundsAssumption DEF Join
<1>5. TypeOK'
  BY <1>1, <1>2, BoundsAssumption, <1>4
  DEF Join, threadArgs, reporter, TypeOK
<1>6. ModeInv'
  <2>1. tpc' = tpc
    BY DEF Join, threadArgs
  <2>2. \A v \in 1..i : tpc[v] = "exit"
    BY <1>1 DEF Join, ModeInv
  <2>3. CASE pc' = "join" /\ i' = i + 1 /\ tpc[i + 1] = "exit"
    BY <2>1, <2>2, <2>3, <1>1, <1>2, <1>3, <1>4 DEF Join, ModeInv
  <2>4. CASE pc' = "merge" /\ i' = 0 /\ i = Workers
    BY <2>1, <2>2, <2>4, <1>1, <1>2, <1>3, <1>4 DEF Join, ModeInv
  <2> QED BY <1>4, <2>3, <2>4
<1>7. ThreadInv'
  BY <1>1, <1>2, BoundsAssumption, <1>4
  DEF Join, threadArgs, reporter, TypeOK, ThreadInv, Start, Started
<1>8. IterInv'
  BY <1>1, <1>2, BoundsAssumption
  DEF Join, threadArgs, reporter, TypeOK, IterInv, Started
<1>9. ResultInv'
  BY <1>1, <1>2, BoundsAssumption, <1>3, <1>4, SequentialAssumption
  DEF Join, threadArgs, reporter, TypeOK, ResultInv, Start, Started, Seen,
     ModeInv
<1>10. ReporterInv'
  BY <1>1, <1>2, BoundsAssumption, <1>4
  DEF Join, threadArgs, reporter, TypeOK, ReporterInv, Start, Started
<1>11. RefInv'
  BY <1>1, <1>2, BoundsAssumption
  DEF Join, threadArgs, reporter, TypeOK, RefInv, Active
<1> QED BY <1>5, <1>6, <1>7, <1>8, <1>9, <1>10, <1>11 DEF Inv

\* Merging one storage keeps it: `out` grows by the results of one batch.
LEMMA MergeInv ==
  ASSUME Inv, Merge
  PROVE  Inv'
<1>1. /\ TypeOK /\ ModeInv /\ ThreadInv /\ IterInv /\ ResultInv /\ ReporterInv
      /\ RefInv
  BY DEF Inv
<1>2. /\ Workers \in 0..T /\ Workers \in Nat
      /\ Workers' = Workers /\ Sequentially' = Sequentially
      /\ total' = total /\ tasks' = tasks
  BY <1>1, CallFixed, WorkersType, BoundsAssumption DEF Merge
<1>3. /\ Workers > 1 /\ Start(0) = 0 /\ Start(Workers) = total /\ tasks # 0
      /\ i \in 0..Workers /\ out = Sequential[Start(i)] /\ ~Sequentially
  <2>1. Workers > 1 /\ i \in 0..Workers /\ out = Sequential[Start(i)] /\ ~Sequentially
    BY <1>1, <1>2, BoundsAssumption DEF Merge, ModeInv, ResultInv, TypeOK
  <2>2. tasks # 0
    BY <2>1, <1>1 DEF TypeOK, Workers
  <2> QED BY <2>1, <2>2, <1>1, <1>2, StartFacts
<1>4. \/ /\ i \in 0..(Workers - 1) /\ i + 1 \in 1..T /\ i' = i + 1 /\ pc' = "merge"
         /\ out' = out \o storages[i + 1] /\ i' \in 0..Workers
      \/ i = Workers /\ pc' = "done" /\ i' = i /\ out' = out
  <2>1. CASE i < Workers
    <3>1. i \in 0..(Workers - 1) /\ i + 1 \in 1..T /\ i + 1 \in 0..Workers
      BY <2>1, <1>2, <1>3, BoundsAssumption
    <3> QED BY <2>1, <3>1, <1>2, <1>3 DEF Merge
  <2>2. CASE i = Workers
    BY <2>2, <1>2 DEF Merge
  <2>3. i < Workers \/ i = Workers
    BY <1>2, <1>3
  <2> QED BY <2>1, <2>2, <2>3
<1>5. i' \in 0..T /\ i' \in 0..Workers /\ storages' = storages /\ tpc' = tpc
      /\ it' = it /\ begin' = begin
  <2>1. i' \in 0..Workers
    BY <1>3, <1>4
  <2>2. 0..Workers \subseteq 0..T
    BY <1>2, BoundsAssumption
  <2> QED BY <2>1, <2>2 DEF Merge, threadArgs
<1>6. out' = Sequential[Start(i')]
  <2>1. CASE pc' = "merge"
    <3>1. /\ tpc[i + 1] = "exit" /\ Started(i + 1)
          /\ begin[i + 1] = Start(i) /\ it[i + 1] = Start(i + 1)
      <4>1. tpc[i + 1] = "exit"
        BY <1>1, <1>2, <1>4, <2>1, BoundsAssumption DEF Merge, ModeInv
      <4>2. Started(i + 1)
        BY <4>1 DEF Started
      <4>3. begin[i + 1] = Start((i + 1) - 1) /\ last[i + 1] = Start(i + 1)
        BY <1>1, <1>4, <2>1, <4>2 DEF ThreadInv
      <4>4. it[i + 1] = last[i + 1] /\ (i + 1) - 1 = i
        BY <1>1, <1>3, <1>4, <2>1, <4>1, <4>2 DEF IterInv
      <4> QED BY <4>1, <4>2, <4>3, <4>4
    <3>2. Sequential[begin[i + 1]] \o storages[i + 1] = Sequential[Seen(i + 1)]
      BY <1>1, <1>3, <1>4, <2>1, <3>1 DEF ResultInv
    <3>3. Seen(i + 1) = it[i + 1]
      BY <3>1 DEF Seen
    <3> QED BY <1>3, <1>4, <2>1, <3>1, <3>2, <3>3
  <2> QED BY <2>1, <1>3, <1>4
<1>7. out' \in Seq(Value)
  <2>1. CASE pc' = "merge"
    <3>1. out \in Seq(Value) /\ storages[i + 1] \in Seq(Value)
      BY <1>1, <1>4, <2>1 DEF TypeOK
    <3>2. out' = out \o storages[i + 1]
      BY <1>4, <2>1
    <3> QED BY <3>1, <3>2
  <2> QED BY <2>1, <1>1, <1>4 DEF TypeOK
<1>8. TypeOK'
  BY <1>1, <1>2, BoundsAssumption, <1>4, <1>5, <1>7
  DEF Merge, threadArgs, reporter, TypeOK
<1>9. ModeInv'
  <2>1. \A v \in 1..Workers : tpc[v] = "exit"
    BY <1>1 DEF Merge, ModeInv
  <2>2. pc' \in {"merge", "done"}
    BY <1>4
  <2> QED BY <2>1, <2>2, <1>2, <1>3, <1>5 DEF ModeInv
<1>10. ThreadInv'
  BY <1>1, <1>2, BoundsAssumption, <1>4
  DEF Merge, threadArgs, reporter, TypeOK, ThreadInv, Start, Started
<1>11. IterInv'
  BY <1>1, <1>2, BoundsAssumption
  DEF Merge, threadArgs, reporter, TypeOK, IterInv, Started
<1>12. ResultInv'
  BY <1>1, <1>2, <1>3, <1>4, <1>5, <1>6 DEF Merge, ResultInv, Started, Seen, Start
<1>13. ReporterInv'
  BY <1>1, <1>2, BoundsAssumption, <1>4
  DEF Merge, threadArgs, reporter, TypeOK, ReporterInv, Start, Started
<1>14. RefInv'
  BY <1>1, <1>2, BoundsAssumption
  DEF Merge, threadArgs, reporter, TypeOK, RefInv, Active
<1> QED BY <1>8, <1>9, <1>10, <1>11, <1>12, <1>13, <1>14 DEF Inv

\* Reading one counter keeps it: what was read before is a lower bound now.
LEMMA ReadCounterInv ==
  ASSUME Inv, ReadCounter
  PROVE  Inv'
<1>1. /\ TypeOK /\ ModeInv /\ ThreadInv /\ IterInv /\ ResultInv /\ ReporterInv
      /\ RefInv
  BY DEF Inv
<1>2. /\ Workers \in 0..T /\ Workers \in Nat
      /\ Workers' = Workers /\ Sequentially' = Sequentially
      /\ total' = total /\ tasks' = tasks
  BY <1>1, CallFixed, WorkersType, BoundsAssumption DEF ReadCounter
<1>3. /\ Workers > 0 /\ ridx \in 0..(Workers - 1) /\ ridx + 1 \in 1..T
      /\ ridx' = ridx + 1 /\ rpc' = "read" /\ pc' = pc /\ previous' = previous
      /\ current' = current + counters[ridx + 1]
  BY <1>1, <1>2, BoundsAssumption DEF ReadCounter, mainVars, ReporterInv, TypeOK
<1>4. UNCHANGED <<pc, tpc, counters, begin, last>>
  BY DEF ReadCounter, mainVars, threadArgs
<1>5. /\ current \in 0..N /\ current <= Start(ridx)
      /\ current = Start(ridx) => \A v \in 1..ridx : counters[v] = last[v] - begin[v]
      /\ \A v \in 1..Workers : Started(v)
  BY <1>1 DEF ReadCounter, ReporterInv, TypeOK
<1>6. total \in 0..N /\ Start(ridx) \in 0..total /\ Start(ridx + 1) \in 0..total
  <2>1. total \in 0..N
    BY <1>1 DEF TypeOK
  <2> QED BY <2>1, <1>1, <1>2, <1>3, StartFacts
<1>7. /\ counters[ridx + 1] = it[ridx + 1] - Start(ridx)
      /\ it[ridx + 1] \in 0..Start(ridx + 1) /\ last[ridx + 1] = Start(ridx + 1)
      /\ begin[ridx + 1] = Start(ridx) /\ counters[ridx + 1] \in Nat
  <2>1. Started(ridx + 1) /\ (ridx + 1) - 1 = ridx
    BY <1>2, <1>3, <1>5
  <2>2. begin[ridx + 1] = Start(ridx) /\ last[ridx + 1] = Start(ridx + 1)
    BY <2>1, <1>1, <1>3 DEF ThreadInv
  <2>3. /\ counters[ridx + 1] = it[ridx + 1] - begin[ridx + 1]
        /\ it[ridx + 1] <= last[ridx + 1]
    BY <2>1, <1>1, <1>3 DEF IterInv
  <2>4. it[ridx + 1] \in Nat /\ counters[ridx + 1] \in Nat
    BY <1>1, <1>3, BoundsAssumption DEF TypeOK
  <2>5. Start(ridx + 1) \in Nat
    BY <1>6, BoundsAssumption
  <2> QED BY <2>2, <2>3, <2>4, <2>5
<1>8. /\ current' \in 0..N /\ current' <= Start(ridx + 1)
      /\ Start(ridx) \in Nat /\ Start(ridx + 1) \in Nat
  BY <1>2, <1>3, <1>5, <1>6, <1>7, BoundsAssumption
<1>9. current' = Start(ridx + 1) =>
        \A v \in 1..(ridx + 1) : counters[v] = last[v] - begin[v]
  <2>1. SUFFICES ASSUME current' = Start(ridx + 1), NEW v \in 1..(ridx + 1)
                 PROVE  counters[v] = last[v] - begin[v]
    OBVIOUS
  <2>2. current = Start(ridx) /\ it[ridx + 1] = last[ridx + 1]
    BY <2>1, <1>3, <1>5, <1>7, <1>8
  <2>3. CASE v = ridx + 1
    BY <2>2, <2>3, <1>7
  <2>4. CASE v \in 1..ridx
    BY <2>2, <2>4, <1>5
  <2> QED BY <2>3, <2>4, <1>2, <1>3
<1>10. TypeOK'
  <2>1. ridx' \in 0..T
    BY <1>2, <1>3, BoundsAssumption
  <2> QED BY <2>1, <1>1, <1>8 DEF ReadCounter, mainVars, threadArgs, TypeOK
<1>11. ModeInv'
  BY <1>1, <1>2, BoundsAssumption
  DEF ReadCounter, mainVars, threadArgs, TypeOK, ModeInv, Start
<1>12. ThreadInv'
  BY <1>1, <1>2, BoundsAssumption
  DEF ReadCounter, mainVars, threadArgs, TypeOK, ThreadInv, Start, Started
<1>13. IterInv'
  BY <1>1, <1>2, BoundsAssumption
  DEF ReadCounter, mainVars, threadArgs, TypeOK, IterInv, Started
<1>14. ResultInv'
  BY <1>1, <1>2, BoundsAssumption
  DEF ReadCounter, mainVars, threadArgs, TypeOK, ResultInv, Start, Started,
     Seen
<1>15. ReporterInv'
  <2>1. ridx' <= Workers
    BY <1>2, <1>3
  <2>2. previous <= total
    BY <1>1 DEF ReporterInv
  <2>3. pc \notin {"execute", "sequential", "reserve", "spawn"}
    BY <1>1 DEF ReadCounter, ReporterInv
  <2> QED BY <2>1, <2>2, <2>3, <1>2, <1>3, <1>4, <1>5, <1>8, <1>9
          DEF ReporterInv, Started, Start
<1>16. RefInv'
  BY <1>1, <1>2, BoundsAssumption
  DEF ReadCounter, mainVars, threadArgs, TypeOK, RefInv, Active
<1> QED BY <1>10, <1>11, <1>12, <1>13, <1>14, <1>15, <1>16 DEF Inv

\* The end of a reporter's round keeps it: a sum equal to the total means that
\* every counter is at the end of its batch.
LEMMA PrintProgressInv ==
  ASSUME Inv, PrintProgress
  PROVE  Inv'
<1>1. /\ TypeOK /\ ModeInv /\ ThreadInv /\ IterInv /\ ResultInv /\ ReporterInv
      /\ RefInv
  BY DEF Inv
<1>2. /\ Workers \in 0..T /\ Workers \in Nat
      /\ Workers' = Workers /\ Sequentially' = Sequentially
      /\ total' = total /\ tasks' = tasks
  BY <1>1, CallFixed, WorkersType, BoundsAssumption DEF PrintProgress
<1>3. Workers > 0 /\ ridx = Workers /\ Start(0) = 0 /\ Start(Workers) = total
  <2>1. Workers > 0 /\ ridx = Workers
    BY <1>1 DEF PrintProgress, ReporterInv
  <2> QED BY <2>1, <1>1, StartFacts
<1>4. UNCHANGED <<pc, tpc, counters, begin, last>>
  BY DEF PrintProgress, mainVars, threadArgs
<1>5. /\ current \in 0..N /\ current <= total /\ previous \in 0..N /\ previous <= total
      /\ current = total => \A v \in 1..Workers : counters[v] = last[v] - begin[v]
      /\ \A v \in 1..Workers : Started(v)
      /\ pc \notin {"execute", "sequential", "reserve", "spawn"}
  BY <1>1, <1>3 DEF PrintProgress, ReporterInv, TypeOK
<1>6. /\ previous' \in 0..N /\ previous' <= total /\ ridx' = 0 /\ current' = 0
      /\ rpc' \in {"read", "exit"} /\ (rpc' = "exit" => current = total)
  BY <1>5 DEF PrintProgress
<1>7. TypeOK'
  <2>1. ridx' \in 0..T /\ current' \in 0..N
    BY <1>6, BoundsAssumption
  <2> QED BY <2>1, <1>1, <1>6 DEF PrintProgress, mainVars, threadArgs, TypeOK
<1>8. ModeInv'
  BY <1>1, <1>2, BoundsAssumption
  DEF PrintProgress, mainVars, threadArgs, TypeOK, ModeInv, Start
<1>9. ThreadInv'
  BY <1>1, <1>2, BoundsAssumption
  DEF PrintProgress, mainVars, threadArgs, TypeOK, ThreadInv, Start, Started
<1>10. IterInv'
  BY <1>1, <1>2, BoundsAssumption
  DEF PrintProgress, mainVars, threadArgs, TypeOK, IterInv, Started
<1>11. ResultInv'
  BY <1>1, <1>2, BoundsAssumption
  DEF PrintProgress, mainVars, threadArgs, TypeOK, ResultInv, Start, Started,
     Seen
<1>12. ReporterInv'
  BY <1>2, <1>3, <1>4, <1>5, <1>6 DEF ReporterInv, Started, Start
<1>13. RefInv'
  BY <1>1, <1>2, BoundsAssumption
  DEF PrintProgress, mainVars, threadArgs, TypeOK, RefInv, Active
<1> QED BY <1>7, <1>8, <1>9, <1>10, <1>11, <1>12, <1>13 DEF Inv

\* Where main can be, and what is known of a task, while the task runs.
LEMMA ActiveFacts ==
  ASSUME Inv, NEW w \in 1..T, Active(w)
  PROVE  /\ w <= Workers
         /\ pc \in {"task", "spawn", "join"}
         /\ pc = "task" <=> Sequentially
         /\ pc = "task" => w = 1
         /\ total \in 0..N /\ begin[w] \in Nat /\ it[w] \in Nat /\ last[w] \in Nat
         /\ begin[w] <= it[w] /\ it[w] <= last[w] /\ last[w] <= total
         /\ counters[w] = it[w] - begin[w]
         /\ tpc[w] = "count" => it[w] < last[w]
<1>1. TypeOK /\ ModeInv /\ ThreadInv /\ IterInv
  BY DEF Inv
<1>2. Started(w) /\ tpc[w] # "exit"
  BY DEF Active, Started
<1>3. Workers \in 0..T /\ Workers \in Nat
  BY <1>1, WorkersType, BoundsAssumption
<1>4. w <= Workers /\ last[w] = Start(w)
  BY <1>1, <1>2 DEF ThreadInv
<1>5. w \in 1..Workers /\ Workers > 0
  BY <1>3, <1>4
<1>6. pc \in {"task", "spawn", "join"}
  <2>1. pc \notin {"execute", "sequential", "reserve"}
    BY <1>1, <1>2 DEF ThreadInv
  <2>2. pc # "merge" /\ pc # "done"
    BY <1>1, <1>2, <1>5 DEF ModeInv
  <2> QED BY <2>1, <2>2, <1>1 DEF TypeOK
<1>7. (pc = "task" <=> Sequentially) /\ (pc = "task" => w = 1)
  BY <1>1, <1>5, <1>6 DEF ModeInv
<1>8. /\ total \in 0..N /\ begin[w] \in Nat /\ it[w] \in Nat /\ last[w] \in Nat
  BY <1>1, BoundsAssumption DEF TypeOK
<1>9. last[w] <= total
  BY <1>1, <1>3, <1>4, <1>5, StartFacts
<1>10. /\ begin[w] <= it[w] /\ it[w] <= last[w] /\ counters[w] = it[w] - begin[w]
       /\ tpc[w] = "count" => it[w] < last[w]
  BY <1>1, <1>2 DEF IterInv
<1> QED BY <1>4, <1>6, <1>7, <1>8, <1>9, <1>10

\* A concatenation of results is a sequence of results.
LEMMA ConcatValues ==
  ASSUME NEW a \in Seq(Value), NEW b \in Seq(Value), NEW c \in Seq(Value)
  PROVE  a \o (b \o c) = (a \o b) \o c
  BY ConcatAssociative

\* Processing an item keeps it: the storage holds the results up to `it`.
LEMMA TaskItemInv ==
  ASSUME Inv, NEW w \in 1..T, TaskItem(w)
  PROVE  Inv'
<1>1. /\ TypeOK /\ ModeInv /\ ThreadInv /\ IterInv /\ ResultInv /\ ReporterInv
      /\ RefInv
  BY DEF Inv
<1>2. /\ Workers \in 0..T /\ Workers \in Nat
      /\ Workers' = Workers /\ Sequentially' = Sequentially
      /\ total' = total /\ tasks' = tasks
  BY <1>1, CallFixed, WorkersType, BoundsAssumption DEF TaskItem
<1>3. /\ pc \in {"task", "spawn", "join"} /\ w <= Workers
      /\ \A v \in 1..T : /\ tpc'[v] = "idle" <=> tpc[v] = "idle"
                         /\ v # w => tpc'[v] = tpc[v]
      /\ tpc'[w] = "count" /\ tpc[w] = "item"
      /\ tpc' \in [1..T -> {"idle", "item", "count", "exit"}]
  <2>1. Active(w)
    BY DEF TaskItem, Active
  <2>2. pc \in {"task", "spawn", "join"} /\ w <= Workers
    BY <2>1, ActiveFacts
  <2> QED BY <2>2, <1>1 DEF TaskItem, TypeOK
<1>4. UNCHANGED <<total, pc, i, end, cap, block, counters, begin, last, ref, it,
                  rpc, ridx, current, previous>>
  BY DEF TaskItem, mainVars, threadArgs, reporter
<1>5. /\ begin[w] \in Nat /\ it[w] \in Nat /\ last[w] \in Nat /\ total \in 0..N
      /\ begin[w] <= it[w] /\ it[w] < last[w] /\ last[w] <= total
      /\ pc = "task" <=> Sequentially
      /\ pc = "task" => w = 1
      /\ counters[w] = it[w] - begin[w] /\ it[w] + 1 \in 1..N /\ it[w] \in 0..N
  <2>1. Active(w)
    BY DEF TaskItem, Active
  <2>2. /\ begin[w] \in Nat /\ it[w] \in Nat /\ last[w] \in Nat /\ total \in 0..N
        /\ begin[w] <= it[w] /\ it[w] <= last[w] /\ last[w] <= total
        /\ pc = "task" <=> Sequentially
        /\ pc = "task" => w = 1
        /\ counters[w] = it[w] - begin[w]
        /\ tpc[w] = "count" => it[w] < last[w]
    BY <2>1, ActiveFacts
  <2>3. it[w] < last[w]
    BY <2>2 DEF TaskItem
  <2> QED BY <2>2, <2>3, BoundsAssumption
<1>6. /\ Task[it[w] + 1] \in Seq(Value)
      /\ Sequential[it[w] + 1] = Sequential[it[w]] \o Task[it[w] + 1]
      /\ Sequential[begin[w]] \in Seq(Value)
  <2>1. (it[w] + 1) - 1 = it[w] /\ begin[w] \in 0..N
    BY <1>5, BoundsAssumption
  <2> QED BY <2>1, <1>5, TaskAssumption, SequentialAssumption
<1>7. IF Sequentially
      THEN out' = out \o Task[it[w] + 1] /\ storages' = storages
      ELSE storages' = [storages EXCEPT ![w] = @ \o Task[it[w] + 1]] /\ out' = out
  BY DEF TaskItem, Push
<1>8. TypeOK'
  <2>1. storages' \in [1..T -> Seq(Value)] /\ out' \in Seq(Value)
    <3>1. storages[w] \in Seq(Value) /\ out \in Seq(Value)
      BY <1>1 DEF TypeOK
    <3>2. /\ storages[w] \o Task[it[w] + 1] \in Seq(Value)
          /\ out \o Task[it[w] + 1] \in Seq(Value)
      BY <3>1, <1>6
    <3> QED BY <3>2, <1>1, <1>7 DEF TypeOK
  <2> QED BY <2>1, <1>1, <1>3 DEF TaskItem, mainVars, threadArgs, reporter, TypeOK
<1>9. ModeInv'
  <2>1. \A v \in 1..T : tpc[v] = "exit" => tpc'[v] = "exit"
    BY <1>3
  <2>2. pc = "join" => \A v \in 1..i : tpc'[v] = "exit"
    <3>1. 1..i \subseteq 1..T
      BY <1>1, BoundsAssumption DEF TypeOK
    <3> QED BY <2>1, <3>1, <1>1 DEF ModeInv
  <2> QED BY <2>2, <1>1, <1>2, <1>3, <1>4 DEF ModeInv, Start
<1>10. ThreadInv'
  BY <1>1, <1>2, <1>3, <1>4 DEF ThreadInv, Started, Start
<1>11. IterInv'
  BY <1>1, <1>3, <1>4, <1>5 DEF IterInv, Started
<1>12. ResultInv'
  <2>1. pc = "task" => out' = Sequential[it[w] + 1]
    BY <1>1, <1>3, <1>5, <1>6, <1>7 DEF ResultInv, Seen
  <2>2. ASSUME ~Sequentially, NEW v \in 1..T
        PROVE  (IF Started(v)
                THEN Sequential[begin[v]] \o storages[v] = Sequential[Seen(v)]
                ELSE storages[v] = << >>)'
    <3>1. CASE v = w
      <4>1. storages'[w] = storages[w] \o Task[it[w] + 1] /\ storages[w] \in Seq(Value)
        BY <1>1, <1>7, <2>2 DEF TypeOK
      <4>2. Sequential[begin[w]] \o storages[w] = Sequential[it[w]]
        BY <1>1, <1>3, <2>2 DEF ResultInv, Started, Seen
      <4>3. Sequential[begin[w]] \o (storages[w] \o Task[it[w] + 1])
              = (Sequential[begin[w]] \o storages[w]) \o Task[it[w] + 1]
        BY <4>1, <1>6, ConcatValues
      <4>4. Sequential[begin[w]] \o storages'[w] = Sequential[it[w] + 1]
        BY <4>1, <4>2, <4>3, <1>6
      <4> QED BY <3>1, <4>4, <1>3, <1>4 DEF Started, Seen
    <3>2. CASE v # w
      <4>1. storages'[v] = storages[v] /\ tpc'[v] = tpc[v]
        BY <1>1, <1>3, <1>7, <2>2, <3>2 DEF TypeOK
      <4> QED BY <4>1, <1>1, <1>4, <2>2 DEF ResultInv, Started, Seen
    <3> QED BY <3>1, <3>2
  <2>3. pc # "task" => out' = out
    BY <1>5, <1>7
  <2> QED BY <2>1, <2>2, <2>3, <1>1, <1>2, <1>3, <1>4, <1>5 DEF ResultInv, Seen
<1>13. ReporterInv'
  <2>1. 1..Workers \subseteq 1..T
    BY <1>2, BoundsAssumption
  <2>2. rpc # "idle" => \A v \in 1..Workers : tpc'[v] # "idle"
    BY <2>1, <1>1, <1>3 DEF ReporterInv, Started
  <2> QED BY <2>2, <1>1, <1>2, <1>3, <1>4 DEF ReporterInv, Started, Start
<1>14. RefInv'
  BY <1>1, <1>2, <1>3, <1>4 DEF RefInv, Active
<1> QED BY <1>8, <1>9, <1>10, <1>11, <1>12, <1>13, <1>14 DEF Inv

\* Moving on to the next item keeps it.
LEMMA TaskCountInv ==
  ASSUME Inv, NEW w \in 1..T, TaskCount(w)
  PROVE  Inv'
<1>1. /\ TypeOK /\ ModeInv /\ ThreadInv /\ IterInv /\ ResultInv /\ ReporterInv
      /\ RefInv
  BY DEF Inv
<1>2. /\ Workers \in 0..T /\ Workers \in Nat
      /\ Workers' = Workers /\ Sequentially' = Sequentially
      /\ total' = total /\ tasks' = tasks
  BY <1>1, CallFixed, WorkersType, BoundsAssumption DEF TaskCount
<1>3. /\ pc \in {"task", "spawn", "join"} /\ w <= Workers
      /\ \A v \in 1..T : /\ tpc'[v] = "idle" <=> tpc[v] = "idle"
                         /\ v # w => tpc'[v] = tpc[v]
      /\ tpc'[w] = "item" /\ tpc[w] = "count"
      /\ tpc' \in [1..T -> {"idle", "item", "count", "exit"}]
  <2>1. Active(w)
    BY DEF TaskCount, Active
  <2>2. pc \in {"task", "spawn", "join"} /\ w <= Workers
    BY <2>1, ActiveFacts
  <2> QED BY <2>2, <1>1 DEF TaskCount, TypeOK
<1>4. UNCHANGED <<total, pc, i, end, cap, block, storages, out, begin, last, ref,
                  rpc, ridx, current, previous>>
  BY DEF TaskCount, mainVars, threadArgs, reporter
<1>5. /\ begin[w] \in Nat /\ it[w] \in Nat /\ last[w] \in Nat /\ total \in 0..N
      /\ begin[w] <= it[w] /\ it[w] < last[w] /\ last[w] <= total
      /\ pc = "task" <=> Sequentially
      /\ pc = "task" => w = 1
      /\ counters[w] = it[w] - begin[w] /\ it[w] + 1 \in 1..N /\ it[w] \in 0..N
  <2>1. Active(w)
    BY DEF TaskCount, Active
  <2>2. /\ begin[w] \in Nat /\ it[w] \in Nat /\ last[w] \in Nat /\ total \in 0..N
        /\ begin[w] <= it[w] /\ it[w] <= last[w] /\ last[w] <= total
        /\ pc = "task" <=> Sequentially
        /\ pc = "task" => w = 1
        /\ counters[w] = it[w] - begin[w]
        /\ tpc[w] = "count" => it[w] < last[w]
    BY <2>1, ActiveFacts
  <2>3. it[w] < last[w]
    BY <2>2 DEF TaskCount
  <2> QED BY <2>2, <2>3, BoundsAssumption
<1>6. /\ it'[w] = it[w] + 1 /\ counters'[w] = counters[w] + 1
      /\ counters[w] + 1 \in 0..N /\ it[w] + 1 \in 0..N
      /\ \A v \in 1..T : v # w => it'[v] = it[v] /\ counters'[v] = counters[v]
  <2>1. counters[w] + 1 \in 0..N /\ it[w] + 1 \in 0..N
    BY <1>5, BoundsAssumption
  <2> QED BY <2>1, <1>1 DEF TaskCount, TypeOK
<1>7. TypeOK'
  <2>1. it' \in [1..T -> 0..N] /\ counters' \in [1..T -> 0..N]
    BY <1>1, <1>6 DEF TaskCount, TypeOK
  <2> QED BY <2>1, <1>1, <1>3 DEF TaskCount, mainVars, threadArgs, reporter, TypeOK
<1>8. ModeInv'
  <2>1. \A v \in 1..T : tpc[v] = "exit" => tpc'[v] = "exit"
    BY <1>3
  <2>2. pc = "join" => \A v \in 1..i : tpc'[v] = "exit"
    <3>1. 1..i \subseteq 1..T
      BY <1>1, BoundsAssumption DEF TypeOK
    <3> QED BY <2>1, <3>1, <1>1 DEF ModeInv
  <2> QED BY <2>2, <1>1, <1>2, <1>3, <1>4 DEF ModeInv, Start
<1>9. ThreadInv'
  BY <1>1, <1>2, <1>3, <1>4 DEF ThreadInv, Started, Start
<1>10. IterInv'
  <2>1. ASSUME NEW v \in 1..T, v = w
        PROVE  /\ begin'[v] <= it'[v] /\ it'[v] <= last'[v]
               /\ counters'[v] = it'[v] - begin'[v]
    BY <2>1, <1>4, <1>5, <1>6
  <2> QED BY <2>1, <1>1, <1>3, <1>4, <1>6 DEF IterInv, Started
<1>11. ResultInv'
  <2>1. \A v \in 1..T : Seen(v)' = Seen(v)
    BY <1>3, <1>6 DEF Seen
  <2>2. pc = "task" => Seen(1)' = Seen(1)
    BY <1>1, <1>2, <2>1, BoundsAssumption DEF ModeInv
  <2> QED BY <2>1, <2>2, <1>1, <1>2, <1>3, <1>4 DEF ResultInv, Started, Start
<1>12. ReporterInv'
  <2>1. 1..Workers \subseteq 1..T
    BY <1>2, BoundsAssumption
  <2>2. rpc # "idle" => \A v \in 1..Workers : tpc'[v] # "idle"
    BY <2>1, <1>1, <1>3 DEF ReporterInv, Started
  <2>3. counters[w] # last[w] - begin[w]
    BY <1>5
  <2>4. \A v \in 1..T : counters[v] = last[v] - begin[v] => counters'[v] = counters[v]
    BY <2>3, <1>6
  <2>5. rpc # "idle" /\ ridx <= Workers => 1..ridx \subseteq 1..T
    BY <1>1, <1>2, BoundsAssumption DEF TypeOK
  <2>6. rpc # "idle" /\ current = Start(ridx) =>
          \A v \in 1..ridx : counters'[v] = last[v] - begin[v]
    BY <2>4, <2>5, <1>1 DEF ReporterInv
  <2>7. rpc = "exit" => \A v \in 1..Workers : counters'[v] = last[v] - begin[v]
    BY <2>1, <2>4, <1>1 DEF ReporterInv
  <2> QED BY <2>2, <2>6, <2>7, <1>1, <1>2, <1>4 DEF ReporterInv, Started, Start
<1>13. RefInv'
  BY <1>1, <1>2, <1>3, <1>4 DEF RefInv, Active
<1> QED BY <1>7, <1>8, <1>9, <1>10, <1>11, <1>12, <1>13 DEF Inv

\* The end of a task keeps it.
LEMMA TaskReturnInv ==
  ASSUME Inv, NEW w \in 1..T, TaskReturn(w)
  PROVE  Inv'
<1>1. /\ TypeOK /\ ModeInv /\ ThreadInv /\ IterInv /\ ResultInv /\ ReporterInv
      /\ RefInv
  BY DEF Inv
<1>2. /\ Workers \in 0..T /\ Workers \in Nat
      /\ Workers' = Workers /\ Sequentially' = Sequentially
      /\ total' = total /\ tasks' = tasks
  BY <1>1, CallFixed, WorkersType, BoundsAssumption DEF TaskReturn
<1>3. /\ pc \in {"task", "spawn", "join"} /\ w <= Workers
      /\ \A v \in 1..T : /\ tpc'[v] = "idle" <=> tpc[v] = "idle"
                         /\ v # w => tpc'[v] = tpc[v]
      /\ tpc'[w] = "exit" /\ tpc[w] = "item"
      /\ tpc' \in [1..T -> {"idle", "item", "count", "exit"}]
  <2>1. Active(w)
    BY DEF TaskReturn, Active
  <2>2. pc \in {"task", "spawn", "join"} /\ w <= Workers
    BY <2>1, ActiveFacts
  <2> QED BY <2>2, <1>1 DEF TaskReturn, TypeOK
<1>4. UNCHANGED <<total, pc, i, end, cap, block, storages, counters, out, begin, last, ref,
                  it, rpc, ridx, current, previous>>
  BY DEF TaskReturn, mainVars, threadArgs, reporter
<1>5. TypeOK'
  BY <1>1, <1>3 DEF TaskReturn, mainVars, threadArgs, reporter, TypeOK
<1>6. ModeInv'
  <2>1. \A v \in 1..T : tpc[v] = "exit" => tpc'[v] = "exit"
    BY <1>3
  <2>2. pc = "join" => \A v \in 1..i : tpc'[v] = "exit"
    <3>1. 1..i \subseteq 1..T
      BY <1>1, BoundsAssumption DEF TypeOK
    <3> QED BY <2>1, <3>1, <1>1 DEF ModeInv
  <2> QED BY <2>2, <1>1, <1>2, <1>3, <1>4 DEF ModeInv, Start
<1>7. ThreadInv'
  BY <1>1, <1>2, <1>3, <1>4 DEF ThreadInv, Started, Start
<1>8. IterInv'
  BY <1>1, <1>3, <1>4 DEF TaskReturn, IterInv, Started
<1>9. ResultInv'
  <2>1. \A v \in 1..T : Seen(v)' = Seen(v)
    BY <1>3, <1>4 DEF Seen
  <2>2. pc = "task" => Seen(1)' = Seen(1)
    BY <1>1, <1>2, <2>1, BoundsAssumption DEF ModeInv
  <2> QED BY <2>1, <2>2, <1>1, <1>2, <1>3, <1>4 DEF ResultInv, Started, Start
<1>10. ReporterInv'
  <2>1. 1..Workers \subseteq 1..T
    BY <1>2, BoundsAssumption
  <2>2. rpc # "idle" => \A v \in 1..Workers : tpc'[v] # "idle"
    BY <2>1, <1>1, <1>3 DEF ReporterInv, Started
  <2> QED BY <2>2, <1>1, <1>2, <1>3, <1>4 DEF ReporterInv, Started, Start
<1>11. RefInv'
  BY <1>1, <1>2, <1>3, <1>4 DEF RefInv, Active
<1> QED BY <1>5, <1>6, <1>7, <1>8, <1>9, <1>10, <1>11 DEF Inv

\* Diagnostics::error in a task keeps it.
LEMMA TaskErrorInv ==
  ASSUME Inv, NEW w \in 1..T, TaskError(w)
  PROVE  Inv'
<1>1. /\ TypeOK /\ ModeInv /\ ThreadInv /\ IterInv /\ ResultInv /\ ReporterInv
      /\ RefInv
  BY DEF Inv
<1>2. /\ Workers \in 0..T /\ Workers \in Nat
      /\ Workers' = Workers /\ Sequentially' = Sequentially
      /\ total' = total /\ tasks' = tasks
  BY <1>1, CallFixed, WorkersType, BoundsAssumption DEF TaskError
<1>3. TypeOK'
  BY <1>1, <1>2, BoundsAssumption
  DEF TaskError, threadArgs, reporter, TypeOK
<1>4. ModeInv'
  BY <1>1, <1>2, BoundsAssumption
  DEF TaskError, threadArgs, reporter, TypeOK, ModeInv, Start
<1>5. ThreadInv'
  BY <1>1, <1>2, BoundsAssumption
  DEF TaskError, threadArgs, reporter, TypeOK, ThreadInv, Start, Started
<1>6. IterInv'
  BY <1>1, <1>2, BoundsAssumption
  DEF TaskError, threadArgs, reporter, TypeOK, IterInv, Started
<1>7. ResultInv'
  BY <1>1, <1>2, BoundsAssumption
  DEF TaskError, threadArgs, reporter, TypeOK, ResultInv, Start, Started, Seen
<1>8. ReporterInv'
  BY <1>1, <1>2, BoundsAssumption
  DEF TaskError, threadArgs, reporter, TypeOK, ReporterInv, Start, Started
<1>9. RefInv'
  BY <1>1, <1>2, BoundsAssumption
  DEF TaskError, threadArgs, reporter, TypeOK, RefInv, Active
<1> QED BY <1>3, <1>4, <1>5, <1>6, <1>7, <1>8, <1>9 DEF Inv

\* Every step of every thread keeps the invariant.
LEMMA InvNext == Inv /\ [Next]_vars => Inv'
<1> SUFFICES ASSUME Inv, [Next]_vars PROVE Inv'
  OBVIOUS
<1>1. CASE Main
  BY <1>1, ExecuteInv, ExecuteSequentiallyInv, JoinReporterInv, ReserveInv,
     SpawnTaskInv, SpawnReporterInv, JoinInv, MergeInv DEF Main
<1>2. CASE Reporter
  BY <1>2, ReadCounterInv, PrintProgressInv DEF Reporter
<1>3. ASSUME NEW w \in 1..T, TaskThread(w)
      PROVE  Inv'
  BY <1>3, TaskItemInv, TaskCountInv, TaskReturnInv, TaskErrorInv DEF TaskThread
<1>4. CASE UNCHANGED vars
  <2>1. /\ UNCHANGED <<total, tasks, process, pc, i, end, cap, block, storages>>
        /\ UNCHANGED <<counters, out, tpc, begin, last, ref, it, rpc, ridx>>
        /\ UNCHANGED <<current, previous>>
    BY <1>4 DEF vars, mainVars, threadArgs, reporter
  <2>2. Workers' = Workers /\ Sequentially' = Sequentially
    BY <2>1, CallFixed
  <2> QED BY <2>1, <2>2
          DEF Inv, TypeOK, ModeInv, ThreadInv, IterInv, ResultInv, ReporterInv,
              RefInv, Started, Active, Seen, Start
<1> QED BY <1>1, <1>2, <1>3, <1>4 DEF Next, Stop

\* The invariant holds throughout every call of execute().
THEOREM Invariance == Spec => []Inv
  BY InvInit, InvNext, PTL DEF Spec

-------------------------------------------------------------------------------
(* What follows from it *)

\* Every variable keeps its type; in particular no iterator leaves the input.
THEOREM TypeCorrect == Spec => []TypeOK
<1>1. Inv => TypeOK
  BY DEF Inv
<1> QED BY <1>1, Invariance, PTL

\* For any number of items and tasks, any task and any interleaving, `out` ends
\* up as one thread walking the input would have filled it.
THEOREM OutputOrder == Spec => []OrderPreserved
<1>1. Inv => OrderPreserved
  BY DEF Inv, ResultInv, OrderPreserved
<1> QED BY <1>1, Invariance, PTL

\* Tasks that run at the same time have disjoint batches inside the input.
THEOREM Exclusion == Spec => []ItemsExclusive
<1>1. ASSUME Inv PROVE ItemsExclusive
  <2>1. SUFFICES ASSUME NEW v \in 1..T, NEW w \in 1..T, Active(v), Active(w), v # w
                 PROVE  /\ last[v] <= total
                        /\ last[v] <= begin[w] \/ last[w] <= begin[v]
    BY DEF ItemsExclusive
  <2>2. TypeOK /\ ThreadInv /\ Started(v) /\ Started(w)
    BY <1>1, <2>1 DEF Inv, Active, Started
  <2>3. Workers \in Nat
    BY <2>2, WorkersType, BoundsAssumption
  <2>4. /\ v <= Workers /\ begin[v] = Start(v - 1) /\ last[v] = Start(v)
        /\ w <= Workers /\ begin[w] = Start(w - 1) /\ last[w] = Start(w)
    BY <2>2 DEF ThreadInv
  <2>5. /\ v \in 0..Workers /\ v - 1 \in 0..Workers /\ Workers > 0
        /\ w \in 0..Workers /\ w - 1 \in 0..Workers
        /\ v <= w - 1 \/ w <= v - 1
    BY <2>1, <2>3, <2>4
  <2>6. \A j \in 0..Workers, k \in 0..Workers : j <= k => Start(j) <= Start(k)
    BY <2>2, <2>5, StartFacts
  <2>7. last[v] <= total
    BY <1>1, <2>1, ActiveFacts
  <2> QED BY <2>4, <2>5, <2>6, <2>7
<1> QED BY <1>1, Invariance, PTL

\* reserve() keeps the references of running tasks valid.
THEOREM NoDanglingReference == Spec => []ReferencesValid
<1>1. Inv => ReferencesValid
  BY DEF Inv, RefInv, ReferencesValid
<1> QED BY <1>1, Invariance, PTL

\* The reporter's sum and what it prints never exceed in.size().
THEOREM ProgressBound == Spec => []ProgressWithinTotal
<1>1. ASSUME Inv PROVE ProgressWithinTotal
  <2>1. TypeOK /\ ReporterInv /\ total \in 0..N /\ current \in 0..N /\ ridx \in 0..T
    BY <1>1 DEF Inv, TypeOK
  <2>2. CASE rpc = "idle"
    BY <2>1, <2>2, BoundsAssumption DEF ReporterInv, ProgressWithinTotal
  <2>3. CASE rpc # "idle"
    <3>1. Workers > 0 /\ ridx <= Workers /\ current <= Start(ridx) /\ previous <= total
      BY <2>1, <2>3 DEF ReporterInv
    <3>2. Workers \in Nat
      BY <2>1, WorkersType, BoundsAssumption
    <3>3. ridx \in 0..Workers
      BY <2>1, <3>1, <3>2, BoundsAssumption
    <3>4. Start(ridx) \in 0..total
      BY <2>1, <3>1, <3>3, StartFacts
    <3> QED BY <2>1, <3>1, <3>4 DEF ProgressWithinTotal
  <2> QED BY <2>2, <2>3
<1> QED BY <1>1, Invariance, PTL

\* When the reporter leaves its loop, every item has been processed.
THEOREM ReporterLast == Spec => []ReporterStopsLast
<1>1. ASSUME Inv PROVE ReporterStopsLast
  <2>1. SUFFICES ASSUME rpc = "exit", NEW w \in 1..Workers
                 PROVE  it[w] = last[w] /\ tpc[w] \in {"item", "exit"}
    BY DEF ReporterStopsLast
  <2>2. TypeOK /\ IterInv /\ ReporterInv
    BY <1>1 DEF Inv
  <2>3. w \in 1..T
    BY <2>2, WorkersType, BoundsAssumption
  <2>4. Started(w) /\ counters[w] = last[w] - begin[w]
    BY <2>1, <2>2 DEF ReporterInv
  <2>5. counters[w] = it[w] - begin[w] /\ (tpc[w] = "count" => it[w] < last[w])
    BY <2>2, <2>3, <2>4 DEF IterInv
  <2>6. it[w] \in Int /\ last[w] \in Int /\ begin[w] \in Int
    BY <2>2, <2>3 DEF TypeOK
  <2>7. it[w] = last[w] /\ tpc[w] # "count"
    BY <2>4, <2>5, <2>6
  <2> QED BY <2>2, <2>3, <2>4, <2>7 DEF TypeOK, Started
<1> QED BY <1>1, Invariance, PTL

-------------------------------------------------------------------------------
(* Progress never goes back *)

\* s[w] is the sum of the first w counters, as they were when the reporter
\* loaded one after the other, up to the k-th: none has become smaller since.
ReadSums(s, k) ==
  /\ s \in [0..T -> Nat]
  /\ s[0] = 0
  /\ \A w \in 1..k : s[w] - s[w - 1] <= counters[w]

\* What the last round that printed has read bounds from below what this round
\* has read so far.
RoundInv ==
  \E s, r \in [0..T -> Nat] :
    /\ ReadSums(s, Workers) /\ s[Workers] = previous
    /\ ReadSums(r, ridx) /\ r[ridx] = current
    /\ s[ridx] <= current

\* Before the first round nothing was read and nothing shown.
LEMMA RoundInit == Init => RoundInv
<1> SUFFICES ASSUME Init PROVE RoundInv
  OBVIOUS
<1> DEFINE z == [k \in 0..T |-> 0]
<1>1. T \in Nat /\ Workers \in 0..T
  BY BoundsAssumption DEF Init, Workers
<1>2. z \in [0..T -> Nat] /\ z[0] = 0 /\ z[Workers] = 0
  BY <1>1
<1>3. \A k \in 0..T : ReadSums(z, k)
  BY <1>1, <1>2 DEF ReadSums, Init
<1>4. ridx = 0 /\ current = 0 /\ previous = 0
  BY DEF Init
<1>5. /\ ReadSums(z, Workers) /\ z[Workers] = previous
      /\ ReadSums(z, ridx) /\ z[ridx] = current /\ z[ridx] <= current
  BY <1>1, <1>2, <1>3, <1>4
<1> HIDE DEF z
<1> QED BY <1>2, <1>5, Zenon DEF RoundInv

\* Only the reporter moves its sums, and only tasks the counters, upwards.
LEMMA StepSummary ==
  ASSUME Inv, [Next]_vars
  PROVE  /\ UNCHANGED <<total, tasks>>
         /\ \/ UNCHANGED <<ridx, current, previous>> /\ \A w \in 1..T : counters'[w] >= counters[w]
            \/ ReadCounter
            \/ PrintProgress
<1>0. counters \in [1..T -> Nat] /\ \A w \in 1..T : counters[w] >= counters[w]
  BY BoundsAssumption DEF Inv, TypeOK
<1>1. CASE Main
  <2>1. UNCHANGED <<total, tasks, counters, ridx, current, previous>>
    BY <1>1 DEF Main, Execute, ExecuteSequentially, JoinReporter, Reserve, SpawnTask,
                SpawnReporter, Join, Merge, reporter
  <2> QED BY <1>0, <2>1
<1>2. CASE ReadCounter
  BY <1>2 DEF ReadCounter
<1>3. CASE PrintProgress
  BY <1>3 DEF PrintProgress
<1>4. ASSUME NEW w \in 1..T, TaskItem(w) \/ TaskReturn(w) \/ TaskError(w)
      PROVE  UNCHANGED <<total, tasks, counters, ridx, current, previous>>
  BY <1>4 DEF TaskItem, TaskReturn, TaskError, reporter
<1>5. ASSUME NEW w \in 1..T, TaskCount(w)
      PROVE  /\ UNCHANGED <<total, tasks, ridx, current, previous>>
             /\ \A v \in 1..T : counters'[v] >= counters[v]
  BY <1>0, <1>5 DEF TaskCount, reporter
<1>6. CASE UNCHANGED vars
  <2>1. UNCHANGED <<total, tasks, counters, ridx, current, previous>>
    BY <1>6 DEF vars, reporter
  <2> QED BY <1>0, <2>1
<1> QED BY <1>0, <1>1, <1>2, <1>3, <1>4, <1>5, <1>6 DEF Next, Stop, Reporter, TaskThread

\* The counters read in the last round are still a lower bound after a step.
LEMMA RoundNext == Inv /\ RoundInv /\ [Next]_vars => RoundInv'
<1> SUFFICES ASSUME Inv, RoundInv, [Next]_vars PROVE RoundInv'
  OBVIOUS
<1>1. /\ T \in Nat /\ Workers \in 0..T /\ ridx \in 0..T
      /\ current \in Nat /\ previous \in Nat /\ counters \in [1..T -> Nat]
  <2>1. TypeOK
    BY DEF Inv
  <2>2. Workers \in 0..T
    BY <2>1, WorkersType
  <2>3. /\ N \in Nat /\ T \in Nat /\ ridx \in 0..T /\ current \in 0..N
        /\ previous \in 0..N /\ counters \in [1..T -> 0..N]
    BY <2>1, BoundsAssumption DEF TypeOK
  <2> QED BY <2>2, <2>3
<1>2. PICK s \in [0..T -> Nat], r \in [0..T -> Nat] :
        /\ ReadSums(s, Workers) /\ s[Workers] = previous
        /\ ReadSums(r, ridx) /\ r[ridx] = current
        /\ s[ridx] <= current
  BY DEF RoundInv
<1>3. Workers' = Workers
  BY StepSummary, CallFixed
<1>4. ASSUME UNCHANGED <<ridx, current, previous>>, \A w \in 1..T : counters'[w] >= counters[w],
             counters' \in [1..T -> Nat]
      PROVE  RoundInv'
  <2>1. ASSUME NEW f \in [0..T -> Nat], NEW k \in 0..T, ReadSums(f, k)
        PROVE  ReadSums(f, k)'
    <3>1. ASSUME NEW w \in 1..k PROVE f[w] - f[w - 1] <= counters'[w]
      <4>1. w \in 1..T /\ w \in 0..T /\ w - 1 \in 0..T
        BY <1>1
      <4>2. f[w] - f[w - 1] <= counters[w] /\ counters[w] <= counters'[w]
        BY <1>1, <1>4, <2>1, <4>1 DEF ReadSums
      <4>3. f[w] \in Nat /\ f[w - 1] \in Nat /\ counters[w] \in Nat /\ counters'[w] \in Nat
        BY <1>1, <1>4, <4>1
      <4> QED BY <4>2, <4>3
    <3> QED BY <2>1, <3>1 DEF ReadSums
  <2>2. ReadSums(s, Workers)' /\ ReadSums(r, ridx)'
    BY <1>1, <1>2, <1>3, <1>4, <2>1 DEF ReadSums
  <2> QED BY <1>2, <1>3, <1>4, <2>2 DEF RoundInv
<1>5. CASE ReadCounter
  <2>1. /\ ridx < Workers /\ current' = current + counters[ridx + 1] /\ ridx' = ridx + 1
        /\ UNCHANGED <<counters, previous>>
    BY <1>5 DEF ReadCounter
  <2>2. ridx + 1 \in 1..T /\ ridx + 1 \in 0..T /\ counters[ridx + 1] \in Nat
    BY <1>1, <2>1
  <2>3. current' \in Nat
    BY <1>1, <2>1, <2>2
  <2>4. PICK q \in [0..T -> Nat] :
          /\ q[ridx + 1] = current' /\ q[ridx] = current
          /\ \A w \in 0..ridx : q[w] = r[w]
    <3> DEFINE f == [r EXCEPT ![ridx + 1] = current']
    <3>1. f \in [0..T -> Nat]
      BY <2>3
    <3>2. f[ridx + 1] = current'
      BY <2>2
    <3>3. \A w \in 0..ridx : f[w] = r[w]
      BY <1>1, <2>2
    <3>4. f[ridx] = current
      BY <1>1, <1>2, <3>3
    <3> QED BY <3>1, <3>2, <3>3, <3>4
  <2>5. ReadSums(q, ridx)'
    <3>1. q[0] = 0
      BY <1>1, <1>2, <2>4 DEF ReadSums
    <3>2. ASSUME NEW w \in 1..(ridx + 1) PROVE q[w] - q[w - 1] <= counters[w]
      <4>1. CASE w = ridx + 1
        BY <1>1, <2>1, <2>2, <2>3, <2>4, <4>1
      <4>2. CASE w # ridx + 1
        <5>1. w \in 1..ridx /\ w \in 0..ridx /\ w - 1 \in 0..ridx
          BY <1>1, <4>2
        <5> QED BY <1>2, <2>4, <5>1 DEF ReadSums
      <4> QED BY <4>1, <4>2
    <3> QED BY <2>1, <3>1, <3>2 DEF ReadSums
  <2>6. s[ridx + 1] <= current'
    <3>1. s[ridx + 1] - s[ridx] <= counters[ridx + 1]
      <4>1. ridx + 1 \in 1..Workers /\ (ridx + 1) - 1 = ridx
        BY <1>1, <2>1
      <4> QED BY <1>2, <4>1 DEF ReadSums
    <3>2. s[ridx + 1] \in Nat /\ s[ridx] \in Nat
      BY <1>1, <1>2, <2>2
    <3>3. s[ridx] <= current
      BY <1>2
    <3>4. \A x, y, c, n \in Nat : x - y <= n /\ y <= c => x <= c + n
      OBVIOUS
    <3> QED BY <1>1, <2>1, <2>2, <3>1, <3>2, <3>3, <3>4
  <2>7. ReadSums(s, Workers)' /\ s[Workers]' = previous'
    BY <1>2, <1>3, <2>1 DEF ReadSums
  <2>8. q[ridx]' = current' /\ s[ridx]' <= current'
    BY <2>1, <2>4, <2>6
  <2> QED BY <2>5, <2>7, <2>8, Zenon DEF RoundInv
<1>6. CASE PrintProgress
  <2>1. /\ ridx = Workers /\ ridx' = 0 /\ current' = 0 /\ UNCHANGED counters
        /\ previous' = IF current = 0 THEN previous ELSE current
    BY <1>6 DEF PrintProgress
  <2>2. ReadSums(r, 0)' /\ r[0] = 0
    BY <1>2, <2>1 DEF ReadSums
  <2>3. ReadSums(s, Workers)' /\ ReadSums(r, Workers)' /\ s[0] = 0
    BY <1>2, <1>3, <2>1 DEF ReadSums
  <2>4. /\ ReadSums(r, ridx)' /\ r[ridx]' = current'
        /\ s[ridx]' <= current' /\ r[ridx]' <= current'
    BY <2>1, <2>2, <2>3 DEF ReadSums
  <2>5. CASE current = 0
    <3>1. s[Workers]' = previous'
      BY <1>2, <1>3, <2>1, <2>5
    <3> QED BY <2>3, <2>4, <3>1, Zenon DEF RoundInv
  <2>6. CASE current # 0
    <3>1. r[Workers]' = previous'
      BY <1>2, <1>3, <2>1, <2>6
    <3> QED BY <2>3, <2>4, <3>1, Zenon DEF RoundInv
  <2> QED BY <2>5, <2>6
<1>7. counters' \in [1..T -> Nat]
  <2>1. TypeOK'
    BY InvNext DEF Inv
  <2>2. N \in Nat /\ counters' \in [1..T -> 0..N]
    BY <2>1, BoundsAssumption DEF TypeOK
  <2> QED BY <2>2
<1> QED BY <1>4, <1>5, <1>6, <1>7, StepSummary

\* The progress shown never goes back, for any number of tasks and however they
\* count while the reporter adds up their counters.
THEOREM ProgressNeverBack == Spec => ProgressMonotone
<1>1. Inv /\ RoundInv /\ [Next]_vars => [previous' >= previous]_previous
  <2> SUFFICES ASSUME Inv, RoundInv, [Next]_vars, previous' # previous
               PROVE  previous' >= previous
    OBVIOUS
  <2>1. PrintProgress
    BY StepSummary DEF ReadCounter
  <2>2. previous' = current /\ ridx = Workers
    BY <2>1 DEF PrintProgress
  <2>3. previous <= current
    BY <2>2 DEF RoundInv
  <2>4. previous \in Nat /\ current \in Nat
    BY BoundsAssumption DEF Inv, TypeOK
  <2> QED BY <2>2, <2>3, <2>4
<1>2. Inv /\ RoundInv /\ [Next]_vars => RoundInv'
  BY RoundNext
<1> QED BY <1>1, <1>2, RoundInit, Invariance, PTL DEF Spec, ProgressMonotone

-------------------------------------------------------------------------------
(* Refinement *)

\* A step of main that leaves `out` alone is a stutter, or the return.
LEMMA OutUnchanged ==
  ASSUME Inv', process' = process, UNCHANGED <<total, tasks, out>>,
         pc = "done" => pc' = "done"
  PROVE  [Ordered!Next]_Ordered!vars
<1>1. CASE Status' = Status
  BY <1>1 DEF Ordered!vars
<1>2. CASE Status' # Status
  <2>1. Status = "running" /\ Status' = "done" /\ pc' = "done"
    BY <1>2 DEF Status
  <2>2. out = Sequential[IF tasks = 0 THEN 0 ELSE total]
    BY <2>1 DEF Inv, ResultInv
  <2> QED BY <2>1, <2>2 DEF Ordered!Next, Ordered!Return
<1> QED BY <1>1, <1>2

\* A step that pushes results of further items to `out`.
LEMMA OutAdvances ==
  ASSUME process = "running", UNCHANGED <<total, tasks, process, pc>>, pc # "done",
         NEW n \in 0..total, NEW m \in n..total,
         out = Sequential[n], out' = Sequential[m]
  PROVE  Ordered!Next
<1>1. Status = "running" /\ Status' = Status
  BY DEF Status
<1> QED BY <1>1 DEF Ordered!Next, Ordered!Advance

\* Every step of the pool is a step of the ordered map, or changes nothing there.
LEMMA StepRefines ==
  ASSUME Inv, Inv', [Next]_vars
  PROVE  [Ordered!Next]_Ordered!vars
<1>1. CASE UNCHANGED vars
  BY <1>1, OutUnchanged DEF vars, mainVars
<1>2. CASE Running /\ (Execute \/ JoinReporter \/ Reserve \/ SpawnReporter \/ Join)
  BY <1>2, OutUnchanged
  DEF Execute, JoinReporter, Reserve, SpawnReporter, Join
<1>3. CASE Running /\ (ExecuteSequentially \/ SpawnTask)
  BY <1>3, OutUnchanged DEF ExecuteSequentially, SpawnTask
<1>4. CASE Running /\ Reporter
  BY <1>4, OutUnchanged DEF Reporter, ReadCounter, PrintProgress, mainVars
<1>5. CASE Running /\ Merge
  <2> Workers \in Nat
    <3>1. TypeOK
      BY DEF Inv
    <3> QED BY <3>1, WorkersType, BoundsAssumption
  <2>1. CASE i = Workers
    <3>1. pc = "merge" /\ UNCHANGED <<total, tasks, process, out>>
      BY <1>5, <2>1 DEF Merge
    <3> QED BY <3>1, OutUnchanged
  <2>2. CASE i # Workers
    <3>1. UNCHANGED <<total, tasks, process, pc>> /\ pc = "merge" /\ i' = i + 1
      BY <1>5, <2>2 DEF Merge
    <3>2. out = Sequential[Start(i)]
      BY <3>1 DEF Inv, ResultInv
    <3>3. out' = Sequential[BatchStart(total', Workers', i')]
      BY <3>1 DEF Inv, ResultInv, Start
    <3>4. out' = Sequential[Start(i + 1)]
      BY <3>1, <3>3, CallFixed DEF Start
    <3>5. TypeOK /\ Workers > 1 /\ i \in Nat /\ i <= Workers
      <4>1. TypeOK
        BY DEF Inv
      <4>2. i \in Nat
        BY <4>1, BoundsAssumption DEF TypeOK
      <4> QED BY <3>1, <4>1, <4>2 DEF Inv, ModeInv
    <3>6. Workers \in Nat /\ i \in 0..Workers /\ i + 1 \in 0..Workers
      <4>1. Workers \in Nat
        BY <3>5, WorkersType, BoundsAssumption
      <4> QED BY <4>1, <2>2, <3>5
    <3>7. /\ Start(i) \in 0..total /\ Start(i + 1) \in 0..total
          /\ Start(i) <= Start(i + 1)
      BY <3>5, <3>6, StartFacts
    <3>8. total \in Nat
      BY <3>5, BoundsAssumption DEF TypeOK
    <3>9. Start(i + 1) \in Start(i)..total
      BY <3>7, <3>8
    <3> QED BY <1>5, <3>1, <3>2, <3>4, <3>7, <3>9, OutAdvances DEF Running
  <2> QED BY <2>1, <2>2
<1>6. ASSUME NEW w \in 1..T, Running, TaskCount(w) \/ TaskReturn(w)
      PROVE  [Ordered!Next]_Ordered!vars
  BY <1>6, OutUnchanged DEF TaskCount, TaskReturn, mainVars
<1>7. ASSUME NEW w \in 1..T, Running, TaskItem(w)
      PROVE  [Ordered!Next]_Ordered!vars
  <2>1. Active(w)
    BY <1>7 DEF TaskItem, Active
  <2>2. UNCHANGED <<total, tasks, process, pc, it>>
    BY <1>7 DEF TaskItem, mainVars
  <2>3. CASE ~Sequentially
    <3>1. out' = out
      BY <1>7, <2>3 DEF TaskItem, Push
    <3> QED BY <2>2, <3>1, OutUnchanged
  <2>4. CASE Sequentially
    <3>1. pc = "task" /\ w = 1
      BY <2>1, <2>4, ActiveFacts
    <3>2. out = Sequential[it[1]] /\ out' = Sequential[it[1] + 1]
      <4>1. tpc[1] = "item" /\ tpc'[1] = "count"
        BY <1>7, <3>1 DEF TaskItem, Inv, TypeOK
      <4> QED BY <2>2, <3>1, <4>1 DEF Inv, ResultInv, Seen
    <3>3. it[1] \in 0..total /\ it[1] + 1 \in it[1]..total
      <4>1. /\ it[1] \in Nat /\ last[1] \in Nat /\ total \in 0..N
            /\ it[1] <= last[1] /\ last[1] <= total
        BY <2>1, <3>1, ActiveFacts
      <4>2. it[1] # last[1]
        BY <1>7, <3>1 DEF TaskItem
      <4> QED BY <4>1, <4>2, BoundsAssumption
    <3> QED BY <1>7, <2>2, <3>1, <3>2, <3>3, OutAdvances DEF Running
  <2> QED BY <2>3, <2>4
<1>8. ASSUME NEW w \in 1..T, Running, TaskError(w)
      PROVE  [Ordered!Next]_Ordered!vars
  <2>1. Active(w)
    BY <1>8 DEF TaskError, Active
  <2>2. pc # "done"
    BY <2>1, ActiveFacts
  <2>3. Status = "running" /\ Status' = "exited"
    BY <1>8, <2>2 DEF Status, Running, TaskError
  <2> QED BY <1>8, <2>3 DEF TaskError, Ordered!Next, Ordered!Exit
<1> QED BY <1>1, <1>2, <1>3, <1>4, <1>5, <1>6, <1>7, <1>8
        DEF Next, Main, TaskThread, Stop

\* The pool implements the ordered map, whatever the number of threads.
THEOREM PoolImplementsOrderedMap == Spec => Refinement
<1>1. Init => Ordered!Init
  BY DEF Init, Ordered!Init, Status
<1>2. Inv /\ Inv' /\ [Next]_vars => [Ordered!Next]_Ordered!vars
  BY StepRefines
<1> QED BY <1>1, <1>2, Invariance, PTL DEF Spec, Refinement, Ordered!Spec

===============================================================================
