----------------------------- MODULE TaskExecutor -----------------------------
(***************************************************************************)
(* mull::TaskExecutor<Task>::execute(): the fork/join pool every phase of  *)
(* Mull runs on (include/mull/Parallelization/TaskExecutor.h,              *)
(* lib/Parallelization/TaskExecutor.cpp and Progress.cpp).                 *)
(*                                                                         *)
(* The threads are main, up to T task threads and the progress reporter.   *)
(* The input is the items 1..total; the concrete task is abstracted to the *)
(* sequence Task[x] of results it pushes for item x (none, one or several) *)
(* and to the set Fatal of items for which it may call Diagnostics::error, *)
(* which ends the process.  Iterators are offsets 0..total: an iterator    *)
(* at offset p points at item p + 1.                                       *)
(***************************************************************************)
EXTENDS Integers, Sequences

CONSTANTS
  N,          \* the largest in.size() considered
  T,          \* the largest tasks.size() considered
  Value,      \* the results a task can push
  Task,       \* what the task pushes for each item
  Fatal,      \* items whose processing may end the process
  Sequential  \* Sequential[n]: the results of items 1..n, in input order

ASSUME BoundsAssumption == N \in Nat /\ T \in Nat

ASSUME TaskAssumption == /\ Task \in [1..N -> Seq(Value)]
                         /\ Fatal \subseteq 1..N

\* The reference result: what one thread walking the input would collect.
ASSUME SequentialAssumption ==
  /\ Sequential \in [0..N -> Seq(Value)]
  /\ Sequential[0] = << >>
  /\ \A n \in 1..N : Sequential[n] = Sequential[n - 1] \o Task[n]

VARIABLES
  total,     \* in.size(), fixed during a behaviour
  tasks,     \* tasks.size(), fixed during a behaviour
  process,   \* "running", or "exited" after Diagnostics::error
  pc,        \* where main is in execute()
  i,         \* main's loop index: threads spawned, joined or storages merged
  end,       \* main's iterator `end` of the spawn loop
  cap,       \* capacity of the vectors `storages` and `counters`
  block,     \* which allocation holds their elements
  storages,  \* the elements of `storages`
  counters,  \* the elements of `counters`
  out,       \* the caller's output vector
  tpc,       \* where each task thread is
  begin,     \* the arguments each task thread was given: first ...
  last,      \* ... and past-the-end iterator, ...
  ref,       \* ... and the allocation its two references point into
  it,        \* each task thread's own iterator
  rpc,       \* where the reporter is
  ridx,      \* counters the reporter has added in this round
  current,   \* the reporter's running sum
  previous   \* previousValue: the progress last printed

mainVars   == <<process, pc, i, end, cap, block>>
threadArgs == <<begin, last, ref>>
reporter   == <<rpc, ridx, current, previous>>
vars == <<total, tasks, mainVars, storages, counters, out, tpc, threadArgs, it,
          reporter>>

-------------------------------------------------------------------------------
\* std::min(in.size(), tasks.size()).
Workers == IF total < tasks THEN total ELSE tasks

Sequentially == tasks = 1 \/ total = 1

\* taskBatches(n, m)[k], k counted from 0: q, and one more if r != 0.
TaskBatch(n, m, k) == (n - k) \div m + (IF (n - k) % m # 0 THEN 1 ELSE 0)

Init ==
  /\ total \in 0..N /\ tasks \in 0..T
  /\ process = "running" /\ pc = "execute"
  /\ i = 0 /\ end = 0 /\ cap = 0 /\ block = 0
  /\ storages = [w \in 1..T |-> << >>] /\ counters = [w \in 1..T |-> 0]
  /\ out = << >>
  /\ tpc = [w \in 1..T |-> "idle"]
  /\ begin = [w \in 1..T |-> 0] /\ last = [w \in 1..T |-> 0]
  /\ ref = [w \in 1..T |-> 0] /\ it = [w \in 1..T |-> 0]
  /\ rpc = "idle" /\ ridx = 0 /\ current = 0 /\ previous = 0

-------------------------------------------------------------------------------
(* main *)

\* Mutant of Execute: no early return for an empty input.
ExecuteEmpty ==
  /\ pc = "execute"
  /\ pc' = IF tasks = 0 THEN "done"
           ELSE IF Sequentially THEN "sequential" ELSE "reserve"
  /\ UNCHANGED <<total, tasks, process, i, end, cap, block, storages, counters,
                 out, tpc, threadArgs, it, reporter>>

Execute ==
  /\ pc = "execute"
  /\ pc' = IF tasks = 0 \/ total = 0 THEN "done"
           ELSE IF Sequentially THEN "sequential" ELSE "reserve"
  /\ UNCHANGED <<total, tasks, process, i, end, cap, block, storages, counters,
                 out, tpc, threadArgs, it, reporter>>

\* push_back on `storages` and `counters`, which hold i elements each: a full
\* vector moves its elements to a new, larger allocation.
PushBack ==
  IF i = cap THEN cap' = 2 * cap + 1 /\ block' = block + 1
             ELSE UNCHANGED <<cap, block>>

\* A task starts on [from, to) with references to the elements just pushed.
StartTask(w, from, to) ==
  /\ tpc' = [tpc EXCEPT ![w] = "item"]
  /\ begin' = [begin EXCEPT ![w] = from]
  /\ last' = [last EXCEPT ![w] = to]
  /\ it' = [it EXCEPT ![w] = from]
  /\ ref' = [ref EXCEPT ![w] = block']

\* executeSequentially up to the call of task(): one counter, the reporter
\* spawned, and main itself about to run the task on the whole input.
ExecuteSequentially ==
  /\ pc = "sequential"
  /\ PushBack
  /\ StartTask(1, 0, total)
  /\ rpc' = "read"
  /\ pc' = "task"
  /\ UNCHANGED <<total, tasks, process, i, end, storages, counters, out,
                 ridx, current, previous>>

\* executeSequentially after task() returns: reporter.join().
JoinReporter ==
  /\ pc = "task"
  /\ tpc[1] = "exit"
  /\ rpc = "exit"
  /\ pc' = "done"
  /\ UNCHANGED <<total, tasks, process, i, end, cap, block, storages, counters,
                 out, tpc, threadArgs, it, reporter>>

\* Mutant of Reserve: the capacity is left to grow.
ReserveNothing ==
  /\ pc = "reserve"
  /\ pc' = "spawn"
  /\ UNCHANGED <<total, tasks, process, i, end, cap, block, storages, counters,
                 out, tpc, threadArgs, it, reporter>>

\* executeInParallel up to its first loop: both vectors get their capacity.
Reserve ==
  /\ pc = "reserve"
  /\ cap' = Workers
  /\ pc' = "spawn"
  /\ UNCHANGED <<total, tasks, process, i, end, block, storages, counters, out,
                 tpc, threadArgs, it, reporter>>

\* Mutant of SpawnTask: `begin` is not moved to the end of the previous batch.
SpawnTaskFromFirst ==
  /\ pc = "spawn"
  /\ i < Workers
  /\ PushBack
  /\ end' = end + TaskBatch(total, Workers, i)
  /\ StartTask(i + 1, 0, end')
  /\ i' = i + 1
  /\ UNCHANGED <<total, tasks, process, pc, storages, counters, out, reporter>>

\* One round of the spawn loop.
SpawnTask ==
  /\ pc = "spawn"
  /\ i < Workers
  /\ PushBack
  /\ end' = end + TaskBatch(total, Workers, i)
  /\ StartTask(i + 1, end, end')
  /\ i' = i + 1
  /\ UNCHANGED <<total, tasks, process, pc, storages, counters, out, reporter>>

SpawnReporter ==
  /\ pc = "spawn"
  /\ i = Workers
  /\ rpc' = "read"
  /\ pc' = "join"
  /\ i' = 0
  /\ UNCHANGED <<total, tasks, process, end, cap, block, storages, counters, out,
                 tpc, threadArgs, it, ridx, current, previous>>

\* Mutant of Join: nothing is joined.
JoinNothing ==
  /\ pc = "join"
  /\ i' = 0 /\ pc' = "merge"
  /\ UNCHANGED <<total, tasks, process, end, cap, block, storages, counters, out,
                 tpc, threadArgs, it, reporter>>

\* `for (auto &t : threads) t.join();`: the tasks in order, then the reporter.
Join ==
  /\ pc = "join"
  /\ \/ i < Workers /\ tpc[i + 1] = "exit" /\ i' = i + 1 /\ UNCHANGED pc
     \/ i = Workers /\ rpc = "exit" /\ i' = 0 /\ pc' = "merge"
  /\ UNCHANGED <<total, tasks, process, end, cap, block, storages, counters, out,
                 tpc, threadArgs, it, reporter>>

\* One round of the loop that moves the storages into `out`, or its end.
Merge ==
  /\ pc = "merge"
  /\ \/ /\ i < Workers
        /\ out' = out \o storages[i + 1]
        /\ i' = i + 1
        /\ UNCHANGED pc
     \/ i = Workers /\ pc' = "done" /\ UNCHANGED <<i, out>>
  /\ UNCHANGED <<total, tasks, process, end, cap, block, storages, counters,
                 tpc, threadArgs, it, reporter>>

Main == \/ Execute \/ ExecuteSequentially \/ JoinReporter \/ Reserve
        \/ SpawnTask \/ SpawnReporter \/ Join \/ Merge

-------------------------------------------------------------------------------
(* The task threads; thread 1 is main itself when Sequentially holds. *)

\* storage.push_back for each result: `storage` is the caller's `out` when the
\* task runs on main, the thread's own storage otherwise.
Push(w, results) ==
  IF Sequentially
  THEN out' = out \o results /\ UNCHANGED storages
  ELSE storages' = [storages EXCEPT ![w] = @ \o results] /\ UNCHANGED out

\* The body of the task's loop for the item at `it`.
TaskItem(w) ==
  /\ tpc[w] = "item"
  /\ it[w] # last[w]
  /\ Push(w, Task[it[w] + 1])
  /\ tpc' = [tpc EXCEPT ![w] = "count"]
  /\ UNCHANGED <<total, tasks, mainVars, counters, threadArgs, it, reporter>>

\* `++it, counter.increment()`.
TaskCount(w) ==
  /\ tpc[w] = "count"
  /\ it' = [it EXCEPT ![w] = @ + 1]
  /\ counters' = [counters EXCEPT ![w] = @ + 1]
  /\ tpc' = [tpc EXCEPT ![w] = "item"]
  /\ UNCHANGED <<total, tasks, mainVars, storages, out, threadArgs, reporter>>

\* Mutant of TaskReturn: the task clears its counter when it ends.
TaskReturnClears(w) ==
  /\ tpc[w] = "item"
  /\ it[w] = last[w]
  /\ tpc' = [tpc EXCEPT ![w] = "exit"]
  /\ counters' = [counters EXCEPT ![w] = 0]
  /\ UNCHANGED <<total, tasks, mainVars, storages, out, threadArgs, it, reporter>>

\* `it != end` is false: the task returns and its thread ends.
TaskReturn(w) ==
  /\ tpc[w] = "item"
  /\ it[w] = last[w]
  /\ tpc' = [tpc EXCEPT ![w] = "exit"]
  /\ UNCHANGED <<total, tasks, mainVars, storages, counters, out, threadArgs, it,
                 reporter>>

\* The body of the loop calls Diagnostics::error, which calls exit(1).
TaskError(w) ==
  /\ tpc[w] = "item"
  /\ it[w] # last[w]
  /\ it[w] + 1 \in Fatal
  /\ process' = "exited"
  /\ UNCHANGED <<total, tasks, pc, i, end, cap, block, storages, counters, out,
                 tpc, threadArgs, it, reporter>>

TaskThread(w) == TaskItem(w) \/ TaskCount(w) \/ TaskReturn(w) \/ TaskError(w)

-------------------------------------------------------------------------------
(* progress_reporter *)

\* `current += counter.get()`: one atomic load.
ReadCounter ==
  /\ rpc = "read"
  /\ ridx < Workers
  /\ current' = current + counters[ridx + 1]
  /\ ridx' = ridx + 1
  /\ UNCHANGED <<total, tasks, mainVars, storages, counters, out, tpc, threadArgs,
                 it, rpc, previous>>

\* Mutant of PrintProgress: the sum is carried over to the next round.
PrintProgressCarry ==
  /\ rpc = "read"
  /\ ridx = Workers
  /\ previous' = IF current = 0 THEN previous ELSE current
  /\ rpc' = IF current # 0 /\ current = total THEN "exit" ELSE "read"
  /\ ridx' = 0
  /\ UNCHANGED <<total, tasks, mainVars, storages, counters, out, tpc, threadArgs,
                 it, current>>

\* Mutant of PrintProgress: the loop is left when nothing changed in a round.
PrintProgressStalled ==
  /\ rpc = "read"
  /\ ridx = Workers
  /\ previous' = IF current = 0 THEN previous ELSE current
  /\ rpc' = IF current # 0 /\ current = previous THEN "exit" ELSE "read"
  /\ ridx' = 0
  /\ current' = 0
  /\ UNCHANGED <<total, tasks, mainVars, storages, counters, out, tpc, threadArgs,
                 it>>

\* The rest of a round: nothing to show yet, or printProgress and perhaps break.
PrintProgress ==
  /\ rpc = "read"
  /\ ridx = Workers
  /\ previous' = IF current = 0 THEN previous ELSE current
  /\ rpc' = IF current # 0 /\ current = total THEN "exit" ELSE "read"
  /\ ridx' = 0
  /\ current' = 0
  /\ UNCHANGED <<total, tasks, mainVars, storages, counters, out, tpc, threadArgs,
                 it>>

Reporter == ReadCounter \/ PrintProgress

-------------------------------------------------------------------------------
Running == process = "running"

Finished == pc = "done" \/ process = "exited"

\* execute() has returned, or the process is gone.
Stop == Finished /\ UNCHANGED vars

Next == \/ Running /\ (Main \/ Reporter \/ \E w \in 1..T : TaskThread(w))
        \/ Stop

\* The operating system runs every thread that can run, and a task never stays
\* in the body of its loop for ever.
Fairness == /\ WF_vars(Running /\ Main)
            /\ WF_vars(Running /\ Reporter)
            /\ \A w \in 1..T : WF_vars(Running /\ TaskThread(w))

Spec == Init /\ [][Next]_vars /\ Fairness

-------------------------------------------------------------------------------
TypeOK ==
  /\ total \in 0..N /\ tasks \in 0..T
  /\ process \in {"running", "exited"}
  /\ pc \in {"execute", "sequential", "task", "reserve", "spawn", "join", "merge",
             "done"}
  /\ i \in 0..T /\ end \in 0..N /\ cap \in Nat /\ block \in Nat
  /\ storages \in [1..T -> Seq(Value)] /\ counters \in [1..T -> 0..N]
  /\ out \in Seq(Value)
  /\ tpc \in [1..T -> {"idle", "item", "count", "exit"}]
  /\ begin \in [1..T -> 0..N] /\ last \in [1..T -> 0..N]
  /\ it \in [1..T -> 0..N] /\ ref \in [1..T -> Nat]
  /\ rpc \in {"idle", "read", "exit"}
  /\ ridx \in 0..T /\ current \in 0..N /\ previous \in 0..N

Active(w) == tpc[w] \in {"item", "count"}

(***************************************************************************)
(* Whatever the interleaving and the number of tasks, execute() leaves in  *)
(* `out` exactly what one thread walking the input would have put there,   *)
(* in input order.  Dedup, reports and the ids of the SQLite report rely   *)
(* on that order.  (With no task at all the input is silently dropped.)    *)
(***************************************************************************)
OrderPreserved ==
  pc = "done" => out = Sequential[IF tasks = 0 THEN 0 ELSE total]

(***************************************************************************)
(* No two running tasks are ever given the same item, nor one outside the  *)
(* input: tasks modify their items in place without locking.               *)
(***************************************************************************)
ItemsExclusive ==
  \A v, w \in 1..T :
    Active(v) /\ Active(w) /\ v # w
      => /\ last[v] <= total
         /\ last[v] <= begin[w] \/ last[w] <= begin[v]

(***************************************************************************)
(* While a task runs, the references it holds to its storage and counter   *)
(* point into the vectors' present allocation: the push_backs of later     *)
(* rounds of the spawn loop must not reallocate.                           *)
(***************************************************************************)
ReferencesValid == \A w \in 1..T : Active(w) => ref[w] = block

(***************************************************************************)
(* The reporter, reading the counters one by one while tasks advance,      *)
(* never computes more than the total: `barWidth - starsCount`, unsigned,  *)
(* would wrap, and it would wait for ever for an exact match.              *)
(***************************************************************************)
ProgressWithinTotal == current <= total /\ previous <= total

(***************************************************************************)
(* The reporter stops only once every item has really been processed.      *)
(***************************************************************************)
ReporterStopsLast ==
  rpc = "exit" =>
    \A w \in 1..Workers : it[w] = last[w] /\ tpc[w] \in {"item", "exit"}

(***************************************************************************)
(* The progress shown never goes back, although each round adds counters   *)
(* that are changing under it.                                             *)
(***************************************************************************)
ProgressMonotone == [][previous' >= previous]_previous

(***************************************************************************)
(* execute() returns, unless a task ended the process: in particular the   *)
(* reporter, which is joined, always sees the exact total.                 *)
(***************************************************************************)
Termination == <>Finished

Status == IF process = "exited" THEN "exited"
          ELSE IF pc = "done" THEN "done" ELSE "running"

Ordered == INSTANCE OrderedMap WITH status <- Status

(***************************************************************************)
(* The pool implements an ordered map: `out`, the only thing the caller    *)
(* shares with it, changes and ends as OrderedMap says.                    *)
(***************************************************************************)
Refinement == Ordered!Spec

===============================================================================
