-------------------------------- MODULE Runner --------------------------------
(***************************************************************************)
(* One call of Runner::runProgram (lib/Toolchain/Runner.cpp): the runner,  *)
(* the child process it starts, the pipe between them and the clock.       *)
(* Processes, pipes and the reproc library (start, wait with a timeout,    *)
(* kill, drain) are external and modelled from the way the code uses them: *)
(* drain reads until every writer of the pipe has closed it, and kill ends *)
(* the child only, not a process the child has started.                    *)
(***************************************************************************)
EXTENDS RunOutcome

CONSTANTS
  Programs,   \* work, output, exit, and what becomes of a process the child
              \* starts, which inherits the pipe: daemon = "none", "ends" or
              \* "stays"
  Timeouts,   \* timeouts runProgram is called with, in milliseconds
  MaxTime     \* the clock stops counting here, after the last deadline

ASSUME RunnerAssumption ==
  /\ Programs \subseteq [work : {Hang} \cup Nat, output : Nat, exit : Nat,
                          daemon : {"none", "ends", "stays"}]
  /\ Timeouts \subseteq Nat
  /\ MaxTime \in Nat /\ \A t \in Timeouts : Deadline(t) <= MaxTime

VARIABLES
  prog, timeout, captureOutput,  \* the arguments of the call
  process,        \* "running", or "exited" after Diagnostics::error
  pc,             \* where the runner is
  status,         \* executionStatus
  captured,       \* what drain has put into the result
  runningTime,    \* result.runningTime
  now,            \* the clock, in ticks since `start`
  child,          \* the child process
  left,           \* ticks of work the child still has to do
  written,        \* how much the child has written
  stall,          \* ticks for which the child was held up
  daemon,         \* a process started by the child has the pipe open
  pipe            \* what is in the pipe

call  == <<prog, timeout, captureOutput>>
timer == <<now, stall, left>>
vars  == <<call, process, pc, status, captured, runningTime, timer, child, written,
           daemon, pipe>>

Init ==
  /\ prog \in Programs /\ timeout \in Timeouts /\ captureOutput \in BOOLEAN
  /\ process = "running" /\ pc = "start"
  /\ status = "Invalid" /\ captured = 0 /\ runningTime = 0
  /\ now = 0 /\ stall = 0 /\ left = prog.work
  /\ child = "none" /\ written = 0 /\ daemon = FALSE /\ pipe = 0

-------------------------------------------------------------------------------
(* The runner *)

Start ==
  /\ pc = "start"
  /\ child' = "running"
  /\ daemon' = (prog.daemon # "none")
  /\ pc' = "wait"
  /\ UNCHANGED <<call, process, status, captured, runningTime, timer, written,
                 pipe>>

\* process.start fails, for want of the executable or otherwise: either way
\* the call ends in Diagnostics::error.
StartError ==
  /\ pc = "start"
  /\ process' = "exited"
  /\ UNCHANGED <<call, pc, status, captured, runningTime, timer, child, written,
                 daemon, pipe>>

\* process.wait returns the child's exit status.
WaitReturns ==
  /\ pc = "wait"
  /\ child = "exited"
  /\ status' = ExitStatus(prog)
  /\ pc' = "drain"
  /\ UNCHANGED <<call, process, captured, runningTime, timer, child, written,
                 daemon, pipe>>

\* process.wait returns timed_out.
WaitTimesOut ==
  /\ pc = "wait"
  /\ child = "running"
  /\ now >= Deadline(timeout)
  /\ pc' = "kill"
  /\ UNCHANGED <<call, process, status, captured, runningTime, timer, child, written,
                 daemon, pipe>>

\* Mutant of Kill: the child is left running.
KillNothing ==
  /\ pc = "kill"
  /\ status' = "Timedout"
  /\ pc' = "drain"
  /\ UNCHANGED <<call, process, captured, runningTime, timer, child, written,
                 daemon, pipe>>

\* Mutant of Kill: executionStatus keeps its initial value.
KillFailed ==
  /\ pc = "kill"
  /\ child' = IF child = "running" THEN "killed" ELSE child
  /\ status' = "Failed"
  /\ pc' = "drain"
  /\ UNCHANGED <<call, process, captured, runningTime, timer, written, daemon, pipe>>

\* process.kill(); the child may have ended by itself since wait() gave up.
Kill ==
  /\ pc = "kill"
  /\ child' = IF child = "running" THEN "killed" ELSE child
  /\ status' = "Timedout"
  /\ pc' = "drain"
  /\ UNCHANGED <<call, process, captured, runningTime, timer, written, daemon, pipe>>

\* drainProcess: read what there is, into a string or into nothing ...
DrainRead ==
  /\ pc = "drain"
  /\ pipe > 0
  /\ pipe' = pipe - 1
  /\ captured' = IF captureOutput THEN captured + 1 ELSE captured
  /\ UNCHANGED <<call, process, pc, status, runningTime, timer, child, written,
                 daemon>>

EndOfFile == pipe = 0 /\ child # "running" /\ ~daemon

\* Mutant of DrainEnds: drain does not wait for the end of the stream.
DrainEndsEarly ==
  /\ pc = "drain"
  /\ child # "running"
  /\ runningTime' = Milliseconds(now)
  /\ pc' = "done"
  /\ UNCHANGED <<call, process, status, captured, timer, child, written, daemon,
                 pipe>>

\* ... until the end of the stream; then the result is put together.
DrainEnds ==
  /\ pc = "drain"
  /\ EndOfFile
  /\ runningTime' = Milliseconds(now)
  /\ pc' = "done"
  /\ UNCHANGED <<call, process, status, captured, timer, child, written, daemon,
                 pipe>>

RunProgram == \/ Start \/ StartError \/ WaitReturns \/ WaitTimesOut \/ Kill
              \/ DrainRead \/ DrainEnds

-------------------------------------------------------------------------------
(* The child process and the clock *)

Blocked == written < prog.output /\ pipe = PipeCapacity

ChildWrites ==
  /\ child = "running"
  /\ written < prog.output
  /\ pipe < PipeCapacity
  /\ written' = written + 1
  /\ pipe' = pipe + 1
  /\ UNCHANGED <<call, process, pc, status, captured, runningTime, timer, child,
                 daemon>>

ChildExits ==
  /\ child = "running"
  /\ left = 0
  /\ written = prog.output
  /\ child' = "exited"
  /\ UNCHANGED <<call, process, pc, status, captured, runningTime, timer, written,
                 daemon, pipe>>

DaemonExits ==
  /\ daemon
  /\ prog.daemon = "ends"
  /\ daemon' = FALSE
  /\ UNCHANGED <<call, process, pc, status, captured, runningTime, timer, child,
                 written, pipe>>

\* A tick of the clock: the child works, or is held up.  Nobody who can act at
\* once lets the clock go on.
Tick ==
  /\ \/ pc = "wait" /\ child = "running" /\ now < Deadline(timeout)
     \/ pc = "drain" /\ pipe = 0 /\ ~EndOfFile
  /\ child = "running" => left # 0 \/ Blocked
  /\ now' = IF now < MaxTime THEN now + 1 ELSE now
  /\ \/ /\ child = "running" /\ left > 0
        /\ \/ left' = left - 1 /\ UNCHANGED stall
           \/ stall < MaxStall /\ stall' = stall + 1 /\ UNCHANGED left
     \/ ~(child = "running" /\ left > 0) /\ UNCHANGED <<left, stall>>
  /\ UNCHANGED <<call, process, pc, status, captured, runningTime, child, written,
                 daemon, pipe>>

Environment == ChildWrites \/ ChildExits \/ DaemonExits \/ Tick

-------------------------------------------------------------------------------
Running == process = "running"

Finished == pc = "done" \/ process = "exited"

Stop == Finished /\ UNCHANGED vars

Next == \/ Running /\ (RunProgram \/ Environment)
        \/ Stop

\* The runner, the child and the clock all go on when they can, and a process
\* that will end does so.
Fairness == /\ WF_vars(Running /\ RunProgram)
            /\ WF_vars(Running /\ (ChildWrites \/ ChildExits))
            /\ WF_vars(Running /\ DaemonExits)
            /\ WF_vars(Running /\ Tick)

Spec == Init /\ [][Next]_vars /\ Fairness

-------------------------------------------------------------------------------
TypeOK ==
  /\ prog \in Programs /\ timeout \in Timeouts /\ captureOutput \in BOOLEAN
  /\ process \in {"running", "exited"}
  /\ pc \in {"start", "wait", "kill", "drain", "done"}
  /\ status \in Status
  /\ captured \in 0..prog.output /\ runningTime \in 0..MaxTime
  /\ now \in 0..MaxTime /\ stall \in 0..MaxStall /\ left \in Hang..prog.work
  /\ child \in {"none", "running", "exited", "killed"}
  /\ written \in 0..prog.output /\ daemon \in BOOLEAN /\ pipe \in 0..PipeCapacity

(***************************************************************************)
(* Whatever the order of the child's steps, of the clock and of the        *)
(* runner's own calls, runProgram returns one of the results Outcomes      *)
(* names: in particular a child that ends between the timeout and the kill *)
(* stays Timedout, and runningTime is the duration the timeouts of later   *)
(* runs may be computed from.                                              *)
(***************************************************************************)
OutcomeKnown ==
  pc = "done" /\ prog.daemon = "none" =>
    Result(status, runningTime) \in Outcomes(prog, timeout)

(***************************************************************************)
(* The output of a program that ended by itself is captured in full,       *)
(* although it is only read after the program is over.                     *)
(***************************************************************************)
OutputComplete ==
  pc = "done" /\ status # "Timedout" /\ captureOutput => captured = prog.output

(***************************************************************************)
(* runProgram returns (or the process ends): no program, hanging or        *)
(* blocked on its own output, holds Mull up for ever.                      *)
(***************************************************************************)
Returns == <>Finished

(***************************************************************************)
(* docs/tutorials/SQLiteReport.rst describes Timedout as "test execution   *)
(* took more time than expected": the program needed at least the timeout. *)
(***************************************************************************)
TimedoutMeansSlow ==
  pc = "done" /\ status = "Timedout" =>
    prog.work = Hang \/ prog.work + MaxStall >= Deadline(timeout)

===============================================================================
