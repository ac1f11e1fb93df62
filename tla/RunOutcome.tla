------------------------------ MODULE RunOutcome ------------------------------
(***************************************************************************)
(* What one call of Runner::runProgram can return, as a function of the    *)
(* program and of the timeout.  Runner is the call step by step and is     *)
(* checked against this module; MutantRunner, which makes many calls, uses *)
(* it.                                                                     *)
(*                                                                         *)
(* A program is a record: the ticks of work it needs (Hang if it never     *)
(* ends by itself), how much it prints before it ends, and its exit code.  *)
(* The machine may hold a run up for at most MaxStall ticks.               *)
(***************************************************************************)
EXTENDS Integers

CONSTANTS
  TicksPerMs,    \* clock ticks per millisecond, the unit of timeouts
  PipeCapacity,  \* what a pipe holds before its writer blocks
  MaxStall       \* how long a run can be held up by the machine, in ticks

ASSUME RunAssumption == /\ TicksPerMs \in Nat \ {0}
                        /\ PipeCapacity \in Nat
                        /\ MaxStall \in Nat

Hang == -1

Status == {"Invalid", "Failed", "Passed", "Timedout", "DryRun", "NotCovered"}

\* ExecutionResult; the captured output is left to module Runner.
Result(s, t) == [status |-> s, runningTime |-> t]

Deadline(timeout) == timeout * TicksPerMs

\* duration_cast<milliseconds>: the part of a millisecond is dropped.
Milliseconds(ticks) == ticks \div TicksPerMs

ExitStatus(p) == IF p.exit = 0 THEN "Passed" ELSE "Failed"

\* Nobody reads the pipes before wait() returns, so a program that prints more
\* than they hold cannot end.
CanEnd(p) == p.work # Hang /\ p.output <= PipeCapacity

Outcomes(p, timeout) ==
  {Result(ExitStatus(p), Milliseconds(d)) :
     d \in {t \in p.work..(p.work + MaxStall) : CanEnd(p) /\ t <= Deadline(timeout)}}
  \cup
  (IF CanEnd(p) /\ p.work + MaxStall < Deadline(timeout)
   THEN {} ELSE {Result("Timedout", timeout)})

===============================================================================
