----------------------------- MODULE MutantRunner -----------------------------
(***************************************************************************)
(* MutantRunner::runMutants and MutantExecutionTask: a warm-up run, the    *)
(* baseline run whose duration sets the timeout of all others, then one    *)
(* run per covered mutant.  A run is a call of Runner::runProgram and has  *)
(* one of the results RunOutcome names.  The worker pool is module         *)
(* TaskExecutor: it puts the result of each mutant in its place, so here   *)
(* the mutants are simply executed in any order.                           *)
(***************************************************************************)
EXTENDS RunOutcome

CONSTANTS
  Programs,   \* what a run, with or without a mutant enabled, can execute
  Timeout,    \* configuration.timeout, in milliseconds
  Mutants     \* the mutants to run

ASSUME ProgramsAssumption ==
  /\ Programs \subseteq
       [work : {Hang} \cup (Nat \ {0}), output : Nat, exit : Nat]
  /\ Timeout \in Nat

VARIABLES
  original,  \* the program that runs when no mutant is enabled
  mutated,   \* the program that runs when a mutant is enabled
  covered,   \* Mutant::isCovered
  pc,        \* where runMutants is
  baseline,  \* the result of the baseline run
  results    \* mutationResults: status and running time per mutant

input == <<original, mutated, covered>>
vars  == <<input, pc, baseline, results>>

Nothing == Result("Invalid", 0)

Init ==
  /\ original \in Programs
  /\ mutated \in [Mutants -> Programs]
  /\ covered \in [Mutants -> BOOLEAN]
  /\ pc = "warmup"
  /\ baseline = Nothing
  /\ results = [m \in Mutants |-> Nothing]

\* The result of the warm-up run is dropped.
WarmUp ==
  /\ pc = "warmup"
  /\ Outcomes(original, Timeout) # {}
  /\ pc' = "baseline"
  /\ UNCHANGED <<input, baseline, results>>

\* The result of the baseline run is kept, whatever its status.
Baseline ==
  /\ pc = "baseline"
  /\ baseline' \in Outcomes(original, Timeout)
  /\ pc' = "mutants"
  /\ UNCHANGED <<input, results>>

\* Mutant of MutantTimeout: the duration of the baseline run itself.
MutantTimeoutTight == baseline.runningTime

MutantTimeout == baseline.runningTime * 10

\* Mutant of ExecuteMutant: mutants that are not covered are run as well.
ExecuteMutantAlways(m) ==
  /\ pc = "mutants"
  /\ results[m] = Nothing
  /\ \E r \in Outcomes(mutated[m], MutantTimeout) :
       results' = [results EXCEPT ![m] = r]
  /\ UNCHANGED <<input, pc, baseline>>

\* One round of the loop of a MutantExecutionTask.
ExecuteMutant(m) ==
  /\ pc = "mutants"
  /\ results[m] = Nothing
  /\ \/ /\ covered[m]
        /\ \E r \in Outcomes(mutated[m], MutantTimeout) :
             results' = [results EXCEPT ![m] = r]
     \/ /\ ~covered[m]
        /\ results' = [results EXCEPT ![m] = Result("NotCovered", 0)]
  /\ UNCHANGED <<input, pc, baseline>>

\* Mutant of Return: the results are returned while tasks are still running.
ReturnEarly ==
  /\ pc = "mutants"
  /\ pc' = "done"
  /\ UNCHANGED <<input, baseline, results>>

\* The pool is done: every mutant has its result.
Return ==
  /\ pc = "mutants"
  /\ \A m \in Mutants : results[m] # Nothing
  /\ pc' = "done"
  /\ UNCHANGED <<input, baseline, results>>

Stop == pc = "done" /\ UNCHANGED vars

Next == \/ WarmUp \/ Baseline \/ Return \/ Stop
        \/ \E m \in Mutants : ExecuteMutant(m)

\* Every run ends (property Returns of module Runner).
Fairness == WF_vars(Next)

Spec == Init /\ [][Next]_vars /\ Fairness

-------------------------------------------------------------------------------
TypeOK ==
  /\ original \in Programs /\ mutated \in [Mutants -> Programs]
  /\ covered \in [Mutants -> BOOLEAN]
  /\ pc \in {"warmup", "baseline", "mutants", "done"}
  /\ baseline \in [status : Status, runningTime : Nat]
  /\ results \in [Mutants -> [status : Status, runningTime : Nat]]

Killed(m) == results[m].status \in {"Failed", "Timedout"}

\* The suite is good for mutation testing: it passed the baseline run, which
\* took long enough to be measured, and the machine does not slow a run down
\* by a factor of five.
Healthy == /\ baseline.status = "Passed"
           /\ baseline.runningTime >= 1
           /\ original.work + MaxStall < 5 * original.work

(***************************************************************************)
(* With a healthy suite, a mutant under which the program behaves as the   *)
(* original one survives.  The factor of ten in the timeout has to make up *)
(* both for a slower run and for what duration_cast cut off the baseline.  *)
(***************************************************************************)
EquivalentSurvives ==
  \A m \in Mutants :
    Healthy /\ covered[m] /\ mutated[m] = original /\ results[m] # Nothing
      => results[m].status = "Passed"

(***************************************************************************)
(* A covered mutant that is reported as survived did end with exit code 0, *)
(* and a mutant that hangs is killed: never skipped, never a survivor.     *)
(***************************************************************************)
SurvivorsPass ==
  \A m \in Mutants :
    /\ results[m].status = "Passed" => covered[m] /\ mutated[m].exit = 0
    /\ covered[m] /\ mutated[m].work = Hang /\ results[m] # Nothing => Killed(m)

(***************************************************************************)
(* Every mutant gets a result and keeps it.                                *)
(***************************************************************************)
AllReported == <>[](\A m \in Mutants : results[m].status # "Invalid")

(***************************************************************************)
(* docs/MutationTestingIntro.rst: "A mutant is killed if at least one of   *)
(* the tests starts failing": a program that behaves as the original one   *)
(* has not started to fail.                                                *)
(***************************************************************************)
KilledStartsFailing ==
  \A m \in Mutants : Killed(m) => mutated[m] # original

(***************************************************************************)
(* docs/tutorials/SQLiteReport.rst: Timedout is "test execution took more  *)
(* time than expected": longer than the original program, to say the least.*)
(***************************************************************************)
TimedoutIsSlower ==
  \A m \in Mutants :
    results[m].status = "Timedout" /\ CanEnd(mutated[m]) /\ CanEnd(original)
      => mutated[m].work + MaxStall > original.work

===============================================================================
