-------------------------- MODULE MutantRunnerProofs --------------------------
(***************************************************************************)
(* Proofs about MutantRunner, for every test suite, set of mutants,        *)
(* timeout, clock and pipe.                                                *)
(***************************************************************************)
EXTENDS MutantRunner, TLAPS

\* Every result kept is one runProgram can return for the run it stands for.
OutcomeInv ==
  /\ pc \in {"warmup", "baseline"} => \A m \in Mutants : results[m] = Nothing
  /\ pc \notin {"warmup", "baseline"} => baseline \in Outcomes(original, Timeout)
  /\ \A m \in Mutants : results[m] # Nothing =>
       IF covered[m] THEN results[m] \in Outcomes(mutated[m], MutantTimeout)
                     ELSE results[m] = Result("NotCovered", 0)

Inv == TypeOK /\ OutcomeInv

\* The results of a run have a status and a duration in milliseconds.
LEMMA OutcomeType ==
  ASSUME NEW p \in Programs, NEW t \in Nat
  PROVE  Outcomes(p, t) \subseteq [status : Status, runningTime : Nat]
<1>1. SUFFICES ASSUME NEW r \in Outcomes(p, t)
               PROVE  r \in [status : Status, runningTime : Nat]
  OBVIOUS
<1>2. CASE r = Result("Timedout", t)
  BY <1>2 DEF Result, Status
<1>3. CASE r # Result("Timedout", t)
  <2>1. PICK d \in p.work..(p.work + MaxStall) :
          r = Result(ExitStatus(p), Milliseconds(d)) /\ CanEnd(p)
    BY <1>1, <1>3 DEF Outcomes
  <2>2. p.work \in Nat
    BY <2>1, ProgramsAssumption DEF CanEnd
  <2>3. d \in Nat
    BY <2>1, <2>2
  <2>4. Milliseconds(d) \in Nat
    BY <2>3, RunAssumption DEF Milliseconds
  <2>5. ExitStatus(p) \in Status
    BY DEF ExitStatus, Status
  <2> QED BY <2>1, <2>4, <2>5 DEF Result
<1> QED BY <1>2, <1>3

\* The invariant holds before the warm-up run.
LEMMA InvInit == Init => Inv
  BY DEF Init, Inv, TypeOK, OutcomeInv, Nothing, Result, Status

\* Every run, and every result stored, keeps the invariant.
LEMMA InvNext == Inv /\ [Next]_vars => Inv'
<1> SUFFICES ASSUME Inv, [Next]_vars PROVE Inv'
  OBVIOUS
<1>1. TypeOK /\ OutcomeInv
  BY DEF Inv
<1>2. CASE WarmUp
  BY <1>1, <1>2 DEF WarmUp, input, Inv, TypeOK, OutcomeInv, MutantTimeout
<1>3. CASE Baseline
  <2>1. baseline' \in [status : Status, runningTime : Nat]
    BY <1>1, <1>3, OutcomeType, ProgramsAssumption DEF Baseline, TypeOK
  <2> QED BY <1>1, <1>3, <2>1 DEF Baseline, input, Inv, TypeOK, OutcomeInv
<1>4. CASE Return
  BY <1>1, <1>4 DEF Return, input, Inv, TypeOK, OutcomeInv, MutantTimeout
<1>5. ASSUME NEW m \in Mutants, ExecuteMutant(m)
      PROVE  Inv'
  <2>1. UNCHANGED <<original, mutated, covered, pc, baseline>> /\ pc = "mutants"
    BY <1>5 DEF ExecuteMutant, input
  <2>2. MutantTimeout' = MutantTimeout /\ MutantTimeout \in Nat
    BY <1>1, <2>1 DEF MutantTimeout, TypeOK
  <2>3. PICK r : /\ results' = [results EXCEPT ![m] = r]
                 /\ IF covered[m] THEN r \in Outcomes(mutated[m], MutantTimeout)
                                  ELSE r = Result("NotCovered", 0)
    BY <1>5 DEF ExecuteMutant
  <2>4. r \in [status : Status, runningTime : Nat]
    <3>1. CASE covered[m]
      BY <1>1, <2>2, <2>3, <3>1, OutcomeType DEF TypeOK
    <3>2. CASE ~covered[m]
      BY <2>3, <3>2 DEF Result, Status
    <3> QED BY <3>1, <3>2
  <2>5. TypeOK'
    BY <1>1, <2>1, <2>3, <2>4 DEF TypeOK
  <2>6. OutcomeInv'
    <3>1. ASSUME NEW n \in Mutants, results'[n] # Nothing
          PROVE  IF covered[n] THEN results'[n] \in Outcomes(mutated[n], MutantTimeout)
                               ELSE results'[n] = Result("NotCovered", 0)
      <4>1. CASE n = m
        BY <1>1, <2>3, <4>1 DEF TypeOK
      <4>2. CASE n # m
        BY <1>1, <2>3, <3>1, <4>2 DEF TypeOK, OutcomeInv
      <4> QED BY <4>1, <4>2
    <3> QED BY <1>1, <2>1, <2>2, <3>1 DEF OutcomeInv, Nothing
  <2> QED BY <2>5, <2>6 DEF Inv
<1>6. CASE UNCHANGED vars
  BY <1>1, <1>6 DEF vars, input, Inv, TypeOK, OutcomeInv, MutantTimeout
<1> QED BY <1>2, <1>3, <1>4, <1>5, <1>6 DEF Next, Stop

\* The invariant holds throughout runMutants.
THEOREM Invariance == Spec => []Inv
  BY InvInit, InvNext, PTL DEF Spec

\* The results of runMutants are always of their type.
THEOREM TypeCorrect == Spec => []TypeOK
<1>1. Inv => TypeOK BY DEF Inv
<1> QED BY <1>1, Invariance, PTL

\* Ten times what is left of a duration after truncation to milliseconds is
\* more than five times the duration, if anything is left of it.
LEMMA TenTimesTruncated ==
  ASSUME NEW d \in Nat, Milliseconds(d) >= 1
  PROVE  5 * d < Deadline(Milliseconds(d) * 10)
<1> DEFINE q == d \div TicksPerMs
           r == d % TicksPerMs
<1>1. TicksPerMs \in Nat \ {0}
  BY RunAssumption
<1>2. q \in Int /\ r \in 0..(TicksPerMs - 1) /\ d = q * TicksPerMs + r
  BY <1>1
<1>3. q >= 1
  BY DEF Milliseconds
<1> HIDE DEF q, r
<1>4. q * TicksPerMs >= TicksPerMs /\ q * TicksPerMs \in Int
  BY <1>1, <1>2, <1>3
<1>5. d < 2 * (q * TicksPerMs)
  BY <1>1, <1>2, <1>4
<1>6. (q * 10) * TicksPerMs = 10 * (q * TicksPerMs)
  BY <1>1, <1>2
<1> QED BY <1>4, <1>5, <1>6 DEF Deadline, Milliseconds, q

\* A mutant that changes nothing survives a healthy suite, whatever the suite,
\* the clock and the delays.
THEOREM EquivalentMutantsSurvive == Spec => []EquivalentSurvives
<1>1. ASSUME Inv PROVE EquivalentSurvives
  <2>1. SUFFICES ASSUME NEW m \in Mutants, Healthy, covered[m],
                        mutated[m] = original, results[m] # Nothing
                 PROVE  results[m].status = "Passed"
    BY DEF EquivalentSurvives
  <2>2. TypeOK /\ OutcomeInv
    BY <1>1 DEF Inv
  <2>3. baseline \in Outcomes(original, Timeout)
    BY <2>1, <2>2 DEF OutcomeInv, TypeOK
  <2>4. results[m] \in Outcomes(original, MutantTimeout)
    BY <2>1, <2>2 DEF OutcomeInv
  <2>5. baseline # Result("Timedout", Timeout)
    BY <2>1 DEF Healthy, Result
  <2>6. PICK d \in original.work..(original.work + MaxStall) :
          baseline = Result(ExitStatus(original), Milliseconds(d)) /\ CanEnd(original)
    BY <2>3, <2>5 DEF Outcomes
  <2>7. original.work \in Nat
    BY <2>2, <2>6, ProgramsAssumption DEF CanEnd, TypeOK
  <2>8. d \in Nat /\ original.work <= d
    BY <2>6, <2>7
  <2>9. Milliseconds(d) >= 1 /\ baseline.runningTime = Milliseconds(d)
    BY <2>1, <2>6 DEF Healthy, Result
  <2>10. 5 * d < Deadline(MutantTimeout)
    BY <2>8, <2>9, TenTimesTruncated DEF MutantTimeout
  <2>11. original.work + MaxStall < Deadline(MutantTimeout)
    <3>1. original.work + MaxStall < 5 * original.work
      BY <2>1 DEF Healthy
    <3>2. Deadline(MutantTimeout) \in Int
      BY <2>2, RunAssumption DEF Deadline, MutantTimeout, TypeOK
    <3> QED BY <2>7, <2>8, <2>10, <3>1, <3>2, RunAssumption
  <2>12. PICK e : results[m] = Result(ExitStatus(original), Milliseconds(e))
    BY <2>4, <2>6, <2>11 DEF Outcomes
  <2>13. ExitStatus(original) = "Passed"
    BY <2>1, <2>6 DEF Healthy, Result
  <2> QED BY <2>12, <2>13 DEF Result
<1> QED BY <1>1, Invariance, PTL

\* Survivors exited with 0 and hanging mutants are killed.
THEOREM SurvivorsArePassing == Spec => []SurvivorsPass
<1>1. ASSUME Inv PROVE SurvivorsPass
  <2>1. SUFFICES ASSUME NEW m \in Mutants
                 PROVE  /\ results[m].status = "Passed"
                             => covered[m] /\ mutated[m].exit = 0
                        /\ covered[m] /\ mutated[m].work = Hang
                             /\ results[m] # Nothing => Killed(m)
    BY DEF SurvivorsPass
  <2>2. results[m] # Nothing =>
          IF covered[m] THEN results[m] \in Outcomes(mutated[m], MutantTimeout)
                        ELSE results[m] = Result("NotCovered", 0)
    BY <1>1 DEF Inv, OutcomeInv
  <2>3. \A r \in Outcomes(mutated[m], MutantTimeout) :
          \/ r = Result("Timedout", MutantTimeout)
          \/ CanEnd(mutated[m]) /\ \E t : r = Result(ExitStatus(mutated[m]), t)
    BY DEF Outcomes
  <2>4. ASSUME results[m].status = "Passed"
        PROVE  covered[m] /\ mutated[m].exit = 0
    <3>1. results[m] # Nothing /\ covered[m]
      BY <2>2, <2>4 DEF Nothing, Result
    <3>2. PICK t : results[m] = Result(ExitStatus(mutated[m]), t)
      BY <2>2, <2>3, <2>4, <3>1 DEF Result
    <3>3. ExitStatus(mutated[m]) = "Passed"
      BY <2>4, <3>2 DEF Result
    <3> QED BY <3>1, <3>3 DEF ExitStatus
  <2>5. ASSUME covered[m], mutated[m].work = Hang, results[m] # Nothing
        PROVE  Killed(m)
    BY <2>2, <2>3, <2>5 DEF CanEnd, Killed, Result
  <2> QED BY <2>4, <2>5
<1> QED BY <1>1, Invariance, PTL

===============================================================================
