----------------------------- MODULE RunnerProofs -----------------------------
(***************************************************************************)
(* Proofs about Runner, for every program, timeout, clock resolution, pipe *)
(* and delay: the results runProgram returns are those of RunOutcome, and  *)
(* the output it returns is the whole output.                              *)
(***************************************************************************)
EXTENDS Runner, TLAPS

\* Nobody has read the pipe yet.
Unread == pc \in {"start", "wait", "kill"}

\* Whatever was written is in the pipe or was read, into the result if asked
\* for; a child that ended by itself has written everything and done its work.
OutputInv ==
  /\ Unread => pipe = written /\ captured = 0
  /\ captureOutput => captured + pipe = written
  /\ child = "exited" => left = 0 /\ written = prog.output

\* The child is there while runProgram waits, and over when it drains.
ChildInv ==
  /\ pc = "start" => child = "none"
  /\ pc \in {"wait", "kill"} => child \in {"running", "exited"}
  /\ pc \in {"drain", "done"} => child \in {"exited", "killed"}
  /\ prog.daemon = "none" => ~daemon

\* While runProgram waits, the clock shows what the child has worked and was
\* held up, unless the child is blocked or never ends; and no later time than
\* the deadline, which it shows exactly when wait gave up.
ClockInv ==
  /\ prog.work = Hang => left = Hang
  /\ prog.work # Hang => left >= 0
  /\ pc = "start" => now = 0 /\ stall = 0 /\ left = prog.work
  /\ Unread /\ CanEnd(prog) => now = prog.work - left + stall
  /\ Unread => now <= Deadline(timeout)
  /\ pc = "kill" => now = Deadline(timeout)

\* What runProgram is going to return once it drains.
ResultInv ==
  /\ pc \in {"drain", "done"} => status = "Timedout" \/ child = "exited"
  /\ pc \in {"drain", "done"} /\ prog.daemon = "none"
       => Result(status, Milliseconds(now)) \in Outcomes(prog, timeout)
  /\ pc = "done" => runningTime = Milliseconds(now) /\ pipe = 0

Inv == TypeOK /\ OutputInv /\ ChildInv /\ ClockInv /\ ResultInv

-------------------------------------------------------------------------------
(* The clock and milliseconds *)

\* The arguments of the call.
LEMMA CallType ==
  ASSUME TypeOK
  PROVE  /\ prog.work \in {Hang} \cup Nat /\ prog.output \in Nat
         /\ prog.daemon \in {"none", "ends", "stays"}
         /\ timeout \in Nat /\ Deadline(timeout) \in Nat /\ Deadline(timeout) <= MaxTime
<1>1. Deadline(timeout) \in Nat
  BY RunnerAssumption, RunAssumption DEF TypeOK, Deadline
<1> QED BY <1>1, RunnerAssumption DEF TypeOK

\* duration_cast of a point in time is a number of milliseconds no greater.
LEMMA MillisecondsType ==
  ASSUME NEW t \in Nat
  PROVE  Milliseconds(t) \in 0..t
<1> DEFINE q == t \div TicksPerMs
           r == t % TicksPerMs
<1>1. TicksPerMs \in Nat \ {0}
  BY RunAssumption
<1>2. q \in Int /\ r \in 0..(TicksPerMs - 1) /\ t = TicksPerMs * q + r
  BY <1>1
<1> HIDE DEF q, r
<1>3. q >= 0
  <2>1. ASSUME q <= -1 PROVE FALSE
    <3>1. TicksPerMs * q <= -TicksPerMs /\ TicksPerMs * q \in Int
      BY <1>1, <1>2, <2>1
    <3> QED BY <1>1, <1>2, <3>1
  <2> QED BY <1>2, <2>1
<1>4. TicksPerMs * q >= q /\ TicksPerMs * q \in Int
  BY <1>1, <1>2, <1>3
<1>5. q \in 0..t
  BY <1>1, <1>2, <1>3, <1>4
<1> QED BY <1>5 DEF Milliseconds, q

\* At the deadline the clock shows the timeout, to the millisecond.
LEMMA MillisecondsOfDeadline ==
  ASSUME NEW t \in Nat
  PROVE  Milliseconds(Deadline(t)) = t
<1> DEFINE d == t * TicksPerMs
           q == d \div TicksPerMs
           r == d % TicksPerMs
<1>1. TicksPerMs \in Nat \ {0} /\ d \in Nat
  BY RunAssumption
<1>2. q \in Int /\ r \in 0..(TicksPerMs - 1) /\ d = TicksPerMs * q + r
  BY <1>1
<1>3. d = TicksPerMs * t
  BY <1>1
<1> HIDE DEF d, q, r
<1>4. TicksPerMs * (t - q) = r
  BY <1>1, <1>2, <1>3
<1>5. t - q >= 1 => TicksPerMs * (t - q) >= TicksPerMs
  BY <1>1, <1>2
<1>6. t - q <= -1 => TicksPerMs * (t - q) <= -TicksPerMs
  BY <1>1, <1>2
<1>7. q = t
  BY <1>1, <1>2, <1>4, <1>5, <1>6
<1> QED BY <1>7 DEF Milliseconds, Deadline, q, d

-------------------------------------------------------------------------------
(* The results *)

\* What runProgram returns when the child ended by itself.
LEMMA ReturnedOutcome ==
  ASSUME TypeOK, OutputInv, ClockInv, pc = "wait", child = "exited"
  PROVE  Result(ExitStatus(prog), Milliseconds(now)) \in Outcomes(prog, timeout)
<1>1. left = 0 /\ written = prog.output /\ pipe = written
  BY DEF OutputInv, Unread
<1>2. CanEnd(prog)
  BY <1>1, CallType DEF TypeOK, ClockInv, CanEnd, Hang
<1>3. now = prog.work + stall /\ now <= Deadline(timeout)
  BY <1>1, <1>2, CallType DEF ClockInv, Unread, CanEnd, TypeOK, Hang
<1>4. now \in prog.work..(prog.work + MaxStall)
  BY <1>2, <1>3, CallType, RunAssumption DEF TypeOK, CanEnd
<1> QED BY <1>2, <1>3, <1>4 DEF Outcomes

\* What it returns when wait gave up.
LEMMA TimedoutOutcome ==
  ASSUME TypeOK, ClockInv, pc = "kill"
  PROVE  Result("Timedout", Milliseconds(now)) \in Outcomes(prog, timeout)
<1>1. now = Deadline(timeout)
  BY DEF ClockInv
<1>2. Milliseconds(now) = timeout
  BY <1>1, CallType, MillisecondsOfDeadline
<1>3. ~(CanEnd(prog) /\ prog.work + MaxStall < Deadline(timeout))
  <2> SUFFICES ASSUME CanEnd(prog) PROVE ~(prog.work + MaxStall < Deadline(timeout))
    OBVIOUS
  <2>1. now = prog.work - left + stall /\ left >= 0 /\ prog.work \in Nat
    BY CallType DEF ClockInv, Unread, CanEnd
  <2> QED BY <1>1, <2>1, RunAssumption DEF TypeOK
<1> QED BY <1>2, <1>3 DEF Outcomes

-------------------------------------------------------------------------------
(* The invariant *)

\* A call begins in the invariant.
LEMMA InvInit == Init => Inv
<1> SUFFICES ASSUME Init PROVE Inv
  OBVIOUS
<1>1. /\ prog.work \in {Hang} \cup Nat /\ prog.output \in Nat
      /\ timeout \in Nat /\ Deadline(timeout) \in Nat
  BY RunnerAssumption, RunAssumption DEF Init, Deadline
<1>2. /\ left \in Hang..prog.work /\ now \in 0..MaxTime /\ runningTime \in 0..MaxTime
      /\ captured \in 0..prog.output /\ written \in 0..prog.output
      /\ stall \in 0..MaxStall /\ pipe \in 0..PipeCapacity
  BY <1>1, RunnerAssumption, RunAssumption DEF Init, Hang
<1>5. TypeOK
  BY <1>2 DEF Init, TypeOK, Status
<1>3. OutputInv /\ ChildInv /\ ResultInv
  BY DEF Init, OutputInv, ChildInv, ResultInv, Unread
<1>4. ClockInv
  BY <1>1 DEF Init, ClockInv, Unread, CanEnd, Hang
<1> QED BY <1>3, <1>4, <1>5 DEF Inv

\* Every step of the runner, the child and the clock keeps it.
LEMMA InvNext == Inv /\ [Next]_vars => Inv'
<1> SUFFICES ASSUME Inv, [Next]_vars PROVE Inv'
  OBVIOUS
<1>0. TypeOK /\ OutputInv /\ ChildInv /\ ClockInv /\ ResultInv
  BY DEF Inv
<1>a. /\ prog.work \in {Hang} \cup Nat /\ prog.output \in Nat
      /\ timeout \in Nat /\ Deadline(timeout) \in Nat /\ Deadline(timeout) <= MaxTime
  BY <1>0, CallType
<1>1. CASE Start
  <2>1. TypeOK'
    BY <1>0, <1>1 DEF Start, call, timer, TypeOK
  <2>2. OutputInv' /\ ChildInv' /\ ResultInv'
    BY <1>0, <1>1 DEF Start, call, timer, OutputInv, ChildInv, ResultInv, Unread, TypeOK
  <2>3. ClockInv'
    BY <1>0, <1>1 DEF Start, call, timer, ClockInv, Unread
  <2> QED BY <2>1, <2>2, <2>3 DEF Inv
<1>2. CASE StartError
  <2>1. TypeOK'
    BY <1>0, <1>2 DEF StartError, call, timer, TypeOK
  <2>2. OutputInv' /\ ChildInv' /\ ClockInv' /\ ResultInv'
    BY <1>0, <1>2 DEF StartError, call, timer, OutputInv, ChildInv, ClockInv, ResultInv, Unread
  <2> QED BY <2>1, <2>2 DEF Inv
<1>3. CASE WaitReturns
  <2>1. TypeOK'
    BY <1>0, <1>3 DEF WaitReturns, call, timer, TypeOK, ExitStatus, Status
  <2>2. OutputInv' /\ ChildInv' /\ ClockInv'
    BY <1>0, <1>3 DEF WaitReturns, call, timer, OutputInv, ChildInv, ClockInv, Unread
  <2>3. Result(ExitStatus(prog), Milliseconds(now)) \in Outcomes(prog, timeout)
    BY <1>0, <1>3, ReturnedOutcome DEF WaitReturns
  <2>4. ResultInv'
    BY <1>0, <1>3, <2>3 DEF WaitReturns, call, timer, ResultInv
  <2> QED BY <2>1, <2>2, <2>4 DEF Inv
<1>4. CASE WaitTimesOut
  <2>1. TypeOK'
    BY <1>0, <1>4 DEF WaitTimesOut, call, timer, TypeOK
  <2>2. OutputInv' /\ ChildInv' /\ ResultInv'
    BY <1>0, <1>4 DEF WaitTimesOut, call, timer, OutputInv, ChildInv, ResultInv, Unread
  <2>3. now = Deadline(timeout)
    BY <1>0, <1>a, <1>4 DEF WaitTimesOut, ClockInv, Unread, TypeOK
  <2>4. ClockInv'
    BY <1>0, <1>4, <2>3 DEF WaitTimesOut, call, timer, ClockInv, Unread
  <2> QED BY <2>1, <2>2, <2>4 DEF Inv
<1>5. CASE Kill
  <2>1. TypeOK'
    BY <1>0, <1>5 DEF Kill, call, timer, TypeOK, Status
  <2>2. OutputInv' /\ ChildInv' /\ ClockInv'
    BY <1>0, <1>5 DEF Kill, call, timer, OutputInv, ChildInv, ClockInv, Unread
  <2>3. Result("Timedout", Milliseconds(now)) \in Outcomes(prog, timeout)
    BY <1>0, <1>5, TimedoutOutcome DEF Kill
  <2>4. ResultInv'
    BY <1>0, <1>5, <2>3 DEF Kill, call, timer, ResultInv
  <2> QED BY <2>1, <2>2, <2>4 DEF Inv
<1>6. CASE DrainRead
  <2>1. /\ pc = "drain" /\ pipe > 0 /\ pipe' = pipe - 1
        /\ captured' = IF captureOutput THEN captured + 1 ELSE captured
        /\ UNCHANGED <<prog, timeout, captureOutput, process, pc, status, runningTime, now,
                       stall, left, child, written, daemon>>
    BY <1>6 DEF DrainRead, call, timer
  <2>2. TypeOK'
    BY <1>0, <1>a, <2>1, RunAssumption DEF TypeOK, OutputInv
  <2>3. OutputInv'
    BY <1>0, <2>1, RunAssumption DEF TypeOK, OutputInv, Unread
  <2>4. ChildInv' /\ ClockInv' /\ ResultInv'
    BY <1>0, <2>1 DEF ChildInv, ClockInv, ResultInv, Unread
  <2> QED BY <2>2, <2>3, <2>4 DEF Inv
<1>7. CASE DrainEnds
  <2>1. /\ pc = "drain" /\ pc' = "done" /\ pipe = 0 /\ runningTime' = Milliseconds(now)
        /\ UNCHANGED <<prog, timeout, captureOutput, process, status, captured, now, stall,
                       left, child, written, daemon, pipe>>
    BY <1>7 DEF DrainEnds, EndOfFile, call, timer
  <2>2. runningTime' \in 0..MaxTime
    BY <1>0, <2>1, MillisecondsType, RunnerAssumption DEF TypeOK
  <2>3. TypeOK'
    BY <1>0, <2>1, <2>2 DEF TypeOK
  <2>4. OutputInv' /\ ChildInv' /\ ClockInv' /\ ResultInv'
    BY <1>0, <2>1 DEF OutputInv, ChildInv, ClockInv, ResultInv, Unread
  <2> QED BY <2>3, <2>4 DEF Inv
<1>8. CASE ChildWrites
  <2>1. /\ child = "running" /\ written < prog.output /\ pipe < PipeCapacity
        /\ written' = written + 1 /\ pipe' = pipe + 1
        /\ UNCHANGED <<prog, timeout, captureOutput, process, pc, status, captured,
                       runningTime, now, stall, left, child, daemon>>
    BY <1>8 DEF ChildWrites, call, timer
  <2>2. TypeOK'
    BY <1>0, <1>a, <2>1, RunAssumption DEF TypeOK
  <2>3. OutputInv'
    BY <1>0, <1>a, <2>1 DEF TypeOK, OutputInv, Unread
  <2>4. ChildInv' /\ ClockInv' /\ ResultInv'
    BY <1>0, <2>1 DEF ChildInv, ClockInv, ResultInv, Unread
  <2> QED BY <2>2, <2>3, <2>4 DEF Inv
<1>9. CASE ChildExits
  <2>1. TypeOK'
    BY <1>0, <1>9 DEF ChildExits, call, timer, TypeOK
  <2>2. OutputInv' /\ ChildInv' /\ ClockInv' /\ ResultInv'
    BY <1>0, <1>9 DEF ChildExits, call, timer, OutputInv, ChildInv, ClockInv, ResultInv, Unread
  <2> QED BY <2>1, <2>2 DEF Inv
<1>10. CASE DaemonExits
  <2>1. TypeOK'
    BY <1>0, <1>10 DEF DaemonExits, call, timer, TypeOK
  <2>2. OutputInv' /\ ChildInv' /\ ClockInv' /\ ResultInv'
    BY <1>0, <1>10 DEF DaemonExits, call, timer, OutputInv, ChildInv, ClockInv, ResultInv, Unread
  <2> QED BY <2>1, <2>2 DEF Inv
<1>11. CASE Tick
  <2>1. /\ now' = IF now < MaxTime THEN now + 1 ELSE now
        /\ UNCHANGED <<prog, timeout, captureOutput, process, pc, status, captured,
                       runningTime, child, written, daemon, pipe>>
    BY <1>11 DEF Tick, call
  <2>2. \/ pc = "wait" /\ child = "running" /\ now < Deadline(timeout)
        \/ pc = "drain" /\ pipe = 0 /\ ~EndOfFile
    BY <1>11 DEF Tick
  <2>3. \/ left > 0 /\ left' = left - 1 /\ stall' = stall
        \/ left > 0 /\ stall < MaxStall /\ stall' = stall + 1 /\ left' = left
        \/ ~(child = "running" /\ left > 0) /\ left' = left /\ stall' = stall
    BY <1>11 DEF Tick
  <2>4. TypeOK'
    BY <1>0, <1>a, <2>1, <2>3, RunnerAssumption, RunAssumption DEF TypeOK, Hang
  <2>5. OutputInv'
    BY <1>0, <2>1, <2>2, <2>3 DEF OutputInv, Unread, ChildInv
  <2>6. ChildInv'
    BY <1>0, <2>1 DEF ChildInv
  <2>7. ClockInv'
    <3>1. /\ prog.work = Hang => left' = Hang
          /\ prog.work # Hang => left' >= 0
      BY <1>0, <1>a, <2>3 DEF ClockInv, TypeOK, Hang
    <3>2. ASSUME pc = "wait" PROVE now' <= Deadline(timeout)
      BY <1>0, <1>a, <2>1, <2>2, <3>2 DEF TypeOK
    <3>3. ASSUME pc = "wait", CanEnd(prog) PROVE now' = prog.work - left' + stall'
      <4>1. now' = now + 1 /\ child = "running"
        <5>1. child = "running" /\ now < Deadline(timeout)
          BY <2>2, <3>3
        <5>2. now < MaxTime
          BY <1>0, <1>a, <5>1, RunnerAssumption DEF TypeOK
        <5> QED BY <2>1, <5>1, <5>2
      <4>2. now = prog.work - left + stall /\ pipe = written
        BY <1>0, <3>3 DEF ClockInv, OutputInv, Unread
      <4>3. ~Blocked
        BY <1>0, <1>a, <3>3, <4>2, RunAssumption DEF Blocked, CanEnd, TypeOK
      <4>4. left # 0 /\ left >= 0
        BY <1>0, <1>11, <3>3, <4>1, <4>3 DEF Tick, ClockInv, CanEnd
      <4>5. left > 0
        BY <1>0, <4>4 DEF TypeOK, Hang
      <4> QED BY <1>0, <1>a, <2>3, <3>3, <4>1, <4>2, <4>5 DEF TypeOK, CanEnd
    <3> QED BY <2>1, <2>2, <3>1, <3>2, <3>3 DEF ClockInv, Unread
  <2>8. ResultInv'
    BY <1>0, <2>1, <2>2 DEF ResultInv, ChildInv, EndOfFile
  <2> QED BY <2>4, <2>5, <2>6, <2>7, <2>8 DEF Inv
<1>12. CASE UNCHANGED vars
  <2>1. TypeOK'
    BY <1>0, <1>12 DEF vars, call, timer, TypeOK
  <2>2. OutputInv' /\ ChildInv' /\ ClockInv' /\ ResultInv'
    BY <1>0, <1>12 DEF vars, call, timer, OutputInv, ChildInv, ClockInv, ResultInv, Unread
  <2> QED BY <2>1, <2>2 DEF Inv
<1> QED
  BY <1>1, <1>2, <1>3, <1>4, <1>5, <1>6, <1>7, <1>8, <1>9, <1>10, <1>11, <1>12
  DEF Next, RunProgram, Environment, Stop

\* The invariant holds throughout a call.
THEOREM Invariance == Spec => []Inv
  BY InvInit, InvNext, PTL DEF Spec

\* The state of the call, the child and the pipe is always of its type.
THEOREM TypeCorrect == Spec => []TypeOK
<1>1. Inv => TypeOK BY DEF Inv
<1> QED BY <1>1, Invariance, PTL

\* Whatever the order of steps, runProgram returns a result RunOutcome names.
THEOREM ResultsKnown == Spec => []OutcomeKnown
<1>1. Inv => OutcomeKnown
  BY DEF Inv, ResultInv, OutcomeKnown
<1> QED BY <1>1, Invariance, PTL

\* A program that ended by itself is never reported with part of its output.
THEOREM WholeOutput == Spec => []OutputComplete
<1>1. ASSUME Inv PROVE OutputComplete
  BY <1>1 DEF Inv, TypeOK, ResultInv, OutputInv, OutputComplete
<1> QED BY <1>1, Invariance, PTL

===============================================================================
