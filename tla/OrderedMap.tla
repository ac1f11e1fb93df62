------------------------------ MODULE OrderedMap ------------------------------
(***************************************************************************)
(* What a phase of Mull expects of TaskExecutor::execute(), whatever       *)
(* threads it uses: `out` grows through the results of longer and longer   *)
(* prefixes of the input, in input order, and holds those of the whole     *)
(* input when the call returns (of none of it if there is no task to run). *)
(* The process may end before that.                                        *)
(***************************************************************************)
EXTENDS Integers, Sequences

CONSTANTS N, T, Sequential

VARIABLES total, tasks, out, status

vars == <<total, tasks, out, status>>

Init == /\ total \in 0..N
        /\ tasks \in 0..T
        /\ out = << >>
        /\ status = "running"

Advance == /\ status = "running"
           /\ \E n \in 0..total : \E m \in n..total :
                /\ out = Sequential[n]
                /\ out' = Sequential[m]
           /\ UNCHANGED <<total, tasks, status>>

Return == /\ status = "running"
          /\ out = Sequential[IF tasks = 0 THEN 0 ELSE total]
          /\ status' = "done"
          /\ UNCHANGED <<total, tasks, out>>

Exit == /\ status = "running"
        /\ status' = "exited"
        /\ UNCHANGED <<total, tasks, out>>

Next == Advance \/ Return \/ Exit

Spec == Init /\ [][Next]_vars

===============================================================================
