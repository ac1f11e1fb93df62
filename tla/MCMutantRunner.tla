---------------------------- MODULE MCMutantRunner ----------------------------
(***************************************************************************)
(* MutantRunner for TLC: two mutants, programs that take from less than a  *)
(* millisecond to more than ten times that or for ever, that print more    *)
(* than the pipe holds or not, and that fail or not.                       *)
(***************************************************************************)
EXTENDS MutantRunner

MCPrograms(works, exits) == [work : works, output : {0, PipeCapacity + 1}, exit : exits]

MCAll == MCPrograms({1, 2, 3, 23, Hang}, {0, 1})

\* A test suite that fails without any mutant.
MCFailing == [work : {4}, output : {0}, exit : {1}]

\* A test suite that takes less than a millisecond.
MCFast == [work : {1}, output : {0}, exit : {0}]

===============================================================================
