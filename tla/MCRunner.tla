------------------------------- MODULE MCRunner -------------------------------
(***************************************************************************)
(* Runner for TLC: programs that end before, at and after the deadline or  *)
(* never, that print nothing, as much as the pipe holds and more, and that *)
(* leave a process behind or not.                                          *)
(***************************************************************************)
EXTENDS Runner

MCPrograms(works, daemons) ==
  [work : works, output : 0..(PipeCapacity + 1), exit : {0, 1}, daemon : daemons]

MCEnding == MCPrograms({1, 3, 4, 5, Hang}, {"none", "ends"})

\* A short program that leaves a server behind which inherits its pipes.
MCStaying == MCPrograms({1}, {"stays"})

\* Short programs.
MCVerbose == MCPrograms({1}, {"none"})

===============================================================================
