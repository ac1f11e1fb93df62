---------------------------- MODULE MCTaskExecutor ----------------------------
(***************************************************************************)
(* TaskExecutor for TLC: up to five items, so that batches of unequal size *)
(* occur, with an item that yields nothing, items that yield several       *)
(* results and one that may end the process.                               *)
(***************************************************************************)
EXTENDS TaskExecutor

MCTask == <<  <<"a">>, << >>, <<"b", "c">>, <<"a">>, <<"c">>  >>

MCSequential ==
  LET prefix[n \in 0..N] == IF n = 0 THEN << >> ELSE prefix[n - 1] \o MCTask[n]
  IN prefix

===============================================================================
