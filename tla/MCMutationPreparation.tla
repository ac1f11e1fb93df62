------------------------- MODULE MCMutationPreparation ------------------------
(***************************************************************************)
(* MutationPreparation for TLC: two bitcode files, the first with two      *)
(* functions and the second with one, and lists of up to MaxPoints points. *)
(* The points are found function by function, so the lists are sorted;     *)
(* identifiers may repeat in a function (a macro) and in another one (an   *)
(* instance of the same template).                                         *)
(***************************************************************************)
EXTENDS MutationPreparation

CONSTANTS MaxPoints, b1, b2

MCFunctions == 1..3

MCBitcodeOf == <<b1, b1, b2>>

MCPointLists ==
  UNION {{s \in [1..n -> [function : MCFunctions, id : Identifiers]] :
            \A i \in 1..n-1 : s[i].function <= s[i+1].function} :
           n \in 0..MaxPoints}

\* One function with one mutation found twice on the same place.
MCSamePlace == {<<[function |-> 1, id |-> i], [function |-> 1, id |-> i]>> :
                  i \in Identifiers}

===============================================================================
