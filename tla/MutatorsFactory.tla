---------------------------- MODULE MutatorsFactory ---------------------------
(***************************************************************************)
(* MutatorsFactory: the names a user may select, the groups among them,    *)
(* and the mutators a selection stands for.  The factory gives its         *)
(* mutators away: what mutators() returns is gone from the mapping until   *)
(* init() runs again.                                                      *)
(*                                                                         *)
(* There is a factory behind the command line, which asks for all mutators *)
(* when the options are declared and for the selected ones later, and one  *)
(* in each reporter, which asks for the mutator of one mutant at a time.   *)
(***************************************************************************)
EXTENDS Integers, FiniteSets

CONSTANTS
  Selections,  \* the sets of names a user may give
  MaxCalls     \* bound: calls of one factory after it was set up

VARIABLES
  user,             \* who owns the factory: "command line" or "reporter"
  mutatorsMapping,  \* from a name to "mutator" or "null"
  options,          \* the names the command line offers
  calls,            \* calls so far
  request,          \* the names of the last request
  answer,           \* what it was answered
  warnings          \* warnings so far

factoryVars == <<user, mutatorsMapping, options, calls, request, answer, warnings>>

-------------------------------------------------------------------------------
Calls               == {"cxx_remove_void_call", "cxx_replace_scalar_call"}
ConstAssignment     == {"cxx_assign_const", "cxx_init_const"}
BitwiseAssignment   == {"cxx_and_assign_to_or_assign", "cxx_or_assign_to_and_assign",
                        "cxx_xor_assign_to_or_assign",
                        "cxx_lshift_assign_to_rshift_assign",
                        "cxx_rshift_assign_to_lshift_assign"}
ArithmeticAssignment == {"cxx_add_assign_to_sub_assign", "cxx_sub_assign_to_add_assign",
                         "cxx_mul_assign_to_div_assign", "cxx_div_assign_to_mul_assign",
                         "cxx_rem_assign_to_div_assign"}
Increment           == {"cxx_pre_inc_to_pre_dec", "cxx_post_inc_to_post_dec"}
Decrement           == {"cxx_pre_dec_to_pre_inc", "cxx_post_dec_to_post_inc"}
Arithmetic          == {"cxx_minus_to_noop", "cxx_add_to_sub", "cxx_sub_to_add",
                        "cxx_mul_to_div", "cxx_div_to_mul", "cxx_rem_to_div"}
Bits                == {"cxx_bitwise_not_to_noop", "cxx_and_to_or", "cxx_or_to_and",
                        "cxx_xor_to_or", "cxx_lshift_to_rshift", "cxx_rshift_to_lshift"}
Logical             == {"cxx_logical_and_to_or", "cxx_logical_or_to_and",
                        "cxx_remove_negation"}
Comparison          == {"cxx_eq_to_ne", "cxx_ne_to_eq", "cxx_le_to_gt", "cxx_lt_to_ge",
                        "cxx_ge_to_lt", "cxx_gt_to_le"}
Boundary            == {"cxx_le_to_lt", "cxx_lt_to_le", "cxx_ge_to_gt", "cxx_gt_to_ge"}

\* What a group stands for: mutators and groups.  The order of its members does
\* not matter, they are expanded into a std::set.
GroupsMapping ==
  [cxx_calls                 |-> Calls,
   cxx_const_assignment      |-> ConstAssignment,
   cxx_bitwise_assignment    |-> BitwiseAssignment,
   cxx_arithmetic_assignment |-> ArithmeticAssignment,
   cxx_increment             |-> Increment,
   cxx_decrement             |-> Decrement,
   cxx_arithmetic            |-> Arithmetic,
   cxx_bitwise               |-> Bits,
   cxx_logical               |-> Logical,
   cxx_comparison            |-> Comparison,
   cxx_boundary              |-> Boundary,
   cxx_assignment            |-> {"cxx_bitwise_assignment", "cxx_arithmetic_assignment",
                                  "cxx_const_assignment"},
   cxx_all                   |-> {"cxx_assignment", "cxx_increment", "cxx_decrement",
                                  "cxx_arithmetic", "cxx_comparison", "cxx_boundary",
                                  "cxx_bitwise", "cxx_calls"},
   cxx_default               |-> {"cxx_increment", "cxx_arithmetic", "cxx_comparison",
                                  "cxx_boundary"},
   experimental              |-> {"negate_mutator", "scalar_value_mutator", "cxx_logical"},
   all                       |-> {"cxx_all", "experimental"}]

Groups == DOMAIN GroupsMapping

\* The mutators init() creates.
Created ==
  {"negate_mutator", "scalar_value_mutator"} \cup Calls \cup ConstAssignment
    \cup ArithmeticAssignment \cup BitwiseAssignment \cup Increment \cup Decrement
    \cup Arithmetic \cup Bits \cup Logical \cup Comparison \cup Boundary

\* The names of groups, of mutators and in groups.
Names == Groups \cup Created \cup UNION {GroupsMapping[g] : g \in Groups}

\* expandGroups, of one name.
ExpandGroups[g \in Names] ==
  IF g \in Groups THEN UNION {ExpandGroups[h] : h \in GroupsMapping[g]} ELSE {g}

\* Mutant of InitMapping: a name that is there already is not created again,
\* and one that was given away is not there.
InitMappingOnce(mapping) == IF DOMAIN mapping = {} THEN [m \in Created |-> "mutator"]
                                                   ELSE mapping

\* MutatorsFactory::init: names that are no mutator's stay as they are.
InitMapping(mapping) ==
  [m \in Created \cup DOMAIN mapping |-> IF m \in Created THEN "mutator" ELSE mapping[m]]

EmptyMapping == [m \in {} |-> "null"]

-------------------------------------------------------------------------------
(***************************************************************************)
(* mutators(): the mapping and the answer.                                 *)
(***************************************************************************)
Expanded(groups) ==
  UNION {ExpandGroups[g] : g \in IF groups = {} THEN {"cxx_default"} ELSE groups}

MutatorsAnswer(mapping, groups) ==
  [m \in Expanded(groups) \cap DOMAIN mapping |-> mapping[m]]

MutatorsRest(mapping, groups) ==
  [m \in DOMAIN mapping \ Expanded(groups) |-> mapping[m]]

MutatorsWarnings(mapping, groups) ==
  Cardinality(Expanded(groups) \ DOMAIN mapping)
    + (IF Expanded(groups) \cap DOMAIN mapping = {} THEN 1 ELSE 0)

\* commandLineOptions: the groups and the mutators of the group "all".
CommandLineOptions(mapping) ==
  Groups \cup DOMAIN MutatorsAnswer(mapping, {"all"})

SetUpReporter == mutatorsMapping = InitMapping(EmptyMapping) /\ options = {} /\ warnings = 0

\* MutatorsCLIOptions::MutatorsCLIOptions.
SetUpCommandLine ==
  LET mapping == InitMapping(EmptyMapping)
  IN  /\ options = CommandLineOptions(mapping)
      /\ mutatorsMapping = MutatorsRest(mapping, {"all"})
      /\ warnings = MutatorsWarnings(mapping, {"all"})

FactoryInit ==
  /\ \/ user = "command line" /\ SetUpCommandLine
     \/ user = "reporter" /\ SetUpReporter
  /\ calls = 0
  /\ request = {}
  /\ answer = EmptyMapping

\* MutatorsCLIOptions::mutators: the names selected, out of those on offer.
MutatorsCall ==
  /\ user = "command line" /\ calls < MaxCalls
  /\ \E groups \in Selections :
       LET mapping == InitMapping(mutatorsMapping)
       IN /\ groups \subseteq options
          /\ request' = groups
          /\ answer' = MutatorsAnswer(mapping, groups)
          /\ mutatorsMapping' = MutatorsRest(mapping, groups)
          /\ warnings' = warnings + MutatorsWarnings(mapping, groups)
  /\ calls' = calls + 1
  /\ UNCHANGED <<user, options>>

\* getMutator: operator[] of the map adds a null for a name that is not there.
GetMutator ==
  /\ user = "reporter" /\ calls < MaxCalls
  /\ \E m \in Created :
       /\ mutatorsMapping' = [n \in DOMAIN mutatorsMapping \cup {m} |->
                                IF n \in DOMAIN mutatorsMapping THEN mutatorsMapping[n]
                                ELSE "null"]
       /\ request' = {m}
       /\ answer' = [n \in {m} |-> mutatorsMapping'[n]]
  /\ calls' = calls + 1
  /\ UNCHANGED <<user, options, warnings>>

FactoryNext == MutatorsCall \/ GetMutator

FactorySpec == FactoryInit /\ [][FactoryNext]_factoryVars

-------------------------------------------------------------------------------
(***************************************************************************)
(* Names that can be reached from a selection, without the recursion of    *)
(* expandGroups: the least set closed under membership.                    *)
(***************************************************************************)
Members(S) == UNION {GroupsMapping[g] : g \in S \cap Groups}

Closed(S) == Members(S) \subseteq S

Step(S) == S \cup Members(S)

\* Four levels of groups are as deep as the mapping goes.
Reachable(S) == Step(Step(Step(Step(S))))

\* A selection is answered with exactly the mutators its groups lead to, or with
\* the default ones when it is empty, each of them alive, however many
\* selections were answered before.
SelectionAnswered ==
  user = "command line" /\ calls > 0 =>
    LET from == IF request = {} THEN {"cxx_default"} ELSE request
    IN /\ Closed(Reachable(from))
       /\ answer = [m \in Reachable(from) \ Groups |-> "mutator"]

\* A reporter finds the mutator of every mutant there can be.
ReporterFindsMutator ==
  user = "reporter" => \A m \in request : answer[m] = "mutator"

\* Every mutator there is can be selected by name on the command line, and no
\* name in a group is one the factory does not know, which would be a warning
\* and in strict mode the end of Mull.
EverythingOffered == user = "command line" => Names = options /\ warnings = 0

\* Every selection of mutators is answered with the mutators its groups lead to,
\* a reporter finds every mutator it asks for, and the command line offers all.
MutatorsServed == SelectionAnswered /\ ReporterFindsMutator /\ EverythingOffered

===============================================================================
