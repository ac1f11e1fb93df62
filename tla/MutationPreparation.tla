------------------------- MODULE MutationPreparation --------------------------
(***************************************************************************)
(* Driver::prepareMutations and the deduplication that follows it: how the *)
(* mutations Mull found end up in one program, each behind a flag of the   *)
(* environment, and which mutants the driver then runs.                    *)
(*                                                                         *)
(* Every covered mutation point gets a clone of its function.  A function  *)
(* with such points is copied, emptied and turned into a trampoline, which *)
(* asks getenv for the identifier of each of its points and calls the      *)
(* clone of the first one that is set, or the copy.  At last the mutations *)
(* are applied to the clones, and recorded in a section of the binary that *)
(* mull-runner reads.  Each pass is one TaskExecutor (see that module for  *)
(* the pool): its tasks work on different items at once, and the next pass *)
(* starts when all of them are done.                                       *)
(*                                                                         *)
(* A function's code is abstracted to where it came from and the set of    *)
(* mutations applied to it.                                                *)
(***************************************************************************)
EXTENDS Integers, Sequences, FiniteSets

CONSTANTS
  Bitcodes,     \* the bitcode files of the program
  Functions,    \* its functions ...
  BitcodeOf,    \* ... and the bitcode file each of them is in
  Identifiers,  \* user identifiers: mutator and source location
  PointLists,   \* the lists of mutation points the filters may let through
  Workers       \* config.parallelization.workers

ASSUME ProgramAssumption ==
  /\ BitcodeOf \in [Functions -> Bitcodes]
  /\ PointLists \subseteq Seq([function : Functions, id : Identifiers])
  /\ Workers \in Nat \ {0}

VARIABLES
  points,          \* filteredMutations: function and user identifier of each
  covered,         \* FunctionUnderTest::isCovered
  dryRun,          \* config.dryRunEnabled
  pass,            \* which pass of the driver is on
  todo,            \* the items no task of the pass has taken yet
  busy,            \* the items its tasks are at
  mutationPoints,  \* Bitcode::mutationPoints
  body,            \* what a function of the program consists of
  copy,            \* what its copy mull_<function>_original consists of
  clone,           \* what MutationPoint::mutatedFunction consists of
  checks,          \* the checks in a trampoline, by position in mutationPoints
  records,         \* the mutants recorded in the binary
  mutants          \* the mutants left after deduplication

input == <<points, covered, dryRun>>
code  == <<body, copy, clone, checks>>
vars  == <<input, pass, todo, busy, mutationPoints, code, records, mutants>>

Points == DOMAIN points

\* MutationPoint::isCovered: set from the function the point was found in.
IsCovered(i) == covered[points[i].function]

Context(i) == BitcodeOf[points[i].function]

\* What a function may consist of: no function at all, one without a body, a
\* trampoline, or the code of the original with some mutations in it.
None       == [kind |-> "none", mutations |-> {}]
Empty      == [kind |-> "empty", mutations |-> {}]
Trampoline == [kind |-> "trampoline", mutations |-> {}]
Code(m)    == [kind |-> "code", mutations |-> m]

Original == Code({})

Init ==
  /\ points \in PointLists
  /\ covered \in [Functions -> BOOLEAN]
  /\ dryRun \in BOOLEAN
  /\ pass = "prepare"
  /\ todo = Points
  /\ busy = {}
  /\ mutationPoints = [f \in Functions |-> <<>>]
  /\ body = [f \in Functions |-> Original]
  /\ copy = [f \in Functions |-> None]
  /\ clone = [i \in Points |-> None]
  /\ checks = [f \in Functions |-> {}]
  /\ records = <<>>
  /\ mutants = {}

First(S) == CHOOSE i \in S : \A j \in S : i <= j

\* A dry run changes nothing in the program.
SkipPreparation ==
  /\ pass = "prepare" /\ dryRun
  /\ pass' = "deduplicate"
  /\ todo' = {}
  /\ UNCHANGED <<input, busy, mutationPoints, code, records, mutants>>

\* One round of the loop of "Prepare mutations": Bitcode::addMutation.
AddMutation ==
  /\ pass = "prepare" /\ ~dryRun /\ todo # {}
  /\ LET i == First(todo) IN
       /\ mutationPoints' =
            [mutationPoints EXCEPT ![points[i].function] = Append(@, i)]
       /\ todo' = todo \ {i}
  /\ UNCHANGED <<input, pass, busy, code, records, mutants>>

-------------------------------------------------------------------------------
\* A task takes the next bitcode file of its share ...
TakeBitcode(b) ==
  /\ pass \in {"clone", "delete", "redirect"}
  /\ b \in todo /\ Cardinality(busy) < Workers
  /\ todo' = todo \ {b}
  /\ busy' = busy \cup {b}
  /\ UNCHANGED <<input, pass, mutationPoints, code, records, mutants>>

\* ... and is done with it.
Leave(i) ==
  /\ i \in busy
  /\ busy' = busy \ {i}
  /\ UNCHANGED <<input, pass, todo, mutationPoints, records, mutants>>

\* The points of function f that have a clone, by position.
CoveredPoints(f) ==
  {k \in DOMAIN mutationPoints[f] : IsCovered(mutationPoints[f][k])}

\* The functions of a bitcode file that have a covered mutation point.
Mutated(b) == {f \in Functions : BitcodeOf[f] = b /\ CoveredPoints(f) # {}}

CloneFunctions(b) ==
  /\ pass = "clone"
  /\ Leave(b)
  /\ LET cloned == UNION {{mutationPoints[f][k] : k \in CoveredPoints(f)} :
                            f \in Mutated(b)}
     IN  clone' = [i \in Points |->
           IF i \in cloned THEN body[points[i].function] ELSE clone[i]]
  /\ UNCHANGED <<body, copy, checks>>

\* Mutant of DeleteFunctions: the references are dropped before the copy.
DeleteFunctionsFirst(b) ==
  /\ pass = "delete"
  /\ Leave(b)
  /\ body' = [f \in Functions |-> IF f \in Mutated(b) THEN Empty ELSE body[f]]
  /\ copy' = [f \in Functions |-> IF f \in Mutated(b) THEN Empty ELSE copy[f]]
  /\ UNCHANGED <<clone, checks>>

DeleteFunctions(b) ==
  /\ pass = "delete"
  /\ Leave(b)
  /\ copy' = [f \in Functions |-> IF f \in Mutated(b) THEN body[f] ELSE copy[f]]
  /\ body' = [f \in Functions |-> IF f \in Mutated(b) THEN Empty ELSE body[f]]
  /\ UNCHANGED <<clone, checks>>

\* The blocks of the trampoline are appended to the function: it starts with
\* them only when nothing is left of its own body.
InsertTrampolines(b) ==
  /\ pass = "redirect"
  /\ Leave(b)
  /\ body' = [f \in Functions |->
       IF f \in Mutated(b) /\ body[f] = Empty THEN Trampoline ELSE body[f]]
  /\ checks' = [f \in Functions |->
       IF f \in Mutated(b) THEN CoveredPoints(f) ELSE checks[f]]
  /\ UNCHANGED <<copy, clone>>

-------------------------------------------------------------------------------
\* Mutant of TakePoint: as many tasks as in the other passes.
TakePointMany ==
  /\ pass = "apply" /\ todo # {} /\ Cardinality(busy) < Workers
  /\ todo' = todo \ {First(todo)}
  /\ busy' = busy \cup {First(todo)}
  /\ UNCHANGED <<input, pass, mutationPoints, code, records, mutants>>

\* The only ApplyMutationTask takes the next mutation point.
TakePoint ==
  /\ pass = "apply" /\ todo # {} /\ busy = {}
  /\ todo' = todo \ {First(todo)}
  /\ busy' = {First(todo)}
  /\ UNCHANGED <<input, pass, mutationPoints, code, records, mutants>>

RecordMutation(i) ==
  records' = Append(records, [id |-> points[i].id, covered |-> IsCovered(i)])

\* Mutant of ApplyMutation: only the points that are applied are recorded.
ApplyMutationUnrecorded(i) ==
  /\ pass = "apply" /\ i \in busy
  /\ busy' = busy \ {i}
  /\ \/ /\ IsCovered(i)
        /\ RecordMutation(i)
        /\ clone' = [clone EXCEPT ![i].mutations = @ \cup {i}]
     \/ /\ ~IsCovered(i)
        /\ UNCHANGED <<clone, records>>
  /\ UNCHANGED <<input, pass, todo, mutationPoints, body, copy, checks, mutants>>

ApplyMutation(i) ==
  /\ pass = "apply" /\ i \in busy
  /\ busy' = busy \ {i}
  /\ RecordMutation(i)
  /\ \/ IsCovered(i) /\ clone' = [clone EXCEPT ![i].mutations = @ \cup {i}]
     \/ ~IsCovered(i) /\ UNCHANGED clone
  /\ UNCHANGED <<input, pass, todo, mutationPoints, body, copy, checks, mutants>>

\* TaskExecutor::execute returns and the next pass starts.
NextPass ==
  /\ pass \in {"prepare", "clone", "delete", "redirect", "apply"}
  /\ ~(pass = "prepare" /\ dryRun)
  /\ todo = {} /\ busy = {}
  /\ \/ pass = "prepare"  /\ pass' = "clone"       /\ todo' = Bitcodes
     \/ pass = "clone"    /\ pass' = "delete"      /\ todo' = Bitcodes
     \/ pass = "delete"   /\ pass' = "redirect"    /\ todo' = Bitcodes
     \/ pass = "redirect" /\ pass' = "apply"       /\ todo' = Points
     \/ pass = "apply"    /\ pass' = "deduplicate" /\ todo' = {}
  /\ UNCHANGED <<input, busy, mutationPoints, code, records, mutants>>

\* Mutant of Deduplicate: a mutant is covered if the first of its points is.
DeduplicateFront ==
  /\ pass = "deduplicate"
  /\ mutants' = {[id |-> points[i].id,
                  covered |-> IsCovered(First({j \in Points :
                                points[j].id = points[i].id}))] : i \in Points}
  /\ pass' = "done"
  /\ UNCHANGED <<input, todo, busy, mutationPoints, code, records>>

\* A mutant is covered if at least one of its mutation points is.
Deduplicate ==
  /\ pass = "deduplicate"
  /\ mutants' = {[id |-> points[i].id,
                  covered |-> \E j \in Points :
                    points[j].id = points[i].id /\ IsCovered(j)] : i \in Points}
  /\ pass' = "done"
  /\ UNCHANGED <<input, todo, busy, mutationPoints, code, records>>

Stop == pass = "done" /\ UNCHANGED vars

Next ==
  \/ SkipPreparation \/ AddMutation \/ NextPass \/ TakePoint \/ Deduplicate
  \/ Stop
  \/ \E b \in Bitcodes : \/ TakeBitcode(b) \/ CloneFunctions(b)
                         \/ DeleteFunctions(b) \/ InsertTrampolines(b)
  \/ \E i \in Points : ApplyMutation(i)

Spec == Init /\ [][Next]_vars

-------------------------------------------------------------------------------
\* The positions of the checks of f whose flag is set.
EnabledChecks(f, env) ==
  {k \in checks[f] : points[mutationPoints[f][k]].id \in env}

\* Mutant of Executed: each check leads to the clone of the first point.
ExecutedFront(f, env) ==
  IF body[f] # Trampoline
  THEN body[f]
  ELSE IF EnabledChecks(f, env) = {} THEN copy[f] ELSE clone[mutationPoints[f][1]]

\* What a call of f executes when the variables in env are set.  A check is
\* inserted in front of those already there, so the last one comes first.
Executed(f, env) ==
  IF body[f] # Trampoline
  THEN body[f]
  ELSE LET on == EnabledChecks(f, env) IN
       IF on = {}
       THEN copy[f]
       ELSE clone[mutationPoints[f][CHOOSE k \in on : \A j \in on : j <= k]]

Prepared == pass = "done" /\ ~dryRun

Bodies == {None, Empty, Trampoline} \cup {Code(m) : m \in SUBSET Points}

TypeOK ==
  /\ points \in Seq([function : Functions, id : Identifiers])
  /\ covered \in [Functions -> BOOLEAN] /\ dryRun \in BOOLEAN
  /\ pass \in {"prepare", "clone", "delete", "redirect", "apply",
               "deduplicate", "done"}
  /\ todo \subseteq Points \cup Bitcodes /\ busy \subseteq Points \cup Bitcodes
  /\ mutationPoints \in [Functions -> Seq(Points)]
  /\ body \in [Functions -> Bodies] /\ copy \in [Functions -> Bodies]
  /\ clone \in [Points -> Bodies]
  /\ \A f \in Functions : checks[f] \subseteq DOMAIN mutationPoints[f]
  /\ records \in Seq([id : Identifiers, covered : BOOLEAN])
  /\ mutants \subseteq [id : Identifiers, covered : BOOLEAN]

(***************************************************************************)
(* Two tasks never work in one LLVM context, which is not thread-safe: not *)
(* even in the pass over the points, where many items share a context.  In *)
(* the other passes an item is a bitcode file, which has its own.          *)
(***************************************************************************)
ContextsExclusive ==
  pass = "apply" =>
    \A i, j \in busy : i # j => Context(i) # Context(j)

(***************************************************************************)
(* The warm-up and the baseline run, with no flag set, execute the program *)
(* as it was: every function does what it did before it was taken apart.   *)
(***************************************************************************)
BaselineIsOriginal ==
  Prepared => \A f \in Functions : Executed(f, {}) = Original

(***************************************************************************)
(* The run of a mutant executes no mutation but its own and no function    *)
(* with two of them: a call runs the original code, or the original code   *)
(* with one mutation of that function with that identifier.                *)
(***************************************************************************)
MutantIsolated ==
  Prepared =>
    \A f \in Functions, id \in Identifiers :
      \/ Executed(f, {id}) = Original
      \/ \E i \in Points : /\ points[i].function = f /\ points[i].id = id
                           /\ IsCovered(i)
                           /\ Executed(f, {id}) = Code({i})

(***************************************************************************)
(* MutantRunner runs the mutants deduplication calls covered: exactly the  *)
(* ones whose flag changes what the program does, so that no run is wasted *)
(* on the original program and no injected mutant goes without one.        *)
(***************************************************************************)
CoveredMeansActive ==
  Prepared =>
    \A m \in mutants :
      m.covered <=> \E f \in Functions : Executed(f, {m.id}) # Original

(***************************************************************************)
(* mull-runner, which reads the records of the binary, finds the mutants   *)
(* the driver found: the same identifiers, and a record that says covered  *)
(* for exactly the covered ones.                                           *)
(***************************************************************************)
RecordsAgree ==
  Prepared =>
    mutants = {[id |-> r.id,
                covered |-> \E s \in {records[k] : k \in DOMAIN records} :
                              s.id = r.id /\ s.covered] :
                 r \in {records[k] : k \in DOMAIN records}}

(***************************************************************************)
(* docs/HowMullWorks.rst: "Each injected mutation is hidden under a        *)
(* conditional flag that enables that specific mutation": its function     *)
(* executes it when the flag of its identifier is set.                     *)
(***************************************************************************)
FlagEnablesMutation ==
  Prepared =>
    \A i \in Points :
      IsCovered(i) => Executed(points[i].function, {points[i].id}) = Code({i})

===============================================================================
