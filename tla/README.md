# A TLA+ model of Mull

Mull is a mutation-testing tool: it takes a program with embedded LLVM bitcode,
injects small changes (mutations) into it, each behind a flag of the
environment, runs the program's test suite once per mutant and reports which
mutants the suite detects.  This directory models it from the command line to
the reports: the thread pool, the execution of child processes, the running of
the mutants, the way mutations are put into the program, the driver, the search
for mutations and its filters, what the mutators make of the code, the junk
detector, the reports, and the Clang plugin.  TLC checks the modules on small
instances; TLAPS proves the safety of all components but the operators the
mutators replace for every instance: of the pool, the child processes, the runs
of mutants, the preparation of the program, the driver, the factory of mutators,
the filters, the junk detector, its trees and their flags, the plugin, the
reports and the source lines in them.

## The system

| Part | State | Operations | Talks to |
|---|---|---|---|
| Task executor (`Parallelization/TaskExecutor.h`, `TaskExecutor.cpp`, `Progress.cpp`) | the vectors `storages` and `counters`, the caller's `out`, the threads | `execute`: sequential or parallel, spawn, join, merge; the progress reporter | every phase runs its task on it |
| Program runner (`Toolchain/Runner.cpp`) | child process, pipes, clock | `runProgram`: start, wait with timeout, kill, drain | sanity check, linker, `git diff`, mutant runs |
| Mutant runner (`MutantRunner.cpp`, `MutantExecutionTask.cpp`) | baseline result, results | warm-up run, baseline run, one run per covered mutant | the pool and the runner; called by the driver and by mull-runner |
| Mutation preparation (`MutantPreparationTasks.cpp`, `ApplyMutationTask.cpp`, `MutationPoint.cpp`, `Bitcode.cpp`) | per bitcode file: mutation points, functions, clones, trampolines; the records in the binary | clone, delete, redirect, apply, record | four pools in a row, in the driver |
| Driver (`Driver.cpp`) | configuration, mutation points, mutants, object files, executable | find, filter, prepare, deduplicate, compile, link, run, clean up | everything above |
| Mutation search (`MutationsFinder.cpp`, `SearchMutationPointsTask.cpp`) | the points it owns | per function and mutator: find points, set coverage | driver |
| Diagnostics | mutex, strict and debug mode | `error` ends the process, `warning` does in strict mode | everybody, from any thread |
| Filters (file path, debug information, Git diff, junk) | include and exclude lists, the diff, a cache of verdicts | `shouldSkip`, instruction selection | driver, on the pool |
| Junk detection, AST storage | cache of Clang ASTs, shared by threads | `findAST`, `getDecl`, visitors | junk filter |
| Compilation database | flags from the database and from the bitcode | `compilationFlagsForFile` | AST storage, when it builds a tree |
| Mutators | none | matching and rewriting of instructions | mutation search, preparation |
| Mutators factory | groups, the mapping from names to mutators | `init`, `mutators`, `getMutator` | command line, reporters |
| Reporters (IDE, Elements, SQLite) with source reader | files, line offsets | `reportResults` | mull-cxx, mull-runner |
| mull-runner | the records of a binary | `extractMutants`, then the mutant runner | binary written by mull-cxx |
| Clang plugin (`mull-cxx-frontend`) | the selected mutators, the points, the tree | search, replace, record | clang |
| Toolchain, bitcode loader, command line | temporary files | compile, link, load | driver, mull-cxx |

What is hard about it: threads that share vectors, counters, LLVM contexts and
Clang ASTs; child processes that hang, block, end at the wrong moment or leave
others behind; a timeout computed from a measurement; a program rewritten in
four passes that must still behave as before when no flag is set; fatal errors
on any thread; operators of C++ that are only a shape of branches in LLVM;
mutators that are moved out of the table they are looked up in; two tools and
three reporters that count the same mutants.  `PROJECT.json` lists these hazards
line by line with the properties that cover them.

What makes each part correct: the pool gives the result of a single thread, in
its order, and ends; a run ends in time, with the right status and the whole
output; a mutant is killed only because of what it does; the mutated program
with one flag set is the original one with that mutation, and without a flag the
original one; a mutant that is run can be told apart from the original; what is
mutated is what the user asked for, and the mutant computes what the mutator's
description says; a real mutation is never thrown away as junk; a run that ends
well leaves the files it should and no other; reports agree with the results.

## Modules

The run of Mull:

* `TaskExecutor` is one call of `TaskExecutor<Task>::execute()`.  Its actors
  are main (`pc`, one action per statement that another thread can notice), the
  task threads (`tpc`: body of the loop, increment, return, or the end of the
  process through `Diagnostics::error`) and the reporter (one atomic load at a
  time).  The concrete task is the constant `Task`, the sequence of results it
  pushes for each item.  Vectors carry their capacity and the number of their
  allocation (`cap`, `block`), and a thread remembers which allocation its
  references point into (`ref`).
* `OrderedMap` is what callers expect of it: `out` grows through the results of
  longer and longer prefixes of the input and ends with all of them.
  `TaskExecutor` implements it with `status` mapped to `Status`.
* `Runner` is one call of `runProgram` with the child process, the pipe and the
  clock.  reproc and the operating system are external, modelled from how the
  code uses them: nobody reads the pipe before `wait` returns, `kill` ends the
  child only, `drain` reads until every writer has closed.  stdout and stderr
  are one pipe; any error of `wait` other than the timeout is not modelled.
* `RunOutcome` is the set of results such a call can have, as a function of the
  program and the timeout.  `Runner` is checked against it (`OutcomeKnown`) and
  `MutantRunner` uses it for each of its runs.
* `MutantRunner` is `runMutants`: a warm-up run, the baseline, then the mutants
  in any order (which order the pool reports them in is `TaskExecutor`'s matter).
* `MutationPreparation` is `prepareMutations` and the deduplication.  A function
  is what its code came from and the mutations in it; `Executed` is what a call
  of it executes when given flags are set.  Each pass works through the bitcode
  files with up to `Workers` tasks at once; which task has which file is left
  open.  Points come function by function, as `SearchMutationPointsTask` finds
  them, and share the coverage of their function.
* `Driver` is one run of mull-cxx from the options to the exit status.  `stage`
  is where `main` is, `task` what a pool does with each item, `files` what is on
  the disk.  Three pools have threads that call `Diagnostics` and are modelled item
  by item: loading bitcode, filtering points (the junk filter warns), and
  compiling; a fourth, which runs the mutants, has threads that fail when the
  executable cannot be started (`Runner.cpp:54-68`).  On main, the input file,
  the retriever, the configuration, the sanity check, coverage, the linker, the
  warm-up and baseline runs and the SQLite reporter warn or fail.  `exit(1)` is
  called with the mutex held, so that the others stop at their next message and
  run on until then.  Searching and preparing are one step each: they have
  modules of their own and give no message.

What is mutated:

* `Filters` goes from the program's functions to the points that are left:
  coverage by bare and scoped name, function filters, the instructions a Git
  diff selects, the points in them, mutation filters, in the driver's order and
  as `main` installs them.  A list is a set and a pass a step.  The path filter
  keeps its cache, and `asserted` its assertion.  The diff is what `git diff -U0`
  prints (external): for each file its two names and its hunks, a count of one
  left out; `ParseDiffContent` is what the reader's loop over its lines ends with.
  The profile, the changed lines and the file system are inputs; a regular
  expression is the set of the paths it matches.
* `MutatorsFactory` has the groups as the source lists them, each a set of names
  and groups, and the mapping from which `mutators()` moves what it returns; asked for twice, a name is a
  null pointer.  The owner is the command line, which asks for all and then for
  the selected ones, or a reporter, which asks for one after the other.
* `Mutators` takes one operation on two operands through what Clang emits, the
  mutators that match it, the junk detector's question, the new opcode and the
  run of the mutant.  Integers are residues of `Width` bits.  Clang and libirm
  are external: `Emit` and `Exec` say what the mutators rely on.
* `LogicalOperators` does the same for `&&` and `||`, which are branches and a
  PHI node.  `Lower` is Clang's work (external, fixed by the places the tests
  name): a condition is branches only, a value is chosen by a PHI, and a right
  operand with an operator of its own has a PHI of its own; the two mutators search pairs of branches and reconnect them; the
  verifier accepts or refuses; then the blocks run.  `a && !b` is not found by
  cxx_logical_and_to_or: the negation swaps the successors of its branch, and it
  is cxx_logical_or_to_and that matches it, whose point the junk detector drops.

Junk:

* `ASTStorage` is the junk filter's workers over the cache of trees, with the
  storage's mutex, the mutex of each tree, and the queries that hold neither.
  A tree is a unit and a number; what it says of a point is the constant
  `Verdict`.  Every step in which `isJunk` asks the tree's source manager is a
  query with a beginning and an end: `getLocation` and `getDecl` under the tree's
  mutex, `isInSystemHeader`, the visitors and the lines without it.  The source
  manager keeps its last answers in fields, so that of two queries that overlap
  either may be answered with anything (`overlapped`), and what follows from a
  spoiled location, declaration or expression is as unreliable (`misled`).
* `JunkDetector` is `isJunk` on one tree: the sorted declarations and the binary
  search over them, the visitor of each kind of mutator, the end location.
  Locations are positions of tokens, up to `FileEnd`; a node is its class, begin,
  location and end.  The recorded declarations are the set of those `std::unique`
  keeps, and the halving of `std::lower_bound` may stop at any boundary between
  those that end before the location and those that do not.
* `CompilationDatabase` says where the flags of a unit come from.  Paths are
  sequences of components, with `..` and `.` removed as the code does it; a file
  in two commands has the flags of the last one, though the property and the
  inputs leave such programs out: no two units are of one file.

Reports:

* `Reports` takes the points of a program through both tools: mutants by
  deduplication or from the records, results, and what IDE, Elements and SQLite
  make of them.  The database file has rows of an earlier run.
* `SourceLines` is the reader of source lines: the table of offsets, the line,
  its neighbours, the caret.  A file is a sequence of characters.  The last
  character of a line that does not end in a newline is read from memory nobody
  wrote, and is any of `Garbage`.

And `ClangPlugin` is mull-cxx-frontend: arguments, the search of each top-level
declaration, the replacement of one node after the other, the records.  The tree
is a heap, numbered in the order in which the visitor comes to its nodes.  The
parents are those of Clang's parent map, which the first `getParents` makes, of
the declarations parsed by then (`known`), and which is not made again.  An
expression is put below a statement or a variable; where there is neither, or no
parent, an assertion fails, and in a build without assertions the mutant is
recorded and nothing is replaced.  Both builds are modelled (`assertions`): Debug and
Release builds have them (`CMakeLists.txt:68-70`), others do not.  An identifier is a mutator and the
place where the expression is spelled (`spot`), which the expansions of a macro
share.  The points found are a set; `Before` is the order they are found and
performed in.  `Meaning` is what a node computes under the flags that are set: an
operator and the meanings of its operands.

`MCTaskExecutor`, `MCRunner`, `MCMutantRunner` and `MCMutationPreparation` give
the constants of their component for TLC.  `MCDriver`, `MCSearch` and
`MCMutations` put together components that answer one question and share no
state: `part`, chosen at the start, says which of them a behaviour is about, and
the others keep idle values.  The inputs of these components are defined there.
`MCDriver` and `MCSearch` extend all their components, and `MCMutations` extends
`Mutators` and `ClangPlugin` and instantiates `LogicalOperators`: TLC evaluates
the assumptions of what is extended.
`TaskExecutorProofs`, `RunnerProofs`, `MutantRunnerProofs`,
`MutationPreparationProofs`, `DriverProofs`, `FiltersProofs`, `ASTStorageProofs`
and `ReportsProofs` hold the proofs: `FiltersProofs` those about `MutatorsFactory`
too, `ASTStorageProofs` those about `JunkDetector`, `CompilationDatabase` and
`ClangPlugin`, `ReportsProofs` those about `SourceLines`.  RECURSIVE operators, over
trees of operators, are used in `LogicalOperators` only, which has no theorem;
`Meaning` is a recursive function.

Operators with a comment `Mutant of ...` are faulty variants of the definition
after them.  `PROJECT.json` pairs each with the property that notices it; no
specification uses them.

`PROJECT.json` has the map from definitions to source lines.

## Runs

| Run | Shows |
|---|---|
| `pool` | up to 5 items and 3 tasks, with 0 and 1 of either; items with no, one and two results, and one that may end the process. Output order, disjoint batches, valid references, progress within its bounds and never going back, termination, refinement of `OrderedMap` |
| `run_program` | deadlines of 0 to 4 ticks at 2 ticks per millisecond; programs that need less, as much, more, or never end; output from nothing to more than the pipe; a left-behind process that ends. The result is one of `RunOutcome`'s, the output is complete, the call returns |
| `mutants` | 2 mutants, 20 programs for each and for the original. Equivalent mutants survive a healthy suite, survivors passed, hanging mutants are killed, every mutant gets a result |
| `preparation` | 2 bitcode files, 3 functions, up to 4 points with 2 identifiers, any coverage, dry run or not. No two tasks in one LLVM context, baseline unchanged, mutants isolated, covered mutants are the ones that change something, records agree with the mutants |
| `driver` | What a run leaves and reports: `Driver`, `Reports`, `SourceLines` |
| `search` | Which mutations are found and kept: `MutatorsFactory`, `Filters`, `ASTStorage`, `JunkDetector`, `CompilationDatabase` |
| `mutations` | What a mutant computes: `Mutators`, `LogicalOperators`, `ClangPlugin` |

The last three by component:

| Component | Inputs | Properties |
|---|---|---|
| `Driver` | 2 bitcode files, 2 mutants, 2 workers, all combinations of options, a warning or failure at every call of `Diagnostics`, on main and on the pools' threads | `ExitFinal`: once a thread is in `exit`, no other gets there and main starts nothing more. `FilesRight`: object files removed, the executable kept where it should be. `VerdictsSound`: reports complete, strict mode stops, the sanity check comes before any verdict. `Terminates` |
| `Reports` | up to 2 points, both tools, 5 lists of reporters, an earlier run's rows | `ReportsRight`: the reporters agree, the database has one run, a covered mutant is run |
| `SourceLines` | all files of up to 5 characters, newline and tab among them | `SourceShown`: the right line, the right neighbours, the caret below its column |
| `MutatorsFactory` | no name, each name, each pair of groups; a second call after the first has emptied the mapping | `MutatorsServed`: selections are answered with what their groups reach, the reporter finds each mutator, all are on offer |
| `Filters` | 3 functions in 2 units and a header, all diffs of 2 files of 3 lines, all profiles, with and without path lists | `NeverAskedNull`: the path filter never sees a null location. `NothingLostSilently`: what was asked for is lost with a warning at most. `OnlyWanted`: what is mutated was executed (where names differ) and selected |
| `ASTStorage` | 2 workers, 6 points in four units: junk of each kind, one whose file is gone; a tree may come out null | `VerdictsRight`: no tree is replaced in use, and a verdict is that of the tree unless an unlocked query met another one. `PointsJudged`: all points get one, unless Mull crashes on a null tree |
| `JunkDetector` | up to 3 functions, disjoint or nested, at 9 positions, and each kind of node | `JunkRight`: the binary search finds the outermost function, the visitor the innermost call, no real mutation is dropped |
| `CompilationDatabase` | 2 units, of like names in different directories or not, in the bitcode, the database, both or neither | `FlagsRight`: each is parsed with its own flags, the user's come last |
| `Mutators` | all operators on all 3-bit integers of both signs, with overflow checks, on floats with NaN, and on booleans; comparisons and numbers within a negation | `OperatorReplaced`: the mutant computes what the description says wherever sign and NaN do not matter. `OperatorFound` |
| `LogicalOperators` | all `&&` and `\|\|` over two and three operands, nested on the left or on the right, each negated or not, as condition and as value, with and without an `if` after it | `LogicalReplaced`: operators of plain operands become the other one. `SingleSkipVerifies`: where at most one block of the left side skips the right operand the result verifies. `MutantReturns` |
| `ClangPlugin` | 11 bodies in one function, or two functions, up to 2 or all mutators, user and system code, macros, with and without assertions | `OriginalKept`: without a flag the tree means the original, main and system code stay, the plugin stops for known reasons only. `MutantsRight`: each identifier is its mutations |

These three do not check for deadlock: a tool that has reported, a worker
without points and a mutant that has returned are through.  That they get there
is what `Terminates`, `PointsJudged` and `MutantReturns` say.

The other runs show where the code does not do what its documentation, a comment
or an assertion says.  Each checks one property and is expected to violate it:

| Run | Shows |
|---|---|
| `run_program_daemon` | a process that outlives the killed child and has its pipes open keeps `drain`, and Mull, waiting for ever |
| `run_program_verbose` | a fast program that prints more than a pipe holds is Timedout |
| `mutants_failing_suite` | if the suite fails without a mutant, mutants that change nothing are killed: the baseline's status is not looked at |
| `mutants_fast_suite` | a baseline of less than a millisecond makes the timeout 0 and every mutant Timedout |
| `preparation_same_place` | of two mutations of one function with the same identifier only the last is ever executed |

Where a component deviates in a way its properties have to leave out, the
exception is written into the property and named here:

* `FilesRight`: a mutate-only run without mutants leaves no executable for
  mull-runner, because the driver returns before the linker; and it says nothing
  of the executable of a dry run, which never has one, whatever is asked for;
* `OnlyWanted`: `&&` and `||` outside the lines of a Git diff are mutated, as
  their mutators do not look at the selected instructions; and a static function
  that was not executed is covered if an external one of its name was;
* `VerdictsRight`: workers ask the source manager of one tree for the kind of
  header, for offsets and for lines without the tree's mutex
  (`CXXJunkDetector.cpp:201, 214, 221`); a point is excepted if one of its queries
  met one of another point, and one of the two had no mutex (`excused`);
* `PointsJudged`: a tree Clang could not build is cached and used like any other,
  and a spoiled location fails an assertion (`crashed`);
* `JunkRight`: one literal keeps every scalar mutation of its function;
* `FlagsRight`: a relative file name stays among the flags;
* `OperatorReplaced`: an unsigned `*` becomes a signed division, a
  floating-point `==` an ordered `!=`, which is false for NaN, and
  cxx_rshift_to_lshift describes itself as its opposite;
* `LogicalReplaced` (`Simple`): the mutation of the outer operator of
  `(a && b) && c` changes the inner one;
* `SingleSkipVerifies`: with two blocks that skip the right operand a rewritten
  branch can leave a PHI node that does not verify, and Mull ends;
* `SourceShown`: column 0 makes the reader write before its string (the stage
  "outside");
* `ReportsRight`: mull-runner runs and counts a mutant once per record; after a
  dry run every mutant counts as killed; a colon in a path makes mull-runner crash
  on the record;
* `OriginalKept`, `MutantsRight`: the second mutation of one expression no longer
  finds it below its parent; the mutation of an initializer overwrites that of
  its variable; a variable without initializer is a null dereference; an
  expression below no statement and no variable (the bound of an array, a
  `static_assert`), and every one in a function after the first mutated one that
  Clang's parent map lacks, has no place: the plugin stops, or records a mutant that
  changes nothing (`ClangASTMutator.cpp:37-41`); a void call that is an operand, as
  in `return f();`, becomes a statement where Clang wants an expression; and of
  expansions of one macro within each other, which share an identifier, the inner
  mutation is lost when the outer one is enabled with it.

Bounds.  Five items over three tasks make batches of unequal size (2, 2, 1), and
the spawn loop, the reporter's round and the merge all have more than two
rounds.  A deadline of four ticks has room for programs that end before, just
before, at and after it; `MaxTime` only stops the clock where no result depends
on it any more.  Works of 1, 2, 3 and 23 ticks lie below a millisecond, at it,
above it, and beyond ten times a baseline of one.  Four points are
enough for an identifier that is repeated within a function, in two functions of
one bitcode file, and across bitcode files with different coverage.  Two bitcode
files on two workers let both fail, or one fail while the other writes.  Three
operands are the fewest with an operator inside another.  Three bits have a
sign, an overflow in each direction and shifts by more than a place; shifts of
negative numbers and by the width or more are undefined in C++ and left out.
`MaxCalls` is 2 because a call after the first is like the second: the mapping
only depends on what is left in it.  Six points on two workers, three of them in one unit, make each kind
of query meet each other in one tree, and pass each other in two.  Nine positions hold two
functions beside or inside each other with room for nodes.  Five
characters make an empty line between two others and a last line with and without
a newline.

Fairness.  In `TaskExecutor` every thread that can run does: the operating
system schedules them and nothing in the pool is locked.  A task is assumed to
leave the body of its loop; for the mutant runs that is `Returns` of `Runner`.
In `Runner` the clock and the processes go on when they can, and a left-behind
process ends if it is of that kind.  `MutantRunner` assumes that its runs
return.  `Driver` assumes that some thread goes on (weak fairness of `Next`): a
thread is never without a next step except while another is inside `exit`, and
`exit` ends the process.  In `ASTStorage` each worker goes on when it holds what
it needs; a mutex is only ever wanted by workers that release it after finitely
many steps.  `LogicalOperators` assumes that the processor goes from block to
block.  `MCDriver`, `MCSearch` and `MCMutations` state the fairness of these
components; the others have no liveness property and no fairness.

## Proofs

`TaskExecutorProofs` proves, for every number of items and tasks, every task and
every interleaving, the types (`TypeCorrect`), the invariants that `pool` checks
(`OutputOrder`, `Exclusion`, `NoDanglingReference`, `ProgressBound`,
`ReporterLast`) and that every step of the pool is a step of `OrderedMap`
(`PoolImplementsOrderedMap`).  None of the properties is inductive: they follow
from `Inv`, which says where each batch begins.  `BatchStart` is a closed form of
the sum of the first batches, `k * (n \div m)` plus the smaller of `k` and
`n % m`, and `BatchesPartition` proves that it is one: this is the assertion
`s == n` of `taskBatches`, and it needs no induction over data.  `Inv` then says

* main: thread `w` was given the batch `Start(w - 1)..Start(w)`, the vectors
  have the capacity reserved for them, threads not yet spawned are idle, and
  during the merge `out` is `Sequential` of the batches merged;
* tasks: the storage `w` holds the difference between `Sequential` at `it` and
  at the beginning of the batch, and the counter is the number of items passed;
* reporter: `current` is at most the sum of the batches read, and equal to it
  only if each of their counters is at the end.  As counters only grow, this
  survives the steps of the tasks, and `current = total` then means that every
  task is through.

The assumptions are those in the module: bounds are naturals, the task returns
sequences of values, `Sequential` is the fold of `Task`.

`MutantRunnerProofs` proves `EquivalentMutantsSurvive` and
`SurvivorsArePassing` for every set of programs and mutants, clock resolution,
pipe size and timeout.  The invariant says that every stored result is an outcome
of the run it stands for.  The arithmetic behind the first is
`TenTimesTruncated`: ten times a duration truncated to milliseconds, if that is
not 0, exceeds five times the duration; `Healthy` asks just that.

`MutationPreparationProofs` proves the types (`TypeCorrect`) and all the
invariants that `preparation` checks (`BaselineUnchanged`, `IsolatedMutants`,
`CoveredMutantsActive`, `RecordsComplete`, `ContextsNeverShared`) for every
program, list of points, coverage and number of workers.  They only speak of the
prepared program, so the invariant has to say what it is on the way there.
`Through` tells whether an item has had its turn in the current pass, and
`Cloned`, `Deleted`, `Redirected` and `Applied` which passes a function or a
point has behind it.  `Inv` gives body, copy, checks, clone and record of each
as a function of these, says that `mutationPoints` holds every point with its
own function, and that a dry run leaves everything alone.  A task that is done
with a bitcode file moves exactly its functions on (`LeaveFacts`); the start of
a pass moves nothing on, because the one before has left no item (`NextPassInv`,
from `SameProgress`).  `ExecutedFacts` then says what a trampoline calls; it
needs the last of a set of positions to exist, which follows from the
well-foundedness of the naturals (`LeastExists`, `LastIn`).  The one assumption
is the module's: functions are in bitcode files, and points are in functions and
have identifiers.

`DriverProofs` proves all that `driver` checks of `Driver` but its end
(`ExitIsFinal`; `FilesAsAsked`, from `ObjectFilesGone` and `ExecutableRight`;
`VerdictsReliable`, from `ReportsComplete`, `StrictModeStops` and
`SanityFirst`) and the types, for every set of bitcode files and mutants and
every number of workers.  They speak of the end of a run, so `Inv` says how it
got there: inside `exit` is main where it is alone, in a pool a thread whose item is
not ready, and nobody when the run is done (`ExitInv`), so that main waits in join
for as long as a thread of the pool is there; a warning in strict mode is an `exit` (`WarningInv`);
results come with the last step before the report (`ResultInv`); an object file
on the disk belongs to a task that is about to return it, was returned, or will
not be (`ObjectInv`); between the linker and the end of the mutants' runs exactly
one executable is there (`ExecutableInv`).

`TaskExecutorProofs` also has the action property, `ProgressNeverBack`.  The
reporter adds up counters that move while it does so, and what it shows is the sum
of values that were never there at one time.  `RoundInv` therefore keeps, as
witnesses of an existential, the running sums of the last round that printed and
of the current one.  Their differences are what was read of each counter; as
counters only grow, the older sum never exceeds the newer one at the same place.

`RunnerProofs` proves the types, `ResultsKnown` and `WholeOutput` for every
program, timeout, pipe size and clock resolution.  `OutputInv` accounts for each
unit the child wrote: it is in the pipe or was read.  `ClockInv` says that while
the runner waits, the clock shows what the child has worked and was held up, and
no later time than the deadline; so a child that ends before `wait` gives up has
worked as long as `RunOutcome` says, and one that is killed has not had the time.
`RunnerAssumption` gives programs and timeouts their types, and the clock room for
every deadline.  With `ResultsKnown`, the results of `MutantRunnerProofs` rest on
`runProgram` itself.

`FiltersProofs` proves `PathFilterSafe`, `NothingUnwanted` and `NothingLost` for
all programs, diffs, profiles and options.  The invariant says what the lists of
filters are (`WiredInv`) and gives the functions, the selected instructions and
the points at each stage in closed form, as what the filters so far let through.
`DiffLines` proves that the ranges read from a diff cover the changed lines and no
other: every changed line is in one maximal block of changed lines, which is
the hunk that names it; the least and the greatest line of a block come from the
well-foundedness of the naturals.  `FiltersAssumption` gives the program its types
and bounds the lines by `MaxLine`, an arbitrary natural.

The same module proves `FactoryReliable` about `MutatorsFactory`, for all selections
and any number of calls.  `FactoryInv` says that a reporter's factory keeps all
its mutators, that the command line's has none but mutators, so that the next
`init()` completes it, and that the last answer was what the request expands to,
all alive.

`ASTStorageProofs` proves `VerdictsReliable` for any number of workers, points and
units.  `WorkerInv` says what a worker knows by where it is: while it uses a tree,
that is the tree the cache has, and the only worker that may put another there
holds the mutex and has found none.  A worker inside `getLocation` or `getDecl`
holds the tree's mutex, so two that do are of different trees; whoever has met
another query is excused and shares its unit (`BeginInv`), and a worker that is
not has been told the truth.  `ASTAssumption` says that each point has a
unit and a verdict.

The same module proves `JunkReliable`, for all functions and nodes of a file and all
locations.  `RecordedOutermost` says that `std::unique` keeps the outermost functions
and no other: its predicate is no equivalence, but on functions that are disjoint or
one within the other it leaves no choice.  Of these, which are disjoint, the binary
search finds the one around a location if there is one (`FindDeclOutermost`), and
`InnermostFound` says that the node a visitor finds is the smallest around it.
`JunkInv` carries this through the steps of `isJunk`.  `JunkAssumption` has the
nesting, for functions and for nodes of one class, and no two functions begin at
the same token.

It proves `FlagsReliable`, for all sets of units, whatever their directories and
names.  `FlagsInv` says that each answer is the one the unit's own command line
gives (`OwnAnswer`).  `KeyFacts` is the reason: a lookup under a path, its file name
or the path without dots meets no other unit's key, because keys are absolute
paths and no two units are of one file.  What normalising a path yields is left open, so
no induction over its components is needed.  `FlagsAssumption`: directories are
absolute, no two units are of one file, and a flag is neither a file name nor
among the flags given to Mull.

And it proves `OriginalReliable` and `MutantsReliable` about `ClangPlugin`, for all
trees, declarations and selections of mutators.  `PluginInv` says what the heap is
after any number of replacements.  A node that was parsed has its kind and operator,
and for each operand it had, that operand or a condition whose record replaced it
(`AllStandFor`), never the bare operand once it was replaced; the j-th record has a
new node and a condition at places known from j; declarations that are not
mutated, or whose turn has not come, are as they were parsed; and what waits is
below the declaration in hand.  A record without a place (`HasPlace`) has a
condition that nothing refers to (`NowhereFacts`); `KnownInv` says that the
parent map is there before the first record.  `ReplacedFacts` shows
that `std::find` fails for nothing but an expression that was replaced before,
which is the assertion in `replaceExpression`.  What the tree means follows in three steps:

* `Depth` puts a condition and its new node between the node they replace and its
  parent, so that depths grow from a node to its operands (`HeapDeepens`): the
  heap has no circle, whatever is nested in what;
* the equation of the recursive function `Meaning` is then a theorem
  (`MeaningEquation`): a solution for the nodes from depth k on extends to those
  at depth k - 1.  `NothingLast`, a set of places with a bound has a last one,
  replaces the induction;
* a `Valuation` says what the parsed nodes should mean, those of one enabled mutant
  excepted, and `HeapValuation` that they do: of the nodes that mean something else
  each has such a node below it, so there is none.  The parsed tree is one
  valuation (`NothingEnabled`), the tree an identifier is meant to make the other
  (`OneEnabled`), for as many points as share it.

`PluginAssumption`: what was parsed is a tree, each operator has the operands of its
kind, and declarations share no nodes.

`ReportsProofs` proves `ReportsReliable`.  `Inv` says that the list, once there, has
exactly the identifiers of the points, with a covered entry for each covered
point (`ListingRight`), that there is a status for each entry (`StatusesRight`),
and that each report is the one of this list and these statuses
(`ReportsFresh`).  The list of mull-cxx needs that a finite set
becomes a sequence of its elements (`SetToSeqFacts`); the one of mull-runner that a
record with numbers in its third and fourth place has a path of one part, so that
what is read is what was written (`RecordFacts`).  Killed, survived and not covered
are a partition of the list (`PartitionCount`), and the quotient in the score is
100 only if all are killed (`FullScore`).  `ReportsAssumption` says that lists and
paths are sequences, and that no run of a mutant gives NotCovered.

The same module proves `SourceReliable` about `SourceLines`, for all files.  The
table of offsets is the set of the newlines in ascending order, and a line of the
file ends at a newline or at the end.  `Ascending` takes the element of rank k for
place k; ranks grow with the elements, so they are an injection into, and
then onto, the numbers up to the size of the set (`RankFacts`): no induction is
needed.  The end of a file without a last newline comes after all newlines and
leaves their ranks alone (`AscendingAppend`).  `LineFacts` compares the two
sequences place by place, `LineShown` and `EndShown` say what `getLine` returns,
and `ReadInv` that what is printed was returned by it.  `SourceAssumption`: files
are sequences, columns naturals.

TLC also checked each of these inductive invariants on the inputs of the runs
(`RoundInv` with its witnesses bounded by the number of items).

Only model-checked:

* liveness (`Termination`, `Returns`, `AllReported`, `Terminates`, `PointsJudged`,
  `MutantReturns`): out of TLAPS's reach;
* `LogicalReplaced` and `SingleSkipVerifies`: Clang's lowering of `&&` and `||` is
  recursive over trees of operators, and what it yields for every tree takes an
  induction over them;
* `OperatorReplaced` and `OperatorFound`: the values come out of bitwise
  operations and of powers of two, which the provers do not know.

## Plan

In this order; all but the last group is done.

1. The modules of the run of Mull, with their proofs.
2. What is mutated, junk, reports and the plugin.
3. Proofs about `Runner`, `Filters`, `ASTStorage`, `Reports` and `SourceLines`, and
   `ProgressMonotone`.
4. Proofs about `MutatorsFactory`, `JunkDetector`, `CompilationDatabase` and
   `ClangPlugin`, whose definitions were put without RECURSIVE operators for it.
5. Left: lemmas about single opcodes in `Mutators`, where these can be stated
   without bitwise operators, and about blocks in `LogicalOperators`.

Not modelled:

* the rewriting by cxx_remove_void_call and scalar_value_mutator: which value
  they put where depends on LLVM types only.  Their points are in
  `JunkDetector`, their names in `MutatorsFactory`;
* parsing of the command line and the dumps of options: `llvm::cl`'s work;
* decoding of bitcode, code generation and the linker: LLVM's and the system's;
* regular expressions, the splitting of flags at spaces, the layout of reports
  and messages: text without a state;
* the rounding of doubles in the score (`IDEReporter.cpp:118`), source files
  that change or go between the build and the report, and names of records that
  collide;
* Clang's class hierarchy and the construction of nodes in the plugin's
  `ASTNodeFactory`: a node has a class and a place, and a macro is the place its
  expansions share; the names of the plugin's record variables, two of which may be
  the same (`ASTInstrumentation.cpp:30`);
* operands of an operator that are operations themselves, in `Mutators`: what nests
  is the matter of `JunkDetector`.  Clang emits no `frem` for `%`, which
  cxx_rem_to_div would take;
* `BitcodeLoadingTask`, which only tests use, and `SingleTaskExecutor`, which
  calls a function.
