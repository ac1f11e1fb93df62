-------------------------------- MODULE Driver --------------------------------
(***************************************************************************)
(* One run of mull-cxx, from its options to its exit status: what the      *)
(* driver does in which order, which temporary files it leaves, and how    *)
(* Diagnostics ends the process from any thread.                           *)
(*                                                                         *)
(* exit(1) is called with the mutex of Diagnostics held, which is never    *)
(* released: the other threads run on until the process is gone, and stop  *)
(* at their next message.  Which points are found and mutated is the       *)
(* matter of modules Filters and MutationPreparation; what a run of a      *)
(* mutant results in is that of MutantRunner and Runner.                   *)
(*                                                                         *)
(* A thread of a pool is named by the item it works on.  It takes the next *)
(* item when it has returned from the last one; in which order the items   *)
(* are taken is left open.  An item whose thread called exit never gets    *)
(* ready, and main waits for it in join.                                   *)
(***************************************************************************)
EXTENDS Integers, FiniteSets

CONSTANTS
  Bitcode,    \* the bitcode files embedded into the executable
  Mutants,    \* the mutants there can be; here each has one mutation point
  Workers     \* config.parallelization.workers, also those that run mutants

Main  == "main"
Items == Bitcode \cup Mutants

ASSUME WorkersAssumption == Workers \in Nat \ {0}
ASSUME ItemsAssumption == Bitcode \cap Mutants = {} /\ Main \notin Items

VARIABLES
  options,    \* the command line
  stage,      \* where main() is
  task,       \* what the pool does with each item
  program,    \* the bitcode files that were loaded
  sanity,     \* status of the sanity check run, "skipped" or "none"
  warned,     \* Diagnostics::warning was called
  exiting,    \* the threads that called exit(1)
  mutants,    \* the mutants found, and those left by the filters
  objects,    \* what the compiler returned: object files, or "" for a file
  executable, \* what the linker wrote to: "temp", "output" or "none"
  files,      \* the files on the disk that this run made
  results,    \* the mutants that have a result
  reported    \* the reporters were called

vars == <<options, stage, task, program, sanity, warned, exiting, mutants,
          objects, executable, files, results, reported>>
run  == <<options, program, sanity, mutants, results, reported>>

Statuses == {"Passed", "Failed", "Timedout", "Crashed"}
Stages   == {"validate", "extract", "load", "setup", "sanity", "search", "filter", "prepare",
             "compile", "link", "clean", "warmup", "baseline", "execute", "report", "done",
             "ended"}
Steps    == {"todo", "verified", "object", "loaded", "dropped", "kept", "empty", "running",
             "done"}

Object(b)   == <<"o", b>>
BcFile(b)   == <<"bc", b>>
Temp        == <<"exe", "temp">>
Output      == <<"exe", "output">>
File(exe)   == IF exe = "temp" THEN Temp ELSE Output

Options == [strict : BOOLEAN, debugEnabled : BOOLEAN, dryRun : BOOLEAN,
            mutateOnly : BOOLEAN, keepObjectFiles : BOOLEAN,
            keepExecutable : BOOLEAN, outputFile : BOOLEAN]

TypeOK ==
  /\ options \in Options
  /\ stage \in Stages
  /\ task \in [Items -> Steps]
  /\ program \subseteq Bitcode
  /\ sanity \in Statuses \cup {"skipped", "none"}
  /\ warned \in BOOLEAN
  /\ exiting \subseteq Items \cup {Main}
  /\ mutants \subseteq Mutants
  /\ objects \subseteq {<<"o", "">>} \cup {Object(b) : b \in Bitcode}
  /\ executable \in {"temp", "output", "none"}
  /\ files \subseteq {Object(b) : b \in Bitcode} \cup {BcFile(b) : b \in Bitcode}
                       \cup {Temp, Output}
  /\ results \subseteq Mutants
  /\ reported \in BOOLEAN

Init ==
  /\ options \in Options
  /\ stage = "validate"
  /\ task = [i \in Items |-> "todo"]
  /\ program = {}
  /\ sanity = "none"
  /\ warned = FALSE
  /\ exiting = {}
  /\ mutants = {}
  /\ objects = {}
  /\ executable = "none"
  /\ files = {}
  /\ results = {}
  /\ reported = FALSE

-------------------------------------------------------------------------------
\* Mutant of Free: exit(1) is called after the lock was released.
FreeAlways == TRUE

\* The mutex of Diagnostics is free: no thread is in exit(1).
Free == exiting = {}

\* Diagnostics::error by thread t.
Error(t) ==
  /\ Free
  /\ exiting' = exiting \cup {t}
  /\ UNCHANGED warned

\* Mutant of Warning: strict mode warns and goes on.
WarningStays(t) ==
  /\ Free
  /\ warned' = TRUE
  /\ UNCHANGED exiting

\* Diagnostics::warning by thread t.
Warning(t) ==
  /\ Free
  /\ warned' = TRUE
  /\ exiting' = IF options.strict THEN exiting \cup {t} ELSE exiting

Quiet == UNCHANGED <<warned, exiting>>

\* main() is here and not inside exit(1), and goes on if it does not enter it.
At(s)   == stage = s /\ Main \notin exiting
Goes(s) == stage' = IF Main \in exiting' THEN stage ELSE s

\* A thread of the pool is free to take another item.
Busy == {i \in Items : task[i] \in {"verified", "object", "running"}} \cup (exiting \ {Main})
FreeWorker == Cardinality(Busy) < Workers

\* Item i gets to step s, unless its thread is now inside exit(1).
Gets(i, s) == task' = IF i \in exiting' THEN task ELSE [task EXCEPT ![i] = s]

-------------------------------------------------------------------------------
(* main() up to Driver::run().                                             *)

\* validateInputFile.
ValidateInputFile ==
  /\ At("validate")
  /\ Quiet \/ Error(Main)
  /\ Goes("extract")
  /\ UNCHANGED <<run, task, objects, executable, files>>

\* The bitcode retriever; an architecture without bitcode is a warning.
ExtractBitcode ==
  /\ At("extract")
  /\ Quiet \/ Warning(Main)
  /\ Goes("load")
  /\ UNCHANGED <<run, task, objects, executable, files>>

\* LoadBitcodeFromBinaryTask for one file: a module that cannot be parsed is a
\* warning and is left out; one without debug information is a warning.
LoadBitcode(b) ==
  /\ stage = "load" /\ task[b] = "todo" /\ b \notin exiting
  /\ FreeWorker
  /\ \/ (Quiet \/ Warning(b)) /\ Gets(b, "loaded")
     \/ Warning(b) /\ Gets(b, "dropped")
  /\ UNCHANGED <<run, stage, objects, executable, files>>

\* The pool has joined.
Loaded ==
  /\ At("load")
  /\ \A b \in Bitcode : task[b] \in {"loaded", "dropped"}
  /\ program' = {b \in Bitcode : task[b] = "loaded"}
  /\ stage' = "setup"
  /\ UNCHANGED <<options, sanity, mutants, results, reported, warned, exiting, task, objects,
                 executable, files>>

\* The compilation database, the reporters, the mutators and the filters, which
\* all can warn; for the Git filter a program is run, which may not start.
Configure ==
  /\ At("setup")
  /\ Quiet \/ Warning(Main) \/ Error(Main)
  /\ Goes("sanity")
  /\ UNCHANGED <<run, task, objects, executable, files>>

-------------------------------------------------------------------------------
(* Driver::run().                                                          *)

Sane(status) == status = "Passed"

\* The sanity check of findMutationPoints, which mutate-only skips: any other
\* status than Passed is a warning, and an executable that cannot be started
\* an error.
SanityCheckRun ==
  /\ At("sanity")
  /\ \/ options.mutateOnly /\ sanity' = "skipped" /\ Quiet
     \/ /\ ~options.mutateOnly
        /\ \/ \E s \in Statuses : sanity' = s /\ (IF Sane(s) THEN Quiet ELSE Warning(Main))
           \/ Error(Main) /\ UNCHANGED sanity
  /\ Goes("search")
  /\ UNCHANGED <<options, program, mutants, results, reported, task, objects, executable, files>>

\* The rest of findMutationPoints.  Coverage information that is missing or
\* cannot be read warns.
FindMutants ==
  /\ At("search")
  /\ Quiet \/ Warning(Main)
  /\ mutants' \in IF program = {} THEN {{}} ELSE SUBSET Mutants
  /\ Goes("filter")
  /\ UNCHANGED <<options, program, sanity, results, reported, task, objects, executable, files>>

\* filterMutations for one point: the junk filter warns of a source that is not
\* there and of one that cannot be parsed.
FilterPoint(m) ==
  /\ stage = "filter" /\ m \in mutants /\ task[m] = "todo" /\ m \notin exiting
  /\ FreeWorker
  /\ Quiet \/ Warning(m)
  /\ \E s \in {"kept", "dropped"} : Gets(m, s)
  /\ UNCHANGED <<run, stage, objects, executable, files>>

\* The pool has joined; prepareMutations and the deduplication follow.
Filtered ==
  /\ At("filter")
  /\ \A m \in mutants : task[m] \in {"kept", "dropped"}
  /\ mutants' = {m \in mutants : task[m] = "kept"}
  /\ task' = [i \in Items |-> "todo"]
  /\ stage' = "prepare"
  /\ UNCHANGED <<options, program, sanity, results, reported, warned, exiting, objects,
                 executable, files>>

\* What runMutations copies when there are no mutants.
CopiedExecutable == IF options.keepExecutable /\ options.outputFile THEN {Output} ELSE {}

\* Driver::runMutations, up to the compiler: no mutant, a dry run, or a
\* normal run.
RunMutations ==
  /\ At("prepare")
  /\ CASE mutants = {} ->
            /\ stage' = "report"
            /\ files' = files \cup CopiedExecutable
            /\ UNCHANGED results
       [] mutants # {} /\ options.dryRun ->
            stage' = "report" /\ results' = mutants /\ UNCHANGED files
       [] OTHER -> stage' = "compile" /\ UNCHANGED <<results, files>>
  /\ UNCHANGED <<options, program, sanity, mutants, reported, warned, exiting, task, objects,
                 executable>>

\* compileBitcode, its checks: the module verifies and the target is known.
VerifyModule(b) ==
  /\ stage = "compile" /\ b \in program /\ task[b] = "todo" /\ b \notin exiting
  /\ FreeWorker
  /\ Quiet \/ Error(b)
  /\ Gets(b, "verified")
  /\ UNCHANGED <<run, stage, objects, executable, files>>

\* The object file is created and written; it may be there when a later
\* check fails.
EmitObject(b) ==
  /\ stage = "compile" /\ task[b] = "verified" /\ b \notin exiting
  /\ \/ Error(b) /\ files' \in {files, files \cup {Object(b)}}
     \/ Quiet /\ files' = files \cup {Object(b)}
  /\ Gets(b, "object")
  /\ UNCHANGED <<run, stage, objects, executable>>

\* In debug mode a copy of the bitcode is kept, and a copy that cannot be
\* opened makes the result "" though the object file is there.
ReturnObject(b) ==
  /\ stage = "compile" /\ task[b] = "object" /\ b \notin exiting
  /\ \/ ~options.debugEnabled /\ Quiet /\ Gets(b, "done") /\ UNCHANGED files
     \/ /\ options.debugEnabled
        /\ \/ /\ Free /\ Quiet /\ Gets(b, "done")
              /\ files' = files \cup {BcFile(b)}
           \/ /\ Warning(b) /\ Gets(b, "empty")
              /\ files' = files \cup {BcFile(b)}
           \/ Error(b) /\ UNCHANGED <<task, files>>
  /\ UNCHANGED <<run, stage, objects, executable>>

\* The pool has joined, and the names the compiler returned are collected.
Compiled ==
  /\ At("compile")
  /\ \A b \in program : task[b] \in {"done", "empty"}
  /\ objects' = {IF task[b] = "done" THEN Object(b) ELSE <<"o", "">> : b \in program}
  /\ stage' = "link"
  /\ UNCHANGED <<run, warned, exiting, task, executable, files>>

\* linkObjectFiles: the temporary executable exists before the linker runs.
Link ==
  /\ At("link")
  /\ executable' = IF options.outputFile THEN "output" ELSE "temp"
  /\ \/ Quiet /\ files' = files \cup {File(executable')}
     \/ Error(Main) /\ files' = IF options.outputFile THEN files ELSE files \cup {Temp}
  /\ Goes("clean")
  /\ UNCHANGED <<run, task, objects>>

\* Mutant of RemovedObjects: the files go only after mutants have run.
RemovedObjectsLate == IF options.keepObjectFiles \/ options.mutateOnly THEN {} ELSE objects

RemovedObjects == IF options.keepObjectFiles THEN {} ELSE objects

\* The object files the compiler returned are removed, and mutate-only is done.
RemoveObjectFiles ==
  /\ At("clean")
  /\ files' = files \ RemovedObjects
  /\ stage' = IF options.mutateOnly THEN "report" ELSE "warmup"
  /\ UNCHANGED <<run, warned, exiting, task, objects, executable>>

\* The warm-up and the baseline run of MutantRunner::runMutants: an executable
\* that cannot be started is an error, and what the run results in is not looked
\* at.
RunOriginal ==
  /\ Quiet \/ Error(Main)
  /\ \/ At("warmup") /\ Goes("baseline")
     \/ At("baseline") /\ Goes("execute")
  /\ UNCHANGED <<run, task, objects, executable, files>>

\* MutantExecutionTask for one mutant: it is started, cannot be started, or is
\* not covered and gets its result at once.
StartMutant(m) ==
  /\ stage = "execute" /\ m \in mutants /\ task[m] = "todo" /\ m \notin exiting
  /\ FreeWorker
  /\ \/ Quiet /\ \E s \in {"running", "done"} : Gets(m, s)
     \/ Error(m) /\ UNCHANGED task
  /\ UNCHANGED <<run, stage, objects, executable, files>>

FinishMutant(m) ==
  /\ stage = "execute" /\ m \in mutants /\ task[m] = "running"
  /\ Quiet /\ Gets(m, "done")
  /\ UNCHANGED <<run, stage, objects, executable, files>>

\* The pool has joined, and the executable is removed.
RunMutants ==
  /\ At("execute")
  /\ \A m \in mutants : task[m] = "done"
  /\ results' = mutants
  /\ files' = IF options.keepExecutable THEN files ELSE files \ {File(executable)}
  /\ stage' = "report"
  /\ UNCHANGED <<options, program, sanity, mutants, reported, warned, exiting, task, objects,
                 executable>>

-------------------------------------------------------------------------------
Reporting == ~options.mutateOnly

\* The end of main(), which returns 0, unless a reporter fails: SQLite's does.
Report ==
  /\ At("report")
  /\ Quiet \/ (Reporting /\ Error(Main))
  /\ reported' = Reporting
  /\ Goes("done")
  /\ UNCHANGED <<options, program, sanity, mutants, results, task, objects, executable, files>>

\* Mutant of Exits: the process waits for its workers before it ends.
ExitsJoined == exiting # {} /\ Busy = {}

Exits == exiting # {}

\* exit(1) takes the process down.
Ended ==
  /\ Exits /\ stage # "ended"
  /\ stage' = "ended"
  /\ UNCHANGED <<run, warned, exiting, task, objects, executable, files>>

Next ==
  \/ ValidateInputFile \/ ExtractBitcode \/ Loaded \/ Configure \/ SanityCheckRun
  \/ FindMutants \/ Filtered \/ RunMutations \/ Compiled \/ Link \/ RemoveObjectFiles
  \/ RunOriginal \/ RunMutants \/ Report \/ Ended
  \/ \E b \in Bitcode : \/ LoadBitcode(b) \/ VerifyModule(b)
                        \/ EmitObject(b) \/ ReturnObject(b)
  \/ \E m \in Mutants : FilterPoint(m) \/ StartMutant(m) \/ FinishMutant(m)

\* Every thread runs on, and the programs Mull runs end (module Runner).
Spec == Init /\ [][Next]_vars /\ WF_vars(Next)

-------------------------------------------------------------------------------
\* Once a thread, whichever it is, is inside exit(1), the run is over: no other
\* thread gets into exit, which is not reentrant, and main starts nothing more,
\* be it by returning or by leaving a pool whose other threads still finish
\* their items.  (Diagnostics calls exit with its mutex held, and main joins
\* the threads of a pool.)
ExitFinal ==
  [][exiting # {} => exiting' = exiting /\ stage' \in {stage, "ended"}]_vars

\* A run that ends well without -keep-object-files leaves no object file but
\* those whose name the compiler did not return (a debug copy that could not
\* be opened, Compiler.cpp).
ObjectFilesRemoved ==
  stage = "done" /\ ~options.keepObjectFiles =>
    \A b \in Bitcode : Object(b) \in files => task[b] = "empty"

\* The executable of a run that ends well: it is there when the run was asked
\* to keep it under a name, mutants or not, and when it is what the run is for
\* (mutate-only with mutants); it is gone when the run was to be one step.
ExecutableKept ==
  stage = "done" /\ ~options.dryRun =>
    /\ options.keepExecutable /\ options.outputFile => Output \in files
    /\ options.mutateOnly /\ mutants # {} => File(executable) \in files
    /\ ~options.keepExecutable /\ ~options.mutateOnly => {Temp, Output} \cap files = {}

\* The reporters see a result of every mutant they see: they are not called
\* for a run that made mutants and executed none (Driver.cpp:265).
ReportComplete == reported => results = mutants

\* In strict mode no run ends well after a warning, whichever thread gave it.
StrictStops == stage = "done" => ~(options.strict /\ warned)

\* In strict mode the verdicts that are reported are about a program whose
\* original run passed (Driver.cpp:79).
SanityBeforeVerdicts ==
  reported /\ options.strict => sanity \in {"Passed", "skipped"}

\* A run that ends well leaves on the disk what its options ask for.
FilesRight == ObjectFilesRemoved /\ ExecutableKept

\* What is reported can be relied on: all mutants have a result, and in strict
\* mode no warning was passed over, that of the sanity check among them.
VerdictsSound == ReportComplete /\ StrictStops /\ SanityBeforeVerdicts

\* A run comes to its end, also when several threads fail at once.
Terminates == <>(stage \in {"done", "ended"})

===============================================================================
