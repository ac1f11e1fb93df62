-------------------------------- MODULE Filters -------------------------------
(***************************************************************************)
(* What Mull mutates: the functions that coverage leaves, the function     *)
(* filters, the instructions that a Git diff selects, the points mutators  *)
(* find in them, and the mutation filters, in the driver's order.  Each    *)
(* filter is one pass of a task pool over a list (module TaskExecutor);    *)
(* here a list is a set and a pass is a step.                              *)
(***************************************************************************)
EXTENDS Integers, Sequences, FiniteSets, SequencesExt

CONSTANTS
  Functions,  \* [name, static, unit, file, line, body]: the program's functions
  Sources,    \* the sequence of files under Git, in the order of a diff
  MaxLine,    \* the number of lines of a file
  PathLists,  \* the lists of -include-path and -exclude-path; a regular
              \* expression is the set of the paths it matches
  Executed    \* the sets of functions that the profile may record as executed

ASSUME FiltersAssumption ==
  /\ \A f \in Functions :
       /\ f.line \in Nat /\ f.static \in BOOLEAN
       /\ \A i \in f.body : i.line \in Nat /\ i.logical \in BOOLEAN /\ i.junk \in BOOLEAN
  /\ Sources \in Seq(Range(Sources))
  /\ MaxLine \in Nat

VARIABLES
  env,          \* the options and what is on the disk, fixed by Init
  stage,        \* the next step of the driver
  warned,       \* warnings were given
  gitDiffInfo,  \* the ranges of the diff, <<file, first line, count>>
  filters,      \* the three lists of filters
  functions,    \* the functions under test, <<function, covered>>
  selected,     \* the selected instructions of each function
  points,       \* the mutation points, <<function, covered, instruction>>
  cache,        \* FilePathFilter::cache, <<path, allow>>
  asserted      \* FilePathFilter was asked about a null location

vars == <<env, stage, warned, gitDiffInfo, filters, functions, selected, points, cache, asserted>>

Files    == Range(Sources)
Lines    == 1..MaxLine
Changes  == {"untouched", "deleted"} \X {{}} \cup {"modified"} \X SUBSET Lines
Base(path) == path[2]

-------------------------------------------------------------------------------
(* git diff -U0, and GitDiffReader.                                        *)

\* The maximal runs of changed lines, <<first line, count>>, or the one hunk of a
\* change that only deletes lines.
Hunks(lines) ==
  IF lines = {} THEN {<<1, 0>>}
  ELSE {<<r[1], r[2] - r[1] + 1>> :
          r \in {x \in lines \X lines : /\ x[1] <= x[2] /\ x[1]..x[2] \subseteq lines
                                        /\ x[1] - 1 \notin lines /\ x[2] + 1 \notin lines}}

\* The header of a hunk does not say the count 1.
HunkLine(hunk) == IF hunk[2] = 1 THEN <<hunk[1]>> ELSE hunk

\* What Git prints of one file: nothing, or a header and a header of every hunk.
FileDiff(file, change) ==
  CASE change[1] = "untouched" -> [header |-> <<>>, hunks |-> {}]
    [] change[1] = "deleted"   -> [header |-> <<"+++ /dev/null">>, hunks |-> {<<0, 0>>}]
    [] change[1] = "modified"  -> [header |-> <<"+++", file>>,
                                   hunks |-> {HunkLine(h) : h \in Hunks(change[2])}]

DiffContent(changes) == [i \in DOMAIN Sources |-> FileDiff(Sources[i], changes[Sources[i]])]

\* currentFileName in the hunks of the i-th file: the header of a file that is
\* gone does not match and leaves the name as it was.
CurrentFileName(content, i) ==
  LET named == {j \in 1..i : Len(content[j].header) = 2}
  IN  IF named = {} THEN <<>> ELSE content[Max(named)].header[2]

LineCount(line) == IF Len(line) = 2 THEN line[2] ELSE 1

ParseDiffContent(content) ==
  UNION {{<<CurrentFileName(content, i), line[1], LineCount(line)>> :
            line \in {l \in content[i].hunks : LineCount(l) > 0}} : i \in DOMAIN content}

\* Mutant of ReadGitDiff: a git that fails is as good as an empty diff.
ReadGitDiffQuiet ==
  [info |-> IF env.git = "fails" THEN {} ELSE ParseDiffContent(DiffContent(env.changes)),
   warned |-> FALSE]

\* readGitDiff; a git that fails is also one that does not end within 5 s.
ReadGitDiff ==
  IF env.git = "fails" THEN [info |-> {}, warned |-> TRUE]
  ELSE [info |-> ParseDiffContent(DiffContent(env.changes)), warned |-> FALSE]

-------------------------------------------------------------------------------
(* The filters.                                                            *)

\* SourceLocation::isNull, for locations that have no column without a line.
IsNull(location) == location.line = 0

Allow(path) ==
  /\ \/ env.include = <<>>
     \/ \E r \in Range(env.include) : path \in r
  /\ \A r \in Range(env.exclude) : path \notin r

\* FilePathFilter::shouldSkip(path): the cache decides once it has the path.
CacheAfter(paths) ==
  cache \cup {<<p, Allow(p)>> : p \in {q \in paths : \A c \in cache : c[1] # q}}

SkipsPath(known, path) == <<path, FALSE>> \in known

\* Mutant of InRange: the line after a hunk counts.
InRangeAfter(range, instruction) ==
  /\ range[1] = instruction.file
  /\ range[2] <= instruction.line /\ instruction.line <= range[2] + range[3]

InRange(range, instruction) ==
  /\ range[1] = instruction.file
  /\ range[2] <= instruction.line /\ instruction.line <= range[2] + range[3] - 1

GitDiffSkips(instruction) ==
  IsNull(instruction) \/ \A range \in gitDiffInfo : ~InRange(range, instruction)

\* FunctionUnderTest::selectInstructions.
SkipsInstruction(filter, instruction) ==
  CASE filter = "noDebugInfo" -> IsNull(instruction)
    [] filter = "gitDiff"     -> GitDiffSkips(instruction)

SelectInstructions(function) ==
  {i \in function.body : \A k \in DOMAIN filters.instruction :
                           ~SkipsInstruction(filters.instruction[k], i)}

\* Mutant of BaseFilters: the path filter goes first.
BaseFiltersSwapped == <<"filePath", "noDebugInfo">>

\* The filters main() always installs, for functions and for mutations.
BaseFilters == <<"noDebugInfo", "filePath">>

-------------------------------------------------------------------------------
(* Coverage.                                                               *)

\* The name of a function's record in a profile.
RecordName(f) == IF f.static THEN <<Base(f.unit), f.name>> ELSE <<f.name>>

\* The records with an execution count.
Records == {RecordName(f) : f \in env.executed}

\* getFunctionsUnderTest: a record without a file first, then one of the unit's
\* file name.
Covered(f) == <<f.name>> \in Records \/ <<Base(f.unit), f.name>> \in Records

FunctionsUnderTest ==
  IF env.coverage = "read"
  THEN {<<f, Covered(f)>> : f \in {g \in Functions : Covered(g) \/ env.includeNotCovered}}
  ELSE Functions \X {TRUE}

-------------------------------------------------------------------------------
Init ==
  /\ env \in [include : PathLists, exclude : PathLists, junkDetection : BOOLEAN,
              git : {"off", "no root", "no directory", "no path", "fails", "works"},
              changes : [Files -> Changes],
              coverage : {"none", "unreadable", "read"}, includeNotCovered : BOOLEAN,
              executed : Executed]
  /\ env.git \in {"fails", "works"} \/ \A f \in Files : env.changes[f] = <<"untouched", {}>>
  /\ env.coverage = "read" \/ env.executed = {}
  /\ stage = <<"wire", 0>>
  /\ warned = FALSE
  /\ gitDiffInfo = {}
  /\ filters = [function |-> <<>>, instruction |-> <<>>, mutation |-> <<>>]
  /\ functions = {}
  /\ selected = {}
  /\ points = {}
  /\ cache = {}
  /\ asserted = FALSE

\* The filters main() sets up.  A Git root that is not given, is no directory or
\* has no real path is a warning, and all lines are mutated.
WireFilters ==
  /\ stage = <<"wire", 0>>
  /\ LET incremental == env.git \in {"fails", "works"}
     IN  /\ filters' = [function |-> BaseFilters,
                        instruction |-> IF incremental THEN <<"noDebugInfo", "gitDiff">>
                                        ELSE <<"noDebugInfo">>,
                        mutation |-> IF env.junkDetection THEN Append(BaseFilters, "junk")
                                     ELSE BaseFilters]
         /\ gitDiffInfo' = IF incremental THEN ReadGitDiff.info ELSE {}
         /\ warned' = (env.git \in {"no root", "no directory", "no path"}
                       \/ (incremental /\ ReadGitDiff.warned))
  /\ stage' = <<"gather", 0>>
  /\ UNCHANGED <<env, functions, selected, points, cache, asserted>>

GetFunctionsUnderTest ==
  /\ stage = <<"gather", 0>>
  /\ functions' = FunctionsUnderTest
  /\ warned' = (warned \/ env.coverage = "unreadable"
                \/ (env.coverage # "read" /\ env.includeNotCovered))
  /\ stage' = <<"functions", 1>>
  /\ UNCHANGED <<env, gitDiffInfo, filters, selected, points, cache, asserted>>

\* One filter of a list is asked about locations, and skips some of them.
FilePathStep(filter, locations) ==
  IF filter = "filePath"
  THEN /\ asserted' = (asserted \/ \E l \in locations : IsNull(l))
       /\ cache' = CacheAfter({l.file : l \in locations})
  ELSE UNCHANGED <<asserted, cache>>

Skips(filter, location) ==
  CASE filter = "noDebugInfo" -> IsNull(location)
    [] filter = "filePath"    -> SkipsPath(cache', location.file)
    [] filter = "junk"        -> location.junk

\* One turn of the loop in filterFunctions.
FilterFunctions ==
  /\ stage[1] = "functions" /\ stage[2] <= Len(filters.function)
  /\ LET filter == filters.function[stage[2]]
     IN  /\ FilePathStep(filter, {f[1] : f \in functions})
         /\ functions' = {f \in functions : ~Skips(filter, f[1])}
  /\ stage' = <<"functions", stage[2] + 1>>
  /\ UNCHANGED <<env, warned, gitDiffInfo, filters, selected, points>>

\* Driver::selectInstructions.
Select ==
  /\ stage[1] = "functions" /\ stage[2] > Len(filters.function)
  /\ selected' = {<<f[1], SelectInstructions(f[1])>> : f \in functions}
  /\ stage' = <<"find", 0>>
  /\ UNCHANGED <<env, warned, gitDiffInfo, filters, functions, points, cache, asserted>>

\* The mutators of && and || walk all instructions, the others the selected
\* ones.
Candidates(f) ==
  {i \in f.body : i.logical} \cup
  {i \in UNION {s[2] : s \in {x \in selected : x[1] = f}} : ~i.logical}

\* MutationsFinder::getMutationPoints.
GetMutationPoints ==
  /\ stage = <<"find", 0>>
  /\ points' = UNION {{<<f[1], f[2], i>> : i \in Candidates(f[1])} : f \in functions}
  /\ stage' = <<"mutations", 1>>
  /\ UNCHANGED <<env, warned, gitDiffInfo, filters, functions, selected, cache, asserted>>

\* One turn of the loop in filterMutations.
FilterMutations ==
  /\ stage[1] = "mutations" /\ stage[2] <= Len(filters.mutation)
  /\ LET filter == filters.mutation[stage[2]]
     IN  /\ FilePathStep(filter, {p[3] : p \in points})
         /\ points' = {p \in points : ~Skips(filter, p[3])}
  /\ stage' = <<"mutations", stage[2] + 1>>
  /\ UNCHANGED <<env, warned, gitDiffInfo, filters, functions, selected>>

Next ==
  \/ WireFilters \/ GetFunctionsUnderTest \/ FilterFunctions \/ Select
  \/ GetMutationPoints \/ FilterMutations

Spec == Init /\ [][Next]_vars

-------------------------------------------------------------------------------
Done == stage[1] = "mutations" /\ stage[2] > Len(filters.mutation)

\* FilePathFilter is never asked about a null location, its assertion: not
\* even for the points of && and ||, which are found in instructions without a
\* location too.
NeverAskedNull == ~asserted

\* The lines a user asked for.
Wanted(i) ==
  env.git \in {"fails", "works"} => i.file \in Files /\ i.line \in env.changes[i.file][2]

\* Nothing that was asked for is lost without a warning: a run that gave none
\* mutates every instruction on a changed line of an executed function in the
\* files it may touch.
NothingLostSilently ==
  Done /\ ~warned =>
    \A f \in Functions : \A i \in f.body :
      /\ (env.coverage = "read" => f \in env.executed) /\ f.line # 0 /\ i.line # 0
      /\ Allow(f.file) /\ Allow(i.file)
      /\ ~(env.junkDetection /\ i.junk)
      /\ Wanted(i)
      => \E p \in points : p[1] = f /\ p[3] = i /\ p[2]

\* A point that runs as covered is in a function that was executed, or one that
\* a profile cannot tell from it: an external function of its name, or a static
\* one in a file of the same name.
CoveredIsExecuted ==
  Done /\ env.coverage = "read" =>
    \A p \in points : p[2] =>
      \E g \in env.executed :
        \/ g = p[1]
        \/ g.name = p[1].name /\ (~g.static \/ Base(g.unit) = Base(p[1].unit))

\* With a Git diff mutations are on its lines only, in all files and for all
\* shapes of hunks, but for those of && and ||, which are searched in whole
\* functions (LogicalAndToOr.cpp:324).
OnlyChangedLines ==
  Done /\ env.git \in {"fails", "works"} =>
    \A p \in points : p[3].logical \/ Wanted(p[3])

\* Nothing else is mutated or run: points are on the lines of the diff, unless
\* they are of && or ||, and those that count as covered were executed, or have
\* a name the profile cannot tell from one that was.
OnlyWanted == OnlyChangedLines /\ CoveredIsExecuted

===============================================================================
