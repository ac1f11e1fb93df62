-------------------------------- MODULE Reports --------------------------------
(***************************************************************************)
(* From mutation points to reports, in mull-cxx and in mull-runner: the    *)
(* mutants of a program, their records in the executable, the results of   *)
(* running them, and what each reporter makes of them.  What a test run    *)
(* says of a mutant is one status; the score is an integer division (the   *)
(* rounding of the code's doubles is left out).                            *)
(***************************************************************************)
EXTENDS Integers, Sequences, FiniteSets, SequencesExt

CONSTANTS
  PointLists, \* sequences of points [mutator, path, line, covered]; a path is the
              \* sequence of its parts between colons
  Requested,  \* the values of -reporters
  Outcomes    \* what running a mutant may give

ASSUME ReportsAssumption ==
  /\ \A list \in PointLists :
       /\ list \in Seq(Range(list))
       /\ \A p \in Range(list) :
            p.covered \in BOOLEAN /\ p.path # <<>> /\ p.path \in Seq(Range(p.path))
  /\ "NotCovered" \notin Outcomes

VARIABLES
  tool,       \* "mull-cxx" or "mull-runner"
  dryRun, strict, compdb, \* options; compdb: there are compilation flags
  points,     \* what was recorded in the program
  reporters,  \* the reporters that are left
  listed,    \* [id, path, covered] in the order of the list
  statuses,    \* the status of each mutant, by its index
  ide,        \* the IDE reporter's [killed, survived, notCovered, score]
  elements,   \* the Elements reporter's [entries, score]
  database,   \* the rows of the SQLite file, of earlier runs too: <<run, id, status>>
  at          \* the next step; "done", "error" or "crash" at the end

reportVars == <<tool, dryRun, strict, compdb, points, reporters, listed, statuses, ide, elements,
          database, at>>

Nothing == [absent |-> TRUE]

-------------------------------------------------------------------------------
(* Records.  A chunk is a text, which is no number, or a number.           *)

Text(s) == <<"text", s>>
Number(n) == <<"number", n>>
IsNumber(c) == c[1] = "number"

Id(p) == <<p.mutator, p.path, p.line>>

\* recordMutation, and split on ':': the columns and the end are left out.
RecordMutation(p) ==
  <<Text(p.mutator)>> \o [i \in DOMAIN p.path |-> Text(p.path[i])]
    \o <<Number(p.line), Number(IF p.covered THEN 1 ELSE 0)>>

\* std::stoi throws on what is no number, and nothing catches it.
Readable(record) == IsNumber(record[3]) /\ IsNumber(record[4])

ReadMutant(record) ==
  [id |-> <<record[1][2], <<record[2][2]>>, record[3][2]>>, covered |-> record[4][2] # 0]

\* extractMutants.
ExtractMutants == [i \in DOMAIN points |-> ReadMutant(RecordMutation(points[i]))]

\* Mutant of DeduplicatedMutants: covered when all points are.
DeduplicatedMutantsAll ==
  SetToSeq({[id |-> Id(p), covered |-> \A q \in Range(points) : Id(q) = Id(p) => q.covered]
            : p \in Range(points)})

\* The mutants mull-cxx has: one for each identifier, covered when one of its
\* points is.  Their order, by path, line and mutator, does not matter here.
DeduplicatedMutants ==
  SetToSeq({[id |-> Id(p), covered |-> \E q \in Range(points) : Id(q) = Id(p) /\ q.covered]
            : p \in Range(points)})

-------------------------------------------------------------------------------
(* Reporters.                                                              *)

\* ReportersCLIOptions::reporters.
Reporters(requested) == IF requested = <<>> THEN <<"IDE">> ELSE requested

\* The rest of the IDE reporter's three cases.
Killed(status) == status \notin {"Passed", "NotCovered"}

Count(Test(_)) == Cardinality({i \in DOMAIN statuses : Test(statuses[i])})

Score(killed) == (killed * 100) \div Len(listed)

\* createFiles: what is in neither set survived.
ElementsStatus(i, killed, notCovered) ==
  IF i \in killed THEN "Killed" ELSE IF i \in notCovered THEN "NoCoverage" ELSE "Survived"

\* createTables: fails when they are there.
CreateTables == database = {}

Finished == IF Len(reporters) = 1 THEN "done" ELSE "report"

-------------------------------------------------------------------------------
ReportInit ==
  /\ tool \in {"mull-cxx", "mull-runner"}
  /\ dryRun \in IF tool = "mull-cxx" THEN BOOLEAN ELSE {FALSE}
  /\ compdb \in IF tool = "mull-cxx" THEN BOOLEAN ELSE {FALSE}
  /\ strict \in BOOLEAN
  /\ points \in PointLists
  /\ \E requested \in Requested : reporters = Reporters(requested)
  /\ database \in {{}, {<<"earlier", <<>>, "Passed">>}}
  /\ listed = <<>> /\ statuses = <<>>
  /\ ide = Nothing /\ elements = Nothing
  /\ at = "reporters"

\* The warning about Elements ends the process in strict mode.
CreateReporters ==
  /\ at = "reporters"
  /\ at' = IF "Elements" \in Range(reporters) /\ ~compdb /\ strict THEN "error" ELSE "mutants"
  /\ UNCHANGED <<tool, dryRun, strict, compdb, points, reporters, listed, statuses, ide, elements,
                 database>>

\* Driver::run, up to the mutants, or extractMutants.
ListMutants ==
  /\ at = "mutants"
  /\ IF tool = "mull-cxx" THEN listed' = DeduplicatedMutants /\ at' = "run"
     ELSE IF \A p \in Range(points) : Readable(RecordMutation(p))
     THEN listed' = ExtractMutants /\ at' = "run"
     ELSE UNCHANGED listed /\ at' = "crash"
  /\ UNCHANGED <<tool, dryRun, strict, compdb, points, reporters, statuses, ide, elements, database>>

\* dryRunMutations or runMutants: one result for each mutant, the outcome of
\* its run when it is covered.  What runs is chosen by the identifier.
RunListed ==
  /\ at = "run"
  /\ \E outcome \in [{Id(p) : p \in Range(points)} -> Outcomes] :
       statuses' = [i \in DOMAIN listed |->
                     IF dryRun THEN "DryRun"
                     ELSE IF listed[i].covered THEN outcome[listed[i].id] ELSE "NotCovered"]
  /\ at' = "report"
  /\ UNCHANGED <<tool, dryRun, strict, compdb, points, reporters, listed, ide, elements, database>>

Reports(name) == at = "report" /\ Head(reporters) = name

\* What the IDE reporter counts.
IDEReport ==
  [killed |-> Count(Killed),
   survived |-> Count(LAMBDA s : s = "Passed"),
   notCovered |-> Count(LAMBDA s : s = "NotCovered"),
   score |-> Score(Count(Killed))]

\* IDEReporter::reportResults.
ReportIDE ==
  /\ Reports("IDE")
  /\ ide' = IF listed = <<>> THEN Nothing ELSE IDEReport
  /\ reporters' = Tail(reporters) /\ at' = Finished
  /\ UNCHANGED <<tool, dryRun, strict, compdb, points, listed, statuses, elements, database>>

\* What the Elements reporter writes: it sorts the mutants by their results.
ElementsReport ==
  LET notCovered == {i \in DOMAIN statuses : statuses[i] = "NotCovered"}
      killed     == {i \in DOMAIN statuses : statuses[i] # "Passed"} \ notCovered
  IN  [entries |-> [i \in DOMAIN listed |->
                      <<listed[i].id, ElementsStatus(i, killed, notCovered)>>],
       score |-> Score(Cardinality(killed))]

\* MutationTestingElementsReporter::reportResults.
ReportElements ==
  /\ Reports("Elements")
  /\ elements' = IF listed = <<>> THEN Nothing ELSE ElementsReport
  /\ reporters' = Tail(reporters) /\ at' = Finished
  /\ UNCHANGED <<tool, dryRun, strict, compdb, points, listed, statuses, ide, database>>

\* SQLiteReporter::reportResults, in one transaction.
ReportSQLite ==
  /\ Reports("SQLite")
  /\ IF CreateTables
     THEN /\ database' = database \cup {<<"this", listed[i].id, statuses[i]>> : i \in DOMAIN listed}
          /\ reporters' = Tail(reporters) /\ at' = Finished
     ELSE at' = "error" /\ UNCHANGED <<database, reporters>>
  /\ UNCHANGED <<tool, dryRun, strict, compdb, points, listed, statuses, ide, elements>>

ReportNext ==
  \/ CreateReporters \/ ListMutants \/ RunListed \/ ReportIDE \/ ReportElements \/ ReportSQLite

ReportSpec == ReportInit /\ [][ReportNext]_reportVars

-------------------------------------------------------------------------------
EntryCount(status) == Cardinality({i \in DOMAIN elements.entries : elements.entries[i][2] = status})

\* The reporters agree on how many mutants were killed, survived or were not
\* covered, and on the score, though one starts from the results and the other
\* from the mutants; the score is full exactly when nothing is left to kill.
ReportsAgree ==
  ide # Nothing =>
    /\ ide.killed + ide.survived + ide.notCovered = Len(listed)
    /\ (ide.score = 100) = (ide.survived + ide.notCovered = 0)
    /\ elements # Nothing =>
         /\ elements.score = ide.score
         /\ EntryCount("Killed") = ide.killed /\ EntryCount("Survived") = ide.survived
         /\ EntryCount("NoCoverage") = ide.notCovered

\* A database never holds rows of two runs: the second run fails and leaves
\* what is there.
DatabaseHoldsOneRun == Cardinality({row[1] : row \in database}) <= 1

\* A mutant that is reached by one covered point is run by both tools, so that
\* no report calls all of its entries not covered; and mull-runner's mutants
\* are those that mull-cxx recorded, unless a path has a colon.
CoveredIsRun ==
  statuses # <<>> /\ ~dryRun =>
    /\ {m.id : m \in Range(listed)} = {Id(p) : p \in Range(points)}
    /\ \A p \in Range(points) :
         p.covered => \E i \in DOMAIN listed : listed[i].id = Id(p) /\ statuses[i] # "NotCovered"

\* The reporters agree on what was killed, survived or was not covered, in the
\* score too; a database never holds two runs; and a mutant with one covered
\* point is run and reported by both tools.
ReportsRight == ReportsAgree /\ DatabaseHoldsOneRun /\ CoveredIsRun

===============================================================================
