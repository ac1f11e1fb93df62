-------------------------------- MODULE MCDriver --------------------------------
(***************************************************************************)
(* What a run leaves and reports, for TLC: the driver, the reporters of    *)
(* mull-cxx and mull-runner, and the source lines they print.  A behaviour *)
(* is a run, a report or a line, as part says; these share no state, and   *)
(* the other two stay where they are.                                      *)
(***************************************************************************)
EXTENDS Driver, Reports, SourceLines

CONSTANT MaxLength  \* of a source file

SequencesUpTo(E, n) == UNION {[1..k -> E] : k \in 0..n}

-------------------------------------------------------------------------------
(* At most two points, which may be of one mutant, and one of which may be *)
(* in a file with a colon in its path.                                     *)

MCPointLists ==
  SequencesUpTo([mutator : {"cxx_add_to_sub"}, path : {<<"a.c">>, <<"x", "y.c">>},
                 line : {1, 2}, covered : BOOLEAN], 2)

MCRequested ==
  {<<>>, <<"SQLite">>, <<"IDE", "SQLite">>, <<"IDE", "Elements">>, <<"SQLite", "Elements", "IDE">>}

MCOutcomes == {"Passed", "Failed", "Timedout"}

(* All files of at most MaxLength characters.                              *)

MCFiles == SequencesUpTo({"x", "tab", "newline"}, MaxLength)

-------------------------------------------------------------------------------
VARIABLE part

MCVars == <<part, vars, reportVars, sourceVars>>

NoRun ==
  /\ options \in {o \in Options : \A f \in DOMAIN o : ~o[f]}
  /\ stage = "ended" /\ task = <<>> /\ program = {} /\ sanity = "none" /\ warned = FALSE
  /\ exiting = {} /\ mutants = {} /\ objects = {} /\ executable = "none" /\ files = {}
  /\ results = {} /\ reported = FALSE

NoReport ==
  /\ tool = "none" /\ dryRun = FALSE /\ strict = FALSE /\ compdb = FALSE /\ points = <<>>
  /\ reporters = <<>> /\ listed = <<>> /\ statuses = <<>> /\ ide = Nothing /\ elements = Nothing
  /\ database = {} /\ at = "idle"

NoSource ==
  /\ file = <<>> /\ lineOffsets = <<>> /\ line = 0 /\ column = 0 /\ text = <<>>
  /\ caret = <<>> /\ context = <<>> /\ reading = "idle"

MCInit ==
  \/ part = "run" /\ Init /\ NoReport /\ NoSource
  \/ part = "report" /\ ReportInit /\ NoRun /\ NoSource
  \/ part = "source" /\ SourceInit /\ NoRun /\ NoReport

RunAlone    == UNCHANGED <<part, reportVars, sourceVars>>
ReportAlone == UNCHANGED <<part, vars, sourceVars>>
SourceAlone == UNCHANGED <<part, vars, reportVars>>

RunStep ==
  \/ ValidateInputFile /\ RunAlone
  \/ ExtractBitcode /\ RunAlone
  \/ \E b \in Bitcode : LoadBitcode(b) /\ RunAlone
  \/ Loaded /\ RunAlone
  \/ Configure /\ RunAlone
  \/ SanityCheckRun /\ RunAlone
  \/ FindMutants /\ RunAlone
  \/ \E m \in Mutants : FilterPoint(m) /\ RunAlone
  \/ Filtered /\ RunAlone
  \/ RunMutations /\ RunAlone
  \/ \E b \in Bitcode : VerifyModule(b) /\ RunAlone
  \/ \E b \in Bitcode : EmitObject(b) /\ RunAlone
  \/ \E b \in Bitcode : ReturnObject(b) /\ RunAlone
  \/ Compiled /\ RunAlone
  \/ Link /\ RunAlone
  \/ RemoveObjectFiles /\ RunAlone
  \/ RunOriginal /\ RunAlone
  \/ \E m \in Mutants : StartMutant(m) /\ RunAlone
  \/ \E m \in Mutants : FinishMutant(m) /\ RunAlone
  \/ RunMutants /\ RunAlone
  \/ Report /\ RunAlone
  \/ Ended /\ RunAlone

ReportStep ==
  \/ CreateReporters /\ ReportAlone
  \/ ListMutants /\ ReportAlone
  \/ RunListed /\ ReportAlone
  \/ ReportIDE /\ ReportAlone
  \/ ReportElements /\ ReportAlone
  \/ ReportSQLite /\ ReportAlone

SourceStep ==
  \/ OpenFile /\ SourceAlone
  \/ GetSourceLineWithCaret /\ SourceAlone
  \/ GetContext /\ SourceAlone

MCNext == RunStep \/ ReportStep \/ SourceStep

\* The fairness of Driver's specification.
MCSpec == MCInit /\ [][MCNext]_MCVars /\ WF_MCVars(RunStep)

===============================================================================
