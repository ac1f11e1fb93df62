-------------------------------- MODULE MCSearch --------------------------------
(***************************************************************************)
(* Which mutations are found and kept, for TLC: the factory of mutators,   *)
(* the filters, the storage of syntax trees, the junk detector's look into *)
(* one of them, and the compilation flags.  A behaviour is one of these,   *)
(* as part says; they share no state, and the others stay where they are.  *)
(***************************************************************************)
EXTENDS Filters, ASTStorage, MutatorsFactory, JunkDetector, CompilationDatabase

-------------------------------------------------------------------------------
(* No name, any one name, or two groups.                                   *)

MCSelections == {{}} \cup {{x} : x \in Names} \cup {{x, y} : x, y \in Groups}

-------------------------------------------------------------------------------
(* Two units with the same file name in two directories, which share a     *)
(* header that is not under Git.  An external function, which holds code   *)
(* of another file too; a static function of the header with the same      *)
(* name; a function that the compiler made.                                *)

FileA == <<"d1", "a.c">>
FileB == <<"d2", "a.c">>
FileH == <<"d1", "h.h">>

Instruction(file, line, logical, junk) ==
  [file |-> file, line |-> line, logical |-> logical, junk |-> junk]

Outer  == [name |-> "outer", static |-> FALSE, unit |-> FileA, file |-> FileA, line |-> 1,
           body |-> {Instruction(FileA, 1, FALSE, FALSE), Instruction(FileA, 2, FALSE, TRUE),
                     Instruction(FileA, 0, TRUE, FALSE), Instruction(FileB, 2, FALSE, FALSE)}]
Helper == [name |-> "outer", static |-> TRUE, unit |-> FileA, file |-> FileH, line |-> 3,
           body |-> {Instruction(FileH, 3, FALSE, FALSE), Instruction(FileA, 3, FALSE, FALSE)}]
Made   == [name |-> "made", static |-> FALSE, unit |-> FileB, file |-> FileB, line |-> 0,
           body |-> {Instruction(FileB, 1, FALSE, FALSE)}]

MCFunctions == {Outer, Helper, Made}
MCSources   == <<FileA, FileB>>
MCPathLists == {<<>>, <<{FileH}, {FileA}>>}
MCExecuted  == SUBSET MCFunctions

-------------------------------------------------------------------------------
(* Two points that can be mutated and one in a system header, all in one   *)
(* unit; a point in a declaration that cannot be mutated, one in no        *)
(* declaration, and one of a file that is gone, each in a unit of its own. *)

MCPoints  == {"p1", "p2", "header", "literal", "other", "gone"}
MCUnitOf  == [p \in MCPoints |-> CASE p = "gone"    -> "gone.c"
                                   [] p = "other"   -> "c.c"
                                   [] p = "literal" -> "b.c"
                                   [] OTHER         -> "a.c"]
MCVerdict == [p \in MCPoints |-> CASE p = "other"   -> "no decl"
                                   [] p = "header"  -> "system header"
                                   [] p = "literal" -> "no expression"
                                   [] OTHER         -> "mutable"]

-------------------------------------------------------------------------------
(* All sets of at most three functions that are disjoint or nested, with   *)
(* bodies of two nested or disjoint nodes.  A binary operator and a        *)
(* variable are not at the begin of their node, and the location of a      *)
(* literal is that of the statement before it.                             *)

Intervals == {r \in [begin : 1..FileEnd, end : 1..FileEnd] : r.begin + 3 <= r.end}

MCDeclSets ==
  {s \in {{x, y, z} : x, y, z \in Intervals} :
     \A x, y \in s : x = y \/ (x.begin # y.begin /\ (Disjoint(x, y) \/ Within(x, y) \/ Within(y, x)))}

Node(class, b) ==
  [class |-> class, begin |-> b, end |-> IF class = "literal" THEN b ELSE b + 2,
   loc |-> IF class \in {"binary", "variable"} THEN b + 1
           ELSE IF class = "literal" THEN b - 1 ELSE b]

MCLocations == 3..6

MCNodeSets ==
  {{Node(c, b)} : c \in {"binary", "unary", "void call", "variable", "scalar call", "not",
                         "literal"}, b \in {3, 5}}
    \cup {{Node(c, 3), [Node(c, 4) EXCEPT !.end = 4]} : c \in {"scalar call", "not"}}

-------------------------------------------------------------------------------
(* Two units that are different files: of one name in two directories or   *)
(* not, spelled relative, with dots or absolute.                           *)

P == <<"/", "p">>
Q == <<"/", "p", "q">>

\* The ways to name /p/a.c, /a.c and /p/q/a.c by a directory and a name.
Spellings ==
  << {<<P, <<"a.c">>>>, <<P, <<"/", "p", "a.c">>>>, <<Q, <<"..", "a.c">>>>,
      <<Q, <<"/", "p", "a.c">>>>},
     {<<P, <<"..", "a.c">>>>},
     {<<Q, <<"a.c">>>>} >>

Unit(i, flag) ==
  {[dir |-> s[1], name |-> s[2], flag |-> <<"-D", flag>>, recorded |-> r, listed |-> l] :
     s \in Spellings[i], r, l \in BOOLEAN}

MCExtraFlags == {<<>>, <<<<"-I">>, <<"x">>>>}
MCCompiler   == <<"clang">>

MCPrograms ==
  UNION {{<<u, v>> : u \in Unit(i, "1"), v \in Unit(j, "2")} :
           <<i, j>> \in {k \in (1..3) \X (1..3) : k[1] # k[2]}}

-------------------------------------------------------------------------------
VARIABLE part

MCVars == <<part, vars, astVars, factoryVars, junkVars, flagVars>>

NoFactory ==
  /\ user = "none" /\ mutatorsMapping = <<>> /\ options = {} /\ calls = 0 /\ request = {}
  /\ answer = <<>> /\ warnings = 0

NoFilters ==
  /\ env = "none" /\ stage = <<"idle", 0>> /\ warned = FALSE /\ gitDiffInfo = {}
  /\ filters = "none" /\ functions = {} /\ selected = {} /\ points = {} /\ cache = {}
  /\ asserted = FALSE

NoTrees ==
  /\ pending = {} /\ point = <<>> /\ at = [w \in Workers |-> "none"]
  /\ unit = [w \in Workers |-> None]
  /\ mutex = None /\ astUnits = <<>> /\ built = <<>> /\ null = {} /\ treeMutex = <<>>
  /\ overlapped = {} /\ misled = {} /\ excused = {} /\ verdicts = {} /\ crashed = FALSE

NoJunk ==
  /\ decls = {} /\ nodes = {} /\ kind = "none" /\ location = 0 /\ looking = "idle"
  /\ decl = NoDecl /\ found = Null /\ end = 0

NoFlags ==
  /\ units = <<>> /\ extraFlags = <<>> /\ readable = FALSE /\ commandLines = <<>>
  /\ database = <<>> /\ bitcodeFlags = <<>> /\ flagging = "idle" /\ answers = <<>>

MCInit ==
  \/ part = "factory" /\ FactoryInit /\ NoFilters /\ NoTrees /\ NoJunk /\ NoFlags
  \/ part = "filters" /\ Init /\ NoFactory /\ NoTrees /\ NoJunk /\ NoFlags
  \/ part = "trees" /\ ASTInit /\ NoFactory /\ NoFilters /\ NoJunk /\ NoFlags
  \/ part = "junk" /\ JunkInit /\ NoFactory /\ NoFilters /\ NoTrees /\ NoFlags
  \/ part = "flags" /\ FlagsInit /\ NoFactory /\ NoFilters /\ NoTrees /\ NoJunk

FactoryAlone == UNCHANGED <<part, vars, astVars, junkVars, flagVars>>
FiltersAlone == UNCHANGED <<part, astVars, factoryVars, junkVars, flagVars>>
TreesAlone   == UNCHANGED <<part, vars, factoryVars, junkVars, flagVars>>
JunkAlone    == UNCHANGED <<part, vars, astVars, factoryVars, flagVars>>
FlagsAlone   == UNCHANGED <<part, vars, astVars, factoryVars, junkVars>>

FactoryStep ==
  \/ MutatorsCall /\ FactoryAlone
  \/ GetMutator /\ FactoryAlone

FiltersStep ==
  \/ WireFilters /\ FiltersAlone
  \/ GetFunctionsUnderTest /\ FiltersAlone
  \/ FilterFunctions /\ FiltersAlone
  \/ Select /\ FiltersAlone
  \/ GetMutationPoints /\ FiltersAlone
  \/ FilterMutations /\ FiltersAlone

WorkerStep(w) ==
  \/ ~crashed /\ Take(w) /\ TreesAlone
  \/ ~crashed /\ FindAST(w) /\ TreesAlone
  \/ ~crashed /\ BuildAST(w) /\ TreesAlone
  \/ ~crashed /\ FindFileEntry(w) /\ TreesAlone
  \/ ~crashed /\ GetLocation(w) /\ TreesAlone
  \/ ~crashed /\ GotLocation(w) /\ TreesAlone
  \/ ~crashed /\ IsInSystemHeader(w) /\ TreesAlone
  \/ ~crashed /\ GetDecl(w) /\ TreesAlone
  \/ ~crashed /\ GotDecl(w) /\ TreesAlone
  \/ ~crashed /\ FindMutantExpression(w) /\ TreesAlone
  \/ ~crashed /\ SetEndLocation(w) /\ TreesAlone

JunkStep ==
  \/ FindDecl /\ JunkAlone
  \/ FindExpression /\ JunkAlone
  \/ SetPointEnd /\ JunkAlone

FlagsStep ==
  \/ GetCompilationDatabase /\ FlagsAlone
  \/ FromFile /\ FlagsAlone
  \/ AskFlags /\ FlagsAlone

MCNext ==
  FactoryStep \/ FiltersStep \/ JunkStep \/ FlagsStep \/ \E w \in Workers : WorkerStep(w)

\* The fairness of ASTStorage's specification.
MCSpec == MCInit /\ [][MCNext]_MCVars /\ \A w \in Workers : WF_MCVars(WorkerStep(w))

-------------------------------------------------------------------------------
\* Every point is judged: no worker waits for ever for one of the mutexes.
PointsJudged == part = "trees" => AllJudged

===============================================================================
