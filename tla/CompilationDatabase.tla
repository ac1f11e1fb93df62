-------------------------- MODULE CompilationDatabase --------------------------
(***************************************************************************)
(* The flags the junk detector parses a file with: those the bitcode       *)
(* recorded, those of the compilation database, or the extra flags alone.  *)
(* A path is the sequence of its components, "/" first when it is          *)
(* absolute; flags and file names are arguments, sequences of strings.     *)
(***************************************************************************)
EXTENDS Integers, Sequences, Functions, SequencesExt

CONSTANTS
  Programs,   \* the sequences of units [dir, name, flag, recorded, listed]: each was
              \* compiled in dir by <<compiler, flag, name>>, a command line that is in
              \* its debug info or not, and in the database or not
  ExtraFlags, \* the values of -compilation-flags
  Compiler    \* the argument before the flags

VARIABLES units, extraFlags, readable, commandLines, database, bitcodeFlags, flagging, answers

flagVars == <<units, extraFlags, readable, commandLines, database, bitcodeFlags, flagging, answers>>

EmptyMap         == [p \in {} |-> <<>>]
IsAbsolute(path) == path # <<>> /\ Head(path) = "/"
FileName(path)   == <<Last(path)>>
CommandLine(u)   == <<Compiler, u.flag, u.name>>

\* llvm::sys::path::remove_dots with remove_dot_dot.
RemoveDots(path) ==
  FoldLeft(LAMBDA p, c : IF c = "." THEN p
                         ELSE IF c = ".." /\ p # <<>> /\ Last(p) \notin {"/", ".."} THEN Front(p)
                         ELSE IF c = ".." /\ p = <<"/">> THEN p
                         ELSE Append(p, c), <<>>, path)

AbsoluteFilePath(dir, name) == IF name # <<>> /\ ~IsAbsolute(name) THEN dir \o name ELSE name

Path(u) == AbsoluteFilePath(u.dir, u.name)

\* Units are compiled in directories that debug info and databases name in full,
\* no two of them are of one file, and a flag is no file name and is not given
\* to Mull once more.
ASSUME FlagsAssumption ==
  /\ \A p \in Programs :
       /\ p \in Seq(Range(p))
       /\ \A u \in Range(p) :
            /\ u.recorded \in BOOLEAN /\ u.listed \in BOOLEAN
            /\ IsAbsolute(Path(u)) /\ ~IsAbsolute(FileName(Path(u)))
            /\ u.flag # Path(u) /\ \A v \in Range(p) : u.flag # v.name
            /\ \A e \in ExtraFlags : u.flag \notin Range(e) /\ u.name \notin Range(e)
       /\ \A i, j \in DOMAIN p :
            i # j => RemoveDots(Path(p[i])) \notin {Path(p[j]), RemoveDots(Path(p[j]))}
  /\ \A e \in ExtraFlags : e \in Seq(Range(e))

\* One insertion into a std::map.
Put(map, key, value) == [k \in DOMAIN map \cup {key} |-> IF k = key THEN value ELSE map[k]]

\* A map filled from the units in S, in their order: the last unit of a path stays.
LastOfPath(S, path) ==
  CHOOSE i \in S : Path(units[i]) = path /\ \A j \in S : Path(units[j]) = path => j <= i

Paths(S) == {Path(units[i]) : i \in S}

\* The arguments of a command line but for the compiler, which filterFlags drops,
\* and for a file name.
Kept(argument, name) == IF argument = name THEN <<>> ELSE <<argument>>
FilterFlags(line, name) == Kept(line[2], name) \o Kept(line[3], name)

\* flagsFromCommand: the file name is removed as the command spells it.
FlagsFromCommand(u) == FilterFlags(CommandLine(u), u.name) \o extraFlags

\* prepareDatabase.
PrepareDatabase(S) == [p \in Paths(S) |-> FlagsFromCommand(units[LastOfPath(S, p)])]

\* createBitcodeFlags: what is removed is the absolute path.
CreateBitcodeFlags ==
  [p \in DOMAIN commandLines |-> FilterFlags(commandLines[p], p) \o extraFlags]

\* Where a map is looked up for a path: under the path, under its file name,
\* under the path without dots.
Key(map, path) ==
  IF path \in DOMAIN map THEN path
  ELSE IF FileName(path) \in DOMAIN map THEN FileName(path)
  ELSE RemoveDots(path)

Lookup(map, path, default) == IF Key(map, path) \in DOMAIN map THEN map[Key(map, path)] ELSE default

\* Mutant of CompilationFlagsForFile: the bitcode is not looked into when there
\* is a database.
CompilationFlagsForFileOne(path) ==
  IF DOMAIN database = {} THEN Lookup(bitcodeFlags, path, extraFlags)
  ELSE Lookup(database, path, extraFlags)

\* compilationFlagsForFile.
CompilationFlagsForFile(path) ==
  Lookup(bitcodeFlags, path, Lookup(database, path, extraFlags))

-------------------------------------------------------------------------------
FlagsInit ==
  /\ units \in Programs
  /\ extraFlags \in ExtraFlags
  /\ readable \in BOOLEAN
  /\ commandLines = EmptyMap
  /\ database = EmptyMap
  /\ bitcodeFlags = EmptyMap
  /\ flagging = "metadata"
  /\ answers = EmptyMap

\* getCompilationDatabase: the command lines in the debug info of the units.
GetCompilationDatabase ==
  /\ flagging = "metadata"
  /\ LET recorded == {i \in DOMAIN units : units[i].recorded}
     IN  commandLines' =
           [p \in Paths(recorded) |-> CommandLine(units[LastOfPath(recorded, p)])]
  /\ flagging' = "storage"
  /\ UNCHANGED <<units, extraFlags, readable, database, bitcodeFlags, answers>>

\* fromFile, createFromClangCompDB: a database that cannot be read is a warning
\* and counts as empty.
FromFile ==
  /\ flagging = "storage"
  /\ bitcodeFlags' = CreateBitcodeFlags
  /\ database' = PrepareDatabase({i \in DOMAIN units : readable /\ units[i].listed})
  /\ flagging' = "answer"
  /\ UNCHANGED <<units, extraFlags, readable, commandLines, answers>>

\* findAST asks for the flags of a unit, under the path of its debug info.
AskFlags ==
  /\ flagging = "answer"
  /\ \E i \in DOMAIN units \ DOMAIN answers :
       answers' = Put(answers, i, CompilationFlagsForFile(Path(units[i])))
  /\ UNCHANGED <<units, extraFlags, readable, commandLines, database, bitcodeFlags, flagging>>

FlagsNext == GetCompilationDatabase \/ FromFile \/ AskFlags

FlagsSpec == FlagsInit /\ [][FlagsNext]_flagVars

-------------------------------------------------------------------------------
Known(u) == u.recorded \/ (u.listed /\ readable)

\* A unit whose command line is known is parsed with its own flags and no other
\* unit's, whatever files of that name there are elsewhere and wherever its
\* command line is known from.
OwnFlags ==
  \A i \in DOMAIN answers :
    {f \in Range(answers[i]) : \E u \in Range(units) : u.flag = f} =
      IF Known(units[i]) THEN {units[i].flag} ELSE {}

\* The flags given to Mull come after those of the file, so that they win over
\* them.
ExtraFlagsLast ==
  \A i \in DOMAIN answers :
    LET n == Len(answers[i]) - Len(extraFlags)
    IN  n >= 0 /\ SubSeq(answers[i], n + 1, Len(answers[i])) = extraFlags

\* Clang is never given the file of a unit besides the one findAST appends,
\* unless the command line is from the bitcode and has a relative name in it
\* (CompilationDatabase.cpp:81 removes the absolute one).
FileNameRemoved ==
  \A i \in DOMAIN answers :
    units[i].name \in Range(answers[i]) => units[i].recorded /\ ~IsAbsolute(units[i].name)

\* A unit is parsed with its own flags, those given to Mull after them, and
\* without the file name a second time.
FlagsRight == OwnFlags /\ ExtraFlagsLast /\ FileNameRemoved

===============================================================================
