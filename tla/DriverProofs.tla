----------------------------- MODULE DriverProofs -----------------------------
(***************************************************************************)
(* What Driver promises, for any number of bitcode files, mutants and      *)
(* workers: exit is final, strict mode stops, the reporters see results of *)
(* all mutants, and the files left are the right ones.                     *)
(***************************************************************************)
EXTENDS Driver, TLAPS

Early   == {"validate", "extract", "load", "setup", "sanity", "search", "filter", "prepare"}
Linked  == {"clean", "warmup", "baseline", "execute"}
Working == {"compile", "link"} \cup Linked
Alone   == {"validate", "extract", "setup", "sanity", "search", "prepare", "link", "clean",
            "warmup", "baseline", "report"}

\* Where threads can be inside exit: main where it is alone, and in a pool the
\* threads of items that are not ready, which main waits for.
ExitInv ==
  /\ stage \in Alone => exiting \subseteq {Main}
  /\ stage = "load" => \A t \in exiting : t \in Bitcode /\ task[t] = "todo"
  /\ stage = "filter" => \A t \in exiting : t \in mutants /\ task[t] = "todo"
  /\ stage = "compile" =>
       \A t \in exiting : t \in program /\ task[t] \in {"todo", "verified", "object"}
  /\ stage = "execute" => \A t \in exiting : t \in mutants /\ task[t] = "todo"
  /\ stage = "done" => exiting = {}

\* A warning in strict mode has ended in exit, and a sanity check that failed
\* has given one.
WarningInv ==
  /\ options.strict /\ warned => exiting # {}
  /\ sanity \notin {"Passed", "skipped", "none"} => warned
  /\ stage \in Working \cup {"search", "filter", "prepare", "report", "done"} => sanity # "none"

\* Results come with the last step before the report.
ResultInv ==
  /\ stage \in Early \cup Working => results = {}
  /\ stage \in {"report", "done"} /\ ~options.mutateOnly => results = mutants
  /\ reported => results = mutants
  /\ stage \in Early \cup Working => ~reported
  /\ reported /\ options.strict => sanity \in {"Passed", "skipped"}

\* The compiler works on the files of the program.  An object file is one it is
\* about to return, has returned or will not return; its thread may be inside
\* exit.
ObjectInv ==
  /\ stage \in Early => files = {} /\ objects = {}
  /\ stage = "prepare" => \A i \in Items : task[i] = "todo"
  /\ stage = "compile" => \A b \in Bitcode : task[b] # "todo" => b \in program
  /\ stage = "compile" =>
       \A b \in Bitcode : Object(b) \in files =>
         task[b] \in {"object", "done", "empty"} \/ b \in exiting
  /\ stage \in {"link", "clean"} =>
       \A b \in Bitcode : Object(b) \in files => task[b] = "empty" \/ Object(b) \in objects
  /\ stage \in {"warmup", "baseline", "execute", "report", "done"} /\ ~options.keepObjectFiles =>
       \A b \in Bitcode : Object(b) \in files => task[b] = "empty"

\* The executable is there between the linker and the end of the mutants' runs.
ExecutableInv ==
  /\ stage \in Working => mutants # {}
  /\ stage \in {"warmup", "baseline", "execute"} => ~options.mutateOnly
  /\ stage \in {"compile", "link"} /\ Main \notin exiting =>
       Temp \notin files /\ Output \notin files
  /\ stage \in Linked =>
       /\ executable = (IF options.outputFile THEN "output" ELSE "temp")
       /\ (Output \in files <=> options.outputFile)
       /\ (Temp \in files <=> ~options.outputFile)
  /\ stage \in {"report", "done"} /\ ~options.dryRun =>
       /\ options.keepExecutable /\ options.outputFile => Output \in files
       /\ options.mutateOnly /\ mutants # {} => File(executable) \in files
       /\ ~options.keepExecutable /\ ~options.mutateOnly => Temp \notin files /\ Output \notin files

Inv == TypeOK /\ ExitInv /\ WarningInv /\ ResultInv /\ ObjectInv /\ ExecutableInv

-------------------------------------------------------------------------------
\* The files of a run are told apart by their names.
LEMMA FileNames ==
  /\ Temp # Output
  /\ \A b : Object(b) # Temp /\ Object(b) # Output
  /\ \A b : BcFile(b) # Temp /\ BcFile(b) # Output
  /\ \A b, c : Object(b) # BcFile(c)
  /\ \A b, c : Object(b) = Object(c) => b = c
  BY DEF Temp, Output, Object, BcFile

\* No step leaves the types.
LEMMA TypeStep ==
  ASSUME Inv, [Next]_vars
  PROVE  TypeOK'
<1> USE DEF Inv, TypeOK, Stages, Steps, Main
<1>1. CASE ValidateInputFile
  BY <1>1 DEF ValidateInputFile, At, Goes, Free, Error, Quiet, run
<1>2. CASE ExtractBitcode
  BY <1>2 DEF ExtractBitcode, At, Goes, Free, Warning, Quiet, run
<1>3. CASE Loaded
  BY <1>3 DEF Loaded, At
<1>4. CASE Configure
  BY <1>4 DEF Configure, At, Goes, Free, Warning, Error, Quiet, run
<1>5. CASE SanityCheckRun
  BY <1>5 DEF SanityCheckRun, At, Goes, Free, Warning, Error, Quiet, Sane, Statuses
<1>6. CASE FindMutants
  BY <1>6 DEF FindMutants, At, Goes, Free, Warning, Quiet
<1>7. CASE Filtered
  BY <1>7 DEF Filtered, At
<1>8. CASE RunMutations
  BY <1>8 DEF RunMutations, At, CopiedExecutable
<1>9. CASE Compiled
  BY <1>9 DEF Compiled, At, run
<1>10. CASE Link
  BY <1>10 DEF Link, At, Goes, Free, Error, Quiet, run, File
<1>11. CASE RemoveObjectFiles
  BY <1>11 DEF RemoveObjectFiles, At, RemovedObjects, run
<1>12. CASE RunOriginal
  BY <1>12 DEF RunOriginal, At, Goes, Free, Error, Quiet, run
<1>13. CASE RunMutants
  BY <1>13 DEF RunMutants, At
<1>14. CASE Report
  BY <1>14 DEF Report, At, Goes, Free, Error, Quiet, Reporting
<1>15. CASE Ended
  BY <1>15 DEF Ended, Exits, run
<1>16. ASSUME NEW b \in Bitcode, LoadBitcode(b)
      PROVE  TypeOK'
  <2> HIDE DEF Stages, Steps, Main
  <2>1. exiting' \subseteq Items \cup {Main} /\ warned' \in BOOLEAN
    BY <1>16 DEF Inv, TypeOK, Items, LoadBitcode, Quiet, Warning
  <2>2. task' \in [Items -> Steps]
    BY <1>16 DEF Inv, TypeOK, Items, Steps, Gets, LoadBitcode
  <2>3. QED
    BY <1>16, <2>1, <2>2 DEF LoadBitcode, Inv, TypeOK, run
<1>17. ASSUME NEW b \in Bitcode, VerifyModule(b)
      PROVE  TypeOK'
  <2> HIDE DEF Stages, Steps, Main
  <2>1. exiting' \subseteq Items \cup {Main} /\ warned' \in BOOLEAN
    BY <1>17 DEF Inv, TypeOK, Items, VerifyModule, Quiet, Error
  <2>2. task' \in [Items -> Steps]
    BY <1>17 DEF Inv, TypeOK, Items, Steps, Gets, VerifyModule
  <2>3. QED
    BY <1>17, <2>1, <2>2 DEF VerifyModule, Inv, TypeOK, run
<1>18. ASSUME NEW b \in Bitcode, EmitObject(b)
      PROVE  TypeOK'
  <2> HIDE DEF Stages, Steps, Main
  <2>1. exiting' \subseteq Items \cup {Main} /\ warned' \in BOOLEAN
    BY <1>18 DEF Inv, TypeOK, Items, EmitObject, Quiet, Error
  <2>2. task' \in [Items -> Steps]
    BY <1>18 DEF Inv, TypeOK, Items, Gets, EmitObject, Steps
  <2>3. files' \subseteq files \cup {Object(b)}
    BY <1>18 DEF EmitObject
  <2>4. QED
    BY <1>18, <2>1, <2>2, <2>3 DEF EmitObject, Inv, TypeOK, run
<1>19. ASSUME NEW b \in Bitcode, ReturnObject(b)
      PROVE  TypeOK'
  <2> HIDE DEF Stages, Steps, Main
  <2>1. exiting' \subseteq Items \cup {Main} /\ warned' \in BOOLEAN
    BY <1>19 DEF Inv, TypeOK, Items, ReturnObject, Quiet, Warning, Error
  <2>2. task' \in [Items -> Steps]
    BY <1>19 DEF Inv, TypeOK, Items, Gets, ReturnObject, Steps
  <2>3. files' \subseteq files \cup {BcFile(b)}
    BY <1>19 DEF ReturnObject
  <2>4. QED
    BY <1>19, <2>1, <2>2, <2>3 DEF ReturnObject, Inv, TypeOK, run
<1>20. ASSUME NEW m \in Mutants, FilterPoint(m)
      PROVE  TypeOK'
  <2> HIDE DEF Stages, Steps, Main
  <2>1. exiting' \subseteq Items \cup {Main} /\ warned' \in BOOLEAN
    BY <1>20 DEF Inv, TypeOK, Items, FilterPoint, Quiet, Warning
  <2>2. task' \in [Items -> Steps]
    BY <1>20 DEF Inv, TypeOK, Items, Steps, Gets, FilterPoint
  <2>3. QED
    BY <1>20, <2>1, <2>2 DEF FilterPoint, Inv, TypeOK, run
<1>21. ASSUME NEW m \in Mutants, StartMutant(m)
      PROVE  TypeOK'
  <2> HIDE DEF Stages, Steps, Main
  <2>1. exiting' \subseteq Items \cup {Main} /\ warned' \in BOOLEAN
    BY <1>21 DEF Inv, TypeOK, Items, StartMutant, Quiet, Error
  <2>2. task' \in [Items -> Steps]
    BY <1>21 DEF Inv, TypeOK, Items, Steps, Gets, StartMutant
  <2>3. QED
    BY <1>21, <2>1, <2>2 DEF StartMutant, Inv, TypeOK, run
<1>22. ASSUME NEW m \in Mutants, FinishMutant(m)
      PROVE  TypeOK'
  <2> HIDE DEF Stages, Steps, Main
  <2>1. exiting' \subseteq Items \cup {Main} /\ warned' \in BOOLEAN
    BY <1>22 DEF Inv, TypeOK, Items, FinishMutant, Quiet
  <2>2. task' \in [Items -> Steps]
    BY <1>22 DEF Inv, TypeOK, Items, Steps, Gets, FinishMutant
  <2>3. QED
    BY <1>22, <2>1, <2>2 DEF FinishMutant, Quiet, Inv, TypeOK, run
<1>23. CASE UNCHANGED vars
  BY <1>23 DEF vars
<1>24. QED
  BY <1>1, <1>2, <1>3, <1>4, <1>5, <1>6, <1>7, <1>8, <1>9, <1>10, <1>11, <1>12, <1>13, <1>14,
     <1>15, <1>16, <1>17, <1>18, <1>19, <1>20, <1>21, <1>22, <1>23 DEF Next

\* Main is inside exit, or has left a pool, only where no other thread is.
LEMMA ExitStep ==
  ASSUME Inv, [Next]_vars
  PROVE  ExitInv'
<1> USE ItemsAssumption DEF Inv, ExitInv, Alone, TypeOK, Main, Items
<1>1. CASE ValidateInputFile
  BY <1>1 DEF ValidateInputFile, At, Goes, Free, Error, Quiet, run
<1>2. CASE ExtractBitcode
  BY <1>2 DEF ExtractBitcode, At, Goes, Free, Warning, Quiet, run
<1>3. CASE Loaded
  BY <1>3 DEF Loaded, At
<1>4. CASE Configure
  BY <1>4 DEF Configure, At, Goes, Free, Warning, Error, Quiet, run
<1>5. CASE SanityCheckRun
  BY <1>5 DEF SanityCheckRun, At, Goes, Free, Warning, Error, Quiet, Sane, Statuses
<1>6. CASE FindMutants
  BY <1>6 DEF FindMutants, At, Goes, Free, Warning, Quiet
<1>7. CASE Filtered
  BY <1>7 DEF Filtered, At
<1>8. CASE RunMutations
  BY <1>8 DEF RunMutations, At, CopiedExecutable
<1>9. CASE Compiled
  BY <1>9 DEF Compiled, At, run
<1>10. CASE Link
  BY <1>10 DEF Link, At, Goes, Free, Error, Quiet, run, File
<1>11. CASE RemoveObjectFiles
  BY <1>11 DEF RemoveObjectFiles, At, RemovedObjects, run
<1>12. CASE RunOriginal
  BY <1>12 DEF RunOriginal, At, Goes, Free, Error, Quiet, run
<1>13. CASE RunMutants
  BY <1>13 DEF RunMutants, At
<1>14. CASE Report
  BY <1>14 DEF Report, At, Goes, Free, Error, Quiet, Reporting
<1>15. CASE Ended
  BY <1>15 DEF Ended, Exits, run
<1>16. ASSUME NEW b \in Bitcode, LoadBitcode(b)
      PROVE  ExitInv'
  BY <1>16 DEF LoadBitcode, Gets, Free, Warning, Quiet, run
<1>17. ASSUME NEW b \in Bitcode, VerifyModule(b)
      PROVE  ExitInv'
  BY <1>17 DEF VerifyModule, Gets, Free, Error, Quiet, run
<1>18. ASSUME NEW b \in Bitcode, EmitObject(b)
      PROVE  ExitInv'
  <2>1. /\ stage = "compile" /\ stage' = "compile" /\ program' = program
        /\ exiting' \subseteq exiting \cup {b}
        /\ \A c \in Bitcode : c # b => task'[c] = task[c]
    BY <1>18 DEF EmitObject, Gets, run, Quiet, Error, Warning, Free
  <2>2. b \in program /\ (b \in exiting' => task'[b] = task[b] /\ task[b] \in {"verified", "object"})
    BY <1>18 DEF EmitObject, Gets, run, Quiet, Error, Warning, Inv, ObjectInv
  <2>3. program \subseteq Bitcode
    OBVIOUS
  <2>4. ASSUME NEW t \in exiting'
        PROVE  t \in program' /\ task'[t] \in {"todo", "verified", "object"}
    BY <2>1, <2>2, <2>3, <2>4
  <2>5. QED
    BY <2>1, <2>4
<1>19. ASSUME NEW b \in Bitcode, ReturnObject(b)
      PROVE  ExitInv'
  <2>1. /\ stage = "compile" /\ stage' = "compile" /\ program' = program
        /\ exiting' \subseteq exiting \cup {b}
        /\ \A c \in Bitcode : c # b => task'[c] = task[c]
    BY <1>19 DEF ReturnObject, Gets, run, Quiet, Error, Warning, Free
  <2>2. b \in program /\ (b \in exiting' => task'[b] = task[b] /\ task[b] \in {"verified", "object"})
    BY <1>19 DEF ReturnObject, Gets, run, Quiet, Error, Warning, Inv, ObjectInv
  <2>3. program \subseteq Bitcode
    OBVIOUS
  <2>4. ASSUME NEW t \in exiting'
        PROVE  t \in program' /\ task'[t] \in {"todo", "verified", "object"}
    BY <2>1, <2>2, <2>3, <2>4
  <2>5. QED
    BY <2>1, <2>4
<1>20. ASSUME NEW m \in Mutants, FilterPoint(m)
      PROVE  ExitInv'
  BY <1>20 DEF FilterPoint, Gets, Free, Warning, Quiet, run
<1>21. ASSUME NEW m \in Mutants, StartMutant(m)
      PROVE  ExitInv'
  BY <1>21 DEF StartMutant, Gets, Free, Error, Quiet, run
<1>22. ASSUME NEW m \in Mutants, FinishMutant(m)
      PROVE  ExitInv'
  BY <1>22 DEF FinishMutant, Gets, Quiet, run
<1>23. CASE UNCHANGED vars
  BY <1>23 DEF vars
<1>24. QED
  BY <1>1, <1>2, <1>3, <1>4, <1>5, <1>6, <1>7, <1>8, <1>9, <1>10, <1>11, <1>12, <1>13, <1>14,
     <1>15, <1>16, <1>17, <1>18, <1>19, <1>20, <1>21, <1>22, <1>23 DEF Next

\* What a message does: an error leaves its thread inside exit, a warning too in
\* strict mode, and no warning is taken back.
LEMMA Messages ==
  ASSUME NEW t, Warning(t) \/ Error(t) \/ Quiet
  PROVE  /\ warned => warned'
         /\ (options.strict /\ warned => exiting # {}) =>
              (options.strict /\ warned' => exiting' # {})
<1>1. CASE Error(t)
  BY <1>1 DEF Error
<1>2. CASE Warning(t)
  BY <1>2 DEF Warning
<1>3. CASE Quiet
  BY Zenon, <1>3 DEF Quiet
<1>4. QED
  BY <1>1, <1>2, <1>3

\* A strict run that warns is inside exit.
LEMMA WarningStep ==
  ASSUME Inv, [Next]_vars
  PROVE  WarningInv'
<1> DEFINE Checked == Working \cup {"search", "filter", "prepare", "report", "done"}
<1>1. options' = options
  BY DEF Next, vars, run, ValidateInputFile, ExtractBitcode, Loaded, Configure, SanityCheckRun,
     FindMutants, Filtered, RunMutations, Compiled, Link, RemoveObjectFiles, RunOriginal,
     RunMutants, Report, Ended, LoadBitcode, VerifyModule, EmitObject, ReturnObject,
     FilterPoint, StartMutant, FinishMutant
<1>2. \E t : Warning(t) \/ Error(t) \/ Quiet
  BY DEF Next, vars, run, Quiet, ValidateInputFile, ExtractBitcode, Loaded, Configure,
     SanityCheckRun, FindMutants, Filtered, RunMutations, Compiled, Link, RemoveObjectFiles,
     RunOriginal, RunMutants, Report, Ended, LoadBitcode, VerifyModule, EmitObject,
     ReturnObject, FilterPoint, StartMutant, FinishMutant
<1>3. /\ warned => warned'
      /\ options'.strict /\ warned' => exiting' # {}
  BY <1>1, <1>2, Messages DEF Inv, WarningInv
<1>4. CASE SanityCheckRun
  <2>1. CASE Error(Main) /\ sanity' = sanity
    <3>1. stage' = "sanity"
      BY <1>4, <2>1 DEF SanityCheckRun, At, Goes, Error
    <3>2. QED
      BY <1>3, <2>1, <3>1 DEF Inv, WarningInv, Working, Linked
  <2>2. CASE sanity' = "skipped"
    BY <1>3, <2>2 DEF WarningInv
  <2>3. CASE \E s \in Statuses : sanity' = s /\ (IF Sane(s) THEN Quiet ELSE Warning(Main))
    <3>1. sanity' # "none" /\ (sanity' \notin {"Passed", "skipped"} => warned')
      BY <2>3 DEF Sane, Warning, Statuses
    <3>2. QED
      BY <1>3, <3>1 DEF WarningInv
  <2>4. QED
    BY <1>4, <2>1, <2>2, <2>3 DEF SanityCheckRun
<1>5. CASE ~SanityCheckRun
  <2>1. sanity' = sanity
    BY <1>5 DEF Next, vars, run, ValidateInputFile, ExtractBitcode, Loaded, Configure,
       FindMutants, Filtered, RunMutations, Compiled, Link, RemoveObjectFiles, RunOriginal,
       RunMutants, Report, Ended, LoadBitcode, VerifyModule, EmitObject, ReturnObject,
       FilterPoint, StartMutant, FinishMutant
  <2>2. ASSUME stage' \in Checked
        PROVE  stage \in Checked
    BY <1>5, <2>2 DEF Next, vars, run, At, Goes, Working, Linked, ValidateInputFile,
       ExtractBitcode, Loaded, Configure, FindMutants, Filtered, RunMutations, Compiled, Link,
       RemoveObjectFiles, RunOriginal, RunMutants, Report, Ended, LoadBitcode, VerifyModule,
       EmitObject, ReturnObject, FilterPoint, StartMutant, FinishMutant
  <2>3. QED
    BY <1>3, <2>1, <2>2 DEF Inv, WarningInv
<1>6. QED
  BY <1>4, <1>5

\* Results are complete before the report.
LEMMA ResultStep ==
  ASSUME Inv, [Next]_vars
  PROVE  ResultInv'
<1> USE DEF Inv, ExitInv, Alone, WarningInv, ResultInv, Early, Working, Linked, TypeOK, Main
<1>1. CASE ValidateInputFile
  BY <1>1 DEF ValidateInputFile, At, Goes, Free, Error, Quiet, run
<1>2. CASE ExtractBitcode
  BY <1>2 DEF ExtractBitcode, At, Goes, Free, Warning, Quiet, run
<1>3. CASE Loaded
  BY <1>3 DEF Loaded, At
<1>4. CASE Configure
  BY <1>4 DEF Configure, At, Goes, Free, Warning, Error, Quiet, run
<1>5. CASE SanityCheckRun
  BY <1>5 DEF SanityCheckRun, At, Goes, Free, Warning, Error, Quiet, Sane, Statuses
<1>6. CASE FindMutants
  BY <1>6 DEF FindMutants, At, Goes, Free, Warning, Quiet
<1>7. CASE Filtered
  BY <1>7 DEF Filtered, At
<1>8. CASE RunMutations
  BY <1>8 DEF RunMutations, At, CopiedExecutable
<1>9. CASE Compiled
  BY <1>9 DEF Compiled, At, run
<1>10. CASE Link
  BY <1>10 DEF Link, At, Goes, Free, Error, Quiet, run, File
<1>11. CASE RemoveObjectFiles
  BY <1>11 DEF RemoveObjectFiles, At, RemovedObjects, run
<1>12. CASE RunOriginal
  BY <1>12 DEF RunOriginal, At, Goes, Free, Error, Quiet, run
<1>13. CASE RunMutants
  BY <1>13 DEF RunMutants, At
<1>14. CASE Report
  BY <1>14 DEF Report, At, Goes, Free, Error, Quiet, Reporting
<1>15. CASE Ended
  BY <1>15 DEF Ended, Exits, run
<1>16. ASSUME NEW b \in Bitcode, LoadBitcode(b)
      PROVE  ResultInv'
  BY <1>16 DEF LoadBitcode, Gets, Free, Warning, Quiet, run
<1>17. ASSUME NEW b \in Bitcode, VerifyModule(b)
      PROVE  ResultInv'
  BY <1>17 DEF VerifyModule, Gets, Free, Error, Quiet, run
<1>18. ASSUME NEW b \in Bitcode, EmitObject(b)
      PROVE  ResultInv'
  BY <1>18 DEF EmitObject, Gets, Free, Error, Quiet, run
<1>19. ASSUME NEW b \in Bitcode, ReturnObject(b)
      PROVE  ResultInv'
  BY <1>19 DEF ReturnObject, Gets, Free, Error, Warning, Quiet, run
<1>20. ASSUME NEW m \in Mutants, FilterPoint(m)
      PROVE  ResultInv'
  BY <1>20 DEF FilterPoint, Gets, Free, Warning, Quiet, run
<1>21. ASSUME NEW m \in Mutants, StartMutant(m)
      PROVE  ResultInv'
  BY <1>21 DEF StartMutant, Gets, Free, Error, Quiet, run
<1>22. ASSUME NEW m \in Mutants, FinishMutant(m)
      PROVE  ResultInv'
  BY <1>22 DEF FinishMutant, Gets, Quiet, run
<1>23. CASE UNCHANGED vars
  BY <1>23 DEF vars
<1>24. QED
  BY <1>1, <1>2, <1>3, <1>4, <1>5, <1>6, <1>7, <1>8, <1>9, <1>10, <1>11, <1>12, <1>13, <1>14,
     <1>15, <1>16, <1>17, <1>18, <1>19, <1>20, <1>21, <1>22, <1>23 DEF Next

\* Which object files there are.
LEMMA ObjectStep ==
  ASSUME Inv, [Next]_vars
  PROVE  ObjectInv'
<1> USE DEF Inv, ExitInv, Alone, ObjectInv, Early, TypeOK, Main
<1>1. CASE ValidateInputFile
  BY <1>1, FileNames DEF ValidateInputFile, At, Goes, Free, Error, Quiet, run
<1>2. CASE ExtractBitcode
  BY <1>2, FileNames DEF ExtractBitcode, At, Goes, Free, Warning, Quiet, run
<1>3. CASE Loaded
  BY <1>3, FileNames DEF Loaded, At
<1>4. CASE Configure
  BY <1>4, FileNames DEF Configure, At, Goes, Free, Warning, Error, Quiet, run
<1>5. CASE SanityCheckRun
  BY <1>5, FileNames DEF SanityCheckRun, At, Goes, Free, Warning, Error, Quiet, Sane, Statuses
<1>6. CASE FindMutants
  BY <1>6, FileNames DEF FindMutants, At, Goes, Free, Warning, Quiet
<1>7. CASE Filtered
  BY <1>7, FileNames DEF Filtered, At
<1>8. CASE RunMutations
  <2> HIDE DEF ExitInv, TypeOK, Main
  <2>1. /\ stage = "prepare" /\ objects' = objects /\ program' = program /\ task' = task
        /\ \A b \in Bitcode : task[b] = "todo"
        /\ files = {} /\ \A b : Object(b) \notin files'
        /\ stage' \in {"report", "compile"}
    BY <1>8, FileNames DEF RunMutations, At, CopiedExecutable, Inv, ObjectInv, Early, Items
  <2>2. QED
    BY <2>1 DEF ObjectInv, Early
<1>9. CASE Compiled
  <2>1. /\ stage = "compile" /\ stage' = "link" /\ exiting = {} /\ files' = files
        /\ task' = task
    BY <1>9, ItemsAssumption DEF Compiled, At, Inv, ExitInv, Items
  <2>2. ASSUME NEW b \in Bitcode, Object(b) \in files
        PROVE  task[b] = "empty" \/ Object(b) \in objects'
    <3>1. b \in program /\ task[b] \in {"done", "empty"}
      BY <1>9, <2>1, <2>2 DEF Compiled, Inv, ObjectInv
    <3>2. QED
      BY <1>9, <3>1 DEF Compiled
  <2>3. QED
    BY <2>1, <2>2 DEF ObjectInv, Early
<1>10. CASE Link
  BY <1>10, FileNames DEF Link, At, Goes, Free, Error, Quiet, run, File
<1>11. CASE RemoveObjectFiles
  BY <1>11, FileNames DEF RemoveObjectFiles, At, RemovedObjects, run
<1>12. CASE RunOriginal
  BY <1>12, FileNames DEF RunOriginal, At, Goes, Free, Error, Quiet, run
<1>13. CASE RunMutants
  BY <1>13, FileNames DEF RunMutants, At
<1>14. CASE Report
  BY <1>14, FileNames DEF Report, At, Goes, Free, Error, Quiet, Reporting
<1>15. CASE Ended
  BY <1>15, FileNames DEF Ended, Exits, run
<1>16. ASSUME NEW b \in Bitcode, LoadBitcode(b)
      PROVE  ObjectInv'
  BY <1>16, FileNames DEF LoadBitcode, Gets, Free, Warning, Quiet, run
<1>17. ASSUME NEW b \in Bitcode, VerifyModule(b)
      PROVE  ObjectInv'
  <2>1. /\ stage = "compile" /\ stage' = "compile" /\ b \in program
        /\ files' = files /\ program' = program
        /\ exiting \subseteq exiting'
        /\ task' = task \/ task' = [task EXCEPT ![b] = "verified"]
    BY <1>17 DEF VerifyModule, Gets, run, Quiet, Error
  <2>2. \A c \in Bitcode : c # b => task'[c] = task[c]
    BY <2>1 DEF Inv, TypeOK, Items
  <2>3. ASSUME NEW c \in Bitcode, task'[c] # "todo"
        PROVE  c \in program'
    <3>1. CASE c = b
      BY <2>1, <3>1
    <3>2. CASE c # b
      BY <2>1, <2>2, <2>3, <3>2 DEF Inv, ObjectInv
    <3>3. QED
      BY <3>1, <3>2
  <2>4. ASSUME NEW c \in Bitcode, Object(c) \in files'
        PROVE  task'[c] \in {"object", "done", "empty"} \/ c \in exiting'
    <3>1. CASE c # b
      BY <2>1, <2>2, <2>4, <3>1 DEF Inv, ObjectInv
    <3>2. CASE c = b
      <4>1. task[b] = "todo"
        BY <1>17 DEF VerifyModule
      <4>2. QED
        BY <2>1, <2>4, <3>2, <4>1 DEF Inv, ObjectInv
    <3>3. QED
      BY <3>1, <3>2
  <2>5. QED
    BY <2>1, <2>3, <2>4 DEF ObjectInv, Early
<1>18. ASSUME NEW b \in Bitcode, EmitObject(b)
      PROVE  ObjectInv'
  <2>1. /\ stage = "compile" /\ stage' = "compile" /\ task[b] = "verified"
        /\ files' \subseteq files \cup {Object(b)}
        /\ program' = program
        /\ exiting \subseteq exiting'
        /\ task' = task \/ task' = [task EXCEPT ![b] = "object"]
    BY <1>18 DEF EmitObject, Gets, run, Quiet, Error
  <2>2. \A c \in Bitcode : c # b => task'[c] = task[c]
    BY <2>1 DEF Inv, TypeOK, Items
  <2>3. task'[b] = "object" \/ b \in exiting'
    BY <1>18, <2>1 DEF EmitObject, Gets, Error, Inv, TypeOK, Items
  <2>4. ASSUME NEW c \in Bitcode, task'[c] # "todo"
        PROVE  c \in program'
    BY <2>1, <2>2, <2>4 DEF ObjectInv, Inv
  <2>5. ASSUME NEW c \in Bitcode, Object(c) \in files'
        PROVE  task'[c] \in {"object", "done", "empty"} \/ c \in exiting'
    BY <2>1, <2>2, <2>3, <2>5, FileNames DEF ObjectInv, Inv
  <2>6. QED
    BY <2>1, <2>4, <2>5 DEF ObjectInv, Early
<1>19. ASSUME NEW b \in Bitcode, ReturnObject(b)
      PROVE  ObjectInv'
  <2>1. /\ stage = "compile" /\ stage' = "compile" /\ task[b] = "object"
        /\ files' \subseteq files \cup {BcFile(b)}
        /\ program' = program
        /\ exiting \subseteq exiting'
        /\ \/ task' = task
           \/ task' = [task EXCEPT ![b] = "done"]
           \/ task' = [task EXCEPT ![b] = "empty"]
    BY <1>19 DEF ReturnObject, Gets, run, Quiet, Error, Warning
  <2>2. \A c \in Bitcode : c # b => task'[c] = task[c]
    BY <2>1 DEF Inv, TypeOK, Items
  <2>3. task'[b] \in {"object", "done", "empty"}
    BY <2>1 DEF Inv, TypeOK, Items
  <2>4. \A c \in Bitcode : Object(c) \in files' => Object(c) \in files
    BY <2>1, FileNames
  <2>5. QED
    BY <2>1, <2>2, <2>3, <2>4 DEF ObjectInv, Early, Inv
<1>20. ASSUME NEW m \in Mutants, FilterPoint(m)
      PROVE  ObjectInv'
  <2>1. \A b \in Bitcode : task'[b] = task[b]
    BY <1>20, ItemsAssumption DEF FilterPoint, Gets, Inv, TypeOK, Items
  <2>2. QED
    BY <1>20, <2>1 DEF FilterPoint, Inv, ObjectInv, Early, run
<1>21. ASSUME NEW m \in Mutants, StartMutant(m)
      PROVE  ObjectInv'
  <2>1. \A b \in Bitcode : task'[b] = task[b]
    BY <1>21, ItemsAssumption DEF StartMutant, Gets, Inv, TypeOK, Items
  <2>2. QED
    BY <1>21, <2>1 DEF StartMutant, Inv, ObjectInv, Early, run
<1>22. ASSUME NEW m \in Mutants, FinishMutant(m)
      PROVE  ObjectInv'
  <2>1. \A b \in Bitcode : task'[b] = task[b]
    BY <1>22, ItemsAssumption DEF FinishMutant, Gets, Inv, TypeOK, Items
  <2>2. QED
    BY <1>22, <2>1 DEF FinishMutant, Inv, ObjectInv, Early, run
<1>23. CASE UNCHANGED vars
  BY <1>23 DEF vars
<1>24. QED
  BY <1>1, <1>2, <1>3, <1>4, <1>5, <1>6, <1>7, <1>8, <1>9, <1>10, <1>11, <1>12, <1>13, <1>14,
     <1>15, <1>16, <1>17, <1>18, <1>19, <1>20, <1>21, <1>22, <1>23 DEF Next

\* Which executables there are.
LEMMA ExecutableStep ==
  ASSUME Inv, [Next]_vars
  PROVE  ExecutableInv'
<1> USE DEF Inv, ExitInv, Alone, ExecutableInv, Working, Linked, File, TypeOK, Main
<1>1. CASE ValidateInputFile
  BY <1>1, FileNames DEF ValidateInputFile, At, Goes, Free, Error, Quiet, run
<1>2. CASE ExtractBitcode
  BY <1>2, FileNames DEF ExtractBitcode, At, Goes, Free, Warning, Quiet, run
<1>3. CASE Loaded
  BY <1>3, FileNames DEF Loaded, At
<1>4. CASE Configure
  BY <1>4, FileNames DEF Configure, At, Goes, Free, Warning, Error, Quiet, run
<1>5. CASE SanityCheckRun
  BY <1>5, FileNames DEF SanityCheckRun, At, Goes, Free, Warning, Error, Quiet, Sane, Statuses
<1>6. CASE FindMutants
  BY <1>6, FileNames DEF FindMutants, At, Goes, Free, Warning, Quiet
<1>7. CASE Filtered
  BY <1>7, FileNames DEF Filtered, At
<1>8. CASE RunMutations
  <2> HIDE DEF Inv, ExecutableInv, Working, Linked, File, TypeOK
  <2>1. /\ stage = "prepare" /\ exiting = {} /\ files = {}
        /\ options' = options /\ mutants' = mutants
    BY <1>8 DEF RunMutations, At, Inv, ExitInv, Alone, Main, ObjectInv, Early
  <2>2. CASE mutants = {}
    BY <1>8, <2>1, <2>2 DEF RunMutations, CopiedExecutable, Inv, ExecutableInv, Working, Linked
  <2>3. CASE mutants # {} /\ options.dryRun
    BY <1>8, <2>1, <2>3 DEF RunMutations, Inv, ExecutableInv, Working, Linked
  <2>4. CASE mutants # {} /\ ~options.dryRun
    BY <1>8, <2>1, <2>4 DEF RunMutations, Inv, ExecutableInv, Working, Linked
  <2>5. QED
    BY <2>2, <2>3, <2>4
<1>9. CASE Compiled
  BY <1>9, FileNames DEF Compiled, At, run
<1>10. CASE Link
  <2>1. /\ exiting = {} /\ mutants # {} /\ Temp \notin files /\ Output \notin files
        /\ options' = options /\ mutants' = mutants
        /\ executable' = (IF options.outputFile THEN "output" ELSE "temp")
    BY <1>10 DEF Link, At, run, Inv, ExitInv, Alone, Main, ExecutableInv, Working
  <2>2. CASE stage' = "clean" /\ files' = files \cup {File(executable')}
    BY <2>1, <2>2, FileNames DEF ExecutableInv, Working, Linked, File
  <2>3. CASE stage' = "link" /\ Main \in exiting'
    BY <2>1, <2>3 DEF ExecutableInv, Working, Linked
  <2>4. QED
    BY <1>10, <2>1, <2>2, <2>3 DEF Link, At, Goes, Error, Quiet, Main
<1>11. CASE RemoveObjectFiles
  <2> HIDE DEF ExitInv, ExecutableInv, Working, Linked, File, Main
  <2>1. /\ stage = "clean" /\ stage' \in {"warmup", "report"}
        /\ stage' = "report" <=> options.mutateOnly
        /\ options' = options /\ mutants' = mutants /\ executable' = executable
    BY <1>11 DEF RemoveObjectFiles, At, run
  <2>2. Temp \notin objects /\ Output \notin objects
    BY FileNames DEF Inv, TypeOK, Temp, Output
  <2>3. (Temp \in files' <=> Temp \in files) /\ (Output \in files' <=> Output \in files)
    BY <1>11, <2>2 DEF RemoveObjectFiles, RemovedObjects
  <2>4. QED
    BY <2>1, <2>3 DEF ExecutableInv, Inv, Working, Linked, File
<1>12. CASE RunOriginal
  BY <1>12, FileNames DEF RunOriginal, At, Goes, Free, Error, Quiet, run
<1>13. CASE RunMutants
  <2>1. /\ stage = "execute" /\ stage' = "report"
        /\ options' = options /\ mutants' = mutants /\ executable' = executable
    BY <1>13 DEF RunMutants, At
  <2>2. CASE options.keepExecutable
    BY <1>13, <2>1, <2>2 DEF RunMutants, ExecutableInv, Inv, Working, Linked, File
  <2>3. CASE ~options.keepExecutable
    BY <1>13, <2>1, <2>3, FileNames DEF RunMutants, ExecutableInv, Inv, Working, Linked, File
  <2>4. QED
    BY <2>2, <2>3
<1>14. CASE Report
  BY <1>14, FileNames DEF Report, At, Goes, Free, Error, Quiet, Reporting
<1>15. CASE Ended
  BY <1>15, FileNames DEF Ended, Exits, run
<1>16. ASSUME NEW b \in Bitcode, LoadBitcode(b)
      PROVE  ExecutableInv'
  BY <1>16, FileNames DEF LoadBitcode, Gets, Free, Warning, Quiet, run
<1>17. ASSUME NEW b \in Bitcode, VerifyModule(b)
      PROVE  ExecutableInv'
  BY <1>17, FileNames DEF VerifyModule, Gets, Free, Error, Quiet, run
<1>18. ASSUME NEW b \in Bitcode, EmitObject(b)
      PROVE  ExecutableInv'
  BY <1>18, FileNames DEF EmitObject, Gets, Free, Error, Quiet, run
<1>19. ASSUME NEW b \in Bitcode, ReturnObject(b)
      PROVE  ExecutableInv'
  BY <1>19, FileNames DEF ReturnObject, Gets, Free, Error, Warning, Quiet, run
<1>20. ASSUME NEW m \in Mutants, FilterPoint(m)
      PROVE  ExecutableInv'
  BY <1>20, FileNames DEF FilterPoint, Gets, Free, Warning, Quiet, run
<1>21. ASSUME NEW m \in Mutants, StartMutant(m)
      PROVE  ExecutableInv'
  BY <1>21, FileNames DEF StartMutant, Gets, Free, Error, Quiet, run
<1>22. ASSUME NEW m \in Mutants, FinishMutant(m)
      PROVE  ExecutableInv'
  BY <1>22, FileNames DEF FinishMutant, Gets, Quiet, run
<1>23. CASE UNCHANGED vars
  BY <1>23 DEF vars
<1>24. QED
  BY <1>1, <1>2, <1>3, <1>4, <1>5, <1>6, <1>7, <1>8, <1>9, <1>10, <1>11, <1>12, <1>13, <1>14,
     <1>15, <1>16, <1>17, <1>18, <1>19, <1>20, <1>21, <1>22, <1>23 DEF Next

-------------------------------------------------------------------------------
\* The invariant holds from the start of main on.
LEMMA InitInv == ASSUME Init PROVE Inv
<1>1. TypeOK
  BY DEF Init, TypeOK, Stages, Steps
<1>2. ExitInv /\ WarningInv /\ ResultInv
  BY DEF Init, ExitInv, Alone, WarningInv, ResultInv, Early, Working, Linked
<1>3. ObjectInv /\ ExecutableInv
  BY DEF Init, ObjectInv, ExecutableInv, Early, Working, Linked
<1>4. QED
  BY <1>1, <1>2, <1>3 DEF Inv

\* The invariant holds throughout a run, whatever fails on whichever thread.
THEOREM DriverInvariant == Spec => []Inv
<1>1. Inv /\ [Next]_vars => Inv'
  BY TypeStep, ExitStep, WarningStep, ResultStep, ObjectStep, ExecutableStep DEF Inv
<1>2. QED
  BY InitInv, <1>1, PTL DEF Spec

\* The state of a run has its types.
THEOREM TypeCorrect == Spec => []TypeOK
<1>1. Inv => TypeOK
  BY DEF Inv
<1>2. QED
  BY DriverInvariant, <1>1, PTL

\* A thread that is inside exit(1) stays the only one, and main, wherever it is,
\* goes no further: no stage begins and main does not return.
LEMMA FinalStep ==
  ASSUME Inv, [Next]_vars, exiting # {}
  PROVE  exiting' = exiting /\ stage' \in {stage, "ended"}
<1> USE ItemsAssumption DEF Inv, ExitInv, Alone, Main, Items
<1>1. CASE ValidateInputFile
  BY <1>1 DEF ValidateInputFile, At, Goes, Free, Error, Quiet, run
<1>2. CASE ExtractBitcode
  BY <1>2 DEF ExtractBitcode, At, Goes, Free, Warning, Quiet, run
<1>3. CASE Loaded
  BY <1>3 DEF Loaded, At
<1>4. CASE Configure
  BY <1>4 DEF Configure, At, Goes, Free, Warning, Error, Quiet, run
<1>5. CASE SanityCheckRun
  BY <1>5 DEF SanityCheckRun, At, Goes, Free, Warning, Error, Quiet, Sane, Statuses
<1>6. CASE FindMutants
  BY <1>6 DEF FindMutants, At, Goes, Free, Warning, Quiet
<1>7. CASE Filtered
  BY <1>7 DEF Filtered, At
<1>8. CASE RunMutations
  BY <1>8 DEF RunMutations, At, CopiedExecutable
<1>9. CASE Compiled
  BY <1>9 DEF Compiled, At, run
<1>10. CASE Link
  BY <1>10 DEF Link, At, Goes, Free, Error, Quiet, run, File
<1>11. CASE RemoveObjectFiles
  BY <1>11 DEF RemoveObjectFiles, At, RemovedObjects, run
<1>12. CASE RunOriginal
  BY <1>12 DEF RunOriginal, At, Goes, Free, Error, Quiet, run
<1>13. CASE RunMutants
  BY <1>13 DEF RunMutants, At
<1>14. CASE Report
  BY <1>14 DEF Report, At, Goes, Free, Error, Quiet, Reporting
<1>15. CASE Ended
  BY <1>15 DEF Ended, Exits, run
<1>16. ASSUME NEW b \in Bitcode, LoadBitcode(b)
      PROVE  exiting' = exiting /\ stage' \in {stage, "ended"}
  BY <1>16 DEF LoadBitcode, Gets, Free, Warning, Quiet, run
<1>17. ASSUME NEW b \in Bitcode, VerifyModule(b)
      PROVE  exiting' = exiting /\ stage' \in {stage, "ended"}
  BY <1>17 DEF VerifyModule, Gets, Free, Error, Quiet, run
<1>18. ASSUME NEW b \in Bitcode, EmitObject(b)
      PROVE  exiting' = exiting /\ stage' \in {stage, "ended"}
  BY <1>18 DEF EmitObject, Gets, Free, Error, Quiet, run
<1>19. ASSUME NEW b \in Bitcode, ReturnObject(b)
      PROVE  exiting' = exiting /\ stage' \in {stage, "ended"}
  BY <1>19 DEF ReturnObject, Gets, Free, Error, Warning, Quiet, run
<1>20. ASSUME NEW m \in Mutants, FilterPoint(m)
      PROVE  exiting' = exiting /\ stage' \in {stage, "ended"}
  BY <1>20 DEF FilterPoint, Gets, Free, Warning, Quiet, run
<1>21. ASSUME NEW m \in Mutants, StartMutant(m)
      PROVE  exiting' = exiting /\ stage' \in {stage, "ended"}
  BY <1>21 DEF StartMutant, Gets, Free, Error, Quiet, run
<1>22. ASSUME NEW m \in Mutants, FinishMutant(m)
      PROVE  exiting' = exiting /\ stage' \in {stage, "ended"}
  BY <1>22 DEF FinishMutant, Gets, Quiet, run
<1>23. CASE UNCHANGED vars
  BY <1>23 DEF vars
<1>24. QED
  BY <1>1, <1>2, <1>3, <1>4, <1>5, <1>6, <1>7, <1>8, <1>9, <1>10, <1>11, <1>12, <1>13, <1>14,
     <1>15, <1>16, <1>17, <1>18, <1>19, <1>20, <1>21, <1>22, <1>23 DEF Next

\* Once any thread is inside exit(1), with any number of workers, no other gets
\* there and main starts nothing more, whatever fails when: Diagnostics keeps its
\* mutex, and main joins the threads of its pools.
THEOREM ExitIsFinal == Spec => ExitFinal
<1>1. Inv /\ [Next]_vars =>
        [exiting # {} => exiting' = exiting /\ stage' \in {stage, "ended"}]_vars
  BY FinalStep
<1>2. QED
  BY DriverInvariant, <1>1, PTL DEF Spec, ExitFinal

\* A strict run in which any thread has warned does not end with status 0.
THEOREM StrictModeStops == Spec => []StrictStops
<1>1. Inv => StrictStops
  BY DEF Inv, ExitInv, Alone, WarningInv, StrictStops
<1>2. QED
  BY DriverInvariant, <1>1, PTL

\* In strict mode a report is about a program whose original run passed.
THEOREM SanityFirst == Spec => []SanityBeforeVerdicts
<1>1. Inv => SanityBeforeVerdicts
  BY DEF Inv, ResultInv, SanityBeforeVerdicts
<1>2. QED
  BY DriverInvariant, <1>1, PTL

\* Reports are made from results of all mutants, whichever of the three ways
\* through runMutations was taken.
THEOREM ReportsComplete == Spec => []ReportComplete
<1>1. Inv => ReportComplete
  BY DEF Inv, ResultInv, ReportComplete
<1>2. QED
  BY DriverInvariant, <1>1, PTL

\* A run that ends well leaves only object files the compiler did not name.
THEOREM ObjectFilesGone == Spec => []ObjectFilesRemoved
<1>1. Inv => ObjectFilesRemoved
  BY DEF Inv, ObjectInv, ObjectFilesRemoved
<1>2. QED
  BY DriverInvariant, <1>1, PTL

\* The executable is there at the end exactly when the options ask for it.
THEOREM ExecutableRight == Spec => []ExecutableKept
<1>1. Inv => ExecutableKept
  BY DEF Inv, ExecutableInv, ExecutableKept
<1>2. QED
  BY DriverInvariant, <1>1, PTL

\* A run that ends well leaves the files its options ask for, in every
\* combination of the options, with and without mutants.
THEOREM FilesAsAsked == Spec => []FilesRight
<1>1. ObjectFilesRemoved /\ ExecutableKept => FilesRight
  BY DEF FilesRight
<1>2. QED
  BY ObjectFilesGone, ExecutableRight, <1>1, PTL

\* What the reporters are given is complete, and in strict mode no warning of any
\* thread came before it.
THEOREM VerdictsReliable == Spec => []VerdictsSound
<1>1. ReportComplete /\ StrictStops /\ SanityBeforeVerdicts => VerdictsSound
  BY DEF VerdictsSound
<1>2. QED
  BY ReportsComplete, StrictModeStops, SanityFirst, <1>1, PTL

===============================================================================
