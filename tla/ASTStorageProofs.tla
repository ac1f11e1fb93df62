--------------------------- MODULE ASTStorageProofs ---------------------------
(***************************************************************************)
(* Proofs about what the junk detector works with.  ASTStorage, for any    *)
(* number of workers, points and units, whatever Clang makes of the files: *)
(* a tree lives as long as a worker has it, and the verdicts are those of  *)
(* the trees.  JunkDetector, for any functions and nodes of a file: a      *)
(* point is judged by the innermost node around it.  CompilationDatabase,  *)
(* for any units: each is parsed with its own flags.  ClangPlugin, for any *)
(* trees and mutators: the code it compiles means what was parsed, and the *)
(* mutants of an identifier are those that were meant.                     *)
(***************************************************************************)
EXTENDS ASTStorage, JunkDetector, CompilationDatabase, ClangPlugin, SequenceTheorems, WellFoundedInduction,
        TLAPS

Places == {"idle", "find", "build", "entry", "location", "locating", "header", "decl",
           "looking", "expression", "query"}

\* Where a worker has no tree, and where it has one.
Without == {"idle", "find", "build"}
Using   == Places \ Without

TypeInv ==
  /\ pending \subseteq Points
  /\ point \in [Workers -> Points \cup {None}]
  /\ at \in [Workers -> Places]
  /\ unit \in [Workers -> {None} \cup (Units \X Nat)]
  /\ astUnits \in [Units -> Nat] /\ built \in [Units -> Nat]
  /\ treeMutex \in [Units -> Workers \cup {None}]

\* Another point is in p's unit.
Shared(p) == \E q \in Points \ {p} : UnitOf[q] = UnitOf[p]

\* Point p is in a declaration that the tree records.
Declared(p) == Verdict[p] \in {"no expression", "mutable"}

\* What worker w knows by where it is: it has the tree that is in the cache, or
\* is about to build one that is not, which takes the mutex.  Inside getLocation
\* and getDecl it has the tree's mutex.  What it was told of its point is right
\* as long as it is not misled.
WorkerInv(w) ==
  /\ at[w] # "idle" => point[w] \in Points \ pending
  /\ at[w] \in Without => unit[w] = None
  /\ at[w] \in Using \cup {"build"} => UnitOf[point[w]] \in Exists
  /\ at[w] \in Using => /\ unit[w] = <<UnitOf[point[w]], astUnits[UnitOf[point[w]]]>>
                        /\ astUnits[UnitOf[point[w]]] # 0
  /\ at[w] = "build" => mutex = w /\ astUnits[UnitOf[point[w]]] = 0
  /\ at[w] \in Locked => treeMutex[UnitOf[point[w]]] = w
  /\ w \notin misled => /\ at[w] = "expression" => Declared(point[w])
                        /\ at[w] = "query" => Verdict[point[w]] = "mutable"
  /\ w \in overlapped => at[w] \in Asking
  /\ w \in overlapped \cup misled => w \in excused
  /\ w \in excused => at[w] \in Using /\ Shared(point[w])

\* No two workers have the same point.
PointInv ==
  \A v, w \in Workers : v # w /\ at[v] # "idle" /\ at[w] # "idle" => point[v] # point[w]

\* One verdict is right, or excused.
VerdictOfTree(v) ==
  /\ ~v[4] => /\ v[2] = "kept" <=> UnitOf[v[1]] \in Exists /\ Verdict[v[1]] = "mutable"
              /\ v[3] # "wrong"
  /\ v[4] => UnitOf[v[1]] \in Exists /\ Shared(v[1])

VerdictInv == \A v \in verdicts : VerdictOfTree(v)

Inv == TypeInv /\ PointInv /\ VerdictInv /\ \A w \in Workers : WorkerInv(w)

-------------------------------------------------------------------------------
\* No worker has begun.
LEMMA InvInit == ASTInit => Inv
<1> SUFFICES ASSUME ASTInit PROVE Inv
  OBVIOUS
<1>1. TypeInv
  BY DEF ASTInit, TypeInv, Places
<1>2. PointInv /\ VerdictInv
  BY DEF ASTInit, PointInv, VerdictInv
<1>3. ASSUME NEW w \in Workers PROVE WorkerInv(w)
  BY DEF ASTInit, WorkerInv, Using, Without, Places, Locked
<1> QED BY <1>1, <1>2, <1>3 DEF Inv

\* The step of one worker leaves another alone, as long as it does not replace
\* the other's tree, build for it, take its lock, or meet its query.
LEMMA OtherWorker ==
  ASSUME NEW v \in Workers, WorkerInv(v),
         at'[v] = at[v], point'[v] = point[v], unit'[v] = unit[v],
         pending' \subseteq pending,
         at[v] = "build" => mutex' = mutex,
         at[v] \in Using \cup {"build"} => astUnits'[UnitOf[point[v]]] = astUnits[UnitOf[point[v]]],
         at[v] \in Locked => treeMutex'[UnitOf[point[v]]] = treeMutex[UnitOf[point[v]]],
         v \in overlapped' => v \in overlapped,
         v \in misled' <=> v \in misled,
         v \in excused' <=> v \in excused
  PROVE  WorkerInv(v)'
  BY DEF WorkerInv, Using, Without, Places, Shared, Declared

\* A worker that has a tree is in the unit of its point.
LEMMA TreeFacts ==
  ASSUME Inv, NEW w \in Workers, at[w] \in Using
  PROVE  /\ point[w] \in Points /\ UnitOf[point[w]] \in Units
         /\ unit[w][1] = UnitOf[point[w]]
<1>1. /\ point[w] \in Points
      /\ unit[w] = <<UnitOf[point[w]], astUnits[UnitOf[point[w]]]>>
  BY DEF Inv, WorkerInv, Using, Without
<1>2. unit[w][1] = UnitOf[point[w]]
  BY <1>1
<1> QED BY <1>1, <1>2 DEF Units

\* Taking a tree's mutex that is free, and giving it back, concerns nobody else
\* who holds one.
LEMMA TreeMutexFacts ==
  ASSUME Inv, NEW w \in Workers, at[w] \in Using,
         \/ TreeUnlocked(w) /\ treeMutex' = [treeMutex EXCEPT ![unit[w][1]] = w]
         \/ at[w] \in Locked /\ treeMutex' = Released(w)
         \/ treeMutex' = treeMutex
  PROVE  /\ treeMutex' \in [Units -> Workers \cup {None}]
         /\ \A v \in Workers \ {w} :
              at[v] \in Locked => treeMutex'[UnitOf[point[v]]] = treeMutex[UnitOf[point[v]]]
<1>1. /\ treeMutex \in [Units -> Workers \cup {None}]
      /\ UnitOf[point[w]] \in Units /\ unit[w][1] = UnitOf[point[w]]
      /\ at[w] \in Locked => treeMutex[UnitOf[point[w]]] = w
  BY TreeFacts DEF Inv, TypeInv, WorkerInv
<1>2. treeMutex' \in [Units -> Workers \cup {None}]
  BY <1>1 DEF Released
<1>3. ASSUME NEW v \in Workers \ {w}, at[v] \in Locked
      PROVE  treeMutex'[UnitOf[point[v]]] = treeMutex[UnitOf[point[v]]]
  <2>1. treeMutex[UnitOf[point[v]]] = v
    BY <1>3 DEF Inv, WorkerInv
  <2>2. UnitOf[point[v]] \in Units
    BY <1>3, TreeFacts DEF Locked, Using, Places, Without
  <2>3. v # None
    BY ASTAssumption
  <2> QED BY <1>1, <2>1, <2>2, <2>3 DEF TreeUnlocked, Released
<1> QED BY <1>2, <1>3

\* A verdict is added with the end of a worker's turn, which forgets its point.
LEMMA JudgeInv ==
  ASSUME Inv, NEW w \in Workers, NEW verdict, NEW place, Judge(w, verdict, place),
         at[w] \notin {"idle", "build"},
         w \notin excused =>
           /\ verdict = "kept" <=> UnitOf[point[w]] \in Exists /\ Verdict[point[w]] = "mutable"
           /\ place # "wrong",
         UNCHANGED <<pending, mutex, astUnits, built>>,
         treeMutex' \in [Units -> Workers \cup {None}],
         \A v \in Workers \ {w} :
           at[v] \in Locked => treeMutex'[UnitOf[point[v]]] = treeMutex[UnitOf[point[v]]]
  PROVE  Inv'
<1>0. TypeInv /\ PointInv /\ VerdictInv /\ \A v \in Workers : WorkerInv(v)
  BY DEF Inv
<1>1. /\ verdicts' = verdicts \cup {<<point[w], verdict, place, w \in excused>>}
      /\ at' = [at EXCEPT ![w] = "idle"]
      /\ point' = [point EXCEPT ![w] = None]
      /\ unit' = [unit EXCEPT ![w] = None]
      /\ overlapped' = overlapped \ {w} /\ misled' = misled \ {w} /\ excused' = excused \ {w}
  BY DEF Judge
<1>2. TypeInv'
  BY <1>0, <1>1 DEF TypeInv, Places
<1>3. /\ at'[w] = "idle" /\ point'[w] = None /\ unit'[w] = None
      /\ \A v \in Workers \ {w} : at'[v] = at[v] /\ point'[v] = point[v] /\ unit'[v] = unit[v]
  BY <1>0, <1>1 DEF TypeInv
<1>4. PointInv'
  BY <1>0, <1>3 DEF PointInv
<1>5. VerdictInv'
  <2> DEFINE new == <<point[w], verdict, place, w \in excused>>
  <2>1. w \in excused => UnitOf[point[w]] \in Exists /\ Shared(point[w])
    BY <1>0 DEF WorkerInv
  <2>2. new[1] = point[w] /\ new[2] = verdict /\ new[3] = place /\ new[4] = (w \in excused)
    OBVIOUS
  <2> HIDE DEF new
  <2>3. VerdictOfTree(new)
    BY <2>1, <2>2 DEF VerdictOfTree
  <2>4. verdicts' = verdicts \cup {new}
    BY <1>1 DEF new
  <2> QED BY <1>0, <2>3, <2>4 DEF VerdictInv, VerdictOfTree, Shared
<1>6. WorkerInv(w)'
  BY <1>1, <1>3 DEF WorkerInv, Using, Without, Places, Locked
<1>7. ASSUME NEW v \in Workers \ {w} PROVE WorkerInv(v)'
  BY <1>0, <1>1, <1>3, OtherWorker
<1> QED BY <1>2, <1>4, <1>5, <1>6, <1>7 DEF Inv

\* A worker waits for the mutex of its tree.
LEMMA GotoInv ==
  ASSUME Inv, NEW w \in Workers, NEW step \in {"location", "decl"}, Goto(w, step),
         at[w] \in Using,
         UNCHANGED <<pending, mutex, astUnits, built, treeMutex>>
  PROVE  Inv'
<1>0. TypeInv /\ PointInv /\ VerdictInv /\ \A v \in Workers : WorkerInv(v)
  BY DEF Inv
<1>1. /\ at' = [at EXCEPT ![w] = step] /\ UNCHANGED <<point, unit, verdicts, misled, excused>>
      /\ overlapped' = overlapped \ {w}
  BY DEF Goto
<1>2. TypeInv'
  BY <1>0, <1>1 DEF TypeInv, Places
<1>3. at'[w] = step /\ \A v \in Workers \ {w} : at'[v] = at[v]
  BY <1>0, <1>1 DEF TypeInv
<1>4. PointInv'
  BY <1>0, <1>1, <1>3 DEF PointInv, Using, Without
<1>5. VerdictInv'
  BY <1>0, <1>1 DEF VerdictInv, VerdictOfTree, Shared
<1>6. WorkerInv(w)'
  <2>1. WorkerInv(w)
    BY <1>0
  <2> QED BY <1>1, <1>3, <2>1 DEF WorkerInv, Using, Without, Places, Locked, Shared
<1>7. ASSUME NEW v \in Workers \ {w} PROVE WorkerInv(v)'
  BY <1>0, <1>1, <1>3, OtherWorker
<1> QED BY <1>2, <1>4, <1>5, <1>6, <1>7 DEF Inv

\* A query that meets another is excused, and so is the other: of two that are in
\* one tree at once, one at most has the tree's mutex.
LEMMA BeginInv ==
  ASSUME Inv, NEW w \in Workers, NEW step \in Asking, Begin(w, step),
         at[w] \in Using,
         UNCHANGED <<pending, mutex, astUnits, built>>,
         treeMutex' \in [Units -> Workers \cup {None}],
         \A v \in Workers \ {w} :
           at[v] \in Locked => treeMutex'[UnitOf[point[v]]] = treeMutex[UnitOf[point[v]]],
         step \in Locked => TreeUnlocked(w) /\ treeMutex'[UnitOf[point[w]]] = w,
         w \notin overlapped \cup misled =>
           /\ step = "expression" => Declared(point[w])
           /\ step = "query" => Verdict[point[w]] = "mutable"
  PROVE  Inv'
<1>0. TypeInv /\ PointInv /\ VerdictInv /\ \A v \in Workers : WorkerInv(v)
  BY DEF Inv
<1> DEFINE unlocked == {v \in Together(w) : step \notin Locked \/ at[v] \notin Locked}
<1>1. ASSUME NEW v \in Together(w)
      PROVE  /\ v \in Workers \ {w} /\ at[v] \in Asking /\ v \in unlocked
             /\ Shared(point[v]) /\ Shared(point[w])
  <2>1. v \in Workers \ {w} /\ at[v] \in Asking /\ unit[v] = unit[w]
    BY DEF Together
  <2>2. at[v] \in Using
    BY <2>1 DEF Asking, Using, Places, Without
  <2>3. /\ unit[v][1] = UnitOf[point[v]] /\ unit[w][1] = UnitOf[point[w]]
        /\ point[v] \in Points /\ point[w] \in Points
    BY <2>1, <2>2, TreeFacts
  <2>4. point[v] # point[w]
    BY <1>0, <2>1, <2>2 DEF PointInv, Using, Without
  <2>5. step \notin Locked \/ at[v] \notin Locked
    <3>1. at[v] \in Locked => treeMutex[unit[v][1]] = v
      BY <1>0, <2>1, <2>3 DEF WorkerInv
    <3> QED BY <2>1, <3>1, ASTAssumption DEF TreeUnlocked
  <2> QED BY <2>1, <2>3, <2>4, <2>5 DEF Shared
<1>2. /\ at' = [at EXCEPT ![w] = step] /\ UNCHANGED <<point, unit, verdicts>>
      /\ misled' = misled \cup (overlapped \cap {w})
      /\ overlapped' = IF Together(w) = {} THEN overlapped \ {w}
                       ELSE overlapped \cup Together(w) \cup {w}
      /\ excused' = IF unlocked = {} THEN excused ELSE excused \cup unlocked \cup {w}
  BY DEF Begin
<1>3. unlocked = Together(w)
  BY <1>1
<1> HIDE DEF unlocked
<1>4. TypeInv'
  BY <1>0, <1>2 DEF TypeInv, Asking, Places
<1>5. at'[w] = step /\ \A v \in Workers \ {w} : at'[v] = at[v]
  BY <1>0, <1>2 DEF TypeInv
<1>6. PointInv'
  BY <1>0, <1>2, <1>5 DEF PointInv, Using, Without
<1>7. VerdictInv'
  BY <1>0, <1>2 DEF VerdictInv, VerdictOfTree, Shared
<1>8. WorkerInv(w)'
  <2>1. WorkerInv(w)
    BY <1>0
  <2>2. w \in overlapped' \cup misled' => w \in excused'
    BY <1>2, <1>3, <2>1 DEF WorkerInv
  <2>3. w \in excused' => Shared(point[w])
    BY <1>1, <1>2, <1>3, <2>1 DEF WorkerInv
  <2>4. w \notin misled' => w \notin overlapped \cup misled
    BY <1>2
  <2>5. step \in Using /\ step \notin Without /\ step # "build" /\ step # "idle"
    BY DEF Asking, Using, Places, Without
  <2> QED BY <1>2, <1>5, <2>1, <2>2, <2>3, <2>4, <2>5
          DEF WorkerInv, Using, Without, Shared, Declared
<1>9. ASSUME NEW v \in Workers \ {w} PROVE WorkerInv(v)'
  <2>1. v \in misled' <=> v \in misled
    BY <1>2
  <2>2. CASE v \in Together(w)
    <3>1. at[v] \in Asking /\ Shared(point[v]) /\ WorkerInv(v) /\ v \in excused'
      BY <1>0, <1>1, <1>2, <1>3, <2>2
    <3>2. at[v] \in Using
      BY <3>1 DEF Asking, Using, Places, Without
    <3> QED BY <1>2, <1>5, <2>1, <3>1, <3>2 DEF WorkerInv, Shared, Declared
  <2>3. CASE v \notin Together(w)
    <3>1. (v \in overlapped' => v \in overlapped) /\ (v \in excused' <=> v \in excused)
      BY <1>2, <1>3, <2>3
    <3> QED BY <1>0, <1>2, <1>5, <2>1, <3>1, OtherWorker
  <2> QED BY <2>2, <2>3
<1> QED BY <1>4, <1>6, <1>7, <1>8, <1>9 DEF Inv

\* A point is taken once.
LEMMA TakeInv ==
  ASSUME Inv, NEW w \in Workers, Take(w)
  PROVE  Inv'
<1>0. TypeInv /\ PointInv /\ VerdictInv /\ \A v \in Workers : WorkerInv(v)
  BY DEF Inv
<1>1. PICK p \in pending : /\ at[w] = "idle" /\ pending' = pending \ {p}
                           /\ point' = [point EXCEPT ![w] = p]
                           /\ at' = [at EXCEPT ![w] = "find"]
                           /\ UNCHANGED <<unit, storage, treeMutex, overlapped, misled, excused,
                                          verdicts>>
  BY DEF Take
<1>2. /\ UNCHANGED <<unit, mutex, astUnits, built, treeMutex, overlapped, misled, excused, verdicts>>
      /\ p \in Points
  BY <1>0, <1>1 DEF storage, TypeInv
<1>3. TypeInv'
  BY <1>0, <1>1, <1>2 DEF TypeInv, Places
<1>4. /\ at'[w] = "find" /\ point'[w] = p
      /\ \A v \in Workers \ {w} : at'[v] = at[v] /\ point'[v] = point[v]
  BY <1>0, <1>1 DEF TypeInv
<1>5. ASSUME NEW v \in Workers \ {w}, at[v] # "idle" PROVE point[v] # p
  BY <1>0, <1>1, <1>5 DEF WorkerInv
<1>6. PointInv'
  BY <1>0, <1>4, <1>5 DEF PointInv
<1>7. VerdictInv'
  BY <1>0, <1>2 DEF VerdictInv, VerdictOfTree, Shared
<1>8. WorkerInv(w)'
  <2>1. WorkerInv(w)
    BY <1>0
  <2>2. w \notin overlapped' \cup misled' \cup excused' /\ unit'[w] = None
    BY <1>1, <1>2, <2>1 DEF WorkerInv, Using, Without
  <2>3. point'[w] \in Points \ pending'
    BY <1>1, <1>2, <1>4
  <2> QED BY <1>4, <2>2, <2>3 DEF WorkerInv, Using, Without, Locked
<1>9. ASSUME NEW v \in Workers \ {w} PROVE WorkerInv(v)'
  BY <1>0, <1>1, <1>2, <1>4, OtherWorker
<1> QED BY <1>3, <1>6, <1>7, <1>8, <1>9 DEF Inv

\* A tree of the cache is the one the worker gets; for a unit without one it
\* keeps the mutex of the storage.
LEMMA FindASTInv ==
  ASSUME Inv, NEW w \in Workers, FindAST(w)
  PROVE  Inv'
<1> DEFINE u == UnitOf[point[w]]
<1>0. TypeInv /\ PointInv /\ VerdictInv /\ \A v \in Workers : WorkerInv(v)
  BY DEF Inv
<1>1. /\ at[w] = "find" /\ UNCHANGED <<pending, treeMutex>>
      /\ w \notin overlapped \cup misled \cup excused
      /\ unit[w] = None /\ point[w] \in Points \ pending
  BY <1>0 DEF FindAST, WorkerInv, Without, Using
<1>2. u \in Units
  BY <1>1 DEF Units
<1>3. CASE Missing(u) /\ Judge(w, "junk", "none") /\ UNCHANGED storage
  <2>1. /\ treeMutex' \in [Units -> Workers \cup {None}]
        /\ UNCHANGED <<pending, mutex, astUnits, built>>
    BY <1>0, <1>1, <1>3 DEF TypeInv, storage
  <2> QED BY <1>1, <1>3, <2>1, JudgeInv DEF Missing
<1>4. CASE /\ ~Missing(u) /\ Unlocked /\ astUnits[u] # 0
           /\ unit' = [unit EXCEPT ![w] = <<u, astUnits[u]>>]
           /\ at' = [at EXCEPT ![w] = "entry"]
           /\ UNCHANGED <<point, verdicts, storage, overlapped, misled, excused>>
  <2>0. UNCHANGED <<point, verdicts, mutex, astUnits, built, overlapped, misled, excused>>
    BY <1>4 DEF storage
  <2>1. TypeInv'
    <3>1. <<u, astUnits[u]>> \in Units \X Nat
      BY <1>0, <1>2 DEF TypeInv
    <3> HIDE DEF u
    <3> QED BY <1>0, <1>1, <1>4, <2>0, <3>1 DEF TypeInv, Places
  <2>2. /\ at'[w] = "entry" /\ unit'[w] = <<u, astUnits[u]>>
        /\ \A v \in Workers \ {w} : at'[v] = at[v] /\ unit'[v] = unit[v]
    BY <1>0, <1>4 DEF TypeInv
  <2>3. PointInv'
    BY <1>0, <1>1, <2>0, <2>2 DEF PointInv
  <2>4. VerdictInv'
    BY <1>0, <2>0 DEF VerdictInv, VerdictOfTree, Shared
  <2>5. WorkerInv(w)'
    BY <1>1, <1>4, <2>0, <2>2 DEF WorkerInv, Using, Without, Missing, Locked
  <2>6. ASSUME NEW v \in Workers \ {w} PROVE WorkerInv(v)'
    BY <1>0, <1>1, <2>0, <2>2, OtherWorker
  <2> QED BY <2>1, <2>3, <2>4, <2>5, <2>6 DEF Inv
<1>5. CASE /\ ~Missing(u) /\ Unlocked /\ astUnits[u] = 0
           /\ mutex' = w
           /\ Goto(w, "build")
           /\ UNCHANGED <<astUnits, built, null>>
  <2>0. /\ at' = [at EXCEPT ![w] = "build"]
        /\ UNCHANGED <<point, unit, verdicts, astUnits, built, misled, excused>>
        /\ overlapped' = overlapped \ {w}
    BY <1>5 DEF Goto
  <2>1. TypeInv'
    BY <1>0, <1>1, <2>0 DEF TypeInv, Places
  <2>2. at'[w] = "build" /\ \A v \in Workers \ {w} : at'[v] = at[v]
    BY <1>0, <2>0 DEF TypeInv
  <2>3. PointInv'
    BY <1>0, <1>1, <2>0, <2>2 DEF PointInv
  <2>4. VerdictInv'
    BY <1>0, <2>0 DEF VerdictInv, VerdictOfTree, Shared
  <2>5. WorkerInv(w)'
    BY <1>1, <1>5, <2>0, <2>2 DEF WorkerInv, Using, Without, Missing, Locked
  <2>6. ASSUME NEW v \in Workers \ {w} PROVE WorkerInv(v)'
    <3>1. at[v] # "build"
      BY <1>0, <1>5, ASTAssumption DEF Unlocked, WorkerInv
    <3> QED BY <1>0, <1>1, <2>0, <2>2, <3>1, OtherWorker
  <2> QED BY <2>1, <2>3, <2>4, <2>5, <2>6 DEF Inv
<1> QED BY <1>3, <1>4, <1>5 DEF FindAST

\* The holder of the mutex is alone in building, and the unit it builds for has
\* no tree that a worker could be using.
LEMMA BuildASTInv ==
  ASSUME Inv, NEW w \in Workers, BuildAST(w)
  PROVE  Inv'
<1> DEFINE u == UnitOf[point[w]]
           n == built[u] + 1
<1>0. TypeInv /\ PointInv /\ VerdictInv /\ \A v \in Workers : WorkerInv(v)
  BY DEF Inv
<1>1. /\ at[w] = "build"
      /\ UNCHANGED <<pending, point, treeMutex, overlapped, misled, excused, verdicts>>
      /\ built' = [built EXCEPT ![u] = n] /\ astUnits' = [astUnits EXCEPT ![u] = n]
      /\ unit' = [unit EXCEPT ![w] = <<u, n>>] /\ at' = [at EXCEPT ![w] = "entry"]
  BY DEF BuildAST
<1>2. /\ w \notin overlapped \cup misled \cup excused
      /\ point[w] \in Points \ pending /\ u \in Exists
      /\ mutex = w /\ astUnits[u] = 0
  BY <1>0, <1>1 DEF WorkerInv, Using, Without
<1>3. u \in Units /\ n \in Nat /\ n # 0
  <2>1. u \in Units
    BY <1>2 DEF Units
  <2> QED BY <1>0, <2>1 DEF TypeInv
<1> HIDE DEF n
<1>4. TypeInv'
  <2>1. <<u, n>> \in Units \X Nat
    BY <1>3
  <2> HIDE DEF u
  <2> QED BY <1>0, <1>1, <1>3, <2>1 DEF TypeInv, Places
<1>5. /\ at'[w] = "entry" /\ unit'[w] = <<u, n>> /\ astUnits'[u] = n
      /\ \A x \in Units \ {u} : astUnits'[x] = astUnits[x]
      /\ \A v \in Workers \ {w} : at'[v] = at[v] /\ unit'[v] = unit[v]
  BY <1>0, <1>1, <1>3 DEF TypeInv
<1>6. PointInv'
  BY <1>0, <1>1, <1>5 DEF PointInv
<1>7. VerdictInv'
  BY <1>0, <1>1 DEF VerdictInv, VerdictOfTree, Shared
<1>8. WorkerInv(w)'
  BY <1>1, <1>2, <1>3, <1>5 DEF WorkerInv, Using, Without, Places, Locked
<1>9. ASSUME NEW v \in Workers \ {w} PROVE WorkerInv(v)'
  <2>1. at[v] # "build"
    BY <1>0, <1>2 DEF WorkerInv
  <2>2. ASSUME at[v] \in Using
        PROVE  astUnits'[UnitOf[point[v]]] = astUnits[UnitOf[point[v]]]
    <3>1. UnitOf[point[v]] # u
      BY <1>0, <1>2, <2>2 DEF WorkerInv
    <3>2. UnitOf[point[v]] \in Units
      BY <2>2, TreeFacts
    <3> QED BY <1>5, <3>1, <3>2
  <2> QED BY <1>0, <1>1, <1>5, <2>1, <2>2, OtherWorker
<1> QED BY <1>4, <1>6, <1>7, <1>8, <1>9 DEF Inv

\* A worker with a tree judges its point, waits for the tree's mutex or begins its
\* next query, and knows what the last one told it.
LEMMA UseInv ==
  ASSUME Inv, NEW w \in Workers,
         \/ FindFileEntry(w) \/ GetLocation(w) \/ GotLocation(w) \/ IsInSystemHeader(w)
         \/ GetDecl(w) \/ GotDecl(w) \/ FindMutantExpression(w) \/ SetEndLocation(w)
  PROVE  Inv'
<1>1. /\ UNCHANGED <<pending, mutex, astUnits, built>>
      /\ at[w] \in Using /\ at[w] \notin {"idle", "build"}
  BY DEF FindFileEntry, GetLocation, GotLocation, IsInSystemHeader, GetDecl, GotDecl,
         FindMutantExpression, SetEndLocation, storage, Using, Places, Without
<1>2. /\ treeMutex' \in [Units -> Workers \cup {None}]
      /\ \A v \in Workers \ {w} :
           at[v] \in Locked => treeMutex'[UnitOf[point[v]]] = treeMutex[UnitOf[point[v]]]
  <2>1. \/ TreeUnlocked(w) /\ treeMutex' = [treeMutex EXCEPT ![unit[w][1]] = w]
        \/ at[w] \in Locked /\ treeMutex' = Released(w)
        \/ treeMutex' = treeMutex
    BY DEF FindFileEntry, GetLocation, GotLocation, IsInSystemHeader, GetDecl, GotDecl,
           FindMutantExpression, SetEndLocation, Locked
  <2> QED BY <1>1, <2>1, TreeMutexFacts
<1>3. /\ point[w] \in Points /\ UnitOf[point[w]] \in Units /\ unit[w][1] = UnitOf[point[w]]
      /\ UnitOf[point[w]] \in Exists /\ WorkerInv(w)
      /\ treeMutex \in [Units -> Workers \cup {None}]
  BY <1>1, TreeFacts DEF Inv, WorkerInv, TypeInv
<1>4. w \notin excused => w \notin overlapped \cup misled
  BY <1>3 DEF WorkerInv
<1>5. Verdict[point[w]] \in {"system header", "no decl", "no expression", "mutable"}
  BY <1>3, ASTAssumption
<1>6. ASSUME NEW verdict, NEW place, Judge(w, verdict, place),
             w \notin excused => (verdict = "kept" <=> Verdict[point[w]] = "mutable") /\ place # "wrong"
      PROVE  Inv'
  BY <1>1, <1>2, <1>3, <1>6, JudgeInv
<1>7. ASSUME NEW step \in Asking \ Locked, Begin(w, step),
             w \notin overlapped \cup misled =>
               /\ step = "expression" => Declared(point[w])
               /\ step = "query" => Verdict[point[w]] = "mutable"
      PROVE  Inv'
  BY <1>1, <1>2, <1>7, BeginInv
<1>8. ASSUME NEW step \in Locked, Begin(w, step), TreeUnlocked(w),
             treeMutex' = [treeMutex EXCEPT ![unit[w][1]] = w]
      PROVE  Inv'
  <2>1. step \in Asking /\ step \notin {"expression", "query"}
    BY <1>8 DEF Locked, Asking
  <2>2. treeMutex'[UnitOf[point[w]]] = w
    BY <1>3, <1>8
  <2> QED BY <1>1, <1>2, <1>8, <2>1, <2>2, BeginInv
<1>9. CASE FindFileEntry(w)
  BY <1>1, <1>9, GotoInv DEF FindFileEntry
<1>10. CASE GetLocation(w)
  BY <1>8, <1>10 DEF GetLocation, Locked
<1>11. CASE GotLocation(w)
  BY <1>7, <1>11 DEF GotLocation, Locked, Asking
<1>12. CASE IsInSystemHeader(w)
  <2>1. PICK yes \in Answers(w, Verdict[point[w]] = "system header") :
          IF yes THEN Judge(w, "junk", "none") ELSE Goto(w, "decl")
    BY <1>12 DEF IsInSystemHeader
  <2>2. CASE yes /\ Judge(w, "junk", "none")
    <3>1. w \notin excused => Verdict[point[w]] = "system header"
      BY <1>4, <2>1, <2>2 DEF Answers
    <3> QED BY <1>6, <2>2, <3>1
  <2>3. CASE Goto(w, "decl")
    BY <1>1, <1>12, <2>3, GotoInv DEF IsInSystemHeader
  <2> QED BY <2>1, <2>2, <2>3
<1>13. CASE GetDecl(w)
  <2>1. CASE Undeclared(unit[w][1]) /\ Judge(w, "junk", "none")
    BY <1>3, <1>6, <2>1 DEF Undeclared
  <2>2. CASE /\ TreeUnlocked(w) /\ Begin(w, "looking")
             /\ treeMutex' = [treeMutex EXCEPT ![unit[w][1]] = w]
    BY <1>8, <2>2 DEF Locked
  <2> QED BY <1>13, <2>1, <2>2 DEF GetDecl
<1>14. CASE GotDecl(w)
  <2>1. PICK yes \in Answers(w, Verdict[point[w]] \notin {"system header", "no decl"}) :
          IF yes THEN Begin(w, "expression") ELSE Judge(w, "junk", "none")
    BY <1>14 DEF GotDecl
  <2>2. w \notin overlapped \cup misled => (yes <=> Declared(point[w]))
    BY <1>5, <2>1 DEF Answers, Declared
  <2>3. CASE yes /\ Begin(w, "expression")
    BY <1>7, <2>2, <2>3 DEF Asking, Locked
  <2>4. CASE ~yes /\ Judge(w, "junk", "none")
    BY <1>4, <1>6, <2>2, <2>4 DEF Declared
  <2> QED BY <2>1, <2>3, <2>4
<1>15. CASE FindMutantExpression(w)
  <2>1. PICK yes \in Answers(w, Verdict[point[w]] = "mutable") :
          IF yes THEN Begin(w, "query") ELSE Judge(w, "junk", "none")
    BY <1>15 DEF FindMutantExpression
  <2>2. w \notin overlapped \cup misled => (yes <=> Verdict[point[w]] = "mutable")
    BY <2>1 DEF Answers
  <2>3. CASE yes /\ Begin(w, "query")
    BY <1>7, <2>2, <2>3 DEF Asking, Locked
  <2>4. CASE ~yes /\ Judge(w, "junk", "none")
    BY <1>4, <1>6, <2>2, <2>4
  <2> QED BY <2>1, <2>3, <2>4
<1>16. CASE SetEndLocation(w)
  <2>1. PICK right \in Answers(w, TRUE) : Judge(w, "kept", IF right THEN "right" ELSE "wrong")
    BY <1>16 DEF SetEndLocation
  <2>2. w \notin excused => right /\ Verdict[point[w]] = "mutable"
    BY <1>3, <1>4, <1>16, <2>1 DEF Answers, SetEndLocation, WorkerInv
  <2> QED BY <1>6, <2>1, <2>2
<1> QED BY <1>9, <1>10, <1>11, <1>12, <1>13, <1>14, <1>15, <1>16

\* Every step of a worker preserves the invariant.
LEMMA InvNext == Inv /\ [ASTNext]_astVars => Inv'
<1> SUFFICES ASSUME Inv, [ASTNext]_astVars PROVE Inv'
  OBVIOUS
<1>1. CASE UNCHANGED astVars
  <2>1. UNCHANGED <<pending, point, at, unit, mutex, astUnits, built, treeMutex, overlapped,
                    misled, excused, verdicts>>
    BY <1>1 DEF astVars
  <2>2. TypeInv' /\ PointInv'
    BY <2>1 DEF Inv, TypeInv, PointInv
  <2>3. VerdictInv'
    BY <2>1 DEF Inv, VerdictInv, VerdictOfTree, Shared
  <2>4. ASSUME NEW w \in Workers PROVE WorkerInv(w)'
    BY <2>1, OtherWorker DEF Inv
  <2> QED BY <2>2, <2>3, <2>4 DEF Inv
<1>2. ASSUME NEW w \in Workers, IsJunk(w) PROVE Inv'
  BY <1>2, TakeInv, FindASTInv, BuildASTInv, UseInv DEF IsJunk
<1> QED BY <1>1, <1>2 DEF ASTNext

\* The invariant holds in every state of the junk filter's workers.
THEOREM Invariance == ASTSpec => []Inv
BY InvInit, InvNext, PTL DEF ASTSpec

\* For any number of workers, points and units: a verdict is that of the tree
\* unless one of the point's queries met one of another point of its unit, of
\* which not both were made with the tree's mutex; and a tree is never replaced
\* while a worker has it: isJunk and findAST.
THEOREM VerdictsReliable == ASTSpec => []VerdictsRight
<1>1. Inv => VerdictsOfTree
  BY DEF Inv, VerdictInv, VerdictOfTree, VerdictsOfTree, Shared
<1>2. Inv => TreeOutlivesUse
  <2> SUFFICES ASSUME Inv, NEW w \in Workers, unit[w] # None
               PROVE  astUnits[unit[w][1]] = unit[w][2]
    BY DEF TreeOutlivesUse
  <2>1. at[w] \in Using /\ WorkerInv(w)
    BY DEF Inv, TypeInv, WorkerInv, Places, Using, Without
  <2>2. unit[w] = <<UnitOf[point[w]], astUnits[UnitOf[point[w]]]>>
    BY <2>1 DEF WorkerInv
  <2>3. unit[w][1] = UnitOf[point[w]] /\ unit[w][2] = astUnits[UnitOf[point[w]]]
    BY <2>2
  <2> QED BY <2>3
<1>3. Inv => VerdictsRight
  BY <1>1, <1>2 DEF VerdictsRight
<1> QED BY <1>3, Invariance, PTL

-------------------------------------------------------------------------------
(* JunkDetector.                                                           *)

\* The order of the naturals is well founded, as a relation.
LessNat == {r \in Nat \X Nat : r[1] < r[2]}

\* A set of naturals that is not empty has a least element.
LEMMA LeastNatural ==
  ASSUME NEW S, S \subseteq Nat, S # {}
  PROVE  \E x \in S : \A y \in S : x <= y
<1>1. IsWellFoundedOn(LessNat, Nat)
  BY NatLessThanWellFounded DEF LessNat, OpToRel
<1>2. PICK x \in S : \A y \in S : ~(<<y, x>> \in LessNat)
  BY <1>1, WFMin
<1>3. ASSUME NEW y \in S, y < x PROVE FALSE
  <2>1. <<y, x>> \in Nat \X Nat
    OBVIOUS
  <2>2. <<y, x>>[1] < <<y, x>>[2]
    BY <1>3
  <2>3. <<y, x>> \in LessNat
    BY <2>1, <2>2, Zenon DEF LessNat
  <2> QED BY <1>2, <2>3
<1> QED BY <1>3

\* A set of naturals that is not empty and has a bound has a greatest element.
LEMMA GreatestNatural ==
  ASSUME NEW S, S \subseteq Nat, S # {}, NEW b \in Nat, \A x \in S : x <= b
  PROVE  \E x \in S : \A y \in S : y <= x
<1> DEFINE T == {b - x : x \in S}
<1>1. T \subseteq Nat /\ T # {}
  <2>1. ASSUME NEW x \in S PROVE b - x \in Nat
    OBVIOUS
  <2> QED BY <2>1
<1>2. PICK t \in T : \A u \in T : t <= u
  <2> HIDE DEF T
  <2> QED BY <1>1, LeastNatural
<1>3. PICK x \in S : t = b - x
  OBVIOUS
<1>4. ASSUME NEW y \in S PROVE y <= x
  <2>1. b - y \in T
    OBVIOUS
  <2>2. b - x <= b - y
    BY <1>2, <1>3, <2>1
  <2> HIDE DEF T
  <2> QED BY <2>2
<1> QED BY <1>4

\* A file's functions, as the assumption has them.
DeclFacts(D) ==
  /\ D \subseteq [begin : Nat \ {0}, end : Nat]
  /\ FileEnd \in Nat /\ \A d \in D : d.begin <= FileEnd
  /\ \A d \in D : d.begin <= d.end
  /\ \A x, y \in D : x # y => /\ x.begin # y.begin
                              /\ Disjoint(x, y) \/ Within(x, y) \/ Within(y, x)

\* The functions of a file that are in no other.
Outermost == {d \in decls : \A e \in decls : Within(d, e) => e = d}

\* Every function is in an outermost one.
LEMMA OutermostAround ==
  ASSUME DeclFacts(decls), NEW d \in decls
  PROVE  \E o \in Outermost : Within(d, o)
<1> DEFINE A == {e \in decls : Within(d, e)}
           B == {e.begin : e \in A}
<1>1. d \in A
  BY DEF Within, DeclFacts
<1>2. B \subseteq Nat /\ B # {}
  BY <1>1 DEF DeclFacts
<1>3. PICK b \in B : \A c \in B : b <= c
  <2> HIDE DEF B
  <2> QED BY <1>2, LeastNatural
<1>4. PICK o \in A : o.begin = b
  OBVIOUS
<1>5. ASSUME NEW e \in decls, Within(o, e), e # o PROVE FALSE
  <2>1. /\ e.begin \in Nat /\ e.end \in Nat /\ o.begin \in Nat /\ o.end \in Nat
        /\ d.begin \in Nat /\ d.end \in Nat /\ e.begin # o.begin
    BY <1>4, <1>5 DEF DeclFacts
  <2>2. Within(d, e)
    BY <1>4, <1>5, <2>1 DEF Within
  <2>3. e \in A
    BY <2>2
  <2>4. o.begin <= e.begin
    BY <1>3, <1>4, <2>3
  <2> QED BY <1>5, <2>1, <2>4 DEF Within
<1>6. o \in Outermost
  BY <1>4, <1>5 DEF Outermost
<1> QED BY <1>4, <1>6

\* Two outermost functions are disjoint.
LEMMA OutermostDisjoint ==
  ASSUME DeclFacts(decls), NEW x \in Outermost, NEW y \in Outermost, x.begin < y.begin
  PROVE  x.end < y.begin
<1>1. x \in decls /\ y \in decls
  BY DEF Outermost
<1>2. /\ x.begin \in Nat /\ x.end \in Nat /\ y.begin \in Nat /\ y.end \in Nat
      /\ x.begin <= x.end /\ y.begin <= y.end
  BY <1>1 DEF DeclFacts
<1>3. x # y
  BY <1>2
<1>4. ~Within(x, y) /\ ~Within(y, x)
  BY <1>1, <1>3 DEF Outermost
<1>5. Disjoint(x, y)
  BY <1>1, <1>3, <1>4 DEF DeclFacts
<1> QED BY <1>2, <1>5 DEF Disjoint

\* What std::unique is asked for when it thins the declarations.
Thinned(K) == \A d \in decls : d \in K <=> Unique(K, d)

\* The outermost functions are what it may leave.
LEMMA OutermostThinned ==
  ASSUME DeclFacts(decls)
  PROVE  Thinned(Outermost)
<1> SUFFICES ASSUME NEW d \in decls PROVE d \in Outermost <=> Unique(Outermost, d)
  BY DEF Thinned
<1>1. ASSUME d \in Outermost PROVE Unique(Outermost, d)
  BY <1>1, OutermostDisjoint DEF Unique, LastBefore
<1>2. ASSUME d \notin Outermost PROVE ~Unique(Outermost, d)
  <2>1. PICK o \in Outermost : Within(d, o)
    BY OutermostAround
  <2>2. o \in decls /\ o # d
    BY <1>2, <2>1 DEF Outermost
  <2>3. /\ o.begin \in Nat /\ o.end \in Nat /\ d.begin \in Nat /\ d.end \in Nat
        /\ d.begin <= d.end /\ o.begin # d.begin
    BY <2>2 DEF DeclFacts
  <2>4. o.begin < d.begin /\ d.begin <= o.end
    BY <2>1, <2>3 DEF Within
  <2>5. ASSUME NEW l \in Outermost, l.begin < d.begin PROVE l.begin <= o.begin
    <3>1. l \in decls /\ l.begin \in Nat /\ l.end \in Nat
      BY DEF Outermost, DeclFacts
    <3>2. ASSUME o.begin < l.begin PROVE FALSE
      <4>1. o.end < l.begin
        BY <3>2, OutermostDisjoint
      <4> QED BY <2>3, <2>4, <2>5, <3>1, <4>1
    <3> QED BY <2>3, <3>1, <3>2
  <2>6. LastBefore(Outermost, o, d)
    BY <2>4, <2>5 DEF LastBefore
  <2> QED BY <2>3, <2>4, <2>6 DEF Unique
<1> QED BY <1>1, <1>2

\* And nothing else is: the predicate is no equivalence, but on functions that
\* are disjoint or nested it leaves no choice.
LEMMA ThinnedOnce ==
  ASSUME DeclFacts(decls), NEW K \in SUBSET decls, Thinned(K)
  PROVE  K = Outermost
<1>1. ASSUME NEW d \in Outermost PROVE d \in K
  <2>1. d \in decls
    BY DEF Outermost
  <2>2. ASSUME NEW k \in K, k.begin < d.begin PROVE k.end < d.begin
    <3>1. k \in decls
      OBVIOUS
    <3>2. /\ k.begin \in Nat /\ k.end \in Nat /\ d.begin \in Nat /\ d.end \in Nat
          /\ d.begin <= d.end /\ k.begin <= k.end
      BY <2>1, <3>1 DEF DeclFacts
    <3>3. k # d
      BY <2>2, <3>2
    <3>4. ~Within(d, k)
      BY <3>1, <3>3 DEF Outermost
    <3>5. Disjoint(k, d) \/ Within(k, d)
      BY <2>1, <3>1, <3>3, <3>4 DEF DeclFacts
    <3> QED BY <2>2, <3>2, <3>5 DEF Disjoint, Within
  <2>3. Unique(K, d)
    BY <2>2 DEF Unique, LastBefore
  <2> QED BY <2>1, <2>3 DEF Thinned
<1> DEFINE B == {d.begin : d \in K \ Outermost}
<1>2. ASSUME B # {} PROVE FALSE
  <2>1. B \subseteq Nat
    BY DEF DeclFacts
  <2>2. PICK b \in B : \A c \in B : b <= c
    <3> HIDE DEF B
    <3> QED BY <1>2, <2>1, LeastNatural
  <2>3. PICK d \in K \ Outermost : d.begin = b
    OBVIOUS
  <2>4. PICK o \in Outermost : Within(d, o)
    BY OutermostAround
  <2>5. o \in decls /\ d \in decls /\ o # d /\ o \in K
    BY <1>1, <2>3, <2>4 DEF Outermost
  <2>6. /\ o.begin \in Nat /\ o.end \in Nat /\ d.begin \in Nat /\ d.end \in Nat
        /\ d.begin <= d.end /\ o.begin # d.begin
    BY <2>5 DEF DeclFacts
  <2>7. o.begin < d.begin /\ d.begin <= o.end
    BY <2>4, <2>6 DEF Within
  <2>8. ASSUME NEW l \in K, l.begin < d.begin PROVE l.begin <= o.begin
    <3>1. l \in decls /\ l.begin \in Nat /\ l.end \in Nat
      BY DEF DeclFacts
    <3>2. l \in Outermost
      <4>1. ASSUME l \notin Outermost PROVE FALSE
        <5>1. l.begin \in B
          BY <4>1
        <5>2. b <= l.begin
          BY <2>2, <5>1
        <5> QED BY <2>3, <2>6, <2>8, <3>1, <5>2
      <4> QED BY <4>1
    <3>3. ASSUME o.begin < l.begin PROVE FALSE
      <4>1. o.end < l.begin
        BY <3>2, <3>3, OutermostDisjoint
      <4> QED BY <2>6, <2>7, <2>8, <3>1, <4>1
    <3> QED BY <2>6, <3>1, <3>3
  <2>9. LastBefore(K, o, d)
    BY <2>7, <2>8 DEF LastBefore
  <2>10. o.end < d.begin
    BY <2>3, <2>5, <2>9 DEF Thinned, Unique
  <2> QED BY <2>6, <2>7, <2>10
<1> QED BY <1>1, <1>2

\* recordDeclarations keeps the outermost functions and no other.
LEMMA RecordedOutermost ==
  ASSUME DeclFacts(decls)
  PROVE  RecordDeclarations = Outermost
<1>1. Outermost \in SUBSET decls /\ Thinned(Outermost)
  BY OutermostThinned DEF Outermost
<1>2. RecordDeclarations = CHOOSE K \in SUBSET decls : Thinned(K)
  BY DEF RecordDeclarations, Thinned
<1>3. RecordDeclarations \in SUBSET decls /\ Thinned(RecordDeclarations)
  BY <1>1, <1>2
<1> QED BY <1>3, ThinnedOnce


\* Among functions with a bound on their begins there is a last one.
LEMMA LastOf ==
  ASSUME DeclFacts(decls), NEW A \in SUBSET decls, A # {}
  PROVE  \E k \in A : \A l \in A : l.begin <= k.begin
<1> DEFINE B == {d.begin : d \in A}
<1>1. B \subseteq Nat /\ B # {} /\ FileEnd \in Nat /\ \A b \in B : b <= FileEnd
  BY DEF DeclFacts
<1>2. PICK b \in B : \A c \in B : c <= b
  <2> HIDE DEF B
  <2> QED BY <1>1, GreatestNatural
<1>3. PICK k \in A : k.begin = b
  OBVIOUS
<1>4. \A l \in A : l.begin <= k.begin
  BY <1>2, <1>3
<1> QED BY <1>4

\* getDecl returns a function around the location, the outermost one, whenever
\* there is one.
LEMMA FindDeclOutermost ==
  ASSUME DeclFacts(decls), location \in Nat, NEW lower \in LowerBounds(Outermost, location),
         NEW d, d = IF lower.begin < location /\ location < lower.end THEN lower ELSE NoDecl
  PROVE  /\ d # NoDecl => d \in Around(location) /\ d \in Outermost
         /\ d = NoDecl => Around(location) = {}
<1>1. ASSUME d # NoDecl PROVE d \in Around(location) /\ d \in Outermost
  <2>1. d = lower /\ lower.begin < location /\ location < lower.end
    BY <1>1
  <2>2. lower # NoDecl
    BY <1>1, <2>1
  <2>3. lower \in Outermost
    BY <2>2 DEF LowerBounds
  <2> QED BY <2>1, <2>3 DEF Outermost, Around
<1>2. ASSUME d = NoDecl, NEW e \in Around(location) PROVE FALSE
  <2>1. e \in decls /\ e.begin < location /\ location < e.end
    BY DEF Around
  <2>2. PICK o \in Outermost : Within(e, o)
    BY <2>1, OutermostAround
  <2>3. o \in decls
    BY DEF Outermost
  <2>4. /\ e.begin \in Nat /\ e.end \in Nat /\ o.begin \in Nat /\ o.end \in Nat
    BY <2>1, <2>3 DEF DeclFacts
  <2>5. o.begin < location /\ location < o.end
    BY <2>1, <2>2, <2>4, location \in Nat DEF Within
  \* A function that ends before the location begins before o.
  <2>6. ASSUME NEW k \in Outermost, k.end < location PROVE k.begin < o.begin
    <3>1. k \in decls /\ k.begin \in Nat /\ k.end \in Nat /\ k.begin <= k.end
      BY DEF Outermost, DeclFacts
    <3>2. k # o
      BY <2>4, <2>5, <2>6, <3>1
    <3>3. k.begin # o.begin
      BY <2>3, <3>1, <3>2 DEF DeclFacts
    <3>4. ASSUME o.begin < k.begin PROVE FALSE
      <4>1. o.end < k.begin
        BY <3>4, OutermostDisjoint
      <4> QED BY <2>4, <2>5, <2>6, <3>1, <4>1
    <3> QED BY <2>4, <3>1, <3>3, <3>4
  <2>7. CASE lower \in Outermost
    <3>1. /\ lower \in decls /\ lower.begin \in Nat \ {0} /\ lower.end \in Nat
          /\ lower.begin <= lower.end
      BY <2>7 DEF Outermost, DeclFacts
    <3>2. lower # NoDecl
      BY <3>1 DEF NoDecl
    <3>3. /\ ~(lower.end < location)
          /\ \A k \in Outermost : LastBefore(Outermost, k, lower) => k.end < location
      BY <3>2 DEF LowerBounds
    <3>4. lower # o
      BY <1>2, <2>5, <3>2
    <3>5. lower.begin # o.begin
      BY <2>3, <3>1, <3>4 DEF DeclFacts
    <3>6. ASSUME lower.begin < o.begin PROVE FALSE
      <4>1. lower.end < o.begin
        BY <2>7, <3>6, OutermostDisjoint
      <4> QED BY <2>4, <2>5, <3>1, <3>3, <4>1, location \in Nat
    <3>7. ASSUME o.begin < lower.begin PROVE FALSE
      <4> DEFINE A == {l \in Outermost : l.begin < lower.begin}
      <4>1. A \in SUBSET decls /\ A # {}
        BY <3>7 DEF Outermost
      <4>2. PICK k \in A : \A l \in A : l.begin <= k.begin
        <5> HIDE DEF A
        <5> QED BY <4>1, LastOf
      <4>3. LastBefore(Outermost, k, lower) /\ k \in Outermost
        BY <4>2 DEF LastBefore
      <4>4. k.begin < o.begin
        BY <2>6, <3>3, <4>3
      <4>5. o.begin <= k.begin
        BY <3>7, <4>2
      <4>6. k.begin \in Nat
        BY <4>3 DEF Outermost, DeclFacts
      <4> HIDE DEF A
      <4> QED BY <2>4, <4>4, <4>5, <4>6
    <3> QED BY <2>4, <3>1, <3>5, <3>6, <3>7
  <2>8. CASE lower = NoDecl /\ lower \notin Outermost
    <3>1. \A k \in Outermost : (\A l \in Outermost : l.begin <= k.begin) => k.end < location
      BY <2>8 DEF LowerBounds
    <3>2. Outermost \in SUBSET decls /\ Outermost # {}
      BY DEF Outermost
    <3>3. PICK k \in Outermost : \A l \in Outermost : l.begin <= k.begin
      BY <3>2, LastOf
    <3>4. k.begin < o.begin
      BY <2>6, <3>1, <3>3
    <3>5. o.begin <= k.begin /\ k.begin \in Nat
      BY <3>3 DEF Outermost, DeclFacts
    <3> QED BY <2>4, <3>4, <3>5
  <2> QED BY <2>7, <2>8 DEF LowerBounds
<1> QED BY <1>1, <1>2

\* The outermost function around a location is around all functions there.
LEMMA OutermostIsAround ==
  ASSUME DeclFacts(decls), location \in Nat, NEW o \in Outermost, o \in Around(location),
         NEW e \in Around(location)
  PROVE  o.begin <= e.begin /\ e.end <= o.end
<1>1. o \in decls /\ e \in decls
  BY DEF Around
<1>2. /\ o.begin \in Nat /\ o.end \in Nat /\ e.begin \in Nat /\ e.end \in Nat
      /\ o.begin < location /\ location < o.end /\ e.begin < location /\ location < e.end
  BY <1>1 DEF DeclFacts, Around
<1>3. o = e \/ ~Within(o, e)
  BY <1>1 DEF Outermost
<1>4. o = e \/ Disjoint(o, e) \/ Within(e, o)
  BY <1>1, <1>3 DEF DeclFacts
<1>5. ~Disjoint(o, e)
  BY <1>2, location \in Nat DEF Disjoint
<1> QED BY <1>2, <1>4, <1>5 DEF Within

-------------------------------------------------------------------------------
\* The nodes of a file's bodies, as the assumption has them.
NodeFacts(N) ==
  /\ N \subseteq [class : Classes, begin : Nat, loc : Nat, end : Nat]
  /\ \A n \in N : n.begin <= n.end /\ (n.class # "literal" => n.loc \in n.begin..n.end)
  /\ \A m, n \in N : m.class = n.class => Disjoint(m, n) \/ Within(m, n) \/ Within(n, m)

\* Of nodes with a bound on their ends one is visited before the others.
LEMMA FirstNode ==
  ASSUME NodeFacts(nodes), NEW A \in SUBSET nodes, A # {}, NEW b \in Nat, \A n \in A : n.end <= b
  PROVE  \E n \in A : \A m \in A : ~Earlier(m, n)
<1> DEFINE B == {n.begin : n \in A}
<1>1. \A n \in A : n.begin \in Nat /\ n.end \in Nat
  BY DEF NodeFacts
<1>2. B \subseteq Nat /\ B # {}
  BY <1>1
<1>3. PICK c \in B : \A d \in B : c <= d
  <2> HIDE DEF B
  <2> QED BY <1>2, LeastNatural
<1> DEFINE E == {n.end : n \in {m \in A : m.begin = c}}
<1>4. E \subseteq Nat /\ E # {} /\ \A x \in E : x <= b
  BY <1>1
<1>5. PICK x \in E : \A y \in E : y <= x
  <2> HIDE DEF E
  <2> QED BY <1>4, GreatestNatural
<1>6. PICK n \in A : n.begin = c /\ n.end = x
  OBVIOUS
<1>7. ASSUME NEW m \in A PROVE ~Earlier(m, n)
  <2>1. c <= m.begin
    BY <1>3
  <2>2. m.begin = c => m.end <= x
    BY <1>5
  <2>3. m.begin \in Nat /\ m.end \in Nat /\ n.begin \in Nat /\ n.end \in Nat
    BY <1>1
  <2> QED BY <1>6, <2>1, <2>2, <2>3 DEF Earlier
<1> QED BY <1>7

\* Of nodes with a bound on their ends one is the last of the smallest.
LEMMA SmallestNode ==
  ASSUME NodeFacts(nodes), NEW A \in SUBSET nodes, A # {}, NEW b \in Nat, \A n \in A : n.end <= b
  PROVE  \E n \in A : \A m \in A : RangeSmaller(n, m) /\ (RangeSmaller(m, n) => ~Earlier(n, m))
<1> DEFINE B == {n.end - n.begin : n \in A}
<1>1. \A n \in A : n.begin \in Nat /\ n.end \in Nat /\ n.begin <= n.end
  BY DEF NodeFacts
<1>2. B \subseteq Nat /\ B # {}
  <2>1. ASSUME NEW n \in A PROVE n.end - n.begin \in Nat
    BY <1>1
  <2> QED BY <2>1
<1>3. PICK c \in B : \A d \in B : c <= d
  <2> HIDE DEF B
  <2> QED BY <1>2, LeastNatural
<1> DEFINE E == {n.begin : n \in {m \in A : m.end - m.begin = c}}
<1>4. E \subseteq Nat /\ E # {} /\ \A x \in E : x <= b
  <2>1. E \subseteq Nat /\ E # {}
    BY <1>1
  <2>2. ASSUME NEW n \in A PROVE n.begin <= b
    BY <1>1
  <2> QED BY <2>1, <2>2
<1>5. PICK x \in E : \A y \in E : y <= x
  <2> HIDE DEF E
  <2> QED BY <1>4, GreatestNatural
<1>6. PICK n \in A : n.begin = x /\ n.end - n.begin = c
  OBVIOUS
<1>7. ASSUME NEW m \in A
      PROVE  RangeSmaller(n, m) /\ (RangeSmaller(m, n) => ~Earlier(n, m))
  <2>1. c <= m.end - m.begin
    BY <1>3
  <2>2. m.end - m.begin = c => m.begin <= x
    BY <1>5
  <2>3. m.begin \in Nat /\ m.end \in Nat /\ n.begin \in Nat /\ n.end \in Nat
    BY <1>1
  <2> HIDE DEF B, E
  <2> QED BY <1>6, <2>1, <2>2, <2>3 DEF Earlier, RangeSmaller
<1> QED BY <1>7


\* No node of a body is partly in a function.
Apart == \A n \in nodes, d \in decls : Inside(n, d) \/ n.end < d.begin \/ d.end < n.begin

\* The class of the nodes that a kind of mutators looks for by location.
Sought == IF kind = "init const" THEN "variable" ELSE IF kind = "negate" THEN "not" ELSE kind

\* What is in the file, however far isJunk is.
FileInv ==
  /\ DeclFacts(decls) /\ NodeFacts(nodes) /\ Apart
  /\ kind \in Kinds /\ location \in Nat
  /\ looking \in {"decl", "expression", "end", "kept", "junk"}

\* What isJunk knows by how far it is.
JunkInv ==
  /\ FileInv
  /\ looking = "decl" => decl = NoDecl
  /\ looking # "decl" => /\ decl # NoDecl => decl \in Around(location) /\ decl \in Outermost
                         /\ decl = NoDecl => Around(location) = {}
  /\ looking \in {"expression", "end", "kept"} => decl # NoDecl
  /\ looking \in {"decl", "expression", "junk"} => found = Null
  /\ looking \in {"end", "kept"} => found # Null /\ found = MutantExpression(decl)
  /\ looking = "junk" /\ decl # NoDecl => MutantExpression(decl) = Null

\* Which visitor looks for what.
LEMMA VisitorOf ==
  ASSUME NEW d
  PROVE  /\ kind \in {"binary", "unary", "void call", "init const"} =>
              MutantExpression(d) = FirstAt(d, Sought)
         /\ kind \in {"scalar call", "negate"} =>
              MutantExpression(d) = InstructionRangeVisitor(d, Sought)
<1>1. CASE kind = "binary"
  BY <1>1 DEF MutantExpression, Sought, BinaryVisitor
<1>2. CASE kind = "unary"
  BY <1>2 DEF MutantExpression, Sought, UnaryVisitor
<1>3. CASE kind = "void call"
  BY <1>3 DEF MutantExpression, Sought, RemoveVoidFunctionVisitor
<1>4. CASE kind = "init const"
  BY <1>4 DEF MutantExpression, Sought, VarDeclVisitor
<1>5. CASE kind = "scalar call"
  BY <1>5 DEF MutantExpression, Sought, ReplaceCallVisitor
<1>6. CASE kind = "negate"
  BY <1>6 DEF MutantExpression, Sought, NegateConditionVisitor
<1> QED BY <1>1, <1>2, <1>3, <1>4, <1>5, <1>6

\* Nodes have a class.
LEMMA NodeIsNotNull ==
  ASSUME NodeFacts(nodes), NEW n \in nodes
  PROVE  n # Null
<1>1. n.class \in Classes
  BY DEF NodeFacts
<1>2. Null.class = "null"
  BY DEF Null
<1> QED BY <1>1, <1>2 DEF Classes

\* What the visitors of a class that stop at the location find.
LEMMA FirstAtFacts ==
  ASSUME FileInv, NEW d \in decls, NEW class
  PROVE  LET hits == {n \in Walk(d) : n.class = class /\ n.loc = location}
         IN  /\ hits = {} => FirstAt(d, class) = Null
             /\ hits # {} => FirstAt(d, class) \in hits /\ FirstAt(d, class) # Null
<1> DEFINE hits == {n \in Walk(d) : n.class = class /\ n.loc = location}
<1>1. hits = {} => FirstAt(d, class) = Null
  BY DEF FirstAt
<1>2. ASSUME hits # {} PROVE FirstAt(d, class) \in hits /\ FirstAt(d, class) # Null
  <2>1. hits \in SUBSET nodes /\ \A n \in hits : n.end <= d.end
    BY DEF Walk
  <2>2. NodeFacts(nodes) /\ d.end \in Nat
    BY DEF FileInv, DeclFacts
  <2>3. FirstAt(d, class) = CHOOSE n \in hits : \A m \in hits : ~Earlier(m, n)
    BY <1>2 DEF FirstAt
  <2> HIDE DEF hits
  <2>4. \E n \in hits : \A m \in hits : ~Earlier(m, n)
    BY <1>2, <2>1, <2>2, FirstNode
  <2>5. FirstAt(d, class) \in hits
    BY <2>3, <2>4
  <2> QED BY <2>1, <2>2, <2>5, NodeIsNotNull
<1> QED BY <1>1, <1>2

\* What the visitors of a class that look for the smallest range find.
LEMMA RangeVisitorFacts ==
  ASSUME FileInv, NEW d \in decls, NEW class
  PROVE  LET hits == {n \in Walk(d) : n.class = class /\ LocationInRange(n)}
             best == InstructionRangeVisitor(d, class)
         IN  /\ hits = {} => best = Null
             /\ hits # {} => best \in hits /\ best # Null /\ \A m \in hits : RangeSmaller(best, m)
<1> DEFINE hits == {n \in Walk(d) : n.class = class /\ LocationInRange(n)}
           best == InstructionRangeVisitor(d, class)
<1>1. hits = {} => best = Null
  BY DEF InstructionRangeVisitor
<1>2. ASSUME hits # {}
      PROVE  best \in hits /\ best # Null /\ \A m \in hits : RangeSmaller(best, m)
  <2>1. hits \in SUBSET nodes /\ \A n \in hits : n.end <= d.end
    BY DEF Walk
  <2>2. NodeFacts(nodes) /\ d.end \in Nat
    BY DEF FileInv, DeclFacts
  <2>3. best = CHOOSE n \in hits :
                 \A m \in hits : RangeSmaller(n, m) /\ (RangeSmaller(m, n) => ~Earlier(n, m))
    BY <1>2 DEF InstructionRangeVisitor
  <2> HIDE DEF hits, best
  <2>4. \E n \in hits :
          \A m \in hits : RangeSmaller(n, m) /\ (RangeSmaller(m, n) => ~Earlier(n, m))
    BY <1>2, <2>1, <2>2, SmallestNode
  <2>5. best \in hits /\ \A m \in hits : RangeSmaller(best, m)
    BY <2>3, <2>4
  <2> QED BY <2>1, <2>2, <2>5, NodeIsNotNull
<1> QED BY <1>1, <1>2

\* A node around a location is in the body of every function around it.
LEMMA InWalk ==
  ASSUME FileInv, NEW d \in Around(location), NEW n \in nodes, LocationInRange(n)
  PROVE  n \in Walk(d)
<1>1. d \in decls /\ d.begin < location /\ location < d.end
  BY DEF Around
<1>2. d.begin \in Nat /\ d.end \in Nat /\ location \in Nat
  BY <1>1 DEF FileInv, DeclFacts
<1>3. n.begin \in Nat /\ n.end \in Nat
  BY DEF FileInv, NodeFacts
<1>4. n.begin <= location /\ location <= n.end
  BY DEF LocationInRange
<1>5. Inside(n, d) \/ n.end < d.begin \/ d.end < n.begin
  BY <1>1 DEF FileInv, Apart
<1>6. Inside(n, d)
  BY <1>1, <1>2, <1>3, <1>4, <1>5
<1> QED BY <1>2, <1>3, <1>6 DEF Inside, Walk

\* Ranges as intervals of naturals.
LEMMA RangeIsInterval ==
  ASSUME FileInv, NEW n \in nodes
  PROVE  LocationInRange(n) <=> location \in n.begin..n.end
<1>1. \A a, b, x \in Nat : (a <= x /\ x <= b) <=> x \in a..b
  OBVIOUS
<1>2. n.begin \in Nat /\ n.end \in Nat /\ location \in Nat
  BY DEF FileInv, NodeFacts
<1> QED BY <1>1, <1>2, Zenon DEF LocationInRange

\* A node that is at its location, and no literal, is around it.
LEMMA AroundLoc ==
  ASSUME FileInv, NEW n \in nodes, n.loc = location, n.class # "literal"
  PROVE  LocationInRange(n)
<1>1. n.loc \in n.begin..n.end /\ n.begin \in Nat /\ n.end \in Nat
  BY DEF FileInv, NodeFacts
<1> QED BY <1>1 DEF LocationInRange

\* Nothing of what a kind of mutators looks for is missed, and nothing else is
\* taken for it.
LEMMA NothingMissed ==
  ASSUME FileInv, NEW d \in Around(location), kind # "scalar value"
  PROVE  /\ \A n \in nodes : n.class = Sought /\ n.loc = location => MutantExpression(d) # Null
         /\ MutantExpression(d) # Null =>
              /\ MutantExpression(d) \in nodes /\ MutantExpression(d).class = Sought
              /\ MutantExpression(d).loc = location \/ LocationInRange(MutantExpression(d))
<1>1. d \in decls
  BY DEF Around
<1>2. Sought # "literal"
  BY DEF FileInv, Kinds, Sought
<1>3. CASE kind \in {"binary", "unary", "void call", "init const"}
  <2> DEFINE hits == {n \in Walk(d) : n.class = Sought /\ n.loc = location}
  <2>1. MutantExpression(d) = FirstAt(d, Sought)
    BY <1>3, VisitorOf
  <2>2. /\ hits = {} => FirstAt(d, Sought) = Null
        /\ hits # {} => FirstAt(d, Sought) \in hits /\ FirstAt(d, Sought) # Null
    BY <1>1, FirstAtFacts
  <2>3. ASSUME NEW n \in nodes, n.class = Sought, n.loc = location PROVE hits # {}
    <3>1. n \in Walk(d)
      BY <1>2, <2>3, AroundLoc, InWalk
    <3> QED BY <2>3, <3>1
  <2>4. \A n \in hits : n \in nodes /\ n.class = Sought /\ n.loc = location
    BY DEF Walk
  <2> HIDE DEF hits
  <2> QED BY <2>1, <2>2, <2>3, <2>4
<1>4. CASE kind \in {"scalar call", "negate"}
  <2> DEFINE hits == {n \in Walk(d) : n.class = Sought /\ LocationInRange(n)}
             best == InstructionRangeVisitor(d, Sought)
  <2>1. MutantExpression(d) = best
    BY <1>4, VisitorOf
  <2>2. /\ hits = {} => best = Null
        /\ hits # {} => best \in hits /\ best # Null
    BY <1>1, RangeVisitorFacts
  <2>3. ASSUME NEW n \in nodes, n.class = Sought, n.loc = location PROVE hits # {}
    <3>1. LocationInRange(n) /\ n \in Walk(d)
      BY <1>2, <2>3, AroundLoc, InWalk
    <3> QED BY <2>3, <3>1
  <2>4. \A n \in hits : n \in nodes /\ n.class = Sought /\ LocationInRange(n)
    BY DEF Walk
  <2> HIDE DEF hits, best
  <2> QED BY <2>1, <2>2, <2>3, <2>4
<1> QED BY <1>3, <1>4 DEF FileInv, Kinds

\* Of two nodes around the location, nested or disjoint, the smaller one is within
\* the other.
LEMMA SmallerIsWithin ==
  ASSUME FileInv, NEW m \in nodes, NEW n \in nodes, LocationInRange(m), LocationInRange(n),
         RangeSmaller(m, n), Disjoint(m, n) \/ Within(m, n) \/ Within(n, m)
  PROVE  n.begin <= m.begin /\ m.end <= n.end
<1>1. m.begin \in Nat /\ m.end \in Nat /\ n.begin \in Nat /\ n.end \in Nat /\ location \in Nat
  BY DEF FileInv, NodeFacts
<1> QED BY <1>1 DEF LocationInRange, RangeSmaller, Disjoint, Within

\* Of the nodes around the location no other is smaller.
LEMMA InnermostFound ==
  ASSUME FileInv, NEW d \in Around(location), kind \in {"scalar call", "negate"},
         MutantExpression(d) # Null,
         NEW n \in nodes, n.class = MutantExpression(d).class, LocationInRange(n)
  PROVE  n.begin <= MutantExpression(d).begin /\ MutantExpression(d).end <= n.end
<1> DEFINE hits == {m \in Walk(d) : m.class = Sought /\ LocationInRange(m)}
           best == MutantExpression(d)
<1>1. d \in decls
  BY DEF Around
<1>2. best = InstructionRangeVisitor(d, Sought)
  BY VisitorOf
<1>3. hits # {} /\ best \in hits /\ \A m \in hits : RangeSmaller(best, m)
  <2>1. /\ hits = {} => InstructionRangeVisitor(d, Sought) = Null
        /\ hits # {} => /\ InstructionRangeVisitor(d, Sought) \in hits
                        /\ \A m \in hits : RangeSmaller(InstructionRangeVisitor(d, Sought), m)
    BY <1>1, RangeVisitorFacts
  <2> HIDE DEF hits
  <2> QED BY <1>2, <2>1
<1>4. best \in nodes /\ best.class = Sought /\ LocationInRange(best)
  BY <1>3 DEF Walk
<1>5. n \in hits
  BY <1>4, InWalk
<1>6. RangeSmaller(best, n)
  BY <1>3, <1>5
<1>7. Disjoint(best, n) \/ Within(best, n) \/ Within(n, best)
  BY <1>4 DEF FileInv, NodeFacts
<1> HIDE DEF best, hits
<1>8. n.begin <= best.begin /\ best.end <= n.end
  BY <1>4, <1>6, <1>7, SmallerIsWithin, Zenon
<1> QED BY <1>8 DEF best

-------------------------------------------------------------------------------
\* The files the assumption admits.
LEMMA JunkInitInv == JunkInit => JunkInv
<1> SUFFICES ASSUME JunkInit PROVE JunkInv
  OBVIOUS
<1>1. DeclFacts(decls)
  <2>1. decls \in DeclSets
    BY DEF JunkInit
  <2>2. /\ FileEnd \in Nat
        /\ decls \subseteq [begin : 1..FileEnd, end : 1..FileEnd]
        /\ \A d \in decls : d.begin <= d.end
        /\ \A x, y \in decls : x # y => /\ x.begin # y.begin
                                        /\ Disjoint(x, y) \/ Within(x, y) \/ Within(y, x)
    BY <2>1, JunkAssumption
  <2>3. ASSUME NEW d \in decls
        PROVE  d \in [begin : Nat \ {0}, end : Nat] /\ d.begin <= FileEnd
    <3>1. d \in [begin : 1..FileEnd, end : 1..FileEnd]
      BY <2>2
    <3>2. 1..FileEnd \subseteq Nat \ {0} /\ 1..FileEnd \subseteq Nat
      BY <2>2
    <3>3. d.begin \in 1..FileEnd
      BY <3>1
    <3> QED BY <2>2, <3>1, <3>2, <3>3
  <2> QED BY <2>2, <2>3 DEF DeclFacts
<1>2. NodeFacts(nodes)
  BY JunkAssumption DEF JunkInit, NodeFacts
<1>3. location \in Nat
  <2>1. location \in 1..FileEnd /\ FileEnd \in Nat
    BY JunkAssumption DEF JunkInit
  <2> QED BY <2>1
<1>4. FileInv
  BY <1>1, <1>2, <1>3 DEF JunkInit, FileInv, Apart
<1> QED BY <1>4 DEF JunkInit, JunkInv

\* What the visitors find depends on the file, the mutator and the location only.
LEMMA ExpressionFixed ==
  ASSUME UNCHANGED <<nodes, kind, location, decl>>
  PROVE  MutantExpression(decl)' = MutantExpression(decl)
BY DEF MutantExpression, BinaryVisitor, UnaryVisitor, RemoveVoidFunctionVisitor, VarDeclVisitor,
       ReplaceCallVisitor, NegateConditionVisitor, ScalarValueVisitor, FirstAt,
       InstructionRangeVisitor, Walk, LocationInRange

\* Each step of isJunk preserves the invariant.
LEMMA JunkNextInv == JunkInv /\ [JunkNext]_junkVars => JunkInv'
<1> SUFFICES ASSUME JunkInv, [JunkNext]_junkVars PROVE JunkInv'
  OBVIOUS
<1>1. CASE FindDecl
  <2>1. /\ looking = "decl" /\ found = Null /\ FileInv
        /\ UNCHANGED <<decls, nodes, kind, location, found>>
    BY <1>1 DEF FindDecl, JunkInv
  <2>2. DeclFacts(decls) /\ location \in Nat
    BY <2>1 DEF FileInv
  <2>3. PICK lower \in LowerBounds(Outermost, location) :
          decl' = IF lower.begin < location /\ location < lower.end THEN lower ELSE NoDecl
    BY <1>1, <2>2, RecordedOutermost DEF FindDecl
  <2>4. /\ decl' # NoDecl => decl' \in Around(location) /\ decl' \in Outermost
        /\ decl' = NoDecl => Around(location) = {}
    BY <2>2, <2>3, FindDeclOutermost
  <2>5. looking' = IF decl' = NoDecl THEN "junk" ELSE "expression"
    BY <1>1 DEF FindDecl
  <2>6. Around(location)' = Around(location) /\ Outermost' = Outermost
    BY <2>1 DEF Around, Outermost
  <2>7. FileInv'
    BY <2>1, <2>5 DEF FileInv, Apart
  <2> QED BY <2>1, <2>4, <2>5, <2>6, <2>7 DEF JunkInv
<1>2. CASE FindExpression
  <2>1. /\ looking = "expression" /\ FileInv /\ decl # NoDecl
        /\ found' = MutantExpression(decl)
        /\ looking' = IF found' = Null THEN "junk" ELSE "end"
        /\ UNCHANGED <<decls, nodes, kind, location, decl>>
    BY <1>2 DEF FindExpression, JunkInv
  <2>2. MutantExpression(decl)' = MutantExpression(decl)
    BY <2>1, ExpressionFixed
  <2>3. Around(location)' = Around(location) /\ Outermost' = Outermost
    BY <2>1 DEF Around, Outermost
  <2>4. FileInv'
    BY <2>1 DEF FileInv, Apart
  <2> QED BY <2>1, <2>2, <2>3, <2>4 DEF JunkInv
<1>3. CASE SetPointEnd
  <2>1. /\ looking = "end" /\ looking' = "kept" /\ FileInv
        /\ UNCHANGED <<decls, nodes, kind, location, decl, found>>
    BY <1>3 DEF SetPointEnd, JunkInv
  <2>2. MutantExpression(decl)' = MutantExpression(decl)
    BY <2>1, ExpressionFixed
  <2>3. Around(location)' = Around(location) /\ Outermost' = Outermost
    BY <2>1 DEF Around, Outermost
  <2>4. FileInv'
    BY <2>1 DEF FileInv, Apart
  <2> QED BY <2>1, <2>2, <2>3, <2>4 DEF JunkInv
<1>4. CASE UNCHANGED junkVars
  <2>1. MutantExpression(decl)' = MutantExpression(decl)
    BY <1>4, ExpressionFixed DEF junkVars
  <2>2. Around(location)' = Around(location) /\ Outermost' = Outermost
    BY <1>4 DEF junkVars, Around, Outermost
  <2>3. FileInv'
    BY <1>4 DEF junkVars, JunkInv, FileInv, Apart
  <2> QED BY <1>4, <2>1, <2>2, <2>3 DEF junkVars, JunkInv
<1> QED BY <1>1, <1>2, <1>3, <1>4 DEF JunkNext

\* JunkInv is invariant: what isJunk knows of a file and a location, from step to
\* step.
THEOREM JunkInvariance == JunkSpec => []JunkInv
<1> QED BY JunkInitInv, JunkNextInv, PTL DEF JunkSpec

\* The invariant says that nothing that is looked for is lost, and that the
\* outermost function and the innermost node are found.
LEMMA JunkInvRight == JunkInv => JunkRight
<1> SUFFICES ASSUME JunkInv PROVE JunkRight
  OBVIOUS
<1>1. FileInv
  BY DEF JunkInv
<1>2. DeclIsOutermost
  <2>1. ASSUME looking # "decl", decl # NoDecl, NEW d \in Around(location)
        PROVE  decl.begin <= d.begin /\ d.end <= decl.end
    <3>1. decl \in Around(location) /\ decl \in Outermost
      BY <2>1 DEF JunkInv
    <3>2. DeclFacts(decls) /\ location \in Nat
      BY <1>1 DEF FileInv
    <3> QED BY <3>1, <3>2, OutermostIsAround
  <2>2. looking # "decl" => (decl = NoDecl) = (Around(location) = {})
    BY DEF JunkInv
  <2> QED BY <2>1, <2>2 DEF DeclIsOutermost
<1>3. found # Null => /\ decl # NoDecl /\ decl \in Around(location)
                      /\ found = MutantExpression(decl)
  BY <1>1 DEF JunkInv, FileInv
<1>4. CallIsInnermost
  <2> SUFFICES ASSUME found # Null, kind \in {"scalar call", "negate"},
                      NEW n \in nodes, n.class = found.class, location \in n.begin..n.end
               PROVE  n.begin <= found.begin /\ found.end <= n.end
    BY DEF CallIsInnermost
  <2>1. LocationInRange(n)
    BY <1>1, RangeIsInterval
  <2> QED BY <1>1, <1>3, <2>1, InnermostFound
<1>5. NothingLost
  <2> SUFFICES ASSUME looking = "junk",
                      NEW n \in nodes, n.loc = location, n.class = Sought,
                      NEW d \in decls, Inside(n, d)
               PROVE  FALSE
    BY DEF NothingLost, Sought
  <2>1. n.class \in Classes
    BY <1>1 DEF FileInv, NodeFacts
  <2>2. kind # "scalar value" /\ n.class # "literal"
    BY <1>1, <2>1 DEF FileInv, Kinds, Classes, Sought
  <2>3. LocationInRange(n)
    BY <1>1, <2>2, AroundLoc
  <2>4. /\ n.begin \in Nat /\ n.end \in Nat /\ d.begin \in Nat /\ d.end \in Nat
        /\ location \in Nat
    BY <1>1 DEF FileInv, NodeFacts, DeclFacts
  <2>5. d \in Around(location)
    BY <2>3, <2>4 DEF LocationInRange, Inside, Around
  <2>6. decl # NoDecl /\ decl \in Around(location) /\ MutantExpression(decl) = Null
    BY <2>5 DEF JunkInv
  <2> QED BY <1>1, <2>2, <2>6, NothingMissed
<1>6. KeptIsThere
  <2> SUFFICES ASSUME looking = "kept", kind # "scalar value"
               PROVE  found.loc = location \/ location \in found.begin..found.end
    BY DEF KeptIsThere
  <2>1. found # Null
    BY DEF JunkInv
  <2>2. found \in nodes /\ (found.loc = location \/ LocationInRange(found))
    BY <1>1, <1>3, <2>1, NothingMissed
  <2> QED BY <1>1, <2>2, RangeIsInterval
<1> QED BY <1>2, <1>4, <1>5, <1>6 DEF JunkRight

\* Whatever functions and nodes a file has, nested as they may be, a point on an
\* operator, call or variable of a function is kept, for the innermost node
\* around it, and no point is kept for a node elsewhere (CXXJunkDetector::isJunk).
THEOREM JunkReliable == JunkSpec => []JunkRight
<1> QED BY JunkInvariance, JunkInvRight, PTL


-------------------------------------------------------------------------------
(* CompilationDatabase.                                                    *)

\* One unit of a program, as the assumption has it.
UnitFacts(u) ==
  /\ u.recorded \in BOOLEAN /\ u.listed \in BOOLEAN
  /\ IsAbsolute(Path(u)) /\ ~IsAbsolute(FileName(Path(u)))
  /\ u.flag # Path(u) /\ \A v \in Range(units) : u.flag # v.name
  /\ u.flag \notin Range(extraFlags) /\ u.name \notin Range(extraFlags)

\* The program and the flags given to Mull.
ProgramFacts ==
  /\ units \in Seq(Range(units))
  /\ \A i \in DOMAIN units : UnitFacts(units[i])
  /\ \A i, j \in DOMAIN units :
       i # j => RemoveDots(Path(units[i])) \notin {Path(units[j]), RemoveDots(Path(units[j]))}
  /\ extraFlags \in Seq(Range(extraFlags))
  /\ readable \in BOOLEAN

Recorded == {i \in DOMAIN units : units[i].recorded}
Listed   == {i \in DOMAIN units : readable /\ units[i].listed}

\* What a unit is answered, from where its command line is known.
OwnAnswer(i) ==
  IF units[i].recorded THEN FilterFlags(CommandLine(units[i]), Path(units[i])) \o extraFlags
  ELSE IF i \in Listed THEN FlagsFromCommand(units[i])
  ELSE extraFlags

FlagsInv ==
  /\ ProgramFacts
  /\ flagging \in {"metadata", "storage", "answer"}
  /\ flagging = "storage" =>
       commandLines = [p \in Paths(Recorded) |-> CommandLine(units[LastOfPath(Recorded, p)])]
  /\ flagging = "answer" =>
       /\ bitcodeFlags = [p \in Paths(Recorded) |->
                            FilterFlags(CommandLine(units[LastOfPath(Recorded, p)]), p) \o extraFlags]
       /\ database = PrepareDatabase(Listed)
  /\ DOMAIN answers \subseteq DOMAIN units
  /\ \A i \in DOMAIN answers : answers[i] = OwnAnswer(i)

\* No two units have the same path.
LEMMA PathsDiffer ==
  ASSUME ProgramFacts, NEW i \in DOMAIN units, NEW j \in DOMAIN units,
         Path(units[i]) = Path(units[j])
  PROVE  i = j
BY DEF ProgramFacts

\* So the last unit of a path is the only one.
LEMMA LastOfPathFacts ==
  ASSUME ProgramFacts, NEW S \in SUBSET DOMAIN units, NEW i \in S
  PROVE  LastOfPath(S, Path(units[i])) = i
<1>1. i \in Nat /\ i <= i
  BY DEF ProgramFacts
<1>2. \A j \in S : Path(units[j]) = Path(units[i]) => j = i
  BY PathsDiffer
<1>3. \E k \in S : Path(units[k]) = Path(units[i])
                   /\ \A j \in S : Path(units[j]) = Path(units[i]) => j <= k
  BY <1>1, <1>2
<1>4. LastOfPath(S, Path(units[i])) \in S
      /\ Path(units[LastOfPath(S, Path(units[i]))]) = Path(units[i])
  BY <1>3 DEF LastOfPath
<1> QED BY <1>2, <1>4

\* In a map filled from the units in S the path of a unit is found under itself,
\* and nowhere when the unit is not in S: neither its file name nor its path
\* without dots is another's.
LEMMA KeyFacts ==
  ASSUME ProgramFacts, NEW S \in SUBSET DOMAIN units, NEW i \in DOMAIN units,
         NEW map, DOMAIN map = Paths(S)
  PROVE  /\ i \in S => Key(map, Path(units[i])) = Path(units[i]) /\ Path(units[i]) \in DOMAIN map
         /\ i \notin S => Key(map, Path(units[i])) \notin DOMAIN map
<1>1. ASSUME i \in S
      PROVE  Key(map, Path(units[i])) = Path(units[i]) /\ Path(units[i]) \in DOMAIN map
  BY <1>1 DEF Key, Paths
<1>2. ASSUME i \notin S PROVE Key(map, Path(units[i])) \notin DOMAIN map
  <2>1. Path(units[i]) \notin DOMAIN map
    BY <1>2, PathsDiffer DEF Paths
  <2>2. FileName(Path(units[i])) \notin DOMAIN map
    <3>1. \A j \in S : IsAbsolute(Path(units[j]))
      BY DEF ProgramFacts, UnitFacts
    <3>2. ~IsAbsolute(FileName(Path(units[i])))
      BY DEF ProgramFacts, UnitFacts
    <3> QED BY <3>1, <3>2, Zenon DEF Paths
  <2>3. RemoveDots(Path(units[i])) \notin DOMAIN map
    <3>1. ASSUME NEW j \in S PROVE RemoveDots(Path(units[i])) # Path(units[j])
      BY <1>2 DEF ProgramFacts
    <3> QED BY <3>1, Zenon DEF Paths
  <2> QED BY <2>1, <2>2, <2>3 DEF Key
<1> QED BY <1>1, <1>2

\* compilationFlagsForFile answers with what is known of the unit itself.
LEMMA AnswerFacts ==
  ASSUME FlagsInv, flagging = "answer", NEW i \in DOMAIN units
  PROVE  CompilationFlagsForFile(Path(units[i])) = OwnAnswer(i)
<1> DEFINE p == Path(units[i])
<1>1. ProgramFacts /\ Recorded \in SUBSET DOMAIN units /\ Listed \in SUBSET DOMAIN units
  BY DEF FlagsInv, Recorded, Listed
<1>2. bitcodeFlags = [q \in Paths(Recorded) |->
                        FilterFlags(CommandLine(units[LastOfPath(Recorded, q)]), q) \o extraFlags]
  BY DEF FlagsInv
<1>3. database = [q \in Paths(Listed) |-> FlagsFromCommand(units[LastOfPath(Listed, q)])]
  BY DEF FlagsInv, PrepareDatabase
<1>4. DOMAIN bitcodeFlags = Paths(Recorded) /\ DOMAIN database = Paths(Listed)
  BY <1>2, <1>3
<1>5. CASE i \in Recorded
  <2>1. Key(bitcodeFlags, p) = p /\ p \in DOMAIN bitcodeFlags
    BY <1>1, <1>4, <1>5, KeyFacts
  <2>2. LastOfPath(Recorded, p) = i
    BY <1>1, <1>5, LastOfPathFacts
  <2>3. bitcodeFlags[p] = FilterFlags(CommandLine(units[i]), p) \o extraFlags
    <3> HIDE DEF p
    <3> QED BY <1>2, <1>4, <2>1, <2>2
  <2>4. units[i].recorded
    BY <1>5 DEF Recorded
  <2> QED BY <2>1, <2>3, <2>4 DEF CompilationFlagsForFile, Lookup, OwnAnswer
<1>6. CASE i \notin Recorded /\ i \in Listed
  <2>1. Key(bitcodeFlags, p) \notin DOMAIN bitcodeFlags
    BY <1>1, <1>4, <1>6, KeyFacts
  <2>2. Key(database, p) = p /\ p \in DOMAIN database
    BY <1>1, <1>4, <1>6, KeyFacts
  <2>3. LastOfPath(Listed, p) = i
    BY <1>1, <1>6, LastOfPathFacts
  <2>4. database[p] = FlagsFromCommand(units[i])
    <3> HIDE DEF p
    <3> QED BY <1>3, <1>4, <2>2, <2>3
  <2>5. ~units[i].recorded
    BY <1>6 DEF Recorded
  <2> QED BY <1>6, <2>1, <2>2, <2>4, <2>5 DEF CompilationFlagsForFile, Lookup, OwnAnswer
<1>7. CASE i \notin Recorded /\ i \notin Listed
  <2>1. Key(bitcodeFlags, p) \notin DOMAIN bitcodeFlags /\ Key(database, p) \notin DOMAIN database
    BY <1>1, <1>4, <1>7, KeyFacts
  <2>2. ~units[i].recorded
    BY <1>7 DEF Recorded
  <2> QED BY <1>7, <2>1, <2>2 DEF CompilationFlagsForFile, Lookup, OwnAnswer
<1> QED BY <1>5, <1>6, <1>7

\* The programs the assumption admits.
LEMMA FlagsInitInv == FlagsInit => FlagsInv
<1> SUFFICES ASSUME FlagsInit PROVE FlagsInv
  OBVIOUS
<1>1. units \in Programs /\ extraFlags \in ExtraFlags /\ readable \in BOOLEAN
  BY DEF FlagsInit
<1>2. units \in Seq(Range(units)) /\ extraFlags \in Seq(Range(extraFlags))
  BY <1>1, FlagsAssumption
<1>3. ASSUME NEW i \in DOMAIN units PROVE UnitFacts(units[i])
  <2>1. units[i] \in Range(units)
    BY <1>3 DEF Range
  <2> QED BY <1>1, <2>1, FlagsAssumption DEF UnitFacts
<1>4. \A i, j \in DOMAIN units :
        i # j => RemoveDots(Path(units[i])) \notin {Path(units[j]), RemoveDots(Path(units[j]))}
  BY <1>1, FlagsAssumption
<1>5. ProgramFacts
  BY <1>1, <1>2, <1>3, <1>4 DEF ProgramFacts
<1>6. flagging = "metadata" /\ DOMAIN answers = {}
  BY DEF FlagsInit, EmptyMap
<1> QED BY <1>5, <1>6 DEF FlagsInv

\* What the program is does not change.
LEMMA ProgramFixed ==
  ASSUME FlagsInv, UNCHANGED <<units, extraFlags, readable>>
  PROVE  /\ ProgramFacts' /\ Recorded' = Recorded /\ Listed' = Listed
         /\ \A S, p : Paths(S)' = Paths(S) /\ LastOfPath(S, p)' = LastOfPath(S, p)
         /\ \A i : OwnAnswer(i)' = OwnAnswer(i)
<1>1. ProgramFacts'
  BY DEF FlagsInv, ProgramFacts, UnitFacts
<1>2. Recorded' = Recorded /\ Listed' = Listed
  BY DEF Recorded, Listed
<1>3. \A S, p : Paths(S)' = Paths(S) /\ LastOfPath(S, p)' = LastOfPath(S, p)
  BY DEF Paths, LastOfPath
<1>4. \A i : OwnAnswer(i)' = OwnAnswer(i)
  BY <1>2 DEF OwnAnswer, FlagsFromCommand
<1> QED BY <1>1, <1>2, <1>3, <1>4

\* Every step keeps the maps those of the units and the answers the units' own.
LEMMA FlagsNextInv == FlagsInv /\ [FlagsNext]_flagVars => FlagsInv'
<1> SUFFICES ASSUME FlagsInv, [FlagsNext]_flagVars PROVE FlagsInv'
  OBVIOUS
<1>1. CASE GetCompilationDatabase
  <2>1. UNCHANGED <<units, extraFlags, readable, answers>> /\ flagging' = "storage"
    BY <1>1 DEF GetCompilationDatabase
  <2>2. commandLines' = [p \in Paths(Recorded) |-> CommandLine(units[LastOfPath(Recorded, p)])]
    BY <1>1 DEF GetCompilationDatabase, Recorded
  <2>3. commandLines' =
          [p \in Paths(Recorded) |-> CommandLine(units[LastOfPath(Recorded, p)])]'
    BY <2>1, <2>2, ProgramFixed
  <2>4. ProgramFacts' /\ \A i : OwnAnswer(i)' = OwnAnswer(i)
    BY <2>1, ProgramFixed
  <2> QED BY <2>1, <2>3, <2>4 DEF FlagsInv
<1>2. CASE FromFile
  <2>1. UNCHANGED <<units, extraFlags, readable, answers>> /\ flagging' = "answer"
    BY <1>2 DEF FromFile
  <2>2. commandLines = [p \in Paths(Recorded) |-> CommandLine(units[LastOfPath(Recorded, p)])]
    BY <1>2 DEF FromFile, FlagsInv
  <2>3. bitcodeFlags' =
          [p \in DOMAIN commandLines |-> FilterFlags(commandLines[p], p) \o extraFlags]
    BY <1>2 DEF FromFile, CreateBitcodeFlags
  <2>4. bitcodeFlags' =
          [p \in Paths(Recorded) |->
             FilterFlags(CommandLine(units[LastOfPath(Recorded, p)]), p) \o extraFlags]
    BY <2>2, <2>3
  <2>5. database' = [p \in Paths(Listed) |-> FlagsFromCommand(units[LastOfPath(Listed, p)])]
    BY <1>2 DEF FromFile, PrepareDatabase, Listed
  <2>6. /\ bitcodeFlags' =
             [p \in Paths(Recorded) |->
                FilterFlags(CommandLine(units[LastOfPath(Recorded, p)]), p) \o extraFlags]'
        /\ database' = PrepareDatabase(Listed)'
    BY <2>1, <2>4, <2>5, ProgramFixed DEF PrepareDatabase, FlagsFromCommand
  <2>7. ProgramFacts' /\ \A i : OwnAnswer(i)' = OwnAnswer(i)
    BY <2>1, ProgramFixed
  <2> QED BY <2>1, <2>6, <2>7 DEF FlagsInv
<1>3. CASE AskFlags
  <2>1. PICK i \in DOMAIN units \ DOMAIN answers :
          answers' = Put(answers, i, CompilationFlagsForFile(Path(units[i])))
    BY <1>3 DEF AskFlags
  <2>2. /\ UNCHANGED <<units, extraFlags, readable, bitcodeFlags, database, flagging>>
        /\ flagging = "answer"
    BY <1>3 DEF AskFlags
  <2>3. answers' = [k \in DOMAIN answers \cup {i} |-> IF k = i THEN OwnAnswer(i) ELSE answers[k]]
    BY <2>1, <2>2, AnswerFacts DEF Put
  <2>4. ProgramFacts' /\ \A k : OwnAnswer(k)' = OwnAnswer(k)
    BY <2>2, ProgramFixed
  <2>5. /\ DOMAIN answers' \subseteq DOMAIN units'
        /\ \A k \in DOMAIN answers' : answers'[k] = OwnAnswer(k)'
    BY <2>2, <2>3, <2>4 DEF FlagsInv
  <2>6. /\ bitcodeFlags' =
             [p \in Paths(Recorded) |->
                FilterFlags(CommandLine(units[LastOfPath(Recorded, p)]), p) \o extraFlags]'
        /\ database' = PrepareDatabase(Listed)'
    <3>1. /\ bitcodeFlags' =
               [p \in Paths(Recorded) |->
                  FilterFlags(CommandLine(units[LastOfPath(Recorded, p)]), p) \o extraFlags]
          /\ database' = PrepareDatabase(Listed)
      BY <2>2 DEF FlagsInv
    <3>2. [p \in Paths(Recorded) |->
             FilterFlags(CommandLine(units[LastOfPath(Recorded, p)]), p) \o extraFlags]' =
            [p \in Paths(Recorded) |->
               FilterFlags(CommandLine(units[LastOfPath(Recorded, p)]), p) \o extraFlags]
      BY <2>2, ProgramFixed
    <3>3. PrepareDatabase(Listed)' = PrepareDatabase(Listed)
      BY <2>2, ProgramFixed DEF PrepareDatabase, FlagsFromCommand
    <3> QED BY <3>1, <3>2, <3>3
  <2> QED BY <2>2, <2>4, <2>5, <2>6 DEF FlagsInv
<1>4. CASE UNCHANGED flagVars
  <2>1. UNCHANGED <<units, extraFlags, readable, commandLines, database, bitcodeFlags, flagging,
                    answers>>
    BY <1>4 DEF flagVars
  <2>2. ProgramFacts' /\ \A k : OwnAnswer(k)' = OwnAnswer(k)
    BY <2>1, ProgramFixed
  <2>3. /\ [p \in Paths(Recorded) |-> CommandLine(units[LastOfPath(Recorded, p)])]' =
             [p \in Paths(Recorded) |-> CommandLine(units[LastOfPath(Recorded, p)])]
        /\ [p \in Paths(Recorded) |->
              FilterFlags(CommandLine(units[LastOfPath(Recorded, p)]), p) \o extraFlags]' =
             [p \in Paths(Recorded) |->
                FilterFlags(CommandLine(units[LastOfPath(Recorded, p)]), p) \o extraFlags]
        /\ PrepareDatabase(Listed)' = PrepareDatabase(Listed)
    BY <2>1, ProgramFixed DEF PrepareDatabase, FlagsFromCommand
  <2> QED BY <2>1, <2>2, <2>3 DEF FlagsInv
<1> QED BY <1>1, <1>2, <1>3, <1>4 DEF FlagsNext

\* In every behaviour each unit has been answered what is known of itself.
THEOREM FlagsInvariance == FlagsSpec => []FlagsInv
<1> QED BY FlagsInitInv, FlagsNextInv, PTL DEF FlagsSpec

\* The flags of a unit before those given to Mull.
OwnPart(i) ==
  IF units[i].recorded
  THEN IF units[i].name = Path(units[i]) THEN <<units[i].flag>>
       ELSE <<units[i].flag, units[i].name>>
  ELSE IF i \in Listed THEN <<units[i].flag>> ELSE <<>>

\* Sequences of one and two arguments joined.
LEMMA ShortSequences ==
  ASSUME NEW a, NEW b
  PROVE  <<a>> \o <<>> = <<a>> /\ <<a>> \o <<b>> = <<a, b>>
<1>1. <<a>> \in Seq({a, b}) /\ <<b>> \in Seq({a, b}) /\ <<a, b>> \in Seq({a, b})
  OBVIOUS
<1>2. <<a>> \o <<>> = <<a>>
  BY <1>1, ConcatEmptySeq
<1>3. /\ <<a>> \o <<b>> \in Seq({a, b}) /\ Len(<<a>> \o <<b>>) = 2
      /\ (<<a>> \o <<b>>)[1] = a /\ (<<a>> \o <<b>>)[2] = b
  BY <1>1, ConcatProperties
<1>4. \A k \in 1..2 : (<<a>> \o <<b>>)[k] = <<a, b>>[k]
  BY <1>3
<1>5. <<a>> \o <<b>> = <<a, b>>
  BY <1>1, <1>3, <1>4, SeqEqual
<1> QED BY <1>2, <1>5

\* What is answered is the part of the unit and then the extra flags.
LEMMA AnswerParts ==
  ASSUME ProgramFacts, NEW i \in DOMAIN units
  PROVE  OwnAnswer(i) = OwnPart(i) \o extraFlags
<1>1. units[i].flag # Path(units[i]) /\ units[i].flag # units[i].name
  <2>1. units[i] \in Range(units)
    BY DEF Range
  <2> QED BY <2>1 DEF ProgramFacts, UnitFacts
<1>2. CommandLine(units[i])[2] = units[i].flag /\ CommandLine(units[i])[3] = units[i].name
  BY DEF CommandLine
<1>3. FilterFlags(CommandLine(units[i]), Path(units[i])) =
        IF units[i].name = Path(units[i]) THEN <<units[i].flag>>
        ELSE <<units[i].flag, units[i].name>>
  <2> DEFINE flag == units[i].flag
             name == units[i].name
             path == Path(units[i])
  <2>1. Kept(flag, path) = <<flag>> /\ Kept(name, path) = IF name = path THEN <<>> ELSE <<name>>
    BY <1>1 DEF Kept
  <2>2. FilterFlags(CommandLine(units[i]), path) = Kept(flag, path) \o Kept(name, path)
    BY <1>2 DEF FilterFlags
  <2>3. <<flag>> \o <<>> = <<flag>> /\ <<flag>> \o <<name>> = <<flag, name>>
    BY ShortSequences
  <2> HIDE DEF flag, name, path
  <2>4. FilterFlags(CommandLine(units[i]), path) =
          IF name = path THEN <<flag>> ELSE <<flag, name>>
    BY <2>1, <2>2, <2>3
  <2> QED BY <2>4 DEF flag, name, path
<1>4. FilterFlags(CommandLine(units[i]), units[i].name) = <<units[i].flag>>
  BY <1>1, <1>2 DEF FilterFlags, Kept
<1>5. extraFlags = <<>> \o extraFlags
  BY DEF ProgramFacts
<1> QED BY <1>3, <1>4, <1>5 DEF OwnAnswer, OwnPart, FlagsFromCommand

\* What a sequence before another adds, and leaves as it is.
LEMMA Appended ==
  ASSUME NEW T, NEW c \in Seq(T), NEW e \in Seq(T)
  PROVE  /\ Range(c \o e) = Range(c) \cup Range(e)
         /\ Len(c \o e) - Len(e) = Len(c) /\ Len(c) >= 0
         /\ SubSeq(c \o e, Len(c) + 1, Len(c \o e)) = e
<1>1. /\ c \o e \in Seq(T) /\ Len(c \o e) = Len(c) + Len(e)
      /\ \A k \in 1..Len(c) + Len(e) :
           (c \o e)[k] = IF k <= Len(c) THEN c[k] ELSE e[k - Len(c)]
  BY ConcatProperties
<1>2. Len(c) \in Nat /\ Len(e) \in Nat
  OBVIOUS
<1>3. Range(c \o e) \subseteq Range(c) \cup Range(e)
  BY <1>1, <1>2 DEF Range
<1>4. Range(c) \subseteq Range(c \o e)
  BY <1>1, <1>2 DEF Range
<1>5. ASSUME NEW k \in 1..Len(e) PROVE e[k] \in Range(c \o e)
  <2>1. k + Len(c) \in 1..Len(c) + Len(e) /\ (c \o e)[k + Len(c)] = e[k]
    BY <1>1, <1>2
  <2>2. DOMAIN (c \o e) = 1..Len(c) + Len(e)
    BY <1>1
  <2> QED BY <2>1, <2>2, Zenon DEF Range
<1>6. Range(e) \subseteq Range(c \o e)
  BY <1>5 DEF Range
<1>7. SubSeq(c \o e, Len(c) + 1, Len(c \o e)) = e
  <2> DEFINE s == SubSeq(c \o e, Len(c) + 1, Len(c) + Len(e))
  <2>1. s \in Seq(T) /\ Len(s) = Len(e) /\ \A k \in 1..Len(e) : s[k] = (c \o e)[Len(c) + k]
    BY <1>1, <1>2
  <2>2. ASSUME NEW k \in 1..Len(e) PROVE s[k] = e[k]
    BY <1>1, <1>2, <2>1
  <2> HIDE DEF s
  <2>3. s = e
    BY <2>1, <2>2, SeqEqual
  <2> QED BY <1>1, <2>3 DEF s
<1> QED BY <1>1, <1>2, <1>3, <1>4, <1>6, <1>7

\* The units' own answers are right.
LEMMA FlagsInvRight == FlagsInv => FlagsRight
<1> SUFFICES ASSUME FlagsInv, NEW i \in DOMAIN answers
             PROVE  /\ {f \in Range(answers[i]) : \E u \in Range(units) : u.flag = f} =
                         IF Known(units[i]) THEN {units[i].flag} ELSE {}
                    /\ Len(answers[i]) - Len(extraFlags) >= 0
                    /\ SubSeq(answers[i], Len(answers[i]) - Len(extraFlags) + 1, Len(answers[i]))
                         = extraFlags
                    /\ units[i].name \in Range(answers[i]) =>
                         units[i].recorded /\ ~IsAbsolute(units[i].name)
  BY Zenon DEF FlagsRight, OwnFlags, ExtraFlagsLast, FileNameRemoved
<1> DEFINE u == units[i]
           T == Range(extraFlags) \cup {u.flag, u.name}
<1>1. ProgramFacts /\ i \in DOMAIN units /\ u \in Range(units)
  BY DEF FlagsInv, Range
<1>2. answers[i] = OwnPart(i) \o extraFlags
  BY <1>1, AnswerParts DEF FlagsInv
<1>3. OwnPart(i) \in Seq(T) /\ extraFlags \in Seq(T)
  <2>1. OwnPart(i) \in {<<>>, <<u.flag>>, <<u.flag, u.name>>}
    BY DEF OwnPart
  <2>2. u.flag \in T /\ u.name \in T /\ Range(extraFlags) \subseteq T
    OBVIOUS
  <2>3. extraFlags \in Seq(Range(extraFlags))
    BY <1>1 DEF ProgramFacts
  <2> HIDE DEF T, u
  <2>4. OwnPart(i) \in Seq(T)
    <3>1. <<>> \in Seq(T) /\ <<u.flag>> \in Seq(T) /\ <<u.flag, u.name>> \in Seq(T)
      BY <2>2
    <3> QED BY <2>1, <3>1
  <2>5. extraFlags \in Seq(T)
    BY <2>2, <2>3
  <2> QED BY <2>4, <2>5
<1>4. /\ Range(answers[i]) = Range(OwnPart(i)) \cup Range(extraFlags)
      /\ Len(answers[i]) - Len(extraFlags) = Len(OwnPart(i)) /\ Len(OwnPart(i)) >= 0
      /\ SubSeq(answers[i], Len(OwnPart(i)) + 1, Len(answers[i])) = extraFlags
  <2> HIDE DEF T
  <2> QED BY <1>2, <1>3, Appended
<1>5. Range(OwnPart(i)) =
        IF u.recorded THEN IF u.name = Path(u) THEN {u.flag} ELSE {u.flag, u.name}
        ELSE IF i \in Listed THEN {u.flag} ELSE {}
  BY DEF OwnPart, Range
<1>6. \A v \in Range(units) : v.flag \notin Range(extraFlags) /\ v.flag # u.name
  <2>1. ASSUME NEW j \in DOMAIN units
        PROVE  units[j].flag \notin Range(extraFlags) /\ units[j].flag # u.name
    BY <1>1, Zenon DEF ProgramFacts, UnitFacts
  <2> QED BY <2>1, Zenon DEF Range
<1>7. Known(u) <=> u.recorded \/ i \in Listed
  BY <1>1 DEF Known, Listed
<1>8. {f \in Range(answers[i]) : \E v \in Range(units) : v.flag = f} =
        IF Known(u) THEN {u.flag} ELSE {}
  <2> HIDE DEF u
  <2> QED BY <1>1, <1>4, <1>5, <1>6, <1>7
<1>9. u.name \in Range(answers[i]) => u.recorded /\ ~IsAbsolute(u.name)
  <2>1. u.name \notin Range(extraFlags)
    BY <1>1 DEF ProgramFacts, UnitFacts
  <2>2. u.name # u.flag
    BY <1>1, <1>6
  <2>3. IsAbsolute(u.name) => u.name = Path(u)
    BY DEF Path, AbsoluteFilePath, IsAbsolute
  <2> HIDE DEF u
  <2> QED BY <1>4, <1>5, <2>1, <2>2, <2>3
<1> QED BY <1>4, <1>8, <1>9

\* Wherever its command line is known from and whatever other units are called, a
\* unit is parsed with its own flags and with those given to Mull after them
\* (CompilationDatabase::compilationFlagsForFile).
THEOREM FlagsReliable == FlagsSpec => []FlagsRight
<1> QED BY FlagsInvariance, FlagsInvRight, PTL

-------------------------------------------------------------------------------
(* ClangPlugin.                                                            *)

\* A set whose every element has another one after it, in places that have a
\* bound, is empty.
LEMMA NothingLast ==
  ASSUME NEW S, NEW place, \A x \in S : place[x] \in Nat, NEW b \in Nat, \A x \in S : place[x] <= b,
         \A x \in S : \E y \in S : place[x] < place[y]
  PROVE  S = {}
<1> SUFFICES ASSUME S # {} PROVE FALSE
  OBVIOUS
<1> DEFINE P == {place[x] : x \in S}
<1>1. P \subseteq Nat /\ P # {} /\ \A k \in P : k <= b
  OBVIOUS
<1>2. PICK k \in P : \A l \in P : l <= k
  <2> HIDE DEF P
  <2> QED BY <1>1, GreatestNatural
<1>3. PICK x \in S : k = place[x]
  OBVIOUS
<1>4. PICK y \in S : place[x] < place[y]
  BY <1>3
<1>5. place[y] \in P
  OBVIOUS
<1>6. place[y] <= place[x]
  BY <1>2, <1>3, <1>5
<1> QED BY <1>3, <1>4, <1>6

\* What Meaning says of node n of h when the meanings of the others are in M.
Value(h, env, M, n) ==
  CASE h[n].kind \in {"cond", "condstmt"} -> M[h[n].children[IF h[n].op \in env THEN 1 ELSE 2]]
    [] h[n].kind = "operand" -> M[h[n].children[1]]
    [] OTHER -> <<h[n].op, [i \in DOMAIN h[n].children |-> M[h[n].children[i]]]>>

\* The nodes below n are in h, and there are as many as its kind needs.
Complete(h, n) ==
  /\ \A i \in DOMAIN h[n].children : h[n].children[i] \in DOMAIN h
  /\ h[n].kind \in {"cond", "condstmt"} => 1 \in DOMAIN h[n].children /\ 2 \in DOMAIN h[n].children
  /\ h[n].kind = "operand" => 1 \in DOMAIN h[n].children

\* The value of a node depends on those below it only.
LEMMA ValueLocal ==
  ASSUME NEW h, NEW env, NEW M, NEW N, NEW n, Complete(h, n),
         \A i \in DOMAIN h[n].children : M[h[n].children[i]] = N[h[n].children[i]]
  PROVE  Value(h, env, M, n) = Value(h, env, N, n)
<1>1. CASE h[n].kind \in {"cond", "condstmt"}
  BY <1>1 DEF Value, Complete
<1>2. CASE h[n].kind = "operand"
  BY <1>2 DEF Value, Complete
<1>3. CASE h[n].kind \notin {"cond", "condstmt", "operand"}
  <2>1. [i \in DOMAIN h[n].children |-> M[h[n].children[i]]] =
          [i \in DOMAIN h[n].children |-> N[h[n].children[i]]]
    OBVIOUS
  <2> QED BY <1>3, <2>1 DEF Value
<1> QED BY <1>1, <1>2, <1>3

\* A heap without a circle has a meaning.
LEMMA MeaningEquation ==
  ASSUME NEW h, NEW env, NEW place, NEW b \in Nat,
         \A n \in DOMAIN h :
           /\ Complete(h, n) /\ place[n] \in Nat /\ place[n] <= b
           /\ \A i \in DOMAIN h[n].children : place[n] < place[h[n].children[i]]
  PROVE  \A n \in DOMAIN h : Meaning(h, env)[n] = Value(h, env, Meaning(h, env), n)
<1> DEFINE Eq(M)  == M = [n \in DOMAIN h |-> Value(h, env, M, n)]
           From(k, M) == \A n \in DOMAIN h : place[n] >= k => M[n] = Value(h, env, M, n)
           Bad == {k \in 0..(b + 1) : ~\E M : From(k, M)}
           same == [k \in 0..(b + 1) |-> k]
<1>1. ASSUME NEW k \in Bad PROVE k + 1 \in Bad
  <2>1. k # b + 1
    <3>1. From(b + 1, <<>>)
      OBVIOUS
    <3> QED BY <3>1
  <2>2. k + 1 \in 0..(b + 1)
    BY <2>1
  <2>3. ASSUME NEW M, From(k + 1, M) PROVE FALSE
    <3> DEFINE N == [n \in DOMAIN h |-> IF place[n] = k THEN Value(h, env, M, n) ELSE M[n]]
    <3>1. ASSUME NEW n \in DOMAIN h, place[n] >= k PROVE N[n] = Value(h, env, N, n)
      <4>1. N[n] = Value(h, env, M, n)
        <5>1. CASE place[n] = k
          BY <5>1
        <5>2. CASE place[n] # k
          <6>1. place[n] >= k + 1
            BY <3>1, <5>2
          <6> QED BY <2>3, <5>2, <6>1
        <5> QED BY <5>1, <5>2
      <4>2. ASSUME NEW i \in DOMAIN h[n].children
            PROVE  M[h[n].children[i]] = N[h[n].children[i]]
        <5>1. h[n].children[i] \in DOMAIN h /\ place[h[n].children[i]] # k
          BY <3>1, <4>2 DEF Complete
        <5> QED BY <5>1
      <4> HIDE DEF N
      <4> QED BY <4>1, <4>2, ValueLocal
    <3>2. From(k, N)
      <4> HIDE DEF N
      <4> QED BY <3>1
    <3> QED BY <3>2
  <2> HIDE DEF From
  <2> QED BY <2>2, <2>3
<1>2. Bad = {}
  <2>1. \A k \in Bad : k \in 0..(b + 1)
    OBVIOUS
  <2> HIDE DEF Bad
  <2>2. \A k \in Bad : same[k] \in Nat /\ same[k] <= b + 1 /\ same[k] < same[k + 1]
    BY <1>1, <2>1
  <2> HIDE DEF same
  <2> QED BY <1>1, <2>2, NothingLast
<1>3. PICK M : From(0, M)
  BY <1>2
<1> DEFINE N == [n \in DOMAIN h |-> M[n]]
<1>4. ASSUME NEW n \in DOMAIN h PROVE N[n] = Value(h, env, N, n)
  <2>1. M[n] = Value(h, env, M, n)
    BY <1>3
  <2>2. \A i \in DOMAIN h[n].children : M[h[n].children[i]] = N[h[n].children[i]]
    BY DEF Complete
  <2> HIDE DEF N
  <2>3. Value(h, env, M, n) = Value(h, env, N, n)
    BY <2>2, ValueLocal
  <2> QED BY <2>1, <2>3 DEF N
<1>5. Eq(N)
  <2>1. N = [n \in DOMAIN h |-> N[n]]
    OBVIOUS
  <2> HIDE DEF N
  <2> QED BY <1>4, <2>1
<1>6. Eq(Meaning(h, env))
  <2>1. Meaning(h, env) = CHOOSE f : Eq(f)
    BY DEF Meaning, Value
  <2> HIDE DEF Eq
  <2> QED BY <1>5, <2>1
<1> QED BY <1>6

-------------------------------------------------------------------------------
\* The number of nodes the unit had when it was parsed; the new node and the
\* condition of the j-th record come after them.
Top       == Len(parsed.heap)
NewAt(j)  == Top + 2 * j - 1
CondAt(j) == Top + 2 * j

\* A sequence of anything.
IsSequence(s) == \E S : s \in Seq(S)

IsNode(x) ==
  /\ x = [kind |-> x.kind, op |-> x.op, type |-> x.type, where |-> x.where, spot |-> x.spot,
           children |-> x.children]
  /\ x.children \in Seq(Nat)

\* Node x is the parsed node c, or a condition whose record replaced c, which has
\* a place in the tree.
StandsFor(x, c) ==
  \/ x = c
  \/ /\ HasPlace(c)
     /\ \E j \in DOMAIN records : x = CondAt(j) /\ records[j].target = c

\* Operands xs stand for the parsed operands cs.
AllStandFor(xs, cs) ==
  xs \in Seq(Nat) /\ DOMAIN xs = DOMAIN cs /\ \A i \in DOMAIN cs : StandsFor(xs[i], cs[i])

\* A parsed node only has other operands than it had, and none it had that was
\* replaced in its place.
OriginalRight(n) ==
  LET x == heap[n]
      y == parsed.heap[n]
  IN  /\ IsNode(x) /\ x.kind = y.kind /\ x.op = y.op /\ x.type = y.type /\ x.where = y.where
      /\ AllStandFor(x.children, y.children)
      /\ \A i \in DOMAIN y.children, j \in DOMAIN records :
           records[j].target = y.children[i] /\ HasPlace(y.children[i]) =>
             x.children[i] # y.children[i]

\* The new node of a record.
NewRight(j) ==
  LET p == records[j]
      x == heap[NewAt(j)]
      y == parsed.heap[p.target]
  IN  /\ p.op = "" => x.kind = "operand" /\ AllStandFor(x.children, y.children)
      /\ p.op \in {"42", "nothing"} => x.kind = "leaf" /\ x.op = p.op /\ x.children = <<>>
      /\ p.op \notin {"", "42", "nothing"} =>
           x.kind = y.kind /\ x.op = p.op /\ AllStandFor(x.children, y.children)

\* Node x is a condition on point p above the new node.
IsCondition(x, p, new) ==
  x.kind \in {"cond", "condstmt"} /\ x.op = Id(p) /\ x.children = <<new, p.target>>

\* The condition of a record.
CondRight(j) == IsCondition(heap[CondAt(j)], records[j], NewAt(j))

\* Declaration i is one the plugin mutates, and point p is in it.
IsPointOf(p, i) ==
  LET d == parsed.decls[i]
  IN  /\ i \in DOMAIN parsed.decls /\ IsMutated(d)
      /\ p.target \in (d.body + 1)..d.last
      /\ p.op = "" => 1 \in DOMAIN parsed.heap[p.target].children
      /\ Location(p) \in DOMAIN parsed.heap /\ parsed.heap[Location(p)].where = "user"

\* The nodes of declaration i are as they were.
AsParsed(i) == \A n \in parsed.decls[i].body..parsed.decls[i].last : heap[n] = parsed.heap[n]

SizeInv ==
  /\ parsed \in ParsedUnits
  /\ IsSequence(heap) /\ IsSequence(records) /\ Len(heap) = Top + 2 * Len(records)

TreeInv ==
  /\ \A n \in DOMAIN parsed.heap : OriginalRight(n)
  /\ \A j \in DOMAIN records : NewRight(j) /\ CondRight(j)

RecordsInv ==
  \A j \in DOMAIN records : \E i \in DOMAIN parsed.decls : IsPointOf(records[j], i)

\* Clang's parent map is there before the first record.
KnownInv == known = 0 => records = <<>>

StageInv ==
  /\ declaration \in Nat \ {0}
  /\ mutating \in {"args", "search", "perform", "done", "null", "assert", "undefined"}
  /\ mutating \in {"perform", "assert", "undefined"} =>
       \A p \in waiting : IsPointOf(p, declaration)
  /\ mutating \notin {"perform", "assert", "undefined"} => waiting = {}
  /\ \A i \in DOMAIN parsed.decls :
       ~IsMutated(parsed.decls[i]) \/ declaration < i
         \/ (declaration = i /\ mutating \in {"args", "search"}) => AsParsed(i)

PluginInv == SizeInv /\ TreeInv /\ RecordsInv /\ StageInv /\ KnownInv /\ StopsForThese

-------------------------------------------------------------------------------
\* What a unit is when it is parsed.
LEMMA UnitParsed ==
  ASSUME parsed \in ParsedUnits
  PROVE  /\ Top \in Nat /\ DOMAIN parsed.heap = 1..Top /\ parsed.heap \in Seq(Node)
         /\ parsed.decls \in Seq(Decl) /\ DOMAIN parsed.decls = 1..Len(parsed.decls)
         /\ IsTree(parsed.heap)
         /\ \A i \in DOMAIN parsed.decls : IsPart(parsed.decls[i], parsed.heap)
         /\ \A i, j \in DOMAIN parsed.decls : i # j =>
              parsed.decls[i].last < parsed.decls[j].body \/ parsed.decls[j].last < parsed.decls[i].body
<1>1. /\ IsTree(parsed.heap) /\ parsed.decls \in Seq(Decl)
      /\ \A i \in DOMAIN parsed.decls :
           /\ IsPart(parsed.decls[i], parsed.heap)
           /\ \A j \in DOMAIN parsed.decls \ {i} :
                \/ parsed.decls[i].last < parsed.decls[j].body
                \/ parsed.decls[j].last < parsed.decls[i].body
  BY PluginAssumption DEF PluginAssumption
<1>2. parsed.heap \in Seq(Node)
  BY <1>1 DEF IsTree
<1> QED BY <1>1, <1>2 DEF Top

\* Short sequences.
LEMMA ShortDomain ==
  ASSUME NEW c \in Seq(Nat)
  PROVE  /\ Len(c) \in {1, 2} => 1 \in DOMAIN c
         /\ Len(c) = 2 => 2 \in DOMAIN c
         /\ Len(c) <= 1 => \A k \in DOMAIN c : k = 1
  OBVIOUS

\* A parsed node.
LEMMA ParsedNode ==
  ASSUME parsed \in ParsedUnits, NEW n \in 1..Top
  PROVE  LET y == parsed.heap[n]
         IN  /\ IsNode(y) /\ y.kind \notin {"cond", "condstmt", "operand"}
             /\ y.children \in Seq(Nat) /\ DOMAIN y.children = 1..Len(y.children)
             /\ Len(y.children) \in Nat
             /\ y.kind \in {"unary", "binary"} => 1 \in DOMAIN y.children
             /\ y.kind = "binary" => 2 \in DOMAIN y.children
             /\ y.kind = "var"    => \A k \in DOMAIN y.children : k = 1
             /\ \A i \in DOMAIN y.children : y.children[i] \in (n + 1)..Top
<1>1. parsed.heap[n] \in Node
  BY UnitParsed
<1>2. IsNode(parsed.heap[n])
  BY <1>1 DEF IsNode, Node
<1>3. n \in DOMAIN parsed.heap /\ IsTree(parsed.heap)
  BY UnitParsed
<1>4. /\ parsed.heap[n].children \in Seq(Nat)
      /\ DOMAIN parsed.heap[n].children = 1..Len(parsed.heap[n].children)
      /\ Len(parsed.heap[n].children) \in Nat
  BY <1>1 DEF Node
<1>5. /\ parsed.heap[n].kind \notin {"cond", "condstmt", "operand"}
      /\ parsed.heap[n].kind = "unary"  => Len(parsed.heap[n].children) = 1
      /\ parsed.heap[n].kind = "binary" => Len(parsed.heap[n].children) = 2
      /\ parsed.heap[n].kind = "var"    => Len(parsed.heap[n].children) <= 1
      /\ \A i \in DOMAIN parsed.heap[n].children : parsed.heap[n].children[i] \in (n + 1)..Top
  BY <1>3 DEF IsTree, Top
<1>6. /\ parsed.heap[n].kind \in {"unary", "binary"} => 1 \in DOMAIN parsed.heap[n].children
      /\ parsed.heap[n].kind = "binary" => 2 \in DOMAIN parsed.heap[n].children
      /\ parsed.heap[n].kind = "var"    => \A k \in DOMAIN parsed.heap[n].children : k = 1
  BY <1>4, <1>5, ShortDomain
<1> QED BY <1>2, <1>4, <1>5, <1>6, Zenon

\* A parsed declaration.
LEMMA ParsedDecl ==
  ASSUME parsed \in ParsedUnits, NEW i \in DOMAIN parsed.decls
  PROVE  LET d == parsed.decls[i]
         IN  /\ d.body \in 1..Top /\ d.last \in d.body..Top /\ d.body \in Nat /\ d.last \in Nat
             /\ d.kind = "function" => parsed.heap[d.body].kind = "block"
             /\ \A n \in d.body..d.last : \A k \in DOMAIN parsed.heap[n].children :
                  parsed.heap[n].children[k] \in d.body..d.last
             /\ \A n \in (d.body + 1)..d.last : \E m \in d.body..d.last :
                  \E k \in DOMAIN parsed.heap[m].children : parsed.heap[m].children[k] = n
<1>1. IsPart(parsed.decls[i], parsed.heap) /\ Top \in Nat /\ DOMAIN parsed.heap = 1..Top
  BY UnitParsed
<1> QED BY <1>1 DEF IsPart, Range, Top

\* A parsed node is a child once.
LEMMA ChildOnce ==
  ASSUME parsed \in ParsedUnits, NEW m \in 1..Top, NEW n \in 1..Top,
         NEW i \in DOMAIN parsed.heap[m].children, NEW j \in DOMAIN parsed.heap[n].children,
         parsed.heap[m].children[i] = parsed.heap[n].children[j]
  PROVE  m = n /\ i = j
<1>1. IsTree(parsed.heap) /\ DOMAIN parsed.heap = 1..Top
  BY UnitParsed
<1> QED BY <1>1 DEF IsTree

\* The parent of a node of a declaration is in the declaration.
LEMMA ParentFacts ==
  ASSUME parsed \in ParsedUnits, NEW i \in DOMAIN parsed.decls,
         NEW t \in (parsed.decls[i].body + 1)..parsed.decls[i].last
  PROVE  /\ Parent(t) \in parsed.decls[i].body..parsed.decls[i].last
         /\ Parent(t) \in 1..Top
         /\ \E k \in DOMAIN parsed.heap[Parent(t)].children : parsed.heap[Parent(t)].children[k] = t
<1>1. DOMAIN parsed.heap = 1..Top /\ Top \in Nat
  BY UnitParsed
<1>2. PICK m \in parsed.decls[i].body..parsed.decls[i].last :
             \E k \in DOMAIN parsed.heap[m].children : parsed.heap[m].children[k] = t
  BY ParsedDecl
<1>3. m \in DOMAIN parsed.heap /\ t \in Range(parsed.heap[m].children)
  BY <1>1, <1>2, ParsedDecl DEF Range
<1>4. Parent(t) \in DOMAIN parsed.heap /\ t \in Range(parsed.heap[Parent(t)].children)
  BY <1>3 DEF Parent
<1>5. PICK k \in DOMAIN parsed.heap[Parent(t)].children : parsed.heap[Parent(t)].children[k] = t
  BY <1>4 DEF Range
<1>6. Parent(t) = m
  BY <1>1, <1>2, <1>3, <1>4, <1>5, ChildOnce
<1> QED BY <1>1, <1>4, <1>5, <1>6

\* A part of a part of 1..k is a part of it.
LEMMA Inside1 ==
  ASSUME NEW k \in Nat, NEW b \in 1..k, NEW l \in b..k, NEW x \in b..l
  PROVE  x \in 1..k
  OBVIOUS

\* A node as it is now: it has the operands of the parsed one, or conditions.
LEMMA CurrentNode ==
  ASSUME SizeInv, TreeInv, NEW n \in 1..Top
  PROVE  LET x == heap[n]
             y == parsed.heap[n]
         IN  /\ IsNode(x) /\ x.kind = y.kind /\ x.op = y.op /\ x.type = y.type /\ x.where = y.where
             /\ x.children \in Seq(Nat) /\ DOMAIN x.children = DOMAIN y.children
             /\ DOMAIN x.children = 1..Len(x.children) /\ Len(x.children) = Len(y.children)
             /\ Len(x.children) \in Nat
             /\ \A i \in DOMAIN y.children : StandsFor(x.children[i], y.children[i])
             /\ \A i \in DOMAIN y.children, j \in DOMAIN records :
                  records[j].target = y.children[i] /\ HasPlace(y.children[i]) =>
                    x.children[i] # y.children[i]
<1>1. parsed \in ParsedUnits
  BY DEF SizeInv
<1>2. n \in DOMAIN parsed.heap /\ parsed.heap[n].children \in Seq(Nat)
  BY <1>1, UnitParsed, ParsedNode
<1>3. OriginalRight(n)
  BY <1>2 DEF TreeInv
<1>4. /\ IsNode(heap[n])
      /\ heap[n].children \in Seq(Nat) /\ DOMAIN heap[n].children = DOMAIN parsed.heap[n].children
  BY <1>3 DEF OriginalRight, AllStandFor
<1>5. Len(heap[n].children) = Len(parsed.heap[n].children)
  BY <1>2, <1>4
<1> QED BY <1>2, <1>3, <1>4, <1>5 DEF OriginalRight, AllStandFor

\* The points found in a declaration are in it.
LEMMA PointsFound ==
  ASSUME PluginInv, mutating = "search", declaration \in DOMAIN parsed.decls,
         IsMutated(parsed.decls[declaration]), NEW p \in GetAstMutations(parsed.decls[declaration])
  PROVE  IsPointOf(p, declaration)
<1> DEFINE d == parsed.decls[declaration]
<1>1. parsed \in ParsedUnits /\ AsParsed(declaration)
  BY DEF PluginInv, SizeInv, StageInv
<1>2. /\ d.body \in 1..Top /\ d.last \in d.body..Top /\ d.body \in Nat /\ d.last \in Nat
      /\ parsed.heap[d.body].kind = "block"
      /\ \A n \in d.body..d.last : \A k \in DOMAIN parsed.heap[n].children :
           parsed.heap[n].children[k] \in d.body..d.last
  BY <1>1, ParsedDecl DEF IsMutated
<1>3. PICK n \in d.body..d.last : p \in Visit(n)
  BY DEF GetAstMutations, RecordMutationPoint
<1>4. heap[Location(p)].where = "user"
  BY DEF GetAstMutations, RecordMutationPoint
<1>5. n \in 1..Top /\ Top \in Nat /\ heap[n] = parsed.heap[n]
  BY <1>1, <1>2, <1>3, UnitParsed DEF AsParsed
<1>6. /\ \A i \in DOMAIN heap[n].children :
           heap[n].children[i] \in (n + 1)..Top /\ heap[n].children[i] \in d.body..d.last
      /\ heap[n].kind \in {"unary", "binary"} => 1 \in DOMAIN parsed.heap[n].children
      /\ heap[n].kind = "binary" => 2 \in DOMAIN heap[n].children
  BY <1>1, <1>2, <1>3, <1>5, ParsedNode
<1>7. heap[n].kind # "block" => n \in (d.body + 1)..d.last
  BY <1>2, <1>3, <1>5
<1>8. \A i \in DOMAIN heap[n].children : heap[n].children[i] \in (d.body + 1)..d.last
  BY <1>2, <1>3, <1>6
<1>9. /\ p.target \in (d.body + 1)..d.last /\ Location(p) \in d.body..d.last
      /\ p.op = "" => 1 \in DOMAIN parsed.heap[p.target].children
  <2> HIDE DEF d
  <2>1. CASE heap[n].kind = "unary"
    <3>1. PICK m \in UnaryMutations : p = Point(m[2], n, m[3], n, 0)
      BY <1>3, <2>1 DEF Visit, VisitUnaryOperator
    <3>2. p.target = n /\ Location(p) = n
      BY <3>1 DEF Point, Location
    <3> QED BY <1>3, <1>6, <1>7, <2>1, <3>2
  <2>2. CASE heap[n].kind = "binary" /\ heap[n].op = "="
    <3>1. p = Point("cxx_assign_const", heap[n].children[2], "42", n, 0)
      BY <1>3, <2>2 DEF Visit, VisitBinaryOperator
    <3>2. p.target = heap[n].children[2] /\ Location(p) = n /\ p.op # ""
      BY <3>1 DEF Point, Location
    <3>3. 2 \in DOMAIN heap[n].children
      BY <1>6, <2>2
    <3> QED BY <1>3, <1>8, <3>2, <3>3
  <2>3. CASE heap[n].kind = "binary" /\ heap[n].op # "="
    <3>1. PICK i \in DOMAIN BinaryMutations :
            p = Point(BinaryMutations[i][2], n, BinaryMutations[i][3], n, i)
      BY <1>3, <2>3 DEF Visit, VisitBinaryOperator
    <3>2. p.target = n /\ Location(p) = n
      BY <3>1 DEF Point, Location
    <3> QED BY <1>3, <1>6, <1>7, <2>3, <3>2
  <2>4. CASE heap[n].kind = "call"
    <3>1. \/ p = Point("cxx_remove_void_call", n, "nothing", n, 0)
          \/ p = Point("cxx_replace_scalar_call", n, "42", n, 1)
      BY <1>3, <2>4 DEF Visit, VisitCallExpr
    <3>2. CASE p = Point("cxx_remove_void_call", n, "nothing", n, 0)
      <4>1. p.target = n /\ Location(p) = n /\ p.op # ""
        BY <3>2 DEF Point, Location
      <4> QED BY <1>3, <1>7, <2>4, <4>1
    <3>3. CASE p = Point("cxx_replace_scalar_call", n, "42", n, 1)
      <4>1. p.target = n /\ Location(p) = n /\ p.op # ""
        BY <3>3 DEF Point, Location
      <4> QED BY <1>3, <1>7, <2>4, <4>1
    <3> QED BY <3>1, <3>2, <3>3
  <2>5. CASE heap[n].kind = "var"
    <3>1. PICK k \in DOMAIN heap[n].children :
            p = Point("cxx_init_const", heap[n].children[k], "42", n, 0)
      BY <1>3, <2>5 DEF Visit, VisitVarDecl, Range
    <3>2. p.target = heap[n].children[k] /\ Location(p) = heap[n].children[k] /\ p.op # ""
      BY <3>1 DEF Point, Location
    <3> QED BY <1>6, <1>8, <3>2
  <2>6. CASE heap[n].kind \notin {"unary", "binary", "call", "var"}
    BY <1>3, <2>6 DEF Visit
  <2> QED BY <2>1, <2>2, <2>3, <2>4, <2>5, <2>6
<1>10. Location(p) \in DOMAIN parsed.heap /\ parsed.heap[Location(p)].where = "user"
  <2>1. heap[Location(p)] = parsed.heap[Location(p)]
    BY <1>1, <1>9 DEF AsParsed
  <2>2. Location(p) \in 1..Top
    BY <1>2, <1>5, <1>9, Inside1
  <2> QED BY <1>1, <1>4, <2>1, <2>2, UnitParsed
<1> QED BY <1>9, <1>10 DEF IsPointOf

\* std::find finds an operand that is there.
LEMMA FoundChild ==
  ASSUME NEW m, NEW old, DOMAIN heap[m].children \subseteq Nat \ {0}
  PROVE  LET i == ReplacedChild(m, old)
         IN  \/ i = 0 /\ \A k \in DOMAIN heap[m].children : heap[m].children[k] # old
             \/ i \in DOMAIN heap[m].children /\ heap[m].children[i] = old /\ i # 0
<1> DEFINE hits == {i \in DOMAIN heap[m].children : heap[m].children[i] = old}
<1>1. ReplacedChild(m, old) = IF hits = {} THEN 0 ELSE CHOOSE i \in hits : \A j \in hits : i <= j
  BY DEF ReplacedChild
<1>2. hits \subseteq Nat
  OBVIOUS
<1>3. hits # {} => \E i \in hits : \A j \in hits : i <= j
  <2> HIDE DEF hits
  <2> QED BY <1>2, LeastNatural
<1>4. hits # {} => ReplacedChild(m, old) \in hits
  <2> HIDE DEF hits
  <2> QED BY <1>1, <1>3
<1> QED BY <1>1, <1>4

\* The sizes of a heap and its records.
LEMMA Sizes ==
  ASSUME SizeInv
  PROVE  /\ parsed \in ParsedUnits /\ Top \in Nat /\ Len(records) \in Nat
         /\ Len(heap) = Top + 2 * Len(records) /\ DOMAIN heap = 1..(Top + 2 * Len(records))
         /\ DOMAIN records = 1..Len(records)
         /\ Len(heap) + 1 = NewAt(Len(records) + 1) /\ Len(heap) + 2 = CondAt(Len(records) + 1)
         /\ \A j \in DOMAIN records : NewAt(j) \in (Top + 1)..Len(heap) /\ CondAt(j) \in (Top + 1)..Len(heap)
<1>1. /\ parsed \in ParsedUnits /\ Top \in Nat /\ Len(records) \in Nat
      /\ DOMAIN heap = 1..Len(heap) /\ DOMAIN records = 1..Len(records)
      /\ Len(heap) = Top + 2 * Len(records)
  BY UnitParsed DEF SizeInv, IsSequence
<1>2. Len(heap) + 1 = NewAt(Len(records) + 1) /\ Len(heap) + 2 = CondAt(Len(records) + 1)
  BY <1>1 DEF NewAt, CondAt
<1>3. ASSUME NEW j \in 1..Len(records)
      PROVE  NewAt(j) \in (Top + 1)..Len(heap) /\ CondAt(j) \in (Top + 1)..Len(heap)
  BY <1>1 DEF NewAt, CondAt
<1> QED BY <1>1, <1>2, <1>3

\* Element m of h is replaced, and two are added.
Grown(h, m, z, x, y) == Append(Append([h EXCEPT ![m] = z], x), y)

\* Node m with another k-th operand.
WithOperand(m, k, v) ==
  [kind |-> heap[m].kind, op |-> heap[m].op, type |-> heap[m].type, where |-> heap[m].where,
   spot |-> heap[m].spot, children |-> [heap[m].children EXCEPT ![k] = v]]

\* A node with other operands.
LEMMA NodeWithOperands ==
  ASSUME NEW x, IsNode(x), NEW c
  PROVE  [x EXCEPT !.children = c] = [kind |-> x.kind, op |-> x.op, type |-> x.type,
                                      where |-> x.where, spot |-> x.spot, children |-> c]
<1>1. DOMAIN x = {"kind", "op", "type", "where", "spot", "children"}
  BY DEF IsNode
<1> QED BY <1>1

\* The heap in the words of ReplaceExpression.
Regrown(m, k, v, x, y) == Append(Append([heap EXCEPT ![m].children[k] = v], x), y)

LEMMA HeapGrows ==
  ASSUME NEW m, IsNode(heap[m]), NEW k, NEW v, NEW x, NEW y
  PROVE  Regrown(m, k, v, x, y) = Grown(heap, m, WithOperand(m, k, v), x, y)
<1> DEFINE c == [heap[m].children EXCEPT ![k] = v]
           z == [heap[m] EXCEPT !.children = c]
<1>1. z = WithOperand(m, k, v)
  <2>1. WithOperand(m, k, v) = [kind |-> heap[m].kind, op |-> heap[m].op, type |-> heap[m].type,
                                where |-> heap[m].where, spot |-> heap[m].spot, children |-> c]
    BY Zenon DEF WithOperand
  <2> HIDE DEF c
  <2> QED BY <2>1, NodeWithOperands DEF z
<1>2. Regrown(m, k, v, x, y) = Grown(heap, m, z, x, y)
  BY Zenon DEF Grown, Regrown
<1> HIDE DEF z
<1> QED BY <1>1, <1>2, Zenon

\* What is the same after a replacement, and what is new: node m, which gets the
\* condition c as an operand or stays as it is, the new node and the condition.
Replacement(p, m, z, c) ==
  LET R == Len(records) + 1
  IN  /\ m \in 1..Top /\ p.target \in 1..Top
      /\ records' = Append(records, p) /\ parsed' = parsed
      /\ heap' = Grown(heap, m, z, NewNode(p), c)
      /\ IsCondition(c, p, NewAt(R))
      /\ \/ /\ HasPlace(p.target)'
            /\ \E k \in DOMAIN parsed.heap[m].children :
                 parsed.heap[m].children[k] = p.target /\ z = WithOperand(m, k, CondAt(R))
         \/ ~HasPlace(p.target)' /\ z = heap[m]

\* The plugin stops for a reason.
Stopped(p) ==
  /\ mutating' \in {"assert", "undefined"} /\ UNCHANGED <<heap, waiting, records>>
  /\ \/ \E j \in DOMAIN records : records[j].target = p.target
     \/ ~HasPlace(p.target)'
     \/ p.op = "nothing" /\ parsed.heap[Parent(p.target)].kind # "block"

\* It replaces a node of declaration d, or makes its replacement at least.
Replaces(p, d) ==
  /\ UNCHANGED mutating /\ waiting' = waiting \ {p}
  /\ \E m \in d.body..d.last : \E z, c : Replacement(p, m, z, c)

\* The two conditions.
LEMMA ConditionFacts ==
  ASSUME NEW p, NEW new
  PROVE  /\ IsCondition(CreateMutatedExpression(p, new), p, new)
         /\ IsCondition(CreateMutatedStatement(p, new), p, new)
<1>1. \A k, o, t, c : Made(k, o, t, c).kind = k /\ Made(k, o, t, c).op = o /\ Made(k, o, t, c).children = c
  BY DEF Made
<1> QED BY <1>1 DEF IsCondition, CreateMutatedExpression, CreateMutatedStatement

\* The place a node has when it is replaced.
LEMMA PlaceFacts ==
  ASSUME parsed' = parsed, NEW n, heap[Parent(n)].kind = parsed.heap[Parent(n)].kind
  PROVE  HasPlace(n)' <=> HasParent(n, known') /\ heap[Parent(n)].kind # "decl"
<1>1. Parent(n)' = Parent(n)
  BY DEF Parent
<1>2. HasParent(n, known)' <=> HasParent(n, known')
  BY DEF HasParent
<1> QED BY <1>1, <1>2 DEF HasPlace

\* A condition that gets nowhere.
LEMMA NowhereFacts ==
  ASSUME SizeInv, parsed' = parsed, NEW p, p.target \in 1..Top, ~HasPlace(p.target)',
         NEW d, p.target \in d.body..d.last,
         NEW c, IsCondition(c, p, Len(heap) + 1), Nowhere(p, c)
  PROVE  Stopped(p) \/ Replaces(p, d)
<1>1. CASE Stop
  BY <1>1 DEF Stop, Stopped
<1>2. CASE Record(p, heap, c)
  <2> DEFINE t == p.target
             x == NewNode(p)
  <2>1. PICK S : heap \in Seq(S)
    BY DEF SizeInv, IsSequence
  <2>2. [heap EXCEPT ![t] = heap[t]] = heap
    BY <2>1
  <2>3. /\ heap' = Append(Append(heap, x), c) /\ waiting' = waiting \ {p}
        /\ records' = Append(records, p) /\ UNCHANGED mutating
    BY <1>2 DEF Record
  <2>4. heap' = Grown(heap, t, heap[t], x, c)
    <3> HIDE DEF t, x
    <3> QED BY <2>2, <2>3, Zenon DEF Grown
  <2>5. IsCondition(c, p, NewAt(Len(records) + 1))
    BY Sizes
  <2>6. Replacement(p, t, heap[t], c)
    BY <2>3, <2>4, <2>5, Zenon DEF Replacement
  <2> QED BY <2>3, <2>6 DEF Replaces
<1> QED BY <1>1, <1>2 DEF Nowhere

\* A condition that gets into a node, unless what it replaces has gone from there.
LEMMA PutFacts ==
  ASSUME SizeInv, parsed' = parsed, NEW p, p.target \in 1..Top, HasPlace(p.target)',
         NEW d, NEW m \in 1..Top, m \in d.body..d.last, IsNode(heap[m]),
         NEW child,
         \/ child = 0 /\ \E j \in DOMAIN records : records[j].target = p.target
         \/ /\ child # 0 /\ child \in DOMAIN parsed.heap[m].children
            /\ parsed.heap[m].children[child] = p.target,
         NEW c, IsCondition(c, p, Len(heap) + 1), PutInto(p, m, child, c)
  PROVE  Stopped(p) \/ Replaces(p, d)
<1>1. CASE child = 0
  BY <1>1 DEF PutInto, Stop, Stopped
<1>2. CASE child # 0
  <2> DEFINE R == Len(records) + 1
             v == CondAt(R)
             x == NewNode(p)
             z == WithOperand(m, child, v)
  <2>1. Len(heap) + 2 = v /\ IsCondition(c, p, NewAt(R))
    BY Sizes
  <2>2. /\ heap' = Append(Append([heap EXCEPT ![m].children[child] = Len(heap) + 2], x), c)
        /\ waiting' = waiting \ {p} /\ records' = Append(records, p) /\ UNCHANGED mutating
    BY <1>2 DEF PutInto, Record
  <2>3. heap' = Regrown(m, child, v, x, c)
    <3> HIDE DEF v, x
    <3> QED BY <2>1, <2>2, Zenon DEF Regrown
  <2>4. heap' = Grown(heap, m, z, x, c)
    <3> HIDE DEF v, x
    <3> QED BY <2>3, HeapGrows, Zenon DEF z
  <2>5. Replacement(p, m, z, c)
    BY <1>2, <2>1, <2>2, <2>4, Zenon DEF Replacement
  <2> QED BY <2>2, <2>5 DEF Replaces
<1> QED BY <1>1, <1>2

\* std::find finds the node of a point below its parent, or it was replaced.
LEMMA ChildFacts ==
  ASSUME SizeInv, TreeInv, NEW t \in 1..Top, NEW m \in 1..Top,
         NEW k \in DOMAIN parsed.heap[m].children, parsed.heap[m].children[k] = t
  PROVE  LET child == ReplacedChild(m, t)
         IN  \/ child = 0 /\ \E j \in DOMAIN records : records[j].target = t
             \/ child # 0 /\ child \in DOMAIN parsed.heap[m].children /\ parsed.heap[m].children[child] = t
<1> DEFINE child == ReplacedChild(m, t)
<1>1. /\ DOMAIN heap[m].children = DOMAIN parsed.heap[m].children
      /\ DOMAIN heap[m].children = 1..Len(heap[m].children) /\ Len(heap[m].children) \in Nat
      /\ \A i \in DOMAIN heap[m].children : StandsFor(heap[m].children[i], parsed.heap[m].children[i])
  BY CurrentNode
<1>2. DOMAIN heap[m].children \subseteq Nat \ {0}
  BY <1>1
<1> HIDE DEF child
<1>3. CASE child = 0 /\ \A i \in DOMAIN heap[m].children : heap[m].children[i] # t
  BY <1>1, <1>3 DEF StandsFor, child
<1>4. CASE child \in DOMAIN heap[m].children /\ heap[m].children[child] = t /\ child # 0
  <2>1. StandsFor(t, parsed.heap[m].children[child])
    BY <1>1, <1>4
  <2>2. \A j \in DOMAIN records : t # CondAt(j)
    BY Sizes
  <2> QED BY <1>1, <1>4, <2>1, <2>2 DEF StandsFor, child
<1> QED BY <1>2, <1>3, <1>4, FoundChild DEF child

\* What it takes to replace the node of a point: it has a place and is still
\* there, or it gets none, or the plugin stops.
LEMMA ReplacedFacts ==
  ASSUME PluginInv, mutating = "perform", parsed' = parsed, NEW p \in waiting,
         IF p.op = "nothing" THEN ReplaceStatement(p) ELSE ReplaceExpression(p)
  PROVE  Stopped(p) \/ Replaces(p, parsed.decls[declaration])
<1> DEFINE m == Parent(p.target)
           d == parsed.decls[declaration]
           x == CreateMutatedExpression(p, Len(heap) + 1)
           s == CreateMutatedStatement(p, Len(heap) + 1)
           child == ReplacedChild(m, p.target)
<1>1. parsed \in ParsedUnits /\ SizeInv /\ TreeInv /\ IsPointOf(p, declaration)
  BY DEF PluginInv, SizeInv, StageInv
<1>2. /\ m \in 1..Top /\ m \in d.body..d.last
      /\ \E k \in DOMAIN parsed.heap[m].children : parsed.heap[m].children[k] = p.target
      /\ p.target \in 1..Top /\ p.target \in d.body..d.last
  <2>1. /\ m \in 1..Top /\ m \in d.body..d.last
        /\ \E k \in DOMAIN parsed.heap[m].children : parsed.heap[m].children[k] = p.target
    BY <1>1, ParentFacts DEF IsPointOf
  <2>2. d.body \in 1..Top /\ d.last \in d.body..Top /\ p.target \in (d.body + 1)..d.last
    BY <1>1, ParsedDecl DEF IsPointOf
  <2> HIDE DEF d, m
  <2>3. p.target \in d.body..d.last
    BY <2>2
  <2> QED BY <1>1, <2>1, <2>2, <2>3, UnitParsed, Inside1
<1>3. IsCondition(x, p, Len(heap) + 1) /\ IsCondition(s, p, Len(heap) + 1)
  BY ConditionFacts
<1>4. heap[m].kind = parsed.heap[m].kind /\ IsNode(heap[m])
  BY <1>1, <1>2, CurrentNode
<1>5. HasPlace(p.target)' <=> HasParent(p.target, known') /\ heap[m].kind # "decl"
  BY <1>4, PlaceFacts
<1>6. \/ child = 0 /\ \E j \in DOMAIN records : records[j].target = p.target
      \/ /\ child # 0 /\ child \in DOMAIN parsed.heap[m].children
         /\ parsed.heap[m].children[child] = p.target
  <2> HIDE DEF m
  <2> QED BY <1>1, <1>2, ChildFacts
<1>7. heap[m].kind = "var" => 1 \in DOMAIN parsed.heap[m].children /\ parsed.heap[m].children[1] = p.target
  BY <1>1, <1>2, <1>4, ParsedNode
<1> HIDE DEF m, d, x, s, child
<1>8. ASSUME NEW c, IsCondition(c, p, Len(heap) + 1), Nowhere(p, c), ~HasPlace(p.target)'
      PROVE  Stopped(p) \/ Replaces(p, d)
  BY <1>1, <1>2, <1>8, NowhereFacts
<1>9. ASSUME NEW c, IsCondition(c, p, Len(heap) + 1), PutInto(p, m, child, c), HasPlace(p.target)'
      PROVE  Stopped(p) \/ Replaces(p, d)
  BY <1>1, <1>2, <1>4, <1>6, <1>9, PutFacts
<1>10. CASE p.op # "nothing"
  <2>1. CASE HasPlace(p.target)' /\ heap[m].kind = "var" /\ PutInto(p, m, 1, x)
    BY <1>1, <1>2, <1>3, <1>4, <1>7, <2>1, PutFacts DEF d
  <2>2. CASE HasPlace(p.target)' /\ PutInto(p, m, child, x)
    BY <1>3, <1>9, <2>2 DEF d
  <2>3. CASE ~HasPlace(p.target)' /\ Nowhere(p, x)
    BY <1>3, <1>8, <2>3 DEF d
  <2>4. ReplaceExpression(p)
    BY <1>10
  <2> QED BY <1>5, <2>1, <2>2, <2>3, <2>4 DEF ReplaceExpression, m, x, child, d
<1>11. CASE p.op = "nothing"
  <2>1. CASE ~HasPlace(p.target)' /\ Nowhere(p, s)
    BY <1>3, <1>8, <2>1 DEF d
  <2>2. CASE HasPlace(p.target)' /\ PutInto(p, m, child, s)
    BY <1>3, <1>9, <2>2 DEF d
  <2>3. CASE /\ mutating' \in {"assert", "undefined"} /\ UNCHANGED <<heap, waiting, records>>
             /\ heap[m].kind # "block"
    BY <1>4, <1>11, <2>3 DEF Stopped, m
  <2>4. ReplaceStatement(p)
    BY <1>11
  <2> QED BY <1>5, <2>1, <2>2, <2>3, <2>4 DEF ReplaceStatement, Stop, m, s, child, d
<1> QED BY <1>10, <1>11 DEF d

\* An element of a sequence is replaced, and two are added.
LEMMA ReplaceAndAppend ==
  ASSUME NEW h, IsSequence(h), NEW m \in DOMAIN h, NEW z, NEW x, NEW y, NEW g,
         g = Grown(h, m, z, x, y)
  PROVE  /\ IsSequence(g) /\ Len(g) = Len(h) + 2
         /\ \A n \in 1..Len(h) : n # m => g[n] = h[n]
         /\ g[m] = z /\ g[Len(h) + 1] = x /\ g[Len(h) + 2] = y
<1>0. PICK S : h \in Seq(S)
  BY DEF IsSequence
<1> DEFINE T == S \cup {x, y, z}
           e == [h EXCEPT ![m] = z]
           f == Append(e, x)
<1>1. e \in Seq(T) /\ Len(e) = Len(h) /\ Len(h) \in Nat /\ DOMAIN h = 1..Len(h)
  BY <1>0
<1>2. e[m] = z /\ \A n \in 1..Len(h) : n # m => e[n] = h[n]
  BY <1>1
<1> HIDE DEF e
<1>3. f \in Seq(T) /\ Len(f) = Len(h) + 1 /\ f[Len(h) + 1] = x /\ \A n \in 1..Len(h) : f[n] = e[n]
  BY <1>1
<1> HIDE DEF f
<1>4. /\ Append(f, y) \in Seq(T) /\ Len(Append(f, y)) = Len(h) + 2
      /\ Append(f, y)[Len(h) + 2] = y /\ \A n \in 1..(Len(h) + 1) : Append(f, y)[n] = f[n]
  BY <1>1, <1>3
<1>5. g = Append(f, y)
  BY DEF e, f, Grown
<1> HIDE DEF T
<1>6. /\ \A n \in 1..Len(h) : g[n] = e[n]
      /\ g[Len(h) + 1] = x
  BY <1>1, <1>3, <1>4, <1>5
<1> QED BY <1>1, <1>2, <1>4, <1>5, <1>6 DEF IsSequence

\* The heap after a replacement.
LEMMA HeapAfter ==
  ASSUME SizeInv, NEW m \in 1..Top, NEW z, NEW x, NEW y, heap' = Grown(heap, m, z, x, y)
  PROVE  LET R == Len(records) + 1
         IN  /\ IsSequence(heap') /\ Len(heap') = Len(heap) + 2
             /\ \A n \in 1..Len(heap) : n # m => heap'[n] = heap[n]
             /\ heap'[NewAt(R)] = x /\ heap'[CondAt(R)] = y
             /\ heap'[m] = z
<1>1. Len(heap) + 1 = NewAt(Len(records) + 1) /\ Len(heap) + 2 = CondAt(Len(records) + 1)
  BY Sizes
<1>2. IsSequence(heap) /\ m \in DOMAIN heap
  BY Sizes DEF SizeInv
<1>3. /\ IsSequence(heap') /\ Len(heap') = Len(heap) + 2
      /\ \A n \in 1..Len(heap) : n # m => heap'[n] = heap[n]
      /\ heap'[m] = z
      /\ heap'[Len(heap) + 1] = x /\ heap'[Len(heap) + 2] = y
  BY <1>2, ReplaceAndAppend
<1> QED BY <1>1, <1>3, Zenon

\* The records after a replacement.
LEMMA RecordsAfter ==
  ASSUME IsSequence(records), NEW p, records' = Append(records, p)
  PROVE  /\ IsSequence(records') /\ Len(records') = Len(records) + 1 /\ Len(records) \in Nat
         /\ DOMAIN records = 1..Len(records) /\ DOMAIN records' = 1..(Len(records) + 1)
         /\ \A j \in DOMAIN records : j \in DOMAIN records' /\ records'[j] = records[j]
         /\ records'[Len(records) + 1] = p /\ Len(records) + 1 \in DOMAIN records'
         /\ \A j \in DOMAIN records' : j \in DOMAIN records \/ j = Len(records) + 1
<1> DEFINE l == Len(records)
<1>1. PICK S : records \in Seq(S)
  BY DEF IsSequence
<1>2. l \in Nat /\ DOMAIN records = 1..l
  BY <1>1
<1>3. /\ Append(records, p) \in Seq(S \cup {p}) /\ Len(Append(records, p)) = l + 1
      /\ \A j \in 1..l : Append(records, p)[j] = records[j]
      /\ Append(records, p)[l + 1] = p
  BY <1>1
<1> HIDE DEF l
<1>4. DOMAIN records' = 1..(l + 1)
  BY <1>2, <1>3
<1> QED BY <1>2, <1>3, <1>4 DEF l, IsSequence

\* The places of nodes stay, once there is a record.
PlacesKept == \A j \in DOMAIN records : \A n : HasPlace(n)' <=> HasPlace(n)

\* The parent map is made once.
LEMMA PlacesStay ==
  ASSUME KnownInv, parsed' = parsed, known' = known \/ known = 0
  PROVE  PlacesKept
<1> SUFFICES ASSUME NEW j \in DOMAIN records, NEW n PROVE HasPlace(n)' <=> HasPlace(n)
  BY DEF PlacesKept
<1>1. records # <<>>
  OBVIOUS
<1>2. known' = known
  BY <1>1 DEF KnownInv
<1>3. Parent(n)' = Parent(n)
  BY DEF Parent
<1>4. HasParent(n, known)' <=> HasParent(n, known)
  BY <1>2 DEF HasParent
<1> QED BY <1>3, <1>4 DEF HasPlace

\* What stood for a node still does.
LEMMA StandsLonger ==
  ASSUME PlacesKept, Top' = Top,
         \A j \in DOMAIN records : j \in DOMAIN records' /\ records'[j] = records[j],
         NEW x, NEW c, StandsFor(x, c)
  PROVE  StandsFor(x, c)'
<1>1. \A j : CondAt(j)' = CondAt(j)
  BY DEF CondAt
<1>2. CASE x = c
  BY <1>2 DEF StandsFor
<1>3. ASSUME NEW j \in DOMAIN records, HasPlace(c), x = CondAt(j), records[j].target = c
      PROVE  StandsFor(x, c)'
  <2>1. HasPlace(c)'
    BY <1>3 DEF PlacesKept
  <2>2. x = CondAt(j)' /\ j \in DOMAIN records' /\ records'[j].target = c
    BY <1>1, <1>3
  <2> QED BY <2>1, <2>2 DEF StandsFor
<1> QED BY <1>2, <1>3 DEF StandsFor

\* The node a point is replaced by.
LEMMA NewNodeRight ==
  ASSUME SizeInv, TreeInv, NEW p, p.target \in 1..Top
  PROVE  LET x == NewNode(p)
             y == parsed.heap[p.target]
         IN  /\ p.op = "" => x.kind = "operand" /\ AllStandFor(x.children, y.children)
             /\ p.op \in {"42", "nothing"} => x.kind = "leaf" /\ x.op = p.op /\ x.children = <<>>
             /\ p.op \notin {"", "42", "nothing"} =>
                  x.kind = y.kind /\ x.op = p.op /\ AllStandFor(x.children, y.children)
<1> DEFINE t == p.target
<1>1. IsNode(heap[t]) /\ heap[t].kind = parsed.heap[t].kind
  BY CurrentNode
<1>2. AllStandFor(heap[t].children, parsed.heap[t].children)
  BY CurrentNode DEF AllStandFor
<1> HIDE DEF t
<1>3. CASE p.op = ""
  <2>1. NewNode(p).kind = "operand" /\ NewNode(p).children = heap[t].children
    BY <1>3 DEF NewNode, Made, t
  <2> QED BY <1>2, <1>3, <2>1 DEF t
<1>4. CASE p.op = "42"
  BY <1>4 DEF NewNode, Made
<1>5. CASE p.op = "nothing"
  BY <1>5 DEF NewNode, Made
<1>6. CASE p.op \notin {"", "42", "nothing"}
  <2>1. NewNode(p) = [heap[t] EXCEPT !.op = p.op, !.where = "mull"]
    BY <1>6 DEF NewNode, t
  <2>2. DOMAIN heap[t] = {"kind", "op", "type", "where", "spot", "children"}
    BY <1>1 DEF IsNode
  <2>3. /\ NewNode(p).kind = heap[t].kind /\ NewNode(p).op = p.op
        /\ NewNode(p).children = heap[t].children
    BY <2>1, <2>2
  <2> QED BY <1>1, <1>2, <1>6, <2>3 DEF t
<1> QED BY <1>3, <1>4, <1>5, <1>6

\* A record more is two nodes more.
LEMMA TwoMore ==
  ASSUME NEW t \in Nat, NEW r \in Nat, NEW l, l = t + 2 * r, NEW g, g = l + 2
  PROVE  g = t + 2 * (r + 1)
  OBVIOUS

\* The sizes after a replacement, and what is where.
LEMMA AfterReplacement ==
  ASSUME SizeInv, NEW p, NEW m, NEW z, NEW c, Replacement(p, m, z, c)
  PROVE  LET R == Len(records) + 1
         IN  /\ Top' = Top /\ SizeInv' /\ DOMAIN parsed'.heap = DOMAIN parsed.heap
             /\ \A j \in DOMAIN records : j \in DOMAIN records' /\ records'[j] = records[j]
             /\ R \in DOMAIN records' /\ records'[R] = p
             /\ \A j \in DOMAIN records' : j \in DOMAIN records \/ j = R
             /\ \A n \in 1..Len(heap) : n # m => heap'[n] = heap[n]
             /\ heap'[NewAt(R)] = NewNode(p)
             /\ heap'[CondAt(R)] = c
             /\ heap'[m] = z
<1> DEFINE R == Len(records) + 1
<1>1. m \in 1..Top /\ records' = Append(records, p) /\ parsed' = parsed
  BY DEF Replacement
<1>2. /\ IsSequence(heap') /\ Len(heap') = Len(heap) + 2
      /\ \A n \in 1..Len(heap) : n # m => heap'[n] = heap[n]
      /\ heap'[NewAt(R)] = NewNode(p)
      /\ heap'[CondAt(R)] = c
      /\ heap'[m] = z
  <2> DEFINE x == NewNode(p)
  <2>1. heap' = Grown(heap, m, z, x, c)
    BY DEF Replacement
  <2> HIDE DEF x
  <2>2. /\ IsSequence(heap') /\ Len(heap') = Len(heap) + 2
        /\ \A n \in 1..Len(heap) : n # m => heap'[n] = heap[n]
        /\ heap'[NewAt(R)] = x
        /\ heap'[CondAt(R)] = c
        /\ heap'[m] = z
    BY <1>1, <2>1, HeapAfter
  <2> QED BY <2>2 DEF x
<1>3. /\ IsSequence(records') /\ Len(records') = Len(records) + 1 /\ Len(records) \in Nat
      /\ \A j \in DOMAIN records : j \in DOMAIN records' /\ records'[j] = records[j]
      /\ R \in DOMAIN records' /\ records'[R] = p
      /\ \A j \in DOMAIN records' : j \in DOMAIN records \/ j = R
  BY <1>1, RecordsAfter DEF SizeInv
<1>4. Top' = Top
  BY <1>1 DEF Top
<1>5. Len(heap') = Top + 2 * (Len(records) + 1)
  <2>1. Len(heap) = Top + 2 * Len(records) /\ Top \in Nat /\ Len(records) \in Nat
    BY Sizes
  <2> QED BY <1>2, <2>1, TwoMore
<1>6. SizeInv'
  BY <1>1, <1>2, <1>3, <1>4, <1>5 DEF SizeInv
<1> QED BY <1>1, <1>2, <1>3, <1>4, <1>6

\* A sequence with another element.
LEMMA OtherElement ==
  ASSUME NEW S, NEW s \in Seq(S), NEW k \in DOMAIN s, NEW v \in S
  PROVE  [s EXCEPT ![k] = v] \in Seq(S) /\ DOMAIN [s EXCEPT ![k] = v] = DOMAIN s
<1>1. k \in 1..Len(s)
  OBVIOUS
<1> QED BY <1>1, ExceptSeq

\* The parsed nodes after a replacement.
LEMMA OriginalsAfter ==
  ASSUME SizeInv, TreeInv, PlacesKept, NEW p, NEW m, NEW z, NEW cond, Replacement(p, m, z, cond),
         NEW n \in 1..Top
  PROVE  OriginalRight(n)'
<1> DEFINE Gone(v, c) == \A j \in DOMAIN records' :
                   records'[j].target = c /\ HasPlace(c)' => v # c
<1>0. PICK x, y, R : x = heap'[n] /\ y = parsed.heap[n] /\ R = Len(records) + 1
  OBVIOUS
<1>1. /\ Top' = Top
      /\ \A j \in DOMAIN records : j \in DOMAIN records' /\ records'[j] = records[j]
      /\ records'[R] = p /\ R \in DOMAIN records'
      /\ \A j \in DOMAIN records' : j \in DOMAIN records \/ j = R
      /\ \A i \in 1..Len(heap) : i # m => heap'[i] = heap[i]
      /\ heap'[m] = z
  BY <1>0, AfterReplacement
<1>2. m \in 1..Top /\ parsed' = parsed
  BY DEF Replacement
<1>3. /\ parsed \in ParsedUnits /\ n \in 1..Len(heap)
      /\ CondAt(R) \in Nat /\ \A c \in 1..Top : c # CondAt(R)
  <2>1. Len(records) \in Nat /\ Top \in Nat /\ Len(heap) = Top + 2 * Len(records)
    BY Sizes
  <2> QED BY <1>0, <2>1, Sizes DEF CondAt
<1>4. /\ IsNode(heap[n]) /\ heap[n].kind = y.kind /\ heap[n].op = y.op
      /\ heap[n].type = y.type /\ heap[n].where = y.where
      /\ heap[n].children \in Seq(Nat) /\ DOMAIN heap[n].children = DOMAIN y.children
      /\ \A i \in DOMAIN y.children : StandsFor(heap[n].children[i], y.children[i])
      /\ \A i \in DOMAIN y.children, j \in DOMAIN records :
           records[j].target = y.children[i] /\ HasPlace(y.children[i]) =>
             heap[n].children[i] # y.children[i]
  BY <1>0, CurrentNode
<1>5. \A v, c : StandsFor(v, c) => StandsFor(v, c)'
  BY <1>1, StandsLonger
<1>6. \A i \in DOMAIN y.children : y.children[i] \in 1..Top
  BY <1>0, <1>3, ParsedNode, UnitParsed
<1>7. \A c : \A j \in DOMAIN records : HasPlace(c)' <=> HasPlace(c)
  BY DEF PlacesKept
<1>8. ASSUME NEW i \in DOMAIN y.children, y.children[i] = p.target => ~HasPlace(p.target)'
      PROVE  Gone(heap[n].children[i], y.children[i])
  BY <1>1, <1>4, <1>7, <1>8
<1> HIDE DEF Gone
<1> DEFINE Fits ==
             /\ IsNode(x) /\ x.kind = y.kind /\ x.op = y.op /\ x.type = y.type /\ x.where = y.where
             /\ x.children \in Seq(Nat) /\ DOMAIN x.children = DOMAIN y.children
             /\ \A i \in DOMAIN y.children : StandsFor(x.children[i], y.children[i])'
             /\ \A i \in DOMAIN y.children : Gone(x.children[i], y.children[i])
<1>9. ASSUME ~HasPlace(p.target)', z = heap[m] PROVE Fits
  <2>1. x = heap[n]
    BY <1>0, <1>1, <1>3, <1>9
  <2> QED BY <1>4, <1>5, <1>8, <1>9, <2>1
<1>10. ASSUME HasPlace(p.target)', NEW k \in DOMAIN parsed.heap[m].children,
              parsed.heap[m].children[k] = p.target, z = WithOperand(m, k, CondAt(R))
       PROVE  Fits
  <2>1. CASE n # m
    <3>1. x = heap[n]
      BY <1>0, <1>1, <1>3, <2>1
    <3>2. ASSUME NEW i \in DOMAIN y.children PROVE y.children[i] # p.target
      BY <1>2, <1>3, <1>10, <2>1, <1>0, ChildOnce
    <3> QED BY <1>4, <1>5, <1>8, <3>1, <3>2
  <2>2. CASE n = m
    <3>0. PICK c : c = [heap[n].children EXCEPT ![k] = CondAt(R)]
      OBVIOUS
    <3>1. x = [kind |-> heap[n].kind, op |-> heap[n].op, type |-> heap[n].type,
               where |-> heap[n].where, spot |-> heap[n].spot, children |-> c]
      BY <1>0, <1>1, <1>10, <2>2, <3>0 DEF WithOperand
    <3>2. k \in DOMAIN y.children /\ y.children[k] = p.target
      BY <1>0, <1>10, <2>2
    <3>3. c \in Seq(Nat) /\ DOMAIN c = DOMAIN y.children
      <4>1. CondAt(R) \in Nat /\ heap[n].children \in Seq(Nat) /\ DOMAIN heap[n].children = DOMAIN y.children
           /\ k \in DOMAIN heap[n].children
        BY <1>3, <1>4, <3>2
      <4> QED BY <3>0, <4>1, OtherElement
    <3>4. c[k] = CondAt(R) /\ \A i \in DOMAIN y.children : i # k => c[i] = heap[n].children[i]
      BY <1>4, <3>0, <3>2
    <3>5. /\ IsNode(x) /\ x.kind = y.kind /\ x.op = y.op /\ x.type = y.type /\ x.where = y.where
          /\ x.children = c
      BY <1>4, <3>1, <3>3 DEF IsNode
    <3>6. ASSUME NEW i \in DOMAIN y.children
          PROVE  StandsFor(c[i], y.children[i])'
      <4>1. CASE i = k
        <5>1. CondAt(R)' = CondAt(R)
          BY <1>1 DEF CondAt
        <5>2. c[i] = CondAt(R)' /\ R \in DOMAIN records' /\ records'[R].target = y.children[i]
          BY <1>1, <3>2, <3>4, <4>1, <5>1
        <5>3. HasPlace(y.children[i])'
          BY <1>10, <3>2, <4>1
        <5> QED BY <5>2, <5>3 DEF StandsFor
      <4>2. CASE i # k
        BY <1>4, <1>5, <3>4, <4>2
      <4> QED BY <4>1, <4>2
    <3>7. ASSUME NEW i \in DOMAIN y.children
          PROVE  Gone(c[i], y.children[i])
      <4>1. CASE i = k
        BY <1>3, <1>6, <3>4, <4>1 DEF Gone
      <4>2. CASE i # k
        <5>1. y.children[i] # p.target
          BY <1>2, <1>3, <1>10, <2>2, <4>2, <1>0, ChildOnce
        <5> QED BY <1>8, <3>4, <4>2, <5>1
      <4> QED BY <4>1, <4>2
    <3> QED BY <3>3, <3>5, <3>6, <3>7
  <2> QED BY <2>1, <2>2
<1>11. Fits
  <2> HIDE DEF Fits
  <2> QED BY <1>0, <1>9, <1>10 DEF Replacement
<1>12. parsed'.heap[n] = y /\ heap'[n] = x
  BY <1>0, <1>2
<1>13. \A i \in DOMAIN y.children, j \in DOMAIN records' :
         records'[j].target = y.children[i] /\ HasPlace(y.children[i])' =>
           x.children[i] # y.children[i]
  BY <1>11 DEF Gone
<1> QED BY <1>11, <1>12, <1>13 DEF OriginalRight, AllStandFor

\* Places of a record's nodes are not those of parsed nodes.
LEMMA RecordPlaces ==
  ASSUME SizeInv, NEW j \in DOMAIN records
  PROVE  /\ NewAt(j) \in 1..Len(heap) /\ CondAt(j) \in 1..Len(heap)
         /\ NewAt(j) \in Nat /\ CondAt(j) \in Nat
         /\ NewAt(j) > Top /\ CondAt(j) > Top
<1>1. Top \in Nat /\ Len(heap) \in Nat
  BY Sizes
<1>2. NewAt(j) \in (Top + 1)..Len(heap) /\ CondAt(j) \in (Top + 1)..Len(heap)
  BY Sizes
<1> QED BY <1>1, <1>2

\* The records' nodes after a replacement.
LEMMA RecordsRightAfter ==
  ASSUME SizeInv, TreeInv, PlacesKept, NEW p, p.target \in 1..Top, NEW m, NEW z, NEW cond,
         Replacement(p, m, z, cond), NEW j \in DOMAIN records'
  PROVE  NewRight(j)' /\ CondRight(j)'
<1> DEFINE R == Len(records) + 1
<1>1. /\ Top' = Top /\ parsed' = parsed /\ m \in 1..Top
      /\ \A i \in DOMAIN records : i \in DOMAIN records' /\ records'[i] = records[i]
      /\ records'[R] = p
      /\ j \in DOMAIN records \/ j = R
      /\ \A n \in 1..Len(heap) : n # m => heap'[n] = heap[n]
      /\ heap'[NewAt(R)] = NewNode(p)
      /\ heap'[CondAt(R)] = cond /\ IsCondition(cond, p, NewAt(R))
  BY AfterReplacement DEF Replacement
<1>2. NewAt(j)' = NewAt(j) /\ CondAt(j)' = CondAt(j)
  BY <1>1 DEF NewAt, CondAt
<1>3. \A xs, cs : AllStandFor(xs, cs) => AllStandFor(xs, cs)'
  <2>1. \A x, c : StandsFor(x, c) => StandsFor(x, c)'
    BY <1>1, StandsLonger
  <2> QED BY <2>1 DEF AllStandFor
<1> HIDE DEF R
<1>6. \A x, q, new : IsCondition(x, q, new)' = IsCondition(x, q, new)
  BY <1>1 DEF IsCondition, Id, Location
<1>4. CASE j \in DOMAIN records
  <2>1. heap'[NewAt(j)] = heap[NewAt(j)] /\ heap'[CondAt(j)] = heap[CondAt(j)]
    <3>1. NewAt(j) # m /\ CondAt(j) # m /\ NewAt(j) \in 1..Len(heap) /\ CondAt(j) \in 1..Len(heap)
      BY <1>1, <1>4, RecordPlaces, Sizes
    <3> QED BY <1>1, <3>1
  <2>2. records'[j] = records[j]
    BY <1>1, <1>4
  <2>3. NewRight(j) /\ CondRight(j)
    BY <1>4 DEF TreeInv
  <2>4. NewRight(j)'
    BY <1>1, <1>2, <1>3, <2>1, <2>2, <2>3 DEF NewRight
  <2>5. CondRight(j)'
    BY <1>1, <1>2, <1>6, <2>1, <2>2, <2>3 DEF CondRight
  <2> QED BY <2>4, <2>5
<1>5. CASE j = R
  <2>1. /\ heap'[NewAt(j)] = NewNode(p) /\ heap'[CondAt(j)] = cond
        /\ IsCondition(cond, p, NewAt(j)) /\ records'[j] = p
    BY <1>1, <1>5
  <2>2. NewRight(j)'
    <3> DEFINE x == NewNode(p)
               y == parsed.heap[p.target]
    <3>1. /\ p.op = "" => x.kind = "operand" /\ AllStandFor(x.children, y.children)
          /\ p.op \in {"42", "nothing"} => x.kind = "leaf" /\ x.op = p.op /\ x.children = <<>>
          /\ p.op \notin {"", "42", "nothing"} =>
               x.kind = y.kind /\ x.op = p.op /\ AllStandFor(x.children, y.children)
      BY NewNodeRight
    <3> HIDE DEF x
    <3>2. heap'[NewAt(j)] = x
      BY <2>1 DEF x
    <3> QED BY <1>1, <1>2, <1>3, <2>1, <3>1, <3>2 DEF NewRight
  <2>3. CondRight(j)'
    BY <1>1, <1>2, <1>6, <2>1 DEF CondRight
  <2> QED BY <2>2, <2>3
<1> QED BY <1>1, <1>4, <1>5

\* A point's node and its parent are in the declaration of the point.
LEMMA PointFacts ==
  ASSUME parsed \in ParsedUnits, NEW p, NEW i, IsPointOf(p, i)
  PROVE  LET d == parsed.decls[i]
         IN  /\ i \in DOMAIN parsed.decls /\ IsMutated(d)
             /\ p.target \in (d.body + 1)..d.last /\ p.target \in 1..Top
             /\ Parent(p.target) \in d.body..d.last /\ Parent(p.target) \in 1..Top
<1> DEFINE d == parsed.decls[i]
<1>1. i \in DOMAIN parsed.decls /\ IsMutated(d) /\ p.target \in (d.body + 1)..d.last
  BY DEF IsPointOf
<1>2. d.body \in 1..Top /\ d.last \in d.body..Top /\ Top \in Nat
  BY <1>1, ParsedDecl, UnitParsed
<1>3. Parent(p.target) \in d.body..d.last /\ Parent(p.target) \in 1..Top
  BY <1>1, ParentFacts
<1> HIDE DEF d
<1>4. p.target \in 1..Top
  <2>1. p.target \in d.body..d.last
    BY <1>1, <1>2
  <2> QED BY <1>2, <2>1, Inside1
<1> QED BY <1>1, <1>3, <1>4 DEF d

\* A node of one declaration is not in another.
LEMMA Elsewhere ==
  ASSUME parsed \in ParsedUnits, NEW i \in DOMAIN parsed.decls, NEW j \in DOMAIN parsed.decls, i # j,
         NEW m \in parsed.decls[i].body..parsed.decls[i].last
  PROVE  m \notin parsed.decls[j].body..parsed.decls[j].last
<1>1. \/ parsed.decls[i].last < parsed.decls[j].body
      \/ parsed.decls[j].last < parsed.decls[i].body
  BY UnitParsed
<1>2. /\ parsed.decls[i].body \in Nat /\ parsed.decls[i].last \in Nat
      /\ parsed.decls[j].body \in Nat /\ parsed.decls[j].last \in Nat
  BY ParsedDecl
<1> QED BY <1>1, <1>2

\* A point is in a declaration whatever becomes of the tree.
LEMMA PointStays ==
  ASSUME parsed' = parsed, NEW p, NEW i
  PROVE  IsPointOf(p, i)' = IsPointOf(p, i)
BY DEF IsPointOf, Location, IsMutated

\* The tree is right as long as nothing changes it.
LEMMA TreeUnchanged ==
  ASSUME SizeInv, TreeInv, PlacesKept, UNCHANGED <<parsed, heap, records>>
  PROVE  SizeInv' /\ TreeInv'
<1>1. parsed' = parsed /\ heap' = heap /\ records' = records /\ Top' = Top
  BY DEF Top
<1>2. SizeInv'
  BY <1>1 DEF SizeInv
<1>3. \A x, c : StandsFor(x, c) => StandsFor(x, c)'
  BY <1>1, StandsLonger
<1>4. \A xs, cs : AllStandFor(xs, cs) => AllStandFor(xs, cs)'
  BY <1>3 DEF AllStandFor
<1>5. ASSUME NEW n \in DOMAIN parsed.heap PROVE OriginalRight(n)'
  <2>1. OriginalRight(n)
    BY DEF TreeInv
  <2>2. \A c : \A j \in DOMAIN records : HasPlace(c)' <=> HasPlace(c)
    BY DEF PlacesKept
  <2>3. AllStandFor(heap[n].children, parsed.heap[n].children)'
    BY <1>1, <1>4, <2>1 DEF OriginalRight
  <2>4. \A i \in DOMAIN parsed.heap[n].children, j \in DOMAIN records :
          records[j].target = parsed.heap[n].children[i] /\ HasPlace(parsed.heap[n].children[i])' =>
            heap[n].children[i] # parsed.heap[n].children[i]
    BY <1>1, <2>1, <2>2 DEF OriginalRight
  <2> QED BY <1>1, <2>1, <2>3, <2>4 DEF OriginalRight
<1>6. ASSUME NEW j \in DOMAIN records PROVE NewRight(j)' /\ CondRight(j)'
  <2>1. NewAt(j)' = NewAt(j) /\ CondAt(j)' = CondAt(j)
    BY <1>1 DEF NewAt, CondAt
  <2>2. NewRight(j) /\ CondRight(j)
    BY DEF TreeInv
  <2>3. NewRight(j)'
    BY <1>1, <1>4, <2>1, <2>2 DEF NewRight
  <2>4. \A x, q, new : IsCondition(x, q, new)' = IsCondition(x, q, new)
    BY <1>1 DEF IsCondition, Id, Location
  <2>5. CondRight(j)'
    BY <1>1, <2>1, <2>2, <2>4 DEF CondRight
  <2> QED BY <2>3, <2>5
<1>7. TreeInv'
  BY <1>1, <1>5, <1>6 DEF TreeInv
<1> QED BY <1>2, <1>7

\* A point is performed.
LEMMA PluginReplaced ==
  ASSUME PluginInv, PerformMutation
  PROVE  PluginInv'
<1>1. PICK p \in waiting :
        Foremost(p) /\ IF p.op = "nothing" THEN ReplaceStatement(p) ELSE ReplaceExpression(p)
  BY DEF PerformMutation
<1>2. /\ mutating = "perform" /\ UNCHANGED <<parsed, used, declaration>>
      /\ known' = IF known = 0 THEN declaration ELSE known
  BY DEF PerformMutation
<1>3. /\ SizeInv /\ TreeInv /\ RecordsInv /\ StageInv /\ parsed \in ParsedUnits
      /\ IsPointOf(p, declaration) /\ \A q \in waiting : IsPointOf(q, declaration)
  BY <1>2 DEF PluginInv, SizeInv, StageInv
<1>4. Stopped(p) \/ Replaces(p, parsed.decls[declaration])
  BY <1>1, <1>2, ReplacedFacts
<1>5. /\ p.target \in 1..Top /\ declaration \in DOMAIN parsed.decls
      /\ IsMutated(parsed.decls[declaration])
  BY <1>3, PointFacts
<1>6. PlacesKept
  BY <1>2, PlacesStay DEF PluginInv
<1>7. KnownInv'
  BY <1>2, <1>3 DEF KnownInv, StageInv
<1>8. CASE Stopped(p)
  <2>1. /\ mutating' \in {"assert", "undefined"} /\ UNCHANGED <<heap, waiting, records>>
        /\ \/ \E j \in DOMAIN records : records[j].target = p.target
           \/ ~HasPlace(p.target)'
           \/ p.op = "nothing" /\ parsed.heap[Parent(p.target)].kind # "block"
    BY <1>8 DEF Stopped
  <2>2. SizeInv' /\ TreeInv'
    BY <1>2, <1>3, <1>6, <2>1, TreeUnchanged
  <2>3. RecordsInv'
    BY <1>2, <1>3, <2>1, PointStays DEF RecordsInv
  <2>4. StageInv'
    <3>1. \A q \in waiting' : IsPointOf(q, declaration)'
      BY <1>2, <1>3, <2>1, PointStays
    <3>2. \A i \in DOMAIN parsed.decls : AsParsed(i)' = AsParsed(i) /\ IsMutated(parsed.decls[i])' = IsMutated(parsed.decls[i])
      BY <1>2, <2>1 DEF AsParsed, IsMutated
    <3> QED BY <1>2, <1>3, <2>1, <3>1, <3>2 DEF StageInv
  <2>5. StopsForThese'
    <3>1. Foremost(p)' /\ p \in waiting'
      BY <1>1, <2>1 DEF Foremost, Before
    <3>2. parsed'.heap[Parent(p.target)'] = parsed.heap[Parent(p.target)]
      BY <1>2 DEF Parent
    <3> QED BY <2>1, <3>1, <3>2 DEF StopsForThese
  <2> QED BY <1>7, <2>2, <2>3, <2>4, <2>5 DEF PluginInv
<1>9. ASSUME NEW m \in parsed.decls[declaration].body..parsed.decls[declaration].last,
             NEW z, NEW cond, Replacement(p, m, z, cond), UNCHANGED mutating, waiting' = waiting \ {p}
      PROVE  PluginInv'
  <2> DEFINE R == Len(records) + 1
  <2>1. m \in 1..Top
    BY <1>9 DEF Replacement
  <2>2. /\ Top' = Top /\ SizeInv' /\ DOMAIN parsed'.heap = DOMAIN parsed.heap
        /\ \A j \in DOMAIN records : j \in DOMAIN records' /\ records'[j] = records[j]
        /\ R \in DOMAIN records' /\ records'[R] = p
        /\ \A j \in DOMAIN records' : j \in DOMAIN records \/ j = R
        /\ \A n \in 1..Len(heap) : n # m => heap'[n] = heap[n]
    BY <1>3, <1>9, AfterReplacement, Zenon
  <2> HIDE DEF R
  <2>3. UNCHANGED mutating /\ waiting' \subseteq waiting
    BY <1>9
  <2>4. TreeInv'
    <3>1. \A n \in DOMAIN parsed'.heap : OriginalRight(n)'
      BY <1>3, <1>6, <1>9, <2>2, OriginalsAfter, UnitParsed
    <3>2. \A j \in DOMAIN records' : NewRight(j)' /\ CondRight(j)'
      BY <1>3, <1>5, <1>6, <1>9, RecordsRightAfter
    <3> QED BY <3>1, <3>2 DEF TreeInv
  <2>5. RecordsInv'
    <3>1. \A j \in DOMAIN records' : \E i \in DOMAIN parsed.decls : IsPointOf(records'[j], i)
      BY <1>3, <1>5, <2>2 DEF RecordsInv
    <3>2. \A q, i : IsPointOf(q, i)' = IsPointOf(q, i)
      BY <1>2, PointStays
    <3> QED BY <1>2, <3>1, <3>2 DEF RecordsInv
  <2>6. StageInv'
    <3>1. \A q \in waiting' : IsPointOf(q, declaration)'
      BY <1>2, <1>3, <2>3, PointStays
    <3>2. \A i \in DOMAIN parsed.decls : IsMutated(parsed.decls[i])' = IsMutated(parsed.decls[i])
      BY <1>2 DEF IsMutated
    <3>3. ASSUME NEW i \in DOMAIN parsed.decls, i # declaration, AsParsed(i) PROVE AsParsed(i)'
      <4>1. ASSUME NEW n \in parsed.decls[i].body..parsed.decls[i].last
            PROVE  heap'[n] = parsed.heap[n]
        <5>1. n # m
          BY <1>3, <1>5, <3>3, Elsewhere
        <5>2. n \in 1..Len(heap)
          <6>1. n \in 1..Top
            BY <1>3, ParsedDecl, UnitParsed, Inside1
          <6> QED BY <1>3, <6>1, Sizes
        <5> QED BY <2>2, <3>3, <5>1, <5>2 DEF AsParsed
      <4> QED BY <1>2, <4>1 DEF AsParsed
    <3> QED BY <1>2, <1>3, <1>5, <2>3, <3>1, <3>2, <3>3 DEF StageInv
  <2>7. StopsForThese'
    BY <1>2, <2>3 DEF StopsForThese
  <2> QED BY <1>7, <2>2, <2>4, <2>5, <2>6, <2>7 DEF PluginInv
<1> QED BY <1>4, <1>8, <1>9 DEF Replaces

\* What the invariant says of the tree and its records stays true as long as
\* nothing changes them.
LEMMA PluginUnchanged ==
  ASSUME PluginInv, UNCHANGED <<parsed, heap, records, known>>
  PROVE  /\ SizeInv' /\ TreeInv' /\ RecordsInv' /\ KnownInv'
         /\ \A i \in DOMAIN parsed.decls :
              AsParsed(i)' = AsParsed(i) /\ IsMutated(parsed.decls[i])' = IsMutated(parsed.decls[i])
<1>1. SizeInv /\ TreeInv /\ RecordsInv /\ KnownInv
  BY DEF PluginInv
<1>2. SizeInv' /\ TreeInv'
  BY <1>1, TreeUnchanged, PlacesStay
<1>3. RecordsInv'
  BY <1>1, PointStays DEF RecordsInv
<1>4. \A i \in DOMAIN parsed.decls :
        AsParsed(i)' = AsParsed(i) /\ IsMutated(parsed.decls[i])' = IsMutated(parsed.decls[i])
  BY DEF AsParsed, IsMutated
<1>5. KnownInv'
  BY <1>1 DEF KnownInv
<1> QED BY <1>2, <1>3, <1>4, <1>5

\* The plugin begins with the tree as it was parsed.
LEMMA PluginBegins ==
  ASSUME PluginInit
  PROVE  PluginInv
<1>1. /\ parsed \in ParsedUnits /\ heap = parsed.heap /\ records = <<>> /\ declaration = 1
      /\ waiting = {} /\ mutating = "args" /\ known = 0
  BY DEF PluginInit
<1>2. /\ Top \in Nat /\ DOMAIN parsed.heap = 1..Top /\ parsed.heap \in Seq(Node)
      /\ Len(records) = 0 /\ DOMAIN records = {} /\ records \in Seq(Nat)
  BY <1>1, UnitParsed
<1>3. SizeInv
  BY <1>1, <1>2 DEF SizeInv, IsSequence, Top
<1>4. ASSUME NEW n \in 1..Top PROVE OriginalRight(n)
  <2>1. IsNode(parsed.heap[n]) /\ parsed.heap[n].children \in Seq(Nat)
    BY <1>1, ParsedNode
  <2>2. AllStandFor(parsed.heap[n].children, parsed.heap[n].children)
    BY <2>1 DEF AllStandFor, StandsFor
  <2> QED BY <1>1, <1>2, <2>1, <2>2 DEF OriginalRight
<1>5. TreeInv
  BY <1>2, <1>4 DEF TreeInv
<1>6. RecordsInv
  BY <1>2 DEF RecordsInv
<1>7. StageInv
  BY <1>1 DEF StageInv, AsParsed
<1>8. StopsForThese
  BY <1>1 DEF StopsForThese
<1>9. KnownInv
  BY <1>1 DEF KnownInv
<1> QED BY <1>3, <1>5, <1>6, <1>7, <1>8, <1>9 DEF PluginInv

\* Every step of the plugin preserves the invariant.
LEMMA PluginPreserved ==
  ASSUME PluginInv, [PluginNext]_pluginVars
  PROVE  PluginInv'
<1>1. SizeInv /\ TreeInv /\ RecordsInv /\ StageInv /\ StopsForThese
  BY DEF PluginInv
<1>2. CASE ParseArgs
  <2>1. /\ UNCHANGED <<parsed, heap, records, known>> /\ mutating = "args" /\ mutating' = "search"
        /\ UNCHANGED <<declaration, waiting>>
    BY <1>2 DEF ParseArgs
  <2>2. /\ SizeInv' /\ TreeInv' /\ RecordsInv' /\ KnownInv'
        /\ \A i \in DOMAIN parsed.decls :
             AsParsed(i)' = AsParsed(i) /\ IsMutated(parsed.decls[i])' = IsMutated(parsed.decls[i])
    BY <2>1, PluginUnchanged
  <2>3. StageInv'
    BY <1>1, <2>1, <2>2 DEF StageInv
  <2>4. StopsForThese'
    BY <2>1 DEF StopsForThese
  <2> QED BY <2>2, <2>3, <2>4 DEF PluginInv
<1>3. CASE HandleTopLevelDecl
  <2> DEFINE d == parsed.decls[declaration]
  <2>1. /\ UNCHANGED <<parsed, heap, records, known>> /\ mutating = "search"
        /\ declaration <= Len(parsed.decls)
        /\ \/ ~IsMutated(d) /\ declaration' = declaration + 1 /\ UNCHANGED <<waiting, mutating>>
           \/ mutating' = "null" /\ UNCHANGED <<declaration, waiting>>
           \/ /\ IsMutated(d) /\ waiting' = GetAstMutations(d)
              /\ mutating' = "perform" /\ UNCHANGED declaration
    BY <1>3 DEF HandleTopLevelDecl
  <2>2. /\ SizeInv' /\ TreeInv' /\ RecordsInv' /\ KnownInv'
        /\ \A i \in DOMAIN parsed.decls :
             AsParsed(i)' = AsParsed(i) /\ IsMutated(parsed.decls[i])' = IsMutated(parsed.decls[i])
    BY <2>1, PluginUnchanged
  <2>3. /\ declaration \in DOMAIN parsed.decls /\ declaration \in Nat \ {0}
        /\ \A i \in DOMAIN parsed.decls : i \in Nat
    BY <1>1, <2>1, UnitParsed DEF StageInv, SizeInv
  <2>4. StageInv'
    <3>1. CASE ~IsMutated(d) /\ declaration' = declaration + 1 /\ UNCHANGED <<waiting, mutating>>
      BY <1>1, <2>1, <2>2, <2>3, <3>1 DEF StageInv
    <3>2. CASE mutating' = "null" /\ UNCHANGED <<declaration, waiting>>
      BY <1>1, <2>1, <2>2, <2>3, <3>2 DEF StageInv
    <3>3. CASE IsMutated(d) /\ waiting' = GetAstMutations(d) /\ mutating' = "perform"
                 /\ UNCHANGED declaration
      <4>1. \A p \in GetAstMutations(d) : IsPointOf(p, declaration)
        BY <2>1, <2>3, <3>3, PointsFound
      <4>2. \A p : IsPointOf(p, declaration)' = IsPointOf(p, declaration)
        BY <2>1, <3>3, PointStays
      <4> HIDE DEF d
      <4>3. \A p \in waiting' : IsPointOf(p, declaration)'
        BY <3>3, <4>1, <4>2
      <4> QED BY <1>1, <2>1, <2>2, <2>3, <3>3, <4>3 DEF StageInv
    <3> QED BY <2>1, <3>1, <3>2, <3>3
  <2>5. StopsForThese'
    BY <2>1 DEF StopsForThese
  <2> QED BY <2>2, <2>4, <2>5 DEF PluginInv
<1>4. CASE PerformMutation
  BY <1>4, PluginReplaced
<1>5. CASE NextDecl
  <2>1. /\ UNCHANGED <<parsed, heap, records, known>> /\ mutating = "perform" /\ mutating' = "search"
        /\ waiting = {} /\ waiting' = {} /\ declaration' = declaration + 1
    BY <1>5 DEF NextDecl
  <2>2. /\ SizeInv' /\ TreeInv' /\ RecordsInv' /\ KnownInv'
        /\ \A i \in DOMAIN parsed.decls :
             AsParsed(i)' = AsParsed(i) /\ IsMutated(parsed.decls[i])' = IsMutated(parsed.decls[i])
    BY <2>1, PluginUnchanged
  <2>3. \A i \in DOMAIN parsed.decls : i \in Nat
    BY <1>1, UnitParsed DEF SizeInv
  <2>4. StageInv'
    BY <1>1, <2>1, <2>2, <2>3 DEF StageInv
  <2>5. StopsForThese'
    BY <2>1 DEF StopsForThese
  <2> QED BY <2>2, <2>4, <2>5 DEF PluginInv
<1>6. CASE HandleTranslationUnit
  <2>1. /\ UNCHANGED <<parsed, heap, records, known>> /\ mutating = "search" /\ mutating' = "done"
        /\ UNCHANGED <<declaration, waiting>> /\ declaration > Len(parsed.decls)
    BY <1>6 DEF HandleTranslationUnit
  <2>2. /\ SizeInv' /\ TreeInv' /\ RecordsInv' /\ KnownInv'
        /\ \A i \in DOMAIN parsed.decls :
             AsParsed(i)' = AsParsed(i) /\ IsMutated(parsed.decls[i])' = IsMutated(parsed.decls[i])
    BY <2>1, PluginUnchanged
  <2>3. StageInv'
    BY <1>1, <2>1, <2>2 DEF StageInv
  <2>4. StopsForThese'
    BY <2>1 DEF StopsForThese
  <2> QED BY <2>2, <2>3, <2>4 DEF PluginInv
<1>7. CASE UNCHANGED pluginVars
  <2>1. UNCHANGED <<parsed, heap, records, known, declaration, waiting, mutating>>
    BY <1>7 DEF pluginVars
  <2>2. /\ SizeInv' /\ TreeInv' /\ RecordsInv' /\ KnownInv'
        /\ \A i \in DOMAIN parsed.decls :
             AsParsed(i)' = AsParsed(i) /\ IsMutated(parsed.decls[i])' = IsMutated(parsed.decls[i])
    BY <2>1, PluginUnchanged
  <2>3. \A p \in waiting : IsPointOf(p, declaration)' = IsPointOf(p, declaration)
    BY <2>1, PointStays
  <2>4. StageInv'
    BY <1>1, <2>1, <2>2, <2>3 DEF StageInv
  <2>5. StopsForThese'
    BY <1>1, <2>1 DEF StopsForThese, Foremost, Before, HasPlace, HasParent, Parent
  <2> QED BY <2>2, <2>4, <2>5 DEF PluginInv
<1> QED BY <1>2, <1>3, <1>4, <1>5, <1>6, <1>7 DEF PluginNext

\* The heap stays a tree: whatever the plugin replaces, every parsed node has the
\* operands it had or conditions over them, every recorded mutant has its new
\* node and its condition, and only mutated declarations have changed.
THEOREM PluginInvariance == PluginSpec => []PluginInv
<1>1. PluginInit => PluginInv
  BY PluginBegins
<1>2. PluginInv /\ [PluginNext]_pluginVars => PluginInv'
  BY PluginPreserved
<1> QED BY <1>1, <1>2, PTL DEF PluginSpec

\* A number is even or odd.
LEMMA Halves ==
  ASSUME NEW r \in Nat, NEW x \in 1..(2 * r)
  PROVE  \E j \in 1..r : x = 2 * j - 1 \/ x = 2 * j
<1>1. (x + 1) \div 2 \in 1..r /\ (x = 2 * ((x + 1) \div 2) - 1 \/ x = 2 * ((x + 1) \div 2))
  OBVIOUS
<1> QED BY <1>1

\* Every node was parsed or belongs to a record.
LEMMA EveryNode ==
  ASSUME SizeInv, NEW n \in DOMAIN heap
  PROVE  n \in 1..Top \/ \E j \in DOMAIN records : n = NewAt(j) \/ n = CondAt(j)
<1>1. /\ Top \in Nat /\ Len(records) \in Nat /\ n \in 1..(Top + 2 * Len(records))
      /\ DOMAIN records = 1..Len(records)
  BY Sizes
<1>2. CASE n > Top
  <2>1. n - Top \in 1..(2 * Len(records))
    BY <1>1, <1>2
  <2>2. PICK j \in 1..Len(records) : n - Top = 2 * j - 1 \/ n - Top = 2 * j
    BY <1>1, <2>1, Halves
  <2> QED BY <1>1, <2>2 DEF NewAt, CondAt
<1>3. CASE ~(n > Top)
  BY <1>1, <1>3
<1> QED BY <1>2, <1>3

\* A record's nodes are not another's.
LEMMA RecordOf ==
  ASSUME SizeInv, NEW i \in DOMAIN records, NEW j \in DOMAIN records
  PROVE  NewAt(i) # CondAt(j) /\ (NewAt(i) = NewAt(j) => i = j) /\ (CondAt(i) = CondAt(j) => i = j)
<1>1. Top \in Nat /\ i \in Nat /\ j \in Nat
  BY Sizes
<1>2. 2 * i - 1 # 2 * j
  BY <1>1
<1>3. Top + 2 * i - 1 # Top + 2 * j
  BY <1>1, <1>2
<1>4. (Top + 2 * i - 1 = Top + 2 * j - 1 => i = j) /\ (Top + 2 * i = Top + 2 * j => i = j)
  BY <1>1
<1> QED BY <1>3, <1>4, Zenon DEF NewAt, CondAt

\* A depth of the nodes: conditions and new nodes come before the node they
\* replace, and after its parent.
DepthOf(n) ==
  IF n \in 1..Top THEN 3 * n
  ELSE IF \E j \in DOMAIN records : n = NewAt(j)
       THEN 3 * records[CHOOSE j \in DOMAIN records : n = NewAt(j)].target - 1
       ELSE 3 * records[CHOOSE j \in DOMAIN records : n = CondAt(j)].target - 2

Depth == [n \in DOMAIN heap |-> DepthOf(n)]

\* The depths.
LEMMA Depths ==
  ASSUME SizeInv
  PROVE  /\ \A n \in 1..Top : n \in DOMAIN heap /\ Depth[n] = 3 * n
         /\ \A j \in DOMAIN records :
              /\ NewAt(j) \in DOMAIN heap /\ Depth[NewAt(j)] = 3 * records[j].target - 1
              /\ CondAt(j) \in DOMAIN heap /\ Depth[CondAt(j)] = 3 * records[j].target - 2
<1>1. /\ Top \in Nat /\ Len(heap) \in Nat /\ DOMAIN heap = 1..Len(heap) /\ Len(heap) >= Top
  BY Sizes
<1>2. ASSUME NEW n \in 1..Top PROVE n \in DOMAIN heap /\ Depth[n] = 3 * n
  BY <1>1 DEF Depth, DepthOf
<1>3. ASSUME NEW j \in DOMAIN records
      PROVE  /\ NewAt(j) \in DOMAIN heap /\ Depth[NewAt(j)] = 3 * records[j].target - 1
             /\ CondAt(j) \in DOMAIN heap /\ Depth[CondAt(j)] = 3 * records[j].target - 2
  <2>1. /\ NewAt(j) \in DOMAIN heap /\ CondAt(j) \in DOMAIN heap
        /\ NewAt(j) \notin 1..Top /\ CondAt(j) \notin 1..Top
    BY <1>1, RecordPlaces
  <2>2. (CHOOSE i \in DOMAIN records : NewAt(j) = NewAt(i)) = j
    BY RecordOf
  <2>3. (CHOOSE i \in DOMAIN records : CondAt(j) = CondAt(i)) = j
    BY RecordOf
  <2>4. ~\E i \in DOMAIN records : CondAt(j) = NewAt(i)
    BY RecordOf
  <2>5. DepthOf(NewAt(j)) = 3 * records[j].target - 1
    BY <2>1, <2>2 DEF DepthOf
  <2>6. DepthOf(CondAt(j)) = 3 * records[j].target - 2
    BY <2>1, <2>3, <2>4 DEF DepthOf
  <2> QED BY <2>1, <2>5, <2>6 DEF Depth
<1> QED BY <1>2, <1>3

\* The point of a record.
LEMMA RecordFacts ==
  ASSUME PluginInv, NEW j \in DOMAIN records
  PROVE  LET p == records[j]
             y == parsed.heap[p.target]
         IN  /\ p.target \in 1..Top /\ p.target \in Nat
             /\ p.op = "" => 1 \in DOMAIN y.children
             /\ parsed.heap[Location(p)].where = "user"
             /\ \A i \in DOMAIN parsed.decls : p.target # parsed.decls[i].body
<1>1. parsed \in ParsedUnits /\ Top \in Nat
  BY UnitParsed DEF PluginInv, SizeInv
<1>2. PICK i \in DOMAIN parsed.decls : IsPointOf(records[j], i)
  BY DEF PluginInv, RecordsInv
<1>3. records[j].target \in 1..Top /\ records[j].target \in (parsed.decls[i].body + 1)..parsed.decls[i].last
  BY <1>1, <1>2, PointFacts
<1>4. ASSUME NEW k \in DOMAIN parsed.decls PROVE records[j].target # parsed.decls[k].body
  <2>1. CASE k = i
    BY <1>1, <1>3, <2>1, ParsedDecl
  <2>2. CASE k # i
    <3>1. parsed.decls[k].body \in parsed.decls[k].body..parsed.decls[k].last
      BY <1>1, ParsedDecl
    <3>2. records[j].target \in parsed.decls[i].body..parsed.decls[i].last
      BY <1>1, <1>3, ParsedDecl
    <3> QED BY <1>1, <2>2, <3>1, <3>2, Elsewhere
  <2> QED BY <2>1, <2>2
<1>5. /\ records[j].op = "" => 1 \in DOMAIN parsed.heap[records[j].target].children
      /\ parsed.heap[Location(records[j])].where = "user"
  BY <1>2 DEF IsPointOf
<1>6. records[j].target \in Nat
  BY <1>1, <1>3
<1> QED BY <1>3, <1>4, <1>5, <1>6, Zenon

\* What stands for a node is in the heap, no higher than the node's parent.
LEMMA StandsDeeper ==
  ASSUME PluginInv, NEW x, NEW c \in 1..Top, StandsFor(x, c)
  PROVE  x \in DOMAIN heap /\ Depth[x] \in Nat /\ Depth[x] >= 3 * c - 2
<1>1. SizeInv
  BY DEF PluginInv
<1>2. CASE x = c
  <2>1. x \in DOMAIN heap /\ Depth[x] = 3 * c
    BY <1>1, <1>2, Depths
  <2> QED BY <2>1
<1>3. ASSUME NEW j \in DOMAIN records, x = CondAt(j), records[j].target = c
      PROVE  x \in DOMAIN heap /\ Depth[x] \in Nat /\ Depth[x] >= 3 * c - 2
  <2>1. x \in DOMAIN heap /\ Depth[x] = 3 * c - 2
    BY <1>1, <1>3, Depths
  <2> QED BY <2>1
<1> QED BY <1>2, <1>3 DEF StandsFor

\* The nodes below n are in h, and are deeper.
Deeper(n) ==
  /\ Complete(heap, n) /\ Depth[n] \in Nat /\ Depth[n] <= 3 * Top
  /\ \A i \in DOMAIN heap[n].children : Depth[n] < Depth[heap[n].children[i]]

\* The heap has no circle: an expression never becomes its own operand.
LEMMA HeapDeepens ==
  ASSUME PluginInv
  PROVE  \A n \in DOMAIN heap : Deeper(n)
<1>1. SizeInv /\ TreeInv /\ RecordsInv /\ parsed \in ParsedUnits /\ Top \in Nat
  BY UnitParsed DEF PluginInv, SizeInv
<1>2. ASSUME NEW n \in 1..Top PROVE Deeper(n)
  <2> DEFINE y == parsed.heap[n]
  <2>1. /\ heap[n].kind = y.kind /\ y.kind \notin {"cond", "condstmt", "operand"}
        /\ DOMAIN heap[n].children = DOMAIN y.children
        /\ \A i \in DOMAIN y.children :
             StandsFor(heap[n].children[i], y.children[i]) /\ y.children[i] \in (n + 1)..Top
    BY <1>1, <1>2, CurrentNode, ParsedNode
  <2>2. Depth[n] = 3 * n
    BY <1>1, Depths
  <2> HIDE DEF y
  <2>3. ASSUME NEW i \in DOMAIN heap[n].children
        PROVE  heap[n].children[i] \in DOMAIN heap /\ Depth[n] < Depth[heap[n].children[i]]
    <3>1. PICK c \in (n + 1)..Top : StandsFor(heap[n].children[i], c)
      BY <2>1
    <3>2. c \in 1..Top /\ 3 * c - 2 > 3 * n
      BY <1>1
    <3>3. heap[n].children[i] \in DOMAIN heap /\ Depth[heap[n].children[i]] \in Nat
          /\ Depth[heap[n].children[i]] >= 3 * c - 2
      BY <3>1, <3>2, StandsDeeper
    <3> QED BY <1>1, <2>2, <3>2, <3>3
  <2>4. Complete(heap, n)
    BY <2>1, <2>3 DEF Complete
  <2> QED BY <1>1, <2>2, <2>3, <2>4 DEF Deeper
<1>3. ASSUME NEW j \in DOMAIN records PROVE Deeper(NewAt(j)) /\ Deeper(CondAt(j))
  <2>0. PICK t \in 1..Top : t = records[j].target
    BY <1>3, RecordFacts
  <2> DEFINE p == records[j]
             y == parsed.heap[t]
             new == NewAt(j)
             cond == CondAt(j)
  <2>1. t \in Nat /\ t <= Top
    BY <1>1, <2>0
  <2>2. p.op = "" => 1 \in DOMAIN y.children
    BY <1>3, <2>0, RecordFacts
  <2>3. /\ new \in DOMAIN heap /\ Depth[new] = 3 * t - 1 /\ cond \in DOMAIN heap /\ Depth[cond] = 3 * t - 2
        /\ t \in DOMAIN heap /\ Depth[t] = 3 * t
    BY <1>1, <2>0, Depths
  <2>4. NewRight(j) /\ CondRight(j)
    BY <1>1 DEF TreeInv
  <2>5. y.kind \notin {"cond", "condstmt", "operand"} /\ \A i \in DOMAIN y.children : y.children[i] \in (t + 1)..Top
    BY <1>1, <2>1, ParsedNode
  <2>6. \/ p.op = "" /\ heap[new].kind = "operand" /\ AllStandFor(heap[new].children, y.children)
        \/ heap[new].kind = "leaf" /\ heap[new].children = <<>>
        \/ heap[new].kind = y.kind /\ AllStandFor(heap[new].children, y.children)
    BY <2>0, <2>4 DEF NewRight
  <2>7. heap[cond].kind \in {"cond", "condstmt"} /\ heap[cond].children = <<new, t>>
    BY <2>0, <2>4 DEF CondRight, IsCondition
  <2> HIDE DEF y, new, cond
  <2>8. ASSUME AllStandFor(heap[new].children, y.children), NEW i \in DOMAIN heap[new].children
        PROVE  heap[new].children[i] \in DOMAIN heap /\ Depth[new] < Depth[heap[new].children[i]]
    <3>1. PICK c \in (t + 1)..Top : StandsFor(heap[new].children[i], c)
      BY <2>5, <2>8 DEF AllStandFor
    <3>2. c \in 1..Top /\ 3 * c - 2 > 3 * t - 1
      BY <1>1, <2>1
    <3>3. heap[new].children[i] \in DOMAIN heap /\ Depth[heap[new].children[i]] \in Nat
          /\ Depth[heap[new].children[i]] >= 3 * c - 2
      BY <3>1, <3>2, StandsDeeper
    <3> QED BY <1>1, <2>1, <2>3, <3>2, <3>3
  <2>9. Complete(heap, new)
    <3>1. CASE p.op = "" /\ heap[new].kind = "operand" /\ AllStandFor(heap[new].children, y.children)
      <4>1. 1 \in DOMAIN heap[new].children
        BY <2>2, <3>1 DEF AllStandFor
      <4> QED BY <2>8, <3>1, <4>1 DEF Complete
    <3>2. CASE heap[new].kind = "leaf" /\ heap[new].children = <<>>
      BY <3>2 DEF Complete
    <3>3. CASE heap[new].kind = y.kind /\ AllStandFor(heap[new].children, y.children)
      BY <2>5, <2>8, <3>3 DEF Complete
    <3> QED BY <2>6, <3>1, <3>2, <3>3
  <2>10. \A i \in DOMAIN heap[new].children : Depth[new] < Depth[heap[new].children[i]]
    <3>1. CASE heap[new].children = <<>>
      BY <3>1
    <3>2. CASE AllStandFor(heap[new].children, y.children)
      BY <2>8, <3>2
    <3> QED BY <2>6, <3>1, <3>2
  <2>11. Depth[new] \in Nat /\ Depth[new] <= 3 * Top /\ Depth[cond] \in Nat /\ Depth[cond] <= 3 * Top
    BY <1>1, <2>1, <2>3
  <2>12. Complete(heap, cond)
    BY <2>3, <2>7 DEF Complete
  <2>13. \A i \in DOMAIN heap[cond].children : Depth[cond] < Depth[heap[cond].children[i]]
    <3>1. \A i \in DOMAIN heap[cond].children : heap[cond].children[i] \in {new, t}
      BY <2>7
    <3>2. Depth[cond] < Depth[new] /\ Depth[cond] < Depth[t]
      BY <2>1, <2>3
    <3> QED BY <3>1, <3>2
  <2> QED BY <2>9, <2>10, <2>11, <2>12, <2>13 DEF Deeper, new, cond
<1> QED BY <1>1, <1>2, <1>3, EveryNode

\* Every node of the heap has a meaning.
LEMMA HeapMeaning ==
  ASSUME PluginInv, NEW env
  PROVE  \A n \in DOMAIN heap : Meaning(heap, env)[n] = Value(heap, env, Meaning(heap, env), n)
<1>1. 3 * Top \in Nat
  BY UnitParsed DEF PluginInv, SizeInv
<1>2. \A n \in DOMAIN heap :
        /\ Complete(heap, n) /\ Depth[n] \in Nat /\ Depth[n] <= 3 * Top
        /\ \A i \in DOMAIN heap[n].children : Depth[n] < Depth[heap[n].children[i]]
  BY HeapDeepens DEF Deeper
<1> QED BY <1>1, <1>2, MeaningEquation, Zenon

\* A node with operator op over the nodes cs, whose meanings are in G.
Over(op, cs, G) == <<op, [i \in DOMAIN cs |-> G[cs[i]]]>>

\* What a record's mutant should mean when G has the meanings of the parsed nodes.
Replaced(p, G) ==
  LET y == parsed.heap[p.target]
  IN  CASE p.op = ""                  -> G[y.children[1]]
        [] p.op \in {"42", "nothing"} -> Over(p.op, <<>>, G)
        [] OTHER                      -> Over(p.op, y.children, G)

\* G is a meaning of the parsed nodes but those in T, which mutants in env replace
\* in their places.
Valuation(env, T, G) ==
  /\ \A n \in (1..Top) \ T : G[n] = Over(parsed.heap[n].op, parsed.heap[n].children, G)
  /\ \A n \in T :
       /\ n \in 1..Top /\ HasPlace(n) /\ \E j \in DOMAIN records : records[j].target = n
       /\ \A i \in DOMAIN parsed.heap[n].children : parsed.heap[n].children[i] \notin T
  /\ \A j \in DOMAIN records :
       /\ HasPlace(records[j].target) => (Id(records[j]) \in env <=> records[j].target \in T)
       /\ records[j].target \in T => G[records[j].target] = Replaced(records[j], G)

\* The value of a node that is neither a condition nor a replacement by an operand.
LEMMA ValueOver ==
  ASSUME NEW h, NEW env, NEW M, NEW n, h[n].kind \notin {"cond", "condstmt", "operand"}
  PROVE  Value(h, env, M, n) = Over(h[n].op, h[n].children, M)
BY DEF Value, Over

\* Operands with the same meanings.
LEMMA OverSame ==
  ASSUME NEW op, NEW xs, NEW cs, NEW M, NEW G, DOMAIN xs = DOMAIN cs,
         \A i \in DOMAIN cs : M[xs[i]] = G[cs[i]]
  PROVE  Over(op, xs, M) = Over(op, cs, G)
<1>1. [i \in DOMAIN xs |-> M[xs[i]]] = [i \in DOMAIN cs |-> G[cs[i]]]
  OBVIOUS
<1> QED BY <1>1 DEF Over

\* Whatever was replaced where, the nodes mean what a valuation says they should.
LEMMA HeapValuation ==
  ASSUME PluginInv, NEW env, NEW T, NEW G, Valuation(env, T, G)
  PROVE  \A n \in (1..Top) \ T : Meaning(heap, env)[n] = G[n]
<1> DEFINE M == Meaning(heap, env)
           IsBad(n) == \/ n \in (1..Top) \ T /\ M[n] # G[n]
                       \/ \E j \in DOMAIN records :
                            /\ n = NewAt(j) /\ records[j].target \in T
                            /\ M[n] # G[records[j].target]
                       \/ \E j \in DOMAIN records :
                            /\ n = CondAt(j) /\ HasPlace(records[j].target)
                            /\ M[n] # G[records[j].target]
           Bad == {n \in DOMAIN heap : IsBad(n)}
<1>1. SizeInv /\ TreeInv /\ RecordsInv /\ parsed \in ParsedUnits /\ Top \in Nat
  BY UnitParsed DEF PluginInv, SizeInv
<1>2. ASSUME NEW n \in DOMAIN heap
      PROVE  M[n] = Value(heap, env, M, n) /\ \A i \in DOMAIN heap[n].children : heap[n].children[i] \in DOMAIN heap
  <2>1. M[n] = Value(heap, env, M, n)
    BY HeapMeaning
  <2>2. Complete(heap, n)
    BY HeapDeepens DEF Deeper
  <2> HIDE DEF M
  <2> QED BY <2>1, <2>2 DEF Complete
<1> HIDE DEF M
<1>3. ASSUME NEW xs, NEW cs, AllStandFor(xs, cs),
             \A i \in DOMAIN cs : cs[i] \in 1..Top /\ (xs[i] = cs[i] => cs[i] \notin T),
             \A i \in DOMAIN xs : xs[i] \in DOMAIN heap /\ xs[i] \notin Bad
      PROVE  DOMAIN xs = DOMAIN cs /\ \A i \in DOMAIN cs : M[xs[i]] = G[cs[i]]
  <2>1. ASSUME NEW i \in DOMAIN cs PROVE M[xs[i]] = G[cs[i]]
    <3>1. i \in DOMAIN xs /\ xs[i] \in DOMAIN heap /\ ~IsBad(xs[i]) /\ StandsFor(xs[i], cs[i])
      BY <1>3 DEF AllStandFor
    <3>2. CASE xs[i] = cs[i]
      BY <1>3, <3>1, <3>2
    <3>3. ASSUME HasPlace(cs[i]), NEW j \in DOMAIN records, xs[i] = CondAt(j), records[j].target = cs[i]
          PROVE  M[xs[i]] = G[cs[i]]
      BY <3>1, <3>3
    <3> QED BY <3>1, <3>2, <3>3 DEF StandsFor
  <2> QED BY <1>3, <2>1 DEF AllStandFor
<1>4. ASSUME NEW n \in DOMAIN heap, \A i \in DOMAIN heap[n].children : heap[n].children[i] \notin Bad
      PROVE  ~IsBad(n)
  <2>1. ASSUME n \in (1..Top) \ T PROVE M[n] = G[n]
    <3> DEFINE y == parsed.heap[n]
    <3>1. /\ heap[n].kind = y.kind /\ y.kind \notin {"cond", "condstmt", "operand"} /\ heap[n].op = y.op
          /\ AllStandFor(heap[n].children, y.children)
          /\ \A i \in DOMAIN y.children : y.children[i] \in (n + 1)..Top
          /\ \A i \in DOMAIN y.children, j \in DOMAIN records :
               records[j].target = y.children[i] /\ HasPlace(y.children[i]) =>
                 heap[n].children[i] # y.children[i]
      BY <1>1, <2>1, CurrentNode, ParsedNode DEF AllStandFor
    <3>2. G[n] = Over(y.op, y.children, G)
      BY <2>1 DEF Valuation
    <3> HIDE DEF y, Bad
    <3>3. ASSUME NEW i \in DOMAIN y.children
          PROVE  y.children[i] \in 1..Top /\ (heap[n].children[i] = y.children[i] => y.children[i] \notin T)
      <4>1. y.children[i] \in 1..Top
        BY <1>1, <2>1, <3>1
      <4>2. y.children[i] \in T =>
              HasPlace(y.children[i]) /\ \E j \in DOMAIN records : records[j].target = y.children[i]
        BY DEF Valuation
      <4> QED BY <3>1, <4>1, <4>2
    <3>4. DOMAIN heap[n].children = DOMAIN y.children
          /\ \A i \in DOMAIN y.children : M[heap[n].children[i]] = G[y.children[i]]
      BY <1>2, <1>3, <1>4, <3>1, <3>3
    <3>5. Over(y.op, heap[n].children, M) = Over(y.op, y.children, G)
      BY <3>4, OverSame
    <3>6. M[n] = Over(y.op, heap[n].children, M)
      BY <1>2, <3>1, ValueOver
    <3> QED BY <3>2, <3>5, <3>6
  <2>2. ASSUME NEW j \in DOMAIN records, n = NewAt(j), records[j].target \in T
        PROVE  M[n] = G[records[j].target]
    <3>0. PICK t \in 1..Top : t = records[j].target
      BY RecordFacts
    <3> DEFINE p == records[j]
               y == parsed.heap[t]
    <3>1. NewRight(j) /\ G[t] = Replaced(p, G) /\ t \in T
      BY <1>1, <2>2, <3>0 DEF TreeInv, Valuation
    <3>2. \A i \in DOMAIN y.children : y.children[i] \in 1..Top /\ y.children[i] \notin T
      <4>1. \A i \in DOMAIN y.children : y.children[i] \in (t + 1)..Top
        BY <1>1, ParsedNode
      <4>2. \A i \in DOMAIN y.children : y.children[i] \notin T
        BY <3>1 DEF Valuation
      <4> HIDE DEF y
      <4> QED BY <4>1, <4>2
    <3>3. y.kind \notin {"cond", "condstmt", "operand"}
      BY <1>1, ParsedNode
    <3>4. /\ p.op = "" => heap[n].kind = "operand" /\ AllStandFor(heap[n].children, y.children)
          /\ p.op \in {"42", "nothing"} =>
               heap[n].kind = "leaf" /\ heap[n].op = p.op /\ heap[n].children = <<>>
          /\ p.op \notin {"", "42", "nothing"} =>
               heap[n].kind = y.kind /\ heap[n].op = p.op /\ AllStandFor(heap[n].children, y.children)
      BY <2>2, <3>0, <3>1 DEF NewRight
    <3>5. p.op = "" => 1 \in DOMAIN y.children
      BY <2>2, <3>0, RecordFacts
    <3>6. /\ p.op = "" => G[t] = G[y.children[1]]
          /\ p.op \in {"42", "nothing"} => G[t] = Over(p.op, <<>>, G)
          /\ p.op \notin {"", "42", "nothing"} => G[t] = Over(p.op, y.children, G)
      BY <3>0, <3>1 DEF Replaced
    <3> HIDE DEF y, Bad, p
    <3>7. ASSUME AllStandFor(heap[n].children, y.children)
          PROVE  DOMAIN heap[n].children = DOMAIN y.children
                 /\ \A i \in DOMAIN y.children : M[heap[n].children[i]] = G[y.children[i]]
      BY <1>2, <1>3, <1>4, <3>2, <3>7
    <3>8. CASE p.op = ""
      <4>1. heap[n].kind = "operand" /\ AllStandFor(heap[n].children, y.children)
        BY <3>4, <3>8
      <4>2. M[n] = M[heap[n].children[1]]
        BY <1>2, <4>1 DEF Value
      <4> QED BY <3>0, <3>5, <3>6, <3>7, <3>8, <4>1, <4>2
    <3>9. CASE p.op \in {"42", "nothing"}
      <4>1. heap[n].kind = "leaf" /\ heap[n].op = p.op /\ heap[n].children = <<>>
        BY <3>4, <3>9
      <4>2. M[n] = Over(p.op, heap[n].children, M)
        BY <1>2, <4>1, ValueOver
      <4>3. Over(p.op, <<>>, M) = Over(p.op, <<>>, G)
        <5>1. \A i \in DOMAIN <<>> : M[<<>>[i]] = G[<<>>[i]]
          OBVIOUS
        <5> QED BY <5>1, OverSame
      <4>4. heap[n].children = <<>> /\ G[t] = Over(p.op, <<>>, G)
        BY <3>6, <3>9, <4>1
      <4> QED BY <3>0, <4>2, <4>3, <4>4 DEF p
    <3>10. CASE p.op \notin {"", "42", "nothing"}
      <4>1. heap[n].kind = y.kind /\ heap[n].op = p.op /\ AllStandFor(heap[n].children, y.children)
        BY <3>4, <3>10
      <4>2. M[n] = Over(p.op, heap[n].children, M)
        BY <1>2, <3>3, <4>1, ValueOver
      <4>3. Over(p.op, heap[n].children, M) = Over(p.op, y.children, G)
        BY <3>7, <4>1, OverSame
      <4>4. G[t] = Over(p.op, y.children, G)
        BY <3>6, <3>10
      <4> QED BY <3>0, <4>2, <4>3, <4>4 DEF p
    <3> QED BY <3>8, <3>9, <3>10
  <2>3. ASSUME NEW j \in DOMAIN records, n = CondAt(j), HasPlace(records[j].target)
        PROVE  M[n] = G[records[j].target]
    <3>0. PICK t \in 1..Top : t = records[j].target
      BY RecordFacts
    <3>1. /\ heap[n].kind \in {"cond", "condstmt"} /\ heap[n].op = Id(records[j])
          /\ heap[n].children = <<NewAt(j), t>>
      BY <1>1, <2>3, <3>0 DEF TreeInv, CondRight, IsCondition
    <3>2. NewAt(j) \in DOMAIN heap /\ t \in DOMAIN heap
      BY <1>1, Depths
    <3>3. Id(records[j]) \in env <=> t \in T
      BY <2>3, <3>0 DEF Valuation
    <3>4. /\ 1 \in DOMAIN heap[n].children /\ heap[n].children[1] = NewAt(j)
          /\ 2 \in DOMAIN heap[n].children /\ heap[n].children[2] = t
      BY <3>1
    <3>5. ~IsBad(NewAt(j)) /\ ~IsBad(t)
      BY <1>4, <3>2, <3>4
    <3>6. M[n] = M[heap[n].children[IF Id(records[j]) \in env THEN 1 ELSE 2]]
      BY <1>2, <3>1 DEF Value
    <3>7. CASE t \in T
      <4>1. M[n] = M[NewAt(j)]
        BY <3>3, <3>4, <3>6, <3>7
      <4> QED BY <3>0, <3>5, <3>7, <4>1
    <3>8. CASE t \notin T
      <4>1. M[n] = M[t]
        BY <3>3, <3>4, <3>6, <3>8
      <4> QED BY <3>0, <3>5, <3>8, <4>1
    <3> QED BY <3>7, <3>8
  <2> QED BY <2>1, <2>2, <2>3
<1> HIDE DEF IsBad
<1>5. Bad \subseteq DOMAIN heap /\ \A n \in Bad : \E i \in DOMAIN heap[n].children : heap[n].children[i] \in Bad
  BY <1>4
<1> HIDE DEF Bad
<1>6. Bad = {}
  <2>1. \A n \in DOMAIN heap : Depth[n] \in Nat /\ Depth[n] <= 3 * Top
    BY HeapDeepens DEF Deeper
  <2>2. \A n \in Bad : \E m \in Bad : Depth[n] < Depth[m]
    <3>1. \A n \in DOMAIN heap : \A i \in DOMAIN heap[n].children : Depth[n] < Depth[heap[n].children[i]]
      BY HeapDeepens DEF Deeper
    <3> QED BY <1>5, <3>1
  <2>3. 3 * Top \in Nat
    BY <1>1
  <2> QED BY <1>5, <2>1, <2>2, <2>3, NothingLast
<1>7. \A n \in 1..Top : n \in DOMAIN heap
  BY <1>1, Depths
<1> QED BY <1>6, <1>7 DEF Bad, IsBad, M

\* A heap like the parsed one in its size, whose nodes are above their operands
\* and are no conditions, has a meaning.
LEMMA TreeMeaning ==
  ASSUME NEW h, NEW top \in Nat, DOMAIN h = 1..top, NEW env,
         \A n \in 1..top :
           /\ h[n].kind \notin {"cond", "condstmt"}
           /\ h[n].kind = "operand" => 1 \in DOMAIN h[n].children
           /\ \A i \in DOMAIN h[n].children : h[n].children[i] \in (n + 1)..top
  PROVE  \A n \in 1..top : Meaning(h, env)[n] = Value(h, env, Meaning(h, env), n)
<1> DEFINE place == [n \in 1..top |-> n]
<1>1. \A n \in 1..top : \A i \in DOMAIN h[n].children :
        h[n].children[i] \in 1..top /\ h[n].children[i] > n
  OBVIOUS
<1>2. \A n \in 1..top : place[n] = n /\ n \in Nat /\ n <= top
  OBVIOUS
<1> HIDE DEF place
<1>3. ASSUME NEW n \in DOMAIN h
      PROVE  /\ Complete(h, n) /\ place[n] \in Nat /\ place[n] <= top
             /\ \A i \in DOMAIN h[n].children : place[n] < place[h[n].children[i]]
  <2>1. Complete(h, n)
    BY <1>1 DEF Complete
  <2>2. \A i \in DOMAIN h[n].children : place[n] < place[h[n].children[i]]
    BY <1>1, <1>2
  <2> QED BY <1>2, <2>1, <2>2
<1>4. \A n \in DOMAIN h : Meaning(h, env)[n] = Value(h, env, Meaning(h, env), n)
  BY <1>3, MeaningEquation, Zenon
<1> QED BY <1>4

\* The parsed tree has a meaning.
LEMMA ParsedMeaning ==
  ASSUME parsed \in ParsedUnits, NEW env
  PROVE  \A n \in 1..Top : Meaning(parsed.heap, env)[n] =
           Over(parsed.heap[n].op, parsed.heap[n].children, Meaning(parsed.heap, env))
<1>1. Top \in Nat /\ DOMAIN parsed.heap = 1..Top
  BY UnitParsed
<1>2. \A n \in 1..Top :
        /\ parsed.heap[n].kind \notin {"cond", "condstmt", "operand"}
        /\ \A i \in DOMAIN parsed.heap[n].children : parsed.heap[n].children[i] \in (n + 1)..Top
  BY ParsedNode
<1> DEFINE h == parsed.heap
           top == Top
<1>3. top \in Nat /\ DOMAIN h = 1..top
  BY <1>1
<1>4. \A n \in 1..top :
        /\ h[n].kind \notin {"cond", "condstmt", "operand"}
        /\ \A i \in DOMAIN h[n].children : h[n].children[i] \in (n + 1)..top
  BY <1>2
<1> HIDE DEF h, top
<1>5. \A n \in 1..top : Meaning(h, env)[n] = Over(h[n].op, h[n].children, Meaning(h, env))
  BY <1>3, <1>4, TreeMeaning, ValueOver
<1> QED BY <1>5 DEF h, top

\* Node x is what should be in place of node y.
IsInstead(x, y, op) ==
  /\ op = "" => x.kind = "operand" /\ x.children = y.children
  /\ op \in {"42", "nothing"} => x.kind = y.kind /\ x.op = op /\ x.children = <<>>
  /\ op \notin {"", "42", "nothing"} => x.kind = y.kind /\ x.op = op /\ x.children = y.children

LEMMA InsteadFacts ==
  ASSUME NEW y, IsNode(y), NEW op
  PROVE  IsInstead(Instead(y, op), y, op)
<1>1. DOMAIN y = {"kind", "op", "type", "where", "spot", "children"}
  BY DEF IsNode
<1>2. CASE op = ""
  <2>1. Instead(y, op) = [y EXCEPT !.kind = "operand"]
    BY <1>2 DEF Instead
  <2> QED BY <1>1, <1>2, <2>1 DEF IsInstead
<1>3. CASE op \in {"42", "nothing"}
  <2>1. Instead(y, op) = [y EXCEPT !.op = op, !.children = <<>>]
    BY <1>3 DEF Instead
  <2> QED BY <1>1, <1>3, <2>1 DEF IsInstead
<1>4. CASE op \notin {"", "42", "nothing"}
  <2>1. Instead(y, op) = [y EXCEPT !.op = op]
    BY <1>4 DEF Instead
  <2> QED BY <1>1, <1>4, <2>1 DEF IsInstead
<1> QED BY <1>2, <1>3, <1>4

\* The nodes of the tree that recorded points are meant to make, when no node is
\* replaced twice.
LEMMA IntendedNodes ==
  ASSUME PluginInv, NEW P, \A p \in P : \E j \in DOMAIN records : p = records[j], Separate(P)
  PROVE  /\ DOMAIN Intended(P) = 1..Top
         /\ \A n \in 1..Top : (\A p \in P : p.target # n) => Intended(P)[n] = parsed.heap[n]
         /\ \A p \in P : Intended(P)[p.target] = Instead(parsed.heap[p.target], p.op)
<1> DEFINE Here(n) == {p \in P : p.target = n}
<1>1. DOMAIN parsed.heap = 1..Top
  BY UnitParsed DEF PluginInv, SizeInv
<1>2. DOMAIN Intended(P) = 1..Top
  BY <1>1 DEF Intended
<1>3. ASSUME NEW n \in 1..Top
      PROVE  Intended(P)[n] = IF Here(n) = {} THEN parsed.heap[n]
                              ELSE Instead(parsed.heap[n], (CHOOSE p \in Here(n) : TRUE).op)
  BY <1>1, <1>3 DEF Intended
<1>4. ASSUME NEW p \in P PROVE Intended(P)[p.target] = Instead(parsed.heap[p.target], p.op)
  <2>1. p.target \in 1..Top
    BY RecordFacts
  <2>2. ASSUME NEW q \in Here(p.target) PROVE q = p
    <3>1. PICK j \in DOMAIN records : p = records[j]
      OBVIOUS
    <3>2. PICK k \in DOMAIN records : q = records[k]
      OBVIOUS
    <3>3. j = k
      BY <3>1, <3>2 DEF Separate
    <3> QED BY <3>1, <3>2, <3>3
  <2>3. p \in Here(p.target)
    OBVIOUS
  <2>4. (CHOOSE q \in Here(p.target) : TRUE) = p
    <3> DEFINE H == Here(p.target)
    <3>1. p \in H /\ \A q \in H : q = p
      BY <2>2, <2>3
    <3> HIDE DEF H
    <3> QED BY <3>1
  <2>5. Here(p.target) # {}
    BY <2>3
  <2> HIDE DEF Here
  <2> QED BY <1>3, <2>1, <2>4, <2>5
<1>5. ASSUME NEW n \in 1..Top, \A p \in P : p.target # n PROVE Intended(P)[n] = parsed.heap[n]
  <2>1. Here(n) = {}
    BY <1>5
  <2> HIDE DEF Here
  <2> QED BY <1>3, <2>1
<1> QED BY <1>2, <1>4, <1>5

\* That tree has a meaning: that of the parsed nodes but for those that are
\* replaced.
LEMMA IntendedMeaning ==
  ASSUME PluginInv, NEW P, \A p \in P : \E j \in DOMAIN records : p = records[j], Separate(P)
  PROVE  LET G == Meaning(Intended(P), {})
         IN  /\ \A n \in (1..Top) \ {p.target : p \in P} :
                  G[n] = Over(parsed.heap[n].op, parsed.heap[n].children, G)
             /\ \A p \in P : G[p.target] = Replaced(p, G)
<1> DEFINE h == Intended(P)
           G == Meaning(h, {})
           top == Top
<1>1. parsed \in ParsedUnits /\ Top \in Nat
  BY UnitParsed DEF PluginInv, SizeInv
<1>2. /\ DOMAIN h = 1..Top
      /\ \A n \in 1..Top : (\A p \in P : p.target # n) => h[n] = parsed.heap[n]
      /\ \A p \in P : h[p.target] = Instead(parsed.heap[p.target], p.op)
  BY IntendedNodes
<1>3. ASSUME NEW p \in P
      PROVE  /\ p.target \in 1..Top /\ (p.op = "" => 1 \in DOMAIN parsed.heap[p.target].children)
             /\ parsed.heap[p.target].kind \notin {"cond", "condstmt", "operand"}
             /\ \A i \in DOMAIN parsed.heap[p.target].children :
                  parsed.heap[p.target].children[i] \in (p.target + 1)..Top
             /\ IsInstead(h[p.target], parsed.heap[p.target], p.op)
  <2>1. p.target \in 1..Top /\ (p.op = "" => 1 \in DOMAIN parsed.heap[p.target].children)
    BY RecordFacts
  <2>2. /\ IsNode(parsed.heap[p.target]) /\ parsed.heap[p.target].kind \notin {"cond", "condstmt", "operand"}
        /\ \A i \in DOMAIN parsed.heap[p.target].children :
             parsed.heap[p.target].children[i] \in (p.target + 1)..Top
    BY <1>1, <2>1, ParsedNode
  <2>3. h[p.target] = Instead(parsed.heap[p.target], p.op)
    BY <1>2
  <2> HIDE DEF h
  <2> QED BY <2>1, <2>2, <2>3, InsteadFacts
<1> HIDE DEF h
<1>4. ASSUME NEW n \in 1..Top
      PROVE  /\ h[n].kind \notin {"cond", "condstmt"}
             /\ h[n].kind = "operand" => 1 \in DOMAIN h[n].children
             /\ \A i \in DOMAIN h[n].children : h[n].children[i] \in (n + 1)..Top
  <2>1. CASE \A p \in P : p.target # n
    <3>1. h[n] = parsed.heap[n]
      BY <1>2, <2>1
    <3> QED BY <1>1, <3>1, ParsedNode
  <2>2. ASSUME NEW p \in P, p.target = n
        PROVE  /\ h[n].kind \notin {"cond", "condstmt"}
               /\ h[n].kind = "operand" => 1 \in DOMAIN h[n].children
               /\ \A i \in DOMAIN h[n].children : h[n].children[i] \in (n + 1)..Top
    <3>1. CASE p.op = ""
      BY <1>3, <2>2, <3>1 DEF IsInstead
    <3>2. CASE p.op \in {"42", "nothing"}
      <4>1. h[n].kind = parsed.heap[n].kind /\ h[n].children = <<>>
        BY <1>3, <2>2, <3>2 DEF IsInstead
      <4>2. parsed.heap[n].kind \notin {"cond", "condstmt", "operand"}
        BY <1>3, <2>2
      <4> QED BY <4>1, <4>2
    <3>3. CASE p.op \notin {"", "42", "nothing"}
      BY <1>3, <2>2, <3>3 DEF IsInstead
    <3> QED BY <3>1, <3>2, <3>3
  <2> QED BY <2>1, <2>2
<1>5. \A n \in 1..Top : G[n] = Value(h, {}, G, n)
  <2>1. top \in Nat /\ DOMAIN h = 1..top
    BY <1>1, <1>2
  <2>2. \A n \in 1..top :
          /\ h[n].kind \notin {"cond", "condstmt"}
          /\ h[n].kind = "operand" => 1 \in DOMAIN h[n].children
          /\ \A i \in DOMAIN h[n].children : h[n].children[i] \in (n + 1)..top
    BY <1>4
  <2> HIDE DEF top
  <2>3. \A n \in 1..top : G[n] = Value(h, {}, G, n)
    BY <2>1, <2>2, TreeMeaning
  <2> QED BY <2>3 DEF top
<1> HIDE DEF G
<1>6. ASSUME NEW n \in (1..Top) \ {p.target : p \in P}
      PROVE  G[n] = Over(parsed.heap[n].op, parsed.heap[n].children, G)
  <2>1. h[n] = parsed.heap[n]
    BY <1>2, <1>6
  <2>2. h[n].kind \notin {"cond", "condstmt", "operand"}
    BY <1>1, <1>6, <2>1, ParsedNode
  <2> QED BY <1>5, <1>6, <2>1, <2>2, ValueOver
<1>7. ASSUME NEW p \in P PROVE G[p.target] = Replaced(p, G)
  <2>1. G[p.target] = Value(h, {}, G, p.target)
    BY <1>3, <1>5
  <2>2. CASE p.op = ""
    <3>1. Value(h, {}, G, p.target) = G[parsed.heap[p.target].children[1]]
      BY <1>3, <2>2 DEF Value, IsInstead
    <3> QED BY <2>1, <2>2, <3>1 DEF Replaced
  <2>3. CASE p.op \in {"42", "nothing"}
    <3>1. /\ h[p.target].kind \notin {"cond", "condstmt", "operand"}
          /\ h[p.target].op = p.op /\ h[p.target].children = <<>>
      BY <1>3, <2>3 DEF IsInstead
    <3>2. Value(h, {}, G, p.target) = Over(p.op, <<>>, G)
      BY <3>1, ValueOver
    <3> QED BY <2>1, <2>3, <3>2 DEF Replaced
  <2>4. CASE p.op \notin {"", "42", "nothing"}
    <3>1. /\ h[p.target].kind \notin {"cond", "condstmt", "operand"}
          /\ h[p.target].op = p.op /\ h[p.target].children = parsed.heap[p.target].children
      BY <1>3, <2>4 DEF IsInstead
    <3>2. Value(h, {}, G, p.target) = Over(p.op, parsed.heap[p.target].children, G)
      BY <3>1, ValueOver
    <3> QED BY <2>1, <2>4, <3>2 DEF Replaced
  <2> QED BY <2>2, <2>3, <2>4
<1> QED BY <1>6, <1>7 DEF G, h

\* With no mutant enabled the nodes mean what they meant when they were parsed.
LEMMA NothingEnabled ==
  ASSUME PluginInv
  PROVE  Computes(parsed.heap, {})
<1> DEFINE G == Meaning(parsed.heap, {})
           env == {}
           T == {}
<1>1. parsed \in ParsedUnits
  BY DEF PluginInv, SizeInv
<1>2. \A n \in 1..Top : G[n] = Over(parsed.heap[n].op, parsed.heap[n].children, G)
  BY <1>1, ParsedMeaning
<1>3. Valuation(env, T, G)
  <2> HIDE DEF G
  <2> QED BY <1>2 DEF Valuation
<1> HIDE DEF G
<1>4. \A n \in (1..Top) \ T : Meaning(heap, env)[n] = G[n]
  <2> HIDE DEF T, env
  <2> QED BY <1>3, HeapValuation
<1>5. \A i \in DOMAIN parsed.decls : parsed.decls[i].body \in 1..Top
  BY <1>1, ParsedDecl
<1> QED BY <1>4, <1>5 DEF Computes, G

\* With one identifier enabled they mean what they do in the tree that its points
\* are meant to make.
LEMMA OneEnabled ==
  ASSUME PluginInv, NEW k \in DOMAIN records, Separate(EnabledWith(k))
  PROVE  Computes(Intended(EnabledWith(k)), {Id(records[k])})
<1> DEFINE P == EnabledWith(k)
           G == Meaning(Intended(P), {})
           env == {Id(records[k])}
           T == {p.target : p \in P}
<1>1. parsed \in ParsedUnits /\ Top \in Nat
  BY UnitParsed DEF PluginInv, SizeInv
<1>2. /\ \A p \in P : \E j \in DOMAIN records :
           p = records[j] /\ Id(records[j]) = Id(records[k]) /\ HasPlace(p.target)
      /\ \A j \in DOMAIN records :
           Id(records[j]) = Id(records[k]) /\ HasPlace(records[j].target) => records[j] \in P
  BY DEF EnabledWith
<1> HIDE DEF P
<1>3. ASSUME NEW j \in DOMAIN records, records[j].target \in T
      PROVE  records[j] \in P
  <2>1. PICK p \in P : p.target = records[j].target
    BY <1>3
  <2>2. PICK i \in DOMAIN records : p = records[i]
    BY <1>2
  <2>3. i = j
    BY <2>1, <2>2 DEF Separate, P
  <2> QED BY <2>2, <2>3
<1>4. /\ \A n \in (1..Top) \ T : G[n] = Over(parsed.heap[n].op, parsed.heap[n].children, G)
      /\ \A p \in P : G[p.target] = Replaced(p, G)
  <2>1. Separate(P) /\ \A p \in P : \E j \in DOMAIN records : p = records[j]
    BY <1>2 DEF P
  <2> QED BY <2>1, IntendedMeaning
<1> HIDE DEF G
<1>5. ASSUME NEW n \in T
      PROVE  /\ n \in 1..Top /\ HasPlace(n) /\ \E j \in DOMAIN records : records[j].target = n
             /\ \A i \in DOMAIN parsed.heap[n].children : parsed.heap[n].children[i] \notin T
  <2>1. PICK p \in P : n = p.target
    OBVIOUS
  <2>2. n \in 1..Top /\ HasPlace(n) /\ \E j \in DOMAIN records : records[j].target = n
    BY <1>2, <2>1, RecordFacts
  <2>3. \A q \in P : q.target \notin Range(parsed.heap[n].children)
    BY <2>1 DEF Separate, P
  <2> QED BY <2>2, <2>3 DEF Range
<1>6. ASSUME NEW j \in DOMAIN records
      PROVE  /\ HasPlace(records[j].target) => (Id(records[j]) \in env <=> records[j].target \in T)
             /\ records[j].target \in T => G[records[j].target] = Replaced(records[j], G)
  <2>1. HasPlace(records[j].target) /\ Id(records[j]) \in env => records[j].target \in T
    BY <1>2
  <2>2. records[j].target \in T =>
          Id(records[j]) \in env /\ G[records[j].target] = Replaced(records[j], G)
    <3>1. ASSUME records[j] \in P PROVE Id(records[j]) = Id(records[k])
      BY <1>2, <3>1
    <3> QED BY <1>3, <1>4, <3>1
  <2> QED BY <2>1, <2>2
<1>7. Valuation(env, T, G)
  <2> HIDE DEF env, T
  <2> QED BY <1>4, <1>5, <1>6 DEF Valuation
<1>8. \A n \in (1..Top) \ T : Meaning(heap, env)[n] = G[n]
  <2> HIDE DEF T, env
  <2> QED BY <1>7, HeapValuation
<1>9. \A i \in DOMAIN parsed.decls : parsed.decls[i].body \in (1..Top) \ T
  <2> HIDE DEF T
  <2>1. ASSUME NEW i \in DOMAIN parsed.decls, parsed.decls[i].body \in T PROVE FALSE
    <3>1. PICK j \in DOMAIN records : records[j].target = parsed.decls[i].body
      BY <1>5, <2>1
    <3> QED BY <3>1, RecordFacts
  <2> QED BY <1>1, <2>1, ParsedDecl
<1> QED BY <1>8, <1>9 DEF Computes, G, P

\* The code behaviour of MullASTMutator and ClangASTMutator: with no mutant
\* enabled an instrumented unit computes what it did before, code that is not the
\* user's is as it was, and the plugin stops only for an expression that was
\* replaced before, one that has no place below a statement or a variable in
\* Clang's parent map, or a void call that is an operand.
THEOREM OriginalReliable == PluginSpec => []OriginalKept
<1>1. ASSUME PluginInv PROVE OriginalKept
  <2>1. Computes(parsed.heap, {}) /\ StopsForThese
    BY <1>1, NothingEnabled DEF PluginInv
  <2>2. ASSUME NEW i \in DOMAIN parsed.decls,
               parsed.decls[i].name = "main" \/ parsed.decls[i].where # "user"
        PROVE  AsParsed(i)
    BY <1>1, <2>2 DEF PluginInv, StageInv, IsMutated
  <2>3. \A j \in DOMAIN records : parsed.heap[Location(records[j])].where = "user"
    BY <1>1, RecordFacts
  <2>4. OnlyUserCode
    BY <2>2, <2>3 DEF OnlyUserCode, AsParsed
  <2> QED BY <2>1, <2>4 DEF OriginalKept
<1> QED BY <1>1, PluginInvariance, PTL

\* The code behaviour of createMutatedExpression, createMutatedStatement and
\* ClangASTMutator: enabling an identifier changes what the unit computes at every
\* recorded point that has it and a place in the tree, as intended and nowhere
\* else, whatever is nested in it or around it, unless a node of these points is
\* replaced twice or an operand of another of them.
THEOREM MutantsReliable == PluginSpec => []MutantsRight
<1>1. ASSUME PluginInv PROVE MutantsRight
  BY <1>1, OneEnabled DEF MutantsRight
<1> QED BY <1>1, PluginInvariance, PTL

===============================================================================
