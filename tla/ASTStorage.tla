------------------------------ MODULE ASTStorage ------------------------------
(***************************************************************************)
(* ASTStorage and the junk detector's use of it by several workers: one    *)
(* syntax tree per unit, built by the first worker that asks and shared    *)
(* by all.  The storage has a mutex, and so has each tree, but most        *)
(* questions to a tree's source manager are asked without it.  The source  *)
(* manager keeps its last answers in fields of its own: two queries of     *)
(* one tree that overlap in time are a data race, and either may be        *)
(* answered with anything.  What a tree says of a point when nothing       *)
(* disturbs it is the matter of module JunkDetector.  Strict mode, in      *)
(* which the warnings end the process, is the matter of module Driver.     *)
(***************************************************************************)
EXTENDS Integers, FiniteSets

CONSTANTS
  Workers,    \* the workers of the junk filter
  Points,     \* the mutation points
  UnitOf,     \* the unit of each point
  Exists,     \* the units whose file is on the disk
  Outcomes,   \* what building a tree may give: "tree" (with errors or not), "null"
  Verdict,    \* what a tree says of each point: "system header", "no decl",
              \* "no expression" or "mutable"
  None

VARIABLES
  pending,    \* the points no worker has taken
  point,      \* the point each worker looks at
  at,         \* where each worker is in isJunk
  unit,       \* the tree each worker uses, <<unit, number>>
  mutex,      \* the holder of ASTStorage::mutex
  astUnits,   \* from a unit to the number of its tree, 0 for none
  built,      \* how many trees were built for each unit
  null,       \* the trees that are wrappers around nothing
  treeMutex,  \* the holder of each unit's ThreadSafeASTUnit::mutex
  overlapped, \* the workers whose present query met another one
  misled,     \* the workers with a location, declaration or expression from such a query
  excused,    \* the workers a query of which met one, not both with the tree's mutex
  verdicts,   \* <<point, "junk" or "kept", end location, excused>>
  crashed     \* a null tree was used, or a location is not valid

astVars == <<pending, point, at, unit, mutex, astUnits, built, null, treeMutex, overlapped,
             misled, excused, verdicts, crashed>>

Units == {UnitOf[p] : p \in Points}

ASSUME ASTAssumption ==
  /\ UnitOf \in [Points -> Units]
  /\ Verdict \in [Points -> {"system header", "no decl", "no expression", "mutable"}]
  /\ None \notin Workers \cup Points

ASTInit ==
  /\ pending = Points
  /\ point = [w \in Workers |-> None]
  /\ at = [w \in Workers |-> "idle"]
  /\ unit = [w \in Workers |-> None]
  /\ mutex = None
  /\ astUnits = [u \in Units |-> 0]
  /\ built = [u \in Units |-> 0]
  /\ null = {}
  /\ treeMutex = [u \in Units |-> None]
  /\ overlapped = {} /\ misled = {} /\ excused = {}
  /\ verdicts = {}
  /\ crashed = FALSE

storage == <<mutex, astUnits, built, null>>

-------------------------------------------------------------------------------
(* Queries to the source manager of a tree.  "locating" and "looking" are  *)
(* in getLocation and getDecl, with the tree's mutex; "header", "expression"*)
(* and "query" are in isInSystemHeader, in the visitors' comparisons of    *)
(* ranges and in isJunk's questions for lines, without it.                 *)

Asking == {"locating", "header", "looking", "expression", "query"}
Locked == {"locating", "looking"}

\* The workers that ask the source manager of w's tree right now.
Together(w) == {v \in Workers \ {w} : at[v] \in Asking /\ unit[v] = unit[w]}

\* Worker w comes to its next query, with what the last one told it.
Begin(w, step) ==
  LET unlocked == {v \in Together(w) : step \notin Locked \/ at[v] \notin Locked}
  IN  /\ at' = [at EXCEPT ![w] = step]
      /\ misled' = misled \cup (overlapped \cap {w})
      /\ overlapped' = IF Together(w) = {} THEN overlapped \ {w}
                       ELSE overlapped \cup Together(w) \cup {w}
      /\ excused' = IF unlocked = {} THEN excused ELSE excused \cup unlocked \cup {w}
      /\ UNCHANGED <<point, unit, verdicts>>

\* The answers w may get to a query whose answer is right.
Answers(w, right) == IF w \in overlapped \cup misled THEN BOOLEAN ELSE {right}

\* Worker w goes on to something else than a query.
Goto(w, step) ==
  /\ at' = [at EXCEPT ![w] = step]
  /\ overlapped' = overlapped \ {w}
  /\ UNCHANGED <<point, unit, verdicts, misled, excused>>

\* Worker w is done with its point.
Judge(w, verdict, end) ==
  /\ verdicts' = verdicts \cup {<<point[w], verdict, end, w \in excused>>}
  /\ at' = [at EXCEPT ![w] = "idle"]
  /\ point' = [point EXCEPT ![w] = None]
  /\ unit' = [unit EXCEPT ![w] = None]
  /\ overlapped' = overlapped \ {w}
  /\ misled' = misled \ {w}
  /\ excused' = excused \ {w}

-------------------------------------------------------------------------------
(* The steps of isJunk.                                                    *)

Take(w) ==
  /\ at[w] = "idle"
  /\ \E p \in pending :
       /\ pending' = pending \ {p}
       /\ point' = [point EXCEPT ![w] = p]
       /\ at' = [at EXCEPT ![w] = "find"]
  /\ UNCHANGED <<unit, storage, treeMutex, overlapped, misled, excused, verdicts, crashed>>

\* The mutex of the storage can be taken.
Unlocked == mutex = None

\* The unit's file is not on the disk.
Missing(u) == u \notin Exists

\* findAST, up to the cache: a unit without a file is a warning and makes the
\* point junk.
FindAST(w) ==
  /\ at[w] = "find"
  /\ LET u == UnitOf[point[w]]
     IN  \/ /\ Missing(u)
            /\ Judge(w, "junk", "none")
            /\ UNCHANGED <<storage>>
         \/ /\ ~Missing(u) /\ Unlocked /\ astUnits[u] # 0
            /\ unit' = [unit EXCEPT ![w] = <<u, astUnits[u]>>]
            /\ at' = [at EXCEPT ![w] = "entry"]
            /\ UNCHANGED <<point, verdicts, storage, overlapped, misled, excused>>
         \/ /\ ~Missing(u) /\ Unlocked /\ astUnits[u] = 0
            /\ mutex' = w
            /\ Goto(w, "build")
            /\ UNCHANGED <<astUnits, built, null>>
  /\ UNCHANGED <<pending, treeMutex, crashed>>

\* findAST, from the compilation flags on: the wrapper goes into the cache
\* whatever Clang made of the file, and replaces what was there.
BuildAST(w) ==
  /\ at[w] = "build"
  /\ LET u == UnitOf[point[w]]
         n == built[u] + 1
     IN  /\ built' = [built EXCEPT ![u] = n]
         /\ astUnits' = [astUnits EXCEPT ![u] = n]
         /\ \E o \in Outcomes : null' = IF o = "null" THEN null \cup {<<u, n>>} ELSE null
         /\ unit' = [unit EXCEPT ![w] = <<u, n>>]
  /\ mutex' = None
  /\ at' = [at EXCEPT ![w] = "entry"]
  /\ UNCHANGED <<pending, point, treeMutex, overlapped, misled, excused, verdicts, crashed>>

\* getLocation, findFileEntry: the first use of the tree, which reads what the
\* source manager does not change any more.
FindFileEntry(w) ==
  /\ at[w] = "entry"
  /\ crashed' = (crashed \/ unit[w] \in null)
  /\ Goto(w, "location")
  /\ UNCHANGED <<pending, storage, treeMutex>>

\* Mutant of TreeUnlocked: getDecl and getLocation do not take the mutex.
TreeUnlockedAlways(w) == TRUE

\* The mutex of w's tree can be taken.
TreeUnlocked(w) == treeMutex[unit[w][1]] = None

\* Mutant of Released: the lock outlives its scope.
ReleasedNot(w) == treeMutex

\* The tree's mutex after w has left the scope of its lock.
Released(w) == [treeMutex EXCEPT ![unit[w][1]] = None]

\* The locked part of getLocation.
GetLocation(w) ==
  /\ at[w] = "location" /\ TreeUnlocked(w)
  /\ treeMutex' = [treeMutex EXCEPT ![unit[w][1]] = w]
  /\ Begin(w, "locating")
  /\ UNCHANGED <<pending, storage, crashed>>

\* The end of getLocation, which asserts that the location is valid.
GotLocation(w) ==
  /\ at[w] = "locating"
  /\ treeMutex' = Released(w)
  /\ crashed' \in IF w \in overlapped THEN BOOLEAN ELSE {crashed}
  /\ Begin(w, "header")
  /\ UNCHANGED <<pending, storage>>

\* isInSystemHeader.
IsInSystemHeader(w) ==
  /\ at[w] = "header"
  /\ \E yes \in Answers(w, Verdict[point[w]] = "system header") :
       IF yes THEN Judge(w, "junk", "none") ELSE Goto(w, "decl")
  /\ UNCHANGED <<pending, storage, treeMutex, crashed>>

\* No declaration of tree u is known to be recorded.
Undeclared(u) ==
  \A p \in Points : UnitOf[p] = u => Verdict[p] \in {"system header", "no decl"}

\* getDecl: a tree without declarations needs no lock.
GetDecl(w) ==
  /\ at[w] = "decl"
  /\ \/ Undeclared(unit[w][1]) /\ Judge(w, "junk", "none") /\ UNCHANGED treeMutex
     \/ /\ TreeUnlocked(w)
        /\ treeMutex' = [treeMutex EXCEPT ![unit[w][1]] = w]
        /\ Begin(w, "looking")
  /\ UNCHANGED <<pending, storage, crashed>>

\* The end of getDecl.  Declarations in system headers are not recorded.
GotDecl(w) ==
  /\ at[w] = "looking"
  /\ treeMutex' = Released(w)
  /\ \E yes \in Answers(w, Verdict[point[w]] \notin {"system header", "no decl"}) :
       IF yes THEN Begin(w, "expression") ELSE Judge(w, "junk", "none")
  /\ UNCHANGED <<pending, storage, crashed>>

\* The end of findMutantExpression: the visitors found an expression or none.
FindMutantExpression(w) ==
  /\ at[w] = "expression"
  /\ \E yes \in Answers(w, Verdict[point[w]] = "mutable") :
       IF yes THEN Begin(w, "query") ELSE Judge(w, "junk", "none")
  /\ UNCHANGED <<pending, storage, treeMutex, crashed>>

\* setEndLocation, with the lines and columns isJunk has asked for.
SetEndLocation(w) ==
  /\ at[w] = "query"
  /\ \E right \in Answers(w, TRUE) : Judge(w, "kept", IF right THEN "right" ELSE "wrong")
  /\ UNCHANGED <<pending, storage, treeMutex, crashed>>

IsJunk(w) ==
  \/ Take(w) \/ FindAST(w) \/ BuildAST(w) \/ FindFileEntry(w) \/ GetLocation(w)
  \/ GotLocation(w) \/ IsInSystemHeader(w) \/ GetDecl(w) \/ GotDecl(w)
  \/ FindMutantExpression(w) \/ SetEndLocation(w)

ASTNext == ~crashed /\ \E w \in Workers : IsJunk(w)

\* Every worker that can go on does.
ASTSpec ==
  ASTInit /\ [][ASTNext]_astVars /\ \A w \in Workers : WF_astVars(~crashed /\ IsJunk(w))

-------------------------------------------------------------------------------
\* No worker holds a tree that was destroyed: a tree that is in the cache is
\* never replaced, though workers ask for the same unit at the same time.
TreeOutlivesUse ==
  \A w \in Workers : unit[w] # None => astUnits[unit[w][1]] = unit[w][2]

\* The verdict on a point is that of its tree, and the file's absence alone
\* makes a point junk without one.  The exception is a point with a query that
\* met a query of another point of the same unit, one of the two without the
\* tree's mutex (CXXJunkDetector.cpp:201, 214, 221): two that take it never
\* disturb each other, and a point that is alone in its unit has the verdict of
\* its tree whatever the other workers do.
VerdictsOfTree ==
  \A v \in verdicts :
    /\ ~v[4] => /\ v[2] = "kept" <=> UnitOf[v[1]] \in Exists /\ Verdict[v[1]] = "mutable"
                /\ v[3] # "wrong"
    /\ v[4] => /\ UnitOf[v[1]] \in Exists
               /\ \E p \in Points \ {v[1]} : UnitOf[p] = UnitOf[v[1]]

\* Workers that share a tree get the verdicts the tree gives, but for the queries
\* made without its mutex, and no tree is destroyed while a worker uses it.
VerdictsRight == VerdictsOfTree /\ TreeOutlivesUse

\* Every point is judged: no worker waits for ever for one of the mutexes.  A
\* tree that Clang could not build ends the process (ASTStorage.cpp:230), and a
\* location that a race has spoiled may (ASTStorage.cpp:102).
AllJudged == <>(crashed \/ \A p \in Points : \E v \in verdicts : v[1] = p)

===============================================================================
