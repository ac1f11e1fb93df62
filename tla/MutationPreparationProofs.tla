----------------------- MODULE MutationPreparationProofs ----------------------
(***************************************************************************)
(* Proofs about MutationPreparation, for every program, list of mutation   *)
(* points, coverage and number of workers.  Inv says, for each function    *)
(* and each point, what its turn in a pass has left behind.                *)
(***************************************************************************)
EXTENDS MutationPreparation, WellFoundedInduction, TLAPS

\* The passes that function f, or point i, has been through.
Through(b) == b \notin todo \cup busy

Cloned(f) ==
  \/ pass \in {"delete", "redirect", "apply", "deduplicate", "done"}
  \/ pass = "clone" /\ Through(BitcodeOf[f])

Deleted(f) ==
  \/ pass \in {"redirect", "apply", "deduplicate", "done"}
  \/ pass = "delete" /\ Through(BitcodeOf[f])

Redirected(f) ==
  \/ pass \in {"apply", "deduplicate", "done"}
  \/ pass = "redirect" /\ Through(BitcodeOf[f])

Applied(i) ==
  \/ pass \in {"deduplicate", "done"}
  \/ pass = "apply" /\ Through(i)

Added(i) == pass # "prepare" \/ i \notin todo

HasCovered(f) == CoveredPoints(f) # {}

Record(i) == [id |-> points[i].id, covered |-> IsCovered(i)]

\* Which items the tasks of a pass are at.
PassInv ==
  /\ pass \in {"prepare", "clone", "delete", "redirect", "apply",
               "deduplicate", "done"}
  /\ dryRun => pass \in {"prepare", "deduplicate", "done"}
  /\ pass = "prepare" => todo \subseteq Points /\ busy = {}
  /\ pass \in {"clone", "delete", "redirect"} =>
       todo \subseteq Bitcodes /\ busy \subseteq Bitcodes /\ todo \cap busy = {}
  /\ pass = "apply" =>
       /\ todo \subseteq Points /\ busy \subseteq Points /\ todo \cap busy = {}
       /\ \A i, j \in busy : i = j
  /\ pass \in {"deduplicate", "done"} => todo = {} /\ busy = {}

\* Bitcode::mutationPoints holds each point where it belongs.
PointsInv ==
  /\ mutationPoints \in [Functions -> Seq(Points)]
  /\ \A f \in Functions : \A k \in DOMAIN mutationPoints[f] :
       points[mutationPoints[f][k]].function = f
  /\ ~dryRun =>
       \A i \in Points : Added(i) =>
         \E k \in DOMAIN mutationPoints[points[i].function] :
           mutationPoints[points[i].function][k] = i

\* What the functions and the points consist of.
BodyInv ==
  \A f \in Functions :
    body[f] = IF HasCovered(f) /\ Redirected(f) THEN Trampoline
              ELSE IF HasCovered(f) /\ Deleted(f) THEN Empty ELSE Original

CopyInv ==
  \A f \in Functions : HasCovered(f) /\ Deleted(f) => copy[f] = Original

ChecksInv ==
  \A f \in Functions :
    checks[f] = IF HasCovered(f) /\ Redirected(f) THEN CoveredPoints(f) ELSE {}

CloneInv ==
  \A i \in Points :
    IF IsCovered(i) /\ Cloned(points[i].function)
    THEN clone[i] = IF Applied(i) THEN Code({i}) ELSE Original
    ELSE clone[i] = None

\* What is recorded in the binary, and what the driver goes on with.
RecordsInv ==
  /\ records \in Seq([id : Identifiers, covered : BOOLEAN])
  /\ \A k \in DOMAIN records : \E i \in Points : records[k] = Record(i)
  /\ \A i \in Points : Applied(i) => \E k \in DOMAIN records : records[k] = Record(i)

MutantsInv ==
  mutants = IF pass = "done"
            THEN {[id |-> points[i].id,
                   covered |-> \E j \in Points :
                     points[j].id = points[i].id /\ IsCovered(j)] : i \in Points}
            ELSE {}

\* The arguments and the domains of the functions.
InputInv ==
  /\ points \in Seq([function : Functions, id : Identifiers])
  /\ covered \in [Functions -> BOOLEAN] /\ dryRun \in BOOLEAN
  /\ body = [f \in Functions |-> body[f]] /\ copy \in [Functions -> Bodies]
  /\ clone = [i \in Points |-> clone[i]] /\ checks = [f \in Functions |-> checks[f]]

CodeInv == BodyInv /\ CopyInv /\ ChecksInv /\ CloneInv /\ RecordsInv

\* A dry run leaves everything as it was at the beginning.
DryInv ==
  /\ mutationPoints = [f \in Functions |-> << >>]
  /\ body = [f \in Functions |-> Original]
  /\ copy = [f \in Functions |-> None]
  /\ clone = [i \in Points |-> None]
  /\ checks = [f \in Functions |-> {}]
  /\ records = << >>

Inv == /\ InputInv /\ PassInv /\ PointsInv /\ MutantsInv
       /\ dryRun => DryInv
       /\ ~dryRun => CodeInv

-------------------------------------------------------------------------------
(* The ends of sets of positions *)

Less == {p \in Nat \X Nat : p[1] < p[2]}

\* The order of the naturals is well-founded.
LEMMA LessWellFounded == IsWellFoundedOn(Less, Nat)
  BY NatLessThanWellFounded DEF Less, OpToRel

\* A set of naturals that is not empty has a least element.
LEMMA LeastExists ==
  ASSUME NEW S, S \subseteq Nat, S # {}
  PROVE  \E x \in S : \A y \in S : x <= y
<1>1. PICK x \in S : \A y \in S : ~(<<y, x>> \in Less)
  BY LessWellFounded, WFMin
<1>2. ASSUME NEW y \in S, y < x PROVE FALSE
  <2>1. <<y, x>> \in Nat \X Nat
    OBVIOUS
  <2>2. <<y, x>>[1] < <<y, x>>[2]
    BY <1>2
  <2>3. <<y, x>> \in Less
    BY <2>1, <2>2, Zenon DEF Less
  <2> QED BY <1>1, <2>3
<1>3. \A y \in S : x <= y
  BY <1>2
<1> QED BY <1>3

\* The first of a set of naturals is one of them.
LEMMA FirstIn ==
  ASSUME NEW S, S \subseteq Nat, S # {}
  PROVE  First(S) \in S
  BY LeastExists DEF First

\* A set of positions of a sequence that is not empty has a last element.
LEMMA LastIn ==
  ASSUME NEW n \in Nat, NEW S, S \subseteq 1..n, S # {}
  PROVE  \E k \in S : \A j \in S : j <= k
<1> DEFINE Back == {n - k : k \in S}
<1>1. Back \subseteq Nat /\ Back # {}
  <2>1. \A k \in S : n - k \in Nat
    OBVIOUS
  <2> QED BY <2>1, Zenon
<1>2. PICK x \in Back : \A y \in Back : x <= y
  <2> HIDE DEF Back
  <2> QED BY <1>1, LeastExists
<1>4. PICK k \in S : x = n - k
  BY <1>2
<1>5. \A j \in S : j <= k
  <2> SUFFICES ASSUME NEW j \in S PROVE j <= k
    OBVIOUS
  <2>1. n - k <= n - j
    BY <1>2, <1>4
  <2> QED BY <2>1
<1> QED BY <1>5
-------------------------------------------------------------------------------
(* The invariant *)

\* A mutation point is in a function and has an identifier.
LEMMA PointFacts ==
  ASSUME InputInv
  PROVE  /\ Points \subseteq Nat
         /\ \A i \in Points : /\ points[i] \in [function : Functions, id : Identifiers]
                              /\ points[i].function \in Functions
                              /\ points[i].id \in Identifiers
                              /\ IsCovered(i) \in BOOLEAN
<1>1. Points = 1..Len(points) /\ Len(points) \in Nat
  BY DEF InputInv, Points
<1>2. \A i \in Points : points[i] \in [function : Functions, id : Identifiers]
  <2> DEFINE P == [function : Functions, id : Identifiers]
  <2>1. points \in Seq(P)
    BY DEF InputInv
  <2> HIDE DEF P
  <2>2. \A i \in Points : points[i] \in P
    BY <1>1, <2>1
  <2> QED BY <2>2 DEF P
<1>3. \A i \in Points : points[i].function \in Functions /\ points[i].id \in Identifiers
  BY <1>2
<1>4. \A i \in Points : IsCovered(i) \in BOOLEAN
  BY <1>3 DEF IsCovered, InputInv
<1>5. Points \subseteq Nat
  BY <1>1
<1> QED BY <1>2, <1>3, <1>4, <1>5

\* What depends on the points and their distribution only.
LEMMA Frame ==
  ASSUME UNCHANGED <<input, mutationPoints>>
  PROVE  /\ Points' = Points /\ Bodies' = Bodies
         /\ \A f \in Functions : /\ CoveredPoints(f)' = CoveredPoints(f)
                                 /\ HasCovered(f)' <=> HasCovered(f)
         /\ \A i \in Points : /\ IsCovered(i)' = IsCovered(i)
                              /\ Record(i)' = Record(i)
  BY DEF input, Points, Bodies, CoveredPoints, HasCovered, IsCovered, Record

\* The invariant holds when the driver starts to prepare the mutations.
LEMMA InvInit == Init => Inv
<1> SUFFICES ASSUME Init PROVE Inv
  OBVIOUS
<1>1. points \in Seq([function : Functions, id : Identifiers])
  BY ProgramAssumption DEF Init
<1>2. InputInv
  BY <1>1 DEF Init, InputInv, Bodies
<1>3. PassInv
  BY DEF Init, PassInv
<1>4. mutationPoints \in [Functions -> Seq(Points)]
  BY DEF Init
<1>5. PointsInv
  BY <1>4 DEF Init, PointsInv, Added
<1>6. MutantsInv
  BY DEF Init, MutantsInv
<1>7. DryInv
  BY DEF Init, DryInv
<1>8. BodyInv /\ CopyInv /\ ChecksInv
  BY DEF Init, BodyInv, CopyInv, ChecksInv, Redirected, Deleted
<1>9. CloneInv
  BY DEF Init, CloneInv, Cloned
<1>10. RecordsInv
  BY DEF Init, RecordsInv, Applied
<1> QED BY <1>2, <1>3, <1>5, <1>6, <1>7, <1>8, <1>9, <1>10 DEF Inv, CodeInv

\* Skipping the preparation in a dry run keeps it.
LEMMA SkipPreparationInv ==
  ASSUME Inv, SkipPreparation
  PROVE  Inv'
<1>1. UNCHANGED <<input, mutationPoints, code, records, mutants, busy>>
  BY DEF SkipPreparation
<1>2. dryRun /\ dryRun' /\ pass = "prepare" /\ pass' = "deduplicate" /\ todo' = {}
  BY DEF SkipPreparation, input
<1>3. InputInv'
  BY <1>1, Frame DEF Inv, InputInv, input, code
<1>4. PassInv'
  BY <1>1, <1>2 DEF Inv, PassInv
<1>5. PointsInv'
  BY <1>1, <1>2, Frame DEF Inv, PointsInv, input
<1>6. MutantsInv'
  BY <1>1, <1>2 DEF Inv, MutantsInv
<1>7. DryInv'
  BY <1>1, <1>2, Frame DEF Inv, DryInv, code
<1> QED BY <1>2, <1>3, <1>4, <1>5, <1>6, <1>7 DEF Inv

\* Adding a point to its function keeps it: nothing has been cloned yet.
LEMMA AddMutationInv ==
  ASSUME Inv, AddMutation
  PROVE  Inv'
<1>1. UNCHANGED <<input, busy, code, records, mutants>> /\ Points' = Points
  BY DEF AddMutation, Points, input
<1>2. pass = "prepare" /\ pass' = "prepare" /\ ~dryRun /\ ~dryRun'
  BY DEF AddMutation, input
<1> DEFINE i == First(todo)
           g == points[i].function
<1>3. i \in todo /\ i \in Points
  <2>1. todo \subseteq Points /\ todo # {}
    BY <1>2 DEF Inv, PassInv, AddMutation
  <2> QED BY <2>1, FirstIn, PointFacts DEF Inv
<1>4. g \in Functions
  BY <1>3, PointFacts DEF Inv
<1> HIDE DEF i
<1>5. /\ mutationPoints' = [mutationPoints EXCEPT ![g] = Append(@, i)]
      /\ todo' = todo \ {i}
  BY DEF AddMutation, i
<1>6. mutationPoints \in [Functions -> Seq(Points)]
  BY DEF Inv, PointsInv
<1>7. InputInv'
  BY <1>1 DEF Inv, InputInv, Bodies, input, code
<1>8. PassInv'
  BY <1>1, <1>2, <1>5 DEF Inv, PassInv
<1>9. PointsInv'
  <2>1. mutationPoints' \in [Functions -> Seq(Points)]
    BY <1>3, <1>4, <1>5, <1>6
  <2>2. ASSUME NEW f \in Functions, NEW k \in DOMAIN mutationPoints'[f]
        PROVE  points[mutationPoints'[f][k]].function = f
    BY <2>2, <1>3, <1>4, <1>5, <1>6 DEF Inv, PointsInv
  <2>3. ASSUME NEW j \in Points, Added(j)'
        PROVE  \E k \in DOMAIN mutationPoints'[points[j].function] :
                 mutationPoints'[points[j].function][k] = j
    <3> DEFINE f == points[j].function
    <3>1. f \in Functions
      BY PointFacts DEF Inv
    <3>2. mutationPoints[f] \in Seq(Points)
      BY <3>1, <1>6
    <3>3. CASE j = i
      <4>1. mutationPoints'[f] = Append(mutationPoints[f], i)
        BY <3>1, <3>3, <1>5, <1>6
      <4>2. /\ Len(mutationPoints[f]) + 1 \in DOMAIN mutationPoints'[f]
            /\ mutationPoints'[f][Len(mutationPoints[f]) + 1] = i
        BY <4>1, <3>2, <1>3
      <4> QED BY <4>2, <3>3
    <3>4. CASE j # i
      <4>1. j \notin todo
        BY <2>3, <3>4, <1>2, <1>5 DEF Added
      <4>2. PICK k \in DOMAIN mutationPoints[f] : mutationPoints[f][k] = j
        BY <4>1, <1>2 DEF Inv, PointsInv, Added
      <4>3. k \in DOMAIN mutationPoints'[f] /\ mutationPoints'[f][k] = j
        BY <4>2, <3>1, <3>2, <1>3, <1>5, <1>6
      <4> QED BY <4>3
    <3> QED BY <3>3, <3>4
  <2> QED BY <2>1, <2>2, <2>3, <1>1 DEF PointsInv, input
<1>10. MutantsInv'
  BY <1>1, <1>2 DEF Inv, MutantsInv
<1>11. BodyInv' /\ CopyInv' /\ ChecksInv'
  BY <1>1, <1>2 DEF Inv, CodeInv, BodyInv, CopyInv, ChecksInv, Redirected, Deleted,
     code
<1>12. CloneInv'
  BY <1>1, <1>2 DEF Inv, CodeInv, CloneInv, Cloned, code
<1>13. RecordsInv'
  BY <1>1, <1>2 DEF Inv, CodeInv, RecordsInv, Applied, Record, IsCovered, input
<1> QED BY <1>2, <1>7, <1>8, <1>9, <1>10, <1>11, <1>12, <1>13 DEF Inv, CodeInv

\* A step that changes neither the program nor what its functions and points
\* have been through keeps the invariant.
LEMMA SameProgress ==
  ASSUME Inv, UNCHANGED <<input, mutationPoints, code, records>>,
         PassInv', MutantsInv',
         \A f \in Functions : /\ Cloned(f)' <=> Cloned(f)
                              /\ Deleted(f)' <=> Deleted(f)
                              /\ Redirected(f)' <=> Redirected(f),
         \A i \in Points : /\ Applied(i)' <=> Applied(i)
                           /\ ~dryRun /\ Added(i)' => Added(i)
  PROVE  Inv'
<1>2. UNCHANGED <<dryRun, points, body, copy, clone, checks>>
  BY DEF input, code
<1>3. \A i \in Points : points[i].function \in Functions
  BY PointFacts DEF Inv
<1>4. InputInv'
  BY Frame DEF Inv, InputInv, input, code
<1>5. PointsInv'
  BY <1>2, Frame DEF Inv, PointsInv
<1>7. dryRun => DryInv'
  BY Frame DEF Inv, DryInv, code
<1>8. ASSUME ~dryRun PROVE CodeInv'
  <2>1. BodyInv' /\ CopyInv' /\ ChecksInv'
    BY <1>2, <1>8, Frame DEF Inv, CodeInv, BodyInv, CopyInv, ChecksInv,
       Original, Empty, Trampoline, Code
  <2>2. CloneInv'
    BY <1>2, <1>3, <1>8, Frame DEF Inv, CodeInv, CloneInv, Original, None, Code
  <2>3. RecordsInv'
    BY <1>2, <1>8, Frame DEF Inv, CodeInv, RecordsInv
  <2> QED BY <2>1, <2>2, <2>3 DEF CodeInv
<1> QED BY <1>2, <1>4, <1>5, <1>7, <1>8 DEF Inv

\* A step that only takes an item, or none at all, keeps it.
LEMMA NoProgress ==
  ASSUME Inv, UNCHANGED <<input, pass, mutationPoints, code, records, mutants>>,
         todo' \cup busy' = todo \cup busy, PassInv', pass # "prepare" \/ todo' = todo
  PROVE  Inv'
<1>1. /\ \A f \in Functions : /\ Cloned(f)' <=> Cloned(f)
                              /\ Deleted(f)' <=> Deleted(f)
                              /\ Redirected(f)' <=> Redirected(f)
      /\ \A i \in Points : Applied(i)' <=> Applied(i)
  BY DEF Cloned, Deleted, Redirected, Applied, Through
<1>2. \A i \in Points : Added(i)' => Added(i)
  BY DEF Added
<1>3. MutantsInv'
  BY DEF Inv, MutantsInv, IsCovered, Points, input
<1> QED BY <1>1, <1>2, <1>3, SameProgress

\* Taking a bitcode file keeps the invariant.
LEMMA TakeBitcodeInv ==
  ASSUME Inv, NEW b \in Bitcodes, TakeBitcode(b)
  PROVE  Inv'
<1>1. PassInv'
  BY Frame DEF Inv, PassInv, TakeBitcode, input
<1>2. todo' \cup busy' = todo \cup busy
  BY DEF TakeBitcode
<1> QED BY <1>1, <1>2, NoProgress DEF TakeBitcode

\* Taking a mutation point keeps the invariant.
LEMMA TakePointInv ==
  ASSUME Inv, TakePoint
  PROVE  Inv'
<1>1. First(todo) \in todo
  <2>1. todo \subseteq Points /\ todo # {}
    BY DEF Inv, PassInv, TakePoint
  <2> QED BY <2>1, FirstIn, PointFacts DEF Inv
<1>2. PassInv'
  BY <1>1, Frame DEF Inv, PassInv, TakePoint, input
<1>3. todo' \cup busy' = todo \cup busy
  BY <1>1 DEF TakePoint
<1> QED BY <1>2, <1>3, NoProgress DEF TakePoint

\* What a task that is done with a bitcode file has changed in the passes.
LEMMA LeaveFacts ==
  ASSUME Inv, NEW b \in Bitcodes, Leave(b), pass \in {"clone", "delete", "redirect"}
  PROVE  /\ ~dryRun /\ ~dryRun' /\ pass' = pass
         /\ UNCHANGED <<input, points, mutationPoints, records, mutants>>
         /\ PassInv' /\ PointsInv' /\ MutantsInv' /\ RecordsInv'
         /\ \A f \in Functions : BitcodeOf[f] = b => ~Through(BitcodeOf[f])
         /\ \A f \in Functions :
              Through(BitcodeOf[f])' <=> Through(BitcodeOf[f]) \/ BitcodeOf[f] = b
         /\ \A i \in Points : ~Applied(i) /\ ~Applied(i)'
<1>1. ~dryRun /\ ~dryRun' /\ pass' = pass
  BY DEF Inv, PassInv, Leave, input
<1>2. UNCHANGED <<input, points, mutationPoints, records, mutants>>
  BY DEF Leave, input
<1>3. PassInv'
  BY <1>1, <1>2, Frame DEF Inv, PassInv, Leave
<1>4. PointsInv'
  BY <1>1, <1>2, Frame DEF Inv, PointsInv, Added
<1>5. MutantsInv'
  BY <1>1, <1>2 DEF Inv, MutantsInv
<1>6. \A i \in Points : ~Applied(i) /\ ~Applied(i)'
  BY <1>1 DEF Applied
<1>7. RecordsInv'
  BY <1>1, <1>2, <1>6, Frame DEF Inv, CodeInv, RecordsInv
<1>8. b \in busy /\ busy' = busy \ {b} /\ todo' = todo /\ b \notin todo
  BY DEF Leave, Inv, PassInv
<1>9. /\ \A f \in Functions : BitcodeOf[f] = b => ~Through(BitcodeOf[f])
      /\ \A f \in Functions :
           Through(BitcodeOf[f])' <=> Through(BitcodeOf[f]) \/ BitcodeOf[f] = b
  BY <1>8 DEF Through
<1> QED BY <1>1, <1>2, <1>3, <1>4, <1>5, <1>6, <1>7, <1>9

\* A function is taken for mutated if it has a covered point.
LEMMA MutatedFacts ==
  ASSUME NEW b, NEW f \in Functions
  PROVE  f \in Mutated(b) <=> BitcodeOf[f] = b /\ HasCovered(f)
  BY DEF Mutated, HasCovered

\* Cloning the functions of a bitcode file keeps the invariant: exactly its
\* covered points get a clone, of code that is still the original.
LEMMA CloneFunctionsInv ==
  ASSUME Inv, NEW b \in Bitcodes, CloneFunctions(b)
  PROVE  Inv'
<1>1. pass = "clone" /\ Leave(b) /\ UNCHANGED <<body, copy, checks>>
  BY DEF CloneFunctions
<1> DEFINE cloned == UNION {{mutationPoints[f][k] : k \in CoveredPoints(f)} :
                              f \in Mutated(b)}
<1>2. clone' = [i \in Points |-> IF i \in cloned THEN body[points[i].function]
                                 ELSE clone[i]]
  BY DEF CloneFunctions
<1>3. \A i \in Points : /\ points[i].function \in Functions
                        /\ IsCovered(i) \in BOOLEAN
  BY PointFacts DEF Inv
<1>4. \A i \in Points :
        i \in cloned <=> IsCovered(i) /\ BitcodeOf[points[i].function] = b
  <2>1. ASSUME NEW i \in Points, i \in cloned
        PROVE  IsCovered(i) /\ BitcodeOf[points[i].function] = b
    <3>1. PICK f \in Mutated(b) : i \in {mutationPoints[f][k] : k \in CoveredPoints(f)}
      BY <2>1
    <3>2. PICK k \in CoveredPoints(f) : i = mutationPoints[f][k]
      BY <3>1
    <3>3. f \in Functions /\ BitcodeOf[f] = b
      BY DEF Mutated
    <3>4. k \in DOMAIN mutationPoints[f] /\ IsCovered(i)
      BY <3>2 DEF CoveredPoints
    <3>5. points[i].function = f
      BY <3>2, <3>3, <3>4 DEF Inv, PointsInv
    <3> QED BY <3>3, <3>4, <3>5
  <2>2. ASSUME NEW i \in Points, IsCovered(i), BitcodeOf[points[i].function] = b
        PROVE  i \in cloned
    <3> DEFINE f == points[i].function
    <3>1. PICK k \in DOMAIN mutationPoints[f] : mutationPoints[f][k] = i
      BY <1>1, LeaveFacts DEF Inv, PointsInv, Added
    <3>2. k \in CoveredPoints(f)
      BY <3>1, <2>2 DEF CoveredPoints
    <3>3. f \in Mutated(b)
      BY <3>2, <2>2, <1>3, MutatedFacts DEF HasCovered
    <3> QED BY <3>1, <3>2, <3>3
  <2> QED BY <2>1, <2>2
<1> HIDE DEF cloned
<1>5. ~dryRun /\ pass' = "clone"
  BY <1>1, LeaveFacts
<1>6. \A f \in Functions : body[f] = Original
  BY <1>1, <1>5 DEF Inv, CodeInv, BodyInv, Redirected, Deleted
<1>7. InputInv'
  BY <1>1, <1>2, LeaveFacts, Frame DEF Inv, InputInv, input
<1>8. BodyInv' /\ CopyInv' /\ ChecksInv'
  BY <1>1, <1>5 DEF Inv, CodeInv, BodyInv, CopyInv, ChecksInv, Redirected, Deleted
<1>9. CloneInv'
  <2>1. ASSUME NEW i \in Points
        PROVE  IF IsCovered(i) /\ Cloned(points[i].function)'
               THEN clone'[i] = Original ELSE clone'[i] = None
    <3>1. IF IsCovered(i) /\ Cloned(points[i].function)
          THEN clone[i] = Original ELSE clone[i] = None
      BY <1>1, <1>5, LeaveFacts DEF Inv, CodeInv, CloneInv
    <3>2. Cloned(points[i].function)' <=>
            Cloned(points[i].function) \/ BitcodeOf[points[i].function] = b
      BY <1>1, <1>3, <1>5, LeaveFacts DEF Cloned
    <3> QED BY <3>1, <3>2, <1>2, <1>3, <1>4, <1>6
  <2> QED BY <2>1, <1>1, <1>5, LeaveFacts, Frame DEF CloneInv, Original, None, Code
<1> QED BY <1>1, <1>7, <1>8, <1>9, LeaveFacts DEF Inv, CodeInv

\* Moving the functions of a bitcode file to their copies keeps it.
LEMMA DeleteFunctionsInv ==
  ASSUME Inv, NEW b \in Bitcodes, DeleteFunctions(b)
  PROVE  Inv'
<1>1. /\ pass = "delete" /\ Leave(b) /\ UNCHANGED <<clone, checks>>
      /\ copy' = [f \in Functions |-> IF f \in Mutated(b) THEN body[f] ELSE copy[f]]
      /\ body' = [f \in Functions |-> IF f \in Mutated(b) THEN Empty ELSE body[f]]
  BY DEF DeleteFunctions
<1>2. ~dryRun /\ pass' = "delete" /\ UNCHANGED points
  BY <1>1, LeaveFacts
<1>3. \A f \in Functions : /\ HasCovered(f)' <=> HasCovered(f)
                           /\ CoveredPoints(f)' = CoveredPoints(f)
                           /\ ~Redirected(f) /\ ~Redirected(f)'
                           /\ Deleted(f)' <=> Deleted(f) \/ BitcodeOf[f] = b
                           /\ BitcodeOf[f] = b => ~Deleted(f)
                           /\ Cloned(f) /\ Cloned(f)'
  BY <1>1, <1>2, LeaveFacts, Frame DEF Redirected, Deleted, Cloned
<1>4. \A f \in Functions : body[f] = IF HasCovered(f) /\ Deleted(f) THEN Empty
                                     ELSE Original
  BY <1>2, <1>3 DEF Inv, CodeInv, BodyInv
<1>5. BodyInv'
  <2>1. \A f \in Functions : body'[f] = IF HasCovered(f) /\ Deleted(f)' THEN Empty
                                        ELSE Original
    BY <1>1, <1>3, <1>4, MutatedFacts
  <2> QED BY <2>1, <1>3 DEF BodyInv, Original, Empty, Code
<1>6. CopyInv'
  <2>1. \A f \in Functions : HasCovered(f) /\ Deleted(f)' => copy'[f] = Original
    BY <1>1, <1>2, <1>3, <1>4, MutatedFacts DEF Inv, CodeInv, CopyInv
  <2> QED BY <2>1, <1>3 DEF CopyInv, Original, Code
<1>7. ChecksInv'
  BY <1>1, <1>2, <1>3 DEF Inv, CodeInv, ChecksInv
<1>8. CloneInv'
  <2>1. \A i \in Points : /\ IsCovered(i)' = IsCovered(i) /\ ~Applied(i)
                          /\ ~Applied(i)' /\ points[i].function \in Functions
    BY <1>1, LeaveFacts, Frame, PointFacts DEF Inv
  <2>2. Points' = Points
    BY <1>2 DEF Points
  <2> QED BY <2>1, <2>2, <1>1, <1>2, <1>3
          DEF Inv, CodeInv, CloneInv, Original, None, Code
<1>9. InputInv'
  <2>1. Original \in Bodies /\ Empty \in Bodies
    BY DEF Bodies, Original
  <2>2. \A f \in Functions : body[f] \in Bodies
    BY <2>1, <1>4
  <2>3. copy' \in [Functions -> Bodies]
    BY <2>2, <1>1 DEF Inv, InputInv
  <2> QED BY <2>3, <1>1, LeaveFacts, Frame DEF Inv, InputInv, input
<1> QED BY <1>1, <1>5, <1>6, <1>7, <1>8, <1>9, LeaveFacts DEF Inv, CodeInv

\* Turning the emptied functions of a bitcode file into trampolines keeps it.
LEMMA InsertTrampolinesInv ==
  ASSUME Inv, NEW b \in Bitcodes, InsertTrampolines(b)
  PROVE  Inv'
<1>1. /\ pass = "redirect" /\ Leave(b) /\ UNCHANGED <<copy, clone>>
      /\ body' = [f \in Functions |->
           IF f \in Mutated(b) /\ body[f] = Empty THEN Trampoline ELSE body[f]]
      /\ checks' = [f \in Functions |->
           IF f \in Mutated(b) THEN CoveredPoints(f) ELSE checks[f]]
  BY DEF InsertTrampolines
<1>2. ~dryRun /\ pass' = "redirect" /\ UNCHANGED points
  BY <1>1, LeaveFacts
<1>3. \A f \in Functions : /\ HasCovered(f)' <=> HasCovered(f)
                           /\ CoveredPoints(f)' = CoveredPoints(f)
                           /\ Redirected(f)' <=> Redirected(f) \/ BitcodeOf[f] = b
                           /\ BitcodeOf[f] = b => ~Redirected(f)
                           /\ Deleted(f) /\ Deleted(f)'
                           /\ Cloned(f) /\ Cloned(f)'
  BY <1>1, <1>2, LeaveFacts, Frame DEF Redirected, Deleted, Cloned
<1>4. \A f \in Functions :
        body[f] = IF HasCovered(f) /\ Redirected(f) THEN Trampoline
                  ELSE IF HasCovered(f) THEN Empty ELSE Original
  BY <1>2, <1>3 DEF Inv, CodeInv, BodyInv
<1>5. BodyInv'
  <2>1. \A f \in Functions :
          body'[f] = IF HasCovered(f) /\ Redirected(f)' THEN Trampoline
                     ELSE IF HasCovered(f) THEN Empty ELSE Original
    BY <1>1, <1>3, <1>4, MutatedFacts
  <2> QED BY <2>1, <1>3 DEF BodyInv, Original, Empty, Trampoline, Code
<1>6. CopyInv'
  BY <1>1, <1>2, <1>3 DEF Inv, CodeInv, CopyInv, Original, Code
<1>7. ChecksInv'
  <2>1. \A f \in Functions :
          checks'[f] = IF HasCovered(f) /\ Redirected(f)' THEN CoveredPoints(f) ELSE {}
    BY <1>1, <1>2, <1>3, MutatedFacts DEF Inv, CodeInv, ChecksInv
  <2> QED BY <2>1, <1>3 DEF ChecksInv
<1>8. CloneInv'
  <2>1. \A i \in Points : /\ IsCovered(i)' = IsCovered(i) /\ ~Applied(i)
                          /\ ~Applied(i)' /\ points[i].function \in Functions
    BY <1>1, LeaveFacts, Frame, PointFacts DEF Inv
  <2>2. Points' = Points
    BY <1>2 DEF Points
  <2> QED BY <2>1, <2>2, <1>1, <1>2, <1>3
          DEF Inv, CodeInv, CloneInv, Original, None, Code
<1>9. InputInv'
  BY <1>1, LeaveFacts, Frame DEF Inv, InputInv, input
<1> QED BY <1>1, <1>5, <1>6, <1>7, <1>8, <1>9, LeaveFacts DEF Inv, CodeInv

\* Applying a mutation, to its own clone, and recording it keeps the invariant.
LEMMA ApplyMutationInv ==
  ASSUME Inv, NEW i \in Points, ApplyMutation(i)
  PROVE  Inv'
<1>1. /\ pass = "apply" /\ pass' = "apply" /\ i \in busy /\ i \notin todo
      /\ busy' = busy \ {i} /\ todo' = todo
      /\ UNCHANGED <<input, mutationPoints, body, copy, checks, mutants>>
  BY DEF ApplyMutation, Inv, PassInv
<1>2. UNCHANGED <<points, dryRun>> /\ Points' = Points /\ ~dryRun
  BY <1>1 DEF input, Points, Inv, PassInv
<1>3. \A j \in Points : /\ points[j].function \in Functions
                        /\ points[j].id \in Identifiers
                        /\ IsCovered(j) \in BOOLEAN
                        /\ IsCovered(j)' = IsCovered(j)
                        /\ Record(j)' = Record(j)
  BY <1>1, Frame, PointFacts DEF Inv
<1>4. /\ \A f \in Functions : /\ Cloned(f) /\ Cloned(f)'
                              /\ Deleted(f) /\ Deleted(f)'
                              /\ Redirected(f) /\ Redirected(f)'
      /\ \A j \in Points : Applied(j)' <=> Applied(j) \/ j = i
      /\ ~Applied(i)
  BY <1>1 DEF Cloned, Deleted, Redirected, Applied, Through
<1>5. \A j \in Points : /\ IsCovered(j) => clone[j] = IF Applied(j) THEN Code({j})
                                                      ELSE Original
                        /\ ~IsCovered(j) => clone[j] = None
  BY <1>2, <1>3, <1>4 DEF Inv, CodeInv, CloneInv
<1>6. DOMAIN clone = Points /\ clone = [j \in Points |-> clone[j]]
  BY DEF Inv, InputInv
<1>7. /\ clone' = [j \in Points |-> clone'[j]]
      /\ \A j \in Points : j # i => clone'[j] = clone[j]
      /\ IsCovered(i) => clone'[i] = Code({i})
      /\ ~IsCovered(i) => clone'[i] = None
  <2>1. CASE ~IsCovered(i)
    <3>1. UNCHANGED clone
      BY <2>1 DEF ApplyMutation
    <3> QED BY <3>1, <2>1, <1>5, <1>6
  <2>2. CASE IsCovered(i)
    <3>1. clone' = [clone EXCEPT ![i].mutations = @ \cup {i}]
      BY <2>2 DEF ApplyMutation
    <3>2. clone[i] = [kind |-> "code", mutations |-> {}]
      BY <2>2, <1>4, <1>5 DEF Original, Code
    <3>3. clone'[i] = [clone[i] EXCEPT !.mutations = {} \cup {i}]
      BY <3>1, <3>2, <1>6
    <3>4. clone'[i] = [kind |-> "code", mutations |-> {i}]
      BY <3>2, <3>3
    <3>5. /\ clone' = [j \in Points |-> clone'[j]]
          /\ \A j \in Points : j # i => clone'[j] = clone[j]
      BY <3>1, <1>6
    <3> QED BY <2>2, <3>4, <3>5 DEF Code
  <2> QED BY <2>1, <2>2, <1>3
<1>8. CloneInv'
  <2>1. ASSUME NEW j \in Points
        PROVE  IF IsCovered(j) THEN clone'[j] = IF Applied(j)' THEN Code({j})
                                                ELSE Original
               ELSE clone'[j] = None
    BY <1>4, <1>5, <1>7
  <2> QED BY <2>1, <1>2, <1>3, <1>4 DEF CloneInv, Original, None, Code
<1>9. RecordsInv'
  <2> DEFINE R == [id : Identifiers, covered : BOOLEAN]
  <2>1. records \in Seq(R) /\ Record(i) \in R
    BY <1>2, <1>3 DEF Inv, CodeInv, RecordsInv, Record
  <2>2. records' = Append(records, Record(i))
    BY DEF ApplyMutation, RecordMutation, Record
  <2> HIDE DEF R
  <2>3. /\ records' \in Seq(R)
        /\ DOMAIN records' = DOMAIN records \cup {Len(records) + 1}
        /\ \A k \in DOMAIN records : records'[k] = records[k]
        /\ records'[Len(records) + 1] = Record(i)
    BY <2>1, <2>2
  <2>4. \A k \in DOMAIN records' : \E j \in Points : records'[k] = Record(j)
    BY <1>2, <2>3 DEF Inv, CodeInv, RecordsInv
  <2>5. ASSUME NEW j \in Points, Applied(j)'
        PROVE  \E k \in DOMAIN records' : records'[k] = Record(j)
    <3>1. CASE j = i
      BY <3>1, <2>3
    <3>2. CASE j # i
      <4>1. PICK k \in DOMAIN records : records[k] = Record(j)
        BY <3>2, <2>5, <1>2, <1>4 DEF Inv, CodeInv, RecordsInv
      <4> QED BY <4>1, <2>3
    <3> QED BY <3>1, <3>2
  <2> QED BY <1>2, <1>3, <2>3, <2>4, <2>5 DEF RecordsInv, R
<1>10. BodyInv' /\ CopyInv' /\ ChecksInv'
  BY <1>1, <1>2, <1>4, Frame DEF Inv, CodeInv, BodyInv, CopyInv, ChecksInv,
     Original, Empty, Trampoline, Code
<1>11. InputInv'
  BY <1>1, <1>7, Frame DEF Inv, InputInv, input
<1>12. PassInv'
  BY <1>1, <1>2 DEF Inv, PassInv
<1>13. PointsInv'
  BY <1>1, <1>2, Frame DEF Inv, PointsInv, Added
<1>14. MutantsInv'
  BY <1>1 DEF Inv, MutantsInv
<1> QED BY <1>2, <1>8, <1>9, <1>10, <1>11, <1>12, <1>13, <1>14 DEF Inv, CodeInv

\* The next pass starts where the one before has left every item.
LEMMA NextPassInv ==
  ASSUME Inv, NextPass
  PROVE  Inv'
<1>1. /\ UNCHANGED <<input, mutationPoints, code, records, mutants, busy>>
      /\ todo = {} /\ busy = {} /\ busy' = {}
  BY DEF NextPass
<1>2. ~dryRun /\ ~dryRun' /\ Points' = Points
  BY <1>1 DEF NextPass, Inv, PassInv, input, Points
<1>3. /\ pass \notin {"deduplicate", "done"} /\ pass' # "prepare" /\ pass' # "done"
      /\ pass' = "clone" <=> pass = "prepare"
      /\ pass' = "delete" <=> pass = "clone"
      /\ pass' = "redirect" <=> pass = "delete"
      /\ pass' = "apply" <=> pass = "redirect"
      /\ pass' = "deduplicate" <=> pass = "apply"
      /\ pass' \in {"clone", "delete", "redirect", "apply", "deduplicate"}
  BY DEF NextPass
<1>4. /\ pass' \in {"clone", "delete", "redirect"} => todo' = Bitcodes
      /\ pass' = "apply" => todo' = Points
      /\ pass' = "deduplicate" => todo' = {}
  BY DEF NextPass
<1>5. \A f \in Functions : BitcodeOf[f] \in Bitcodes
  BY ProgramAssumption
<1>6. \A f \in Functions : /\ Cloned(f)' <=> Cloned(f)
                           /\ Deleted(f)' <=> Deleted(f)
                           /\ Redirected(f)' <=> Redirected(f)
  BY <1>1, <1>3, <1>4, <1>5 DEF Cloned, Deleted, Redirected, Through
<1>7. \A j \in Points : (Applied(j)' <=> Applied(j)) /\ Added(j)
  BY <1>1, <1>3, <1>4 DEF Applied, Through, Added
<1>8. PassInv'
  BY <1>1, <1>2, <1>3, <1>4 DEF PassInv
<1>9. MutantsInv'
  BY <1>1, <1>3 DEF Inv, MutantsInv
<1> QED BY <1>1, <1>6, <1>7, <1>8, <1>9, SameProgress

\* Deduplication keeps it.
LEMMA DeduplicateInv ==
  ASSUME Inv, Deduplicate
  PROVE  Inv'
<1>1. /\ UNCHANGED <<input, todo, busy, mutationPoints, code, records>>
      /\ pass = "deduplicate" /\ pass' = "done"
  BY DEF Deduplicate
<1>2. UNCHANGED <<points, covered, dryRun>> /\ Points' = Points
  BY <1>1 DEF input, Points
<1>3. /\ \A f \in Functions : /\ Cloned(f)' <=> Cloned(f)
                              /\ Deleted(f)' <=> Deleted(f)
                              /\ Redirected(f)' <=> Redirected(f)
      /\ \A j \in Points : (Applied(j)' <=> Applied(j)) /\ Added(j)
  BY <1>1 DEF Cloned, Deleted, Redirected, Applied, Added
<1>4. PassInv'
  BY <1>1, <1>2 DEF Inv, PassInv
<1>5. MutantsInv'
  BY <1>1, <1>2 DEF Deduplicate, MutantsInv, IsCovered
<1> QED BY <1>1, <1>3, <1>4, <1>5, SameProgress

\* Every step of the driver and of its tasks keeps it.
LEMMA InvNext == Inv /\ [Next]_vars => Inv'
<1> SUFFICES ASSUME Inv, [Next]_vars PROVE Inv'
  OBVIOUS
<1>1. CASE SkipPreparation \/ AddMutation \/ NextPass \/ TakePoint \/ Deduplicate
  BY <1>1, SkipPreparationInv, AddMutationInv, NextPassInv, TakePointInv,
     DeduplicateInv
<1>2. CASE \E b \in Bitcodes : \/ TakeBitcode(b) \/ CloneFunctions(b)
                               \/ DeleteFunctions(b) \/ InsertTrampolines(b)
  BY <1>2, TakeBitcodeInv, CloneFunctionsInv, DeleteFunctionsInv,
     InsertTrampolinesInv
<1>3. CASE \E i \in Points : ApplyMutation(i)
  BY <1>3, ApplyMutationInv
<1>4. CASE UNCHANGED vars
  <2>1. /\ UNCHANGED <<input, pass, mutationPoints, code, records, mutants>>
        /\ UNCHANGED <<todo, busy>>
    BY <1>4 DEF vars
  <2>2. PassInv'
    BY <2>1, Frame DEF Inv, PassInv, input
  <2> QED BY <2>1, <2>2, NoProgress
<1> QED BY <1>1, <1>2, <1>3, <1>4 DEF Next, Stop

(***************************************************************************)
(* At every step of the preparation each function and each mutation point  *)
(* is what its turn in the passes has made of it.                          *)
(***************************************************************************)
THEOREM Invariance == Spec => []Inv
  BY InvInit, InvNext, PTL DEF Spec

-------------------------------------------------------------------------------
(* What the prepared program executes *)

\* A call executes the original code if no covered point of the function has
\* its flag set, and the original code with one such point otherwise.
LEMMA ExecutedFacts ==
  ASSUME Inv, Prepared, NEW f \in Functions, NEW env
  PROVE  \/ /\ Executed(f, env) = Original
            /\ \A i \in Points : points[i].function = f /\ points[i].id \in env =>
                 ~IsCovered(i)
         \/ \E i \in Points : /\ points[i].function = f /\ points[i].id \in env
                              /\ IsCovered(i) /\ Executed(f, env) = Code({i})
<1> DEFINE on == EnabledChecks(f, env)
<1>1. pass = "done" /\ CodeInv /\ PointsInv /\ InputInv /\ ~dryRun
  BY DEF Prepared, Inv
<1>2. Redirected(f) /\ Deleted(f) /\ (\A i \in Points : Applied(i) /\ Added(i))
  BY <1>1 DEF Redirected, Deleted, Applied, Added
<1>3. \A i \in Points : points[i].function \in Functions /\ IsCovered(i) \in BOOLEAN
  BY <1>1, PointFacts
<1>4. \A i \in Points : IsCovered(i) => clone[i] = Code({i})
  BY <1>1, <1>2, <1>3 DEF CodeInv, CloneInv, Cloned
<1>5. mutationPoints[f] \in Seq(Points)
  BY <1>1 DEF PointsInv
<1>6. \A i \in Points : points[i].function = f /\ IsCovered(i) =>
        \E k \in CoveredPoints(f) : mutationPoints[f][k] = i
  BY <1>1, <1>2 DEF PointsInv, CoveredPoints
<1>7. CASE ~HasCovered(f)
  <2>1. body[f] = Original
    BY <1>1, <1>7 DEF CodeInv, BodyInv
  <2>2. Executed(f, env) = Original
    BY <2>1 DEF Executed, Original, Trampoline, Code
  <2> QED BY <2>2, <1>6, <1>7 DEF HasCovered
<1>8. CASE HasCovered(f)
  <2>1. body[f] = Trampoline /\ copy[f] = Original /\ checks[f] = CoveredPoints(f)
    BY <1>1, <1>2, <1>8 DEF CodeInv, BodyInv, CopyInv, ChecksInv
  <2>2. on = {k \in CoveredPoints(f) : points[mutationPoints[f][k]].id \in env}
    BY <2>1 DEF EnabledChecks
  <2>3. CASE on = {}
    <3>1. Executed(f, env) = Original
      BY <2>1, <2>3 DEF Executed
    <3> QED BY <3>1, <2>2, <2>3, <1>6
  <2>4. CASE on # {}
    <3> DEFINE last == CHOOSE k \in on : \A j \in on : j <= k
    <3>1. on \subseteq 1..Len(mutationPoints[f]) /\ Len(mutationPoints[f]) \in Nat
      BY <2>2, <1>5 DEF CoveredPoints
    <3> HIDE DEF on
    <3>2. \E k \in on : \A j \in on : j <= k
      BY <3>1, <2>4, LastIn
    <3>3. last \in on
      BY <3>2
    <3>4. Executed(f, env) = clone[mutationPoints[f][last]]
      BY <2>1, <2>4 DEF Executed, on
    <3> HIDE DEF last
    <3> DEFINE i == mutationPoints[f][last]
    <3>5. last \in CoveredPoints(f) /\ points[i].id \in env
      BY <3>3, <2>2
    <3>6. i \in Points /\ IsCovered(i) /\ points[i].function = f
      BY <3>5, <1>1, <1>5 DEF CoveredPoints, PointsInv
    <3>7. Executed(f, env) = Code({i})
      BY <3>4, <3>6, <1>4
    <3> QED BY <3>5, <3>6, <3>7
  <2> QED BY <2>3, <2>4
<1> QED BY <1>7, <1>8

\* A mutation makes a difference.
LEMMA MutatedNotOriginal ==
  ASSUME NEW i
  PROVE  Code({i}) # Original
  BY DEF Original, Code

(***************************************************************************)
(* With no flag set the prepared program executes the original code of     *)
(* every function: the baseline the mutants are compared with.             *)
(***************************************************************************)
THEOREM BaselineUnchanged == Spec => []BaselineIsOriginal
<1>1. Inv => BaselineIsOriginal
  <2> SUFFICES ASSUME Inv, Prepared, NEW f \in Functions
               PROVE  Executed(f, {}) = Original
    BY DEF BaselineIsOriginal
  <2> DEFINE env == {}
  <2>1. \A x : x \notin env
    OBVIOUS
  <2> HIDE DEF env
  <2>2. \/ Executed(f, env) = Original
        \/ \E i \in Points : points[i].id \in env
    BY ExecutedFacts
  <2>3. Executed(f, env) = Original
    BY <2>1, <2>2
  <2> QED BY <2>3 DEF env
<1> QED BY <1>1, Invariance, PTL

(***************************************************************************)
(* The run of a mutant executes original code, or original code with one   *)
(* mutation of the identifier whose flag is set, in every function.        *)
(***************************************************************************)
THEOREM IsolatedMutants == Spec => []MutantIsolated
<1>1. Inv => MutantIsolated
  <2> SUFFICES ASSUME Inv, Prepared, NEW f \in Functions, NEW id \in Identifiers
               PROVE  \/ Executed(f, {id}) = Original
                      \/ \E i \in Points : /\ points[i].function = f
                                           /\ points[i].id = id /\ IsCovered(i)
                                           /\ Executed(f, {id}) = Code({i})
    BY DEF MutantIsolated
  <2>1. CASE Executed(f, {id}) = Original
    BY <2>1
  <2>2. CASE \E i \in Points : /\ points[i].function = f /\ points[i].id \in {id}
                               /\ IsCovered(i) /\ Executed(f, {id}) = Code({i})
    BY <2>2
  <2> QED BY <2>1, <2>2, ExecutedFacts
<1> QED BY <1>1, Invariance, PTL

(***************************************************************************)
(* The mutants the driver runs are exactly the ones whose flag changes     *)
(* what the program executes.                                              *)
(***************************************************************************)
THEOREM CoveredMutantsActive == Spec => []CoveredMeansActive
<1>1. Inv => CoveredMeansActive
  <2> SUFFICES ASSUME Inv, Prepared, NEW m \in mutants
               PROVE  m.covered <=> \E f \in Functions : Executed(f, {m.id}) # Original
    BY DEF CoveredMeansActive
  <2>1. PICK i \in Points :
          m = [id |-> points[i].id,
               covered |-> \E j \in Points : points[j].id = points[i].id /\ IsCovered(j)]
    BY DEF Inv, MutantsInv, Prepared
  <2>2. m.covered <=> \E j \in Points : points[j].id = m.id /\ IsCovered(j)
    BY <2>1
  <2> HIDE DEF Prepared
  <2>3. ASSUME NEW j \in Points, points[j].id = m.id, IsCovered(j)
        PROVE  \E f \in Functions : Executed(f, {m.id}) # Original
    <3> DEFINE f == points[j].function
    <3>1. f \in Functions
      BY PointFacts DEF Inv
    <3>2. \E i2 \in Points : Executed(f, {m.id}) = Code({i2})
      BY <2>3, <3>1, ExecutedFacts
    <3> QED BY <3>1, <3>2, MutatedNotOriginal
  <2>4. ASSUME NEW f \in Functions, Executed(f, {m.id}) # Original
        PROVE  \E j \in Points : points[j].id = m.id /\ IsCovered(j)
    <3>1. \E j \in Points : points[j].id \in {m.id} /\ IsCovered(j)
      BY <2>4, ExecutedFacts, Zenon
    <3> QED BY <3>1
  <2> QED BY <2>2, <2>3, <2>4
<1> QED BY <1>1, Invariance, PTL

(***************************************************************************)
(* The records of the binary are those of the mutants the driver found.    *)
(***************************************************************************)
THEOREM RecordsComplete == Spec => []RecordsAgree
<1> DEFINE R == {records[k] : k \in DOMAIN records}
<1>1. Inv => RecordsAgree
  <2> SUFFICES ASSUME Inv, Prepared
               PROVE  mutants = {[id |-> r.id,
                                  covered |-> \E s \in R : s.id = r.id /\ s.covered] :
                                   r \in R}
    BY DEF RecordsAgree
  <2>1. R = {Record(i) : i \in Points}
    <3>1. \A i \in Points : Applied(i)
      BY DEF Applied, Prepared
    <3>2. /\ \A k \in DOMAIN records : \E i \in Points : records[k] = Record(i)
          /\ \A i \in Points : \E k \in DOMAIN records : records[k] = Record(i)
      BY <3>1 DEF Prepared, Inv, CodeInv, RecordsInv
    <3> QED BY <3>2, Zenon
  <2>2. \A i \in Points : Record(i).id = points[i].id /\ Record(i).covered = IsCovered(i)
    BY DEF Record
  <2> DEFINE Any(id) == \E j \in Points : points[j].id = id /\ IsCovered(j)
  <2>3. mutants = {[id |-> points[i].id, covered |-> Any(points[i].id)] : i \in Points}
    BY DEF Inv, MutantsInv, Prepared
  <2> HIDE DEF R
  <2>4. \A id : (\E s \in R : s.id = id /\ s.covered) = Any(id)
    <3>1. \A id : (\E s \in R : s.id = id /\ s.covered) <=> Any(id)
      BY <2>1, <2>2
    <3> QED BY <3>1
  <2> HIDE DEF Any
  <2>5. {[id |-> r.id, covered |-> \E s \in R : s.id = r.id /\ s.covered] : r \in R}
        = {[id |-> r.id, covered |-> Any(r.id)] : r \in R}
    BY <2>4
  <2>6. {[id |-> r.id, covered |-> Any(r.id)] : r \in R}
        = {[id |-> points[i].id, covered |-> Any(points[i].id)] : i \in Points}
    <3>1. \A i \in Points : [id |-> Record(i).id, covered |-> Any(Record(i).id)]
                            = [id |-> points[i].id, covered |-> Any(points[i].id)]
      BY <2>2
    <3> QED BY <2>1, <3>1, Zenon
  <2> QED BY <2>3, <2>5, <2>6
<1> QED BY <1>1, Invariance, PTL

(***************************************************************************)
(* Two tasks never work in one LLVM context, whatever the number of        *)
(* workers.                                                                *)
(***************************************************************************)
THEOREM ContextsNeverShared == Spec => []ContextsExclusive
<1>1. Inv => ContextsExclusive
  BY DEF Inv, PassInv, ContextsExclusive
<1> QED BY <1>1, Invariance, PTL

(***************************************************************************)
(* Every variable keeps its type, in a dry run and in a real one: checks   *)
(* and clones refer to positions and points that exist.                    *)
(***************************************************************************)
THEOREM TypeCorrect == Spec => []TypeOK
<1>1. ASSUME Inv PROVE TypeOK
  <2>1. InputInv /\ PassInv /\ PointsInv /\ MutantsInv
    BY <1>1 DEF Inv
  <2>2. Original \in Bodies /\ None \in Bodies /\ Empty \in Bodies /\ Trampoline \in Bodies
    BY DEF Bodies, Original
  <2>3. \A i \in Points : Code({i}) \in Bodies
    BY DEF Bodies
  <2>4. todo \subseteq Points \cup Bitcodes /\ busy \subseteq Points \cup Bitcodes
    BY <2>1 DEF PassInv
  <2>5. mutants \subseteq [id : Identifiers, covered : BOOLEAN]
    <3>1. \A i \in Points : points[i].id \in Identifiers
      BY <2>1, PointFacts
    <3> DEFINE Any(i) == \E j \in Points : points[j].id = points[i].id /\ IsCovered(j)
    <3>2. mutants \subseteq {[id |-> points[i].id, covered |-> Any(i)] : i \in Points}
      BY <2>1 DEF MutantsInv
    <3>3. \A i \in Points : Any(i) \in BOOLEAN
      OBVIOUS
    <3> HIDE DEF Any
    <3> QED BY <3>1, <3>2, <3>3
  <2>6. /\ body \in [Functions -> Bodies] /\ clone \in [Points -> Bodies]
        /\ \A f \in Functions : checks[f] \subseteq DOMAIN mutationPoints[f]
        /\ records \in Seq([id : Identifiers, covered : BOOLEAN])
    <3>1. CASE dryRun
      <4>1. DryInv
        BY <1>1, <3>1 DEF Inv
      <4> QED BY <4>1, <2>2 DEF DryInv
    <3>2. CASE ~dryRun
      <4>1. CodeInv
        BY <1>1, <3>2 DEF Inv
      <4>2. /\ body = [f \in Functions |-> body[f]]
            /\ clone = [i \in Points |-> clone[i]]
        BY <2>1 DEF InputInv
      <4>3. \A f \in Functions : body[f] \in Bodies
        BY <4>1, <2>2 DEF CodeInv, BodyInv
      <4>4. \A i \in Points : clone[i] \in Bodies
        BY <4>1, <2>2, <2>3 DEF CodeInv, CloneInv
      <4>5. \A f \in Functions : checks[f] \subseteq DOMAIN mutationPoints[f]
        BY <4>1 DEF CodeInv, ChecksInv, CoveredPoints
      <4>6. records \in Seq([id : Identifiers, covered : BOOLEAN])
        BY <4>1 DEF CodeInv, RecordsInv
      <4> QED BY <4>2, <4>3, <4>4, <4>5, <4>6
    <3> QED BY <3>1, <3>2, <2>1 DEF InputInv
  <2> QED BY <2>1, <2>4, <2>5, <2>6 DEF TypeOK, InputInv, PassInv, PointsInv
<1> QED BY <1>1, Invariance, PTL

===============================================================================
