----------------------------- MODULE ReportsProofs -----------------------------
(***************************************************************************)
(* Proofs about Reports, for all lists of points, reporters and outcomes:  *)
(* the reporters agree, a database holds one run, and a mutant with a      *)
(* covered point is run by both tools; and about SourceLines, for all      *)
(* files: the lines shown are those of the file.                           *)
(***************************************************************************)
EXTENDS Reports, SourceLines, SequenceTheorems, FiniteSetTheorems, TLAPS

-------------------------------------------------------------------------------
(* Operators.                                                              *)

\* A finite set as a sequence has its elements and no other.
LEMMA SetToSeqFacts ==
  ASSUME NEW S, IsFiniteSet(S)
  PROVE  /\ SetToSeq(S) \in Seq(S)
         /\ Range(SetToSeq(S)) = S
<1> DEFINE n == Cardinality(S)
           f == SetToSeq(S)
<1>1. n \in Nat /\ ExistsBijection(1..n, S)
  BY FS_CardinalityType
<1>2. \E g \in [1..n -> S] : IsInjective(g)
  BY <1>1 DEF ExistsBijection, Bijection, Injection
<1>3. f \in [1..n -> S] /\ IsInjective(f)
  <2> HIDE DEF n
  <2> QED BY <1>2 DEF SetToSeq, n
<1> HIDE DEF f
<1>4. IsFiniteSet(1..n) /\ Cardinality(1..n) = n
  <2> HIDE DEF n
  <2> QED BY <1>1, FS_Interval
<1>5. f \in Injection(1..n, S)
  BY <1>3 DEF Injection
<1>6. f \in Surjection(1..n, S)
  BY <1>4, <1>5, FS_Injection
<1>7. Range(f) = S
  BY <1>3, <1>6 DEF Surjection, Range
<1>8. f \in Seq(S)
  <2> HIDE DEF n
  <2> QED BY <1>1, <1>3
<1> QED BY <1>7, <1>8 DEF f

\* The elements of a sequence are finitely many.
LEMMA RangeFinite ==
  ASSUME NEW s, s \in Seq(Range(s))
  PROVE  IsFiniteSet(Range(s))
<1>1. Len(s) \in Nat /\ DOMAIN s = 1..Len(s)
  OBVIOUS
<1>2. IsFiniteSet(1..Len(s))
  BY <1>1, FS_Interval
<1>3. s \in Surjection(1..Len(s), Range(s))
  <2>1. s \in [1..Len(s) -> Range(s)]
    BY <1>1
  <2>2. \A t \in Range(s) : \E i \in 1..Len(s) : s[i] = t
    BY <1>1 DEF Range
  <2> QED BY <2>1, <2>2 DEF Surjection
<1> QED BY <1>2, <1>3, FS_Surjection

\* A record that can be read is of a path without a colon, and says what the
\* point says.
LEMMA RecordFacts ==
  ASSUME NEW p, p.path # <<>>, p.path \in Seq(Range(p.path)), p.covered \in BOOLEAN,
         Readable(RecordMutation(p))
  PROVE  /\ ReadMutant(RecordMutation(p)).id = Id(p)
         /\ ReadMutant(RecordMutation(p)).covered = p.covered
<1> DEFINE n  == Len(p.path)
           c1 == <<Text(p.mutator)>>
           c2 == [i \in DOMAIN p.path |-> Text(p.path[i])]
           c3 == <<Number(p.line), Number(IF p.covered THEN 1 ELSE 0)>>
           r  == RecordMutation(p)
           X  == {Text(p.mutator), Number(p.line), Number(IF p.covered THEN 1 ELSE 0)}
                   \cup {Text(p.path[i]) : i \in DOMAIN p.path}
<1>1. n \in Nat /\ n >= 1 /\ DOMAIN p.path = 1..n
  OBVIOUS
<1>2. c1 \in Seq(X) /\ Len(c1) = 1 /\ c1[1] = Text(p.mutator)
  OBVIOUS
<1>3. c2 \in Seq(X) /\ Len(c2) = n /\ \A i \in 1..n : c2[i] = Text(p.path[i])
  <2>1. c2 \in [1..n -> X]
    BY <1>1
  <2>2. \A i \in 1..n : c2[i] = Text(p.path[i])
    BY <1>1
  <2> HIDE DEF c2, X, n
  <2> QED BY <1>1, <2>1, <2>2
<1>4. /\ c3 \in Seq(X) /\ Len(c3) = 2
      /\ c3[1] = Number(p.line) /\ c3[2] = Number(IF p.covered THEN 1 ELSE 0)
  OBVIOUS
<1>5. r = (c1 \o c2) \o c3
  BY DEF RecordMutation
<1> HIDE DEF c1, c2, c3, r, X, n
<1> DEFINE c == c1 \o c2
<1>6. /\ c \in Seq(X) /\ Len(c) = n + 1 /\ c[1] = Text(p.mutator)
      /\ \A i \in 1..n : c[i + 1] = Text(p.path[i])
  <2>1. /\ c \in Seq(X) /\ Len(c) = Len(c1) + Len(c2)
        /\ \A i \in 1..Len(c1) + Len(c2) : c[i] = IF i <= Len(c1) THEN c1[i] ELSE c2[i - Len(c1)]
    BY <1>2, <1>3, ConcatProperties
  <2> HIDE DEF c
  <2>2. Len(c) = n + 1
    BY <1>2, <1>3, <2>1
  <2>3. c[1] = Text(p.mutator)
    BY <1>1, <1>2, <1>3, <2>1
  <2>4. ASSUME NEW i \in 1..n PROVE c[i + 1] = Text(p.path[i])
    <3>1. i + 1 \in 1..Len(c1) + Len(c2) /\ ~(i + 1 <= Len(c1)) /\ (i + 1) - Len(c1) = i
      BY <1>1, <1>2, <1>3
    <3>2. c[i + 1] = c2[i]
      BY <2>1, <3>1
    <3> QED BY <1>3, <3>2
  <2> QED BY <2>1, <2>2, <2>3, <2>4
<1>7. /\ \A i \in 1..n + 1 : r[i] = c[i]
      /\ r[n + 2] = Number(p.line) /\ r[n + 3] = Number(IF p.covered THEN 1 ELSE 0)
  <2> HIDE DEF c
  <2>0. r = c \o c3
    BY <1>5 DEF c
  <2>1. \A i \in 1..Len(c) + Len(c3) : r[i] = IF i <= Len(c) THEN c[i] ELSE c3[i - Len(c)]
    <3>1. c \in Seq(X) /\ c3 \in Seq(X)
      BY <1>4, <1>6
    <3>2. \A i \in 1..Len(c) + Len(c3) :
            (c \o c3)[i] = IF i <= Len(c) THEN c[i] ELSE c3[i - Len(c)]
      BY <3>1, ConcatProperties
    <3> QED BY <2>0, <3>2
  <2>2. /\ n + 2 \in 1..Len(c) + Len(c3) /\ ~(n + 2 <= Len(c)) /\ (n + 2) - Len(c) = 1
        /\ n + 3 \in 1..Len(c) + Len(c3) /\ ~(n + 3 <= Len(c)) /\ (n + 3) - Len(c) = 2
    BY <1>1, <1>4, <1>6
  <2>3. r[n + 2] = c3[1] /\ r[n + 3] = c3[2]
    BY <2>1, <2>2
  <2>4. ASSUME NEW i \in 1..n + 1 PROVE r[i] = c[i]
    <3>1. i \in 1..Len(c) + Len(c3) /\ i <= Len(c)
      BY <1>1, <1>4, <1>6
    <3> QED BY <2>1, <3>1
  <2> QED BY <1>4, <2>3, <2>4
<1> HIDE DEF c
<1>8. n = 1
  <2>1. ASSUME n > 1 PROVE FALSE
    <3>1. 2 \in 1..n /\ 2 + 1 \in 1..n + 1 /\ 2 + 1 = 3
      BY <1>1, <2>1
    <3>2. r[3] = Text(p.path[2])
      BY <1>6, <1>7, <3>1
    <3>3. r[3][1] = "number"
      BY DEF Readable, IsNumber, r
    <3>4. Text(p.path[2])[1] = "text"
      BY DEF Text
    <3> QED BY <3>2, <3>3, <3>4
  <2> QED BY <1>1, <2>1
<1>9. /\ r[1] = Text(p.mutator) /\ r[2] = Text(p.path[1])
      /\ r[3] = Number(p.line) /\ r[4] = Number(IF p.covered THEN 1 ELSE 0)
  <2>1. 1 \in 1..n + 1 /\ 2 \in 1..n + 1 /\ 1 \in 1..n /\ 1 + 1 = 2 /\ n + 2 = 3 /\ n + 3 = 4
    BY <1>8
  <2> QED BY <1>6, <1>7, <2>1
<1>10. /\ r[1][2] = p.mutator /\ r[2][2] = p.path[1] /\ r[3][2] = p.line
       /\ r[4][2] = IF p.covered THEN 1 ELSE 0
  BY <1>9 DEF Text, Number
<1>11. <<p.path[1]>> = p.path
  <2> DEFINE one == <<p.path[1]>>
             R   == Range(p.path)
  <2>1. p.path[1] \in R
    BY <1>1, <1>8 DEF Range
  <2>2. one \in Seq(R) /\ Len(one) = 1 /\ one[1] = p.path[1]
    <3> HIDE DEF R
    <3> QED BY <2>1
  <2>3. p.path \in Seq(R) /\ Len(p.path) = 1
    BY <1>8 DEF n
  <2>4. \A i \in 1..1 : one[i] = p.path[i]
    <3> HIDE DEF one
    <3> QED BY <2>2
  <2> HIDE DEF one, R
  <2>5. one = p.path
    BY <2>2, <2>3, <2>4, SeqEqual
  <2> QED BY <2>5 DEF one
<1>12. ReadMutant(r) = [id |-> Id(p), covered |-> p.covered]
  <2>1. (r[4][2] # 0) = p.covered
    <3>1. CASE p.covered = TRUE
      BY <1>10, <3>1
    <3>2. CASE p.covered = FALSE
      BY <1>10, <3>2
    <3> QED BY <3>1, <3>2
  <2>2. <<r[1][2], <<r[2][2]>>, r[3][2]>> = Id(p)
    BY <1>10, <1>11 DEF Id
  <2> QED BY <2>1, <2>2, Zenon DEF ReadMutant
<1> HIDE DEF r
<1>13. ReadMutant(r).id = Id(p) /\ ReadMutant(r).covered = p.covered
  <2> HIDE DEF r
  <2> QED BY <1>12
<1> QED BY <1>13 DEF r

\* Three disjoint sets of indexes that are all of them are counted as all of them.
LEMMA PartitionCount ==
  ASSUME NEW n \in Nat, NEW A, NEW B, NEW C, A \cup B \cup C = 1..n,
         A \cap B = {}, A \cap C = {}, B \cap C = {}
  PROVE  /\ Cardinality(A) \in Nat /\ Cardinality(B) \in Nat /\ Cardinality(C) \in Nat
         /\ Cardinality(A) + Cardinality(B) + Cardinality(C) = n
<1>1. IsFiniteSet(1..n) /\ Cardinality(1..n) = n
  BY FS_Interval
<1>2. IsFiniteSet(A) /\ IsFiniteSet(B) /\ IsFiniteSet(C)
  <2>1. A \subseteq 1..n /\ B \subseteq 1..n /\ C \subseteq 1..n
    OBVIOUS
  <2> QED BY <1>1, <2>1, FS_Subset
<1>3. Cardinality(A) \in Nat /\ Cardinality(B) \in Nat /\ Cardinality(C) \in Nat
  BY <1>2, FS_CardinalityType
<1>4. Cardinality({}) = 0
  BY FS_EmptySet
<1>5. \A S, T : IsFiniteSet(S) /\ IsFiniteSet(T) /\ S \cap T = {} =>
        /\ IsFiniteSet(S \cup T)
        /\ Cardinality(S \cup T) = Cardinality(S) + Cardinality(T)
  <2> SUFFICES ASSUME NEW S, NEW T, IsFiniteSet(S), IsFiniteSet(T), S \cap T = {}
               PROVE  /\ IsFiniteSet(S \cup T)
                      /\ Cardinality(S \cup T) = Cardinality(S) + Cardinality(T)
    OBVIOUS
  <2>1. /\ IsFiniteSet(S \cup T)
        /\ Cardinality(S \cup T)
             = Cardinality(S) + Cardinality(T) - Cardinality(S \cap T)
    BY FS_Union
  <2>2. Cardinality(S) \in Nat /\ Cardinality(T) \in Nat /\ Cardinality(S \cap T) = 0
    BY <1>4, FS_CardinalityType
  <2> QED BY <2>1, <2>2
<1>6. /\ Cardinality(A \cup B) = Cardinality(A) + Cardinality(B)
      /\ Cardinality((A \cup B) \cup C) = Cardinality(A \cup B) + Cardinality(C)
  <2>1. (A \cup B) \cap C = {}
    OBVIOUS
  <2> QED BY <1>2, <1>5, <2>1
<1> QED BY <1>1, <1>3, <1>6

\* A score is full when all are killed and only then.
LEMMA FullScore ==
  ASSUME NEW n \in Nat \ {0}, NEW k \in 0..n
  PROVE  ((k * 100) \div n = 100) = (k = n)
<1> DEFINE q == (k * 100) \div n
           m == (k * 100) % n
<1>1. q \in Int /\ m \in 0..(n - 1) /\ k * 100 = n * q + m
  OBVIOUS
<1> HIDE DEF q, m
<1>2. ASSUME q = 100 PROVE k = n
  BY <1>1, <1>2
<1>3. ASSUME k = n PROVE q = 100
  <2>1. n * (100 - q) = m
    BY <1>1, <1>3
  <2>2. CASE 100 - q >= 1
    BY <1>1, <2>1, <2>2
  <2>3. CASE 100 - q <= -1
    BY <1>1, <2>1, <2>3
  <2> QED BY <1>1, <2>2, <2>3
<1>4. (q = 100) = (k = n)
  BY <1>2, <1>3
<1> QED BY <1>4 DEF q

-------------------------------------------------------------------------------
(* The invariant.                                                          *)

\* The list has a mutant for each identifier, covered when a point of it is.
ListingRight ==
  /\ listed \in Seq(Range(listed))
  /\ {m.id : m \in Range(listed)} = {Id(p) : p \in Range(points)}
  /\ \A p \in Range(points) :
       p.covered => \E i \in DOMAIN listed : listed[i].id = Id(p) /\ listed[i].covered

\* There is one status for each mutant of the list, of a run when it is covered.
StatusesRight ==
  /\ DOMAIN statuses = DOMAIN listed
  /\ ~dryRun => \A i \in DOMAIN listed : listed[i].covered => statuses[i] # "NotCovered"

Ready == ListingRight /\ StatusesRight

\* The reports are of the list and the statuses that are there.
ReportsFresh ==
  /\ ide # Nothing => Ready /\ listed # <<>> /\ ide = IDEReport
  /\ elements # Nothing => Ready /\ listed # <<>> /\ elements = ElementsReport

OneRun == \E run \in {"this", "earlier"} : \A row \in database : row[1] = run

Inv ==
  /\ points \in PointLists
  /\ at \in {"reporters", "mutants", "run"} =>
       statuses = <<>> /\ ide = Nothing /\ elements = Nothing
  /\ at = "run" => ListingRight
  /\ at = "report" \/ statuses # <<>> => Ready
  /\ ReportsFresh
  /\ OneRun

-------------------------------------------------------------------------------
(* The invariant gives the property.                                       *)

\* The mutants by their statuses.
KilledOnes    == {i \in DOMAIN statuses : Killed(statuses[i])}
SurvivedOnes  == {i \in DOMAIN statuses : statuses[i] = "Passed"}
UncoveredOnes == {i \in DOMAIN statuses : statuses[i] = "NotCovered"}

\* Each mutant of the list is of one of the three kinds.
LEMMA ThreeKinds ==
  ASSUME Ready
  PROVE  /\ Len(listed) \in Nat /\ DOMAIN statuses = 1..Len(listed)
         /\ Cardinality(KilledOnes) \in Nat
         /\ Cardinality(SurvivedOnes) \in Nat
         /\ Cardinality(UncoveredOnes) \in Nat
         /\ Cardinality(KilledOnes) + Cardinality(SurvivedOnes) + Cardinality(UncoveredOnes)
              = Len(listed)
<1>1. Len(listed) \in Nat /\ DOMAIN listed = 1..Len(listed)
  BY DEF Ready, ListingRight
<1>2. DOMAIN statuses = 1..Len(listed)
  BY <1>1 DEF Ready, StatusesRight
<1> DEFINE n == Len(listed)
<1> HIDE DEF n
<1>3. DOMAIN statuses = 1..n /\ n \in Nat
  BY <1>1, <1>2 DEF n
<1>4. KilledOnes \cup SurvivedOnes \cup UncoveredOnes = 1..n
  BY <1>3 DEF KilledOnes, SurvivedOnes, UncoveredOnes, Killed
<1>5. /\ KilledOnes \cap SurvivedOnes = {} /\ KilledOnes \cap UncoveredOnes = {}
      /\ SurvivedOnes \cap UncoveredOnes = {}
  BY DEF KilledOnes, SurvivedOnes, UncoveredOnes, Killed
<1> QED BY <1>2, <1>3, <1>4, <1>5, PartitionCount DEF n

\* What the IDE reporter counts.
LEMMA IDECounts ==
  /\ IDEReport.killed = Cardinality(KilledOnes)
  /\ IDEReport.survived = Cardinality(SurvivedOnes)
  /\ IDEReport.notCovered = Cardinality(UncoveredOnes)
  /\ IDEReport.score = Score(Cardinality(KilledOnes))
<1>1. Count(Killed) = Cardinality(KilledOnes)
  BY DEF Count, KilledOnes
<1>2. Count(LAMBDA s : s = "Passed") = Cardinality(SurvivedOnes)
  BY DEF Count, SurvivedOnes
<1>3. Count(LAMBDA s : s = "NotCovered") = Cardinality(UncoveredOnes)
  BY DEF Count, UncoveredOnes
<1> QED BY <1>1, <1>2, <1>3 DEF IDEReport

\* What the Elements reporter shows.
LEMMA ElementsCounts ==
  ASSUME Ready
  PROVE  /\ ElementsReport.score = Score(Cardinality(KilledOnes))
         /\ DOMAIN ElementsReport.entries = DOMAIN statuses
         /\ \A i \in DOMAIN statuses :
              ElementsReport.entries[i][2] = IF i \in KilledOnes THEN "Killed"
                                             ELSE IF i \in UncoveredOnes THEN "NoCoverage"
                                             ELSE "Survived"
<1> DEFINE notCovered == {i \in DOMAIN statuses : statuses[i] = "NotCovered"}
           killed     == {i \in DOMAIN statuses : statuses[i] # "Passed"} \ notCovered
           entries    == [i \in DOMAIN listed |->
                            <<listed[i].id, ElementsStatus(i, killed, notCovered)>>]
<1>1. notCovered = UncoveredOnes
  BY DEF UncoveredOnes
<1>2. killed = KilledOnes
  BY DEF KilledOnes, Killed
<1>3. ElementsReport = [entries |-> entries, score |-> Score(Cardinality(killed))]
  BY Zenon DEF ElementsReport
<1> HIDE DEF killed, notCovered
<1>4. \A i \in DOMAIN listed :
        entries[i][2] = IF i \in KilledOnes THEN "Killed"
                        ELSE IF i \in UncoveredOnes THEN "NoCoverage" ELSE "Survived"
  <2> SUFFICES ASSUME NEW i \in DOMAIN listed
               PROVE  entries[i][2] = ElementsStatus(i, killed, notCovered)
    BY <1>1, <1>2 DEF ElementsStatus
  <2>1. entries[i] = <<listed[i].id, ElementsStatus(i, killed, notCovered)>>
    OBVIOUS
  <2> HIDE DEF entries
  <2> QED BY <2>1
<1>5. DOMAIN entries = DOMAIN listed
  OBVIOUS
<1> HIDE DEF entries
<1>6. ElementsReport.entries = entries /\ ElementsReport.score = Score(Cardinality(killed))
  BY <1>3
<1>7. DOMAIN listed = DOMAIN statuses
  BY DEF Ready, StatusesRight
<1> QED BY <1>2, <1>4, <1>5, <1>6, <1>7

\* The reporters agree.
LEMMA Agreement ==
  ASSUME Inv PROVE ReportsAgree
<1> SUFFICES ASSUME ide # Nothing
             PROVE  /\ ide.killed + ide.survived + ide.notCovered = Len(listed)
                    /\ (ide.score = 100) = (ide.survived + ide.notCovered = 0)
                    /\ elements # Nothing =>
                         /\ elements.score = ide.score
                         /\ EntryCount("Killed") = ide.killed
                         /\ EntryCount("Survived") = ide.survived
                         /\ EntryCount("NoCoverage") = ide.notCovered
  BY DEF ReportsAgree
<1>1. Ready /\ listed # <<>> /\ ide = IDEReport
  BY DEF Inv, ReportsFresh
<1>2. /\ ide.killed = Cardinality(KilledOnes)
      /\ ide.survived = Cardinality(SurvivedOnes)
      /\ ide.notCovered = Cardinality(UncoveredOnes)
      /\ ide.score = Score(Cardinality(KilledOnes))
  BY <1>1, IDECounts
<1> DEFINE n == Len(listed)
           k == Cardinality(KilledOnes)
           s == Cardinality(SurvivedOnes)
           u == Cardinality(UncoveredOnes)
<1>3. /\ n \in Nat /\ DOMAIN statuses = 1..n
      /\ k \in Nat /\ s \in Nat /\ u \in Nat /\ k + s + u = n
  BY <1>1, ThreeKinds
<1>4. n # 0
  BY <1>1 DEF Ready, ListingRight
<1>5. ide.score = (k * 100) \div n
  BY <1>2 DEF Score
<1> HIDE DEF n, k, s, u
<1>6. (ide.score = 100) = (s + u = 0)
  <2>1. n \in Nat \ {0} /\ k \in 0..n
    BY <1>3, <1>4
  <2>2. (ide.score = 100) = (k = n)
    BY <1>5, <2>1, FullScore
  <2>3. (k = n) = (s + u = 0)
    BY <1>3
  <2> QED BY <2>2, <2>3
<1>7. ASSUME elements # Nothing
      PROVE  /\ elements.score = ide.score
             /\ EntryCount("Killed") = k /\ EntryCount("Survived") = s
             /\ EntryCount("NoCoverage") = u
  <2>1. elements = ElementsReport
    BY <1>7 DEF Inv, ReportsFresh
  <2> DEFINE e == elements.entries
  <2>2. /\ elements.score = Score(Cardinality(KilledOnes))
        /\ DOMAIN e = DOMAIN statuses
        /\ \A i \in DOMAIN statuses :
             e[i][2] = IF i \in KilledOnes THEN "Killed"
                       ELSE IF i \in UncoveredOnes THEN "NoCoverage" ELSE "Survived"
    BY <1>1, <2>1, ElementsCounts
  <2> HIDE DEF e
  <2>3. /\ KilledOnes \subseteq DOMAIN statuses /\ UncoveredOnes \subseteq DOMAIN statuses
        /\ SurvivedOnes = DOMAIN statuses \ (KilledOnes \cup UncoveredOnes)
        /\ KilledOnes \cap UncoveredOnes = {}
    BY DEF KilledOnes, SurvivedOnes, UncoveredOnes, Killed
  <2>4. /\ {i \in DOMAIN e : e[i][2] = "Killed"} = KilledOnes
        /\ {i \in DOMAIN e : e[i][2] = "Survived"} = SurvivedOnes
        /\ {i \in DOMAIN e : e[i][2] = "NoCoverage"} = UncoveredOnes
    BY <2>2, <2>3
  <2>5. /\ EntryCount("Killed") = Cardinality(KilledOnes)
        /\ EntryCount("Survived") = Cardinality(SurvivedOnes)
        /\ EntryCount("NoCoverage") = Cardinality(UncoveredOnes)
    BY <2>4 DEF EntryCount, e
  <2> QED BY <1>2, <2>2, <2>5 DEF k, s, u
<1> QED BY <1>2, <1>3, <1>6, <1>7 DEF n, k, s, u

\* A database of one run has rows of one run at most.
LEMMA OneRunCounted ==
  ASSUME OneRun PROVE DatabaseHoldsOneRun
<1> DEFINE runs == {row[1] : row \in database}
<1>1. PICK run : \A row \in database : row[1] = run
  BY DEF OneRun
<1>2. runs = {} \/ runs = {run}
  BY <1>1
<1> HIDE DEF runs
<1>3. Cardinality(runs) = 0 \/ Cardinality(runs) = 1
  BY <1>2, FS_EmptySet, FS_Singleton
<1>4. Cardinality(runs) <= 1
  BY <1>3
<1> QED BY <1>4 DEF DatabaseHoldsOneRun, runs

\* A covered mutant is run.
LEMMA CoveredRun ==
  ASSUME Inv PROVE CoveredIsRun
<1> SUFFICES ASSUME statuses # <<>>, ~dryRun
             PROVE  /\ {m.id : m \in Range(listed)} = {Id(p) : p \in Range(points)}
                    /\ \A p \in Range(points) :
                         p.covered => \E i \in DOMAIN listed :
                                        listed[i].id = Id(p) /\ statuses[i] # "NotCovered"
  BY DEF CoveredIsRun
<1>1. ListingRight /\ StatusesRight
  BY DEF Inv, Ready
<1>2. ASSUME NEW p \in Range(points), p.covered
      PROVE  \E i \in DOMAIN listed : listed[i].id = Id(p) /\ statuses[i] # "NotCovered"
  <2>1. PICK i \in DOMAIN listed : listed[i].id = Id(p) /\ listed[i].covered
    BY <1>1, <1>2 DEF ListingRight
  <2>2. statuses[i] # "NotCovered"
    BY <1>1, <2>1 DEF StatusesRight
  <2> QED BY <2>1, <2>2
<1>3. {m.id : m \in Range(listed)} = {Id(p) : p \in Range(points)}
  BY <1>1 DEF ListingRight
<1> QED BY <1>2, <1>3

\* All parts of the property.
LEMMA InvRight == Inv => ReportsRight
<1> SUFFICES ASSUME Inv PROVE ReportsRight
  OBVIOUS
<1>1. OneRun
  BY DEF Inv
<1> QED BY <1>1, Agreement, OneRunCounted, CoveredRun DEF ReportsRight

-------------------------------------------------------------------------------
(* The two lists of mutants.                                               *)

\* What is assumed of the points at hand.
LEMMA PointFacts ==
  ASSUME points \in PointLists
  PROVE  /\ points \in Seq(Range(points))
         /\ \A p \in Range(points) :
              p.covered \in BOOLEAN /\ p.path # <<>> /\ p.path \in Seq(Range(p.path))
BY ReportsAssumption

\* mull-cxx's list.
LEMMA DeduplicatedRight ==
  ASSUME points \in PointLists, NEW list, list = DeduplicatedMutants
  PROVE  /\ list \in Seq(Range(list))
         /\ {m.id : m \in Range(list)} = {Id(p) : p \in Range(points)}
         /\ \A p \in Range(points) :
              p.covered => \E i \in DOMAIN list : list[i].id = Id(p) /\ list[i].covered
<1> DEFINE P == Range(points)
           mutant(p) == [id |-> Id(p), covered |-> \E q \in P : Id(q) = Id(p) /\ q.covered]
           S == {mutant(p) : p \in P}
           f == [p \in P |-> mutant(p)]
<1>1. IsFiniteSet(P)
  BY PointFacts, RangeFinite
<1>2. list = SetToSeq(S)
  BY Zenon DEF DeduplicatedMutants
<1>3. \A p \in P : /\ mutant(p).id = Id(p)
                   /\ mutant(p).covered = \E q \in P : Id(q) = Id(p) /\ q.covered
  OBVIOUS
<1> HIDE DEF mutant, P
<1>4. IsFiniteSet(S)
  <2>1. f \in Surjection(P, S)
    <3>1. f \in [P -> S]
      OBVIOUS
    <3>2. \A t \in S : \E p \in P : f[p] = t
      OBVIOUS
    <3> QED BY <3>1, <3>2, Zenon DEF Surjection
  <2> HIDE DEF f, S
  <2> QED BY <1>1, <2>1, FS_Surjection
<1>5. {m.id : m \in S} = {Id(p) : p \in P}
  BY <1>3
<1>6. \A p \in P : mutant(p) \in S
  OBVIOUS
<1> HIDE DEF S, f
<1>7. list \in Seq(S) /\ Range(list) = S
  BY <1>2, <1>4, SetToSeqFacts
<1>8. ASSUME NEW p \in P, p.covered
      PROVE  \E i \in DOMAIN list : list[i].id = Id(p) /\ list[i].covered
  <2>1. mutant(p).id = Id(p) /\ mutant(p).covered
    BY <1>3, <1>8
  <2>2. PICK i \in DOMAIN list : list[i] = mutant(p)
    BY <1>6, <1>7 DEF Range
  <2> QED BY <2>1, <2>2
<1> QED BY <1>5, <1>7, <1>8 DEF P

\* mull-runner's list, when all records can be read.
LEMMA ExtractedRight ==
  ASSUME points \in PointLists, NEW list, list = ExtractMutants,
         \A p \in Range(points) : Readable(RecordMutation(p))
  PROVE  /\ list \in Seq(Range(list))
         /\ {m.id : m \in Range(list)} = {Id(p) : p \in Range(points)}
         /\ \A p \in Range(points) :
              p.covered => \E i \in DOMAIN list : list[i].id = Id(p) /\ list[i].covered
<1>1. list = [i \in DOMAIN points |-> ReadMutant(RecordMutation(points[i]))]
  BY DEF ExtractMutants
<1>2. points \in Seq(Range(points)) /\ Len(points) \in Nat /\ DOMAIN points = 1..Len(points)
  BY PointFacts
<1>3. \A i \in DOMAIN points : list[i].id = Id(points[i]) /\ list[i].covered = points[i].covered
  <2> SUFFICES ASSUME NEW i \in DOMAIN points
               PROVE  list[i].id = Id(points[i]) /\ list[i].covered = points[i].covered
    OBVIOUS
  <2>1. points[i] \in Range(points)
    BY DEF Range
  <2>2. /\ points[i].path # <<>> /\ points[i].path \in Seq(Range(points[i].path))
        /\ points[i].covered \in BOOLEAN /\ Readable(RecordMutation(points[i]))
    BY <2>1, PointFacts
  <2>3. list[i] = ReadMutant(RecordMutation(points[i]))
    BY <1>1
  <2> QED BY <2>2, <2>3, RecordFacts
<1>4. DOMAIN list = DOMAIN points
  BY <1>1
<1>5. list \in [1..Len(points) -> Range(list)]
  <2>1. \A i \in DOMAIN list : list[i] \in Range(list)
    BY DEF Range
  <2>2. list = [i \in DOMAIN list |-> list[i]]
    BY <1>1
  <2> QED BY <1>2, <1>4, <2>1, <2>2
<1>6. list \in Seq(Range(list))
  BY <1>2, <1>5
<1>7. {m.id : m \in Range(list)} = {Id(p) : p \in Range(points)}
  BY <1>3, <1>4 DEF Range
<1>8. ASSUME NEW p \in Range(points), p.covered
      PROVE  \E i \in DOMAIN list : list[i].id = Id(p) /\ list[i].covered
  <2>1. PICK i \in DOMAIN points : points[i] = p
    BY DEF Range
  <2> QED BY <1>3, <1>4, <1>8, <2>1
<1> QED BY <1>6, <1>7, <1>8

-------------------------------------------------------------------------------
(* The invariant is kept.                                                  *)

\* A step that leaves the points, the list and the statuses alone leaves what
\* is said of them.
LEMMA ReadyKept ==
  ASSUME UNCHANGED <<dryRun, points, listed, statuses>>
  PROVE  /\ ListingRight' = ListingRight
         /\ Ready' = Ready
         /\ IDEReport' = IDEReport
         /\ ElementsReport' = ElementsReport
<1>1. dryRun' = dryRun /\ points' = points /\ listed' = listed /\ statuses' = statuses
  OBVIOUS
<1>2. ListingRight' = ListingRight
  BY <1>1 DEF ListingRight
<1>3. StatusesRight' = StatusesRight
  BY <1>1 DEF StatusesRight
<1>4. IDEReport' = IDEReport
  BY <1>1 DEF IDEReport, Count, Score
<1>5. ElementsReport' = ElementsReport
  BY <1>1 DEF ElementsReport, Score
<1> QED BY <1>2, <1>3, <1>4, <1>5 DEF Ready

LEMMA InitInv == ReportInit => Inv
<1> SUFFICES ASSUME ReportInit PROVE Inv
  OBVIOUS
<1>1. /\ points \in PointLists /\ statuses = <<>> /\ ide = Nothing /\ elements = Nothing
      /\ at = "reporters" /\ database \in {{}, {<<"earlier", <<>>, "Passed">>}}
  BY DEF ReportInit
<1>2. OneRun
  BY <1>1 DEF OneRun
<1> QED BY <1>1, <1>2 DEF Inv, ReportsFresh

\* The steps before there are statuses.
LEMMA EarlyInv ==
  ASSUME Inv, CreateReporters \/ ListMutants
  PROVE  Inv'
<1>1. /\ statuses = <<>> /\ ide = Nothing /\ elements = Nothing /\ points \in PointLists
      /\ OneRun
  BY DEF Inv, CreateReporters, ListMutants
<1>2. /\ statuses' = statuses /\ ide' = ide /\ elements' = elements /\ points' = points
      /\ database' = database /\ at' # "report"
  BY DEF CreateReporters, ListMutants
<1>3. OneRun'
  BY <1>1, <1>2 DEF OneRun
<1>4. ASSUME at' = "run" PROVE ListingRight'
  <2>1. ListMutants /\ (tool = "mull-cxx"
          \/ \A p \in Range(points) : Readable(RecordMutation(p)))
    BY <1>4 DEF CreateReporters, ListMutants
  <2>2. CASE tool = "mull-cxx"
    <3>1. listed' = DeduplicatedMutants
      BY <2>1, <2>2 DEF ListMutants
    <3> QED BY <1>1, <1>2, <3>1, DeduplicatedRight DEF ListingRight
  <2>3. CASE tool # "mull-cxx"
    <3>1. listed' = ExtractMutants /\ \A p \in Range(points) : Readable(RecordMutation(p))
      BY <1>4, <2>1, <2>3 DEF ListMutants
    <3> QED BY <1>1, <1>2, <3>1, ExtractedRight DEF ListingRight
  <2> QED BY <2>2, <2>3
<1>5. points' \in PointLists /\ statuses' = <<>> /\ ide' = Nothing /\ elements' = Nothing
  BY <1>1, <1>2 DEF Nothing
<1> QED BY <1>2, <1>3, <1>4, <1>5 DEF Inv, ReportsFresh

\* The run of the mutants.
LEMMA RunInv ==
  ASSUME Inv, RunListed
  PROVE  Inv'
<1>1. /\ ide = Nothing /\ elements = Nothing /\ points \in PointLists /\ OneRun /\ ListingRight
  BY DEF Inv, RunListed
<1>2. /\ ide' = ide /\ elements' = elements /\ points' = points /\ database' = database
      /\ listed' = listed /\ dryRun' = dryRun /\ at' = "report"
  BY DEF RunListed
<1>3. PICK outcome \in [{Id(p) : p \in Range(points)} -> Outcomes] :
        statuses' = [i \in DOMAIN listed |->
                      IF dryRun THEN "DryRun"
                      ELSE IF listed[i].covered THEN outcome[listed[i].id] ELSE "NotCovered"]
  BY DEF RunListed
<1>4. ASSUME ~dryRun, NEW i \in DOMAIN listed, listed[i].covered
      PROVE  statuses'[i] # "NotCovered"
  <2>1. listed[i].id \in {m.id : m \in Range(listed)}
    BY DEF Range
  <2>2. listed[i].id \in {Id(p) : p \in Range(points)}
    BY <1>1, <2>1 DEF ListingRight
  <2>3. outcome[listed[i].id] \in Outcomes
    BY <2>2
  <2>4. statuses'[i] = outcome[listed[i].id]
    BY <1>3, <1>4
  <2> QED BY <2>3, <2>4, ReportsAssumption
<1>5. StatusesRight'
  BY <1>2, <1>3, <1>4 DEF StatusesRight
<1>6. ListingRight'
  BY <1>1, <1>2 DEF ListingRight
<1>7. OneRun'
  BY <1>1, <1>2 DEF OneRun
<1>8. points' \in PointLists /\ ide' = Nothing /\ elements' = Nothing
  BY <1>1, <1>2 DEF Nothing
<1> QED BY <1>2, <1>5, <1>6, <1>7, <1>8 DEF Inv, ReportsFresh, Ready

\* A reporter.
LEMMA ReporterInv ==
  ASSUME Inv, ReportIDE \/ ReportElements \/ ReportSQLite
  PROVE  Inv'
<1>1. points \in PointLists /\ Ready /\ OneRun /\ ReportsFresh
  BY DEF Inv, ReportIDE, ReportElements, ReportSQLite, Reports
<1>2. UNCHANGED <<dryRun, points, listed, statuses>>
  BY DEF ReportIDE, ReportElements, ReportSQLite
<1>3. at' \notin {"reporters", "mutants", "run"}
  BY DEF ReportIDE, ReportElements, ReportSQLite, Finished
<1>4. /\ points' \in PointLists /\ Ready'
      /\ IDEReport' = IDEReport /\ ElementsReport' = ElementsReport
  BY <1>1, <1>2, ReadyKept
<1>5. ide' # Nothing => listed # <<>> /\ ide' = IDEReport
  <2>1. CASE ReportIDE
    BY <2>1 DEF ReportIDE
  <2>2. CASE ide' = ide
    BY <1>1, <2>2 DEF ReportsFresh
  <2> QED BY <2>1, <2>2 DEF ReportElements, ReportSQLite
<1>6. elements' # Nothing => listed # <<>> /\ elements' = ElementsReport
  <2>1. CASE ReportElements
    BY <2>1 DEF ReportElements
  <2>2. CASE elements' = elements
    BY <1>1, <2>2 DEF ReportsFresh
  <2> QED BY <2>1, <2>2 DEF ReportIDE, ReportSQLite
<1>7. ReportsFresh'
  BY <1>2, <1>4, <1>5, <1>6 DEF ReportsFresh, Nothing
<1>8. OneRun'
  <2>1. CASE database' = database
    BY <1>1, <2>1 DEF OneRun
  <2>2. CASE /\ database = {}
             /\ database' = database \cup {<<"this", listed[i].id, statuses[i]>> : i \in DOMAIN listed}
    <3>1. \A row \in database' : row[1] = "this"
      BY <2>2
    <3> QED BY <3>1 DEF OneRun
  <2> QED BY <2>1, <2>2 DEF ReportIDE, ReportElements, ReportSQLite, CreateTables
<1> QED BY <1>3, <1>4, <1>7, <1>8 DEF Inv

\* Every step of mull-cxx or mull-runner keeps the invariant: the list of the
\* mutants is right when it is there, and the reports are of that list.
THEOREM Invariance == ReportSpec => []Inv
<1>1. ReportInit => Inv
  BY InitInv
<1>2. Inv /\ [ReportNext]_reportVars => Inv'
  <2> SUFFICES ASSUME Inv, [ReportNext]_reportVars PROVE Inv'
    OBVIOUS
  <2>1. CASE ReportNext
    BY <2>1, EarlyInv, RunInv, ReporterInv DEF ReportNext
  <2>2. CASE UNCHANGED reportVars
    <3>1. /\ UNCHANGED <<dryRun, points, listed, statuses>>
          /\ at' = at /\ ide' = ide /\ elements' = elements /\ database' = database
          /\ points' = points /\ statuses' = statuses /\ listed' = listed
      BY <2>2 DEF reportVars
    <3>2. /\ ListingRight' = ListingRight /\ Ready' = Ready
          /\ IDEReport' = IDEReport /\ ElementsReport' = ElementsReport
      BY <3>1, ReadyKept
    <3>3. OneRun'
      BY <3>1 DEF Inv, OneRun
    <3>4. ReportsFresh'
      BY <3>1, <3>2 DEF Inv, ReportsFresh, Nothing
    <3> QED BY <3>1, <3>2, <3>3, <3>4 DEF Inv, Nothing
  <2> QED BY <2>1, <2>2
<1> QED BY <1>1, <1>2, PTL DEF ReportSpec

\* For all programs, reporters and outcomes: the IDE and the Elements reporter
\* agree on the counts and the score of every run, the database holds one run,
\* and both tools run each mutant that has a covered point.
THEOREM ReportsReliable == ReportSpec => []ReportsRight
BY Invariance, InvRight, PTL

-------------------------------------------------------------------------------
(* Sets of numbers in ascending order.                                     *)

\* The ranks of the elements of a finite set are the numbers up to its size,
\* in the order of the elements.
LEMMA RankFacts ==
  ASSUME NEW S, S \subseteq Nat, IsFiniteSet(S)
  PROVE  /\ Cardinality(S) \in Nat
         /\ \A x \in S : Rank(S, x) \in 1..Cardinality(S)
         /\ \A x, y \in S : x < y => Rank(S, x) < Rank(S, y)
         /\ \A x, y \in S : Rank(S, x) = Rank(S, y) => x = y
         /\ \A k \in 1..Cardinality(S) : \E x \in S : Rank(S, x) = k
<1> DEFINE Below(x) == {y \in S : y <= x}
           n == Cardinality(S)
           r == [x \in S |-> Rank(S, x)]
<1>1. n \in Nat
  BY FS_CardinalityType
<1>2. ASSUME NEW x \in S
      PROVE  IsFiniteSet(Below(x)) /\ Cardinality(Below(x)) \in Nat /\ Cardinality(Below(x)) <= n
  <2>1. Below(x) \in SUBSET S
    OBVIOUS
  <2> HIDE DEF Below
  <2> QED BY <2>1, FS_Subset, FS_CardinalityType
<1>3. ASSUME NEW x \in S PROVE Rank(S, x) \in 1..n
  <2>1. Below(x) # {}
    OBVIOUS
  <2>2. Cardinality(Below(x)) # 0
    <3> HIDE DEF Below
    <3> QED BY <1>2, <2>1, FS_EmptySet
  <2>3. Rank(S, x) = Cardinality(Below(x))
    BY DEF Rank
  <2> HIDE DEF Below, n
  <2> QED BY <1>1, <1>2, <2>2, <2>3 DEF n
<1>4. ASSUME NEW x \in S, NEW y \in S, x < y PROVE Rank(S, x) < Rank(S, y)
  <2>0. \A z \in S : z \in Nat
    OBVIOUS
  <2>1. Below(x) \in SUBSET Below(y) /\ y \in Below(y) /\ y \notin Below(x)
    <3>1. \A z \in S : z <= x => z <= y
      BY <1>4, <2>0
    <3>2. y <= y /\ ~(y <= x)
      BY <1>4, <2>0
    <3> QED BY <3>1, <3>2
  <2>2. Rank(S, x) = Cardinality(Below(x)) /\ Rank(S, y) = Cardinality(Below(y))
    BY DEF Rank
  <2> HIDE DEF Below
  <2>3. Cardinality(Below(x)) <= Cardinality(Below(y)) /\ Cardinality(Below(x)) # Cardinality(Below(y))
    BY <1>2, <2>1, FS_Subset
  <2> QED BY <1>2, <2>2, <2>3
<1>5. ASSUME NEW x \in S, NEW y \in S, Rank(S, x) = Rank(S, y) PROVE x = y
  <2>1. Rank(S, x) \in 1..n /\ Rank(S, y) \in 1..n
    BY <1>3
  <2>2. ~(x < y) /\ ~(y < x)
    BY <1>1, <1>4, <1>5, <2>1
  <2>3. x \in Nat /\ y \in Nat
    OBVIOUS
  <2> QED BY <2>2, <2>3
<1>6. r \in Injection(S, 1..n)
  BY <1>3, <1>5 DEF Injection, IsInjective
<1>7. IsFiniteSet(1..n) /\ Cardinality(1..n) = n
  <2> HIDE DEF n
  <2> QED BY <1>1, FS_Interval
<1>8. r \in Surjection(S, 1..n)
  <2> HIDE DEF r
  <2> QED BY <1>6, <1>7, FS_Injection
<1>9. \A k \in 1..n : \E x \in S : r[x] = k
  <2> HIDE DEF r, n
  <2> QED BY <1>8 DEF Surjection
<1> QED BY <1>1, <1>3, <1>4, <1>5, <1>9

\* The ascending sequence of a finite set: the element of rank k is at place k.
LEMMA AscendingFacts ==
  ASSUME NEW S, S \subseteq Nat, IsFiniteSet(S)
  PROVE  /\ DOMAIN Ascending(S) = 1..Cardinality(S) /\ Cardinality(S) \in Nat
         /\ Ascending(S) \in Seq(Nat) /\ Len(Ascending(S)) = Cardinality(S)
         /\ \A k \in 1..Cardinality(S) : Ascending(S)[k] \in S
         /\ \A k \in 1..Cardinality(S) : Rank(S, Ascending(S)[k]) = k
         /\ \A x \in S : Ascending(S)[Rank(S, x)] = x
         /\ \A i, j \in 1..Cardinality(S) : i < j => Ascending(S)[i] < Ascending(S)[j]
<1> DEFINE q == Ascending(S)
           n == Cardinality(S)
<1>1. n \in Nat
  BY RankFacts
<1>2. q = [k \in 1..n |-> CHOOSE x \in S : Rank(S, x) = k]
  BY DEF Ascending
<1>3. \A k \in 1..n : q[k] \in S /\ Rank(S, q[k]) = k
  <2> SUFFICES ASSUME NEW k \in 1..n PROVE q[k] \in S /\ Rank(S, q[k]) = k
    OBVIOUS
  <2>1. \E x \in S : Rank(S, x) = k
    BY RankFacts
  <2>2. q[k] = CHOOSE x \in S : Rank(S, x) = k
    BY <1>2
  <2> HIDE DEF q, n
  <2> QED BY <2>1, <2>2
<1> HIDE DEF q
<1>r. /\ \A x \in S : Rank(S, x) \in 1..n
      /\ \A x, y \in S : x < y => Rank(S, x) < Rank(S, y)
      /\ \A x, y \in S : Rank(S, x) = Rank(S, y) => x = y
  BY RankFacts
<1>4. \A x \in S : q[Rank(S, x)] = x
  <2> SUFFICES ASSUME NEW x \in S PROVE q[Rank(S, x)] = x
    OBVIOUS
  <2>1. PICK k \in 1..n : k = Rank(S, x)
    BY <1>r
  <2>2. q[k] \in S /\ Rank(S, q[k]) = Rank(S, x)
    BY <1>3, <2>1
  <2> QED BY <1>r, <2>1, <2>2
<1>5. ASSUME NEW i \in 1..n, NEW j \in 1..n, i < j PROVE q[i] < q[j]
  <2>1. q[i] \in S /\ q[j] \in S /\ Rank(S, q[i]) = i /\ Rank(S, q[j]) = j
    BY <1>3
  <2>2. ~(q[j] < q[i]) /\ q[i] # q[j]
    <3>1. q[j] < q[i] => Rank(S, q[j]) < Rank(S, q[i])
      BY <1>r, <2>1
    <3> HIDE DEF n
    <3> QED BY <1>1, <1>5, <2>1, <3>1
  <2>3. q[i] \in Nat /\ q[j] \in Nat
    BY <2>1
  <2> QED BY <2>2, <2>3
<1>6. DOMAIN q = 1..n /\ q \in [1..n -> Nat]
  <2>1. \A k \in 1..n : q[k] \in Nat
    BY <1>3
  <2> QED BY <1>2, <2>1
<1>7. q \in Seq(Nat) /\ Len(q) = n
  <2> HIDE DEF n
  <2> QED BY <1>1, <1>6
<1> QED BY <1>1, <1>3, <1>4, <1>5, <1>6, <1>7 DEF q

\* A number above all others is the last.
LEMMA AscendingAppend ==
  ASSUME NEW S, S \subseteq Nat, IsFiniteSet(S), NEW max \in Nat, \A x \in S : x < max
  PROVE  /\ Cardinality(S \cup {max}) = Cardinality(S) + 1
         /\ IsFiniteSet(S \cup {max})
         /\ \A k \in 1..Cardinality(S) : Ascending(S \cup {max})[k] = Ascending(S)[k]
         /\ Ascending(S \cup {max})[Cardinality(S) + 1] = max
<1> DEFINE T == S \cup {max}
           n == Cardinality(S)
<1>0. \A x \in S : x \in Nat /\ x < max
  OBVIOUS
<1>1. max \notin S
  BY <1>0
<1>2. IsFiniteSet(T) /\ Cardinality(T) = n + 1 /\ n \in Nat
  BY <1>1, FS_AddElement, FS_CardinalityType
<1>3. T \subseteq Nat
  BY <1>0
<1>4. \A x \in S : Rank(T, x) = Rank(S, x)
  <2> SUFFICES ASSUME NEW x \in S PROVE Rank(T, x) = Rank(S, x)
    OBVIOUS
  <2>1. ~(max <= x)
    BY <1>0
  <2>2. {y \in T : y <= x} = {y \in S : y <= x}
    BY <2>1
  <2> QED BY <2>2 DEF Rank
<1>5. Rank(T, max) = n + 1
  <2>1. \A y \in T : y <= max
    BY <1>0
  <2>2. {y \in T : y <= max} = T
    BY <2>1
  <2> QED BY <1>2, <2>2 DEF Rank
<1> HIDE DEF T
<1>6. \A x \in T : Ascending(T)[Rank(T, x)] = x
  BY <1>2, <1>3, AscendingFacts
<1>7. \A k \in 1..n : Ascending(S)[k] \in S /\ Rank(S, Ascending(S)[k]) = k
  BY AscendingFacts
<1>8. \A k \in 1..n : Ascending(T)[k] = Ascending(S)[k]
  BY <1>4, <1>6, <1>7 DEF T
<1>9. Ascending(T)[n + 1] = max
  BY <1>5, <1>6 DEF T
<1> QED BY <1>2, <1>8, <1>9 DEF T

-------------------------------------------------------------------------------
(* The lines of a file and the table of offsets.                           *)

\* The newlines of a file are finitely many places in it.
LEMMA NewlineFacts ==
  ASSUME NEW f \in Files
  PROVE  /\ f \in Seq(Range(f)) /\ Len(f) \in Nat /\ DOMAIN f = 1..Len(f)
         /\ Newlines(f) \subseteq 1..Len(f) /\ Newlines(f) \subseteq Nat
         /\ IsFiniteSet(Newlines(f)) /\ Cardinality(Newlines(f)) \in Nat
<1>1. f \in Seq(Range(f))
  BY SourceAssumption
<1>2. Len(f) \in Nat /\ DOMAIN f = 1..Len(f)
  BY <1>1
<1>3. Newlines(f) \subseteq 1..Len(f)
  BY <1>2 DEF Newlines
<1>4. IsFiniteSet(1..Len(f))
  BY <1>2, FS_Interval
<1>5. IsFiniteSet(Newlines(f)) /\ Cardinality(Newlines(f)) \in Nat
  BY <1>3, <1>4, FS_Subset, FS_CardinalityType
<1>6. 1..Len(f) \subseteq Nat
  BY <1>2
<1> QED BY <1>1, <1>2, <1>3, <1>5, <1>6

\* The table has a place for the beginning, one for each newline, and the end.
LEMMA OffsetFacts ==
  ASSUME NEW f \in Files, NEW m, m = Cardinality(Newlines(f)),
         NEW o, o = GetLineOffset(f)
  PROVE  /\ Len(o) = m + 2 /\ m \in Nat
         /\ o[1] = 0 /\ o[m + 2] = Len(f) + 1
         /\ \A k \in 1..m : o[k + 1] = Ascending(Newlines(f))[k]
<1> DEFINE a == Ascending(Newlines(f))
           b == <<0>>
           e == <<Len(f) + 1>>
<1>1. a \in Seq(Nat) /\ Len(a) = m /\ m \in Nat
  BY NewlineFacts, AscendingFacts
<1>2. b \in Seq(Nat) /\ Len(b) = 1 /\ b[1] = 0
  OBVIOUS
<1>3. e \in Seq(Nat) /\ Len(e) = 1 /\ e[1] = Len(f) + 1
  BY NewlineFacts
<1>4. o = (b \o a) \o e
  BY DEF GetLineOffset
<1> HIDE DEF a, b, e
<1>5. /\ b \o a \in Seq(Nat) /\ Len(b \o a) = Len(b) + Len(a)
      /\ \A i \in 1..Len(b) + Len(a) : (b \o a)[i] = IF i <= Len(b) THEN b[i] ELSE a[i - Len(b)]
  BY <1>1, <1>2, ConcatProperties
<1> DEFINE c == b \o a
<1>6. /\ c \in Seq(Nat) /\ Len(c) = m + 1 /\ c[1] = 0
      /\ \A k \in 1..m : c[k + 1] = a[k]
  <2> HIDE DEF c
  <2>1. /\ c \in Seq(Nat) /\ Len(c) = Len(b) + Len(a)
        /\ \A i \in 1..Len(b) + Len(a) : c[i] = IF i <= Len(b) THEN b[i] ELSE a[i - Len(b)]
    BY <1>5 DEF c
  <2>2. Len(c) = m + 1
    BY <1>1, <1>2, <2>1
  <2>3. c[1] = 0
    BY <1>1, <1>2, <2>1
  <2>4. ASSUME NEW k \in 1..m PROVE c[k + 1] = a[k]
    <3>1. k + 1 \in 1..Len(b) + Len(a) /\ ~(k + 1 <= Len(b)) /\ (k + 1) - Len(b) = k
      BY <1>1, <1>2
    <3> QED BY <2>1, <3>1
  <2> QED BY <2>1, <2>2, <2>3, <2>4
<1>7. o = c \o e
  BY <1>4
<1> HIDE DEF c
<1>8. /\ Len(o) = Len(c) + Len(e)
      /\ \A i \in 1..Len(c) + Len(e) : o[i] = IF i <= Len(c) THEN c[i] ELSE e[i - Len(c)]
  <2>1. /\ Len(c \o e) = Len(c) + Len(e)
        /\ \A i \in 1..Len(c) + Len(e) : (c \o e)[i] = IF i <= Len(c) THEN c[i] ELSE e[i - Len(c)]
    BY <1>3, <1>6, ConcatProperties
  <2> QED BY <1>7, <2>1
<1>9. Len(o) = m + 2 /\ o[1] = 0 /\ o[m + 2] = Len(f) + 1
  <2>0. Len(c) = m + 1 /\ Len(e) = 1 /\ m \in Nat
    BY <1>1, <1>3, <1>6
  <2>1. /\ 1 \in 1..Len(c) + Len(e) /\ 1 <= Len(c) /\ Len(c) + Len(e) = m + 2
        /\ m + 2 \in 1..Len(c) + Len(e) /\ ~(m + 2 <= Len(c)) /\ (m + 2) - Len(c) = 1
    BY <2>0
  <2> QED BY <1>3, <1>6, <1>8, <2>1
<1>10. ASSUME NEW k \in 1..m PROVE o[k + 1] = a[k]
  <2>1. k + 1 \in 1..Len(c) + Len(e) /\ k + 1 <= Len(c)
    BY <1>1, <1>3, <1>6
  <2> QED BY <1>6, <1>8, <2>1
<1> QED BY <1>1, <1>9, <1>10 DEF a

\* Where the lines end: at the newlines, and at the end of the file if that is
\* none of them.
LEMMA LineEndFacts ==
  ASSUME NEW f \in Files, NEW m, m = Cardinality(Newlines(f))
  PROVE  \/ /\ f = <<>> \/ Len(f) \in Newlines(f)
            /\ LineEnds(f) = Ascending(Newlines(f)) /\ DOMAIN LineEnds(f) = 1..m
         \/ /\ f # <<>> /\ Len(f) \notin Newlines(f)
            /\ DOMAIN LineEnds(f) = 1..m + 1
            /\ \A k \in 1..m : LineEnds(f)[k] = Ascending(Newlines(f))[k]
            /\ LineEnds(f)[m + 1] = Len(f)
<1> DEFINE N == Newlines(f)
<1>1. CASE f = <<>> \/ Len(f) \in N
  <2>1. N \cup (IF f = <<>> THEN {} ELSE {Len(f)}) = N
    BY <1>1
  <2>2. LineEnds(f) = Ascending(N)
    BY <2>1 DEF LineEnds
  <2>3. DOMAIN Ascending(N) = 1..m
    BY NewlineFacts, AscendingFacts
  <2> QED BY <1>1, <2>2, <2>3
<1>2. CASE f # <<>> /\ Len(f) \notin N
  <2> DEFINE T == N \cup {Len(f)}
  <2>1. LineEnds(f) = Ascending(T)
    <3>1. N \cup (IF f = <<>> THEN {} ELSE {Len(f)}) = T
      BY <1>2
    <3> QED BY <3>1 DEF LineEnds
  <2>2. Len(f) \in Nat /\ N \subseteq Nat /\ IsFiniteSet(N) /\ N \subseteq 1..Len(f)
    BY NewlineFacts
  <2>3. \A x \in N : x < Len(f)
    BY <1>2, <2>2
  <2> HIDE DEF N
  <2>4. /\ Cardinality(T) = m + 1 /\ IsFiniteSet(T)
        /\ \A k \in 1..m : Ascending(T)[k] = Ascending(N)[k]
        /\ Ascending(T)[m + 1] = Len(f)
    BY <2>2, <2>3, AscendingAppend DEF N
  <2>5. T \subseteq Nat
    BY <2>2
  <2>6. DOMAIN Ascending(T) = 1..Cardinality(T)
    <3> HIDE DEF T
    <3> QED BY <2>4, <2>5, AscendingFacts
  <2> QED BY <1>2, <2>1, <2>4, <2>6 DEF N
<1> QED BY <1>1, <1>2

\* Line n begins at its place in the table o and ends at last.
LineAt(f, o, n, last) ==
  /\ n <= GetNumberOfLines(o)
  /\ Lines(f)[n] = SubSeq(f, o[n] + 1, last)
  /\ o[n] \in Nat /\ o[n] < last
  /\ \/ o[n + 1] = last /\ f[last] = NL
     \/ o[n + 1] = Len(f) + 1 /\ last = Len(f) /\ f[last] # NL

\* A line begins at its place in the table, and ends at the next one, or at the
\* end of a file without a last newline; there is one place more in a file with
\* one, at its end.
LEMMA LineFacts ==
  ASSUME NEW f \in Files, NEW o, o = GetLineOffset(f), NEW n \in Nat
  PROVE  /\ n \in DOMAIN Lines(f) => \E last \in 1..Len(f) : LineAt(f, o, n, last)
         /\ n \notin DOMAIN Lines(f) /\ n \in 1..GetNumberOfLines(o) =>
              o[n] = Len(f) /\ o[n + 1] = Len(f) + 1
         /\ GetNumberOfLines(o) \in Nat
<1> DEFINE N == Newlines(f)
           a == Ascending(N)
           ends == LineEnds(f)
           L == Len(f)
<1> HIDE DEF N, a, ends, L
<1>m. PICK m \in Nat : m = Cardinality(N)
  BY NewlineFacts DEF N
<1>1. /\ Len(o) = m + 2 /\ o[1] = 0 /\ o[m + 2] = L + 1
      /\ \A k \in 1..m : o[k + 1] = a[k]
  BY <1>m, OffsetFacts DEF N, a, L
<1>2. GetNumberOfLines(o) = m + 1
  BY <1>1 DEF GetNumberOfLines
<1>3. L \in Nat /\ DOMAIN f = 1..L /\ N \subseteq 1..L /\ \A i \in 1..L : i \in N <=> f[i] = NL
  BY NewlineFacts DEF N, L, Newlines
<1>4. /\ \A k \in 1..m : a[k] \in N /\ Rank(N, a[k]) = k
      /\ \A x \in N : a[Rank(N, x)] = x
      /\ \A i, j \in 1..m : i < j => a[i] < a[j]
  BY <1>m, NewlineFacts, AscendingFacts DEF N, a
<1>5. /\ DOMAIN Lines(f) = DOMAIN ends
      /\ \A k \in DOMAIN ends :
           Lines(f)[k] = SubSeq(f, IF k = 1 THEN 1 ELSE ends[k - 1] + 1, ends[k])
  BY DEF Lines, ends
<1>6. \/ /\ f = <<>> \/ L \in N
         /\ ends = a /\ DOMAIN ends = 1..m
      \/ /\ f # <<>> /\ L \notin N
         /\ DOMAIN ends = 1..m + 1
         /\ \A k \in 1..m : ends[k] = a[k]
         /\ ends[m + 1] = L
  BY <1>m, LineEndFacts DEF N, a, ends, L
<1>7. DOMAIN ends \subseteq 1..m + 1 /\ \A k \in 1..m : k \in DOMAIN ends /\ ends[k] = a[k]
  <2>1. 1..m \subseteq 1..m + 1
    BY <1>m
  <2> QED BY <1>6, <2>1
\* The beginning of line k.
<1>8. \A k \in 1..m + 1 : o[k] = IF k = 1 THEN 0 ELSE a[k - 1]
  <2> SUFFICES ASSUME NEW k \in 1..m + 1, k # 1 PROVE o[k] = a[k - 1]
    BY <1>1
  <2>1. k - 1 \in 1..m /\ (k - 1) + 1 = k
    BY <1>m
  <2> QED BY <1>1, <2>1
<1>9. ASSUME n \in DOMAIN ends
      PROVE  \E last \in 1..L :
                 /\ n <= m + 1
                 /\ Lines(f)[n] = SubSeq(f, o[n] + 1, last)
                 /\ o[n] \in Nat /\ o[n] < last
                 /\ \/ o[n + 1] = last /\ f[last] = NL
                    \/ o[n + 1] = L + 1 /\ last = L /\ f[last] # NL
  <2>1. n \in 1..m + 1 /\ n <= m + 1
    BY <1>m, <1>7, <1>9
  <2>2. Lines(f)[n] = SubSeq(f, o[n] + 1, ends[n])
    <3>1. CASE n = 1
      <4>1. o[n] + 1 = 1
        BY <1>1, <3>1
      <4> QED BY <1>5, <1>9, <3>1, <4>1
    <3>2. CASE n # 1
      <4>1. n - 1 \in 1..m
        BY <1>m, <2>1, <3>2
      <4>2. o[n] = ends[n - 1]
        BY <1>7, <1>8, <2>1, <3>2, <4>1
      <4> QED BY <1>5, <1>9, <3>2, <4>2
    <3> QED BY <3>1, <3>2
  <2>3. o[n] \in Nat
    <3>1. CASE n = 1
      BY <1>1, <3>1
    <3>2. CASE n # 1
      <4>1. n - 1 \in 1..m
        BY <1>m, <2>1, <3>2
      <4>2. o[n] \in 1..L
        BY <1>3, <1>4, <1>8, <2>1, <3>2, <4>1
      <4> QED BY <1>3, <4>2
    <3> QED BY <3>1, <3>2
  <2>4. CASE n \in 1..m
    <3>1. ends[n] = a[n] /\ a[n] \in 1..L /\ f[a[n]] = NL /\ o[n + 1] = a[n]
      BY <1>1, <1>3, <1>4, <1>7, <2>4
    <3>2. o[n] < a[n]
      <4>1. CASE n = 1
        BY <1>1, <1>3, <3>1, <4>1
      <4>2. CASE n # 1
        <5>1. n - 1 \in 1..m /\ n - 1 < n
          BY <1>m, <2>4, <4>2
        <5>2. o[n] = a[n - 1]
          BY <1>8, <2>1, <4>2
        <5> QED BY <1>4, <2>4, <5>1, <5>2
      <4> QED BY <4>1, <4>2
    <3> QED BY <2>1, <2>2, <2>3, <3>1, <3>2
  <2>5. CASE n \notin 1..m
    <3>1. n = m + 1
      BY <1>m, <2>1, <2>5
    <3>2. f # <<>> /\ L \notin N /\ ends[n] = L
      BY <1>6, <1>9, <2>5, <3>1
    <3>3. L \in 1..L
      <4>1. L # 0
        BY <3>2, NewlineFacts DEF L
      <4> QED BY <1>3, <4>1
    <3>4. o[n + 1] = L + 1
      <4>1. n + 1 = m + 2
        BY <1>m, <3>1
      <4> QED BY <1>1, <4>1
    <3>5. o[n] < L
      <4>1. CASE n = 1
        BY <1>1, <1>3, <3>3, <4>1
      <4>2. CASE n # 1
        <5>1. n - 1 \in 1..m
          BY <1>m, <2>1, <4>2
        <5>2. o[n] = a[n - 1] /\ a[n - 1] \in N
          BY <1>4, <1>8, <2>1, <4>2, <5>1
        <5>3. o[n] \in 1..L /\ o[n] # L
          BY <1>3, <3>2, <5>2
        <5>4. L \in Nat
          BY <1>3
        <5> QED BY <5>3, <5>4
      <4> QED BY <4>1, <4>2
    <3> QED BY <1>3, <2>1, <2>2, <2>3, <3>2, <3>3, <3>4, <3>5
  <2> QED BY <2>4, <2>5
<1>10. ASSUME n \notin DOMAIN ends, n \in 1..m + 1
       PROVE  o[n] = L /\ o[n + 1] = L + 1
  <2>1. n = m + 1 /\ (f = <<>> \/ L \in N)
    <3>1. n \notin 1..m
      BY <1>7, <1>10
    <3>2. n = m + 1
      BY <1>m, <1>10, <3>1
    <3> QED BY <1>6, <1>10, <3>2
  <2>2. o[n + 1] = L + 1
    <3>1. n + 1 = m + 2
      BY <1>m, <2>1
    <3> QED BY <1>1, <3>1
  <2>3. CASE m = 0
    <3>1. n = 1 /\ o[n] = 0
      BY <1>1, <2>1, <2>3
    <3>2. L \notin N
      <4>1. N = {}
        BY <1>m, <2>3, NewlineFacts, FS_EmptySet DEF N
      <4> QED BY <4>1
    <3>3. L = 0
      BY <2>1, <3>2 DEF L
    <3> QED BY <2>2, <3>1, <3>3
  <2>4. CASE m # 0
    <3>1. m \in 1..m /\ n # 1 /\ n - 1 = m
      BY <1>m, <2>1, <2>4
    <3>2. o[n] = a[m]
      BY <1>8, <1>10, <3>1
    <3>3. a[m] \in N
      BY <1>4, <3>1
    <3>4. L \in N
      <4>1. a[m] \in 1..L
        BY <1>3, <3>3
      <4>2. L # 0
        BY <4>1
      <4>3. f # <<>>
        BY <4>2 DEF L
      <4> QED BY <2>1, <4>3
    <3>5. PICK k \in 1..m : a[k] = L
      <4>1. a[Rank(N, L)] = L
        BY <1>4, <3>4
      <4>2. Rank(N, L) \in 1..m
        BY <1>m, <3>4, NewlineFacts, RankFacts DEF N
      <4> QED BY <4>1, <4>2
    <3>6. ~(k < m)
      <4>1. k < m => L < a[m]
        BY <1>4, <3>1, <3>5
      <4>2. a[m] \in 1..L
        BY <1>3, <3>3
      <4> QED BY <1>3, <4>1, <4>2
    <3>7. k = m
      BY <1>m, <3>5, <3>6
    <3> QED BY <2>2, <3>2, <3>5, <3>7
  <2> QED BY <2>3, <2>4
<1>11. m + 1 \in Nat
  BY <1>m
<1>12. n \in DOMAIN Lines(f) => \E last \in 1..Len(f) : LineAt(f, o, n, last)
  BY <1>2, <1>5, <1>9 DEF LineAt, L
<1> QED BY <1>2, <1>5, <1>10, <1>11, <1>12 DEF L

\* A sequence begins every sequence that has one more element, or none more.
LEMMA PrefixFacts ==
  ASSUME NEW X, NEW l \in Seq(X), NEW t, t = l \/ \E g : t = Append(l, g)
  PROVE  IsPrefix(l, t) /\ \A i \in 1..Len(l) : t[i] = l[i]
<1> DEFINE n == Len(l)
<1>1. n \in Nat /\ \A i \in 1..n : l[i] \in X
  OBVIOUS
<1>2. PICK Y : /\ X \subseteq Y /\ t \in Seq(Y) /\ n <= Len(t)
               /\ \A i \in 1..n : t[i] = l[i]
  <2>1. CASE t = l
    BY <1>1, <2>1
  <2>2. CASE t # l
    <3>1. PICK g : t = Append(l, g)
      BY <2>2
    <3> DEFINE Y == X \cup {g}
    <3>2. l \in Seq(Y) /\ g \in Y
      OBVIOUS
    <3> HIDE DEF Y
    <3>3. t \in Seq(Y) /\ Len(t) = n + 1 /\ \A i \in 1..n : t[i] = l[i]
      BY <3>1, <3>2, AppendProperties
    <3> QED BY <1>1, <3>3 DEF Y
  <2> QED BY <2>1, <2>2
<1>3. \A i \in 1..n : l[i] \in Y /\ t[i] \in Y
  BY <1>1, <1>2
<1> HIDE DEF n
<1> DEFINE u == SubSeq(l, 1, n)
           v == SubSeq(t, 1, n)
<1>4. /\ u \in Seq(Y) /\ Len(u) = (IF 1 <= n THEN n - 1 + 1 ELSE 0)
      /\ \A i \in 1..n - 1 + 1 : u[i] = l[1 + i - 1]
  BY <1>1, <1>3, SubSeqProperties
<1>5. /\ v \in Seq(Y) /\ Len(v) = (IF 1 <= n THEN n - 1 + 1 ELSE 0)
      /\ \A i \in 1..n - 1 + 1 : v[i] = t[1 + i - 1]
  BY <1>1, <1>3, SubSeqProperties
<1> HIDE DEF u, v
<1>6. \A i \in 1..Len(u) : u[i] = v[i]
  <2> SUFFICES ASSUME NEW i \in 1..Len(u) PROVE u[i] = v[i]
    OBVIOUS
  <2>1. i \in 1..n - 1 + 1 /\ 1 + i - 1 = i /\ i \in 1..n
    BY <1>1, <1>4
  <2> QED BY <1>2, <1>4, <1>5, <2>1
<1>7. u = v
  BY <1>4, <1>5, <1>6, SeqEqual
<1> QED BY <1>2, <1>7 DEF IsPrefix, n, u, v

\* What getLine gives for a line of the file: the line, with a character more
\* at most where the file ends without a newline.
LEMMA LineShown ==
  ASSUME NEW f \in Files, NEW o, o = GetLineOffset(f),
         NEW n \in Nat, n \in DOMAIN Lines(f), NEW t \in GetLine(f, o, n),
         NEW l, l = Lines(f)[n]
  PROVE  /\ IsPrefix(l, t) /\ Len(l) \in Nat
         /\ \A i \in 1..Len(l) : t[i] = l[i]
         /\ Last(l) = NL => t = l
<1> DEFINE R == Range(f)
           L == Len(f)
<1>1. f \in Seq(R) /\ L \in Nat /\ \A i \in 1..L : f[i] \in R
  BY NewlineFacts
<1>2. PICK last \in 1..L :
        /\ l = SubSeq(f, o[n] + 1, last)
        /\ o[n] \in Nat /\ o[n] < last
        /\ \/ o[n + 1] = last /\ f[last] = NL
           \/ o[n + 1] = L + 1 /\ last = L /\ f[last] # NL
  <2>1. \E last \in 1..Len(f) : LineAt(f, o, n, last)
    BY LineFacts
  <2> QED BY <2>1 DEF LineAt
<1> HIDE DEF R, L
<1>3. PICK b \in Nat : b = o[n]
  BY <1>2
<1>4. /\ l \in Seq(R) /\ Len(l) = last - b
      /\ \A i \in 1..last - b : l[i] = f[b + i]
  <2>1. b + 1 \in Int /\ last \in Int /\ \A i \in (b + 1)..last : f[i] \in R
    BY <1>1, <1>3
  <2>s. l = SubSeq(f, b + 1, last)
    BY <1>2, <1>3
  <2>t. /\ SubSeq(f, b + 1, last) \in Seq(R)
        /\ Len(SubSeq(f, b + 1, last)) = (IF b + 1 <= last THEN last - (b + 1) + 1 ELSE 0)
        /\ \A i \in 1..last - (b + 1) + 1 :
             SubSeq(f, b + 1, last)[i] = f[(b + 1) + i - 1]
    <3> DEFINE x == b + 1
    <3>1. x \in Int /\ last \in Int /\ \A i \in x..last : f[i] \in R
      BY <2>1
    <3> HIDE DEF x
    <3>2. /\ SubSeq(f, x, last) \in Seq(R)
          /\ Len(SubSeq(f, x, last)) = (IF x <= last THEN last - x + 1 ELSE 0)
          /\ \A i \in 1..last - x + 1 : SubSeq(f, x, last)[i] = f[x + i - 1]
      BY <3>1, SubSeqProperties
    <3> QED BY <3>2 DEF x
  <2>2. /\ l \in Seq(R)
        /\ Len(l) = (IF b + 1 <= last THEN last - (b + 1) + 1 ELSE 0)
        /\ \A i \in 1..last - (b + 1) + 1 : l[i] = f[(b + 1) + i - 1]
    BY <2>s, <2>t
  <2>3. last \in Nat /\ b < last
    BY <1>1, <1>2, <1>3
  <2>4. Len(l) = last - b
    BY <1>3, <2>2, <2>3
  <2>5. ASSUME NEW i \in 1..last - b PROVE l[i] = f[b + i]
    <3>1. i \in 1..last - (b + 1) + 1 /\ (b + 1) + i - 1 = b + i
      BY <1>3, <2>3
    <3> QED BY <2>2, <3>1
  <2> QED BY <2>2, <2>4, <2>5
<1>5. Len(l) \in Nat /\ Last(l) = f[last]
  <2>1. last - b \in 1..last - b /\ b + (last - b) = last /\ last - b \in Nat
    BY <1>1, <1>2, <1>3
  <2> QED BY <1>4, <2>1 DEF Last
<1>6. CASE o[n + 1] = last /\ f[last] = NL
  <2>1. t = SubSeq(f, o[n] + 1, o[n + 1])
    <3>1. o[n + 1] <= L
      BY <1>1, <1>6
    <3> QED BY <3>1 DEF GetLine, L
  <2>2. t = l
    BY <1>2, <1>6, <2>1
  <2> QED BY <1>4, <1>5, <2>2, PrefixFacts
<1>7. CASE o[n + 1] = L + 1 /\ last = L /\ f[last] # NL
  <2>1. \E g \in Garbage : t = IF g = "" THEN SubSeq(f, o[n] + 1, L)
                               ELSE Append(SubSeq(f, o[n] + 1, L), g)
    <3>1. ~(o[n + 1] <= L)
      BY <1>1, <1>7
    <3> QED BY <3>1 DEF GetLine, L
  <2>2. t = l \/ \E g : t = Append(l, g)
    BY <1>2, <1>7, <2>1
  <2> QED BY <1>4, <1>5, <1>7, <2>2, PrefixFacts
<1> QED BY <1>2, <1>6, <1>7

\* What getLine gives past the last newline of a file that ends with one.
LEMMA EndShown ==
  ASSUME NEW f \in Files, NEW o, o = GetLineOffset(f),
         NEW n \in 1..GetNumberOfLines(o), n \notin DOMAIN Lines(f), NEW t \in GetLine(f, o, n)
  PROVE  Len(t) <= 1
<1> DEFINE L == Len(f)
<1>1. L \in Nat
  BY NewlineFacts
<1>2. o[n] = L /\ o[n + 1] = L + 1
  <2>1. n \in Nat
    <3>1. GetNumberOfLines(o) \in Nat
      BY LineFacts
    <3> QED BY <3>1
  <2> QED BY <2>1, LineFacts
<1> HIDE DEF L
<1>3. PICK g : t = IF g = "" THEN SubSeq(f, L + 1, L) ELSE Append(SubSeq(f, L + 1, L), g)
  <2>1. ~(o[n + 1] <= L)
    BY <1>1, <1>2
  <2> QED BY <1>2, <2>1 DEF GetLine, L
<1>4. SubSeq(f, L + 1, L) = <<>>
  BY <1>1, SubSeqEmpty
<1>5. t = <<>> \/ t = Append(<<>>, g)
  BY <1>3, <1>4
<1>6. Append(<<>>, g) = <<g>>
  OBVIOUS
<1>7. Len(<<>>) = 0 /\ Len(<<g>>) = 1
  OBVIOUS
<1>8. Len(t) = 0 \/ Len(t) = 1
  BY <1>5, <1>6, <1>7, Zenon
<1> QED BY <1>8

-------------------------------------------------------------------------------
(* The reader.                                                             *)

\* What getLine may give for a line of the file at hand.
Given(n) == GetLine(file, GetLineOffset(file), n)

\* The mutant is in the file, the table is of the file, and what is there was
\* given by getLine.
ReadInv ==
  /\ file \in Files /\ line \in Nat /\ line \in DOMAIN Lines(file)
  /\ column \in Nat /\ column < Len(Lines(file)[line])
  /\ reading \in {"line", "context"} => lineOffsets = GetLineOffset(file)
  /\ text # <<>> => text \in Given(line)
  /\ caret # <<>> => column # 0 /\ caret = CaretLine(text, column) /\ text \in Given(line)
  /\ context # <<>> =>
       \A i \in -1..1 :
         IF line + i \in 1..GetNumberOfLines(GetLineOffset(file))
         THEN context[i + 2] \in Given(line + i)
         ELSE context[i + 2] = <<>>

LEMMA ReadInit == SourceInit => ReadInv
<1> SUFFICES ASSUME SourceInit PROVE ReadInv
  OBVIOUS
<1>1. /\ file \in Files /\ line \in DOMAIN Lines(file)
      /\ column \in Columns /\ column < Len(Lines(file)[line])
      /\ text = <<>> /\ caret = <<>> /\ context = <<>> /\ reading = "open"
  BY DEF SourceInit
<1>2. line \in Nat
  <2>1. DOMAIN Lines(file) = DOMAIN LineEnds(file)
    BY DEF Lines
  <2>2. PICK m \in Nat : m = Cardinality(Newlines(file))
    BY <1>1, NewlineFacts
  <2>3. DOMAIN LineEnds(file) = 1..m \/ DOMAIN LineEnds(file) = 1..m + 1
    BY <1>1, <2>2, LineEndFacts
  <2> QED BY <1>1, <2>1, <2>2, <2>3
<1>3. column \in Nat
  BY <1>1, SourceAssumption
<1> QED BY <1>1, <1>2, <1>3 DEF ReadInv

LEMMA ReadNext ==
  ASSUME ReadInv, [SourceNext]_sourceVars
  PROVE  ReadInv'
<1>0. file \in Files /\ line \in Nat /\ line \in DOMAIN Lines(file)
  BY DEF ReadInv
<1>1. CASE OpenFile
  BY <1>1 DEF OpenFile, ReadInv, Given
<1>2. CASE GetSourceLineWithCaret
  <2>1. /\ lineOffsets = GetLineOffset(file)
        /\ UNCHANGED <<file, lineOffsets, line, column, context>>
        /\ text' \in GetLine(file, lineOffsets, line)
        /\ \/ column = 0 /\ caret' = <<>>
           \/ column # 0 /\ caret' = CaretLine(text', column)
        /\ reading' \notin {"line", "context"}
    BY <1>2 DEF GetSourceLineWithCaret, ReadInv
  <2> QED BY <2>1 DEF ReadInv, Given
<1>3. CASE GetContext
  <2>1. /\ lineOffsets = GetLineOffset(file)
        /\ UNCHANGED <<file, lineOffsets, line, column, text, caret>>
        /\ reading' \notin {"line", "context"}
    BY <1>3 DEF GetContext, ReadInv
  <2> DEFINE lines == GetNumberOfLines(GetLineOffset(file))
  <2>2. ASSUME context' # <<>>, NEW i \in -1..1
        PROVE  IF line + i \in 1..lines THEN context'[i + 2] \in Given(line + i)
               ELSE context'[i + 2] = <<>>
    <3>1. PICK before \in IF line > 1 THEN Given(line - 1) ELSE {<<>>},
               own \in Given(line),
               after \in IF line < lines THEN Given(line + 1) ELSE {<<>>} :
            context' = <<before, own, after>>
      BY <1>3, <2>1, <2>2 DEF GetContext, Given
    <3>2. lines \in Nat /\ line <= lines /\ line >= 1
      <4>1. lines \in Nat /\ \E last \in 1..Len(file) : LineAt(file, GetLineOffset(file), line, last)
        BY <1>0, LineFacts
      <4>2. line \in 1..lines
        <5>1. line <= lines
          BY <4>1 DEF LineAt
        <5>2. line # 0
          <6>1. DOMAIN Lines(file) = DOMAIN LineEnds(file)
            BY DEF Lines
          <6>2. PICK m \in Nat : m = Cardinality(Newlines(file))
            BY <1>0, NewlineFacts
          <6>3. DOMAIN LineEnds(file) = 1..m \/ DOMAIN LineEnds(file) = 1..m + 1
            BY <1>0, <6>2, LineEndFacts
          <6> QED BY <1>0, <6>1, <6>2, <6>3
        <5> QED BY <1>0, <4>1, <5>1, <5>2
      <4> QED BY <4>1, <4>2
    <3> HIDE DEF lines
    <3>3. context'[1] = before /\ context'[2] = own /\ context'[3] = after
      BY <3>1
    <3>4. CASE i = -1
      <4>1. line + i = line - 1 /\ i + 2 = 1 /\ (line - 1 \in 1..lines <=> line > 1)
        BY <1>0, <3>2, <3>4
      <4> QED BY <3>1, <3>3, <4>1
    <3>5. CASE i = 0
      <4>1. line + i = line /\ i + 2 = 2 /\ line \in 1..lines
        BY <1>0, <3>2, <3>5
      <4> QED BY <3>1, <3>3, <4>1
    <3>6. CASE i = 1
      <4>1. line + i = line + 1 /\ i + 2 = 3 /\ (line + 1 \in 1..lines <=> line < lines)
        BY <1>0, <3>2, <3>6
      <4> QED BY <3>1, <3>3, <4>1
    <3> QED BY <3>4, <3>5, <3>6
  <2> QED BY <2>1, <2>2 DEF ReadInv, Given
<1>4. CASE UNCHANGED sourceVars
  BY <1>4 DEF sourceVars, ReadInv, Given
<1> QED BY <1>1, <1>2, <1>3, <1>4 DEF SourceNext

LEMMA ReadRight == ReadInv => SourceShown
<1> SUFFICES ASSUME ReadInv PROVE SourceShown
  OBVIOUS
<1> DEFINE l == Lines(file)[line]
<1>0. file \in Files /\ line \in Nat /\ line \in DOMAIN Lines(file)
  BY DEF ReadInv
<1>1. \A n \in Nat : \A t : n \in DOMAIN Lines(file) /\ t \in Given(n) =>
        /\ IsPrefix(Lines(file)[n], t) /\ Len(Lines(file)[n]) \in Nat
        /\ \A i \in 1..Len(Lines(file)[n]) : t[i] = Lines(file)[n][i]
        /\ Last(Lines(file)[n]) = NL => t = Lines(file)[n]
  BY <1>0, LineShown DEF Given
<1>2. LineRight
  BY <1>0, <1>1 DEF LineRight, ReadInv
<1>3. ContextRight
  <2> SUFFICES ASSUME context # <<>>, NEW i \in -1..1, NEW n, n = line + i
               PROVE  /\ n \in DOMAIN Lines(file) => IsPrefix(Lines(file)[n], context[i + 2])
                      /\ n \notin DOMAIN Lines(file) => Len(context[i + 2]) <= 1
    BY DEF ContextRight
  <2> DEFINE o == GetLineOffset(file)
             lines == GetNumberOfLines(o)
  <2>1. IF n \in 1..lines THEN context[i + 2] \in Given(n) ELSE context[i + 2] = <<>>
    BY DEF ReadInv
  <2>2. n \in Int /\ lines \in Nat
    BY <1>0, LineFacts
  <2>3. ASSUME n \in DOMAIN Lines(file) PROVE IsPrefix(Lines(file)[n], context[i + 2])
    <3>1. n \in Nat \ {0}
      <4>1. DOMAIN Lines(file) = DOMAIN LineEnds(file)
        BY DEF Lines
      <4>2. PICK m \in Nat : m = Cardinality(Newlines(file))
        BY <1>0, NewlineFacts
      <4>3. DOMAIN LineEnds(file) = 1..m \/ DOMAIN LineEnds(file) = 1..m + 1
        BY <1>0, <4>2, LineEndFacts
      <4> QED BY <2>3, <4>1, <4>2, <4>3
    <3>2. \E last \in 1..Len(file) : LineAt(file, o, n, last)
      BY <1>0, <2>3, <3>1, LineFacts
    <3>3. n \in 1..lines
      <4>1. n <= lines
        BY <3>2 DEF LineAt
      <4> HIDE DEF lines
      <4> QED BY <2>2, <3>1, <4>1
    <3> QED BY <1>1, <2>1, <2>3, <3>1, <3>3
  <2>4. ASSUME n \notin DOMAIN Lines(file) PROVE Len(context[i + 2]) <= 1
    <3>1. CASE n \in 1..lines
      BY <1>0, <2>1, <2>4, <3>1, EndShown DEF Given
    <3>2. CASE n \notin 1..lines
      <4>1. context[i + 2] = <<>>
        BY <2>1, <3>2
      <4>2. Len(<<>>) = 0
        OBVIOUS
      <4>3. Len(context[i + 2]) = 0
        BY <4>1, <4>2, Zenon
      <4> QED BY <4>3
    <3> QED BY <3>1, <3>2
  <2> QED BY <2>3, <2>4
<1>4. CaretBelow
  <2> SUFFICES ASSUME caret # <<>>
               PROVE  /\ Len(caret) = column /\ Last(caret) = "^"
                      /\ \A i \in 1..column - 1 : (caret[i] = Tab) = (Lines(file)[line][i] = Tab)
    BY DEF CaretBelow
  <2>1. /\ column \in Nat /\ column # 0 /\ column < Len(l)
        /\ caret = CaretLine(text, column) /\ text \in Given(line)
    BY DEF ReadInv
  <2>2. Len(l) \in Nat /\ \A i \in 1..Len(l) : text[i] = l[i]
    BY <1>0, <1>1, <2>1
  <2> HIDE DEF l
  <2>3. caret = [i \in 1..column |-> IF i = column THEN "^" ELSE IF text[i] = Tab THEN Tab ELSE " "]
    BY <2>1 DEF CaretLine
  <2>4. Len(caret) = column
    <3> DEFINE C == {"^", Tab, " "}
    <3>1. caret \in [1..column -> C]
      BY <2>3
    <3>2. PICK k \in Nat : k = column
      BY <2>1
    <3>3. caret \in [1..k -> C]
      BY <3>1, <3>2
    <3> HIDE DEF C
    <3>4. \A q \in [1..k -> C] : Len(q) = k
      BY <3>2
    <3> QED BY <3>2, <3>3, <3>4
  <2>5. Last(caret) = "^"
    <3>1. column \in 1..column
      BY <2>1
    <3> QED BY <2>3, <2>4, <3>1 DEF Last
  <2>6. ASSUME NEW i \in 1..column - 1 PROVE (caret[i] = Tab) = (l[i] = Tab)
    <3>1. i \in 1..column /\ i # column /\ i \in 1..Len(l)
      BY <2>1, <2>2
    <3>2. caret[i] = IF l[i] = Tab THEN Tab ELSE " "
      BY <2>2, <2>3, <3>1
    <3> QED BY <3>2 DEF Tab
  <2> QED BY <2>4, <2>5, <2>6 DEF l
<1> QED BY <1>2, <1>3, <1>4 DEF SourceShown

\* For all files, columns and contents of unwritten memory: the line of a mutant
\* and its neighbours are those of the file, and the caret is below the mutated
\* character: SourceManager and SourceCodeReader.
THEOREM SourceReliable == SourceSpec => []SourceShown
<1>1. SourceInit => ReadInv
  BY ReadInit
<1>2. ReadInv /\ [SourceNext]_sourceVars => ReadInv'
  BY ReadNext
<1>3. ReadInv => SourceShown
  BY ReadRight
<1> QED BY <1>1, <1>2, <1>3, PTL DEF SourceSpec

===============================================================================
