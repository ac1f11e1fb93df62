----------------------------- MODULE FiltersProofs -----------------------------
(***************************************************************************)
(* Proofs about what is searched for and kept.  Filters, for all programs, *)
(* diffs, path lists and profiles: the reader of a diff gets its lines     *)
(* back, the path filter is never asked about a null location, and the     *)
(* mutation points at the end are those the options ask for.               *)
(* MutatorsFactory, for all selections: each is answered with the mutators *)
(* its groups lead to.                                                     *)
(***************************************************************************)
EXTENDS Filters, MutatorsFactory, SequenceTheorems, FiniteSetTheorems, WellFoundedInduction, TLAPS

-------------------------------------------------------------------------------
(* The diff.                                                               *)

\* The order of the naturals is well founded, as a relation.
LessNat == {r \in Nat \X Nat : r[1] < r[2]}

\* A set of naturals that is not empty has a least element.
LEMMA LeastNatural ==
  ASSUME NEW S, S \subseteq Nat, S # {}
  PROVE  \E x \in S : \A y \in S : x <= y
<1>1. IsWellFoundedOn(LessNat, Nat)
  BY NatLessThanWellFounded DEF LessNat, OpToRel
<1>2. PICK x \in S : \A y \in S : ~(<<y, x>> \in LessNat)
  BY <1>1, WFMin
<1>3. ASSUME NEW y \in S, y < x PROVE FALSE
  <2>1. <<y, x>> \in Nat \X Nat
    OBVIOUS
  <2>2. <<y, x>>[1] < <<y, x>>[2]
    BY <1>3
  <2>3. <<y, x>> \in LessNat
    BY <2>1, <2>2, Zenon DEF LessNat
  <2> QED BY <1>2, <2>3
<1> QED BY <1>3

\* A changed line is in a maximal run of changed lines.
LEMMA RunOfLine ==
  ASSUME NEW lines, lines \subseteq Lines, NEW line \in lines
  PROVE  \E a, b \in lines : /\ a <= line /\ line <= b /\ a..b \subseteq lines
                             /\ a - 1 \notin lines /\ b + 1 \notin lines
<1>1. MaxLine \in Nat /\ line \in 1..MaxLine /\ \A x \in lines : x \in 1..MaxLine
  BY FiltersAssumption DEF Lines
<1>2. PICK b \in Nat : /\ line <= b /\ b + 1 \notin lines
                       /\ \A c \in Nat : line <= c /\ c + 1 \notin lines => b <= c
  <2> DEFINE S == {c \in Nat : line <= c /\ c + 1 \notin lines}
  <2>1. MaxLine \in S
    BY <1>1
  <2>2. PICK b \in S : \A c \in S : b <= c
    <3>1. S \subseteq Nat /\ S # {}
      BY <2>1
    <3> HIDE DEF S
    <3> QED BY <3>1, LeastNatural
  <2> QED BY <2>2
<1>3. PICK d \in Nat : /\ line - d - 1 \notin lines
                       /\ \A c \in Nat : line - c - 1 \notin lines => d <= c
  <2> DEFINE S == {c \in Nat : line - c - 1 \notin lines}
  <2>1. line - 1 \in S
    <3>1. line - 1 \in Nat /\ line - (line - 1) - 1 = 0
      BY <1>1
    <3>2. 0 \notin lines
      BY <1>1
    <3> QED BY <3>1, <3>2
  <2>2. PICK d \in S : \A c \in S : d <= c
    <3>1. S \subseteq Nat /\ S # {}
      BY <2>1
    <3> HIDE DEF S
    <3> QED BY <3>1, LeastNatural
  <2> QED BY <2>2
<1>4. ASSUME NEW x \in Int, line - d <= x, x <= b PROVE x \in lines
  <2>1. CASE x = line
    BY <2>1
  <2>2. CASE x > line
    <3>1. x - 1 \in Nat /\ line <= x - 1 /\ (x - 1) + 1 = x /\ ~(b <= x - 1)
      BY <1>1, <1>4, <2>2
    <3> QED BY <1>2, <3>1
  <2>3. CASE x < line
    <3>1. line - x - 1 \in Nat /\ line - (line - x - 1) - 1 = x /\ ~(d <= line - x - 1)
      BY <1>1, <1>4, <2>3
    <3> QED BY <1>3, <3>1
  <2> QED BY <1>1, <2>1, <2>2, <2>3
<1>5. line - d \in lines /\ b \in lines
  BY <1>1, <1>2, <1>4
<1>6. (line - d)..b \subseteq lines
  BY <1>1, <1>4
<1>7. line - d <= line /\ line <= b /\ (line - d) - 1 \notin lines /\ b + 1 \notin lines
  BY <1>1, <1>2, <1>3
<1> QED BY <1>5, <1>6, <1>7, Zenon

\* A hunk with lines is a run of changed lines.
LEMMA HunkIsRun ==
  ASSUME NEW lines, lines \subseteq Lines, NEW h \in Hunks(lines),
         LineCount(HunkLine(h)) > 0
  PROVE  \E a, b \in lines : /\ a <= b /\ a..b \subseteq lines
                             /\ HunkLine(h)[1] = a /\ LineCount(HunkLine(h)) = b - a + 1
<1>0. \A x \in lines : x \in Nat
  BY DEF Lines
<1>1. lines # {}
  <2>1. ASSUME lines = {} PROVE FALSE
    <3>1. h = <<1, 0>>
      BY <2>1 DEF Hunks
    <3>2. LineCount(HunkLine(h)) = 0
      BY <3>1 DEF HunkLine, LineCount
    <3> QED BY <3>2
  <2> QED BY <2>1
<1>2. PICK r \in lines \X lines : /\ r[1] <= r[2] /\ r[1]..r[2] \subseteq lines
                                  /\ h = <<r[1], r[2] - r[1] + 1>>
  BY <1>1 DEF Hunks
<1>3. r[1] \in lines /\ r[2] \in lines
  BY <1>2
<1>4. h[1] = r[1] /\ h[2] = r[2] - r[1] + 1
  BY <1>2
<1>5. HunkLine(h)[1] = h[1] /\ LineCount(HunkLine(h)) = h[2]
  <2>1. CASE h[2] = 1
    BY <2>1 DEF HunkLine, LineCount
  <2>2. CASE h[2] # 1
    <3>1. HunkLine(h) = <<r[1], r[2] - r[1] + 1>>
      BY <1>2, <2>2 DEF HunkLine
    <3> QED BY <1>4, <3>1 DEF LineCount
  <2> QED BY <2>1, <2>2
<1> QED BY <1>2, <1>3, <1>4, <1>5

\* A maximal run is a hunk with lines.
LEMMA RunIsHunk ==
  ASSUME NEW lines, lines \subseteq Lines, NEW a \in lines, NEW b \in lines,
         a <= b, a..b \subseteq lines, a - 1 \notin lines, b + 1 \notin lines
  PROVE  \E h \in Hunks(lines) : /\ HunkLine(h)[1] = a
                                 /\ LineCount(HunkLine(h)) = b - a + 1
<1>0. a \in Nat /\ b \in Nat
  BY DEF Lines
<1> DEFINE r == <<a, b>>
           h == <<a, b - a + 1>>
<1>1. r \in {x \in lines \X lines : /\ x[1] <= x[2] /\ x[1]..x[2] \subseteq lines
                                    /\ x[1] - 1 \notin lines /\ x[2] + 1 \notin lines}
  OBVIOUS
<1>2. h = <<r[1], r[2] - r[1] + 1>>
  OBVIOUS
<1>3. h \in Hunks(lines)
  <2>1. lines # {}
    OBVIOUS
  <2> HIDE DEF r, h
  <2> QED BY <1>1, <1>2, <2>1, Zenon DEF Hunks
<1>4. HunkLine(h)[1] = a /\ LineCount(HunkLine(h)) = b - a + 1
  BY <1>0 DEF HunkLine, LineCount
<1> HIDE DEF h
<1> QED BY <1>3, <1>4

\* The hunks of a file that has changed are read under its name, whatever files
\* come before it.
LEMMA NameOfModified ==
  ASSUME NEW changes \in [Files -> Changes], NEW i \in DOMAIN Sources,
         changes[Sources[i]][1] = "modified"
  PROVE  CurrentFileName(DiffContent(changes), i) = Sources[i]
<1> DEFINE content == DiffContent(changes)
           named   == {j \in 1..i : Len(content[j].header) = 2}
<1>1. i \in Nat /\ i \in 1..i
  BY FiltersAssumption
<1>2. content[i].header = <<"+++", Sources[i]>>
  BY DEF DiffContent, FileDiff
<1>3. Len(content[i].header) = 2 /\ content[i].header[2] = Sources[i]
  BY <1>2
<1>4. i \in named /\ \A j \in named : i >= j
  <2> HIDE DEF content
  <2> QED BY <1>1, <1>3
<1>5. Max(named) = i
  <2>1. \A j \in named : (\A k \in named : j >= k) => j = i
    <3> HIDE DEF content
    <3> QED BY <1>1, <1>4
  <2> HIDE DEF named
  <2> QED BY <1>4, <2>1 DEF Max
<1>6. CurrentFileName(content, i) = content[Max(named)].header[2]
  <2>1. named # {}
    BY <1>4
  <2> QED BY <2>1, Zenon DEF CurrentFileName
<1>7. content[Max(named)].header[2] = Sources[i]
  <2> HIDE DEF content, named
  <2> QED BY <1>3, <1>5
<1> QED BY <1>6, <1>7

\* Only a file that was modified has changed lines.
LEMMA ChangeFacts ==
  ASSUME NEW change \in Changes
  PROVE  /\ change[1] \in {"untouched", "deleted", "modified"}
         /\ change[2] \subseteq Lines
         /\ change[2] # {} => change[1] = "modified"
<1>1. CASE change \in {"untouched", "deleted"} \X {{}}
  BY <1>1
<1>2. CASE change \in {"modified"} \X SUBSET Lines
  BY <1>2
<1> QED BY <1>1, <1>2 DEF Changes

\* What the reader gets out of a diff covers the lines that have changed, and no
\* other: -U0, the counts left out, deleted files and hunks without lines
\* included.
THEOREM DiffLines ==
  ASSUME NEW changes \in [Files -> Changes], NEW file, NEW line \in Nat
  PROVE  (\E r \in ParseDiffContent(DiffContent(changes)) :
            r[1] = file /\ r[2] <= line /\ line <= r[2] + r[3] - 1)
         <=> file \in Files /\ line \in changes[file][2]
<1> DEFINE content == DiffContent(changes)
<1>0. /\ DOMAIN content = DOMAIN Sources
      /\ \A i \in DOMAIN Sources : /\ Sources[i] \in Files
                                   /\ content[i] = FileDiff(Sources[i], changes[Sources[i]])
                                   /\ changes[Sources[i]] \in Changes
  <2>1. \A i \in DOMAIN Sources : Sources[i] \in Files
    BY DEF Files, Range
  <2> QED BY <2>1 DEF DiffContent
<1>1. ASSUME NEW r \in ParseDiffContent(content),
             r[1] = file, r[2] <= line, line <= r[2] + r[3] - 1
      PROVE  file \in Files /\ line \in changes[file][2]
  <2>1. PICK i \in DOMAIN content :
          r \in {<<CurrentFileName(content, i), l[1], LineCount(l)>> :
                   l \in {x \in content[i].hunks : LineCount(x) > 0}}
    <3> HIDE DEF content
    <3> QED BY Zenon DEF ParseDiffContent
  <2>2. PICK l \in content[i].hunks :
          LineCount(l) > 0 /\ r = <<CurrentFileName(content, i), l[1], LineCount(l)>>
    <3> HIDE DEF content
    <3> QED BY <2>1, Zenon
  <2>3. r[1] = CurrentFileName(content, i) /\ r[2] = l[1] /\ r[3] = LineCount(l)
    <3> HIDE DEF content
    <3> QED BY <2>2
  <2> DEFINE change == changes[Sources[i]]
  <2>4. /\ i \in DOMAIN Sources /\ Sources[i] \in Files /\ change \in Changes
        /\ content[i] = FileDiff(Sources[i], change)
    BY <1>0
  <2>5. change[1] = "modified"
    <3>1. CASE change[1] = "untouched"
      <4>1. content[i].hunks = {}
        BY <2>4, <3>1 DEF FileDiff
      <4> QED BY <2>2, <4>1
    <3>2. CASE change[1] = "deleted"
      <4>1. content[i].hunks = {<<0, 0>>}
        <5> DEFINE none == {<<0, 0>>}
                   gone == <<"+++ /dev/null">>
        <5>1. content[i] = [header |-> gone, hunks |-> none]
          <6> HIDE DEF content, change
          <6> QED BY <2>4, <3>2 DEF FileDiff
        <5>2. content[i].hunks = none
          <6> HIDE DEF content, none, gone
          <6> QED BY <5>1
        <5> QED BY <5>2
      <4>2. LineCount(<<0, 0>>) = 0
        BY DEF LineCount
      <4> QED BY <2>2, <4>1, <4>2
    <3> QED BY <2>4, <3>1, <3>2, ChangeFacts
  <2>6. CurrentFileName(content, i) = Sources[i]
    BY <2>4, <2>5, NameOfModified
  <2>7. content[i].hunks = {HunkLine(h) : h \in Hunks(change[2])}
    BY <2>4, <2>5 DEF FileDiff
  <2>8. PICK h \in Hunks(change[2]) : l = HunkLine(h)
    BY <2>2, <2>7, Zenon
  <2>9. PICK a, b \in change[2] : /\ a <= b /\ a..b \subseteq change[2]
                                  /\ l[1] = a /\ LineCount(l) = b - a + 1
    <3>1. change[2] \subseteq Lines
      BY <2>4, ChangeFacts
    <3> HIDE DEF change
    <3> QED BY <2>2, <2>8, <3>1, HunkIsRun
  <2>10. a \in Nat /\ b \in Nat
    <3>1. change[2] \subseteq Lines
      BY <2>4, ChangeFacts
    <3> HIDE DEF change
    <3> QED BY <3>1 DEF Lines
  <2>11. line \in a..b
    <3> HIDE DEF change, content
    <3> QED BY <1>1, <2>3, <2>9, <2>10
  <2>12. line \in change[2] /\ file = Sources[i]
    <3> HIDE DEF change, content
    <3> QED BY <1>1, <2>3, <2>6, <2>9, <2>11
  <2> QED BY <2>4, <2>12
<1>2. ASSUME file \in Files, line \in changes[file][2]
      PROVE  \E r \in ParseDiffContent(content) :
               r[1] = file /\ r[2] <= line /\ line <= r[2] + r[3] - 1
  <2>1. PICK i \in DOMAIN Sources : Sources[i] = file
    BY <1>2 DEF Files, Range
  <2> DEFINE lines == changes[file][2]
  <2>2. changes[file][1] = "modified" /\ lines \subseteq Lines
    BY <1>2, ChangeFacts
  <2>3. CurrentFileName(content, i) = file
    BY <2>1, <2>2, NameOfModified
  <2>4. content[i].hunks = {HunkLine(h) : h \in Hunks(lines)}
    <3>1. content[i] = FileDiff(file, changes[file])
      BY <1>0, <2>1
    <3> HIDE DEF content
    <3> QED BY <2>2, <3>1 DEF FileDiff
  <2>5. PICK a, b \in lines : /\ a <= line /\ line <= b /\ a..b \subseteq lines
                              /\ a - 1 \notin lines /\ b + 1 \notin lines
    <3> HIDE DEF lines
    <3>1. line \in lines
      BY <1>2 DEF lines
    <3> QED BY <2>2, <3>1, RunOfLine
  <2>6. a \in Nat /\ b \in Nat
    <3> HIDE DEF lines
    <3> QED BY <2>2 DEF Lines
  <2>7. PICK h \in Hunks(lines) : HunkLine(h)[1] = a /\ LineCount(HunkLine(h)) = b - a + 1
    <3>1. a <= b
      BY <2>5, <2>6
    <3> HIDE DEF lines
    <3> QED BY <2>2, <2>5, <3>1, RunIsHunk
  <2> DEFINE l == HunkLine(h)
             r == <<CurrentFileName(content, i), l[1], LineCount(l)>>
  <2>8. l \in content[i].hunks /\ LineCount(l) > 0
    <3>1. b - a + 1 > 0
      BY <2>5, <2>6
    <3>2. l \in {HunkLine(x) : x \in Hunks(lines)}
      OBVIOUS
    <3> HIDE DEF content, lines
    <3> QED BY <2>4, <2>7, <3>1, <3>2
  <2>9. r \in ParseDiffContent(content)
    <3>0. i \in DOMAIN content
      BY <1>0, <2>1
    <3> HIDE DEF content, l
    <3>1. r \in {<<CurrentFileName(content, i), x[1], LineCount(x)>> :
                   x \in {y \in content[i].hunks : LineCount(y) > 0}}
      BY <2>8, Zenon
    <3> HIDE DEF r
    <3> QED BY <3>0, <3>1, Zenon DEF ParseDiffContent
  <2>10. r[1] = file /\ r[2] = a /\ r[3] = b - a + 1
    <3> HIDE DEF content
    <3> QED BY <2>3, <2>7
  <2>11. r[2] <= line /\ line <= r[2] + r[3] - 1
    <3> HIDE DEF r
    <3> QED BY <2>5, <2>6, <2>10
  <2> HIDE DEF r
  <2> QED BY <2>9, <2>10, <2>11
<1> QED BY <1>1, <1>2, Zenon

-------------------------------------------------------------------------------
(* The invariant.                                                          *)

Stages ==
  {<<"wire", 0>>, <<"gather", 0>>, <<"find", 0>>}
    \cup ({"functions"} \X (1..3)) \cup ({"mutations"} \X (1..4))

Incremental == env.git \in {"fails", "works"}

\* What the options lead to.
WiredInv ==
  /\ filters.function = <<"noDebugInfo", "filePath">>
  /\ filters.instruction = IF Incremental THEN <<"noDebugInfo", "gitDiff">>
                           ELSE <<"noDebugInfo">>
  /\ filters.mutation = IF env.junkDetection THEN <<"noDebugInfo", "filePath", "junk">>
                        ELSE <<"noDebugInfo", "filePath">>
  /\ gitDiffInfo = IF env.git = "works" THEN ParseDiffContent(DiffContent(env.changes)) ELSE {}
  /\ env.git = "fails" => warned

\* The functions that the filters before the k-th leave.
PassedFunctions(k) ==
  {f \in FunctionsUnderTest : /\ k > 1 => ~IsNull(f[1])
                              /\ k > 2 => Allow(f[1].file)}

\* The points the mutators find, and those that the filters before the k-th
\* leave.
FoundPoints == UNION {{<<f[1], f[2], i>> : i \in Candidates(f[1])} : f \in functions}

PassedPoints(k) ==
  {p \in FoundPoints : /\ k > 1 => ~IsNull(p[3])
                       /\ k > 2 => Allow(p[3].file)
                       /\ k > 3 => ~p[3].junk}

FunctionsInv ==
  /\ stage[1] = "functions" => functions = PassedFunctions(stage[2])
  /\ stage[1] \in {"find", "mutations"} => functions = PassedFunctions(3)

SelectedInv ==
  stage[1] \in {"find", "mutations"} =>
    selected = {<<f[1], SelectInstructions(f[1])>> : f \in functions}

PointsInv ==
  stage[1] = "mutations" =>
    stage[2] <= Len(filters.mutation) + 1 /\ points = PassedPoints(stage[2])

\* The cache remembers what the lists say.
CacheInv == \A c \in cache : c = <<c[1], Allow(c[1])>>

Inv ==
  /\ env.changes \in [Files -> Changes]
  /\ stage \in Stages
  /\ stage[1] # "wire" => WiredInv
  /\ FunctionsInv /\ SelectedInv /\ PointsInv /\ CacheInv
  /\ asserted = FALSE

-------------------------------------------------------------------------------
\* Before the filters are set up nothing is known.
LEMMA InvInit == Init => Inv
<1> SUFFICES ASSUME Init PROVE Inv
  OBVIOUS
<1>1. env.changes \in [Files -> Changes]
  BY DEF Init
<1>2. stage = <<"wire", 0>> /\ stage[1] = "wire"
  BY DEF Init
<1>3. stage \in Stages
  BY <1>2 DEF Stages
<1>4. FunctionsInv /\ SelectedInv /\ PointsInv
  BY <1>2 DEF FunctionsInv, SelectedInv, PointsInv
<1>5. CacheInv /\ asserted = FALSE
  BY DEF Init, CacheInv
<1> QED BY <1>1, <1>2, <1>3, <1>4, <1>5 DEF Inv

\* The stages, one by one.
LEMMA StageFacts ==
  ASSUME stage \in Stages
  PROVE  \/ stage = <<"wire", 0>> \/ stage = <<"gather", 0>> \/ stage = <<"find", 0>>
         \/ stage[1] = "functions" /\ stage[2] \in 1..3 /\ stage = <<"functions", stage[2]>>
         \/ stage[1] = "mutations" /\ stage[2] \in 1..4 /\ stage = <<"mutations", stage[2]>>
  BY DEF Stages

\* What a list of paths says, what coverage leaves and what a filter selects do
\* not change on the way.
LEMMA Frozen ==
  ASSUME UNCHANGED env
  PROVE  /\ \A p : Allow(p)' <=> Allow(p)
         /\ FunctionsUnderTest' = FunctionsUnderTest
         /\ \A k : PassedFunctions(k)' = PassedFunctions(k)
<1>1. ASSUME NEW p PROVE Allow(p)' <=> Allow(p)
  BY DEF Allow, Range
<1>2. FunctionsUnderTest' = FunctionsUnderTest
  BY DEF FunctionsUnderTest, Covered, Records
<1>3. ASSUME NEW k PROVE PassedFunctions(k)' = PassedFunctions(k)
  BY <1>1, <1>2 DEF PassedFunctions
<1> QED BY <1>1, <1>2, <1>3

\* A cache that is right stays right, and skips what the lists skip.
LEMMA CacheSound ==
  ASSUME CacheInv, UNCHANGED env, NEW paths, cache' = CacheAfter(paths)
  PROVE  /\ CacheInv'
         /\ \A p \in paths : SkipsPath(cache', p) <=> ~Allow(p)
<1> DEFINE new == {<<p, Allow(p)>> : p \in {q \in paths : \A c \in cache : c[1] # q}}
<1>1. cache' = cache \cup new
  BY DEF CacheAfter
<1>2. ASSUME NEW c \in cache' PROVE c = <<c[1], Allow(c[1])>>
  <2>1. CASE c \in cache
    BY <2>1 DEF CacheInv
  <2>2. CASE c \in new
    <3>1. PICK p \in paths : c = <<p, Allow(p)>>
      BY <2>2, Zenon
    <3>2. c[1] = p
      BY <3>1
    <3> QED BY <3>1, <3>2, Zenon
  <2> QED BY <1>1, <2>1, <2>2
<1>3. CacheInv'
  <2> SUFFICES ASSUME NEW c \in cache' PROVE c = <<c[1], Allow(c[1])'>>
    BY DEF CacheInv
  <2>1. Allow(c[1])' = Allow(c[1])
    BY Zenon DEF Allow
  <2> QED BY <1>2, <2>1, Zenon
<1>4. ASSUME NEW p \in paths PROVE <<p, Allow(p)>> \in cache'
  <2>1. CASE \A c \in cache : c[1] # p
    <3>1. <<p, Allow(p)>> \in new
      BY <2>1, Zenon
    <3> QED BY <1>1, <3>1, Zenon
  <2>2. CASE \E c \in cache : c[1] = p
    <3>1. PICK c \in cache : c[1] = p
      BY <2>2
    <3>2. c = <<p, Allow(p)>>
      BY <3>1, Zenon DEF CacheInv
    <3> HIDE DEF new
    <3> QED BY <1>1, <3>1, <3>2, Zenon
  <2> QED BY <2>1, <2>2
<1>5. ASSUME NEW p \in paths PROVE SkipsPath(cache', p) <=> ~Allow(p)
  <2>1. ASSUME <<p, FALSE>> \in cache' PROVE ~Allow(p)
    <3> DEFINE c == <<p, FALSE>>
    <3>1. c = <<c[1], Allow(c[1])>>
      <4>1. c \in cache'
        BY <2>1
      <4> HIDE DEF c
      <4> QED BY <1>2, <4>1, Zenon
    <3>2. c[1] = p
      OBVIOUS
    <3>3. <<p, FALSE>> = <<p, Allow(p)>>
      <4>1. c = <<p, Allow(p)>>
        <5> HIDE DEF c
        <5> QED BY <3>1, <3>2, Zenon
      <4> QED BY <4>1, Zenon
    <3>4. FALSE = Allow(p)
      BY <3>3, Zenon
    <3> QED BY <3>4, Zenon
  <2>2. ASSUME ~Allow(p) PROVE <<p, FALSE>> \in cache'
    <3>1. Allow(p) = FALSE
      BY <2>2, Zenon DEF Allow
    <3> QED BY <1>4, <3>1, Zenon
  <2> QED BY <2>1, <2>2, Zenon DEF SkipsPath
<1> QED BY <1>3, <1>5

\* One more element for a list of two.
LEMMA AppendToPair ==
  ASSUME NEW a, NEW b, NEW c
  PROVE  Append(<<a, b>>, c) = <<a, b, c>>
<1> DEFINE S == {a, b, c}
           s == <<a, b>>
           t == <<a, b, c>>
           u == Append(s, c)
<1>1. s \in Seq(S) /\ c \in S /\ Len(s) = 2 /\ s[1] = a /\ s[2] = b
  OBVIOUS
<1>2. t \in Seq(S) /\ Len(t) = 3 /\ t[1] = a /\ t[2] = b /\ t[3] = c
  OBVIOUS
<1>3. u \in Seq(S) /\ Len(u) = 3 /\ u[1] = a /\ u[2] = b /\ u[3] = c
  <2> HIDE DEF s, S
  <2>1. /\ u \in Seq(S) /\ Len(u) = Len(s) + 1
        /\ \A i \in 1..Len(s) : u[i] = s[i]
        /\ u[Len(s) + 1] = c
    <3>1. s \in Seq(S) /\ c \in S
      BY <1>1
    <3> QED BY <3>1, AppendProperties
  <2> HIDE DEF u
  <2>2. Len(u) = 3 /\ u[3] = c
    BY <1>1, <2>1
  <2>3. 1 \in 1..Len(s) /\ 2 \in 1..Len(s)
    BY <1>1
  <2> QED BY <1>1, <2>1, <2>2, <2>3, Zenon
<1>4. \A i \in 1..3 : u[i] = t[i]
  <2>1. \A i \in 1..3 : i = 1 \/ i = 2 \/ i = 3
    OBVIOUS
  <2> HIDE DEF u, t
  <2> QED BY <1>2, <1>3, <2>1
<1>5. u = t
  <2> HIDE DEF u, t, S
  <2> QED BY <1>2, <1>3, <1>4, SeqEqual
<1> QED BY <1>5

\* main() sets the filters up as the options say.
LEMMA WireInv ==
  ASSUME Inv, WireFilters
  PROVE  Inv'
<1>1. /\ stage' = <<"gather", 0>> /\ stage'[1] = "gather"
      /\ UNCHANGED <<env, cache, asserted>>
  BY DEF WireFilters
<1>2. WiredInv'
  <2>1. filters' = [function |-> <<"noDebugInfo", "filePath">>,
                    instruction |-> IF Incremental THEN <<"noDebugInfo", "gitDiff">>
                                    ELSE <<"noDebugInfo">>,
                    mutation |-> IF env.junkDetection THEN Append(BaseFilters, "junk")
                                 ELSE BaseFilters]
    BY Zenon DEF WireFilters, BaseFilters, Incremental
  <2>2. Append(BaseFilters, "junk") = <<"noDebugInfo", "filePath", "junk">>
    BY AppendToPair DEF BaseFilters
  <2>3. gitDiffInfo' = IF env.git = "works" THEN ParseDiffContent(DiffContent(env.changes)) ELSE {}
    <3>1. CASE env.git = "works"
      BY <3>1, Zenon DEF WireFilters, ReadGitDiff
    <3>2. CASE env.git = "fails"
      BY <3>2, Zenon DEF WireFilters, ReadGitDiff
    <3>3. CASE env.git \notin {"fails", "works"}
      BY <3>3, Zenon DEF WireFilters
    <3> QED BY <3>1, <3>2, <3>3, Zenon
  <2>4. env.git = "fails" => warned'
    BY DEF WireFilters, ReadGitDiff
  <2> QED BY <1>1, <2>1, <2>2, <2>3, <2>4 DEF WiredInv, Incremental, BaseFilters
<1>3. stage' \in Stages
  BY <1>1 DEF Stages
<1>4. FunctionsInv' /\ SelectedInv' /\ PointsInv'
  BY <1>1 DEF FunctionsInv, SelectedInv, PointsInv
<1>5. CacheInv'
  BY <1>1 DEF Inv, CacheInv, Allow
<1> QED BY <1>1, <1>2, <1>3, <1>4, <1>5 DEF Inv

\* Coverage chooses the functions.
LEMMA GatherInv ==
  ASSUME Inv, GetFunctionsUnderTest
  PROVE  Inv'
<1>1. /\ stage = <<"gather", 0>> /\ stage[1] = "gather"
      /\ stage' = <<"functions", 1>> /\ stage'[1] = "functions" /\ stage'[2] = 1
      /\ functions' = FunctionsUnderTest
      /\ warned => warned'
      /\ UNCHANGED <<env, gitDiffInfo, filters, cache, asserted>>
  BY DEF GetFunctionsUnderTest
<1>2. WiredInv'
  BY <1>1 DEF Inv, WiredInv, Incremental
<1>3. FunctionsInv' /\ SelectedInv' /\ PointsInv'
  <2>1. functions' = PassedFunctions(1)
    BY <1>1 DEF PassedFunctions
  <2>2. functions' = PassedFunctions(1)'
    BY <1>1, <2>1, Frozen
  <2> QED BY <1>1, <2>2 DEF FunctionsInv, SelectedInv, PointsInv
<1>4. stage' \in Stages
  BY <1>1 DEF Stages
<1>5. CacheInv'
  BY <1>1 DEF Inv, CacheInv, Allow
<1> QED BY <1>1, <1>2, <1>3, <1>4, <1>5 DEF Inv

\* One filter over a list of locations: the path filter, the second of its list,
\* sees none that is null, and each filter skips what it should.
LEMMA FilterStep ==
  ASSUME CacheInv, UNCHANGED env, asserted = FALSE, NEW filter, NEW locations,
         FilePathStep(filter, locations),
         filter = "filePath" => \A l \in locations : ~IsNull(l)
  PROVE  /\ CacheInv' /\ asserted' = FALSE
         /\ filter = "filePath" => \A l \in locations : Skips(filter, l) <=> ~Allow(l.file)
         /\ filter = "noDebugInfo" => \A l \in locations : Skips(filter, l) <=> IsNull(l)
         /\ filter = "junk" => \A l \in locations : Skips(filter, l) <=> l.junk
<1>1. CASE filter = "filePath"
  <2>1. asserted' = FALSE /\ cache' = CacheAfter({l.file : l \in locations})
    BY <1>1, Zenon DEF FilePathStep
  <2>2. /\ CacheInv'
        /\ \A p \in {l.file : l \in locations} : SkipsPath(cache', p) <=> ~Allow(p)
    BY <2>1, CacheSound
  <2>3. \A l \in locations : SkipsPath(cache', l.file) <=> ~Allow(l.file)
    BY <2>2, Zenon
  <2> QED BY <1>1, <2>1, <2>2, <2>3 DEF Skips
<1>2. CASE filter # "filePath"
  <2>1. asserted' = FALSE /\ UNCHANGED cache
    BY <1>2 DEF FilePathStep
  <2>2. CacheInv'
    BY <2>1 DEF CacheInv, Allow
  <2>3. filter = "noDebugInfo" => \A l \in locations : Skips(filter, l) <=> IsNull(l)
    BY Zenon DEF Skips
  <2>4. filter = "junk" => \A l \in locations : Skips(filter, l) <=> l.junk
    BY Zenon DEF Skips
  <2> QED BY <1>2, <2>1, <2>2, <2>3, <2>4
<1> QED BY <1>1, <1>2

\* One filter of functions.
LEMMA FilterFunctionsInv ==
  ASSUME Inv, FilterFunctions
  PROVE  Inv'
<1>0. PICK k : k = stage[2]
  OBVIOUS
<1> DEFINE filter == filters.function[k]
           locations == {f[1] : f \in functions}
<1>1. /\ stage[1] = "functions" /\ k \in 1..2 /\ WiredInv
      /\ Len(filters.function) = 2
  <2>1. /\ stage[1] = "functions" /\ k <= Len(filters.function) /\ WiredInv /\ stage \in Stages
    BY <1>0 DEF FilterFunctions, Inv
  <2>2. Len(filters.function) = 2
    BY <2>1 DEF WiredInv
  <2> QED BY <1>0, <2>1, <2>2, StageFacts
<1>2. /\ FilePathStep(filter, locations)
      /\ functions' = {f \in functions : ~Skips(filter, f[1])}
      /\ stage' = <<"functions", k + 1>>
      /\ UNCHANGED <<env, warned, gitDiffInfo, filters, selected, points>>
  BY <1>0 DEF FilterFunctions
<1>3. /\ k = 1 => filter = "noDebugInfo"
      /\ k = 2 => filter = "filePath"
  BY <1>1 DEF WiredInv
<1>4. functions = PassedFunctions(k) /\ CacheInv /\ asserted = FALSE
  BY <1>0, <1>1 DEF Inv, FunctionsInv
<1>5. filter = "filePath" => \A l \in locations : ~IsNull(l)
  <2>1. k = 2 => \A f \in functions : ~IsNull(f[1])
    BY <1>4 DEF PassedFunctions
  <2>2. filter = "filePath" => k = 2
    BY <1>1, <1>3
  <2> HIDE DEF filter
  <2> QED BY <2>1, <2>2, Zenon
<1>6. /\ CacheInv' /\ asserted' = FALSE
      /\ filter = "filePath" => \A l \in locations : Skips(filter, l) <=> ~Allow(l.file)
      /\ filter = "noDebugInfo" => \A l \in locations : Skips(filter, l) <=> IsNull(l)
  <2> HIDE DEF filter, locations
  <2> QED BY <1>2, <1>4, <1>5, FilterStep
<1>7. \A f \in functions : f[1] \in locations
  BY Zenon
<1> HIDE DEF filter, locations
<1>8. functions' = PassedFunctions(k + 1)
  <2>1. CASE k = 1
    <3>1. functions' = {f \in functions : ~IsNull(f[1])}
      BY <1>2, <1>3, <1>6, <1>7, <2>1
    <3> QED BY <1>4, <2>1, <3>1 DEF PassedFunctions
  <2>2. CASE k = 2
    <3>1. functions' = {f \in functions : Allow(f[1].file)}
      BY <1>2, <1>3, <1>6, <1>7, <2>2
    <3> QED BY <1>4, <2>2, <3>1 DEF PassedFunctions
  <2> QED BY <1>1, <2>1, <2>2
<1>9. stage'[1] = "functions" /\ stage'[2] = k + 1 /\ stage' \in Stages
  BY <1>1, <1>2 DEF Stages
<1>10. FunctionsInv' /\ SelectedInv' /\ PointsInv'
  <2>1. functions' = PassedFunctions(k + 1)'
    BY <1>2, <1>8, Frozen
  <2> QED BY <1>9, <2>1 DEF FunctionsInv, SelectedInv, PointsInv
<1>11. WiredInv'
  BY <1>1, <1>2 DEF WiredInv, Incremental
<1> QED BY <1>2, <1>6, <1>9, <1>10, <1>11 DEF Inv

\* Nor does a filter's selection, or what the mutators find in it.
LEMMA FrozenPoints ==
  ASSUME UNCHANGED <<env, filters, gitDiffInfo, functions, selected>>
  PROVE  /\ {<<f[1], SelectInstructions(f[1])>> : f \in functions}'
              = {<<f[1], SelectInstructions(f[1])>> : f \in functions}
         /\ FoundPoints' = FoundPoints
         /\ \A k : PassedPoints(k)' = PassedPoints(k)
<1>1. ASSUME NEW f PROVE SelectInstructions(f)' = SelectInstructions(f)
  BY DEF SelectInstructions, SkipsInstruction, GitDiffSkips
<1>2. {<<f[1], SelectInstructions(f[1])>> : f \in functions}'
        = {<<f[1], SelectInstructions(f[1])>> : f \in functions}
  BY <1>1
<1>3. FoundPoints' = FoundPoints
  BY DEF FoundPoints, Candidates
<1>4. ASSUME NEW k PROVE PassedPoints(k)' = PassedPoints(k)
  BY <1>3, Frozen DEF PassedPoints
<1> QED BY <1>2, <1>3, <1>4

\* All filters of functions have run.
LEMMA SelectInv ==
  ASSUME Inv, Select
  PROVE  Inv'
<1>1. /\ stage[1] = "functions" /\ stage[2] = 3 /\ WiredInv
  <2>1. /\ stage[1] = "functions" /\ stage[2] > Len(filters.function) /\ WiredInv
        /\ stage \in Stages
    BY DEF Select, Inv
  <2>2. Len(filters.function) = 2
    BY <2>1 DEF WiredInv
  <2> QED BY <2>1, <2>2, StageFacts
<1>2. /\ selected' = {<<f[1], SelectInstructions(f[1])>> : f \in functions}
      /\ stage' = <<"find", 0>> /\ stage'[1] = "find"
      /\ UNCHANGED <<env, warned, gitDiffInfo, filters, functions, points, cache, asserted>>
  BY DEF Select
<1>3. FunctionsInv'
  <2>1. functions = PassedFunctions(3)
    BY <1>1 DEF Inv, FunctionsInv
  <2> QED BY <1>2, <2>1, Frozen DEF FunctionsInv
<1>4. SelectedInv'
  <2>1. ASSUME NEW f PROVE SelectInstructions(f)' = SelectInstructions(f)
    BY <1>2 DEF SelectInstructions, SkipsInstruction, GitDiffSkips
  <2> QED BY <1>2, <2>1 DEF SelectedInv
<1>5. PointsInv' /\ stage' \in Stages
  BY <1>2 DEF PointsInv, Stages
<1>6. WiredInv'
  BY <1>1, <1>2 DEF WiredInv, Incremental
<1>7. CacheInv'
  BY <1>2 DEF Inv, CacheInv, Allow
<1> QED BY <1>2, <1>3, <1>4, <1>5, <1>6, <1>7 DEF Inv

\* The mutators find their points.
LEMMA FindInv ==
  ASSUME Inv, GetMutationPoints
  PROVE  Inv'
<1>1. stage = <<"find", 0>> /\ stage[1] = "find" /\ WiredInv
  BY DEF GetMutationPoints, Inv
<1>2. /\ points' = FoundPoints
      /\ stage' = <<"mutations", 1>> /\ stage'[1] = "mutations" /\ stage'[2] = 1
      /\ UNCHANGED <<env, warned, gitDiffInfo, filters, functions, selected, cache, asserted>>
  BY DEF GetMutationPoints, FoundPoints
<1>3. FunctionsInv'
  <2>1. functions = PassedFunctions(3)
    BY <1>1 DEF Inv, FunctionsInv
  <2> QED BY <1>2, <2>1, Frozen DEF FunctionsInv
<1>4. SelectedInv'
  <2>1. selected = {<<f[1], SelectInstructions(f[1])>> : f \in functions}
    BY <1>1 DEF Inv, SelectedInv
  <2> QED BY <1>2, <2>1, FrozenPoints DEF SelectedInv
<1>5. PointsInv'
  <2>1. points' = PassedPoints(1)
    BY <1>2 DEF PassedPoints
  <2>2. points' = PassedPoints(1)'
    BY <1>2, <2>1, FrozenPoints
  <2>3. stage'[2] <= Len(filters'.mutation) + 1
    <3>1. Len(filters.mutation) = 2 \/ Len(filters.mutation) = 3
      BY <1>1 DEF WiredInv
    <3> QED BY <1>2, <3>1
  <2> QED BY <1>2, <2>2, <2>3 DEF PointsInv
<1>6. WiredInv' /\ stage' \in Stages
  BY <1>1, <1>2 DEF WiredInv, Incremental, Stages
<1>7. CacheInv'
  BY <1>2 DEF Inv, CacheInv, Allow
<1> QED BY <1>2, <1>3, <1>4, <1>5, <1>6, <1>7 DEF Inv

\* One filter of mutations.
LEMMA FilterMutationsInv ==
  ASSUME Inv, FilterMutations
  PROVE  Inv'
<1>0. PICK k : k = stage[2]
  OBVIOUS
<1> DEFINE filter == filters.mutation[k]
           locations == {p[3] : p \in points}
<1>1. /\ stage[1] = "mutations" /\ k \in 1..3 /\ WiredInv /\ k <= Len(filters.mutation)
      /\ k = 3 => Len(filters.mutation) = 3
      /\ Len(filters.mutation) \in 2..3
  <2>1. /\ stage[1] = "mutations" /\ k <= Len(filters.mutation) /\ WiredInv /\ stage \in Stages
    BY <1>0 DEF FilterMutations, Inv
  <2>2. Len(filters.mutation) = 2 \/ Len(filters.mutation) = 3
    BY <2>1 DEF WiredInv
  <2>3. k \in 1..4
    BY <1>0, <2>1, StageFacts
  <2>4. PICK n \in 2..3 : n = Len(filters.mutation)
    BY <2>2
  <2>5. k <= n
    BY <2>1, <2>4
  <2>6. k \in 1..3 /\ (k = 3 => n = 3)
    BY <2>3, <2>5
  <2> QED BY <2>1, <2>4, <2>6
<1>2. /\ FilePathStep(filter, locations)
      /\ points' = {p \in points : ~Skips(filter, p[3])}
      /\ stage' = <<"mutations", k + 1>>
      /\ UNCHANGED <<env, warned, gitDiffInfo, filters, functions, selected>>
  BY <1>0 DEF FilterMutations
<1>3. /\ k = 1 => filter = "noDebugInfo"
      /\ k = 2 => filter = "filePath"
      /\ k = 3 => filter = "junk"
  <2>1. CASE env.junkDetection
    <3>1. filters.mutation = <<"noDebugInfo", "filePath", "junk">>
      BY <1>1, <2>1 DEF WiredInv
    <3> QED BY <3>1
  <2>2. CASE ~env.junkDetection
    <3>1. filters.mutation = <<"noDebugInfo", "filePath">>
      BY <1>1, <2>2 DEF WiredInv
    <3> QED BY <1>1, <3>1
  <2> QED BY <2>1, <2>2
<1>4. points = PassedPoints(k) /\ CacheInv /\ asserted = FALSE
  BY <1>0, <1>1 DEF Inv, PointsInv
<1>5. filter = "filePath" => \A l \in locations : ~IsNull(l)
  <2>1. k = 2 => \A p \in points : ~IsNull(p[3])
    BY <1>4 DEF PassedPoints
  <2>2. filter = "filePath" => k = 2
    BY <1>1, <1>3
  <2> HIDE DEF filter
  <2> QED BY <2>1, <2>2, Zenon
<1>6. /\ CacheInv' /\ asserted' = FALSE
      /\ filter = "filePath" => \A l \in locations : Skips(filter, l) <=> ~Allow(l.file)
      /\ filter = "noDebugInfo" => \A l \in locations : Skips(filter, l) <=> IsNull(l)
      /\ filter = "junk" => \A l \in locations : Skips(filter, l) <=> l.junk
  <2> HIDE DEF filter, locations
  <2> QED BY <1>2, <1>4, <1>5, FilterStep
<1>7. \A p \in points : p[3] \in locations
  BY Zenon
<1> HIDE DEF filter, locations
<1>8. points' = PassedPoints(k + 1)
  <2>1. CASE k = 1
    <3>1. points' = {p \in points : ~IsNull(p[3])}
      BY <1>2, <1>3, <1>6, <1>7, <2>1
    <3> QED BY <1>4, <2>1, <3>1 DEF PassedPoints
  <2>2. CASE k = 2
    <3>1. points' = {p \in points : Allow(p[3].file)}
      BY <1>2, <1>3, <1>6, <1>7, <2>2
    <3> QED BY <1>4, <2>2, <3>1 DEF PassedPoints
  <2>3. CASE k = 3
    <3>1. points' = {p \in points : ~p[3].junk}
      BY <1>2, <1>3, <1>6, <1>7, <2>3
    <3> QED BY <1>4, <2>3, <3>1 DEF PassedPoints
  <2> QED BY <1>1, <2>1, <2>2, <2>3
<1>9. /\ stage'[1] = "mutations" /\ stage'[2] = k + 1 /\ stage' \in Stages
      /\ k + 1 <= Len(filters.mutation) + 1
  BY <1>1, <1>2 DEF Stages
<1>10. PointsInv'
  <2>1. points' = PassedPoints(k + 1)'
    BY <1>2, <1>8, FrozenPoints
  <2> QED BY <1>2, <1>9, <2>1 DEF PointsInv
<1>11. FunctionsInv'
  <2>1. functions = PassedFunctions(3)
    BY <1>1 DEF Inv, FunctionsInv
  <2> QED BY <1>2, <1>9, <2>1, Frozen DEF FunctionsInv
<1>12. SelectedInv'
  <2>1. selected = {<<f[1], SelectInstructions(f[1])>> : f \in functions}
    BY <1>1 DEF Inv, SelectedInv
  <2> QED BY <1>2, <1>9, <2>1, FrozenPoints DEF SelectedInv
<1>13. WiredInv'
  BY <1>1, <1>2 DEF WiredInv, Incremental
<1> QED BY <1>2, <1>6, <1>9, <1>10, <1>11, <1>12, <1>13 DEF Inv

\* Every step of the driver preserves the invariant.
LEMMA InvNext == Inv /\ [Next]_vars => Inv'
<1> SUFFICES ASSUME Inv, [Next]_vars PROVE Inv'
  OBVIOUS
<1>1. CASE UNCHANGED vars
  <2>1. UNCHANGED <<env, stage, warned, gitDiffInfo, filters, functions, selected, points,
                    cache, asserted>>
    BY <1>1 DEF vars
  <2>2. FunctionsInv' /\ CacheInv'
    BY <2>1, Frozen DEF Inv, FunctionsInv, CacheInv, Allow
  <2>3. SelectedInv' /\ PointsInv'
    BY <2>1, FrozenPoints DEF Inv, SelectedInv, PointsInv
  <2>4. WiredInv => WiredInv'
    BY <2>1 DEF WiredInv, Incremental
  <2> QED BY <2>1, <2>2, <2>3, <2>4 DEF Inv
<1>2. CASE WireFilters
  BY <1>2, WireInv
<1>3. CASE GetFunctionsUnderTest
  BY <1>3, GatherInv
<1>4. CASE FilterFunctions
  BY <1>4, FilterFunctionsInv
<1>5. CASE Select
  BY <1>5, SelectInv
<1>6. CASE GetMutationPoints
  BY <1>6, FindInv
<1>7. CASE FilterMutations
  BY <1>7, FilterMutationsInv
<1> QED BY <1>1, <1>2, <1>3, <1>4, <1>5, <1>6, <1>7 DEF Next

\* The invariant holds in every state of the driver's search.
THEOREM Invariance == Spec => []Inv
BY InvInit, InvNext, PTL DEF Spec

-------------------------------------------------------------------------------
(* What the invariant gives.                                               *)

\* The functions are the program's.
LEMMA FunctionFacts ==
  ASSUME NEW f \in FunctionsUnderTest
  PROVE  /\ f[1] \in Functions
         /\ env.coverage = "read" /\ f[2] => Covered(f[1])
<1>1. CASE env.coverage = "read"
  <2>1. PICK g \in Functions : f = <<g, Covered(g)>>
    BY <1>1, Zenon DEF FunctionsUnderTest
  <2>2. f[1] = g /\ f[2] = Covered(g)
    BY <2>1, Zenon
  <2> QED BY <2>2, Zenon
<1>2. CASE env.coverage # "read"
  <2>1. f \in Functions \X {TRUE}
    BY <1>2, Zenon DEF FunctionsUnderTest
  <2> QED BY <1>2, <2>1
<1> QED BY <1>1, <1>2

\* The instructions on changed lines are the ones the diff filter leaves.
LEMMA DiffSelects ==
  ASSUME Inv, WiredInv, env.git = "works", NEW i, i.line \in Nat
  PROVE  ~GitDiffSkips(i) <=> i.line # 0 /\ i.file \in Files
                                         /\ i.line \in env.changes[i.file][2]
<1>1. gitDiffInfo = ParseDiffContent(DiffContent(env.changes))
  BY DEF WiredInv
<1>2. PICK changes \in [Files -> Changes] : changes = env.changes
  BY DEF Inv
<1>3. (\E r \in ParseDiffContent(DiffContent(changes)) :
         r[1] = i.file /\ r[2] <= i.line /\ i.line <= r[2] + r[3] - 1)
      <=> i.file \in Files /\ i.line \in changes[i.file][2]
  BY DiffLines
<1> QED BY <1>1, <1>2, <1>3, Zenon DEF GitDiffSkips, InRange, IsNull

\* What is selected in a function.
LEMMA Selects ==
  ASSUME WiredInv, NEW f, NEW i
  PROVE  i \in SelectInstructions(f)
         <=> i \in f.body /\ ~IsNull(i) /\ (Incremental => ~GitDiffSkips(i))
<1>1. CASE Incremental
  <2>1. filters.instruction = <<"noDebugInfo", "gitDiff">>
    BY <1>1 DEF WiredInv
  <2>2. DOMAIN filters.instruction = {1, 2}
    BY <2>1
  <2>3. /\ SkipsInstruction(filters.instruction[1], i) <=> IsNull(i)
        /\ SkipsInstruction(filters.instruction[2], i) <=> GitDiffSkips(i)
    <3>1. filters.instruction[1] = "noDebugInfo" /\ filters.instruction[2] = "gitDiff"
      BY <2>1
    <3> QED BY <3>1, Zenon DEF SkipsInstruction
  <2> QED BY <1>1, <2>2, <2>3, Zenon DEF SelectInstructions
<1>2. CASE ~Incremental
  <2>1. filters.instruction = <<"noDebugInfo">>
    BY <1>2 DEF WiredInv
  <2>2. DOMAIN filters.instruction = {1}
    BY <2>1
  <2>3. SkipsInstruction(filters.instruction[1], i) <=> IsNull(i)
    <3>1. filters.instruction[1] = "noDebugInfo"
      BY <2>1
    <3> QED BY <3>1, Zenon DEF SkipsInstruction
  <2> QED BY <1>2, <2>2, <2>3, Zenon DEF SelectInstructions
<1> QED BY <1>1, <1>2

\* The state at the end.
LEMMA DoneFacts ==
  ASSUME Inv, Done
  PROVE  /\ WiredInv
         /\ functions = PassedFunctions(3)
         /\ selected = {<<f[1], SelectInstructions(f[1])>> : f \in functions}
         /\ \A p : p \in points <=> /\ p \in FoundPoints
                                    /\ ~IsNull(p[3]) /\ Allow(p[3].file)
                                    /\ ~(env.junkDetection /\ p[3].junk)
<1>1. /\ stage[1] = "mutations" /\ stage[2] > Len(filters.mutation) /\ stage \in Stages
      /\ WiredInv /\ functions = PassedFunctions(3)
      /\ selected = {<<f[1], SelectInstructions(f[1])>> : f \in functions}
      /\ stage[2] <= Len(filters.mutation) + 1 /\ points = PassedPoints(stage[2])
  BY DEF Done, Inv, FunctionsInv, SelectedInv, PointsInv
<1>2. stage[2] \in 1..4
  BY <1>1, StageFacts
<1>3. CASE env.junkDetection
  <2>1. Len(filters.mutation) = 3
    BY <1>1, <1>3 DEF WiredInv
  <2>2. stage[2] = 4
    BY <1>1, <1>2, <2>1
  <2>3. points = PassedPoints(4)
    BY <1>1, <2>2
  <2> QED BY <1>1, <1>3, <2>3 DEF PassedPoints
<1>4. CASE ~env.junkDetection
  <2>1. Len(filters.mutation) = 2
    BY <1>1, <1>4 DEF WiredInv
  <2>2. stage[2] = 3
    BY <1>1, <1>2, <2>1
  <2>3. points = PassedPoints(3)
    BY <1>1, <2>2
  <2> QED BY <1>1, <1>4, <2>3 DEF PassedPoints
<1> QED BY <1>3, <1>4

\* A point comes from a function under test, and is of && or || or was selected.
LEMMA PointFacts ==
  ASSUME Inv, Done, NEW p \in points
  PROVE  \E f \in FunctionsUnderTest :
           /\ p[1] = f[1] /\ p[2] = f[2] /\ p[3] \in f[1].body
           /\ p[3].logical \/ p[3] \in SelectInstructions(f[1])
<1>1. /\ WiredInv /\ functions = PassedFunctions(3) /\ p \in FoundPoints
      /\ selected = {<<f[1], SelectInstructions(f[1])>> : f \in functions}
  BY DoneFacts
<1>2. PICK f \in functions : p \in {<<f[1], f[2], i>> : i \in Candidates(f[1])}
  BY <1>1, Zenon DEF FoundPoints
<1>3. PICK i \in Candidates(f[1]) : p = <<f[1], f[2], i>>
  BY <1>2, Zenon
<1>4. p[1] = f[1] /\ p[2] = f[2] /\ p[3] = i
  BY <1>3
<1>5. f \in FunctionsUnderTest
  BY <1>1, <1>2 DEF PassedFunctions
<1>6. i \in f[1].body /\ (i.logical \/ i \in SelectInstructions(f[1]))
  <2>1. CASE i \in {j \in f[1].body : j.logical}
    BY <2>1
  <2>2. CASE i \in UNION {s[2] : s \in {x \in selected : x[1] = f[1]}}
    <3>1. PICK s \in selected : s[1] = f[1] /\ i \in s[2]
      BY <2>2, Zenon
    <3>2. PICK g \in functions : s = <<g[1], SelectInstructions(g[1])>>
      BY <1>1, <3>1, Zenon
    <3>3. s[1] = g[1] /\ s[2] = SelectInstructions(g[1])
      BY <3>2, Zenon
    <3>4. i \in SelectInstructions(f[1])
      BY <3>1, <3>3, Zenon
    <3>5. i \in f[1].body
      BY <3>4, Zenon DEF SelectInstructions
    <3> QED BY <3>4, <3>5
  <2> QED BY <1>3, <2>1, <2>2, Zenon DEF Candidates
<1> QED BY <1>4, <1>5, <1>6, Zenon

-------------------------------------------------------------------------------
\* FilePathFilter::shouldSkip is never asked about a null location: the filter
\* before it in both lists removes them, whatever the mutators found.
THEOREM PathFilterSafe == Spec => []NeverAskedNull
<1>1. Inv => NeverAskedNull
  BY DEF Inv, NeverAskedNull
<1> QED BY <1>1, Invariance, PTL

\* Every mutation point is on a line of the diff, unless it is of && or ||, and
\* what counts as covered was executed, or has a name the profile cannot tell
\* from one that was: GitDiffReader, GitDiffFilter and getFunctionsUnderTest, for
\* all diffs, programs and profiles.
THEOREM NothingUnwanted == Spec => []OnlyWanted
<1>1. ASSUME Inv, Done, Incremental, NEW p \in points, ~p[3].logical
      PROVE  Wanted(p[3])
  <2>1. WiredInv
    BY <1>1, DoneFacts
  <2>2. PICK f \in FunctionsUnderTest : /\ p[3] \in f[1].body
                                        /\ p[3] \in SelectInstructions(f[1])
    BY <1>1, PointFacts
  <2>3. ~GitDiffSkips(p[3])
    BY <1>1, <2>1, <2>2, Selects
  <2>4. p[3].line \in Nat
    BY <2>2, FunctionFacts, FiltersAssumption
  <2>5. env.git = "works"
    <3>1. ASSUME env.git # "works" PROVE FALSE
      <4>1. gitDiffInfo = {}
        BY <2>1, <3>1 DEF WiredInv
      <4> QED BY <2>3, <4>1 DEF GitDiffSkips
    <3> QED BY <3>1
  <2> QED BY <1>1, <2>1, <2>3, <2>4, <2>5, DiffSelects DEF Wanted
<1>2. ASSUME Inv, Done, env.coverage = "read", NEW p \in points, p[2]
      PROVE  \E g \in env.executed :
               \/ g = p[1]
               \/ g.name = p[1].name /\ (~g.static \/ Base(g.unit) = Base(p[1].unit))
  <2>1. PICK f \in FunctionsUnderTest : p[1] = f[1] /\ p[2] = f[2]
    BY <1>2, PointFacts
  <2>2. Covered(p[1])
    BY <1>2, <2>1, FunctionFacts
  <2>3. CASE <<p[1].name>> \in Records
    <3>1. PICK g \in env.executed : <<p[1].name>> = RecordName(g)
      BY <2>3, Zenon DEF Records
    <3>2. ~g.static
      <4>1. ASSUME g.static PROVE FALSE
        <5>1. <<p[1].name>> = <<Base(g.unit), g.name>>
          BY <3>1, <4>1, Zenon DEF RecordName
        <5>2. Len(<<p[1].name>>) = 1 /\ Len(<<Base(g.unit), g.name>>) = 2
          OBVIOUS
        <5> QED BY <5>1, <5>2
      <4> QED BY <4>1
    <3>3. <<p[1].name>> = <<g.name>>
      BY <3>1, <3>2, Zenon DEF RecordName
    <3>4. g.name = p[1].name
      BY <3>3, Zenon
    <3> QED BY <3>2, <3>4, Zenon
  <2>4. CASE <<Base(p[1].unit), p[1].name>> \in Records
    <3>1. PICK g \in env.executed : <<Base(p[1].unit), p[1].name>> = RecordName(g)
      BY <2>4, Zenon DEF Records
    <3>2. g.static
      <4>1. ASSUME ~g.static PROVE FALSE
        <5>1. <<Base(p[1].unit), p[1].name>> = <<g.name>>
          BY <3>1, <4>1, Zenon DEF RecordName
        <5>2. Len(<<g.name>>) = 1 /\ Len(<<Base(p[1].unit), p[1].name>>) = 2
          OBVIOUS
        <5> QED BY <5>1, <5>2
      <4> QED BY <4>1
    <3>3. <<Base(p[1].unit), p[1].name>> = <<Base(g.unit), g.name>>
      BY <3>1, <3>2, Zenon DEF RecordName
    <3>4. Base(g.unit) = Base(p[1].unit) /\ g.name = p[1].name
      BY <3>3, Zenon
    <3> QED BY <3>4, Zenon
  <2> QED BY <2>2, <2>3, <2>4 DEF Covered
<1>3. Inv => OnlyWanted
  BY <1>1, <1>2, Zenon DEF OnlyWanted, OnlyChangedLines, CoveredIsExecuted, Incremental
<1> QED BY <1>3, Invariance, PTL

\* A run that warned of nothing mutates every instruction that was asked for:
\* executed, on a changed line, in a file the lists allow.
THEOREM NothingLost == Spec => []NothingLostSilently
<1>1. ASSUME Inv, Done, ~warned, NEW f \in Functions, NEW i \in f.body,
             env.coverage = "read" => f \in env.executed, f.line # 0, i.line # 0,
             Allow(f.file), Allow(i.file), ~(env.junkDetection /\ i.junk), Wanted(i)
      PROVE  \E p \in points : p[1] = f /\ p[3] = i /\ p[2]
  <2> DEFINE t == <<f, TRUE>>
             p == <<f, TRUE, i>>
  <2>1. /\ WiredInv /\ functions = PassedFunctions(3)
        /\ selected = {<<g[1], SelectInstructions(g[1])>> : g \in functions}
    BY <1>1, DoneFacts
  <2>2. t \in FunctionsUnderTest
    <3>1. CASE env.coverage = "read"
      <4>1. RecordName(f) \in Records
        BY <1>1, <3>1, Zenon DEF Records
      <4>2. Covered(f) = TRUE
        <5>1. Covered(f)
          BY <4>1, Zenon DEF Covered, RecordName
        <5> QED BY <5>1, Zenon DEF Covered
      <4>3. <<f, Covered(f)>> \in FunctionsUnderTest
        BY <3>1, <4>2, Zenon DEF FunctionsUnderTest
      <4> QED BY <4>2, <4>3, Zenon
    <3>2. CASE env.coverage # "read"
      BY <3>2 DEF FunctionsUnderTest
    <3> QED BY <3>1, <3>2
  <2>3. t \in functions
    <3>1. t[1] = f
      OBVIOUS
    <3> HIDE DEF t
    <3> QED BY <1>1, <2>1, <2>2, <3>1 DEF PassedFunctions, IsNull
  <2>4. i \in SelectInstructions(f)
    <3>1. CASE Incremental
      <4>1. env.git = "works"
        BY <1>1, <2>1, <3>1 DEF WiredInv, Incremental
      <4>2. i.line \in Nat
        BY <1>1, FiltersAssumption
      <4>3. ~GitDiffSkips(i)
        BY <1>1, <2>1, <4>1, <4>2, DiffSelects DEF Wanted
      <4> QED BY <1>1, <2>1, <4>3, Selects DEF IsNull
    <3>2. CASE ~Incremental
      BY <1>1, <2>1, <3>2, Selects DEF IsNull
    <3> QED BY <3>1, <3>2
  <2>5. i \in Candidates(f)
    <3>1. CASE i.logical
      BY <1>1, <3>1, Zenon DEF Candidates
    <3>2. CASE ~i.logical
      <4> DEFINE s == <<f, SelectInstructions(f)>>
      <4>1. s \in selected
        <5>1. <<t[1], SelectInstructions(t[1])>> \in selected
          <6> HIDE DEF t
          <6> QED BY <2>1, <2>3, Zenon
        <5> QED BY <5>1, Zenon
      <4>2. s[1] = f /\ s[2] = SelectInstructions(f)
        BY Zenon
      <4> HIDE DEF s
      <4>3. s[2] \in {x[2] : x \in {y \in selected : y[1] = f}}
        BY <4>1, <4>2, Zenon
      <4>4. i \in UNION {x[2] : x \in {y \in selected : y[1] = f}}
        BY <2>4, <4>2, <4>3, Zenon
      <4> QED BY <3>2, <4>4, Zenon DEF Candidates
    <3> QED BY <3>1, <3>2
  <2>6. p \in FoundPoints
    <3>1. p = <<t[1], t[2], i>> /\ t[1] = f
      OBVIOUS
    <3> HIDE DEF p, t
    <3>2. p \in {<<t[1], t[2], j>> : j \in Candidates(t[1])}
      BY <2>5, <3>1, Zenon
    <3> QED BY <2>3, <3>2, Zenon DEF FoundPoints
  <2>7. p[1] = f /\ p[2] = TRUE /\ p[3] = i
    OBVIOUS
  <2> HIDE DEF p
  <2>8. p \in points
    BY <1>1, <2>6, <2>7, DoneFacts DEF IsNull
  <2> QED BY <2>7, <2>8, Zenon
<1>2. Inv => NothingLostSilently
  BY <1>1, Zenon DEF NothingLostSilently
<1> QED BY <1>2, Invariance, PTL

-------------------------------------------------------------------------------
(* MutatorsFactory: groups lead to mutators, four levels down.             *)

Simple == {"cxx_calls", "cxx_const_assignment", "cxx_bitwise_assignment",
           "cxx_arithmetic_assignment", "cxx_increment", "cxx_decrement", "cxx_arithmetic",
           "cxx_bitwise", "cxx_logical", "cxx_comparison", "cxx_boundary"}

\* The names whose groups lead to mutators in at most so many levels.
Within1 == Created \cup Simple
Within2 == Within1 \cup {"cxx_assignment", "cxx_default", "experimental"}
Within3 == Within2 \cup {"cxx_all"}
Within4 == Within3 \cup {"all"}

\* The groups there are.
LEMMA GroupNames ==
  Groups = Simple \cup {"cxx_assignment", "cxx_default", "experimental", "cxx_all", "all"}
BY DEF Groups, GroupsMapping, Simple

\* No group has the name of a mutator.
LEMMA MutatorsNoGroups == Created \cap Groups = {}
<1>1. /\ Calls \cap Groups = {} /\ ConstAssignment \cap Groups = {}
      /\ ArithmeticAssignment \cap Groups = {} /\ BitwiseAssignment \cap Groups = {}
      /\ Increment \cap Groups = {} /\ Decrement \cap Groups = {}
  BY GroupNames DEF Simple, Calls, ConstAssignment, ArithmeticAssignment, BitwiseAssignment,
                    Increment, Decrement
<1>2. /\ Arithmetic \cap Groups = {} /\ Bits \cap Groups = {} /\ Logical \cap Groups = {}
      /\ Comparison \cap Groups = {} /\ Boundary \cap Groups = {}
  BY GroupNames DEF Simple, Arithmetic, Bits, Logical, Comparison, Boundary
<1>3. {"negate_mutator", "scalar_value_mutator"} \cap Groups = {}
  BY GroupNames DEF Simple
<1> QED BY <1>1, <1>2, <1>3 DEF Created

\* What each group stands for.
LEMMA SimpleMembers ==
  /\ GroupsMapping["cxx_calls"] = Calls
  /\ GroupsMapping["cxx_const_assignment"] = ConstAssignment
  /\ GroupsMapping["cxx_bitwise_assignment"] = BitwiseAssignment
  /\ GroupsMapping["cxx_arithmetic_assignment"] = ArithmeticAssignment
  /\ GroupsMapping["cxx_increment"] = Increment
  /\ GroupsMapping["cxx_decrement"] = Decrement
  /\ GroupsMapping["cxx_arithmetic"] = Arithmetic
  /\ GroupsMapping["cxx_bitwise"] = Bits
  /\ GroupsMapping["cxx_logical"] = Logical
  /\ GroupsMapping["cxx_comparison"] = Comparison
  /\ GroupsMapping["cxx_boundary"] = Boundary
BY DEF GroupsMapping

\* Groups of groups.
LEMMA OtherMembers ==
  /\ GroupsMapping["cxx_assignment"] = {"cxx_bitwise_assignment", "cxx_arithmetic_assignment",
                                        "cxx_const_assignment"}
  /\ GroupsMapping["cxx_default"] = {"cxx_increment", "cxx_arithmetic", "cxx_comparison",
                                     "cxx_boundary"}
  /\ GroupsMapping["experimental"] = {"negate_mutator", "scalar_value_mutator", "cxx_logical"}
  /\ GroupsMapping["cxx_all"] = {"cxx_assignment", "cxx_increment", "cxx_decrement",
                                 "cxx_arithmetic", "cxx_comparison", "cxx_boundary",
                                 "cxx_bitwise", "cxx_calls"}
  /\ GroupsMapping["all"] = {"cxx_all", "experimental"}
BY DEF GroupsMapping

\* A group has members, and they are a level below.
LEMMA GroupLevels ==
  /\ \A g \in Simple : GroupsMapping[g] # {} /\ GroupsMapping[g] \subseteq Created
  /\ \A g \in {"cxx_assignment", "cxx_default", "experimental"} :
       GroupsMapping[g] # {} /\ GroupsMapping[g] \subseteq Within1
  /\ GroupsMapping["cxx_all"] # {} /\ GroupsMapping["cxx_all"] \subseteq Within2
  /\ GroupsMapping["all"] # {} /\ GroupsMapping["all"] \subseteq Within3
<1>1. /\ Calls # {} /\ ConstAssignment # {} /\ ArithmeticAssignment # {}
      /\ BitwiseAssignment # {} /\ Increment # {} /\ Decrement # {} /\ Arithmetic # {}
      /\ Bits # {} /\ Logical # {} /\ Comparison # {} /\ Boundary # {}
  BY DEF Calls, ConstAssignment, ArithmeticAssignment, BitwiseAssignment, Increment, Decrement,
         Arithmetic, Bits, Logical, Comparison, Boundary
<1>2. ASSUME NEW g \in Simple
      PROVE  GroupsMapping[g] # {} /\ GroupsMapping[g] \subseteq Created
  BY <1>1, SimpleMembers DEF Simple, Created
<1>3. \A g \in {"cxx_assignment", "cxx_default", "experimental"} :
        GroupsMapping[g] # {} /\ GroupsMapping[g] \subseteq Within1
  BY OtherMembers DEF Within1, Simple, Created
<1>4. GroupsMapping["cxx_all"] # {} /\ GroupsMapping["cxx_all"] \subseteq Within2
  BY OtherMembers DEF Within2, Within1, Simple
<1>5. GroupsMapping["all"] # {} /\ GroupsMapping["all"] \subseteq Within3
  BY OtherMembers DEF Within3, Within2
<1> QED BY <1>2, <1>3, <1>4, <1>5

\* Members of names within a level are within the level below.
LEMMA MembersBelow ==
  /\ Members(Created) = {} /\ Members(Within1) \subseteq Created
  /\ Members(Within2) \subseteq Within1 /\ Members(Within3) \subseteq Within2
  /\ Members(Within4) \subseteq Within3
<1>1. Members(Created) = {}
  BY MutatorsNoGroups DEF Members
<1>2. /\ Within1 \cap Groups = Simple
      /\ Within2 \cap Groups = Simple \cup {"cxx_assignment", "cxx_default", "experimental"}
      /\ Within3 \cap Groups =
           Simple \cup {"cxx_assignment", "cxx_default", "experimental", "cxx_all"}
      /\ Within4 \cap Groups = Groups
  BY MutatorsNoGroups, GroupNames DEF Within1, Within2, Within3, Within4
<1>3. Created \subseteq Within1 /\ Within1 \subseteq Within2 /\ Within2 \subseteq Within3
  BY DEF Within1, Within2, Within3
<1>4. Members(Within1) \subseteq Created
  BY <1>2, GroupLevels DEF Members
<1>5. Members(Within2) \subseteq Within1
  BY <1>2, <1>3, GroupLevels DEF Members
<1>6. Members(Within3) \subseteq Within2
  BY <1>2, <1>3, GroupLevels DEF Members
<1>7. Members(Within4) \subseteq Within3
  BY <1>2, <1>3, GroupLevels, GroupNames DEF Members
<1> QED BY <1>1, <1>4, <1>5, <1>6, <1>7

\* A name is a group's or a mutator's.
LEMMA NamesLevel == Names = Within4 /\ Names = Groups \cup Created
<1>1. Groups \cup Created = Within4
  BY GroupNames DEF Within1, Within2, Within3, Within4
<1>2. Members(Groups) \subseteq Within4
  <2>1. Members(Groups) = Members(Within4)
    BY <1>1, MutatorsNoGroups DEF Members
  <2>2. Within3 \subseteq Within4
    BY DEF Within4
  <2> QED BY <2>1, <2>2, MembersBelow
<1>3. Names = Groups \cup Created \cup Members(Groups)
  BY DEF Names, Members
<1> QED BY <1>1, <1>2, <1>3

\* Members are those of the parts.
LEMMA MembersFacts ==
  ASSUME NEW S, NEW T
  PROVE  /\ Members(S \cup T) = Members(S) \cup Members(T)
         /\ S \subseteq T => Members(S) \subseteq Members(T)
BY DEF Members

\* What can be reached is what is four levels below.
LEMMA Layers ==
  ASSUME NEW S
  PROVE  Reachable(S) = S \cup Members(S) \cup Members(Members(S))
                          \cup Members(Members(Members(S)))
                          \cup Members(Members(Members(Members(S))))
<1> DEFINE A == Members(S)
           B == Members(A)
           C == Members(B)
           D == Members(C)
<1>1. Step(S) = S \cup A
  BY DEF Step
<1>2. Step(Step(S)) = S \cup A \cup B
  <2>1. Members(S \cup A) = A \cup B
    BY MembersFacts
  <2> QED BY <1>1, <2>1 DEF Step
<1>3. Step(Step(Step(S))) = S \cup A \cup B \cup C
  <2>1. Members((S \cup A) \cup B) = Members(S \cup A) \cup C
    BY MembersFacts
  <2>2. Members(S \cup A) = A \cup B
    BY MembersFacts
  <2> QED BY <1>2, <2>1, <2>2 DEF Step
<1>4. Step(Step(Step(Step(S)))) = S \cup A \cup B \cup C \cup D
  <2>1. Members((S \cup A) \cup (B \cup C)) = Members(S \cup A) \cup Members(B \cup C)
    BY MembersFacts
  <2>2. Members(S \cup A) = A \cup B /\ Members(B \cup C) = C \cup D
    BY MembersFacts
  <2>3. (S \cup A) \cup (B \cup C) = S \cup A \cup B \cup C
    OBVIOUS
  <2>4. Members(S \cup A \cup B \cup C) = A \cup B \cup C \cup D
    BY <2>1, <2>2, <2>3
  <2> QED BY <1>3, <2>4 DEF Step
<1> QED BY <1>4 DEF Reachable

\* Below the fourth level is nothing.
LEMMA NothingBelow ==
  ASSUME NEW S, S \subseteq Names
  PROVE  /\ Members(S) \subseteq Within3 /\ Members(Members(S)) \subseteq Within2
         /\ Members(Members(Members(S))) \subseteq Within1
         /\ Members(Members(Members(Members(S)))) \subseteq Created
         /\ Members(Members(Members(Members(Members(S))))) = {}
<1>1. Members(S) \subseteq Within3
  BY NamesLevel, MembersFacts, MembersBelow
<1>2. Members(Members(S)) \subseteq Within2
  BY <1>1, MembersFacts, MembersBelow
<1>3. Members(Members(Members(S))) \subseteq Within1
  BY <1>2, MembersFacts, MembersBelow
<1>4. Members(Members(Members(Members(S)))) \subseteq Created
  BY <1>3, MembersFacts, MembersBelow
<1>5. Members(Members(Members(Members(Members(S))))) \subseteq Members(Created)
  BY <1>4, MembersFacts
<1> QED BY <1>1, <1>2, <1>3, <1>4, <1>5, MembersBelow

\* What can be reached from names is closed, and it is names.
LEMMA ReachableClosed ==
  ASSUME NEW S, S \subseteq Names
  PROVE  Closed(Reachable(S)) /\ S \subseteq Reachable(S) /\ Reachable(S) \subseteq Names
<1> DEFINE A == Members(S)
           B == Members(A)
           C == Members(B)
           D == Members(C)
<1>1. Reachable(S) = S \cup A \cup B \cup C \cup D
  BY Layers
<1>2. Members(D) = {} /\ A \subseteq Within3 /\ B \subseteq Within2 /\ C \subseteq Within1
      /\ D \subseteq Created
  BY NothingBelow
<1>3. Members(S \cup A \cup B \cup C \cup D) = A \cup B \cup C \cup D
  <2>1. S \cup A \cup B \cup C \cup D = (S \cup A) \cup ((B \cup C) \cup D)
    OBVIOUS
  <2>2. Members((S \cup A) \cup ((B \cup C) \cup D)) =
          Members(S \cup A) \cup Members((B \cup C) \cup D)
    BY MembersFacts
  <2>3. Members((B \cup C) \cup D) = Members(B \cup C) \cup Members(D)
    BY MembersFacts
  <2>4. Members(S \cup A) = A \cup B /\ Members(B \cup C) = C \cup D
    BY MembersFacts
  <2> QED BY <1>2, <2>1, <2>2, <2>3, <2>4
<1>4. Within3 \subseteq Names /\ Within2 \subseteq Names /\ Within1 \subseteq Names
      /\ Created \subseteq Names
  BY NamesLevel DEF Within4, Within3, Within2, Within1
<1> HIDE DEF A, B, C, D
<1> QED BY <1>1, <1>2, <1>3, <1>4 DEF Closed

\* What can be reached from names is what can be reached from one of them.
LEMMA ReachableEach ==
  ASSUME NEW S, NEW x
  PROVE  x \in Reachable(S) <=> \E g \in S : x \in Reachable({g})
<1>1. \A T, y : y \in Step(T) <=> \E g \in T : y \in Step({g})
  BY DEF Step, Members
<1>2. \A T, y : y \in Step(Step(T)) <=> \E g \in T : y \in Step(Step({g}))
  <2> TAKE T, y
  <2>1. y \in Step(Step(T)) <=> \E z \in Step(T) : y \in Step({z})
    BY <1>1, Zenon
  <2>2. y \in Step(Step(T)) <=> \E g \in T : \E z \in Step({g}) : y \in Step({z})
    BY <1>1, <2>1, Zenon
  <2>3. \A g : y \in Step(Step({g})) <=> \E z \in Step({g}) : y \in Step({z})
    BY <1>1, Zenon
  <2> QED BY <2>2, <2>3, Zenon
<1>3. \A T, y : y \in Reachable(T) <=> \E g \in T : y \in Reachable({g})
  <2> DEFINE Two(T) == Step(Step(T))
  <2>1. \A T : Reachable(T) = Two(Two(T))
    BY DEF Reachable
  <2>2. \A T, y : y \in Two(T) <=> \E g \in T : y \in Two({g})
    BY <1>2
  <2> HIDE DEF Two
  <2> TAKE T, y
  <2>3. y \in Two(Two(T)) <=> \E z \in Two(T) : y \in Two({z})
    BY <2>2, Zenon
  <2>4. y \in Two(Two(T)) <=> \E g \in T : \E z \in Two({g}) : y \in Two({z})
    BY <2>2, <2>3, Zenon
  <2>5. \A g : y \in Two(Two({g})) <=> \E z \in Two({g}) : y \in Two({z})
    BY <2>2, Zenon
  <2> QED BY <2>1, <2>4, <2>5, Zenon
<1> QED BY <1>3

\* A mutator reaches itself, a group what its members reach.
LEMMA ReachableOne ==
  ASSUME NEW g \in Names
  PROVE  /\ g \notin Groups => Reachable({g}) = {g}
         /\ g \in Groups => /\ GroupsMapping[g] \subseteq Names
                            /\ Reachable({g}) = {g} \cup Reachable(GroupsMapping[g])
<1>1. ASSUME g \notin Groups PROVE Reachable({g}) = {g}
  <2>1. Members({g}) = {} /\ Members({}) = {}
    BY <1>1 DEF Members
  <2> QED BY <2>1, Layers
<1>2. ASSUME g \in Groups
      PROVE  /\ GroupsMapping[g] \subseteq Names
             /\ Reachable({g}) = {g} \cup Reachable(GroupsMapping[g])
  <2> DEFINE M == GroupsMapping[g]
  <2>1. Members({g}) = M
    BY <1>2 DEF Members
  <2>2. M \subseteq Names
    BY <1>2 DEF Names
  <2>3. Members(Members(Members(Members(Members({g}))))) = {}
    BY NothingBelow
  <2>4. Reachable({g}) = {g} \cup M \cup Members(M) \cup Members(Members(M))
                           \cup Members(Members(Members(M)))
    BY <2>1, Layers
  <2>5. Reachable(M) = M \cup Members(M) \cup Members(Members(M))
                         \cup Members(Members(Members(M)))
    BY <2>1, <2>3, Layers
  <2> QED BY <2>2, <2>4, <2>5
<1> QED BY <1>1, <1>2

\* The mutators a name leads to, group by group.
LEMMA LeavesOne ==
  ASSUME NEW g \in Names
  PROVE  Reachable({g}) \ Groups =
           IF g \in Groups THEN UNION {Reachable({h}) \ Groups : h \in GroupsMapping[g]} ELSE {g}
<1>1. CASE g \notin Groups
  BY <1>1, ReachableOne
<1>2. CASE g \in Groups
  <2>1. Reachable({g}) \ Groups = Reachable(GroupsMapping[g]) \ Groups
    BY <1>2, ReachableOne
  <2>2. \A x : x \in Reachable(GroupsMapping[g]) \ Groups <=>
                 \E h \in GroupsMapping[g] : x \in Reachable({h}) \ Groups
    BY ReachableEach
  <2>3. \A x : x \in UNION {Reachable({h}) \ Groups : h \in GroupsMapping[g]} <=>
                 \E h \in GroupsMapping[g] : x \in Reachable({h}) \ Groups
    OBVIOUS
  <2>4. Reachable(GroupsMapping[g]) \ Groups =
          UNION {Reachable({h}) \ Groups : h \in GroupsMapping[g]}
    BY <2>2, <2>3
  <2> QED BY <1>2, <2>1, <2>4
<1> QED BY <1>1, <1>2

\* The recursion of expandGroups ends: there is a function it describes.
LEMMA ExpandGroupsEquation ==
  ASSUME NEW g \in Names
  PROVE  ExpandGroups[g] =
           IF g \in Groups THEN UNION {ExpandGroups[h] : h \in GroupsMapping[g]} ELSE {g}
<1> DEFINE Eq(f) == f = [n \in Names |-> IF n \in Groups THEN UNION {f[h] : h \in GroupsMapping[n]}
                                         ELSE {n}]
           leaves == [n \in Names |-> Reachable({n}) \ Groups]
<1>1. ASSUME NEW n \in Names
      PROVE  leaves[n] = IF n \in Groups THEN UNION {leaves[h] : h \in GroupsMapping[n]} ELSE {n}
  <2>1. CASE n \in Groups
    <3>1. \A h \in GroupsMapping[n] : leaves[h] = Reachable({h}) \ Groups
      BY <2>1, ReachableOne
    <3>2. leaves[n] = Reachable({n}) \ Groups
      OBVIOUS
    <3> HIDE DEF leaves
    <3>3. {leaves[h] : h \in GroupsMapping[n]} = {Reachable({h}) \ Groups : h \in GroupsMapping[n]}
      BY <3>1
    <3> QED BY <2>1, <3>2, <3>3, LeavesOne
  <2>2. CASE n \notin Groups
    BY <2>2, LeavesOne
  <2> QED BY <2>1, <2>2
<1>2. Eq(leaves)
  BY <1>1
<1>3. Eq(ExpandGroups)
  <2>1. ExpandGroups = CHOOSE f : Eq(f)
    BY DEF ExpandGroups
  <2> HIDE DEF Eq
  <2> QED BY <1>2, <2>1
<1> QED BY <1>3

\* The recursion and the levels agree on the mutators a name leads to.
LEMMA ExpandGroupsLeaves ==
  ASSUME NEW g \in Names
  PROVE  ExpandGroups[g] = Reachable({g}) \ Groups /\ ExpandGroups[g] # {}
<1> DEFINE Good(h) == ExpandGroups[h] = Reachable({h}) \ Groups /\ ExpandGroups[h] # {}
<1>1. ASSUME NEW n \in Names, n \in Groups => GroupsMapping[n] # {},
             n \in Groups => \A h \in GroupsMapping[n] : Good(h)
      PROVE  Good(n)
  <2>1. CASE n \in Groups
    <3>1. ExpandGroups[n] = UNION {ExpandGroups[h] : h \in GroupsMapping[n]}
      BY <2>1, ExpandGroupsEquation
    <3>2. {ExpandGroups[h] : h \in GroupsMapping[n]} =
            {Reachable({h}) \ Groups : h \in GroupsMapping[n]}
      BY <1>1, <2>1
    <3>3. ExpandGroups[n] = Reachable({n}) \ Groups
      BY <2>1, <3>1, <3>2, LeavesOne
    <3>4. ExpandGroups[n] # {}
      <4>1. PICK h \in GroupsMapping[n] : ExpandGroups[h] # {}
        BY <1>1, <2>1
      <4> QED BY <3>1, <4>1
    <3> QED BY <3>3, <3>4
  <2>2. CASE n \notin Groups
    BY <2>2, ExpandGroupsEquation, LeavesOne
  <2> QED BY <2>1, <2>2
<1> HIDE DEF Good
<1>2. \A n \in Created : Good(n)
  BY <1>1, MutatorsNoGroups, NamesLevel
<1>3. \A n \in Within1 : Good(n)
  BY <1>1, <1>2, GroupLevels, GroupNames, NamesLevel DEF Within1
<1>4. \A n \in Within2 : Good(n)
  BY <1>1, <1>3, GroupLevels, GroupNames, NamesLevel DEF Within2
<1>5. \A n \in Within3 : Good(n)
  BY <1>1, <1>4, GroupLevels, GroupNames, NamesLevel DEF Within3
<1>6. \A n \in Within4 : Good(n)
  BY <1>1, <1>5, GroupLevels, GroupNames, NamesLevel DEF Within4
<1> QED BY <1>6, NamesLevel DEF Good

\* What a selection of names is expanded to.
LEMMA ExpandedFacts ==
  ASSUME NEW S, S \subseteq Names
  PROVE  /\ Expanded(S) = Reachable(IF S = {} THEN {"cxx_default"} ELSE S) \ Groups
         /\ Expanded(S) # {} /\ Expanded(S) \subseteq Created
         /\ Closed(Reachable(IF S = {} THEN {"cxx_default"} ELSE S))
<1> DEFINE T == IF S = {} THEN {"cxx_default"} ELSE S
<1>1. T \subseteq Names /\ T # {}
  BY GroupNames DEF Names
<1>2. Expanded(S) = UNION {ExpandGroups[g] : g \in T}
  BY DEF Expanded
<1> HIDE DEF T
<1>3. \A x : x \in Reachable(T) <=> \E g \in T : x \in Reachable({g})
  BY ReachableEach
<1>4. \A g \in T : ExpandGroups[g] = Reachable({g}) \ Groups /\ ExpandGroups[g] # {}
  BY <1>1, ExpandGroupsLeaves
<1>5. \A x : x \in Expanded(S) <=> \E g \in T : x \in ExpandGroups[g]
  BY <1>2
<1>6. \A x : x \in Expanded(S) <=> x \in Reachable(T) \ Groups
  <2> TAKE x
  <2>1. x \in Expanded(S) <=> \E g \in T : x \in Reachable({g}) \ Groups
    BY <1>4, <1>5
  <2>2. x \in Reachable(T) \ Groups <=> \E g \in T : x \in Reachable({g}) \ Groups
    BY <1>3
  <2> QED BY <2>1, <2>2, Zenon
<1>7. Expanded(S) = Reachable(T) \ Groups
  BY <1>6
<1>8. Expanded(S) # {}
  BY <1>1, <1>4, <1>5
<1>9. Expanded(S) \subseteq Created /\ Closed(Reachable(T))
  BY <1>1, <1>7, ReachableClosed, NamesLevel
<1> QED BY <1>7, <1>8, <1>9 DEF T

\* The group "all" leads to every mutator.
LEMMA AllIsAll == Expanded({"all"}) = Created
<1> DEFINE R == Reachable({"all"})
<1>1. "all" \in Groups /\ Groups \subseteq Names
  BY GroupNames DEF Names
<1>2. Closed(R) /\ "all" \in R /\ Expanded({"all"}) = R \ Groups /\ R \subseteq Names
  BY <1>1, ReachableClosed, ExpandedFacts
<1>3. \A g \in R \cap Groups : GroupsMapping[g] \subseteq R
  BY <1>2 DEF Closed, Members
<1> HIDE DEF R
<1>4. "cxx_all" \in R /\ "experimental" \in R
  BY <1>1, <1>2, <1>3, OtherMembers
<1>5. GroupsMapping["cxx_all"] \subseteq R /\ GroupsMapping["experimental"] \subseteq R
  BY <1>3, <1>4, GroupNames
<1>6. /\ "cxx_assignment" \in R
      /\ {"cxx_increment", "cxx_decrement", "cxx_arithmetic", "cxx_comparison", "cxx_boundary",
          "cxx_bitwise", "cxx_calls", "cxx_logical"} \subseteq R
      /\ {"negate_mutator", "scalar_value_mutator"} \subseteq R
  BY <1>5, OtherMembers
<1>7. {"cxx_bitwise_assignment", "cxx_arithmetic_assignment", "cxx_const_assignment"}
        \subseteq R
  BY <1>3, <1>6, GroupNames, OtherMembers
<1>8. Simple \subseteq R
  BY <1>6, <1>7 DEF Simple
<1>9. \A g \in Simple : GroupsMapping[g] \subseteq R
  BY <1>3, <1>8, GroupNames
<1>10. Created \subseteq R
  <2>1. /\ Calls \subseteq R /\ ConstAssignment \subseteq R /\ ArithmeticAssignment \subseteq R
        /\ BitwiseAssignment \subseteq R /\ Increment \subseteq R /\ Decrement \subseteq R
        /\ Arithmetic \subseteq R /\ Bits \subseteq R /\ Logical \subseteq R
        /\ Comparison \subseteq R /\ Boundary \subseteq R
    BY <1>9, SimpleMembers DEF Simple
  <2> QED BY <1>6, <2>1 DEF Created
<1> QED BY <1>2, <1>10, MutatorsNoGroups, NamesLevel

-------------------------------------------------------------------------------
(* MutatorsFactory: its answers.                                           *)

\* Behind the command line the factory has mutators at most, and init() creates
\* the others anew; in a reporter it has all of them.
FactoryInv ==
  /\ calls \in Nat
  /\ user = "command line" =>
       /\ options = Names /\ warnings = 0 /\ DOMAIN mutatorsMapping \subseteq Created
       /\ calls > 0 => /\ request \subseteq Names
                       /\ answer = [m \in Expanded(request) |-> "mutator"]
  /\ user = "reporter" =>
       /\ mutatorsMapping = [m \in Created |-> "mutator"]
       /\ \A m \in request : answer[m] = "mutator"

\* init() leaves every mutator in the mapping, alive.
LEMMA InitMappingFacts ==
  ASSUME NEW mapping, DOMAIN mapping \subseteq Created
  PROVE  InitMapping(mapping) = [m \in Created |-> "mutator"]
BY DEF InitMapping

\* A selection is answered with what it expands to, without a warning.
LEMMA AnswerOfSelection ==
  ASSUME NEW S, S \subseteq Names, NEW mapping, mapping = [m \in Created |-> "mutator"]
  PROVE  /\ MutatorsAnswer(mapping, S) = [m \in Expanded(S) |-> "mutator"]
         /\ MutatorsWarnings(mapping, S) = 0
         /\ DOMAIN MutatorsRest(mapping, S) \subseteq Created
<1>1. Expanded(S) # {} /\ Expanded(S) \subseteq Created /\ DOMAIN mapping = Created
  BY ExpandedFacts
<1>2. Expanded(S) \cap DOMAIN mapping = Expanded(S) /\ Expanded(S) \ DOMAIN mapping = {}
  BY <1>1
<1>3. MutatorsAnswer(mapping, S) = [m \in Expanded(S) |-> "mutator"]
  BY <1>1, <1>2 DEF MutatorsAnswer
<1>4. MutatorsWarnings(mapping, S) = 0
  BY <1>1, <1>2, FS_EmptySet DEF MutatorsWarnings
<1>5. DOMAIN MutatorsRest(mapping, S) \subseteq Created
  BY <1>1 DEF MutatorsRest
<1> QED BY <1>3, <1>4, <1>5

\* Calls are counted.
LEMMA CallCounted ==
  ASSUME calls \in Nat, calls' = calls + 1
  PROVE  calls' \in Nat
OBVIOUS

\* The options of the command line are all names, without a warning.
LEMMA FactoryInitInv == FactoryInit => FactoryInv
<1> SUFFICES ASSUME FactoryInit PROVE FactoryInv
  OBVIOUS
<1> DEFINE mapping == InitMapping(EmptyMapping)
<1>1. mapping = [m \in Created |-> "mutator"]
  BY InitMappingFacts DEF EmptyMapping
<1>2. calls \in Nat /\ ~(calls > 0) /\ request = {}
  <2>1. 0 \in Nat /\ ~(0 > 0)
    OBVIOUS
  <2> QED BY <2>1, Zenon DEF FactoryInit
<1>3. CASE user = "command line"
  <2>1. SetUpCommandLine
    BY <1>3 DEF FactoryInit
  <2>2. {"all"} \subseteq Names
    BY GroupNames DEF Names
  <2>3. /\ MutatorsAnswer(mapping, {"all"}) = [m \in Created |-> "mutator"]
        /\ MutatorsWarnings(mapping, {"all"}) = 0
        /\ DOMAIN MutatorsRest(mapping, {"all"}) \subseteq Created
    BY <1>1, <2>2, AnswerOfSelection, AllIsAll
  <2>4. options = Groups \cup Created
    BY <2>1, <2>3 DEF SetUpCommandLine, CommandLineOptions
  <2>5. warnings = 0 /\ DOMAIN mutatorsMapping \subseteq Created
    BY <2>1, <2>3 DEF SetUpCommandLine
  <2>6. user # "reporter"
    BY <1>3
  <2> QED BY <1>2, <2>4, <2>5, <2>6, NamesLevel, Zenon DEF FactoryInv
<1>4. CASE user = "reporter"
  BY <1>1, <1>2, <1>4 DEF FactoryInit, SetUpReporter, FactoryInv
<1> QED BY <1>2, <1>3, <1>4 DEF FactoryInv

\* mutators() and getMutator() keep it so.
LEMMA FactoryNextInv == FactoryInv /\ [FactoryNext]_factoryVars => FactoryInv'
<1> SUFFICES ASSUME FactoryInv, [FactoryNext]_factoryVars PROVE FactoryInv'
  OBVIOUS
<1>1. CASE MutatorsCall
  <2> DEFINE mapping == InitMapping(mutatorsMapping)
  <2>1. PICK groups \in Selections :
          /\ groups \subseteq options
          /\ request' = groups
          /\ answer' = MutatorsAnswer(mapping, groups)
          /\ mutatorsMapping' = MutatorsRest(mapping, groups)
          /\ warnings' = warnings + MutatorsWarnings(mapping, groups)
    BY <1>1 DEF MutatorsCall
  <2>2. user = "command line" /\ calls' = calls + 1 /\ UNCHANGED <<user, options>>
    BY <1>1 DEF MutatorsCall
  <2>3. options = Names /\ warnings = 0 /\ mapping = [m \in Created |-> "mutator"]
    BY <2>2, InitMappingFacts DEF FactoryInv
  <2>4. groups \subseteq Names
    BY <2>1, <2>3
  <2>5. /\ answer' = [m \in Expanded(groups) |-> "mutator"]
        /\ warnings' = 0 /\ DOMAIN mutatorsMapping' \subseteq Created
    <3>1. MutatorsWarnings(mapping, groups) = 0
      BY <2>3, <2>4, AnswerOfSelection
    <3> QED BY <2>1, <2>3, <2>4, <3>1, AnswerOfSelection
  <2>6. calls' \in Nat
    BY <2>2, CallCounted DEF FactoryInv
  <2> QED BY <2>1, <2>2, <2>3, <2>4, <2>5, <2>6 DEF FactoryInv
<1>2. CASE GetMutator
  <2>1. PICK m \in Created :
          /\ mutatorsMapping' = [n \in DOMAIN mutatorsMapping \cup {m} |->
                                   IF n \in DOMAIN mutatorsMapping THEN mutatorsMapping[n]
                                   ELSE "null"]
          /\ request' = {m}
          /\ answer' = [n \in {m} |-> mutatorsMapping'[n]]
    BY <1>2 DEF GetMutator
  <2>2. user = "reporter" /\ user' = user /\ calls' = calls + 1
    BY <1>2 DEF GetMutator
  <2>3. mutatorsMapping = [n \in Created |-> "mutator"]
    BY <2>2 DEF FactoryInv
  <2>4. mutatorsMapping' = [n \in Created |-> "mutator"]
    <3>1. DOMAIN mutatorsMapping \cup {m} = Created
      BY <2>3
    <3> QED BY <2>1, <2>3, <3>1
  <2>5. \A n \in request' : answer'[n] = "mutator"
    BY <2>1, <2>4
  <2>6. calls' \in Nat
    BY <2>2, CallCounted DEF FactoryInv
  <2> QED BY <2>2, <2>4, <2>5, <2>6 DEF FactoryInv
<1>3. CASE UNCHANGED factoryVars
  BY <1>3 DEF FactoryInv, factoryVars
<1> QED BY <1>1, <1>2, <1>3 DEF FactoryNext

\* In every behaviour the factory is full, or init() fills it again
\* (MutatorsFactory::init).
THEOREM FactoryInvariance == FactorySpec => []FactoryInv
<1> QED BY FactoryInitInv, FactoryNextInv, PTL DEF FactorySpec

\* A factory that can be filled serves every selection.
LEMMA FactoryInvServed == FactoryInv => MutatorsServed
<1> SUFFICES ASSUME FactoryInv PROVE MutatorsServed
  OBVIOUS
<1>1. SelectionAnswered
  <2> SUFFICES ASSUME user = "command line", calls > 0 PROVE SelectionAnswered
    BY DEF SelectionAnswered
  <2>1. request \subseteq Names /\ answer = [m \in Expanded(request) |-> "mutator"]
    BY DEF FactoryInv
  <2>2. /\ Expanded(request) =
             Reachable(IF request = {} THEN {"cxx_default"} ELSE request) \ Groups
        /\ Closed(Reachable(IF request = {} THEN {"cxx_default"} ELSE request))
    BY <2>1, ExpandedFacts
  <2> QED BY <2>1, <2>2 DEF SelectionAnswered
<1>2. ReporterFindsMutator /\ EverythingOffered
  BY DEF FactoryInv, ReporterFindsMutator, EverythingOffered
<1> QED BY <1>1, <1>2 DEF MutatorsServed

\* Whatever was selected before, a selection is answered with the mutators its
\* groups lead to, all of them alive; a reporter finds the mutator of a mutant, and
\* every name is on offer (MutatorsFactory::mutators, getMutator,
\* commandLineOptions).
THEOREM FactoryReliable == FactorySpec => []MutatorsServed
<1> QED BY FactoryInvariance, FactoryInvServed, PTL

===============================================================================
