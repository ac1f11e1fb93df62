------------------------------ MODULE SourceLines ------------------------------
(***************************************************************************)
(* SourceManager and SourceCodeReader: the line of a mutant, the lines     *)
(* around it and the caret below it.  A file is a sequence of characters.  *)
(* The last character of a line that the file does not end with a newline  *)
(* is read from memory nobody wrote: any of Garbage, "" for a zero.        *)
(***************************************************************************)
EXTENDS Integers, Sequences, FiniteSets, SequencesExt

CONSTANTS
  Files,   \* the contents of files
  Columns, \* the columns debug info has, 0 without column info
  Garbage  \* what unwritten memory holds

ASSUME SourceAssumption ==
  /\ \A f \in Files : f \in Seq(Range(f))
  /\ Columns \subseteq Nat

VARIABLES
  file, lineOffsets, \* the file, and what getLineOffset keeps of it
  line, column,      \* the location of the mutant
  text, caret,       \* what getSourceLineWithCaret prints
  context,           \* what getContext prints: <<the lines, where the caret's is>>
  reading

sourceVars == <<file, lineOffsets, line, column, text, caret, context, reading>>

NL  == "newline"
Tab == "tab"

\* A finite set of numbers in ascending order.
Rank(S, x) == Cardinality({y \in S : y <= x})
Ascending(S) == [k \in 1..Cardinality(S) |-> CHOOSE x \in S : Rank(S, x) = k]

\* The lines of a file with the newlines they end with, as an editor shows them.
Newlines(f) == {i \in DOMAIN f : f[i] = NL}
LineEnds(f) == Ascending(Newlines(f) \cup (IF f = <<>> THEN {} ELSE {Len(f)}))
Lines(f) == LET ends == LineEnds(f)
            IN  [n \in DOMAIN ends |-> SubSeq(f, IF n = 1 THEN 1 ELSE ends[n - 1] + 1, ends[n])]

\* Mutant of GetLineOffset: a line begins at the newline before it.
GetLineOffsetAt(f) ==
  <<0>> \o [n \in 1..Cardinality(Newlines(f)) |-> Ascending(Newlines(f))[n] - 1]
        \o <<Len(f) + 1>>

\* getLineOffset: 0, the offset after each newline, and one past the end.
GetLineOffset(f) == <<0>> \o Ascending(Newlines(f)) \o <<Len(f) + 1>>

GetNumberOfLines(offsets) == Len(offsets) - 1

\* What getLine(n) may return: offsets is 1-based here, and reading stops at the
\* end of the file.
GetLine(f, offsets, n) ==
  LET read == SubSeq(f, offsets[n] + 1, offsets[n + 1])
  IN  IF offsets[n + 1] <= Len(f) THEN {read}
      ELSE {IF g = "" THEN SubSeq(f, offsets[n] + 1, Len(f))
            ELSE Append(SubSeq(f, offsets[n] + 1, Len(f)), g) : g \in Garbage}

\* The caret's line: the tabs of the text stay, the rest is blank.
CaretLine(t, col) == [i \in 1..col |-> IF i = col THEN "^" ELSE IF t[i] = Tab THEN Tab ELSE " "]

-------------------------------------------------------------------------------
SourceInit ==
  /\ file \in Files
  /\ line \in DOMAIN Lines(file)
  /\ column \in {c \in Columns : c < Len(Lines(file)[line])}
  /\ lineOffsets = <<>> /\ text = <<>> /\ caret = <<>> /\ context = <<>>
  /\ reading = "open"

\* The first use of a file.
OpenFile ==
  /\ reading = "open"
  /\ lineOffsets' = GetLineOffset(file)
  /\ reading' \in {"line", "context"}
  /\ UNCHANGED <<file, line, column, text, caret, context>>

\* getSourceLineWithCaret; a column of 0 writes before the caret's first
\* character.
GetSourceLineWithCaret ==
  /\ reading = "line"
  /\ text' \in GetLine(file, lineOffsets, line)
  /\ IF column = 0 THEN caret' = <<>> /\ reading' = "outside"
     ELSE caret' = CaretLine(text', column) /\ reading' = "done"
  /\ UNCHANGED <<file, lineOffsets, line, column, context>>

\* getContext: nothing without a column, and the line before and after.
GetContext ==
  /\ reading = "context"
  /\ IF column = 0 THEN context' = <<>>
     ELSE \E before \in IF line > 1 THEN GetLine(file, lineOffsets, line - 1) ELSE {<<>>},
             own \in GetLine(file, lineOffsets, line),
             after \in IF line < GetNumberOfLines(lineOffsets)
                       THEN GetLine(file, lineOffsets, line + 1) ELSE {<<>>} :
            context' = <<before, own, after>>
  /\ reading' = "done"
  /\ UNCHANGED <<file, lineOffsets, line, column, text, caret>>

SourceNext == OpenFile \/ GetSourceLineWithCaret \/ GetContext

SourceSpec == SourceInit /\ [][SourceNext]_sourceVars

-------------------------------------------------------------------------------
\* The line that is printed is the line of the file, up to a character of
\* unwritten memory where the file ends without a newline.
LineRight ==
  text # <<>> =>
    LET l == Lines(file)[line]
    IN  IF Last(l) = NL THEN text = l ELSE IsPrefix(l, text)

\* The lines around a mutant are those of the file; the end of the file counts
\* as one more line.
ContextRight ==
  context # <<>> =>
    \A i \in -1..1 :
      LET n == line + i
      IN  /\ n \in DOMAIN Lines(file) => IsPrefix(Lines(file)[n], context[i + 2])
          /\ n \notin DOMAIN Lines(file) => Len(context[i + 2]) <= 1

\* The caret stands below the mutated character: what is before it is as wide
\* as the text before that character.
CaretBelow ==
  caret # <<>> =>
    /\ Len(caret) = column /\ Last(caret) = "^"
    /\ \A i \in 1..column - 1 : (caret[i] = Tab) = (Lines(file)[line][i] = Tab)

\* The lines a report shows are those of the file, whether it is empty or ends
\* without a newline, and the caret is below the character of the mutation.
SourceShown == LineRight /\ ContextRight /\ CaretBelow

===============================================================================
