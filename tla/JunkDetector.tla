----------------------------- MODULE JunkDetector -----------------------------
(***************************************************************************)
(* CXXJunkDetector::isJunk on one tree: the function declaration around a  *)
(* location, the expression a visitor finds in it, and the end of the      *)
(* mutated text.  Locations are positions of tokens in one file.           *)
(***************************************************************************)
EXTENDS Integers

CONSTANTS
  FileEnd,   \* the number of tokens of the file
  DeclSets,  \* the sets of function declarations [begin, end] of a file
  NodeSets,  \* the sets of nodes [class, begin, loc, end] of its bodies
  Locations  \* the locations of mutation points

VARIABLES
  decls,     \* the declarations Clang has
  nodes,     \* the nodes of their bodies
  kind,      \* the kind of the mutator
  location,  \* where its point is
  looking,   \* the next step of isJunk
  decl,      \* what getDecl returned
  found,     \* what findMutantExpression returned
  end        \* the point's end location, 0 for junk

junkVars == <<decls, nodes, kind, location, looking, decl, found, end>>

Kinds   == {"binary", "unary", "void call", "init const", "scalar call", "negate", "scalar value"}
Classes == {"binary", "unary", "void call", "variable", "scalar call", "not", "literal"}
Null    == [class |-> "null", begin |-> 0, loc |-> 0, end |-> 0]
NoDecl  == [begin |-> 0, end |-> 0]

Disjoint(x, y) == x.end < y.begin \/ y.end < x.begin
Within(x, y)   == y.begin <= x.begin /\ x.end <= y.end

\* Functions, and nodes of one class, are disjoint or one is within the other;
\* no two functions begin at the same token.  A node is around its location,
\* except a literal, whose point is at the statement before it.
ASSUME JunkAssumption ==
  /\ FileEnd \in Nat
  /\ \A D \in DeclSets :
       /\ D \subseteq [begin : 1..FileEnd, end : 1..FileEnd]
       /\ \A d \in D : d.begin <= d.end
       /\ \A x, y \in D : x # y => /\ x.begin # y.begin
                                   /\ Disjoint(x, y) \/ Within(x, y) \/ Within(y, x)
  /\ \A N \in NodeSets :
       /\ N \subseteq [class : Classes, begin : Nat, loc : Nat, end : Nat]
       /\ \A n \in N : n.begin <= n.end /\ (n.class # "literal" => n.loc \in n.begin..n.end)
       /\ \A m, n \in N : m.class = n.class => Disjoint(m, n) \/ Within(m, n) \/ Within(n, m)
  /\ Locations \subseteq 1..FileEnd

-------------------------------------------------------------------------------
(* ThreadSafeASTUnit.  A sorted sequence of declarations is the set of     *)
(* them, in the order of their begins.                                     *)

\* k is the last of K before d.
LastBefore(K, k, d) ==
  k.begin < d.begin /\ \A l \in K : l.begin < d.begin => l.begin <= k.begin

\* Mutant of Unique: declarations inside others stay.
UniqueNot(K, d) == TRUE

\* std::unique with UniqueLocationComparator: a declaration that does not begin
\* after the end of the last one that was kept is dropped.
Unique(K, d) == \A k \in K : LastBefore(K, k, d) => k.end < d.begin

\* recordDeclarations.
RecordDeclarations == CHOOSE K \in SUBSET decls : \A d \in decls : d \in K <=> Unique(K, d)

\* Where std::lower_bound may stop halving: before it is a declaration that ends
\* before loc, and at it one that does not; NoDecl is the end of the sequence.
LowerBounds(K, loc) ==
  {d \in K : ~(d.end < loc) /\ \A k \in K : LastBefore(K, k, d) => k.end < loc}
    \cup {d \in {NoDecl} : \A k \in K : (\A l \in K : l.begin <= k.begin) => k.end < loc}

-------------------------------------------------------------------------------
(* The visitors, over the nodes of a declaration in the order of a         *)
(* pre-order walk.                                                         *)

Walk(d) == {n \in nodes : d.begin < n.begin /\ n.end <= d.end}

Earlier(m, n) == m.begin < n.begin \/ (m.begin = n.begin /\ m.end > n.end)

\* The first node of a class at the very location, where the walk ends.
FirstAt(d, class) ==
  LET hits == {n \in Walk(d) : n.class = class /\ n.loc = location}
  IN  IF hits = {} THEN Null ELSE CHOOSE n \in hits : \A m \in hits : ~Earlier(m, n)

BinaryVisitor(d) == FirstAt(d, "binary")

UnaryVisitor(d) == FirstAt(d, "unary")

\* A call is at its begin, a member call at its name, an operator call at the
\* operator: loc of the node.
RemoveVoidFunctionVisitor(d) == FirstAt(d, "void call")

\* A variable that has an initializer and is not const.
VarDeclVisitor(d) == FirstAt(d, "variable")

LocationInRange(n) == n.begin <= location /\ location <= n.end

\* isRangeSmallerThanRange.
RangeSmaller(m, n) == m.end - m.begin <= n.end - n.begin

\* InstructionRangeVisitor, fed with the nodes of a class: the last of the
\* smallest ones around the location.
InstructionRangeVisitor(d, class) ==
  LET hits == {n \in Walk(d) : n.class = class /\ LocationInRange(n)}
  IN  IF hits = {} THEN Null
      ELSE CHOOSE n \in hits :
             \A m \in hits : RangeSmaller(n, m) /\ (RangeSmaller(m, n) => ~Earlier(n, m))

\* Calls whose type is a real number.
ReplaceCallVisitor(d) == InstructionRangeVisitor(d, "scalar call")

\* Logical negations.
NegateConditionVisitor(d) == InstructionRangeVisitor(d, "not")

\* isMutableExpr: an integer literal below a return statement or an operator.
IsMutableExpr(n) == n.class = "literal"

\* The last such literal of the function: the location is not looked at.
ScalarValueVisitor(d) ==
  LET hits == {n \in Walk(d) : IsMutableExpr(n)}
  IN  IF hits = {} THEN Null ELSE CHOOSE n \in hits : \A m \in hits : ~Earlier(n, m)

\* findMutantExpression; the operator each mutator looks for is in module
\* Mutators.
MutantExpression(d) ==
  CASE kind = "binary"       -> BinaryVisitor(d)
    [] kind = "unary"        -> UnaryVisitor(d)
    [] kind = "void call"    -> RemoveVoidFunctionVisitor(d)
    [] kind = "init const"   -> VarDeclVisitor(d)
    [] kind = "scalar call"  -> ReplaceCallVisitor(d)
    [] kind = "negate"       -> NegateConditionVisitor(d)
    [] kind = "scalar value" -> ScalarValueVisitor(d)

\* The end of the mutated text: that of the expression when it begins at the
\* location, and that of the token there otherwise.  The node of a variable
\* stands for its initializer, which begins after the variable's name.
EndLocation(n) == (IF n.begin = location /\ n.class # "variable" THEN n.end ELSE location) + 1

-------------------------------------------------------------------------------
\* The nodes of bodies are inside their function.
Inside(n, d) == d.begin < n.begin /\ n.end < d.end

JunkInit ==
  /\ decls \in DeclSets
  /\ nodes \in NodeSets
  /\ \A n \in nodes, d \in decls : Inside(n, d) \/ n.end < d.begin \/ d.end < n.begin
  /\ kind \in Kinds
  /\ location \in Locations
  /\ looking = "decl"
  /\ decl = NoDecl
  /\ found = Null
  /\ end = 0

\* getDecl.
FindDecl ==
  /\ looking = "decl"
  /\ \E lower \in LowerBounds(RecordDeclarations, location) :
       decl' = IF lower.begin < location /\ location < lower.end THEN lower ELSE NoDecl
  /\ looking' = IF decl' = NoDecl THEN "junk" ELSE "expression"
  /\ UNCHANGED <<decls, nodes, kind, location, found, end>>

FindExpression ==
  /\ looking = "expression"
  /\ found' = MutantExpression(decl)
  /\ looking' = IF found' = Null THEN "junk" ELSE "end"
  /\ UNCHANGED <<decls, nodes, kind, location, decl, end>>

SetPointEnd ==
  /\ looking = "end"
  /\ end' = EndLocation(found)
  /\ looking' = "kept"
  /\ UNCHANGED <<decls, nodes, kind, location, decl, found>>

JunkNext == FindDecl \/ FindExpression \/ SetPointEnd

JunkSpec == JunkInit /\ [][JunkNext]_junkVars

-------------------------------------------------------------------------------
Around(loc) == {d \in decls : d.begin < loc /\ loc < d.end}

\* getDecl finds the outermost function around a location whenever there is
\* one, with functions inside others (lambdas, methods of local classes,
\* templates and their patterns) and before and after it.
DeclIsOutermost ==
  looking # "decl" =>
    /\ (decl = NoDecl) = (Around(location) = {})
    /\ decl # NoDecl => \A d \in Around(location) : decl.begin <= d.begin /\ d.end <= decl.end

\* Of the calls and negations around a location the innermost is taken.
CallIsInnermost ==
  found # Null /\ kind \in {"scalar call", "negate"} =>
    \A n \in nodes : n.class = found.class /\ location \in n.begin..n.end =>
                       n.begin <= found.begin /\ found.end <= n.end

\* An operator, call or variable of a function is never lost as junk: the point
\* at its location is kept.
NothingLost ==
  looking = "junk" =>
    ~\E n \in nodes : /\ n.loc = location
                      /\ \E d \in decls : Inside(n, d)
                      /\ n.class = (IF kind = "init const" THEN "variable"
                                    ELSE IF kind = "negate" THEN "not" ELSE kind)

\* A mutation that is kept is of a node around the location of its point, or at
\* it.  Only the visitor of scalar values does not look at locations.
KeptIsThere ==
  looking = "kept" /\ kind # "scalar value" =>
    found.loc = location \/ location \in found.begin..found.end

\* The point of an operator, call or variable is found in its function and kept,
\* for the innermost node around it, and what is kept is there.
JunkRight == DeclIsOutermost /\ CallIsInnermost /\ NothingLost /\ KeptIsThere

===============================================================================
