--------------------------- MODULE LogicalOperators ---------------------------
(***************************************************************************)
(* The mutators cxx_logical_and_to_or and cxx_logical_or_to_and.  LLVM has *)
(* no && and no ||: Clang turns them into branches, and the two mutators   *)
(* look for the shapes of branches that such an operator leaves behind and *)
(* reconnect them.  One behaviour takes a C++ expression through that: it  *)
(* is lowered to basic blocks, a mutator picks a point in them and changes *)
(* them, the compiler verifies the result, and the function runs for some  *)
(* values of the operands.                                                 *)
(*                                                                         *)
(* A block is named after the operand it evaluates.  What the lowering     *)
(* does is not under src/; it is fixed by the tests, which name for each   *)
(* operator the place where its mutant is reported, and whether that       *)
(* mutant survives (tests-lit/tests/mutations/logical).                    *)
(***************************************************************************)
EXTENDS Naturals, Sequences, FiniteSets, TLC

CONSTANTS
  Programs,       \* the functions: an expression and where it stands in them
  JunkDetection   \* whether the junk detector filters the points

VARIABLES
  program,   \* [expr, form, after], see Lower
  phase,     \* "search", "mutated", "running", or how it ended
  mutator,   \* the mutator that is at work
  point,     \* the block whose branch it changes
  function,  \* the basic blocks
  env,       \* the values of the operands in the run
  block,     \* the block the run is at
  value      \* what the PHI of the expression's last block chose

vars == <<program, phase, mutator, point, function, env, block, value>>

Mutators == {"cxx_logical_and_to_or", "cxx_logical_or_to_and"}

-------------------------------------------------------------------------------
(***************************************************************************)
(* Expressions, and what Clang makes of them.                              *)
(***************************************************************************)
Var(x)       == [op |-> "var", name |-> x]
Not(e)       == [op |-> "not", arg |-> e]
Bin(o, l, r) == [op |-> o, lhs |-> l, rhs |-> r]
Const(b)     == [op |-> "const", bool |-> b]

RECURSIVE Eval(_, _)
Eval(e, v) ==
  CASE e.op = "const" -> e.bool
    [] e.op = "var"   -> v[e.name]
    [] e.op = "not"   -> ~Eval(e.arg, v)
    [] e.op = "and"   -> Eval(e.lhs, v) /\ Eval(e.rhs, v)
    [] e.op = "or"    -> Eval(e.lhs, v) \/ Eval(e.rhs, v)

RECURSIVE Leaves(_)
Leaves(e) ==
  CASE e.op = "var" -> <<e.name>>
    [] e.op = "not" -> Leaves(e.arg)
    [] OTHER        -> Leaves(e.lhs) \o Leaves(e.rhs)

FirstLeaf(e) == Head(Leaves(e))
LastLeaf(e)  == Leaves(e)[Len(Leaves(e))]

Block(k, c, l, r, p) ==
  [kind |-> k, cond |-> c, left |-> l, right |-> r, phi |-> p]
Branch(c, l, r) == Block("branch", c, l, r, <<>>)
Jump(to)        == Block("jump", "none", to, to, <<>>)
Return(p)       == Block("return", "none", "none", "none", p)

RECURSIVE EmitBranchOnBoolExpr(_, _, _)
EmitBranchOnBoolExpr(e, t, f) ==
  CASE e.op = "var" -> e.name :> Branch(e.name, t, f)
    [] e.op = "not" -> EmitBranchOnBoolExpr(e.arg, f, t)
    [] e.op = "and" -> EmitBranchOnBoolExpr(e.lhs, FirstLeaf(e.rhs), f)
                         @@ EmitBranchOnBoolExpr(e.rhs, t, f)
    [] e.op = "or"  -> EmitBranchOnBoolExpr(e.lhs, t, FirstLeaf(e.rhs))
                         @@ EmitBranchOnBoolExpr(e.rhs, t, f)

Reversed(s) == [i \in DOMAIN s |-> s[Len(s) + 1 - i]]

\* The block that chooses the value of an operator, and the one in which the
\* value of an expression is known, with that value.
End(e) == "end " \o FirstLeaf(e)

RECURSIVE KnownIn(_), Known(_)
KnownIn(e) == CASE e.op = "var" -> e.name [] e.op = "not" -> KnownIn(e.arg) [] OTHER -> End(e)
Known(e)   == CASE e.op = "var" -> e [] e.op = "not" -> Not(Known(e.arg)) [] OTHER -> Var("phi")

\* A value is chosen by a PHI in a block of its own: the constant that decides
\* the operator from every block that skips the right operand, and the right
\* operand from the block in which it is known.  That block goes on to last.
RECURSIVE EmitScalarExpr(_, _)
EmitScalarExpr(e, last) ==
  LET rhs  == FirstLeaf(e.rhs)
      lhs  == IF e.op = "and" THEN EmitBranchOnBoolExpr(e.lhs, rhs, End(e))
                              ELSE EmitBranchOnBoolExpr(e.lhs, End(e), rhs)
      Skips(x) == End(e) \in {lhs[x].left, lhs[x].right}
      skip == Reversed(SelectSeq(Leaves(e.lhs), Skips))
      phi  == [i \in DOMAIN skip |-> [from |-> skip[i], value |-> Const(e.op = "or")]]
                \o <<[from |-> KnownIn(e.rhs), value |-> Known(e.rhs)]>>
  IN  CASE e.op = "var" -> e.name :> last
        [] e.op = "not" -> EmitScalarExpr(e.arg, last)
        [] OTHER        -> lhs @@ EmitScalarExpr(e.rhs, Jump(End(e)))
                             @@ (End(e) :> [last EXCEPT !.phi = phi])

\* A condition jumps to then or else.  If the function goes on with an `if` after
\* a value, the last block of the value ends in a conditional branch.
Lower(p) ==
  ("then" :> Return(<<>>)) @@ ("else" :> Return(<<>>))
    @@ IF p.form = "condition" THEN EmitBranchOnBoolExpr(p.expr, "then", "else")
       ELSE EmitScalarExpr(p.expr, IF p.after THEN Branch("d", "then", "else") ELSE Return(<<>>))

\* The blocks that choose a value, the inner ones first.
RECURSIVE Ends(_)
Ends(e) ==
  CASE e.op = "var" -> <<>> [] e.op = "not" -> Ends(e.arg) [] OTHER -> Append(Ends(e.rhs), End(e))

\* The order of the blocks in the function.
Order(p) == Leaves(p.expr) \o (IF p.form = "value" THEN Ends(p.expr) ELSE <<>>)

\* The branch at x carries the source location of the operator whose left side
\* ends at x.
RECURSIVE OperatorsAt(_, _)
OperatorsAt(e, x) ==
  CASE e.op = "var" -> {}
    [] e.op = "not" -> OperatorsAt(e.arg, x)
    [] OTHER -> (IF LastLeaf(e.lhs) = x THEN {e} ELSE {})
                  \cup OperatorsAt(e.lhs, x) \cup OperatorsAt(e.rhs, x)

RECURSIVE Replaced(_, _)
Replaced(e, x) ==
  CASE e.op = "var" -> e
    [] e.op = "not" -> Not(Replaced(e.arg, x))
    [] OTHER -> Bin(IF LastLeaf(e.lhs) # x THEN e.op
                    ELSE IF e.op = "and" THEN "or" ELSE "and",
                    Replaced(e.lhs, x), Replaced(e.rhs, x))

-------------------------------------------------------------------------------
(***************************************************************************)
(* Finding the points.                                                     *)
(***************************************************************************)
HasPhiFromElsewhere(f, y, x) == \E i \in DOMAIN f[y].phi : f[y].phi[i].from # x

\* findPossibleMutationInBranch for one candidate y; 0 is None.
AndToOrPattern(f, x, y) ==
  CASE f[y].right = f[x].right -> 1
    [] f[y].right # f[x].right /\ f[y].right = f[x].left -> 2
    [] /\ f[y].right \notin {f[x].left, f[x].right}
       /\ HasPhiFromElsewhere(f, y, x)
       /\ y = f[x].right -> 3
    [] OTHER -> 0

OrToAndPattern(f, x, y) ==
  CASE f[y].left = f[x].left -> 1
    [] f[y].left # f[x].left /\ f[y].left = f[x].right -> 2
    [] /\ f[y].left \notin {f[x].left, f[x].right}
       /\ HasPhiFromElsewhere(f, y, x)
       /\ y = f[x].left -> 3
    [] OTHER -> 0

Pattern(m, f, x, y) ==
  IF m = "cxx_logical_and_to_or" THEN AndToOrPattern(f, x, y)
                                 ELSE OrToAndPattern(f, x, y)

\* The conditional branches after x that match, in the order of the function.
Seconds(m, p, f, x) ==
  LET order == Order(p)
      at    == CHOOSE i \in DOMAIN order : order[i] = x
      Matches(y) == f[y].kind = "branch" /\ Pattern(m, f, x, y) # 0
  IN SelectSeq(SubSeq(order, at + 1, Len(order)), Matches)

\* LogicalAndToOr::getMutations and LogicalOrToAnd::getMutations.
GetMutations(m, p, f) ==
  {x \in {Order(p)[i] : i \in DOMAIN Order(p)} :
     f[x].kind = "branch" /\ Seconds(m, p, f, x) # <<>>}

\* CXXJunkDetector: an operator of the mutator's kind must be at the place.
OnItsOperator(m, p, x) ==
  \E e \in OperatorsAt(p.expr, x) :
     e.op = IF m = "cxx_logical_and_to_or" THEN "and" ELSE "or"

-------------------------------------------------------------------------------
(***************************************************************************)
(* Applying a mutation: x is the first branch, y the second.               *)
(***************************************************************************)
\* The PHIs of block t that accept y accept x as well, with the same value.
AddIncoming(f, t, y, x) ==
  LET phi  == f[t].phi
      from == {i \in DOMAIN phi : phi[i].from = y}
  IN IF from = {} THEN f
     ELSE LET i == CHOOSE i \in from : \A j \in from : i <= j
          IN [f EXCEPT ![t].phi = Append(@, [from |-> x, value |-> phi[i].value])]

\* A branch that goes another way, with the PHIs of the block it newly reaches.
Reconnect(f, x, l, r) == [f EXCEPT ![x].left = l, ![x].right = r]

\* Mutant of AndToOrPattern1: the PHIs are left as they are.
AndToOrPattern1NoPhi(f, x, y) == Reconnect(f, x, f[y].left, f[x].left)

AndToOrPattern1(f, x, y) ==
  AddIncoming(Reconnect(f, x, f[y].left, f[x].left), f[y].left, y, x)

\* Mutant of AndToOrPattern2: the branch leads back to its own block.
AndToOrPattern2Loop(f, x, y) ==
  AddIncoming(Reconnect(f, x, x, f[y].left), f[y].left, y, x)

AndToOrPattern2(f, x, y) ==
  AddIncoming(Reconnect(f, x, f[x].right, f[y].left), f[y].left, y, x)

OrToAndPattern1(f, x, y) ==
  AddIncoming(Reconnect(f, x, f[x].right, f[y].right), f[y].right, y, x)

OrToAndPattern2(f, x, y) ==
  AddIncoming(Reconnect(f, x, f[y].right, f[x].left), f[y].right, y, x)

\* Mutant of OrToAndPattern3: the PHI keeps its constant.
OrToAndPattern3KeepPhi(f, x, y) == Reconnect(f, x, f[x].right, f[x].left)

\* The first constant of the PHI is negated, and the branch turned around.
AndToOrPattern3(f, x, y) ==
  [Reconnect(f, x, f[x].right, f[x].left) EXCEPT ![y].phi[1].value.bool = ~@]

OrToAndPattern3(f, x, y) ==
  [Reconnect(f, x, f[x].right, f[x].left) EXCEPT ![y].phi[1].value.bool = ~@]

AndToOrApply(f, x, y) ==
  CASE AndToOrPattern(f, x, y) = 1 -> AndToOrPattern1(f, x, y)
    [] AndToOrPattern(f, x, y) = 2 -> AndToOrPattern2(f, x, y)
    [] AndToOrPattern(f, x, y) = 3 -> AndToOrPattern3(f, x, y)

OrToAndApply(f, x, y) ==
  CASE OrToAndPattern(f, x, y) = 1 -> OrToAndPattern1(f, x, y)
    [] OrToAndPattern(f, x, y) = 2 -> OrToAndPattern2(f, x, y)
    [] OrToAndPattern(f, x, y) = 3 -> OrToAndPattern3(f, x, y)

ApplyMutation(m, p, f, x) ==
  LET y == Head(Seconds(m, p, f, x))
  IN IF m = "cxx_logical_and_to_or" THEN AndToOrApply(f, x, y)
                                    ELSE OrToAndApply(f, x, y)

\* What llvm::verifyModule asks of a PHI: a value for each edge into its block.
PhisVerify(f) ==
  \A t \in DOMAIN f : f[t].phi # <<>> =>
    \A x \in DOMAIN f :
      Cardinality({i \in DOMAIN f[t].phi : f[t].phi[i].from = x})
        = (CASE f[x].kind = "return" -> 0
             [] f[x].kind = "jump"   -> IF f[x].left = t THEN 1 ELSE 0
             [] f[x].kind = "branch" -> Cardinality({s \in {"left", "right"} :
                                                       f[x][s] = t}))

-------------------------------------------------------------------------------
Init ==
  /\ program \in Programs
  /\ phase = "search"
  /\ mutator \in Mutators
  /\ point = "none"
  /\ function = Lower(program)
  /\ env = <<>>
  /\ block = "none"
  /\ value = FALSE

Candidates ==
  {x \in GetMutations(mutator, program, function) :
     JunkDetection => OnItsOperator(mutator, program, x)}

Mutate ==
  /\ phase = "search"
  /\ \E x \in Candidates :
       /\ point' = x
       /\ function' = ApplyMutation(mutator, program, function, x)
  /\ phase' = "mutated"
  /\ UNCHANGED <<program, mutator, env, block, value>>

NothingToMutate ==
  /\ phase = "search"
  /\ Candidates = {}
  /\ phase' = "unmutated"
  /\ UNCHANGED <<program, mutator, point, function, env, block, value>>

\* Compiler::compileBitcode: a module that does not verify ends Mull.
Compile ==
  /\ phase = "mutated"
  /\ IF PhisVerify(function)
     THEN \E v \in [{"a", "b", "c", "d"} -> BOOLEAN] :
            /\ phase' = "running"
            /\ env' = v
            /\ block' = FirstLeaf(program.expr)
     ELSE /\ phase' = "error"
          /\ UNCHANGED <<env, block>>
  /\ UNCHANGED <<program, mutator, point, function, value>>

Successor == IF env[function[block].cond] THEN function[block].left
                                          ELSE function[block].right

\* One basic block of the program that Mull built.
RunBlock ==
  /\ phase = "running"
  /\ LET b == function[block]
         t == IF b.kind = "branch" THEN Successor ELSE b.left
     IN IF b.kind = "return"
        THEN phase' = "returned" /\ UNCHANGED <<block, value>>
        ELSE /\ block' = t
             /\ value' = IF function[t].phi = <<>> THEN value
                         ELSE LET i == CHOOSE i \in DOMAIN function[t].phi :
                                         function[t].phi[i].from = block
                              IN Eval(function[t].phi[i].value, ("phi" :> value) @@ env)
             /\ UNCHANGED phase
  /\ UNCHANGED <<program, mutator, point, function, env>>

Next == Mutate \/ NothingToMutate \/ Compile \/ RunBlock

Spec == Init /\ [][Next]_vars /\ WF_vars(Next)

-------------------------------------------------------------------------------
\* What the function computed, and what it computes once the operator that is
\* reported as replaced really is.
Outcome  == IF program.form = "condition" THEN block = "then" ELSE value
Promised == Eval(Replaced(program.expr, point), env)

\* The left side of the operator is one operand, and its right side starts
\* neither with a negation nor with an operator of the same kind.
Simple(e) == Len(Leaves(e.lhs)) = 1 /\ e.rhs.op \notin {"not", e.op}

\* A mutant of such an operator computes the expression in which && at the
\* reported place is || (or the other way around), and nothing else, whatever
\* surrounds it.  (Of (a && b) && c the outer operator is not simple: the branch
\* that matches first is another one's, LogicalAndToOr.cpp:257.)
SimpleOperatorReplaced ==
  phase = "returned" =>
    \A e \in OperatorsAt(program.expr, point) :
      Simple(e) => Outcome = Promised

\* The mutators leave IR behind that verifies: every PHI has a value for every
\* block that jumps to it, and for no other, as long as at most one block of the
\* left side skips the right operand.  (With two of them an edge is taken away
\* that the PHI still has a value for, LogicalAndToOr.cpp:90.)
SingleSkipVerifies ==
  phase = "error" => \E t \in DOMAIN function : Len(Lower(program)[t].phi) > 2

\* No operator of a condition between two plain operands is overlooked: when a
\* mutator finds nothing in an expression, no such operator of its kind is there.
SimpleOperatorFound ==
  phase = "unmutated" /\ program.form = "condition" =>
    \A x \in DOMAIN function : \A e \in OperatorsAt(program.expr, x) :
      Simple(e) /\ e.rhs.op = "var" => ~OnItsOperator(mutator, program, x)

\* Reconnected branches never send the function around in a circle.
MutantReturns == <>(phase \in {"unmutated", "error", "returned"})

===============================================================================
