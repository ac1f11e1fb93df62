------------------------------ MODULE ClangPlugin ------------------------------
(***************************************************************************)
(* mull-cxx-frontend, the Clang plugin that mutates the syntax tree of a   *)
(* translation unit: every mutated expression e becomes getenv(id) ? e' :  *)
(* e.  The tree is a heap of nodes, numbered in the order in which the     *)
(* visitor comes to them: a declaration's nodes are body..last, parents    *)
(* before their children.  Replacements share their operands with the      *)
(* nodes they replace.  Clang's parent map is external: it is built once,  *)
(* by the first getParents, of the declarations parsed by then.            *)
(***************************************************************************)
EXTENDS Integers, Sequences, Functions

CONSTANTS
  ParsedUnits, \* records [heap, decls]
  Arguments    \* the sets of mutators given on the command line

VARIABLES
  assertions,  \* assert is compiled in, as in Debug and Release builds of Mull
  parsed,      \* what was parsed
  heap,        \* the nodes, mutated
  used,        \* MutationMap::usedMutatorSet
  declaration, \* the declaration HandleTopLevelDecl looks at
  waiting,     \* the points of it that are not yet performed
  records,     \* the points that were, in the order of their records
  known,       \* the declaration up to which Clang's parent map goes, 0 without one
  mutating     \* "args", "search", "perform" or "done"; "null" after a null
               \* dereference, "assert" after a failed assertion, "undefined"
               \* after what it would have stopped

pluginVars == <<assertions, parsed, heap, used, declaration, waiting, records, known, mutating>>

\* A node and a declaration, as they are parsed.  A "block" is any statement whose
\* operands are statements; a "decl" is neither a statement nor a variable: the
\* type of an array, a static_assert.  The spot is where a node is spelled: the
\* expansions of a macro share it.
Node == [kind : STRING, op : STRING, type : STRING, where : STRING, spot : Nat,
         children : Seq(Nat)]
Decl == [kind : STRING, name : STRING, where : STRING, body : Nat, last : Nat]

\* A tree as Clang builds it.
IsTree(h) ==
  /\ h \in Seq(Node)
  /\ \A n \in DOMAIN h :
       /\ h[n].kind \notin {"cond", "condstmt", "operand"}
       /\ h[n].kind = "unary"  => Len(h[n].children) = 1
       /\ h[n].kind = "binary" => Len(h[n].children) = 2
       /\ h[n].kind = "var"    => Len(h[n].children) <= 1
       /\ \A i \in DOMAIN h[n].children : h[n].children[i] \in (n + 1)..Len(h)
  /\ \A m, n \in DOMAIN h : \A i \in DOMAIN h[m].children, j \in DOMAIN h[n].children :
       h[m].children[i] = h[n].children[j] => m = n /\ i = j

\* The nodes of declaration d: all but its body are below another.
IsPart(d, h) ==
  /\ d.body \in DOMAIN h /\ d.last \in d.body..Len(h)
  /\ d.kind = "function" => h[d.body].kind = "block"
  /\ \A n \in d.body..d.last : Range(h[n].children) \subseteq d.body..d.last
  /\ \A n \in (d.body + 1)..d.last : \E m \in d.body..d.last : n \in Range(h[m].children)

\* Declarations share no nodes.
PluginAssumption ==
  \A u \in ParsedUnits :
    /\ IsTree(u.heap)
    /\ u.decls \in Seq(Decl)
    /\ \A i \in DOMAIN u.decls :
         /\ IsPart(u.decls[i], u.heap)
         /\ \A j \in DOMAIN u.decls \ {i} :
              u.decls[i].last < u.decls[j].body \/ u.decls[j].last < u.decls[i].body

ASSUME PluginAssumption

-------------------------------------------------------------------------------
(* MutationMap, ASTConstants.                                              *)

BinaryMutations ==
  << <<"+", "cxx_add_to_sub", "-">>, <<"-", "cxx_sub_to_add", "+">>, <<"*", "cxx_mul_to_div", "/">>,
     <<"/", "cxx_div_to_mul", "*">>, <<"%", "cxx_rem_to_div", "/">>,
     <<"+=", "cxx_add_assign_to_sub_assign", "-=">>, <<"-=", "cxx_sub_assign_to_add_assign", "+=">>,
     <<"*=", "cxx_mul_assign_to_div_assign", "/=">>, <<"/=", "cxx_div_assign_to_mul_assign", "*=">>,
     <<"%=", "cxx_rem_assign_to_div_assign", "/=">>,
     <<"==", "cxx_eq_to_ne", "!=">>, <<"!=", "cxx_ne_to_eq", "==">>, <<">", "cxx_gt_to_le", "<=">>,
     <<"<", "cxx_lt_to_ge", ">=">>, <<">=", "cxx_ge_to_lt", "<">>, <<"<=", "cxx_le_to_gt", ">">>,
     <<">", "cxx_gt_to_ge", ">=">>, <<"<", "cxx_lt_to_le", "<=">>, <<">=", "cxx_ge_to_gt", ">">>,
     <<"<=", "cxx_le_to_lt", "<">>,
     <<"&", "cxx_and_to_or", "|">>, <<"|", "cxx_or_to_and", "&">>, <<"^", "cxx_xor_to_or", "|">>,
     <<"<<", "cxx_lshift_to_rshift", ">>">>, <<">>", "cxx_rshift_to_lshift", "<<">>,
     <<"&=", "cxx_and_assign_to_or_assign", "|=">>, <<"|=", "cxx_or_assign_to_and_assign", "&=">>,
     <<"^=", "cxx_xor_assign_to_or_assign", "|=">>,
     <<"<<=", "cxx_lshift_assign_to_rshift_assign", ">>=">>,
     <<">>=", "cxx_rshift_assign_to_lshift_assign", "<<=">>,
     <<"&&", "cxx_logical_and_to_or", "||">>, <<"||", "cxx_logical_or_to_and", "&&">> >>

\* VisitUnaryOperator: the operator a unary one becomes, "" when it is removed.
UnaryMutations ==
  { <<"x--", "cxx_post_dec_to_post_inc", "x++">>, <<"x++", "cxx_post_inc_to_post_dec", "x--">>,
    <<"++x", "cxx_pre_inc_to_pre_dec", "--x">>, <<"--x", "cxx_pre_dec_to_pre_inc", "++x">>,
    <<"!", "cxx_remove_negation", "">>, <<"-x", "cxx_minus_to_noop", "">>,
    <<"~", "cxx_bitwise_not_to_noop", "">> }

\* MUTATIONS_MAP.
Mutations ==
  {m[2] : m \in Range(BinaryMutations) \cup UnaryMutations}
    \cup {"cxx_remove_void_call", "cxx_assign_const", "cxx_init_const", "cxx_replace_scalar_call"}

-------------------------------------------------------------------------------
(* ASTMutationsSearchVisitor.  A point is [mutator, target, op, at,        *)
(* index]: target is the node that is replaced, op the new operator, "" for *)
(* the operand, "42" for a literal and "nothing" for the empty statement;  *)
(* it was found at the node `at`, as the index-th there.                   *)

Numeric == {"int", "float", "double"}

Point(mutator, target, op, at, index) ==
  [mutator |-> mutator, target |-> target, op |-> op, at |-> at, index |-> index]

\* Where a point is in the source: D->getInit()->getExprLoc(), or the node's own.
Location(p) == IF p.mutator = "cxx_init_const" THEN p.target ELSE p.at

\* recordMutationPoint: nothing in system headers, system macros, gtest or a
\* place without a file.
RecordMutationPoint(P) == {p \in P : heap[Location(p)].where = "user"}

VisitUnaryOperator(n) ==
  {Point(m[2], n, m[3], n, 0) : m \in {u \in UnaryMutations : u[1] = heap[n].op /\ u[2] \in used}}

\* An assignment has no other mutation than that of its right-hand side.
VisitBinaryOperator(n) ==
  LET rhs == heap[n].children[2]
  IN  IF heap[n].op = "="
      THEN {p \in {Point("cxx_assign_const", rhs, "42", n, 0)} :
              p.mutator \in used /\ heap[rhs].type \in Numeric}
      ELSE {Point(BinaryMutations[i][2], n, BinaryMutations[i][3], n, i) :
              i \in {j \in DOMAIN BinaryMutations :
                      BinaryMutations[j][1] = heap[n].op /\ BinaryMutations[j][2] \in used}}

VisitCallExpr(n) ==
  {p \in {Point("cxx_remove_void_call", n, "nothing", n, 0)} :
     heap[n].type = "void" /\ p.mutator \in used}
  \cup {p \in {Point("cxx_replace_scalar_call", n, "42", n, 1)} :
          heap[n].type = "int" /\ p.mutator \in used}

\* Parameters are no variables here.
IsInitMutated(n) == heap[n].kind = "var" /\ heap[n].type \in Numeric /\ "cxx_init_const" \in used

VisitVarDecl(n) ==
  {Point("cxx_init_const", c, "42", n, 0) : c \in {x \in Range(heap[n].children) : IsInitMutated(n)}}

Visit(n) ==
  CASE heap[n].kind = "unary"  -> VisitUnaryOperator(n)
    [] heap[n].kind = "binary" -> VisitBinaryOperator(n)
    [] heap[n].kind = "call"   -> VisitCallExpr(n)
    [] heap[n].kind = "var"    -> VisitVarDecl(n)
    [] OTHER                   -> {}

GetAstMutations(d) == RecordMutationPoint(UNION {Visit(n) : n \in d.body..d.last})

\* The order in which the visitor finds points.
Before(p, q) == p.at < q.at \/ (p.at = q.at /\ p.index < q.index)

\* D->getInit()->getExprLoc() of a variable that has no initializer.
InitIsNull(d) == \E n \in d.body..d.last : IsInitMutated(n) /\ heap[n].children = <<>>

-------------------------------------------------------------------------------
(* MullASTMutator, ClangASTMutator.                                        *)

\* getParents, with a map of the declarations up to the last.
HasParent(n, last) == \E i \in 1..last : n \in parsed.decls[i].body..parsed.decls[i].last
Parent(n) == CHOOSE p \in DOMAIN parsed.heap : n \in Range(parsed.heap[p].children)

\* mutator:file:line:column.
Id(p) == <<p.mutator, parsed.heap[Location(p)].spot>>

\* Mutant of NewNode: a copy of the old node.
NewNodeSame(p) == [heap[p.target] EXCEPT !.where = "mull"]

Made(kind, op, type, children) ==
  [kind |-> kind, op |-> op, type |-> type, where |-> "mull", spot |-> 0, children |-> children]

\* The replacement: a node, or the operand, or nothing.
NewNode(p) ==
  LET old == heap[p.target]
  IN  CASE p.op = ""        -> Made("operand", "", heap[old.children[1]].type, old.children)
        [] p.op = "42"      -> Made("leaf", "42", old.type, <<>>)
        [] p.op = "nothing" -> Made("leaf", "nothing", "void", <<>>)
        [] OTHER            -> [old EXCEPT !.op = p.op, !.where = "mull"]

\* Mutant of CreateMutatedExpression: the branches are swapped.
CreateMutatedExpressionSwapped(p, new) ==
  Made("cond", Id(p), NewNode(p).type, <<p.target, new>>)

\* The conditional operator, over the new expression and the old one, with the
\* type of the new one.
CreateMutatedExpression(p, new) ==
  Made("cond", Id(p), NewNode(p).type, <<new, p.target>>)

\* The if statement; each branch is a block of one statement or none.
CreateMutatedStatement(p, new) == Made("condstmt", Id(p), "void", <<new, p.target>>)

\* std::find over the children of the parent; 0 is child_end().
ReplacedChild(parent, old) ==
  LET hits == {i \in DOMAIN heap[parent].children : heap[parent].children[i] = old}
  IN  IF hits = {} THEN 0 ELSE CHOOSE i \in hits : \A j \in hits : i <= j

\* An assertion fails, or what it guards against happens.
Stop ==
  /\ mutating' = IF assertions THEN "assert" ELSE "undefined"
  /\ UNCHANGED <<heap, waiting, records>>

\* The new node and the condition above it, and the record.
Record(p, tree, condition) ==
  /\ heap' = Append(Append(tree, NewNode(p)), condition)
  /\ waiting' = waiting \ {p}
  /\ records' = Append(records, p)
  /\ UNCHANGED mutating

\* The condition gets into its parent, if the old node is still there.
PutInto(p, parent, child, condition) ==
  IF child = 0 THEN Stop
  ELSE Record(p, [heap EXCEPT ![parent].children[child] = Len(heap) + 2], condition)

\* No parent is found, or one that is neither a statement nor a variable: without
\* assertions the condition is made and recorded, but nowhere in the tree.
Nowhere(p, condition) == IF assertions THEN Stop ELSE Record(p, heap, condition)

\* A variable's initializer is set, whatever it is by now.
ReplaceExpression(p) ==
  LET parent    == Parent(p.target)
      condition == CreateMutatedExpression(p, Len(heap) + 1)
  IN  \/ /\ ~HasParent(p.target, known') \/ heap[parent].kind = "decl"
         /\ Nowhere(p, condition)
      \/ /\ HasParent(p.target, known') /\ heap[parent].kind = "var"
         /\ PutInto(p, parent, 1, condition)
      \/ /\ HasParent(p.target, known') /\ heap[parent].kind \notin {"decl", "var"}
         /\ PutInto(p, parent, ReplacedChild(parent, p.target), condition)

\* A statement is no operand: Clang does not check that it gets none as one, which
\* `return f();` or `f(), g();` do.
ReplaceStatement(p) ==
  LET parent    == Parent(p.target)
      condition == CreateMutatedStatement(p, Len(heap) + 1)
  IN  \/ ~HasParent(p.target, known') /\ Nowhere(p, condition)
      \/ HasParent(p.target, known') /\ heap[parent].kind \in {"decl", "var"} /\ Stop
      \/ /\ HasParent(p.target, known') /\ heap[parent].kind = "block"
         /\ PutInto(p, parent, ReplacedChild(parent, p.target), condition)
      \/ /\ HasParent(p.target, known') /\ heap[parent].kind \notin {"decl", "var", "block"}
         /\ IF ReplacedChild(parent, p.target) = 0 THEN Stop
            ELSE mutating' = "undefined" /\ UNCHANGED <<heap, waiting, records>>

-------------------------------------------------------------------------------
PluginInit ==
  /\ assertions \in BOOLEAN
  /\ parsed \in ParsedUnits
  /\ heap = parsed.heap
  /\ used = {} /\ declaration = 1 /\ waiting = {} /\ records = <<>> /\ known = 0
  /\ mutating = "args"

\* ParseArgs: all mutators when none is given.
ParseArgs ==
  /\ mutating = "args"
  /\ \E args \in Arguments : used' = IF args = {} THEN Mutations ELSE args
  /\ mutating' = "search"
  /\ UNCHANGED <<assertions, parsed, heap, declaration, waiting, records, known>>

\* Functions outside system headers and gtest, but not main.
IsMutated(d) == d.kind = "function" /\ d.name # "main" /\ d.where = "user"

\* HandleTopLevelDecl, first pass.
HandleTopLevelDecl ==
  /\ mutating = "search" /\ declaration <= Len(parsed.decls)
  /\ LET d == parsed.decls[declaration]
     IN  \/ /\ ~IsMutated(d)
            /\ declaration' = declaration + 1
            /\ UNCHANGED <<waiting, mutating>>
         \/ /\ IsMutated(d) /\ InitIsNull(d)
            /\ mutating' = "null"
            /\ UNCHANGED <<declaration, waiting>>
         \/ /\ IsMutated(d) /\ ~InitIsNull(d)
            /\ waiting' = GetAstMutations(d)
            /\ mutating' = "perform"
            /\ UNCHANGED declaration
  /\ UNCHANGED <<assertions, parsed, heap, used, records, known>>

\* The point whose turn it is.
Foremost(p) == p \in waiting /\ \A q \in waiting \ {p} : Before(p, q)

\* HandleTopLevelDecl, second pass: the first time, Clang makes its parent map.
PerformMutation ==
  /\ mutating = "perform"
  /\ known' = IF known = 0 THEN declaration ELSE known
  /\ \E p \in waiting :
       /\ Foremost(p)
       /\ IF p.op = "nothing" THEN ReplaceStatement(p) ELSE ReplaceExpression(p)
  /\ UNCHANGED <<assertions, parsed, used, declaration>>

NextDecl ==
  /\ mutating = "perform" /\ waiting = {}
  /\ mutating' = "search" /\ declaration' = declaration + 1
  /\ UNCHANGED <<assertions, parsed, heap, used, waiting, records, known>>

HandleTranslationUnit ==
  /\ mutating = "search" /\ declaration > Len(parsed.decls)
  /\ mutating' = "done"
  /\ UNCHANGED <<assertions, parsed, heap, used, declaration, waiting, records, known>>

PluginNext == ParseArgs \/ HandleTopLevelDecl \/ PerformMutation \/ NextDecl \/ HandleTranslationUnit

PluginSpec == PluginInit /\ [][PluginNext]_pluginVars

-------------------------------------------------------------------------------
(* Properties.  The meaning of each node of heap h with the mutants in env *)
(* enabled: an operator and the meanings of its operands.                  *)

Meaning(h, env) ==
  LET M[n \in DOMAIN h] ==
        LET node == h[n]
        IN  CASE node.kind \in {"cond", "condstmt"} ->
                   M[node.children[IF node.op \in env THEN 1 ELSE 2]]
              [] node.kind = "operand" -> M[node.children[1]]
              [] OTHER -> <<node.op, [i \in DOMAIN node.children |-> M[node.children[i]]]>>
  IN  M

\* What should be in place of a parsed node.
Instead(node, op) ==
  CASE op = ""                  -> [node EXCEPT !.kind = "operand"]
    [] op \in {"42", "nothing"} -> [node EXCEPT !.op = op, !.children = <<>>]
    [] OTHER                    -> [node EXCEPT !.op = op]

\* The parsed tree in which the points P replace what they should, in place.
Intended(P) ==
  [n \in DOMAIN parsed.heap |->
     LET here == {p \in P : p.target = n}
     IN  IF here = {} THEN parsed.heap[n]
         ELSE Instead(parsed.heap[n], (CHOOSE p \in here : TRUE).op)]

\* The unit as it is now, with env enabled, is that of heap h.
Computes(h, env) ==
  \A i \in DOMAIN parsed.decls :
    LET body == parsed.decls[i].body IN Meaning(heap, env)[body] = Meaning(h, {})[body]

\* main and code that is not the user's are never mutated.
OnlyUserCode ==
  /\ \A i \in DOMAIN parsed.decls :
       LET d == parsed.decls[i]
       IN  d.name = "main" \/ d.where # "user" =>
             \A n \in d.body..d.last : heap[n] = parsed.heap[n]
  /\ \A i \in DOMAIN records : parsed.heap[Location(records[i])].where = "user"

\* A node that is in Clang's parent map, below a statement or a variable.
HasPlace(n) == HasParent(n, known) /\ parsed.heap[Parent(n)].kind # "decl"

\* What the plugin cannot mutate: a node that was replaced before, one that has no
\* place, and a void call that is an operand.
StopsForThese ==
  mutating \in {"assert", "undefined"} =>
    \E p \in waiting :
      /\ Foremost(p)
      /\ \/ \E i \in DOMAIN records : records[i].target = p.target
         \/ ~HasPlace(p.target)
         \/ p.op = "nothing" /\ parsed.heap[Parent(p.target)].kind # "block"

\* With no mutant enabled the program the plugin compiles is the one it parsed, at
\* every point of the instrumentation, whatever was replaced before and whether
\* it had a place in the tree or not; main and code that is not the user's are as
\* they were; and the plugin stops for nothing but an expression that was replaced
\* before, one that is below no statement and no variable, the functions after the
\* first mutated one, which Clang's parent map lacks, and void calls as operands.
OriginalKept == Computes(parsed.heap, {}) /\ OnlyUserCode /\ StopsForThese

\* The points that are enabled with record i: the expansions of a macro share an
\* identifier, and a point without a place changes nothing.
EnabledWith(i) ==
  {records[j] : j \in {k \in DOMAIN records :
                         Id(records[k]) = Id(records[i]) /\ HasPlace(records[k].target)}}

\* No node of P is replaced twice, and none is an operand of another.
Separate(P) ==
  \A p \in P :
    /\ \A j, k \in DOMAIN records :
         records[j].target = p.target /\ records[k].target = p.target => j = k
    /\ \A q \in P : q.target \notin Range(parsed.heap[p.target].children)

\* Nested expressions do not disturb each other: enabling one identifier changes
\* the program at every recorded point that has it and a place in the tree, as
\* intended and nowhere else, whatever other mutants replaced above and below it.
\* The exceptions are a node that two mutants replace, where one of them is lost,
\* and expansions of one macro that are operands of each other: the new node of
\* the outer one has the old operand.
MutantsRight ==
  \A i \in DOMAIN records :
    Separate(EnabledWith(i)) => Computes(Intended(EnabledWith(i)), {Id(records[i])})

===============================================================================
