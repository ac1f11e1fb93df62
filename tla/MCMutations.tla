------------------------------ MODULE MCMutations ------------------------------
(***************************************************************************)
(* What a mutant computes, for TLC: the mutators of instructions, the      *)
(* mutators of && and ||, and the Clang plugin.  A behaviour is one        *)
(* operation, one expression or one translation unit, as part says; these  *)
(* share no state, and the other two stay where they are.                  *)
(***************************************************************************)
EXTENDS Mutators, ClangPlugin

-------------------------------------------------------------------------------
(* All operators, on all pairs of integers of Width bits and on some       *)
(* floats, NaN among them.                                                 *)

Assignments == {"+=", "-=", "*=", "/=", "%=", "&=", "|=", "^=", "<<=", ">>="}
OnFloats    == {"+", "-", "*", "/", "+=", "-=", "*=", "/=", "x++", "++x", "x--",
                "--x", "-x", "a = b", "T a = b", "f()",
                "!(a == b)", "!(a != b)", "!(a)"} \cup Relations
OnIntegers  == OnFloats \cup Assignments
                 \cup {"%", "&", "|", "^", "<<", ">>", "~x"}
OnChecked   == {"+", "-", "+=", "-=", "x++", "++x", "x--", "--x"}

MCCases == OnIntegers \X {"signed", "unsigned"} \cup OnFloats \X {"float"}
             \cup OnChecked \X {"checked"} \cup {<<"!x", "bool">>}

MCFloats == -2..2 \cup {NaN}

-------------------------------------------------------------------------------
(* All expressions with two or three operands, each subexpression negated  *)
(* or not, as a condition or as a value, the value with and without an     *)
(* `if` after it.                                                          *)

Negated(E)     == E \cup {[op |-> "not", arg |-> e] : e \in E}
Literals(x)    == Negated({[op |-> "var", name |-> x]})
Combined(E, F) == [op : {"and", "or"}, lhs : E, rhs : F]

Pairs        == Combined(Literals("a"), Literals("b"))
LeftTriples  == Combined(Negated(Pairs), Literals("c"))
RightTriples == Combined(Literals("a"), Negated(Combined(Literals("b"), Literals("c"))))

MCExpressions ==
  LET exprs == Pairs \cup LeftTriples \cup RightTriples
  IN  [expr : exprs, form : {"condition"}, after : {FALSE}]
        \cup [expr : exprs, form : {"value"}, after : BOOLEAN]

-------------------------------------------------------------------------------
(* Bodies with nested operators, an assignment and an initialization of an *)
(* operator or a call, a comparison, a void call, a negation in a system   *)
(* macro, and a variable that is not initialized; expansions of a macro    *)
(* beside and around each other, the bound of an array, and a void call    *)
(* that is returned.                                                       *)

N(k, o, t, c) == [kind |-> k, op |-> o, type |-> t, where |-> "user", spot |-> 0, children |-> c]
Leaf(x) == N("leaf", x, "int", <<>>)

\* The numbers are places in the heap.
Nested     == <<N("block", "{}", "void", <<2>>), N("binary", "+", "int", <<3, 6>>),
                N("binary", "+", "int", <<4, 5>>), Leaf("a"), Leaf("b"),
                N("unary", "-x", "int", <<7>>), Leaf("c")>>
Assignment == <<N("block", "{}", "void", <<2, 6>>), N("binary", "=", "int", <<3, 4>>), Leaf("x"),
                N("unary", "-x", "int", <<5>>), N("call", "f()", "int", <<>>),
                N("call", "g()", "void", <<>>)>>
Initializer == <<N("block", "{}", "void", <<2, 4>>), N("var", "v", "int", <<3>>),
                N("call", "f()", "int", <<>>), N("var", "w", "double", <<5>>),
                N("binary", "-", "double", <<6, 7>>), Leaf("a"), Leaf("b")>>
Comparison == <<N("block", "{}", "void", <<2, 5>>), N("binary", ">", "bool", <<3, 4>>),
                Leaf("a"), Leaf("b"),
                [N("unary", "!", "bool", <<6>>) EXCEPT !.where = "system macro"], Leaf("c")>>
NoInit     == <<N("block", "{}", "void", <<2>>), N("var", "u", "int", <<>>)>>

Sum(x, y)  == N("binary", "+", "int", <<x, y>>)
Paren(x)   == N("paren", "()", "int", <<x>>)
Macros     == <<N("block", "{}", "void", <<2, 5>>), Sum(3, 4), Leaf("a"), Leaf("b"),
                Sum(6, 10), Paren(7), Sum(8, 9), Leaf("c"), Leaf("d"), Leaf("e")>>
Inner      == <<N("block", "{}", "void", <<2>>), N("unary", "-x", "int", <<3>>),
                N("unary", "-x", "int", <<4>>), Leaf("a")>>
Bound      == <<N("block", "{}", "void", <<2, 5>>), N("decl", "[]", "int", <<3>>),
                N("unary", "-x", "int", <<4>>), Leaf("a"), N("unary", "-x", "int", <<6>>), Leaf("b")>>
Return     == <<N("block", "{}", "void", <<2>>), N("return", "return", "void", <<3>>),
                N("call", "f()", "void", <<>>)>>
Two        == Nested \o <<N("block", "{}", "void", <<9>>), N("unary", "-x", "int", <<10>>), Leaf("d")>>

Function(name, where, body, last) ==
  [kind |-> "function", name |-> name, where |-> where, body |-> body, last |-> last]

\* Where nodes are spelled: each in a place of its own, but for those of a macro.
Spelled(h, macro) == [n \in DOMAIN h |-> [h[n] EXCEPT !.spot = IF n \in macro THEN 0 ELSE n]]

Bodies ==
  {Spelled(h, {}) : h \in {Nested, Assignment, Initializer, Comparison, NoInit, Bound, Return}}
  \cup {Spelled(Macros, {2, 5, 7}), Spelled(Inner, {2, 3}), Spelled(Bound, {3, 5}),
        Spelled(Nested, {2, 3})}

\* One function, main, or one of gtest; or two functions, main among them.
MCUnits ==
  {[heap |-> h, decls |-> <<Function(d[1], d[2], 1, Len(h))>>] :
     h \in Bodies, d \in {<<"f", "user">>, <<"main", "user">>, <<"f", "gtest">>}}
  \cup {[heap |-> Spelled(Two, {6, 9}), decls |-> <<Function(d[1], "user", 1, 7), Function(d[2], "user", 8, 10)>>] :
          d \in {<<"f", "main">>, <<"main", "f">>, <<"f", "g">>}}

\* One, two or all mutators.
MCArguments ==
  {{}} \cup {{m, n} : m, n \in {"cxx_add_to_sub", "cxx_minus_to_noop", "cxx_assign_const",
                               "cxx_init_const", "cxx_replace_scalar_call", "cxx_sub_to_add",
                               "cxx_gt_to_ge", "cxx_gt_to_le", "cxx_remove_void_call",
                               "cxx_remove_negation"}}

-------------------------------------------------------------------------------
VARIABLES
  part,
  expression, lphase, lmutator, point, function, env, block, value

L == INSTANCE LogicalOperators
       WITH Programs <- MCExpressions, JunkDetection <- TRUE,
            program <- expression, phase <- lphase, mutator <- lmutator

logical == <<expression, lphase, lmutator, point, function, env, block, value>>
MCVars  == <<part, vars, logical, pluginVars>>

NoInstruction ==
  /\ op = "none" /\ type = "none" /\ a = 0 /\ b = 0 /\ phase = "idle"
  /\ instruction = "none" /\ mutator = "none" /\ result = {}

NoExpression ==
  /\ expression = "none" /\ lphase = "idle" /\ lmutator = "none" /\ point = "none"
  /\ function = "none" /\ env = <<>> /\ block = "none" /\ value = FALSE

NoUnit ==
  /\ assertions = FALSE /\ known = 0 /\ mutating = "idle" /\ waiting = {} /\ records = <<>>
  /\ parsed = [heap |-> <<>>, decls |-> <<>>] /\ heap = <<>> /\ used = {} /\ declaration = 0

MCInit ==
  \/ part = "instruction" /\ Init /\ NoExpression /\ NoUnit
  \/ part = "logical" /\ L!Init /\ NoInstruction /\ NoUnit
  \/ part = "plugin" /\ PluginInit /\ NoInstruction /\ NoExpression

InstructionAlone == UNCHANGED <<part, logical, pluginVars>>
LogicalAlone     == UNCHANGED <<part, vars, pluginVars>>
PluginAlone      == UNCHANGED <<part, vars, logical>>

InstructionStep ==
  \/ Search /\ InstructionAlone
  \/ ApplyMutation /\ InstructionAlone
  \/ Run /\ InstructionAlone

LogicalStep ==
  \/ L!Mutate /\ LogicalAlone
  \/ L!NothingToMutate /\ LogicalAlone
  \/ L!Compile /\ LogicalAlone
  \/ L!RunBlock /\ LogicalAlone

PluginStep ==
  \/ ParseArgs /\ PluginAlone
  \/ HandleTopLevelDecl /\ PluginAlone
  \/ PerformMutation /\ PluginAlone
  \/ NextDecl /\ PluginAlone
  \/ HandleTranslationUnit /\ PluginAlone

MCNext == InstructionStep \/ LogicalStep \/ PluginStep

\* The fairness of LogicalOperators' specification.
MCSpec == MCInit /\ [][MCNext]_MCVars /\ WF_MCVars(LogicalStep)

-------------------------------------------------------------------------------
\* A mutant of && or || between plain operands computes the expression with that
\* operator replaced and nothing else, and none of them is overlooked
\* (LogicalAndToOr, LogicalOrToAnd).
LogicalReplaced ==
  part = "logical" => L!SimpleOperatorReplaced /\ L!SimpleOperatorFound

\* The branches they reconnect leave IR that verifies, as long as at most one
\* block of the left side skips the right operand.
SingleSkipVerifies == part = "logical" => L!SingleSkipVerifies

\* Reconnected branches never send the function around in a circle.
MutantReturns == part = "logical" => L!MutantReturns

===============================================================================
