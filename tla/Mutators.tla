------------------------------- MODULE Mutators -------------------------------
(***************************************************************************)
(* The mutators that replace an instruction, from the C++ operator in the  *)
(* source to what the mutant computes.  A behaviour takes one operation on *)
(* two operands: Clang emits an instruction for it, a mutator finds the    *)
(* instruction, the junk detector asks whether the operator the mutator is *)
(* meant for stands at its place, the low level mutation of libirm changes *)
(* the opcode, and the mutant runs.                                        *)
(*                                                                         *)
(* Integers have Width bits and are kept as residues; a float is a small   *)
(* number or NaN.  Clang and libirm are not under src/: Emit and Exec say  *)
(* what the mutators rely on.                                              *)
(***************************************************************************)
EXTENDS Integers, Sequences, FiniteSets, TLC, Bitwise

CONSTANTS
  Width,   \* bits of an integer
  Floats,  \* the floats, NaN among them
  Cases    \* the pairs of an operator and a type that are looked at

NaN == 99

ASSUME WidthAssumption == Width \in Nat \ {0} /\ NaN \in Floats

VARIABLES
  op, type, a, b,  \* the operation in the source
  phase,           \* "source", "searched", "mutated", "done" or "nothing"
  instruction,     \* the instruction Clang emits
  mutator,         \* the mutator that changes it
  result           \* what the mutant computes

vars == <<op, type, a, b, phase, instruction, mutator, result>>

Size == 2^Width

-------------------------------------------------------------------------------
(***************************************************************************)
(* The mutators: which opcodes they turn into which (getAddToSub and the   *)
(* like), and which operator they say they replace by which, in the        *)
(* description and in the diagnostics of a mutant.                         *)
(***************************************************************************)
Mutator(low, from, to) ==
  [low |-> low, description |-> <<from, to>>, diagnostics |-> <<from, to>>]

GetAddToSub == {<<"add", "sub">>, <<"fadd", "fsub">>, <<"sadd.ov", "ssub.ov">>}

AddToSubMutators ==
  "cxx_add_to_sub" :> Mutator(GetAddToSub, "+", "-") @@
  "cxx_add_assign_to_sub_assign" :> Mutator(GetAddToSub, "+=", "-=") @@
  "cxx_post_inc_to_post_dec" :> Mutator(GetAddToSub, "x++", "x--") @@
  "cxx_pre_inc_to_pre_dec" :> Mutator(GetAddToSub, "++x", "--x")

GetSubToAdd == {<<"sub", "add">>, <<"fsub", "fadd">>, <<"ssub.ov", "sadd.ov">>}

SubToAddMutators ==
  "cxx_sub_to_add" :> Mutator(GetSubToAdd, "-", "+") @@
  "cxx_sub_assign_to_add_assign" :> Mutator(GetSubToAdd, "-=", "+=")

\* Mutant of GetDecToInc: only subtractions are taken for decrements.
GetDecToIncPlain == GetSubToAdd

\* Decrements are emitted as an addition of -1.
GetDecToInc == GetSubToAdd \cup {<<"add", "sub">>}

DecToIncMutators ==
  "cxx_post_dec_to_post_inc" :> Mutator(GetDecToInc, "x--", "x++") @@
  "cxx_pre_dec_to_pre_inc" :> Mutator(GetDecToInc, "--x", "++x")

MulToDivMutators ==
  LET low == {<<"mul", "sdiv">>, <<"fmul", "fdiv">>}
  IN "cxx_mul_to_div" :> Mutator(low, "*", "/") @@
     "cxx_mul_assign_to_div_assign" :> Mutator(low, "*=", "/=")

DivToMulMutators ==
  LET low == {<<"fdiv", "fmul">>, <<"sdiv", "mul">>, <<"udiv", "mul">>}
  IN "cxx_div_to_mul" :> Mutator(low, "/", "*") @@
     "cxx_div_assign_to_mul_assign" :> Mutator(low, "/=", "*=")

RemToDivMutators ==
  LET low == {<<"frem", "fdiv">>, <<"srem", "sdiv">>, <<"urem", "udiv">>}
  IN "cxx_rem_to_div" :> Mutator(low, "%", "/") @@
     "cxx_rem_assign_to_div_assign" :> Mutator(low, "%=", "/=")

\* ~x is x ^ -1, so that x & -1 is x again.
NotToNoopMutators ==
  "cxx_bitwise_not_to_noop" :> Mutator({<<"xor", "and">>}, "~x", "x")

UnaryMinusMutators ==
  "cxx_minus_to_noop" :>
    Mutator({<<"sub", "sub.swap">>, <<"fsub", "fsub.swap">>, <<"fneg", "noop">>},
            "-x", "x")

LShiftMutators ==
  LET low == {<<"shl", "lshr">>}
  IN "cxx_lshift_to_rshift" :> Mutator(low, "<<", ">>") @@
     "cxx_lshift_assign_to_rshift_assign" :> Mutator(low, "<<=", ">>=")

RShiftMutators ==
  LET low == {<<"lshr", "shl">>, <<"ashr", "shl">>}
  IN "cxx_rshift_to_lshift" :>
       [low |-> low, description |-> <<"<<", ">>">>, diagnostics |-> <<">>", "<<">>] @@
     "cxx_rshift_assign_to_lshift_assign" :> Mutator(low, ">>=", "<<=")

BitMutators ==
  "cxx_or_to_and" :> Mutator({<<"or", "and">>}, "|", "&") @@
  "cxx_or_assign_to_and_assign" :> Mutator({<<"or", "and">>}, "|=", "&=") @@
  "cxx_and_to_or" :> Mutator({<<"and", "or">>}, "&", "|") @@
  "cxx_and_assign_to_or_assign" :> Mutator({<<"and", "or">>}, "&=", "|=") @@
  "cxx_xor_to_or" :> Mutator({<<"xor", "or">>}, "^", "|") @@
  "cxx_xor_assign_to_or_assign" :> Mutator({<<"xor", "or">>}, "^=", "|=")

\* The predicates of icmp and fcmp: signed, unsigned, ordered and unordered.
Predicates(p, q) ==
  {<<"s" \o p, "s" \o q>>, <<"u" \o p, "u" \o q>>,
   <<"fo" \o p, "fo" \o q>>, <<"fu" \o p, "fu" \o q>>}

BoundaryMutators ==
  "cxx_lt_to_le" :> Mutator(Predicates("lt", "le"), "<", "<=") @@
  "cxx_le_to_lt" :> Mutator(Predicates("le", "lt"), "<=", "<") @@
  "cxx_gt_to_ge" :> Mutator(Predicates("gt", "ge"), ">", ">=") @@
  "cxx_ge_to_gt" :> Mutator(Predicates("ge", "gt"), ">=", ">")

EqToNe == {<<"eq", "ne">>, <<"foeq", "fone">>, <<"fueq", "fune">>}
NeToEq == {<<"ne", "eq">>, <<"fone", "foeq">>, <<"fune", "fueq">>}

EqualityMutators ==
  "cxx_eq_to_ne" :> Mutator(EqToNe, "==", "!=") @@
  "cxx_ne_to_eq" :> Mutator(NeToEq, "!=", "==")

ComparisonMutators ==
  "cxx_gt_to_le" :> Mutator(Predicates("gt", "le"), ">", "<=") @@
  "cxx_ge_to_lt" :> Mutator(Predicates("ge", "lt"), ">=", "<") @@
  "cxx_lt_to_ge" :> Mutator(Predicates("lt", "ge"), "<", ">=") @@
  "cxx_le_to_gt" :> Mutator(Predicates("le", "gt"), "<=", ">")

NumberMutators ==
  LET low == {<<"store.int", "42">>, <<"store.fp", "42">>}
  IN "cxx_assign_const" :> Mutator(low, "a = b", "42") @@
     "cxx_init_const" :> Mutator(low, "T a = b", "42")

CallMutators ==
  "cxx_replace_scalar_call" :>
    Mutator({<<"call.int", "42">>, <<"call.fp", "42">>}, "f()", "42")

RemoveNegationMutators ==
  "cxx_remove_negation" :> Mutator({<<"xor", "noop">>}, "!x", "x")

NegateMutators == "negate_mutator" :> Mutator(EqToNe \cup NeToEq, "x", "!x")

AllMutators ==
  AddToSubMutators @@ SubToAddMutators @@ DecToIncMutators @@ MulToDivMutators @@
  DivToMulMutators @@ RemToDivMutators @@ NotToNoopMutators @@ UnaryMinusMutators @@
  LShiftMutators @@ RShiftMutators @@ BitMutators @@ BoundaryMutators @@
  EqualityMutators @@ ComparisonMutators @@ NumberMutators @@ CallMutators @@
  RemoveNegationMutators @@ NegateMutators

\* Mutant of OperatorsOf: a decrement passes for the addition it is emitted as.
OperatorsOfLax(m) ==
  IF m = "cxx_add_to_sub" THEN {"+", "x--"} ELSE {AllMutators[m].diagnostics[1]}

\* findMutantExpression of the junk detector: the operators that may stand where
\* a mutator of the kind changes something.
OperatorsOf(m) ==
  CASE m \in {"negate_mutator", "cxx_remove_negation"} -> {"!x"}
    [] m \in {"cxx_lt_to_le", "cxx_lt_to_ge"} -> {"<"}
    [] m \in {"cxx_le_to_lt", "cxx_le_to_gt"} -> {"<="}
    [] m \in {"cxx_gt_to_ge", "cxx_gt_to_le"} -> {">"}
    [] m \in {"cxx_ge_to_gt", "cxx_ge_to_lt"} -> {">="}
    [] m = "cxx_eq_to_ne" -> {"=="}
    [] m = "cxx_ne_to_eq" -> {"!="}
    [] m = "cxx_add_to_sub" -> {"+"}
    [] m = "cxx_add_assign_to_sub_assign" -> {"+="}
    [] m = "cxx_pre_inc_to_pre_dec" -> {"++x"}
    [] m = "cxx_post_inc_to_post_dec" -> {"x++"}
    [] m = "cxx_sub_to_add" -> {"-"}
    [] m = "cxx_sub_assign_to_add_assign" -> {"-="}
    [] m = "cxx_pre_dec_to_pre_inc" -> {"--x"}
    [] m = "cxx_post_dec_to_post_inc" -> {"x--"}
    [] m = "cxx_mul_to_div" -> {"*"}
    [] m = "cxx_mul_assign_to_div_assign" -> {"*="}
    [] m = "cxx_div_to_mul" -> {"/"}
    [] m = "cxx_div_assign_to_mul_assign" -> {"/="}
    [] m = "cxx_rem_to_div" -> {"%"}
    [] m = "cxx_rem_assign_to_div_assign" -> {"%="}
    [] m = "cxx_bitwise_not_to_noop" -> {"~x"}
    [] m = "cxx_minus_to_noop" -> {"-x"}
    [] m = "cxx_lshift_to_rshift" -> {"<<"}
    [] m = "cxx_lshift_assign_to_rshift_assign" -> {"<<="}
    [] m = "cxx_rshift_to_lshift" -> {">>"}
    [] m = "cxx_rshift_assign_to_lshift_assign" -> {">>="}
    [] m = "cxx_and_to_or" -> {"&"}
    [] m = "cxx_and_assign_to_or_assign" -> {"&="}
    [] m = "cxx_or_to_and" -> {"|"}
    [] m = "cxx_or_assign_to_and_assign" -> {"|="}
    [] m = "cxx_xor_to_or" -> {"^"}
    [] m = "cxx_xor_assign_to_or_assign" -> {"^="}
    [] m = "cxx_assign_const" -> {"a = b"}
    [] m = "cxx_init_const" -> {"T a = b"}
    [] m = "cxx_replace_scalar_call" -> {"f()"}
    [] OTHER -> {}

\* The operators around the place of the instruction: of a negated comparison
\* there are two, of a negated number !(a), which is compared with zero, one.
Around(o) ==
  CASE o = "!(a == b)" -> {"!x", "=="}
    [] o = "!(a != b)" -> {"!x", "!="}
    [] o = "!(a)"      -> {"!x"}
    [] OTHER           -> {o}

-------------------------------------------------------------------------------
(***************************************************************************)
(* The C++ operators and the instructions they become.                     *)
(***************************************************************************)
\* An assignment computes what its operator does.  Of a negation of something
\* else than a bool the instruction looked at is the comparison in it.
Base(o) ==
  CASE o = "+=" -> "+" [] o = "-=" -> "-" [] o = "*=" -> "*" [] o = "/=" -> "/"
    [] o = "%=" -> "%" [] o = "&=" -> "&" [] o = "|=" -> "|" [] o = "^=" -> "^"
    [] o = "<<=" -> "<<" [] o = ">>=" -> ">>" [] o = "x++" -> "++x" [] o = "x--" -> "--x"
    [] o = "!(a == b)" -> "==" [] o \in {"!(a != b)", "!(a)"} -> "!="
    [] OTHER -> o

Relations == {"<", "<=", ">", ">=", "==", "!="}

Relation(o) ==
  CASE o = "<" -> "lt" [] o = "<=" -> "le" [] o = ">" -> "gt" [] o = ">=" -> "ge"
    [] o = "==" -> "eq" [] o = "!=" -> "ne"

I(o, x, y) == [opcode |-> o, x |-> x, y |-> y]

By(s, u, f) == CASE type = "unsigned" -> u [] type = "float" -> f [] OTHER -> s

Compare(o) ==
  CASE type = "float" -> IF o = "!=" THEN "fune" ELSE "fo" \o Relation(o)
    [] o \in {"==", "!="} -> Relation(o)
    [] OTHER -> By("s", "u", "f") \o Relation(o)

\* What Clang emits; "checked" is a signed integer under a sanitizer.
Emit ==
  LET o   == Base(op)
      One == IF type = "float" THEN 1 ELSE 1 % Size
      Neg == IF type = "float" THEN -1 ELSE Size - 1
      y   == IF op = "!(a)" THEN 0 ELSE b
      Ov(chk, s, f) == IF type = "checked" THEN chk ELSE By(s, s, f)
  IN CASE o \in Relations -> I(Compare(o), a, y)
       [] o = "+"   -> I(Ov("sadd.ov", "add", "fadd"), a, b)
       [] o = "-"   -> I(Ov("ssub.ov", "sub", "fsub"), a, b)
       [] o = "++x" -> I(Ov("sadd.ov", "add", "fadd"), a, One)
       [] o = "--x" -> IF type = "checked" THEN I("ssub.ov", a, One)
                                           ELSE I(By("add", "add", "fadd"), a, Neg)
       [] o = "*"   -> I(By("mul", "mul", "fmul"), a, b)
       [] o = "/"   -> I(By("sdiv", "udiv", "fdiv"), a, b)
       [] o = "%"   -> I(By("srem", "urem", "frem"), a, b)
       [] o = "<<"  -> I("shl", a, b)
       [] o = ">>"  -> I(By("ashr", "lshr", "none"), a, b)
       [] o = "&"   -> I("and", a, b)
       [] o = "|"   -> I("or", a, b)
       [] o = "^"   -> I("xor", a, b)
       [] o = "~x"  -> I("xor", a, Neg)
       [] o = "!x"  -> I("xor", a, 1)
       [] o = "-x"  -> IF type = "float" THEN I("fneg", a, 0) ELSE I("sub", 0, a)
       [] o \in {"a = b", "T a = b"} -> I(By("store.int", "store.int", "store.fp"), a, b)
       [] o = "f()" -> I(By("call.int", "call.int", "call.fp"), a, b)

Signed(x)   == IF x >= Size \div 2 THEN x - Size ELSE x
InRange(x)  == x \in -(Size \div 2)..(Size \div 2) - 1
Abs(x)      == IF x < 0 THEN -x ELSE x
Quotient(x, y) == (IF (x < 0) # (y < 0) THEN -1 ELSE 1) * (Abs(x) \div Abs(y))
Truth(p)    == {<<IF p THEN 1 ELSE 0>>}

\* What an operator of C++ computes: {} when that is undefined.
SignedResult(o, x, y) ==
  LET Checked(n) == IF InRange(n) THEN {<<n % Size>>} ELSE {}
  IN CASE o = "+" -> Checked(x + y)   [] o = "-" -> Checked(x - y)
       [] o = "*" -> Checked(x * y)   [] o = "++x" -> Checked(x + 1)
       [] o = "--x" -> Checked(x - 1) [] o = "-x" -> Checked(-x)
       [] o = "/" -> IF y = 0 THEN {} ELSE Checked(Quotient(x, y))
       [] o = "%" -> IF y = 0 \/ ~InRange(Quotient(x, y)) THEN {}
                     ELSE Checked(x - y * Quotient(x, y))
       [] o = "<<" -> IF x < 0 \/ y \notin 0..Width-1 \/ x * 2^y >= Size THEN {}
                      ELSE {<<x * 2^y>>}
       [] o = ">>" -> IF y \notin 0..Width-1 THEN {} ELSE Checked(x \div 2^y)

UnsignedResult(o, x, y) ==
  CASE o = "+" -> {<<(x + y) % Size>>}   [] o = "-" -> {<<(x - y) % Size>>}
    [] o = "*" -> {<<(x * y) % Size>>}   [] o = "++x" -> {<<(x + 1) % Size>>}
    [] o = "--x" -> {<<(x - 1) % Size>>} [] o = "-x" -> {<<(-x) % Size>>}
    [] o = "/" -> IF y = 0 THEN {} ELSE {<<x \div y>>}
    [] o = "%" -> IF y = 0 THEN {} ELSE {<<x % y>>}
    [] o = "<<" -> IF y \notin 0..Width-1 THEN {} ELSE {<<(x * 2^y) % Size>>}
    [] o = ">>" -> IF y \notin 0..Width-1 THEN {} ELSE {<<x \div 2^y>>}

FloatResult(o, x, y) ==
  LET Arith(n, s) == {<<IF s THEN NaN ELSE n>>}
      un == x = NaN \/ y = NaN
  IN CASE o = "+" -> Arith(x + y, un)   [] o = "-" -> Arith(x - y, un)
       [] o = "*" -> Arith(x * y, un)   [] o = "++x" -> Arith(x + 1, x = NaN)
       [] o = "--x" -> Arith(x - 1, x = NaN) [] o = "-x" -> Arith(-x, x = NaN)
       [] o = "/" -> {<<"quotient", x, y>>}

Holds(o, x, y) ==
  CASE o = "<" -> x < y  [] o = "<=" -> x <= y [] o = ">" -> x > y
    [] o = ">=" -> x >= y [] o = "==" -> x = y [] o = "!=" -> x # y

Result(oo, x, y) ==
  LET o == Base(oo)
  IN CASE o = "x"  -> {<<x>>}
       [] o = "!x" -> {<<1 - x>>}
       [] o = "42" -> {<<42>>}
       [] o \in {"a = b", "T a = b", "f()"} -> {<<y>>}
       [] o \in Relations /\ type = "float" ->
            IF x = NaN \/ y = NaN THEN Truth(o = "!=") ELSE Truth(Holds(o, x, y))
       [] o \in Relations /\ type = "unsigned" -> Truth(Holds(o, x, y))
       [] o \in Relations /\ type \in {"signed", "checked"} ->
            Truth(Holds(o, Signed(x), Signed(y)))
       [] o = "&" -> {<<x & y>>} [] o = "|" -> {<<x | y>>} [] o = "^" -> {<<x ^^ y>>}
       [] o = "~x" -> {<<Size - 1 - x>>}
       [] OTHER -> CASE type = "unsigned" -> UnsignedResult(o, x, y)
                     [] type = "float" -> FloatResult(o, x, y)
                     [] OTHER -> SignedResult(o, Signed(x), IF o \in {"<<", ">>"} THEN y
                                                            ELSE Signed(y))

\* What an instruction computes; {} when LLVM leaves it undefined.
Exec(i) ==
  LET x == i.x
      y == i.y
      o == i.opcode
      un == x = NaN \/ y = NaN
      S(r) == Truth(Holds(r, Signed(x), Signed(y)))
      U(r) == Truth(Holds(r, x, y))
      O(r) == Truth(~un /\ Holds(r, x, y))
      N(r) == Truth(un \/ Holds(r, x, y))
  IN CASE o = "add" -> {<<(x + y) % Size>>} [] o = "sub" -> {<<(x - y) % Size>>}
       [] o = "mul" -> {<<(x * y) % Size>>} [] o = "sub.swap" -> {<<(y - x) % Size>>}
       [] o = "sadd.ov" -> SignedResult("+", Signed(x), Signed(y))
       [] o = "ssub.ov" -> SignedResult("-", Signed(x), Signed(y))
       [] o = "sdiv" -> SignedResult("/", Signed(x), Signed(y))
       [] o = "srem" -> SignedResult("%", Signed(x), Signed(y))
       [] o = "udiv" -> UnsignedResult("/", x, y)
       [] o = "urem" -> UnsignedResult("%", x, y)
       [] o = "shl" -> UnsignedResult("<<", x, y)
       [] o = "lshr" -> UnsignedResult(">>", x, y)
       [] o = "ashr" -> SignedResult(">>", Signed(x), y)
       [] o = "and" -> {<<x & y>>} [] o = "or" -> {<<x | y>>} [] o = "xor" -> {<<x ^^ y>>}
       [] o = "fadd" -> FloatResult("+", x, y) [] o = "fsub" -> FloatResult("-", x, y)
       [] o = "fmul" -> FloatResult("*", x, y) [] o = "fdiv" -> FloatResult("/", x, y)
       [] o = "noop" -> {<<x>>} [] o = "42" -> {<<42>>}
       [] o = "eq" -> U("==") [] o = "ne" -> U("!=")
       [] o = "slt" -> S("<") [] o = "sle" -> S("<=") [] o = "sgt" -> S(">") [] o = "sge" -> S(">=")
       [] o = "ult" -> U("<") [] o = "ule" -> U("<=") [] o = "ugt" -> U(">") [] o = "uge" -> U(">=")
       [] o = "folt" -> O("<") [] o = "fole" -> O("<=") [] o = "fogt" -> O(">") [] o = "foge" -> O(">=")
       [] o = "foeq" -> O("==") [] o = "fone" -> O("!=")
       [] o = "fueq" -> N("==") [] o = "fune" -> N("!=")

-------------------------------------------------------------------------------
Operands(t) == CASE t = "float" -> Floats [] t = "bool" -> {0, 1} [] OTHER -> 0..Size-1

Init ==
  /\ \E c \in Cases : op = c[1] /\ type = c[2]
  /\ a \in Operands(type)
  /\ b \in Operands(type)
  /\ phase = "source"
  /\ instruction = Emit
  /\ mutator = "none"
  /\ result = {}

CanMutate(m) == {p \in AllMutators[m].low : p[1] = instruction.opcode}

\* TrivialCXXMutator::getMutations.
TrivialGetMutations(m) == CanMutate(m)

\* UnaryMinusToNoop::getMutations: a subtraction has to start from zero.
UnaryMinusGetMutations(m) ==
  {p \in CanMutate(m) : p[1] = "fneg" \/ instruction.x = 0}

GetMutations(m) == IF m = "cxx_minus_to_noop" THEN UnaryMinusGetMutations(m)
                                              ELSE TrivialGetMutations(m)

\* The points of the instruction that the junk detector keeps.
Points == {m \in DOMAIN AllMutators : GetMutations(m) # {} /\ Around(op) \cap OperatorsOf(m) # {}}

Search ==
  /\ phase = "source"
  /\ IF Points = {} THEN phase' = "nothing" /\ UNCHANGED mutator
     ELSE phase' = "searched" /\ \E m \in Points : mutator' = m
  /\ UNCHANGED <<op, type, a, b, instruction, result>>

ApplyMutation ==
  /\ phase = "searched"
  /\ \E p \in GetMutations(mutator) : instruction' = [instruction EXCEPT !.opcode = p[2]]
  /\ phase' = "mutated"
  /\ UNCHANGED <<op, type, a, b, mutator, result>>

Run ==
  /\ phase = "mutated"
  /\ result' = Exec(instruction)
  /\ phase' = "done"
  /\ UNCHANGED <<op, type, a, b, instruction, mutator>>

Next == Search \/ ApplyMutation \/ Run

Spec == Init /\ [][Next]_vars

-------------------------------------------------------------------------------
\* What the operation computes in the source.
Source == Result(op, a, IF op = "!(a)" THEN 0 ELSE b)

\* What the operator in a promise <<from, to>> computes here; negate_mutator
\* promises the negation of whatever it finds.
PromisedBy(says) ==
  IF mutator = "negate_mutator" THEN {<<1 - r[1]>> : r \in Source} ELSE Result(says[2], a, b)

\* A mutant computes what its diagnostics say, and what its description says in
\* the help text and the documentation: the operator is replaced by the other
\* one, of the same type as the source used it with.  That is all mutators but
\* equality of floats (an ordered comparison for NaN), the multiplication of
\* unsigned numbers (it becomes a signed division) and the description of
\* cxx_rshift_to_lshift, which is that of its opposite.
OperatorReplaced ==
  /\ phase = "done" /\ Source # {}
  /\ ~(type = "float" /\ Base(op) \in {"==", "!="})
  /\ ~(type = "unsigned" /\ op \in {"*", "*="})
  => LET m    == AllMutators[mutator]
         says == IF mutator = "cxx_rshift_to_lshift" THEN {m.diagnostics}
                 ELSE {m.diagnostics, m.description}
     IN \A s \in says : PromisedBy(s) # {} => result = PromisedBy(s)

\* No operator of a mutator's description is overlooked, whatever the type of
\* its operands: some low level mutation takes the opcode Clang emits for it.
\* Decrements of floats, which are emitted as a floating point addition, are.
OperatorFound ==
  phase = "nothing" =>
    \/ Around(op) \cap {AllMutators[m].diagnostics[1] : m \in DOMAIN AllMutators} = {}
    \/ type = "float" /\ Base(op) = "--x"

===============================================================================
