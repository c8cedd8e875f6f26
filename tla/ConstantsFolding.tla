--------------------------- MODULE ConstantsFolding ---------------------------
(***************************************************************************)
(* ir/pass/constants-folding.cc, in two parts: what an operator with two   *)
(* constant operands is folded to, with the choice of the operator in      *)
(* ir/codegen.cc, for integers of Width bits; and what the pass does to a  *)
(* function that SsaConstruction has made.                                 *)
(***************************************************************************)
EXTENDS SsaConstruction, Bitwise

CONSTANT Width

\* DECLARE_IR_BINARY and DECLARE_IR_COMPARISON, in this order.
OperatorIndex ==
  <<"Add", "Sub", "Mul", "SDiv", "SRem", "UMul", "UDiv", "URem", "FAdd", "FSub", "FMul",
    "FDiv", "FRem", "And", "Or", "Xor", "Shl", "LShr", "AShr", "ICmp", "FCmp">>

\* Mutant: the rows of the unsigned division and remainder are swapped.
kFoldingOperators_Swapped ==
  <<"Add", "Sub", "Mul", "Div", "Rem", "Mul", "Rem", "Div", "Add", "Sub", "Mul",
    "Div", "Rem", "And", "Or", "Xor", "Shl", "Shr", "Shr", "ICmp", "FCmp">>

\* The rows of the table, found by the index of an operator.
kFoldingOperators ==
  <<"Add", "Sub", "Mul", "Div", "Rem", "Mul", "Div", "Rem", "Add", "Sub", "Mul",
    "Div", "Rem", "And", "Or", "Xor", "Shl", "Shr", "Shr", "ICmp", "FCmp">>

Folder(op) == kFoldingOperators[CHOOSE i \in DOMAIN OperatorIndex : OperatorIndex[i] = op]

\* What the visitor of a symbol offers for signed and for unsigned operands:
\* the operator, and the condition of a comparison.
Arith(signed, unsigned) == [op |-> <<signed, unsigned>>, cond |-> <<"", "">>]
Cmp(signed, unsigned) == [op |-> <<"ICmp", "ICmp">>, cond |-> <<signed, unsigned>>]

Candidates ==
  [s \in {"+", "-", "*", "/", "%", "|", "&", "^", "<<", ">>", "==", "!=", "<", "<=", ">", ">="} |->
     CASE s = "+" -> Arith("Add", "Add")   [] s = "-" -> Arith("Sub", "Sub")
       [] s = "*" -> Arith("Mul", "UMul")  [] s = "/" -> Arith("SDiv", "UDiv")
       [] s = "%" -> Arith("SRem", "URem") [] s = "|" -> Arith("Or", "Or")
       [] s = "&" -> Arith("And", "And")   [] s = "^" -> Arith("Xor", "Xor")
       [] s = "<<" -> Arith("Shl", "Shl")  [] s = ">>" -> Arith("AShr", "LShr")
       [] s = "==" -> Cmp("eq", "eq")      [] s = "!=" -> Cmp("ne", "ne")
       [] s = "<" -> Cmp("slt", "ult")     [] s = "<=" -> Cmp("sle", "ule")
       [] s = ">" -> Cmp("sgt", "ugt")     [] s = ">=" -> Cmp("sge", "uge")]

\* A result of int arithmetic that becomes a constant of the kind.
Narrow(signed, n) ==
  LET u == n % 2 ^ Width IN IF signed /\ u >= 2 ^ (Width - 1) THEN u - 2 ^ Width ELSE u

\* C's / and %, which round to zero.
Quotient(a, b) ==
  LET q == (IF a < 0 THEN -a ELSE a) \div (IF b < 0 THEN -b ELSE b)
  IN  IF (a < 0) = (b < 0) THEN q ELSE -q

\* The bits of an int that are below Width.
Low(n) == n % 2 ^ Width

\* The functions the DEFINE_..._OP macros make.
Compute(folder, a, b) ==
  CASE folder = "Add" -> a + b
    [] folder = "Sub" -> a - b
    [] folder = "Mul" -> a * b
    [] folder = "Div" -> Quotient(a, b)
    [] folder = "Rem" -> a - b * Quotient(a, b)
    [] folder = "And" -> Low(a) & Low(b)
    [] folder = "Or"  -> Low(a) | Low(b)
    [] folder = "Xor" -> Low(a) ^^ Low(b)
    [] folder = "Shl" -> Low(a) * 2 ^ b
    [] folder = "Shr" -> a \div 2 ^ b

\* DEFINE_ICMP_OP, DEFINE_UCMP_OP: a condition of the other signedness is
\* left alone.
Decide(signed, cond, a, b) ==
  LET is(r) == IF r THEN <<1>> ELSE <<0>>
  IN  CASE cond = "eq" -> is(a = b)
        [] cond = "ne" -> is(a # b)
        [] cond = (IF signed THEN "slt" ELSE "ult") -> is(a < b)
        [] cond = (IF signed THEN "sle" ELSE "ule") -> is(a <= b)
        [] cond = (IF signed THEN "sgt" ELSE "ugt") -> is(a > b)
        [] cond = (IF signed THEN "sge" ELSE "uge") -> is(a >= b)
        [] OTHER -> <<>>

\* FoldValueIfNeeded of `a sym b`: <<value>>, or <<>> when it stays.
FoldBinary(sym, signed, a, b) ==
  LET which == IF signed THEN 1 ELSE 2
      folder == Folder(Candidates[sym].op[which])
  IN  CASE folder = "ICmp" -> Decide(signed, Candidates[sym].cond[which], a, b)
        [] folder = "FCmp" -> <<>>
        [] folder \in {"Div", "Rem"} /\ b = 0 -> <<>>
        [] OTHER -> <<Narrow(signed, Compute(folder, a, b))>>

-----------------------------------------------------------------------------
(* The pass over a function.                                               *)

IsConstant(g, v) == g.val[v].op = "const"

Foldable(g, v) ==
  /\ g.val[v].op \in {"add", "lt", "le", "eq"}
  /\ \A i \in DOMAIN g.val[v].in : IsConstant(g, g.val[v].in[i])

\* Mutant: only the users in the block of the instruction are told.
FoldInstruction_Block(g, v) ==
  LET n == Detached(g, "const", Op(g.val[v].op, g.val[g.val[v].in[1]].in[1], g.val[g.val[v].in[2]].in[1]))
      to == Len(n.val)
      near == UNION {ToSet(g.code[b]) : b \in {c \in DOMAIN g.code : v \in ToSet(g.code[c])}}
  IN  IF ~Foldable(g, v) THEN g
      ELSE [n EXCEPT !.val = [u \in DOMAIN @ |->
                                IF u \notin near THEN @[u]
                                ELSE [@[u] EXCEPT !.in = [i \in DOMAIN @ |-> IF @[i] = v THEN to ELSE @[i]]]],
                     !.code = [b \in DOMAIN @ |-> SelectSeq(@[b], LAMBDA w : w # v)]]

\* RunBasicBlock for one instruction: its users get the constant, and it is
\* killed.  The moves into phi nodes keep the dead value.
FoldInstruction(g, v) ==
  LET n == Detached(g, "const", Op(g.val[v].op, g.val[g.val[v].in[1]].in[1], g.val[g.val[v].in[2]].in[1]))
      to == Len(n.val)
  IN  IF ~Foldable(g, v) THEN g
      ELSE [n EXCEPT !.val = [u \in DOMAIN @ |->
                                IF @[u].op = "const" THEN @[u]
                                ELSE [@[u] EXCEPT !.in = [i \in DOMAIN @ |-> IF @[i] = v THEN to ELSE @[i]]]],
                     !.code = [b \in DOMAIN @ |-> SelectSeq(@[b], LAMBDA w : w # v)]]

\* RunFun
Fold(g) == FoldLeft(FoldInstruction, g, FlattenSeq([i \in DOMAIN g.order |-> g.code[g.order[i]]]))

\* A move in front of a jump that reads an instruction that is gone.
MovesTheDead(g) ==
  LET live == UNION {ToSet(g.code[b]) : b \in DOMAIN g.code}
  IN  \E b \in DOMAIN g.users : \E i \in DOMAIN g.users[b] :
        ~IsConstant(g, g.users[b][i][2]) /\ g.users[b][i][2] \notin live
=============================================================================
