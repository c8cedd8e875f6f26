------------------------------- MODULE Parsing -------------------------------
(***************************************************************************)
(* The parser of the language: recursive descent with one token of         *)
(* lookahead, priorities for the binary operators, and a probe that reads  *)
(* ahead to tell the `<' of f<int>(x) from the one of a < b.               *)
(*                                                                         *)
(* A state p is what the parser has: the tokens of the lexer and which is  *)
(* next, the tokens a probe has read and how many of them were handed out  *)
(* since, the lookahead, and the trees it has made so far on a stack.      *)
(* A tree is <<kind, subtrees>>; its kind is a name, a literal, the token  *)
(* of an operator or the name of a class of ast.h.  What fails keeps the   *)
(* lookahead "error", which no token matches.  Positions are left out.     *)
(***************************************************************************)
EXTENDS Integers, Sequences, SequencesExt, TLC

Identifiers == {"a", "b", "c", "f", "T"}
Literals == {"1", "'s'"}
Primitives == {"unit", "bool", "i32", "int", "string"}
Accesses == {"export", "public", "private", "protected"}

Kind(t) == IF t \in Identifiers THEN "identifier" ELSE t

Leaf(t) == <<t, <<>>>>
None == Leaf("none")
IsIdentifier(t) == t[1] \in Identifiers
IsDot(t) == t[1] = "Dot"

Lexed(p, n) == IF n <= Len(p.in) THEN p.in[n] ELSE "EOF"

SwitchInput(ts) ==
  [in |-> ts, next |-> 2, roll |-> <<>>, pos |-> 0, la |-> Lexed([in |-> ts], 1),
   op |-> "none", yes |-> TRUE, st |-> <<>>]

Fail(p) == [p EXCEPT !.la = "error"]
Failed(p) == p.la = "error"

\* Mutant: a token that was handed out stays in the buffer.
MoveNext_Again(p) ==
  IF p.pos = Len(p.roll) THEN [p EXCEPT !.la = Lexed(p, p.next), !.next = @ + 1]
  ELSE [p EXCEPT !.la = p.roll[p.pos + 1],
                 !.pos = IF p.pos + 1 = Len(p.roll) THEN 0 ELSE p.pos + 1]

MoveNext(p) ==
  IF p.pos = Len(p.roll) THEN [p EXCEPT !.la = Lexed(p, p.next), !.next = @ + 1]
  ELSE LET last == p.pos + 1 = Len(p.roll)
       IN  [p EXCEPT !.la = p.roll[p.pos + 1], !.pos = IF last THEN 0 ELSE p.pos + 1,
                     !.roll = IF last THEN <<>> ELSE @]

Push(p, t) == [p EXCEPT !.st = Append(@, t)]
Top(p) == p.st[Len(p.st)]

\* The tree of what q has on the stack and p had not.
Make(kind, p, q) ==
  [q EXCEPT !.st = Append(SubSeq(@, 1, Len(p.st)), <<kind, SubSeq(@, Len(p.st) + 1, Len(@))>>)]

Match(p, kind) == IF Kind(p.la) = kind THEN MoveNext(p) ELSE Fail(p)
Take(p) == MoveNext(Push(p, Leaf(p.la)))
MatchText(p, kind) == IF Kind(p.la) = kind THEN Take(p) ELSE Fail(p)

-----------------------------------------------------------------------------
(* Symbols: the functions of the parser by their names, and tokens.        *)

RECURSIVE Parse(_, _)

Do(p, symbols) == FoldLeft(LAMBDA q, s : Parse(s, q), p, symbols)

Optional(p, kind, symbols) == IF Kind(p.la) = kind THEN Do(p, symbols) ELSE Push(p, None)

RECURSIVE List(_, _)
\* do ... while (Test(Token::kComma))
List(p, s) == LET q == Parse(s, p) IN IF q.la = "," THEN List(MoveNext(q), s) ELSE q

\* Nothing comes after variable arguments.
Vargs(p) == IF p.la = ")" THEN p ELSE Fail(p)

RECURSIVE Until(_, _, _)
\* while (!Test(end)) ...
Until(p, s, end) ==
  IF p.la = end THEN MoveNext(p) ELSE IF Failed(p) THEN p ELSE Until(Parse(s, p), s, end)

-----------------------------------------------------------------------------
(* Probing.  p.yes says that the probe still goes on.                      *)

ProbeNext(p) ==
  LET t == Lexed(p, p.next)
  IN  [p EXCEPT !.la = t, !.roll = Append(@, t), !.next = @ + 1]

Probe(p, kind) == IF p.yes /\ Kind(p.la) = kind THEN ProbeNext(p) ELSE [p EXCEPT !.yes = FALSE]
ProbeAll(p, kinds) == FoldLeft(Probe, p, kinds)
MayProbe(p, kind) == IF p.yes /\ Kind(p.la) = kind THEN ProbeNext(p) ELSE p

RECURSIVE ProbeType(_)
RECURSIVE ProbeTypes(_)
ProbeTypes(p) == LET q == ProbeType(p) IN IF q.yes /\ q.la = "," THEN ProbeTypes(ProbeNext(q)) ELSE q

RECURSIVE Skip(_, _)
\* The parameters of a function type: commas, and `...' at the end.
Skip(p, kind) == IF p.yes /\ p.la = kind THEN Skip(ProbeNext(p), kind) ELSE p

ProbeChannel(p) == Probe(ProbeType(ProbeAll(p, <<"chan", "<">>)), ">")

ProbeAtomType(p) ==
  CASE ~p.yes -> p
    [] p.la \in Primitives -> ProbeNext(p)
    [] p.la \in {"in", "out"} -> ProbeChannel(ProbeNext(p))
    [] p.la = "chan" -> ProbeChannel(p)
    [] p.la = "(" ->
         LET q == ProbeNext(p)
             params == IF q.la = ")" THEN ProbeNext(q)
                       ELSE Probe(MayProbe(Skip(q, ","), "..."), ")")
             r == Probe(params, "->")
         IN  IF r.yes /\ r.la = "(" THEN Probe(ProbeTypes(ProbeNext(r)), ")") ELSE ProbeType(r)
    [] Kind(p.la) \in {"::", "identifier"} ->
         LET q == IF p.la = "::" THEN Probe(ProbeNext(p), "identifier") ELSE ProbeNext(p)
             r == IF p.la # "::" /\ q.la \in {".", "::"}
                  THEN Probe(ProbeNext(q), "identifier") ELSE q
         IN  IF r.yes /\ r.la = "<" THEN Probe(ProbeTypes(ProbeNext(r)), ">") ELSE r
    [] OTHER -> [p EXCEPT !.yes = FALSE]

RECURSIVE ProbeDims(_)
ProbeDims(p) == IF p.yes /\ p.la = "[" THEN ProbeDims(Probe(ProbeNext(p), "]")) ELSE p

ProbeType(p) == ProbeDims(ProbeAtomType(p))

RECURSIVE ProbeArguments(_)
\* Not ProbeTypes: Test takes the comma from what was read, and not from the lexer.
ProbeArguments(p) ==
  LET q == ProbeType(p) IN IF q.yes /\ q.la = "," THEN ProbeArguments(MoveNext(q)) ELSE q

ProbeInstantiation(p) ==
  LET q == Probe(ProbeArguments(ProbeNext([p EXCEPT !.yes = TRUE])), ">")
      r == IF q.yes /\ q.la = "::" THEN ProbeNext(q) ELSE Probe(q, "(")
  IN  [r EXCEPT !.la = p.la]

-----------------------------------------------------------------------------
(* Types.                                                                  *)

ParseSymbol(p) ==
  LET q == MatchText(IF p.la = "::" THEN MoveNext(p) ELSE p, "identifier")
  IN  Make("Symbol", p, IF q.la \in {".", "::"} THEN MatchText(MoveNext(q), "identifier") ELSE q)

RECURSIVE Commas(_)
Commas(p) == IF p.la = "," THEN Commas(MoveNext(Push(p, None))) ELSE p

\* The dimensions after an element type; with limits they may have capacities.
\* What is on the stack above base are those of brackets not yet closed, which
\* go with the next ones.
RECURSIVE Dims(_, _, _)
Dims(p, base, limits) ==
  IF p.la # "[" THEN [p EXCEPT !.st = base.st]
  ELSE LET q == Commas(MoveNext(p))
           close(r) == LET d == Make("Dims", base, r) IN Dims(d, d, limits)
       IN  IF q.la = "]" THEN close(MoveNext(Push(q, None)))
           ELSE IF limits /\ Len(q.st) = Len(p.st) THEN close(Match(List(q, "Expression"), "]"))
           ELSE Dims(q, base, limits)

\* Mutant: the last dimensions are those of the outermost array.
ArrayOf_Outer(p, q) ==
  LET on == SubSeq(q.st, Len(p.st) + 1, Len(q.st))
      type == FoldLeft(LAMBDA t, d : <<"ArrayType", <<t>> \o d[2]>>, Head(on), Tail(on))
  IN  [q EXCEPT !.st = Append(SubSeq(@, 1, Len(p.st)), type)]

\* The last dimensions are those of the innermost array.
ArrayOf(p, q) ==
  LET on == SubSeq(q.st, Len(p.st) + 1, Len(q.st))
      type == FoldLeft(LAMBDA t, d : <<"ArrayType", <<t>> \o d[2]>>, Head(on), Reverse(Tail(on)))
  IN  [q EXCEPT !.st = Append(SubSeq(@, 1, Len(p.st)), type)]

ParseAtomType(p) ==
  CASE p.la \in Primitives ->
         MoveNext(Push(p, Leaf(IF p.la = "int" THEN "i32" ELSE p.la)))
    [] p.la \in Identifiers ->
         LET q == ParseSymbol(p)
         IN  Make("Type", p, IF q.la = "<" THEN Do(q, <<"<", "Types", ">">>) ELSE q)
    [] p.la \in {"in", "out", "chan"} -> Make(p.la, p, Do(MoveNext(p), <<"<", "Type", ">">>))
    [] p.la = "(" ->
         LET q == MoveNext(p)
             params == Make("Params", q, IF q.la = ")" THEN MoveNext(q)
                                         ELSE Match(List(q, "TypeOrVargs"), ")"))
         IN  Make("FunctionPrototype", p,
                  LET r == Match(params, "->") IN Make("Types", r, List(r, "Type")))
    [] OTHER -> Fail(p)

ParseType(p) ==
  LET q == ParseAtomType(p)
      r == Dims(q, q, FALSE)
  IN  IF q.la # "[" THEN q ELSE IF Len(r.st) = Len(q.st) THEN Fail(r) ELSE ArrayOf(p, r)

\* The outer array has capacities in all of its dimensions or in none.
ParseArrayTypeMaybeWithLimits(p) ==
  LET q == ParseAtomType(p)
      r == Dims(q, q, TRUE)
      outer == r.st[Len(q.st) + 1][2]
      none == {i \in DOMAIN outer : outer[i] = None}
  IN  IF Len(r.st) = Len(q.st) \/ none \notin {{}, DOMAIN outer} THEN Fail(r) ELSE ArrayOf(p, r)

-----------------------------------------------------------------------------
(* Expressions.                                                            *)

PrefixOps == {"!", "~", "-", "<-"}
kUnaryPrio == 110
Priority ==
  [t \in {"*", "/", "%", "<-"} |-> 100] @@ [t \in {"+", "-"} |-> 90] @@ [t \in {"<<", ">>"} |-> 70]
    @@ [t \in {"==", "!=", "<", "<=", ">", ">="} |-> 60] @@ [t \in {"^", "&"} |-> 40]
    @@ [t \in {"|"} |-> 30] @@ [t \in {"&&"} |-> 20] @@ [t \in {"||"} |-> 10]

PriorityOf(op) == IF op \in DOMAIN Priority THEN Priority[op] ELSE 0

RECURSIVE ParseExpression(_, _)
RECURSIVE Operators(_, _, _)

\* Mutant: an operator of the priority of the limit goes on.
Operators_Right(p, q, limit) ==
  IF q.op = "unset" THEN Fail(q)
  ELSE IF PriorityOf(q.op) < limit \/ PriorityOf(q.op) = 0 THEN q
  ELSE Operators(p, Make(q.op, p, ParseExpression(MoveNext(q), PriorityOf(q.op))), limit)

\* q.op is the operator that follows what was parsed from p to q.  After a
\* unary expression it is a variable that was never set: nothing is known.
Operators(p, q, limit) ==
  IF q.op = "unset" THEN Fail(q)
  ELSE IF PriorityOf(q.op) <= limit THEN q
  ELSE Operators(p, Make(q.op, p, ParseExpression(MoveNext(q), PriorityOf(q.op))), limit)

ParseExpression(p, limit) ==
  IF p.la \in PrefixOps
  THEN [Make(p.la, p, ParseExpression(MoveNext(p), kUnaryPrio)) EXCEPT !.op = "unset"]
  ELSE LET q == Parse("Simple", p) IN Operators(p, [q EXCEPT !.op = q.la], limit)

ParseSimple(p) ==
  CASE p.la \in {"true", "false", "Unit"} -> Take(p)
    [] p.la = "if" -> Parse("IfExpression", p)
    [] p.la = "try" -> Parse("TryCatchExpression", p)
    [] p.la = "when" -> Parse("WhenExpression", p)
    [] OTHER -> Parse("Suffixed", p)

Arguments(p) ==
  LET q == Match(p, "(") IN IF q.la = ")" THEN MoveNext(q) ELSE Match(List(q, "Expression"), ")")

\* What may follow an expression, and what is made of them.
Suffix ==
  ("." :> [kind |-> "Dot", rest |-> <<".", "identifier">>])
    @@ ("::" :> [kind |-> "Resolving", rest |-> <<"::", "identifier">>])
    @@ ("[" :> [kind |-> "IndexedGet", rest |-> <<"[", "Expressions", "]">>])
    @@ ("(" :> [kind |-> "Calling", rest |-> <<"Arguments">>])
    @@ ("is" :> [kind |-> "Testing", rest |-> <<"is", "Type">>])
    @@ ("as" :> [kind |-> "Casting", rest |-> <<"as", "Type">>])

RECURSIVE ParseSuffixes(_, _)
\* p is the state before the expression, q the one after what is read of it.
ParseSuffixes(p, q) ==
  LET r == ProbeInstantiation(q)
      next(kind, s, symbols) == ParseSuffixes(p, Make(kind, p, Do(s, symbols)))
  IN  CASE q.la = "<" ->
             IF ~(IsIdentifier(Top(q)) \/ IsDot(Top(q))) THEN q
             ELSE IF r.yes THEN next("Instantiation", r, <<"<", "Types", ">">>) ELSE r
        [] q.la \in DOMAIN Suffix -> next(Suffix[q.la].kind, q, Suffix[q.la].rest)
        [] OTHER -> q

RECURSIVE ParseArrayInitializer(_, _)
RECURSIVE ArrayParts(_, _)
ArrayParts(p, limit) ==
  LET q == ParseArrayInitializer(p, limit)
  IN  IF q.la = "," THEN ArrayParts(MoveNext(q), limit) ELSE q

\* An array initializer after its type, which may be missing.
ArrayBody(p, limit) ==
  LET q == Match(p, "{")
  IN  Match(CASE q.la = "{" -> ArrayParts(q, limit - 1)
              [] q.la = "}" -> q
              [] OTHER -> List(q, "Expression"), "}")

ParseArrayInitializer(p, limit) ==
  IF limit = 0 THEN Fail(p) ELSE Make("ArrayInitializer", p, ArrayBody(Push(p, None), limit))

kMaxArrayInitializerDims == 99

RECURSIVE DimensionCount(_)
DimensionCount(t) ==
  IF t[1] = "ArrayType" THEN Len(t[2]) - 1 + DimensionCount(t[2][1]) ELSE 0

\* After a type with capacities there is a value to fill the array with.
QualifiedArray(p) ==
  LET q == ParseArrayTypeMaybeWithLimits(MoveNext(p))
  IN  IF Failed(q) THEN q
      ELSE IF Top(q)[2][2] # None
           THEN Make("ArrayFilling", p, Do(q, <<"(", "Expression", ")">>))
           ELSE Make("ArrayInitializer", p, ArrayBody(q, DimensionCount(Top(q))))

ParsePrimary(p) ==
  CASE p.la \in Identifiers \cup Literals -> Take(p)
    [] p.la = "chan" -> Make("ChannelInitializer", p, Do(p, <<"Type", "(", "Expression", ")">>))
    [] p.la = "(" -> Parse("ParenOrLambdaLiteral", p)
    [] p.la = "{" -> ParseArrayInitializer(p, kMaxArrayInitializerDims)
    [] p.la = "@" -> QualifiedArray(p)
    [] p.la = "prefix" -> Parse("StringTemplate", p)
    [] OTHER -> Fail(p)

\* The rest of a lambda whose parameters are on the stack since p.
Lambda(p, q) == Make("LambdaLiteral", p, Do(Make("Params", p, q), <<"->", "Statement">>))

RECURSIVE Remain(_)
Remain(p) ==
  LET q == Match(p, ",")
  IN  IF p.la = ")" THEN MoveNext(p)
      ELSE IF Failed(q) THEN q
      ELSE IF q.la = "..." THEN Match(Take(q), ")")
      ELSE Remain(Make("Item", q, Optional(MatchText(q, "identifier"), ":", <<":", "Type">>)))

ParseRemainLambdaLiteral(p, q) == Lambda(p, Remain(q))

ParseParenOrLambdaLiteral(p) ==
  LET q == Match(p, "(")
      r == IF q.la \in Identifiers THEN Take(q) ELSE Parse("Expression", q)
  IN  CASE q.la = ")" -> Lambda(p, MoveNext(q))
        [] q.la = "..." -> Lambda(p, Match(Take(q), ")"))
        [] q.la \in Identifiers /\ r.la = ":" ->
             ParseRemainLambdaLiteral(p, Make("Item", q, Do(r, <<":", "Type">>)))
        [] q.la \notin {")", "..."} /\ r.la = "," ->
             IF IsIdentifier(Top(r)) THEN ParseRemainLambdaLiteral(p, Make("Item", q, Push(r, None)))
                                     ELSE Fail(r)
        [] OTHER -> Match(r, ")")

ParseIfExpression(p) ==
  Make("IfExpression", p, Optional(Do(p, <<"if", "Condition", "Statement">>),
                                   "else", <<"else", "Statement">>))

\* Between limits, of a type, of a shape, or one of some values.
ParseCase(p) ==
  LET q == Parse("Expression", p)
      then(kind, r) == Make(kind, p, Do(r, <<"->", "Statement">>))
      low == Do(p, <<"in", "Expression">>)
  IN  CASE p.la = "in" ->
             then(IF low.la = ".." THEN "BetweenToCase" ELSE "BetweenUntilCase",
                  Parse("Expression", IF low.la = ".." THEN MoveNext(low) ELSE Match(low, "until")))
        [] p.la # "in" /\ q.la = ":" ->
             IF IsIdentifier(Top(q)) THEN then("TypeTestingCase", Do(q, <<":", "Type">>)) ELSE Fail(q)
        [] p.la # "in" /\ q.la = "{" ->
             IF IsIdentifier(Top(q)) \/ (IsDot(Top(q)) /\ IsIdentifier(Top(q)[2][1]))
             THEN then("StructMatchingCase", Match(List(MoveNext(q), "identifier"), "}"))
             ELSE Fail(q)
        [] OTHER -> then("ExpectValuesCase", IF q.la = "," THEN List(MoveNext(q), "Expression") ELSE q)

RECURSIVE Cases(_)
Cases(p) ==
  CASE p.la = "}" -> MoveNext(p)
    [] p.la = "else" -> Match(Make("Else", p, Do(p, <<"else", "->", "Statement">>)), "}")
    [] Failed(p) -> p
    [] OTHER -> Cases(ParseCase(p))

ParseWhenExpression(p) ==
  LET q == Match(p, "when")
      r == IF q.la = "(" THEN Do(q, <<"Condition">>) ELSE Push(Push(q, None), None)
  IN  Make("WhenExpression", p, Cases(Match(r, "{")))

RECURSIVE Catches(_)
Catches(p) ==
  IF p.la # "catch" THEN p
  ELSE Catches(Make("CatchClause", p,
                    Do(p, <<"catch", "(", "identifier", ":", "Type", ")", "Block">>)))

ParseTryCatchExpression(p) ==
  LET q == Catches(Do(p, <<"try", "Block">>))
      r == Make("TryCatchExpression", p, Optional(q, "finally", <<"finally", "Block">>))
  IN  IF Len(Top(r)[2]) > 2 \/ q.la = "finally" THEN r ELSE Fail(r)

RECURSIVE Parts(_)
Parts(p) ==
  CASE p.la = "part" -> Parts(Take(p))
    [] p.la \in Identifiers -> Parts(Parse("Expression", p))
    [] p.la = "${" -> Parts(Do(p, <<"${", "Expression", "}$">>))
    [] p.la = "suffix" -> Take(p)
    [] p.la = "end" -> MoveNext(p)
    [] OTHER -> Fail(p)

ParseStringTemplate(p) == Make("StringTemplate", p, Parts(MatchText(p, "prefix")))

-----------------------------------------------------------------------------
(* Statements.                                                             *)

ParseVariableDeclaration(p) ==
  LET q == IF p.la = "volatile" THEN Match(Take(p), "var")
           ELSE IF p.la = "val" THEN Take(p) ELSE MatchText(p, "var")
      items == Match(Make("Items", q, List(q, "NameAndType")), "=")
  IN  Make("VariableDeclaration", p, Make("List", items, List(items, "Expression")))

\* What is an Expression of ast.h is none of these.
NoExpressions ==
  {"Block", "Return", "Throw", "RunCoroutine", "WhileLoop", "UnlessLoop", "DoWhileLoop",
   "DoUnlessLoop", "ForeachLoop", "ForeachUntil", "ForeachRange", "Break", "Continue"}

ParseInitializerIfExistsWithCondition(p) ==
  LET q == Parse("Statement", p)
  IN  IF Failed(q) THEN q
      ELSE IF Top(q)[1] \in {"Assignment", "VariableDeclaration"} THEN Do(q, <<";", "Expression">>)
      ELSE IF Top(q)[1] \in NoExpressions THEN Fail(q)
      ELSE [q EXCEPT !.st = Append(SubSeq(@, 1, Len(p.st)), None) \o <<Top(q)>>]

ParseReturn(p) ==
  LET q == MoveNext(p)
  IN  Make("Return", p, CASE q.la = "}" -> q
                          [] q.la = ";" -> MoveNext(q)
                          [] OTHER -> List(q, "Expression"))

ParseDoConditionLoop(p) ==
  LET q == Do(p, <<"do", "Block">>)
      r == IF q.la = "while" THEN MoveNext(q) ELSE Match(q, "unless")
  IN  Make(IF q.la = "while" THEN "DoWhileLoop" ELSE "DoUnlessLoop", p,
           Do(r, <<"(", "Expression", ")">>))

ParseRunStatement(p) ==
  LET q == Do(p, <<"run", "Expression">>)
  IN  IF ~Failed(q) /\ Top(q)[1] = "Calling" THEN Make("RunCoroutine", p, q) ELSE Fail(q)

ParseForeachLoop(p) ==
  LET q == Do(p, <<"for", "(", "identifier", "in", "Expression">>)
      kind == CASE q.la = "until" -> "ForeachUntil"
                [] q.la = ".." -> "ForeachRange"
                [] OTHER -> "ForeachLoop"
      r == IF kind = "ForeachLoop" THEN q ELSE Parse("Expression", MoveNext(q))
  IN  Make(kind, p, Do(r, <<")", "Block">>))

ParseBlock(p) == Make("Block", p, Until(Match(p, "{"), "Statement", "}"))

\* Expressions on their own, several of them, or an assignment to them.
ParseSimpleStatement(p) ==
  LET q == List(p, "Expression")
      l == Make("List", p, q)
      r == MoveNext(l)
  IN  IF q.la = "=" THEN Make("Assignment", p, Make("List", r, List(r, "Expression")))
      ELSE IF Len(q.st) > Len(p.st) + 1 THEN l ELSE q

ParseStatement(p) ==
  CASE p.la = "{" -> ParseBlock(p)
    [] p.la \in {"volatile", "val", "var"} -> ParseVariableDeclaration(p)
    [] p.la = "return" -> ParseReturn(p)
    [] p.la = "throw" -> Make("Throw", p, Do(p, <<"throw", "Expression">>))
    [] p.la = "run" -> ParseRunStatement(p)
    [] p.la = "while" -> Make("WhileLoop", p, Do(p, <<"while", "Condition", "Block">>))
    [] p.la = "unless" -> Make("UnlessLoop", p, Do(p, <<"unless", "Condition", "Block">>))
    [] p.la = "for" -> ParseForeachLoop(p)
    [] p.la = "do" -> ParseDoConditionLoop(p)
    [] p.la = "break" -> Make("Break", p, MoveNext(p))
    [] p.la = "continue" -> Make("Continue", p, MoveNext(p))
    [] OTHER -> ParseSimpleStatement(p)

-----------------------------------------------------------------------------
(* Declarations and definitions.                                           *)

RECURSIVE ParseStaticLiteral(_)
RECURSIVE ParseAnnotation(_)

ParseStaticArrayLiteral(p) ==
  LET q == Match(p, "{")
  IN  Make("StaticArray", p, IF q.la = "}" THEN MoveNext(q) ELSE Match(List(q, "Static"), "}"))

ParseStaticLiteral(p) ==
  CASE p.la \in Literals \cup {"true", "false"} -> Take(p)
    [] p.la = "{" -> ParseStaticArrayLiteral(p)
    [] OTHER -> Fail(p)

\* A literal or, where a name begins, an annotation without its @.
ParseStatic(p) == IF p.la \in Identifiers THEN ParseAnnotation(p) ELSE ParseStaticLiteral(p)

ParseAnnotation(p) ==
  LET q == ParseSymbol(p)
  IN  Make("Annotation", p, IF q.la = "(" THEN Match(List(MoveNext(q), "AnnotationField"), ")") ELSE q)

RECURSIVE Annotations(_)
Annotations(p) == IF p.la = "@" THEN Annotations(ParseAnnotation(MoveNext(p))) ELSE p

ParseAnnotationDeclaration(p) ==
  IF p.la = "@" THEN Make("AnnotationDeclaration", p, Annotations(p)) ELSE Push(p, None)

ParseDeclarationAccess(p) == IF p.la \in Accesses THEN Take(p) ELSE Push(p, None)

\* After the `...' both the loop and what follows it match a `)'.
ParseParam(p) ==
  IF p.la = "..." THEN Vargs(Match(Take(p), ")"))
  ELSE Make("Param", p, Do(ParseAnnotationDeclaration(p), <<"identifier", ":", "Type">>))

ParseParams(p) ==
  LET q == Match(p, "(")
  IN  Make("Params", p, IF q.la = ")" THEN MoveNext(q) ELSE Match(List(q, "Param"), ")"))

ParseFunctionPrototype(p) ==
  LET q == ParseParams(p)
  IN  Make("Prototype", p, Make("Types", q, IF q.la = ":" THEN List(MoveNext(q), "Type") ELSE q))

ParseGenericParameters(p) ==
  IF p.la # "<" THEN Push(p, None)
  ELSE Make("Generics", p, Match(List(MoveNext(p), "NameAndType"), ">"))

ParseFunctionDeclaration(p) ==
  LET decorated == p.la \in {"native", "override", "abstract"}
      q == Do(IF decorated THEN Take(p) ELSE Push(p, None),
              <<"fun", "Generics", "identifier", "FunctionPrototype">>)
      reduce == q.la = "->"
      r == IF reduce THEN MoveNext(q) ELSE q
      body == IF p.la \in {"native", "abstract"} THEN Push(r, None)
              ELSE IF reduce \/ r.la = "{" THEN Parse("Statement", r) ELSE Push(r, None)
  IN  Make(IF reduce THEN "ReduceFunction" ELSE "FunctionDeclaration", p, body)

\* A method of an interface has no body.
ParseMethod(p) ==
  LET q == ParseFunctionDeclaration(ParseAnnotationDeclaration(p))
  IN  IF Failed(q) \/ Last(Top(q)[2]) # None THEN Fail(q) ELSE Make("Method", p, q)

ParseInterfaceDefinition(p) ==
  LET q == ParseMethod(Do(p, <<"interface", "identifier", "Generics", "{">>))
  IN  Make("InterfaceDefinition", p, Until(q, "Method", "}"))

ParseAnnotationDefinition(p) ==
  Make("AnnotationDefinition", p,
       Until(Do(p, <<"annotation", "identifier", "{">>), "AnnotationMember", "}"))

\* The access and the annotations of a variable are dropped in an object.
ParseMember(p, keep) ==
  LET q == ParseDeclarationAccess(ParseAnnotationDeclaration(p))
      drop == Push(Push([q EXCEPT !.st = p.st], None), None)
  IN  Make("Member", p,
           IF q.la \in {"volatile", "val", "var"}
           THEN ParseVariableDeclaration(IF keep THEN q ELSE drop)
           ELSE ParseFunctionDeclaration(q))

ParseObjectDeclaration(p) ==
  Make("ObjectDeclaration", p, Until(Do(p, <<"object", "identifier", "{">>), "ObjectMember", "}"))

ParseEnumMember(p) ==
  Make("Member", p,
       ParseFunctionDeclaration(ParseDeclarationAccess(ParseAnnotationDeclaration(p))))

ParseEnumValue(p) ==
  LET q == MatchText(p, "identifier")
  IN  Make("EnumValue", p, IF q.la = "(" THEN Do(q, <<"(", "Types", ")">>) ELSE Push(q, Leaf("unit")))

ParseEnumDefinition(p) ==
  LET q == Do(p, <<"enum", "identifier", "Generics", "{">>)
  IN  Make("EnumDefinition", p, Until(List(q, "EnumValue"), "EnumMember", "}"))

\* A parameter of a constructor, which may be a field; its access is not used.
ParseConstructorParameter(p) ==
  LET q == ParseAnnotationDeclaration(p)
      r == [ParseDeclarationAccess(q) EXCEPT !.st = p.st]
      var == IF r.la = "volatile" THEN Match(Take(r), "var")
             ELSE IF r.la \in {"val", "var"} THEN Take(r) ELSE Push(r, None)
  IN  Make("Parameter", p, Do(var, <<"identifier", ":", "Type">>))

\* The expression of a symbol, with type arguments if there are any.
SuperCallee(p) ==
  LET q == ParseSymbol(p)
      names == Top(q)[2]
      callee == IF Len(names) = 1 THEN names[1] ELSE <<"Dot", names>>
      r == [q EXCEPT !.st = Append(p.st, callee)]
  IN  IF Failed(q) THEN q
      ELSE IF q.la = "<" THEN Make("Instantiation", p, Do(r, <<"<", "Types", ">">>)) ELSE r

\* The type that such an expression is, when it is not called.
Koncept(t) ==
  LET callee == IF t[1] = "Instantiation" THEN t[2][1] ELSE t
  IN  <<"Type", <<<<"Symbol", IF IsDot(callee) THEN callee[2] ELSE <<callee>>>>>>
                  \o (IF t[1] = "Instantiation" THEN Tail(t[2]) ELSE <<>>)>>

\* A base class that is called, or a first interface.  A struct must call.
ParseSuper(p, koncepts) ==
  LET q == SuperCallee(p)
      r == IF Failed(q) THEN q
           ELSE IF q.la = "(" THEN LET c == Make("Calling", p, Arguments(q)) IN Make("Koncepts", c, c)
           ELSE IF ~koncepts THEN Fail(q)
           ELSE LET none == Push(p, None)
                IN  Make("Koncepts", none, Push([q EXCEPT !.st = none.st], Koncept(Top(q))))
      first == Top(r)[2]
      open == [r EXCEPT !.st = SubSeq(@, 1, Len(@) - 1) \o first]
      at == [r EXCEPT !.st = SubSeq(@, 1, Len(@) - 1)]
  IN  IF koncepts /\ r.la = "," THEN Make("Koncepts", at, List(MoveNext(open), "Koncept")) ELSE r

ParseIncompletableDefinition(p, koncepts) ==
  LET q == ParseGenericParameters(p)
      params == IF q.la = "("
                THEN Make("Params", q, Match(List(MoveNext(q), "ConstructorParameter"), ")"))
                ELSE Push(q, None)
      super == IF params.la = ":" THEN ParseSuper(MoveNext(params), koncepts)
               ELSE Push(Push(params, None), <<"Koncepts", <<>>>>)
  IN  IF super.la = "{" THEN Until(MoveNext(super), "ClassMember", "}") ELSE super

ParseStructDefinition(p) ==
  Make("StructDefinition", p, ParseIncompletableDefinition(Do(p, <<"struct", "identifier">>), FALSE))

ParseClassDefinition(p) ==
  Make("ClassDefinition", p, ParseIncompletableDefinition(Do(p, <<"class", "identifier">>), TRUE))

ParseOutsideStatement(p) ==
  CASE p.la = "interface" -> ParseInterfaceDefinition(p)
    [] p.la = "object" -> ParseObjectDeclaration(p)
    [] p.la = "struct" -> ParseStructDefinition(p)
    [] p.la = "class" -> ParseClassDefinition(p)
    [] p.la = "enum" -> ParseEnumDefinition(p)
    [] p.la = "annotation" -> ParseAnnotationDefinition(p)
    [] p.la \in {"native", "fun"} -> ParseFunctionDeclaration(p)
    [] p.la \in {"volatile", "val", "var"} -> ParseVariableDeclaration(p)
    [] OTHER -> Fail(p)

\* An alias that is neither a name nor a star is no error.
ParseAlias(p) ==
  LET q == MoveNext(p)
  IN  IF p.la # "as" THEN Push(p, None)
      ELSE IF Kind(q.la) \in {"identifier", "*"} THEN Take(q) ELSE Push(q, None)

ParseImportEntry(p) == Make("ImportEntry", p, ParseAlias(MatchText(p, "'s'")))

ParseImportStatement(p) ==
  LET q == Match(p, "import")
  IN  IF q.la = "'s'" THEN ParseImportEntry(q) ELSE Until(Match(q, "{"), "ImportEntry", "}")

\* A definition of an annotation must have an access or annotations itself.
ParseOutside(p) ==
  LET q == ParseAnnotationDeclaration(p)
      r == IF p.la = "@" \/ p.la \in Accesses THEN ParseDeclarationAccess(q) ELSE Push(q, None)
  IN  CASE p.la = "import" -> ParseImportStatement(p)
        [] p.la = "annotation" -> Fail(p)
        [] OTHER -> Make("Outside", p, ParseOutsideStatement(r))

ParseFile(p) == Make("FileUnit", p, Until(Do(p, <<"package", "identifier">>), "Outside", "EOF"))

-----------------------------------------------------------------------------
Parse(s, p) ==
  CASE s = "identifier" -> MatchText(p, s)
    [] s = "Type" -> ParseType(p)
    [] s = "Types" -> List(p, "Type")
    [] s = "TypeOrVargs" -> IF p.la = "..." THEN Vargs(Take(p)) ELSE ParseType(p)
    [] s = "Koncept" ->
         LET q == ParseSymbol(p)
         IN  Make("Type", p, IF q.la = "<" THEN Do(q, <<"<", "Types", ">">>) ELSE q)
    [] s = "NameAndType" ->
         Make("Item", p, Optional(MatchText(p, "identifier"), ":", <<":", "Type">>))
    [] s = "Expression" -> ParseExpression(p, 0)
    [] s = "Expressions" -> List(p, "Expression")
    [] s = "Arguments" -> Arguments(p)
    [] s = "Simple" -> ParseSimple(p)
    [] s = "Suffixed" -> LET q == ParsePrimary(p) IN IF Failed(q) THEN q ELSE ParseSuffixes(p, q)
    [] s = "ParenOrLambdaLiteral" -> ParseParenOrLambdaLiteral(p)
    [] s = "IfExpression" -> ParseIfExpression(p)
    [] s = "WhenExpression" -> ParseWhenExpression(p)
    [] s = "TryCatchExpression" -> ParseTryCatchExpression(p)
    [] s = "StringTemplate" -> ParseStringTemplate(p)
    [] s = "Condition" -> Match(ParseInitializerIfExistsWithCondition(Match(p, "(")), ")")
    [] s = "Statement" -> ParseStatement(p)
    [] s = "Block" -> ParseBlock(p)
    [] s = "Static" -> ParseStatic(p)
    [] s = "AnnotationField" ->
         Make("Field", p, Do(p, <<"identifier", "=", "Static">>))
    [] s = "AnnotationMember" ->
         Make("AnnotationMember", p,
              LET q == Do(p, <<"identifier", ":", "Type">>)
              IN  IF q.la = "default" THEN ParseStaticLiteral(MoveNext(q)) ELSE Push(q, None))
    [] s = "Generics" -> ParseGenericParameters(p)
    [] s = "Param" -> ParseParam(p)
    [] s = "FunctionPrototype" -> ParseFunctionPrototype(p)
    [] s = "Method" -> ParseMethod(p)
    [] s = "ClassMember" -> ParseMember(p, TRUE)
    [] s = "ObjectMember" -> ParseMember(p, FALSE)
    [] s = "EnumValue" -> ParseEnumValue(p)
    [] s = "EnumMember" -> ParseEnumMember(p)
    [] s = "ConstructorParameter" -> ParseConstructorParameter(p)
    [] s = "Outside" -> ParseOutside(p)
    [] s = "ImportEntry" -> ParseImportEntry(p)
    [] OTHER -> Match(p, s)

\* What a source of one file is read as: its tree, or Leaf("error").
Read(ts) == LET p == ParseFile(SwitchInput(ts)) IN IF Failed(p) THEN Leaf("error") ELSE Top(p)
=============================================================================
