------------------------------ MODULE MCParsing ------------------------------
(* Syntax trees for the parser: every class of ast.h around every other in   *)
(* a file of its own, and all expressions of up to three operators, one for  *)
(* each priority.                                                            *)

(***************************************************************************)
(* The sources of the syntax trees, as the grammar in the comments of      *)
(* parser.cc derives them.                                                 *)
(*                                                                         *)
(* A source has marks, which Tokens takes away again: `group' is the       *)
(* parenthesis around an operand, `lt' the operator <, `array' the { of an *)
(* array,                                                             `!!' *)
(* stands where something ends that what follows could go on with, `!if'   *)
(* where an else would be taken for one of an if without, and `!s' where a *)
(* statement begins.                                                       *)
(***************************************************************************)
EXTENDS Parsing

-----------------------------------------------------------------------------
(* Where a source is not read as it was derived.                           *)

\* What goes on with an expression or with a list of expressions.
Continuing ==
  DOMAIN Priority \cup DOMAIN Suffix \cup {"lt", "group", ",", "="}

Ends == {"!!", "!if", "!t"}
Marks == Ends \cup {"!s"}

\* The grammar does not say where a statement, a lambda or a list of types
\* ends, and newlines are not tokens: what could go on with it does.
RunsOn(ts) ==
  \E i \in DOMAIN ts : ts[i] \in Ends /\
    \E j \in DOMAIN ts :
      /\ i < j /\ \A n \in i..(j - 1) : ts[n] \in Marks
      /\ ts[j] \in CASE ts[i] = "!if" -> {"else"} [] ts[i] = "!t" -> {"[", ".", "::", "lt"} [] OTHER -> Continuing

\* The parser takes a name after a parenthesis for the parameter of a lambda.
NameInGroup(ts) ==
  \E i \in 1..(Len(ts) - 1) : ts[i] = "group" /\ ts[i + 1] \in Identifiers

\* What begins a statement is a block.
ArrayAtBegin(ts) == \E i \in 1..(Len(ts) - 1) : ts[i] = "!s" /\ ts[i + 1] = "array"

\* ProbeInstantiation takes the comma after what may be a type with Test.
CommaAfterLess(ts) ==
  \E i \in 1..(Len(ts) - 2) : ts[i] = "lt" /\ ts[i + 1] \in Identifiers /\ ts[i + 2] = ","

Misread(ts) == RunsOn(ts) \/ NameInGroup(ts) \/ ArrayAtBegin(ts) \/ CommaAfterLess(ts)

Tokens(ts) ==
  LET plain(t) == CASE t = "group" -> "(" [] t = "lt" -> "<" [] t = "array" -> "{" [] OTHER -> t
      s == SelectSeq(ts, LAMBDA t : t \notin Marks)
  IN  [i \in DOMAIN s |-> plain(s[i])]

-----------------------------------------------------------------------------
IsOperation(t) == t[2] # <<>> /\ (t[1] \in DOMAIN Priority \/ t[1] \in PrefixOps)

\* What has no suffix: see ParseSimple.
Simples == {"true", "false", "Unit", "IfExpression", "WhenExpression", "TryCatchExpression"}

\* `<-' and `-' are binary and unary operators.
Level(t) ==
  CASE ~IsOperation(t) -> IF t[1] \in Simples THEN 119 ELSE 120
    [] Len(t[2]) = 1 -> kUnaryPrio
    [] OTHER -> Priority[t[1]]

Loops ==
  ("WhileLoop" :> "while") @@ ("UnlessLoop" :> "unless")
    @@ ("DoWhileLoop" :> "while") @@ ("DoUnlessLoop" :> "unless")

Definitions ==
  ("InterfaceDefinition" :> "interface") @@ ("AnnotationDefinition" :> "annotation")
    @@ ("ObjectDeclaration" :> "object") @@ ("EnumDefinition" :> "enum")
    @@ ("StructDefinition" :> "struct") @@ ("ClassDefinition" :> "class")

RECURSIVE Source(_)

Each(ts, f(_)) == FoldLeft(LAMBDA s, t : s \o f(t), <<>>, ts)
Sources(ts) == Each(ts, Source)

\* With commas between them.
Listed(ts) ==
  IF ts = <<>> THEN <<>> ELSE Source(ts[1]) \o Each(Tail(ts), LAMBDA t : <<",">> \o Source(t))

Statements(ts) == Each(ts, LAMBDA t : <<"!s">> \o Source(t) \o <<"!!">>)
Begin(t) == <<"!s">> \o Source(t)

\* What may be missing, after the token that announces it.
Maybe(token, t) == IF t = None THEN <<>> ELSE <<token>> \o Source(t)

\* An operand: in parentheses if it binds less than it has to.
Operand(t, level) ==
  IF Level(t) >= level THEN Source(t) ELSE <<"group">> \o Source(t) \o <<")">>

\* (init; condition)
Conditioned(init, condition) ==
  <<"(">> \o (IF init = None THEN Begin(condition) ELSE Source(init) \o <<";">> \o Source(condition))
    \o <<")">>

In(open, ts, close) == <<open>> \o ts \o <<close>>

ExpressionSource(t) ==
  LET k == t[2]
      rest == Tail(k)
      s(i) == Source(k[i])
      callee == Operand(k[1], 120)
  IN  CASE t[1] = "Dot" -> callee \o <<".">> \o s(2)
        [] t[1] = "Resolving" -> callee \o <<"::">> \o s(2)
        [] t[1] = "IndexedGet" -> callee \o In("[", Listed(rest), "]")
        [] t[1] = "Calling" -> callee \o In("(", Listed(rest), ")")
        [] t[1] = "Instantiation" -> callee \o In("<", Listed(rest), ">")
        [] t[1] = "Testing" -> callee \o <<"is">> \o s(2) \o <<"!t">>
        [] t[1] = "Casting" -> callee \o <<"as">> \o s(2) \o <<"!t">>
        [] t[1] = "ArrayInitializer" -> (IF k[1] = None THEN In("array", Listed(rest), "}")
                                         ELSE <<"@">> \o s(1) \o In("{", Listed(rest), "}"))
        [] t[1] = "ArrayFilling" -> <<"@">> \o s(1) \o In("(", s(2), ")")
        [] t[1] = "ChannelInitializer" -> s(1) \o In("(", s(2), ")")
        [] t[1] = "LambdaLiteral" -> In("(", Listed(k[1][2]), ")") \o <<"->">> \o Begin(k[2]) \o <<"!!">>
        [] t[1] = "IfExpression" ->
             <<"if">> \o Conditioned(k[1], k[2]) \o Begin(k[3])
               \o (IF k[4] = None THEN <<"!if">> ELSE <<"else">> \o Begin(k[4])) \o <<"!!">>
        [] t[1] = "WhenExpression" ->
             <<"when">> \o (IF k[2] = None THEN <<>> ELSE Conditioned(k[1], k[2]))
               \o In("{", Each(SubSeq(k, 3, Len(k)), LAMBDA c : Source(c) \o <<"!!">>), "}")
        [] t[1] = "Else" -> <<"else", "->">> \o Begin(k[1])
        [] t[1] = "BetweenToCase" -> <<"in">> \o s(1) \o <<"..">> \o s(2) \o <<"->">> \o Begin(k[3])
        [] t[1] = "BetweenUntilCase" -> <<"in">> \o s(1) \o <<"until">> \o s(2) \o <<"->">> \o Begin(k[3])
        [] t[1] = "TypeTestingCase" -> s(1) \o <<":">> \o s(2) \o <<"->">> \o Begin(k[3])
        [] t[1] = "StructMatchingCase" ->
             s(1) \o In("{", Listed(Front(rest)), "}") \o <<"->">> \o Begin(Last(k))
        [] t[1] = "ExpectValuesCase" -> Listed(Front(k)) \o <<"->">> \o Begin(Last(k))
        [] t[1] = "TryCatchExpression" ->
             <<"try">> \o s(1) \o Sources(Front(rest)) \o Maybe("finally", Last(k))
        [] t[1] = "CatchClause" -> <<"catch", "(">> \o s(1) \o <<":">> \o s(2) \o <<")">> \o s(3)
        [] t[1] = "StringTemplate" ->
             s(1) \o Each(rest, LAMBDA e : IF e[1] \in {"part", "suffix"} THEN Source(e)
                                          ELSE In("${", Source(e), "}$"))
                  \o (IF Last(k)[1] = "suffix" THEN <<>> ELSE <<"end">>)
        [] OTHER -> IF Len(k) = 1 THEN <<t[1]>> \o Operand(k[1], kUnaryPrio)
                    ELSE Operand(k[1], IF Len(k[1][2]) = 1 THEN 119 ELSE Level(t))
                           \o (IF t[1] = "<" THEN <<"lt">> ELSE <<t[1]>>)
                           \o Operand(k[2], IF Len(k[2][2]) = 1 THEN 119 ELSE Level(t) + 1)

StatementSource(t) ==
  LET k == t[2]
      s(i) == Source(k[i])
      word == <<Loops[t[1]]>>
  IN  CASE t[1] = "Block" -> In("{", Statements(k), "}")
        [] t[1] = "List" -> Listed(k)
        [] t[1] = "Assignment" -> s(1) \o <<"=">> \o s(2)
        [] t[1] = "VariableDeclaration" ->
             (IF k[1] = Leaf("volatile") THEN <<"volatile", "var">> ELSE s(1))
               \o Listed(k[2][2]) \o <<"=">> \o s(3)
        [] t[1] = "Return" -> <<"return">> \o (IF k = <<>> THEN <<";">> ELSE Listed(k))
        [] t[1] = "Throw" -> <<"throw">> \o s(1)
        [] t[1] = "RunCoroutine" -> <<"run">> \o s(1)
        [] t[1] \in {"WhileLoop", "UnlessLoop"} -> word \o Conditioned(k[1], k[2]) \o Begin(k[3])
        [] t[1] \in {"DoWhileLoop", "DoUnlessLoop"} ->
             <<"do">> \o s(1) \o word \o In("(", s(2), ")")
        [] t[1] = "ForeachLoop" -> <<"for", "(">> \o s(1) \o <<"in">> \o s(2) \o <<")">> \o s(3)
        [] t[1] = "ForeachUntil" ->
             <<"for", "(">> \o s(1) \o <<"in">> \o s(2) \o <<"until">> \o s(3) \o <<")">> \o s(4)
        [] t[1] = "ForeachRange" ->
             <<"for", "(">> \o s(1) \o <<"in">> \o s(2) \o <<"..">> \o s(3) \o <<")">> \o s(4)
        [] OTHER -> <<IF t[1] = "Break" THEN "break" ELSE "continue">>

RECURSIVE ArraySource(_, _)
\* The dimensions of the outer array come first.
ArraySource(t, dims) ==
  LET rest == Tail(t[2])
      limits == IF rest[1] = None THEN [i \in 1..(Len(rest) - 1) |-> ","] ELSE Listed(rest)
  IN  IF t[1] = "ArrayType" THEN ArraySource(t[2][1], dims \o In("[", limits, "]"))
      ELSE Source(t) \o dims

TypeSource(t) ==
  LET k == t[2]
      s(i) == Source(k[i])
  IN  CASE t[1] = "Symbol" -> IF Len(k) = 1 THEN s(1) ELSE s(1) \o <<".">> \o s(2)
        [] t[1] = "Type" ->
             s(1) \o (IF Len(k) = 1 THEN <<>> ELSE In("<", Listed(Tail(k)), ">"))
        [] t[1] = "FunctionPrototype" ->
             In("(", Listed(k[1][2]), ")") \o <<"->">> \o Listed(k[2][2]) \o <<"!!">>
        [] t[1] = "ArrayType" -> ArraySource(t, <<>>)
        [] OTHER -> <<t[1]>> \o In("<", s(1), ">")

DefinitionSource(t) ==
  LET k == t[2]
      s(i) == Source(k[i])
      body(i) == In("{", Sources(SubSeq(k, i, Len(k))), "}")
      opt(i) == IF k[i] = None THEN <<>> ELSE s(i)
      paren(i) == IF k[i] = None THEN <<>> ELSE In("(", Listed(k[i][2]), ")")
      head == <<Definitions[t[1]]>> \o s(1)
  IN  CASE t[1] = "FileUnit" -> <<"package">> \o Sources(k)
        [] t[1] \in {"Outside", "Member"} -> Sources(SelectSeq(k, LAMBDA x : x # None)) \o <<"!!">>
        [] t[1] = "ImportEntry" -> <<"import">> \o s(1) \o Maybe("as", k[2])
        [] t[1] = "Item" -> s(1) \o Maybe(":", k[2])
        [] t[1] = "Param" -> opt(1) \o s(2) \o <<":">> \o s(3)
        [] t[1] = "Prototype" ->
             In("(", Listed(k[1][2]), ")")
               \o (IF k[2][2] = <<>> THEN <<>> ELSE <<":">> \o Listed(k[2][2]))
        [] t[1] = "Generics" -> In("<", Listed(k), ">")
        [] t[1] \in {"FunctionDeclaration", "ReduceFunction"} ->
             opt(1) \o <<"fun">> \o opt(2) \o s(3) \o s(4)
               \o (IF t[1] = "ReduceFunction" THEN <<"->">> ELSE <<>>) \o opt(5) \o <<"!!">>
        [] t[1] = "Method" -> opt(1) \o s(2)
        [] t[1] \in {"InterfaceDefinition", "EnumDefinition"} ->
             LET values == SelectSeq(Tail(Tail(k)), LAMBDA x : x[1] = "EnumValue")
             IN  head \o opt(2)
                   \o In("{", Listed(values) \o Sources(SubSeq(k, 3 + Len(values), Len(k))), "}")
        [] t[1] \in {"AnnotationDefinition", "ObjectDeclaration"} -> head \o body(2)
        [] t[1] = "AnnotationMember" -> s(1) \o <<":">> \o s(2) \o Maybe("default", k[3])
        [] t[1] = "EnumValue" ->
             s(1) \o (IF k[2] = Leaf("unit") THEN <<>> ELSE In("(", Listed(Tail(k)), ")"))
        [] t[1] = "Parameter" ->
             (IF k[1] = Leaf("volatile") THEN <<"volatile", "var">> ELSE opt(1))
               \o s(2) \o <<":">> \o s(3)
        [] t[1] \in {"StructDefinition", "ClassDefinition"} ->
             head \o opt(2) \o paren(3)
               \o (IF k[4] = None /\ k[5][2] = <<>> THEN <<>>
                   ELSE <<":">> \o Listed((IF k[4] = None THEN <<>> ELSE <<k[4]>>) \o k[5][2]))
               \o (IF Len(k) = 5 THEN <<>> ELSE body(6))
        [] t[1] = "AnnotationDeclaration" -> Each(k, LAMBDA t0 : <<"@">> \o Source(t0))
        [] t[1] = "Annotation" -> s(1) \o (IF Len(k) = 1 THEN <<>> ELSE In("(", Listed(Tail(k)), ")"))
        [] t[1] = "Field" -> s(1) \o <<"=">> \o s(2)
        [] OTHER -> In("{", Listed(k), "}")

TypeKinds == {"Symbol", "Type", "FunctionPrototype", "ArrayType", "in", "out", "chan"}

DefinitionKinds ==
  DOMAIN Definitions \cup
    {"FileUnit", "Outside", "Member", "ImportEntry", "Item", "Param", "Prototype", "Generics",
     "FunctionDeclaration", "ReduceFunction", "Method", "AnnotationMember", "EnumValue", "Parameter",
     "AnnotationDeclaration", "Annotation", "Field", "StaticArray"}

StatementKinds == NoExpressions \cup {"List", "Assignment", "VariableDeclaration"}

Source(t) ==
  CASE t[1] \in StatementKinds -> StatementSource(t)
    [] t[1] \in DefinitionKinds -> DefinitionSource(t)
    [] t[2] = <<>> -> <<t[1]>>
    [] t[1] \in TypeKinds -> TypeSource(t)
    [] OTHER -> ExpressionSource(t)
-----------------------------------------------------------------------------

Node(kind, kids) == <<kind, kids>>
Kids(kind, lists) == {Node(kind, l) : l \in lists}

a == Leaf("a")
b == Leaf("b")
one == Leaf("1")
Atoms == {a, one}

Named(n, t) == Node("Item", <<Leaf(n), t>>)
Name(n) == Node("Type", <<Node("Symbol", <<Leaf(n)>>)>>)
i32 == Leaf("i32")
Vector == Node("ArrayType", <<i32, None>>)
Channel == Node("chan", <<i32>>)

Block(ss) == Node("Block", ss)
Many(es) == Node("List", es)
Let(var, items, es) == Node("VariableDeclaration", <<Leaf(var), Node("Items", items), Many(es)>>)
Assign(ls, rs) == Node("Assignment", <<Many(ls), Many(rs)>>)
Case(e, s) == Node("ExpectValuesCase", <<e, s>>)
Lambda0(items, s) == Node("LambdaLiteral", <<Node("Params", items), s>>)
When0(cs) == Node("WhenExpression", <<None, None>> \o cs)
Operations0 == {"-", "*", "<", "<-", "<<", "|", "||"}

-----------------------------------------------------------------------------
(* Trees with e or s or t somewhere in them.                               *)

Scalars(E) == {x \in E : x[1] # "ArrayInitializer"}

WithExpression(E) ==
  Kids("Dot", {<<e, Leaf("c")>> : e \in E})
    \cup Kids("Resolving", {<<e, Leaf("c")>> : e \in E})
    \cup Kids("IndexedGet", {<<e, one>> : e \in E} \cup {<<a, e, one>> : e \in E})
    \cup Kids("Calling", {<<e>> : e \in E} \cup {<<Leaf("f"), one, e, a>> : e \in E})
    \cup Kids("ArrayInitializer",
           {<<None, e, one>> : e \in Scalars(E)} \cup {<<Vector, e>> : e \in Scalars(E)}
             \cup {<<Node("ArrayType", <<i32, None, None>>), Node("ArrayInitializer", <<None, e>>)>> : e \in Scalars(E)}
             \cup {<<None, Node("ArrayInitializer", <<None, e>>), Node("ArrayInitializer", <<None>>)>> : e \in E})
    \cup Kids("ArrayFilling", {<<Node("ArrayType", <<i32, one, e>>), a>> : e \in E}
                                \cup {<<Node("ArrayType", <<i32, a>>), e>> : e \in E})
    \cup Kids("ChannelInitializer", {<<Channel, e>> : e \in E})
    \cup Kids("Testing", {<<e, i32>> : e \in E}) \cup Kids("Casting", {<<e, Vector>> : e \in E})
    \cup Kids("StringTemplate", {<<Leaf("prefix"), e, Leaf("part"), Leaf("suffix")>> : e \in E})
    \cup UNION {Kids(op, {<<e>> : e \in E}) : op \in PrefixOps}
    \cup UNION {Kids(op, {<<e, one>> : e \in E} \cup {<<a, e>> : e \in E}) : op \in Operations0}
    \cup Kids("IfExpression", {<<None, e, a, None>> : e \in E}
           \cup {<<Let("val", <<Named("c", None)>>, <<e>>), a, b, one>> : e \in E}
           \cup {<<Assign(<<b>>, <<one>>), e, b, None>> : e \in E})
    \cup Kids("WhenExpression", {<<None, e, Case(one, a), Node("Else", <<b>>)>> : e \in E}
           \cup {<<None, a, Node(k, <<e, one, a>>), Node(k, <<one, e, a>>)>> :
                   k \in {"BetweenToCase", "BetweenUntilCase"}, e \in E}
           \cup {<<None, None, Case(e, a), Node("ExpectValuesCase", <<one, e, b>>)>> : e \in E})

WithStatement(S) ==
  {Lambda0(items, s) : s \in S,
     items \in {<<>>, <<Named("a", i32)>>, <<Named("a", None), Named("b", None)>>,
                <<Named("a", None), Named("b", i32), Leaf("...")>>, <<Leaf("...")>>}}
    \cup Kids("IfExpression", {<<None, a, s, None>> : s \in S} \cup {<<None, a, s, b>> : s \in S}
                                \cup {<<None, a, one, s>> : s \in S})
    \cup {When0(<<Case(one, s), Case(a, b)>>) : s \in S} \cup {When0(<<Case(one, a), Node("Else", <<s>>)>>) : s \in S}
    \cup {When0(<<Node("StructMatchingCase", <<c, a, b, s>>), Node("TypeTestingCase", <<b, i32, s>>)>>) :
            s \in S, c \in {b, Node("Dot", <<a, Leaf("c")>>)}}
    \cup Kids("TryCatchExpression",
           {<<Block(<<s>>), Node("CatchClause", <<b, Name("T"), Block(<<s, a>>)>>), None>> : s \in S}
             \cup {<<Block(<<>>), Block(<<s, one>>)>> : s \in S})

Sentences(E) ==
  Kids("Return", {<<>>} \cup {<<e>> : e \in E} \cup {<<e, one>> : e \in E})
    \cup Kids("Throw", {<<e>> : e \in E}) \cup Kids("RunCoroutine", {<<Node("Calling", <<Leaf("f"), e>>)>> : e \in E})
    \cup Kids("Break", {<<>>}) \cup Kids("Continue", {<<>>})
    \cup {Many(<<e, one>>) : e \in E} \cup {Assign(<<e>>, <<one, b>>) : e \in E}
    \cup {Assign(<<a, e>>, <<e>>) : e \in E}
    \cup {Let(var, <<Named("a", None), Named("b", i32)>>, <<e, one>>) : var \in {"val", "volatile"}, e \in E}

Loop(E, B) ==
  UNION {Kids(k, {<<None, e, c>> : e \in E, c \in B} \cup {<<Let("var", <<Named("c", i32)>>, <<e>>), b, c>> : e \in E, c \in B}) :
           k \in {"WhileLoop", "UnlessLoop"}}
    \cup UNION {Kids(k, {<<c, e>> : e \in E, c \in B}) : k \in {"DoWhileLoop", "DoUnlessLoop"}}
    \cup Kids("ForeachLoop", {<<a, e, c>> : e \in E, c \in B})
    \cup UNION {Kids(k, {<<a, one, e, c>> : e \in E, c \in B}) : k \in {"ForeachUntil", "ForeachRange"}}

\* Reading ahead knows less types than reading: no in and out, no [,] and no
\* parameters of functions.
RECURSIVE Probed(_)
Probed(t) ==
  /\ t[1] \notin {"in", "out"} /\ (t[1] = "ArrayType" => Len(t[2]) = 2)
  /\ (t[1] = "FunctionPrototype" => t[2][1][2] = <<>>)
  /\ \A i \in DOMAIN t[2] : Probed(t[2][i])

WithType(T) ==
  Kids("Testing", {<<a, t>> : t \in T}) \cup {Lambda0(<<Named("a", None), Named("b", t)>>, a) : t \in T}
    \cup Kids("Calling", {<<Node("Instantiation", <<f, t>>), one>> : t \in {x \in T : Probed(x)}, f \in {b, Node("Dot", <<a, b>>)}})
    \cup Kids("Resolving", {<<Node("Instantiation", <<b, t>>), a>> : t \in {x \in T : Probed(x)}})
    \cup Kids("ChannelInitializer", {<<Node("chan", <<t>>), one>> : t \in T})

Types(T) ==
  Kids("Type", {<<Node("Symbol", <<Leaf("T")>>), t>> : t \in T} \cup {<<Node("Symbol", <<a, b>>), i32, t>> : t \in T})
    \cup UNION {Kids(c, {<<t>> : t \in T}) : c \in {"in", "out", "chan"}}
    \cup {Node("ArrayType", <<t, None, None>>) : t \in {x \in T : x[1] \notin {"FunctionPrototype", "ArrayType"}}}
    \cup {Node("ArrayType", <<Vector, None, None>>)}
    \cup Kids("FunctionPrototype", {<<Node("Params", <<t, i32>>), Node("Types", <<i32>>)>> : t \in T}
                                \cup {<<Node("Params", <<>>), Node("Types", <<i32, t>>)>> : t \in T})

-----------------------------------------------------------------------------
(* Definitions, each with what may be missing in it and without.           *)

Outside(anno, access, d) == Node("Outside", <<anno, access, d>>)
Marked == Node("AnnotationDeclaration",
               <<Node("Annotation", <<Node("Symbol", <<a, b>>)>>),
                 Node("Annotation", <<Node("Symbol", <<Leaf("c")>>),
                   Node("Field", <<a, Node("StaticArray", <<one, Node("StaticArray", <<>>)>>)>>),
                   Node("Field", <<b, Node("Annotation", <<Node("Symbol", <<Leaf("T")>>)>>)>>)>>)>>)
Annos == {None, Marked}
Modifiers == {None, Leaf("private")}

Parameters == {<<>>, <<Node("Param", <<None, a, i32>>)>>,
               <<Node("Param", <<Marked, a, Vector>>), Node("Param", <<None, b, Name("T")>>)>>}
Prototypes == {Node("Prototype", <<Node("Params", ps), Node("Types", ts)>>) :
                 ps \in Parameters, ts \in {<<>>, <<i32, Name("T")>>}}
Generic == {None, Node("Generics", <<Named("T", None), Named("c", i32)>>)}

Fun(word, g, proto, body) == Node("FunctionDeclaration", <<word, g, Leaf("f"), proto, body>>)
Simple == CHOOSE p \in Prototypes : p[2][1][2] = <<>> /\ p[2][2][2] = <<>>
Main(ss) == Fun(None, None, Simple, Block(ss))

Functions0 ==
  {Fun(Leaf("native"), g, p, None) : g \in Generic, p \in Prototypes}
    \cup {Fun(None, g, p, Block(<<one>>)) : g \in Generic, p \in Prototypes}
    \cup {Node("ReduceFunction", <<None, g, Leaf("f"), p, one>>) : g \in Generic, p \in Prototypes}

Variable == Let("val", <<Named("a", i32)>>, <<one>>)
Member(anno, access, d) == Node("Member", <<anno, access, d>>)
Members0 == {Member(x, y, d) : x \in Annos, y \in Modifiers,
               d \in {Variable, Main(<<>>), Fun(Leaf("abstract"), None, Simple, None)}}
Two(M) == {<<>>} \cup {<<m>> : m \in M} \cup {<<m, n>> : m \in M, n \in {x \in M : x[2][1] = None}}
Methods == {m \in Members0 : m[2][3][1] = "FunctionDeclaration"}
\* A variable of an object has no access and no annotations.
Plain(m) == m[2][3][1] = "VariableDeclaration" => m[2][1] = None /\ m[2][2] = None

Constructors == {None} \cup {Node("Params", <<Node("Parameter", <<v, a, i32>>), Node("Parameter", <<None, b, Vector>>)>>) :
                              v \in {Leaf("val"), Leaf("volatile"), None}}
Calling == {<<None, Node("Koncepts", <<>>)>>, <<Node("Calling", <<a, one>>), Node("Koncepts", <<>>)>>,
            <<Node("Calling", <<Node("Instantiation", <<Node("Dot", <<a, b>>), i32>>)>>), Node("Koncepts", <<>>)>>}
Implementing == {<<Node("Calling", <<a>>), Node("Koncepts", <<Name("b")>>)>>,
                 <<None, Node("Koncepts", <<Node("Type", <<Node("Symbol", <<a, b>>), i32>>), Name("T")>>)>>}

Class(kind, S) == {Node(kind, <<a, g, c>> \o s \o m) : g \in Generic, c \in Constructors, s \in S, m \in {<<>>} \cup {<<m>> : m \in Members0}}

Outsides ==
  {Outside(x, IF x = None THEN None ELSE y, d) : x \in Annos, y \in Modifiers, d \in {Variable, Main(<<>>)}}
    \cup {Outside(None, None, d) : d \in
      Functions0 \cup Class("StructDefinition", Calling) \cup Class("ClassDefinition", Calling \cup Implementing)
        \cup Kids("ObjectDeclaration", {<<a>> \o ms : ms \in Two({m \in Members0 : Plain(m)})})
        \cup Kids("EnumDefinition", {<<a, g, Node("EnumValue", <<b, Leaf("unit")>>), Node("EnumValue", <<Leaf("c"), i32, Vector>>)>> \o ms :
                                       g \in Generic, ms \in Two(Methods)})
        \cup Kids("InterfaceDefinition", {<<a, g, Node("Method", <<x, Fun(None, None, p, None)>>),
                                              Node("Method", <<None, Fun(None, g, p, None)>>)>> :
                                            g \in Generic, x \in Annos, p \in Prototypes})}
    \cup {Outside(None, Leaf("public"), Node("AnnotationDefinition",
             <<a, Node("AnnotationMember", <<b, i32, d>>), Node("AnnotationMember", <<Leaf("c"), Vector, None>>)>>)) :
             d \in {None, Leaf("true"), Node("StaticArray", <<one, one>>)}}

-----------------------------------------------------------------------------
(* Operators: all trees of two, and all of three with one per priority.    *)

Op(O, L, R) == {Node(o, <<l, r>>) : o \in O, l \in L, r \in R}

Chains ==
  LET two(O) == Op(O, Op(O, {one}, {b}), {a}) \cup Op(O, {one}, Op(O, {one}, {b}))
      C == {"*", "+", "<<", "==", "^", "|", "&&", "||"}
  IN  two(DOMAIN Priority) \cup Op(C, two(C), {a}) \cup Op(C, {one}, two(C))
        \cup Op(C, Op(C, {one}, {b}), Op(C, {one}, {a}))

-----------------------------------------------------------------------------
E1 == WithExpression(Atoms)
T1 == Types({i32, Name("T")})
C1 == WithStatement({a, one})
S1 == Sentences(Atoms) \cup Loop({a}, {Block(<<b>>)}) \cup C1

Trees ==
  {Outside(None, None, d) : d \in
     {Let("val", <<Named("a", None)>>, <<e>>) : e \in Chains \cup WithExpression(E1 \cup C1) \cup WithType(T1 \cup Types(T1))}
     \cup {Let("var", <<Named("a", t), Named("b", t)>>, <<one, a>>) : t \in T1 \cup Types(T1)}
     \cup {Main(<<s, one>>) : s \in Sentences(E1 \cup C1) \cup Loop(E1, {Block(<<a>>)}) \cup WithStatement(E1)}
     \cup {Main(<<s, s>>) : s \in S1 \cup E1 \cup C1}
     \cup {Main(<<s>>) : s \in WithStatement(S1 \cup {Block(<<x>>) : x \in S1}) \cup Loop({a}, {Block(<<x>>) : x \in S1})}}
    \cup Outsides

Files == {Node("FileUnit", <<a, d>>) : d \in Trees}
=============================================================================
