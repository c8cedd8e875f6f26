----------------------------- MODULE Templates -----------------------------
(***************************************************************************)
(* The instantiation of templates: generics-instantiating.cc, the part of  *)
(* type-reducing.cc that asks for instances and resolves names on behalf   *)
(* of the visitor, the symbols of file scopes (scope.cc), and the nodes of *)
(* the syntax tree with what links and names types (ast.h, ast.cc).        *)
(*                                                                         *)
(* A node is its class, a name, the attributes that differ from what the   *)
(* constructor leaves, and one sequence of nodes for every part.  Types    *)
(* are nodes too; a linked type names its definition, so that identity of  *)
(* definitions is kept.  Linking changes type objects in place, and a      *)
(* template shares objects with what is made from it: every operator that  *)
(* visits a node gives what it made (out), the visited node as the visit   *)
(* leaves it (left) and the new state (st).                                *)
(***************************************************************************)
EXTENDS Integers, Sequences, FiniteSets, TLC

CONSTANT
    MaxNesting      \* instantiations in progress the stack of the compiler has room for

Node(kind, name, has, of) == [node |-> kind, name |-> name, prefix |-> "", def |-> 0, has |-> has, of |-> of]
Nothing == Node("Nothing", "", {}, <<>>)

(***************************************************************************)
(* The parts of a node, by class.                                          *)
(***************************************************************************)
Statements == [Block |-> <<"statements">>, List |-> <<"expressions">>, Assignment |-> <<"lvals", "rvals">>,
    Return |-> <<"returnning_vals">>, Throw |-> <<"throwing_val">>, Break |-> <<>>, Continue |-> <<>>,
    RunCoroutine |-> <<"entry">>]
Loops == [WhileLoop |-> <<"initializer", "condition", "body">>, UnlessLoop |-> <<"initializer", "condition", "body">>,
    ForeachLoop |-> <<"iterative_destination", "iterable", "lower", "upper", "body">>]
Declarations == [VariableDeclaration |-> <<"variables", "initilaizers">>, Item |-> <<"type">>,
    FunctionDeclaration |-> <<"generic_params", "prototype", "body">>]
Structure == <<"generic_params", "parameters", "fields", "methods", "super_calling", "koncepts">>
Definitions == [InterfaceDefinition |-> <<"generic_params", "methods">>, StructDefinition |-> Structure,
    ClassDefinition |-> Structure, EnumDefinition |-> Structure, Field |-> <<"declaration">>,
    Parameter |-> <<"as_parameter">>]
Unary == {"Negative", "Not", "BitwiseNegative", "Recv"}
Binary == {"Add", "Sub", "Mul", "Div", "Mod", "Equal", "NotEqual", "Less", "LessEqual", "Greater", "GreaterEqual", "And",
    "Or", "BitwiseAnd", "BitwiseOr", "BitwiseXor", "BitwiseShl", "BitwiseShr", "Send"}
Operators == [k \in Unary |-> <<"operand">>] @@ [k \in Binary |-> <<"lhs", "rhs">>]
Literals == [k \in {"UnitLiteral", "EmptyLiteral", "I8Literal", "U8Literal", "I16Literal", "U16Literal", "I32Literal",
    "U32Literal", "IntLiteral", "UIntLiteral", "I64Literal", "U64Literal", "F32Literal", "F64Literal", "BoolLiteral",
    "CharLiteral", "StringLiteral"} |-> <<>>]
Names == [Identifier |-> <<>>, Instantiation |-> <<"primary", "generic_args">>]
Initializers == [LambdaLiteral |-> <<"prototype", "body">>, ArrayInitializer |-> <<"type", "dimensions", "filling_value">>,
    ChannelInitializer |-> <<"type", "capacity">>]
Expressions == [IndexedGet |-> <<"primary", "indexs">>, Dot |-> <<"primary">>, Resolving |-> <<"primary">>,
    Casting |-> <<"source", "destination">>, Testing |-> <<"source", "destination">>, Calling |-> <<"callee", "args">>]
Choices == [IfExpression |-> <<"initializer", "condition", "then_clause", "else_clause">>,
    ExpectValuesCase |-> <<"then_clause", "match_values">>, TypeTestingCase |-> <<"then_clause", "name", "match_type">>,
    BetweenToCase |-> <<"then_clause", "lower", "upper">>,
    StructMatchingCase |-> <<"then_clause", "match_type", "expecteds">>,
    WhenExpression |-> <<"initializer", "destination", "case_clauses", "else_clause">>]
Attempts == [TryCatchExpression |-> <<"try_block", "finally_block", "catch_clauses">>, StringTemplate |-> <<"parts">>]
Containers == [ArrayType |-> <<"element_type">>, ChannelType |-> <<"element_type">>]
Defined == [k \in {"ClassType", "StructType", "EnumType", "InterfaceType"} |-> <<>>]
Types == [Type |-> <<"generic_args">>, FunctionPrototype |-> <<"params", "return_types">>] @@ Containers @@ Defined
Parts == Statements @@ Loops @@ Declarations @@ Definitions @@ Operators @@ Literals @@ Names @@ Initializers @@ Expressions
           @@ Choices @@ Attempts @@ Types
Has(n, attribute) == attribute \in n.has
IsType(n) == n.node \in DOMAIN Types

\* The primary type of a channel is that of its elements, that of a symbol is the symbol.
ChannelOf(ability, element) == Node("ChannelType", "", ability \union (element.has \intersect {"symbol"}), << <<element>> >>)

(***************************************************************************)
(* The state: definitions by number (the tree, the package of the file,    *)
(* the name with its arguments, the original, the base), the symbols of    *)
(* all packages, the imports of every package, the packages whose scopes   *)
(* are entered, how deep the visitors are nested and how all of it stands. *)
(***************************************************************************)
Named(pkg, name, args) == [pkg |-> pkg, name |-> name, args |-> args]
Definition(tree, name, original) == [tree |-> tree, name |-> name, original |-> original, base |-> 0]
Start(definitions, imports) ==
    [defs |-> [i \in DOMAIN definitions |->
                 Definition(definitions[i].tree, Named(definitions[i].pkg, definitions[i].tree.name, <<>>), 0)],
     symbols |-> [n \in {Named(definitions[i].pkg, definitions[i].tree.name, <<>>) : i \in DOMAIN definitions} |->
                    CHOOSE i \in DOMAIN definitions : n = Named(definitions[i].pkg, definitions[i].tree.name, <<>>)],
     imports |-> imports, at |-> <<"main">>, depth |-> 0, status |-> "ok"]
Here(s) == s.at[Len(s.at)]
Failed(s) == s.status # "ok"
Fail(s, status) == [s EXCEPT !.status = IF @ = "ok" THEN status ELSE @]
Done(s, out, left) == [st |-> s, out |-> out, left |-> left]
Stop(s, status, n) == Done(Fail(s, status), Nothing, n)

\* What a type is called when a name is made of it: a symbol drops its arguments, a channel its direction.
RECURSIVE TypeName(_, _)
TypeNames(s, types) == [i \in DOMAIN types |-> TypeName(s, types[i])]
TypeName(s, t) ==
    CASE t.node = "Type" -> Named(t.prefix, t.name, <<>>)
      [] t.node = "ArrayType" -> Named("", "[]", TypeNames(s, t.of[1]))
      [] t.node = "ChannelType" -> Named("", "chan", TypeNames(s, t.of[1]))
      [] t.node = "FunctionPrototype" ->
           Named("", "fun", [i \in DOMAIN t.of[1] |-> IF IsType(t.of[1][i]) THEN TypeName(s, t.of[1][i])
                                                     ELSE TypeName(s, t.of[1][i].of[1][1])]
                            \o <<Named("", "->", <<>>)>> \o TypeNames(s, t.of[2]))
      [] OTHER -> s.defs[t.def].name

\* The definition behind a name, zero when there is none.
Symbol(s, pkg, name, args) ==
    IF Named(pkg, name, args) \in DOMAIN s.symbols THEN s.symbols[Named(pkg, name, args)] ELSE 0
Aliased(s, alias) == {i.pkg : i \in {i \in s.imports[Here(s)] : i.alias = alias}}
FindLocalSymbol(s, name, args) ==
    LET own == Symbol(s, Here(s), name, args)
        all == {Symbol(s, pkg, name, args) : pkg \in Aliased(s, "*")} \ {0}
    IN IF own # 0 THEN own ELSE IF all = {} THEN 0 ELSE CHOOSE d \in all : TRUE
FindExportSymbol(s, prefix, name, args) ==
    IF prefix = "*" \/ Aliased(s, prefix) = {} THEN 0
    ELSE Symbol(s, CHOOSE pkg \in Aliased(s, prefix) : TRUE, name, args)
Find(s, prefix, name, args) ==
    IF prefix = "" THEN FindLocalSymbol(s, name, args) ELSE FindExportSymbol(s, prefix, name, args)

\* Registers a definition unless its name is taken; the name of the own package needs no alias.
FindOrInsert(s, pkg, d) ==
    LET n == s.defs[d].name IN
    IF n \in DOMAIN s.symbols \/ (pkg # Here(s) /\ Aliased(s, pkg) = {}) THEN s ELSE [s EXCEPT !.symbols = @ @@ (n :> d)]

GenericParams(d) == IF "generic_params" \in {Parts[d.tree.node][i] : i \in DOMAIN Parts[d.tree.node]} THEN d.tree.of[1] ELSE <<>>
IsDefinition(d) == d.tree.node \in DOMAIN Definitions
IsTemplate(d) == d.tree.node # "InterfaceDefinition" /\ GenericParams(d) # <<>>
TypeOf(s, d) ==
    [Nothing EXCEPT !.def = d,
                    !.node = CASE s.defs[d].tree.node = "ClassDefinition" -> "ClassType"
                               [] s.defs[d].tree.node = "StructDefinition" -> "StructType"
                               [] s.defs[d].tree.node = "EnumDefinition" -> "EnumType"
                               [] s.defs[d].tree.node = "InterfaceDefinition" -> "InterfaceType"
                               [] OTHER -> "Nothing"]

(***************************************************************************)
(* What the visitor makes of a node.  Copied gives the parts it visits, in *)
(* order; a part of Shared is the same object in template and instance;    *)
(* the others are left out.  Kept are the attributes that get across.      *)
(***************************************************************************)
CopiedDeclarations == [Declarations EXCEPT !.FunctionDeclaration = <<"prototype", "body">>]
CopiedStatements == [Statements EXCEPT !.Return = <<>>] @@ [WhileLoop |-> Loops.WhileLoop, UnlessLoop |-> Loops.UnlessLoop,
    ForeachLoop |-> <<"body", "iterable", "lower", "upper">>]
CopiedExpressions == [LambdaLiteral |-> <<"body", "prototype">>, ChannelInitializer |-> <<>>]
    @@ [k \in {"Dot", "Resolving", "Casting", "Testing", "Calling", "IndexedGet"} |-> Expressions[k]]
CopiedChoices == [Choices @@ Attempts EXCEPT !.TypeTestingCase = <<"then_clause", "match_type">>,
                                 !.StructMatchingCase = <<"then_clause", "match_type">>]
CopiedFields == [Field |-> Definitions.Field, Parameter |-> <<>>]
Copied == CopiedDeclarations @@ CopiedStatements @@ Operators @@ CopiedExpressions @@ CopiedChoices @@ CopiedFields
Shared == {<<"ForeachLoop", "iterative_destination">>, <<"TypeTestingCase", "name">>, <<"StructMatchingCase", "expecteds">>,
           <<"ChannelInitializer", "capacity">>}
Leaves == DOMAIN Literals \union {"Identifier", "Break", "Continue"}
Unreachable == {"ArrayInitializer", "TryCatchExpression"}
KeptOfDefinitions == {"access", "annotations"}
KeptOfFunctions == {"access", "annotations", "decoration", "is_reduce"}
KeptOfVariables == {"is_volatile", "constraint"}
Kept(n) == CASE n.node = "FunctionDeclaration" -> KeptOfFunctions [] n.node = "VariableDeclaration" -> KeptOfVariables
             [] n.node = "Item" -> {} [] OTHER -> n.has

RECURSIVE Copy(_, _, _), CopyAll(_, _, _), CopyParts(_, _, _, _), InstantiateType(_, _, _), Link(_, _, _),
          LinkAll(_, _, _), Instantiate(_, _, _, _), VisitDefinition(_, _, _, _)
CopyAll(v, ns, s) ==
    IF ns = <<>> \/ Failed(s) THEN Done(s, <<>>, ns)
    ELSE LET one == Copy(v, Head(ns), s)
             rest == CopyAll(v, Tail(ns), one.st)
         IN Done(rest.st, <<one.out>> \o rest.out, <<one.left>> \o rest.left)

Place(n, part) == CHOOSE i \in DOMAIN Parts[n.node] : Parts[n.node][i] = part
CopyParts(v, n, parts, r) ==
    IF parts = <<>> THEN r
    ELSE LET i == Place(n, Head(parts))
             part == CopyAll(v, n.of[i], r.st)
         IN CopyParts(v, n, Tail(parts),
                      Done(part.st, [r.out EXCEPT !.of[i] = part.out], [r.left EXCEPT !.of[i] = part.left]))

\* Mutant: the copy starts as the constructor leaves it.
Blank_Bare(n) == [n EXCEPT !.has = {},
                           !.of = [i \in DOMAIN n.of |-> IF <<n.node, Parts[n.node][i]>> \in Shared THEN n.of[i] ELSE <<>>]]
\* A node of the same class with what is kept and shared, to be filled in.
Blank(n) == [n EXCEPT !.has = n.has \intersect Kept(n),
                      !.of = [i \in DOMAIN n.of |-> IF <<n.node, Parts[n.node][i]>> \in Shared THEN n.of[i] ELSE <<>>]]
CopyNode(v, n, s) == CopyParts(v, n, Copied[n.node], Done(s, Blank(n), n))

\* The copies of what is returned are put into the template.
VisitReturn(v, n, s) ==
    LET vals == CopyAll(v, n.of[1], s) IN
    Done(vals.st, Blank(n), [n EXCEPT !.of[1] = IF Failed(vals.st) THEN @ ELSE vals.left \o vals.out])

\* The array for the linked arguments is never made.
VisitInstantiation(v, n, s) ==
    IF n.of[2] # <<>> THEN Done([Link(v, n.of[2][1], s).st EXCEPT !.status = IF @ = "endless" THEN @ ELSE "crash"], Nothing, n)
    ELSE LET primary == Copy(v, n.of[1][1], s) IN
         Done(primary.st, [Blank(n) EXCEPT !.of[1] = <<primary.out>>], [n EXCEPT !.of[1] = <<primary.left>>])

VisitChannelInitializer(v, n, s) ==
    LET type == n.of[1][1]
        linked == Link(v, ChannelOf(type.has \ {"symbol"}, type.of[1][1]), s)
    IN Done(linked.st, [Blank(n) EXCEPT !.of[1] = <<linked.out>>],
            [n EXCEPT !.of[1] = <<[type EXCEPT !.of[1] = LinkAll(v, @, s).left]>>])

\* A parameter that is no field asks an item to accept the visitor, which pushes no result.
Copy(v, n, s) ==
    CASE Failed(s) -> Done(s, Nothing, n)
      [] IsType(n) -> InstantiateType(v, n, s)
      [] n.node \in Unreachable -> Stop(s, "crash", n)
      [] n.node \in Leaves -> Done(s, n, n)
      [] n.node = "Return" -> VisitReturn(v, n, s)
      [] n.node = "Instantiation" -> VisitInstantiation(v, n, s)
      [] n.node = "ChannelInitializer" -> VisitChannelInitializer(v, n, s)
      [] n.node = "Parameter" /\ n.of[1] # <<>> -> Stop(s, "crash", n)
      [] n.node = "WhenExpression" /\ n.of[2] = <<>> -> Stop(CopyAll(v, n.of[1], s).st, "crash", n)
      [] OTHER -> CopyNode(v, n, s)

(***************************************************************************)
(* Types.                                                                  *)
(***************************************************************************)
\* Parameters are taken for items, which those of a function type are not, and of lambdas may lack a type.
InstantiateType(v, t, s) ==
    CASE Failed(s) -> Done(s, Nothing, t)
      [] t.node = "Type" /\ Has(t, "symbol") ->
           LET args == CopyAll(v, t.of[1], s)
               linked == Link(v, [t EXCEPT !.of[1] = args.out], args.st)
           IN Done(linked.st, linked.out, t)
      [] t.node = "ArrayType" ->
           LET element == CopyAll(v, t.of[1], s) IN Done(element.st, [t EXCEPT !.of[1] = element.out], t)
      [] t.node = "ChannelType" ->
           LET element == InstantiateType(v, t.of[1][1], s) IN
           Done(element.st, ChannelOf(t.has \ {"symbol"}, element.out), t)
      [] t.node = "FunctionPrototype" ->
           LET untyped == {i \in DOMAIN t.of[1] : IsType(t.of[1][i]) \/ t.of[1][i].of[1] = <<>>}
               params == CopyAll(v, t.of[1], s)
               returns == CopyAll(v, t.of[2], params.st)
           IN IF untyped # {} THEN Stop(s, "crash", t)
              ELSE Done(returns.st, [t EXCEPT !.of = <<params.out, returns.out>>], t)
      [] OTHER -> Done(s, t, t)

LinkAll(v, types, s) ==
    IF types = <<>> \/ Failed(s) THEN Done(s, <<>>, types)
    ELSE LET one == Link(v, Head(types), s)
             rest == LinkAll(v, Tail(types), one.st)
         IN Done(rest.st, <<one.out>> \o rest.out, <<one.left>> \o rest.left)

\* The type-reducing visitor looks the instance up before it asks for one; without arguments a template is a type.
FindType(t, s) ==
    LET made == IF t.of[1] = <<>> THEN 0 ELSE Find(s, t.prefix, t.name, TypeNames(s, t.of[1]))
        plain == Find(s, t.prefix, t.name, <<>>)
        inst == Instantiate([by |-> "reducer"], plain, t.of[1], s)
        d == IF made # 0 THEN made ELSE IF t.of[1] = <<>> THEN plain ELSE inst.out
        st == IF made # 0 \/ t.of[1] = <<>> THEN s ELSE inst.st
    IN IF made = 0 /\ plain = 0 THEN Stop(s, "error", t)
       ELSE IF Failed(st) THEN Done(st, Nothing, t)
       ELSE IF TypeOf(st, d).node = "Nothing" THEN Stop(st, "error", t) ELSE Done(st, TypeOf(st, d), t)

\* An instance in a template: a name of the package of the definition is looked up as if it were an alias.
InstantiateNamed(v, prefix, name, argv, s) ==
    LET d == Find(s, prefix, name, <<>>)
        made == Find(s, s.defs[d].name.pkg, name, TypeNames(s, argv))
    IN IF d = 0 THEN Stop(s, "error", Nothing)
       ELSE IF ~IsDefinition(s.defs[d]) THEN Stop(s, "error", Nothing)
       ELSE IF GenericParams(s.defs[d]) = <<>> THEN Done(s, d, Nothing)
       ELSE IF made # 0 THEN Done(s, made, Nothing)
       ELSE LET inst == Instantiate(v, d, argv, s) IN
            IF Failed(inst.st) THEN inst ELSE Done(FindOrInsert(inst.st, s.defs[d].name.pkg, inst.out), inst.out, Nothing)

\* Enumerations are no types to the linker of the visitor.
TypeLinker(v, t, s) ==
    IF t.prefix = "" /\ t.name \in DOMAIN v.args THEN Done(s, v.args[t.name], t)
    ELSE LET found == InstantiateNamed(v, t.prefix, t.name, t.of[1], s) IN
         IF Failed(found.st) THEN Done(found.st, Nothing, t)
         ELSE IF TypeOf(found.st, found.out).node \in {"EnumType", "Nothing"} THEN Stop(found.st, "crash", t)
         ELSE Done(found.st, TypeOf(found.st, found.out), t)

\* Arguments are linked where they are; a channel of symbols passes for a symbol, without a name.
Link(v, t, s) ==
    IF Failed(s) THEN Done(s, Nothing, t)
    ELSE LET parts == IF t.of = <<>> THEN Done(s, <<>>, <<>>) ELSE LinkAll(v, t.of[1], s)
             back == IF t.node = "FunctionPrototype" THEN LinkAll(v, t.of[2], parts.st) ELSE parts
             left == CASE t.of = <<>> -> t
                       [] t.node = "FunctionPrototype" /\ ~Failed(back.st) -> [t EXCEPT !.of = <<parts.out, back.out>>]
                       [] OTHER -> [t EXCEPT !.of[1] = IF Failed(parts.st) THEN parts.left ELSE parts.out]
             named == IF v.by = "reducer" THEN FindType(left, back.st) ELSE TypeLinker(v, left, back.st)
         IN IF t.node = "Item"
            THEN LET type == Link(v, t.of[1][1], s) IN
                 Done(type.st, [t EXCEPT !.of[1] = <<type.out>>], [t EXCEPT !.of[1] = <<type.out>>])
            ELSE IF Failed(back.st) THEN Done(back.st, Nothing, left)
            ELSE IF ~Has(t, "symbol") THEN Done(back.st, left, left)
            ELSE IF t.node = "ChannelType" THEN Stop(back.st, "crash", left)
            ELSE Done(named.st, named.out, left)

(***************************************************************************)
(* Definitions.                                                            *)
(***************************************************************************)
\* The base of an instance; a base that is no instance is forgotten.
BaseOf(v, d, k, s) ==
    LET i == Place(s.defs[d].tree, "super_calling")
        callee == s.defs[d].tree.of[i][1].of[1][1]
        types == LinkAll(v, callee.of[2], s)
        left == [types.st EXCEPT !.defs[d].tree.of[i][1].of[1][1].of[2] = types.left]
        primary == callee.of[1][1]
        found == IF primary.node = "Identifier" THEN InstantiateNamed(v, "", primary.name, types.out, left)
                 ELSE InstantiateNamed(v, primary.of[1][1].name, primary.name, types.out, left)
    IN IF s.defs[d].tree.of[i] = <<>> \/ callee.node # "Instantiation" THEN s
       ELSE IF Failed(left) THEN left
       ELSE IF Failed(found.st) THEN found.st
       ELSE IF found.st.defs[found.out].tree.node # s.defs[d].tree.node THEN Fail(found.st, "error")
       ELSE [found.st EXCEPT !.defs[k].base = found.out]

\* The concepts of a class are linked in the template itself.
Koncepts(v, d, k, s) ==
    LET i == Place(s.defs[d].tree, "koncepts")
        types == LinkAll(v, s.defs[d].tree.of[i], s)
        left == [types.st EXCEPT !.defs[d].tree.of[i] = types.left]
    IN IF Failed(types.st) THEN left
       ELSE IF \E j \in DOMAIN types.out : types.out[j].node # "InterfaceType" THEN Fail(left, "error")
       ELSE [left EXCEPT !.defs[k].tree.of[i] = types.out]

Members(v, d, k, part, s) ==
    LET i == Place(s.defs[d].tree, part)
        members == CopyAll(v, s.defs[d].tree.of[i], s)
    IN [members.st EXCEPT !.defs[d].tree.of[i] = members.left,
                          !.defs[k].tree.of[i] = IF Failed(members.st) THEN <<>> ELSE members.out]

\* An instance is registered before its members are visited, a function when it is complete.
VisitDefinition(v, d, name, s) ==
    LET tree == s.defs[d].tree
        k == Len(s.defs) + 1
        header == [tree EXCEPT !.of = [i \in DOMAIN tree.of |-> <<>>], !.has = tree.has \intersect KeptOfDefinitions]
        inserted == FindOrInsert([s EXCEPT !.defs = Append(@, Definition(header, name, d))], name.pkg, k)
        methods == Members(v, d, k, "methods", IF tree.node = "InterfaceDefinition" THEN inserted
                      ELSE Members(v, d, k, "fields", Members(v, d, k, "parameters", inserted)))
        fun == CopyNode(v, tree, s)
        m == Len(fun.st.defs) + 1
    IN CASE tree.node = "InterfaceDefinition" -> Done(methods, k, Nothing)
         [] tree.node = "FunctionDeclaration" ->
              IF Failed(fun.st) THEN fun
              ELSE Done(FindOrInsert([fun.st EXCEPT !.defs = Append([@ EXCEPT ![d].tree = fun.left],
                                                                    Definition(fun.out, name, d))], name.pkg, m), m, Nothing)
         [] tree.node = "ClassDefinition" /\ ~Failed(methods) ->
              LET based == BaseOf(v, d, k, methods) IN
              Done(IF Failed(based) THEN based ELSE Koncepts(v, d, k, based), k, Nothing)
         [] OTHER -> Done(IF Failed(methods) THEN methods ELSE BaseOf(v, d, k, methods), k, Nothing)

\* Mutant: instances of other templates are refused, too.
PrepareTemplate_Any(d, argv, s) ==
    \/ GenericParams(s.defs[d]) = <<>>
    \/ Len(GenericParams(s.defs[d])) # Len(argv)
    \/ \E i \in DOMAIN argv : argv[i].def # 0 /\ s.defs[argv[i].def].original # 0
\* What may not be instantiated: no template, other arguments, an instance of a template as its own argument.
PrepareTemplate(d, argv, s) ==
    \/ GenericParams(s.defs[d]) = <<>>
    \/ Len(GenericParams(s.defs[d])) # Len(argv)
    \/ \E i \in DOMAIN argv : argv[i].def # 0 /\ s.defs[argv[i].def].original = d

\* One visitor for one instance, in the scope of the file of the template.
Instantiate(from, d, argv, s) ==
    LET params == GenericParams(s.defs[d])
        v == [by |-> "visitor", args |-> [x \in {params[i].name : i \in DOMAIN params} |->
                                            argv[CHOOSE i \in DOMAIN params : params[i].name = x]]]
        pkg == s.defs[d].name.pkg
        entered == [s EXCEPT !.at = IF pkg = Here(s) THEN @ ELSE Append(@, pkg), !.depth = @ + 1]
        inst == VisitDefinition(v, d, Named(pkg, s.defs[d].tree.name, TypeNames(s, argv)), entered)
    IN IF s.depth = MaxNesting THEN Stop(s, "endless", Nothing)
       ELSE IF PrepareTemplate(d, argv, s) THEN Stop(s, "error", Nothing)
       ELSE Done([inst.st EXCEPT !.at = s.at, !.depth = s.depth], inst.out, Nothing)

(***************************************************************************)
(* Two ways to ask for instances: a type that is linked, and an expression *)
(* that names a template with arguments.                                   *)
(***************************************************************************)
LinkType(t, s) == Link([by |-> "reducer"], t, s).st
InstantiateExpression(n, s) ==
    LET types == LinkAll([by |-> "reducer"], n.of[2], s)
        primary == n.of[1][1]
        prefix == IF primary.node = "Identifier" THEN "" ELSE primary.of[1][1].name
        made == Find(types.st, prefix, primary.name, TypeNames(types.st, types.out))
        d == IF made # 0 THEN made ELSE Find(types.st, prefix, primary.name, <<>>)
    IN IF Failed(types.st) THEN types.st
       ELSE IF d = 0 THEN Fail(types.st, "error")
       ELSE IF ~IsTemplate(types.st.defs[d]) THEN types.st
       ELSE Instantiate([by |-> "reducer"], d, types.out, types.st).st
Ask(request, s) == IF Failed(s) THEN s ELSE IF IsType(request) THEN LinkType(request, s) ELSE InstantiateExpression(request, s)
=============================================================================
