---------------------------- MODULE MCTemplates ----------------------------
(***************************************************************************)
(* Templates against what they mean: an instance is its template with the  *)
(* arguments in the place of the parameters, every application of a        *)
(* template has one instance, and what is made is what is applied.  The    *)
(* programs are every class of node in the body of a template, with types  *)
(* that mention the parameter, and every type of a member, concept or base *)
(* of a template over a few other templates.                               *)
(***************************************************************************)
EXTENDS Templates

Prim(name) == Node("Type", name, {}, << <<>> >>)
Ref(prefix, name, args) == [Node("Type", name, {"symbol"}, <<args>>) EXCEPT !.prefix = prefix]
T == Ref("", "T", <<>>)
ArrayOf(t) == Node("ArrayType", "", {}, << <<t>> >>)
FunOf(params, returns) == Node("FunctionPrototype", "", {}, <<params, returns>>)
Item(name, t) == Node("Item", name, {}, << <<t>> >>)
Id(name) == Node("Identifier", name, {}, <<>>)
Cast(t) == Node("Casting", "", {}, << <<Id("x")>>, <<t>> >>)
Param(name) == Node("GenericParameter", name, {}, <<>>)

(***************************************************************************)
(* What types and nodes of a template mean: the names of the applications, *)
(* by substitution.  A type that does not exist has no name.               *)
(***************************************************************************)
NoName == Named("?", "?", <<>>)
Env(params, args) == [x \in {params[i].name : i \in DOMAIN params} |-> args[CHOOSE i \in DOMAIN params : params[i].name = x]]
RECURSIVE Denotes(_, _, _, _)
Denotes(program, pkg, env, t) ==
    LET all(ts) == [i \in DOMAIN ts |-> Denotes(program, pkg, env, ts[i])]
        at == [Start(program.definitions, program.imports) EXCEPT !.at = <<pkg>>]
        d == Find(at, t.prefix, t.name, <<>>)
    IN CASE t.node = "Item" -> Denotes(program, pkg, env, t.of[1][1])
         [] t.node = "ArrayType" -> Named("", "[]", all(t.of[1]))
         [] t.node = "ChannelType" -> Named("", "chan", all(t.of[1]))
         [] t.node = "FunctionPrototype" -> Named("", "fun", all(t.of[1]) \o <<Named("", "->", <<>>)>> \o all(t.of[2]))
         [] ~Has(t, "symbol") -> Named("", t.name, <<>>)
         [] t.prefix = "" /\ t.name \in DOMAIN env -> env[t.name]
         [] d = 0 -> NoName
         [] Len(GenericParams(at.defs[d])) # Len(t.of[1]) -> NoName
         [] \E i \in DOMAIN t.of[1] : all(t.of[1])[i].name = t.name -> NoName
         [] OTHER -> Named(at.defs[d].name.pkg, t.name, all(t.of[1]))

\* A node with names in the place of types, as the template means it and as the instance has it.
Leaf(name) == [node |-> "type", name |-> "", type |-> name, has |-> {}, of |-> <<>>]
Inner(n, of) == [node |-> n.node, name |-> n.name, type |-> Named("", "", <<>>), has |-> n.has, of |-> of]
RECURSIVE Meant(_, _, _, _), Got(_, _), NamesIn(_), Unknown(_), AskAll(_, _)
Meant(program, pkg, env, n) ==
    IF IsType(n) /\ n.node # "FunctionPrototype" THEN Leaf(Denotes(program, pkg, env, n))
    ELSE Inner(n, [i \in DOMAIN n.of |-> [j \in DOMAIN n.of[i] |-> Meant(program, pkg, env, n.of[i][j])]])
Got(s, n) ==
    IF IsType(n) /\ n.node # "FunctionPrototype" THEN Leaf(IF Has(n, "symbol") /\ n.node = "Type" THEN NoName ELSE TypeName(s, n))
    ELSE Inner(n, [i \in DOMAIN n.of |-> [j \in DOMAIN n.of[i] |-> Got(s, n.of[i][j])]])
NamesIn(n) == {n.type} \union UNION {UNION {NamesIn(n.of[i][j]) : j \in DOMAIN n.of[i]} : i \in DOMAIN n.of}
Unknown(name) == name = NoName \/ \E i \in DOMAIN name.args : Unknown(name.args[i])

\* The base a template means, and the part it is called in.
SuperCalling(tree) == IF tree.node \in {"InterfaceDefinition", "FunctionDeclaration"} THEN <<>> ELSE tree.of[5]
BaseMeant(program, pkg, env, tree) ==
    LET callee == tree.of[5][1].of[1][1]
        inst == callee.node = "Instantiation"
        primary == IF inst THEN callee.of[1][1] ELSE callee
        prefix == IF primary.node = "Dot" THEN primary.of[1][1].name ELSE ""
    IN Denotes(program, pkg, env, Ref(prefix, primary.name, IF inst THEN callee.of[2] ELSE <<>>))

\* An instance is its template, but for the parameters and the call of the base, with the base that is meant.
Plain(tree) == [tree EXCEPT !.of = [i \in DOMAIN tree.of |-> IF Parts[tree.node][i] \in {"generic_params", "super_calling"}
                                                             THEN <<>> ELSE tree.of[i]]]
InstanceOfTemplate(program, s, k) ==
    LET tree == program.definitions[s.defs[k].original].tree
        pkg == program.definitions[s.defs[k].original].pkg
        env == Env(tree.of[1], s.defs[k].name.args)
        base == s.defs[k].base
    IN /\ Got(s, s.defs[k].tree) = Meant(program, pkg, env, Plain(tree))
       /\ IF SuperCalling(tree) = <<>> THEN base = 0
          ELSE base # 0 /\ s.defs[base].name = BaseMeant(program, pkg, env, tree)
AskAll(requests, s) == IF requests = <<>> THEN s ELSE AskAll(Tail(requests), Ask(Head(requests), s))

\* What a program may ask for: types that exist, concepts that are interfaces, a base of the same kind, no A of an A.
Legal(program, request) ==
    LET tree == program.definitions[1].tree
        args == [i \in DOMAIN request |-> Denotes(program, "main", <<>>, request[i])]
        kind(name) == IF Unknown(name) THEN {} ELSE {program.definitions[i].tree.node : i \in {i \in DOMAIN program.definitions :
                         program.definitions[i].pkg = name.pkg /\ program.definitions[i].tree.name = name.name}}
        env == Env(tree.of[1], args)
    IN /\ Len(args) = Len(tree.of[1])
       /\ \A i \in DOMAIN args : ~Unknown(args[i]) /\ args[i].name # "A"
       /\ \A name \in NamesIn(Meant(program, "main", env, Plain(tree))) : ~Unknown(name)
       /\ SuperCalling(tree) # <<>> => kind(BaseMeant(program, "main", env, tree)) = {tree.node}
       /\ tree.node = "ClassDefinition" => \A i \in DOMAIN tree.of[6] :
             kind(Denotes(program, "main", env, tree.of[6][i])) = {"InterfaceDefinition"}

(***************************************************************************)
(* The programs.  A is the template in question; B, C and D hold what they *)
(* are given, D in a method; E, I and S are templates of the other kinds,  *)
(* Q is a class; L of the package lib holds an M of its own package.       *)
(***************************************************************************)
Field(name, has, t) ==
    Node("Field", "", {}, << <<Node("VariableDeclaration", name, has, << <<Item(name, t)>>, <<>> >>)>> >>)
Fun(name, has, generics, prototype, body) == Node("FunctionDeclaration", name, has, <<generics, <<prototype>>, body>>)
Class(kind, name, parameters, fields, methods, super, koncepts) ==
    Node(kind, name, {}, << <<Param("T")>>, parameters, fields, methods, super, koncepts>>)
Holder(kind, name) == Class(kind, name, <<>>, <<Field("x", {}, T)>>, <<>>, <<>>, <<>>)
In(pkg, tree) == [pkg |-> pkg, tree |-> tree]
Others ==
    <<In("main", Holder("ClassDefinition", "B")), In("main", Holder("ClassDefinition", "C")),
      In("main", Class("ClassDefinition", "D", <<>>, <<>>, <<Fun("m", {}, <<>>, FunOf(<<Item("a", T)>>, <<T>>), <<>>)>>, <<>>, <<>>)),
      In("main", Holder("StructDefinition", "S")), In("main", Holder("EnumDefinition", "E")),
      In("main", Node("InterfaceDefinition", "I", {}, << <<Param("T")>>, <<Fun("m", {}, <<>>, FunOf(<<>>, <<T>>), <<>>)>> >>)),
      In("main", [Holder("ClassDefinition", "Q") EXCEPT !.of[1] = <<>>, !.of[3] = <<>>]),
      In("lib", Class("ClassDefinition", "L", <<>>, <<Field("x", {}, Ref("", "M", <<T>>))>>, <<>>, <<>>, <<>>)),
      In("lib", Holder("ClassDefinition", "M"))>>
Imports == {{[alias |-> "lib", pkg |-> "lib"]}, {[alias |-> "li", pkg |-> "lib"]}, {[alias |-> "*", pkg |-> "lib"]}}
Program(tree, imports) == [definitions |-> <<In("main", tree)>> \o Others, imports |-> [main |-> imports, lib |-> {}]]
Alone == CHOOSE i \in Imports : [alias |-> "lib", pkg |-> "lib"] \in i

\* Every class of node, with T in every part; the parts that may be empty are or are not.
Optional(kind) ==
    CASE kind \in {"Casting", "Testing", "RunCoroutine", "Throw"} -> {}
      [] OTHER -> {"statements", "expressions", "lvals", "rvals", "returnning_vals", "initializer", "initilaizers", "args",
                   "indexs", "else_clause", "destination", "match_values", "case_clauses", "generic_args", "filling_value",
                   "finally_block", "catch_clauses", "parts", "dimensions"}
Clause(kind) == Node(kind, "", {}, [i \in DOMAIN Parts[kind] |->
    IF Parts[kind][i] = "match_type" THEN <<T>> ELSE IF Parts[kind][i] \in {"name", "expecteds"} THEN <<Id("a")>> ELSE <<Cast(T)>>])
Children(kind, part) ==
    CASE part \in {"destination", "generic_args", "type"} /\ kind \in {"Casting", "Testing", "Instantiation", "Item"} -> {<<T>>}
      [] kind = "ArrayInitializer" /\ part = "type" -> {<<ArrayOf(T)>>}
      [] kind = "ChannelInitializer" /\ part = "type" ->
           {<<ChannelOf({"in"}, t)>> : t \in {T, Prim("i32"), ArrayOf(T), ArrayOf(Prim("i32")), Ref("", "Q", <<>>)}}
      [] kind = "ChannelInitializer" /\ part = "capacity" -> {<<Cast(T)>>, <<Node("IntLiteral", "1", {}, <<>>)>>}
      [] part = "prototype" -> {<<FunOf(<<Item("a", T)>>, <<T>>)>>, <<FunOf(<<Node("Item", "a", {}, << <<>> >>)>>, <<>>)>>}
      [] part = "case_clauses" -> {<<Clause(k)>> : k \in {"ExpectValuesCase", "TypeTestingCase", "BetweenToCase", "StructMatchingCase"}}
      [] part = "catch_clauses" -> {<<Clause("TypeTestingCase")>>}
      [] part = "variables" -> {<<Item("y", T)>>, <<Node("Item", "y", {}, << <<>> >>), Item("z", Prim("i32"))>>}
      [] part \in {"callee", "iterative_destination", "name"} \/ (kind = "Instantiation" /\ part = "primary") -> {<<Id("y")>>}
      [] part = "entry" -> {<<Node("Calling", "", {}, << <<Id("y")>>, <<Cast(T)>> >>)>>}
      [] part \in {"iterable", "lower", "upper"} /\ kind = "ForeachLoop" -> {<<>>, <<Cast(T)>>}
      [] OTHER -> {<<Cast(T)>>} \union (IF part \in {"statements", "expressions", "lvals", "args"} THEN {<<Cast(T), Cast(Prim("i32"))>>} ELSE {})
Bodies(kind) ==
    LET parts == Parts[kind]
        choices(i) == Children(kind, parts[i]) \union (IF parts[i] \in Optional(kind) THEN {<<>>} ELSE {})
    IN {n \in {Node(kind, "", {}, of) : of \in
                CASE parts = <<>> -> {<<>>}
                  [] Len(parts) = 1 -> {<<a>> : a \in choices(1)}
                  [] Len(parts) = 2 -> {<<a, b>> : a \in choices(1), b \in choices(2)}
                  [] Len(parts) = 3 -> {<<a, b, c>> : a \in choices(1), b \in choices(2), c \in choices(3)}
                  [] Len(parts) = 4 -> {<<a, b, c, d>> : a \in choices(1), b \in choices(2), c \in choices(3), d \in choices(4)}
                  [] OTHER -> {<<a, b, c, d, e>> : a \in choices(1), b \in choices(2), c \in choices(3), d \in choices(4), e \in choices(5)}} :
        kind = "ForeachLoop" => (n.of[2] = <<>>) # (n.of[3] = <<>>) /\ (n.of[3] = <<>>) = (n.of[4] = <<>>)}
InBodies == DOMAIN Parts \ (DOMAIN Types \union DOMAIN Definitions \union {"Item", "FunctionDeclaration",
    "ExpectValuesCase", "TypeTestingCase", "BetweenToCase", "StructMatchingCase"})
WithBody(n) == Class("ClassDefinition", "A", <<>>, <<>>, <<Fun("f", {}, <<>>, FunOf(<<Item("x", T)>>, <<>>), <<Node("Block", "", {}, << <<n>> >>)>>)>>, <<>>, <<>>)
Function(n) == Fun("A", {}, <<Param("T")>>, FunOf(<<Item("x", T)>>, <<T>>), <<Node("Block", "", {}, << <<n>> >>)>>)

I32 == Prim("i32")
A(t) == Ref("", "A", <<t>>)
Call(t) == Node("Instantiation", "", {}, << <<Id("A")>>, <<t>> >>)
Applied(name, t) == Ref("", name, <<t>>)

(***************************************************************************)
(* The inputs: what stands where in A, and what is asked for: a node in a  *)
(* method or a function, a type in every position of a class, what may not *)
(* be asked for.                                                           *)
(***************************************************************************)
MemberTypes == {T, I32, ArrayOf(T), ChannelOf({"in"}, T), ChannelOf({"in"}, ArrayOf(T)), A(T), A(I32), Applied("B", T),
    Applied("B", I32), Applied("B", ArrayOf(T)), Applied("B", Applied("B", T)), Applied("B", Applied("C", T)), Applied("D", T),
    Applied("S", T), Applied("E", T), Applied("I", T), Ref("lib", "L", <<T>>), Ref("li", "L", <<T>>), Applied("L", T),
    Ref("", "Q", <<>>), Ref("", "N", <<>>), Ref("", "B", <<>>), FunOf(<<>>, <<T>>), FunOf(<<T>>, <<>>)}
Within(kind, position, t) ==
    LET fun(params, returns, body) == <<Fun("f", {}, <<>>, FunOf(params, returns), body)>>
        primary == IF t.prefix = "" THEN Id(t.name) ELSE Node("Dot", t.name, {}, << <<Id(t.prefix)>> >>)
        callee == IF t.of[1] = <<>> THEN primary ELSE Node("Instantiation", "", {}, << <<primary>>, t.of[1]>>)
    IN CASE position = "method" -> WithBody(t)
         [] position = "function" -> Function(t)
         [] position = "member" -> Class(kind, "A", IF t.node = "Parameter" THEN <<t>> ELSE <<>>, IF t.node = "Field" THEN <<t>> ELSE <<>>,
                                         IF t.node = "FunctionDeclaration" THEN <<t>> ELSE <<>>, <<>>, <<>>)
         [] position = "field" -> Class(kind, "A", <<>>, <<Field("x", {}, t)>>, <<>>, <<>>, <<>>)
         [] position = "parameter" -> Class(kind, "A", <<>>, <<>>, fun(<<Item("a", t)>>, <<>>, <<>>), <<>>, <<>>)
         [] position = "returned" -> Class(kind, "A", <<>>, <<>>, fun(<<>>, <<t>>, <<>>), <<>>, <<>>)
         [] position = "cast" -> Class(kind, "A", <<>>, <<>>, fun(<<>>, <<>>, <<Cast(t)>>), <<>>, <<>>)
         [] position = "concept" -> Class(kind, "A", <<>>, <<>>, <<>>, <<>>, <<t>>)
         [] position = "base" -> Class(kind, "A", <<>>, <<>>, <<>>, <<Node("Calling", "", {}, << <<callee>>, <<>> >>)>>, <<>>)
Possible(kind, position, t) ==
    /\ position \in {"base", "concept"} => t.node = "Type" /\ Has(t, "symbol") /\ t.name \notin {"T", "N"}
    /\ position = "concept" => kind = "ClassDefinition"
Input(position, kind, n, imports, requests) ==
    [position |-> position, kind |-> kind, node |-> n, imports |-> imports, requests |-> requests]
BodyInputs ==
    {Input("method", "ClassDefinition", n, Alone, r) : n \in UNION {Bodies(k) : k \in InBodies}, r \in {<<A(I32)>>, <<A(I32), A(Prim("f32"))>>}}
    \union {Input("function", "FunctionDeclaration", n, Alone, <<Call(I32)>>) : n \in UNION {Bodies(k) : k \in InBodies}}
TypeInputs ==
    {Input(c[1], c[2], c[3], c[4], c[5]) :
       c \in {c \in {"field", "parameter", "returned", "cast", "concept", "base"} \X {"ClassDefinition", "StructDefinition"}
                    \X MemberTypes \X Imports
                    \X {<<A(I32)>>, <<A(I32), A(Prim("f32"))>>, <<A(I32), A(I32)>>, <<Applied("B", I32), A(I32)>>, <<A(Applied("B", I32))>>} :
              Possible(c[2], c[1], c[3])}}
MemberInputs ==
    {Input("member", kind, n, Alone, <<A(I32)>>) : kind \in {"ClassDefinition", "StructDefinition", "EnumDefinition"},
       n \in {Field("x", has, T) : has \in {{"access"}, {"annotations"}, KeptOfVariables, {}}}
         \union {Fun("f", has, generics, FunOf(<<>>, <<T>>), <<>>) : has \in {KeptOfFunctions, {}}, generics \in {<<>>, <<Param("U")>>}}
         \union {Node("Parameter", "p", {}, <<of>>) : of \in {<<>>, <<Item("p", T)>>}}}
Refused == {Input("field", kind, T, Alone, <<r>>) : kind \in {"ClassDefinition", "StructDefinition"},
              r \in {A(A(I32)), A(Ref("", "N", <<>>)), Ref("", "A", <<>>), Ref("", "A", <<I32, I32>>), Applied("Q", I32),
                     Applied("N", I32), Applied("E", I32)}}
Families == {"bodies", "types", "members", "refused"}
TemplateInputs(family) == CASE family = "bodies" -> BodyInputs [] family = "types" -> TypeInputs [] family = "members" -> MemberInputs [] OTHER -> Refused

(***************************************************************************)
(* What the visitor gets wrong.  Of the nodes: what is returned is lost;   *)
(* what names a template with arguments, makes an array, catches, or       *)
(* leaves a type or a destination out is not visited to the end; the       *)
(* capacity of a channel is that of the template, and a channel of symbols *)
(* is linked without a name.  Of the members: a field has the access of    *)
(* any, a method no parameters of its own, and a parameter that is not a   *)
(* field is not visited.  Of the types: an instance of the own package *)
(* is not found again, so that an instance that names itself is endless;   *)
(* enumerations and parameters of function types are not linked; the       *)
(* arguments of a base and the concepts are those of the first instance;   *)
(* a base without arguments is forgotten; a template alone passes.         *)
(***************************************************************************)
LosesNode(n) ==
    \/ n.node \in {"ArrayInitializer", "TryCatchExpression"}
    \/ n.node = "Return" /\ n.of[1] # <<>>
    \/ n.node = "Instantiation" /\ n.of[2] # <<>>
    \/ n.node = "LambdaLiteral" /\ n.of[1][1].of[1][1].of[1] = <<>>
    \/ n.node = "WhenExpression" /\ n.of[2] = <<>>
    \/ n.node = "ChannelInitializer" /\ (Has(n.of[1][1].of[1][1], "symbol") \/ n.of[2] = <<Cast(T)>>)
LosesMember(n) ==
    \/ n.node = "Field" /\ n.of[1][1].has \intersect {"access", "annotations"} # {}
    \/ n.node = "FunctionDeclaration" /\ n.of[1] # <<>>
    \/ n.node = "Parameter" /\ n.of[1] # <<>>
MadeAgain(input) ==
    \/ input.node = Applied("B", I32) /\ input.requests \notin {<<A(I32)>>, <<A(I32), A(I32)>>}
    \/ input.node = Applied("B", T) /\ Head(input.requests) = Applied("B", I32)
FirstForAll(input) ==
    /\ input.requests = <<A(I32), A(Prim("f32"))>>
    /\ \/ input.node.node = "ChannelInitializer" /\ input.node.of[1][1].of[1] = <<ArrayOf(T)>>
       \/ input.position = "concept" /\ input.node = Applied("I", T)
       \/ input.position = "base" /\ input.kind = "ClassDefinition" /\ input.node \in {Applied("B", ArrayOf(T)), Applied("B", Applied("C", T))}
LosesType(input) ==
    \/ input.node \in {A(T), A(I32)}
    \/ input.node = Applied("E", T) /\ input.position # "base"
    \/ input.node = FunOf(<<T>>, <<>>)
    \/ input.position = "base" /\ input.node.of[1] = <<>>
    \/ MadeAgain(input) /\ input.position # "concept" /\ (input.position = "base" => input.kind = "ClassDefinition")
    \/ input.requests = <<Ref("", "A", <<>>)>>
Misinstantiated(input) == FirstForAll(input) \/ (IF IsType(input.node) THEN LosesType(input) ELSE LosesNode(input.node) \/ LosesMember(input.node))

(***************************************************************************)
(* Every application that is legal has one instance, which is its template *)
(* with the arguments; what is not legal is refused.                       *)
(***************************************************************************)
ProgramOf(input) == Program(Within(input.kind, input.position, input.node), input.imports)
Instantiates(input) ==
    LET program == ProgramOf(input)
        s == AskAll(input.requests, Start(program.definitions, program.imports))
        made == {k \in DOMAIN s.defs : s.defs[k].original # 0}
        args(r) == IF r.node = "Instantiation" THEN r.of[2] ELSE r.of[1]
        legal == \A i \in DOMAIN input.requests : LET r == input.requests[i] IN
                   /\ IsType(r) => ~Unknown(Denotes(program, "main", <<>>, r))
                   /\ (r.node = "Instantiation" \/ r.name = "A") => Legal(program, args(r))
    IN IF legal THEN /\ s.status = "ok"
                     /\ \A k \in made : InstanceOfTemplate(program, s, k)
                     /\ \A j, k \in made : s.defs[j].name = s.defs[k].name => j = k
       ELSE s.status = "error"
=============================================================================
