----------------------------- MODULE TypeReducing -----------------------------
(* The type reducing visitor of the compiler (type-reducing.cc, scope.cc).   *)
(* Each visitor takes the definitions `g`, the stack `s` of scopes and a     *)
(* node, and has a result: whether it succeeded, the types of the node's     *)
(* values, and the scopes as it leaves them.  A crash counts as a failure.   *)
(* Packages, templates and the linking of names are left out.                *)
EXTENDS Types

Scope(kind) == [kind |-> kind, syms |-> <<>>]
FunctionScope(proto, reduce) ==
  [kind |-> "function", syms |-> <<>>, proto |-> proto, reduce |-> reduce, caps |-> {}]
DataScope(d) == [kind |-> "data", syms |-> <<>>, d |-> d]

\* What a name stands for.  A `val` may not be written, nor may a parameter
\* or the name of a case.
Var(t, val) == [k |-> "var", t |-> t, val |-> val]
Val(t) == Var(t, TRUE)

Fail == [ok |-> FALSE, ts |-> <<>>, s |-> <<>>]
Returning(s, ts) == [ok |-> TRUE, ts |-> ts, s |-> s]
If(condition, r) == IF condition THEN r ELSE Fail
Leave(r) == IF r.ok THEN [r EXCEPT !.s = Front(r.s)] ELSE r

\* The scope of a name, 0 when it is global.
Level(s, x) == Max({i \in DOMAIN s : x \in DOMAIN s[i].syms} \cup {0})
Insert(s, x, sym) == [s EXCEPT ![Len(s)].syms = (x :> sym) @@ @]
FindOrInsert(s, x, sym) == IF x \in DOMAIN Last(s).syms THEN s ELSE Insert(s, x, sym)

\* The members of the bases are symbols of the scope of a definition.
FindSymbol(g, s, x) ==
  IF Level(s, x) > 0 THEN s[Level(s, x)].syms[x]
  ELSE IF x \in DOMAIN g THEN g[x] ELSE [k |-> NoSymbol]

\* A function scope does not hide the loops around it.
NearlyLoop(s) == \E i \in DOMAIN s : s[i].kind = "loop"

NearlyFunction(s, n) ==
  LET f == Max({i \in 1..n : s[i].kind = "function"} \cup {0})
  IN  IF \E i \in f..n : i > 0 /\ s[i].kind = "data" THEN 0 ELSE f

NearlyData(s) == Max({i \in DOMAIN s : s[i].kind = "data"} \cup {0})

-----------------------------------------------------------------------------
RECURSIVE Visit(_, _, _)

\* Every value of every node, in order.
Reduce(g, s, es) ==
  FoldLeft(LAMBDA r, e :
             IF ~r.ok THEN Fail
             ELSE LET q == Visit(g, r.s, e) IN If(q.ok, Returning(q.s, r.ts \o q.ts)),
           Returning(s, <<>>), es)

OnlyOne(g, s, e) == LET r == Visit(g, s, e) IN If(r.ok /\ Len(r.ts) = 1, r)

\* The last one of several; without one the results run out.
AtLeastOne(g, s, e) ==
  LET r == Visit(g, s, e) IN If(r.ok /\ r.ts # <<>>, Returning(r.s, <<Last(r.ts)>>))

Two(g, s, l, r) ==
  LET a == OnlyOne(g, s, l) IN
  IF ~a.ok THEN Fail
  ELSE LET b == OnlyOne(g, a.s, r) IN If(b.ok, Returning(b.s, a.ts \o b.ts))

VisitBlock(g, s, e) ==
  Leave(FoldLeft(LAMBDA r, x : IF r.ok THEN Visit(g, r.s, x) ELSE Fail,
                 Returning(Append(s, Scope("block")), <<Unit>>), e.ss))

-----------------------------------------------------------------------------
\* The names are known, without a type, to their own initializers.
VisitVariableDeclaration(g, s, e) ==
  LET names == {i \in DOMAIN e.items : e.items[i].x # "_"}
      fresh == /\ \A i \in names : e.items[i].x \notin DOMAIN Last(s).syms
               /\ \A i, j \in names : i # j => e.items[i].x # e.items[j].x
      declare(q, type(_)) ==
        FoldLeft(LAMBDA z, i : IF i \in names
                               THEN Insert(z, e.items[i].x, Var(type(i), e.val)) ELSE z,
                 q, [i \in DOMAIN e.items |-> i])
      r == Reduce(g, declare(s, LAMBDA i : e.items[i].t), e.inits)
      typed(i) == IF e.items[i].t = NoType THEN r.ts[i] ELSE e.items[i].t
      accepts(i) == e.items[i].t = NoType \/ Acceptable(g, e.items[i].t, r.ts[i])
  IN  IF ~(fresh /\ r.ok /\ Len(r.ts) = Len(e.items) /\ \A i \in names : accepts(i)) THEN Fail
      ELSE Returning(declare(r.s, typed), <<Unit>>)

\* Mutant: a lambda captures nothing.
VisitIdentifier_Uncaptured(g, s, e) ==
  LET sym == FindSymbol(g, s, e.x)
  IN  If(sym.k = "var" /\ sym.t # NoType, Returning(s, <<sym.t>>))

\* A variable of the function around is captured, one further out is not
\* reachable.  A use before the type is known is a null pointer.
VisitIdentifier(g, s, e) ==
  LET sym == FindSymbol(g, s, e.x)
      inner == NearlyFunction(s, Len(s))
      outer == NearlyFunction(s, Level(s, e.x))
      captured == [s EXCEPT ![inner].caps = @ \cup {e.x}]
      seen == CASE 0 \in {inner, outer} \/ inner = outer -> <<s>>
                [] NearlyFunction(s, inner - 1) = outer -> <<captured>>
                [] OTHER -> <<>>
  IN  CASE e.x = "_" \/ seen = <<>> -> Fail
        [] sym.k = "fun" -> Returning(seen[1], <<sym.proto>>)
        [] sym.k = "var" /\ sym.t # NoType -> Returning(seen[1], <<sym.t>>)
        [] OTHER -> Fail

\* Inside of the definition a member of a base must be protected, and its
\* own may have any access.
CheckAccessable(s, d, member) ==
  LET inside == NearlyData(s) > 0 /\ s[NearlyData(s)].d = d
  IN  IF inside THEN member.level = d \/ member.sym.access = "protected"
                ELSE member.sym.access = "public"

\* The definition with the members of a value of a type.
Specified(t) ==
  CASE t.k \in {"class", "struct", "enum", "interface"} -> t.d
    [] t.k = "any" -> "Any"
    [] t.k = "string" -> "String"
    [] OTHER -> NoSymbol

FindMember(t, f) ==
  LET text == Signed(FunctionPrototype(<<>>, <<Ty("string")>>))
      length == Signed(FunctionPrototype(<<I32>>, <<I32>>))
      of == CASE t.k = "array" /\ t.dims = 1 -> "size" :> I32
              [] t.k = "array" -> "size" :> I32 @@ "rank" :> I32 @@ "getLength" :> length
              [] IsNumber(t) -> "toString" :> text
              [] OTHER -> <<>>
  IN  IF f \in DOMAIN of THEN <<of[f]>> ELSE <<>>

MemberType(m) == IF m.k = "fun" THEN m.proto ELSE m.t

VisitDot(g, s, e) ==
  LET r == OnlyOne(g, s, e.e)
      d == Specified(r.ts[1])
      found == FindSymbolWithOwns(g, d, e.f)
  IN  CASE ~r.ok -> Fail
        [] d = NoSymbol -> LET m == FindMember(r.ts[1], e.f)
                           IN  If(m # <<>>, Returning(r.s, m))
        [] OTHER ->
             If(/\ found # <<>>
                /\ g[d].k \in {"class", "struct"} => CheckAccessable(r.s, d, found[1]),
                Returning(r.s, <<MemberType(found[1].sym)>>))

\* A member of an enum, a method included, stands for a value of it.
VisitResolving(g, s, e) ==
  If(g[e.d].k = "enum" /\ LocalSymbol(g, e.d, e.f) # <<>>,
     Returning(s, <<Named("enum", e.d)>>))

-----------------------------------------------------------------------------
\* Mutant: an argument may be a base of what the parameter asks for.
CallConstructor_Reversed(g, s, args, params, t) ==
  LET r == Reduce(g, s, args)
  IN  If(/\ r.ok /\ Len(params) = Len(r.ts)
         /\ \A i \in DOMAIN params : Acceptable(g, r.ts[i], params[i]),
         Returning(r.s, <<t>>))

CallConstructor(g, s, args, params, t) ==
  LET r == Reduce(g, s, args)
  IN  If(r.ok /\ AllAcceptable(g, params, r.ts), Returning(r.s, <<t>>))

\* With variable arguments the ones behind the parameters may be of any
\* type; fewer arguments than parameters are read past their end.
CallPrototype(g, s, args, proto) ==
  LET r == Reduce(g, s, args)
      fixed == SubSeq(r.ts, 1, Len(proto.params))
  IN  If(/\ r.ok /\ Len(r.ts) >= Len(proto.params)
         /\ (proto.vargs \/ Len(r.ts) = Len(proto.params))
         /\ AllAcceptable(g, proto.params, fixed),
         Returning(r.s, proto.rets))

Types(fs) == [i \in DOMAIN fs |-> fs[i].t]

VisitCalling(g, s, e) ==
  LET sym == CASE e.f.k = "id" -> FindSymbol(g, s, e.f.x)
               [] e.f.k = "resolve" -> LocalSymbol(g, e.f.d, e.f.f)[1]
               [] OTHER -> [k |-> NoSymbol]
      callee == OnlyOne(g, s, e.f)
  IN  CASE e.f.k = "resolve" /\ ~VisitResolving(g, s, e.f).ok -> Fail
        [] sym.k \in {"class", "struct"} ->
             CallConstructor(g, s, e.args, Types(sym.params), Named(sym.k, e.f.x))
        [] sym.k = "value" -> CallConstructor(g, s, e.args, sym.items, Named("enum", e.f.d))
        [] sym.k = "fun" -> CallPrototype(g, s, e.args, sym.proto)
        [] OTHER -> IF callee.ok /\ callee.ts[1].k = "function"
                    THEN CallPrototype(g, callee.s, e.args, callee.ts[1]) ELSE Fail

Indices(ts, dims) == Len(ts) = dims /\ \A i \in DOMAIN ts : ts[i].k \in {"i32", "u32"}

VisitIndexedGet(g, s, e) ==
  LET a == OnlyOne(g, s, e.e) IN
  IF ~a.ok \/ a.ts[1].k # "array" THEN Fail
  ELSE LET is == Reduce(g, a.s, e.is)
       IN  If(is.ok /\ Indices(is.ts, a.ts[1].dims), Returning(is.s, <<a.ts[1].e>>))

\* What is written: a variable that is no `val`, a field that is none, or
\* an element of an array.  A variable is not captured here.
Writable(s, sym, initial) ==
  If(sym.k = "var" /\ (initial \/ ~sym.val), Returning(s, <<sym.t>>))

WritableField(g, s, e, initial) ==
  LET r == OnlyOne(g, s, e.e)
      d == IF r.ok THEN Specified(r.ts[1]) ELSE NoSymbol
      found == IF d = NoSymbol THEN <<>> ELSE FindSymbolWithOwns(g, d, e.f)
  IN  IF found = <<>> \/ g[d].k \notin {"class", "struct"} THEN Fail
      ELSE If(CheckAccessable(r.s, d, found[1]), Writable(r.s, found[1].sym, initial))

LVal(g, s, e, initial) ==
  CASE e.k = "id" -> Writable(s, FindSymbol(g, s, e.x), initial)
    [] e.k = "dot" -> WritableField(g, s, e, initial)
    [] e.k = "index" -> VisitIndexedGet(g, s, e)
    [] OTHER -> Fail

VisitAssignment(g, s, e) ==
  LET r == Reduce(g, s, e.rs)
      l == FoldLeft(LAMBDA q, x :
                      IF ~q.ok THEN Fail
                      ELSE LET v == LVal(g, q.s, x, e.initial) IN If(v.ok, Returning(v.s, q.ts \o v.ts)),
                    Returning(r.s, <<>>), e.ls)
  IN  IF ~r.ok THEN Fail
      ELSE If(l.ok /\ AllAcceptable(g, l.ts, r.ts), Returning(l.s, <<Unit>>))

-----------------------------------------------------------------------------
Names(ps) == {ps[i].x : i \in DOMAIN ps} \ {"_"}

Prototype(e) == [FunctionPrototype(Types(e.params), e.rets) EXCEPT !.vargs = e.vargs]

\* The scope of a function has its parameters and what else it knows.
Enter(s, e, stubs) ==
  LET duplicate == \E i, j \in DOMAIN e.params :
                      /\ i # j /\ e.params[i].x = e.params[j].x /\ e.params[i].x # "_"
      args == IF e.vargs THEN "args" :> Val(ArrayType(Top, 1)) ELSE <<>>
      params == [x \in Names(e.params) |-> Val((CHOOSE p \in ToSet(e.params) : p.x = x).t)]
      scope == [FunctionScope(Prototype(e), e.reduce) EXCEPT !.syms = params @@ stubs @@ args]
  IN  If(~duplicate /\ Names(e.params) \cap DOMAIN (stubs @@ args) = {},
         Returning(Append(s, scope), <<>>))

\* The declared types of what a reduced body gives are compared the wrong
\* way round: the type of the value must accept the declared one.
Reduced(g, rets, ts) ==
  IF rets = <<>> THEN ts
  ELSE IF AllAcceptable(g, ts, rets) THEN rets ELSE <<NoType>>

\* What is known of a function once its body is reduced.
Leaving(e, body, rets) ==
  IF ~body.ok \/ rets = <<NoType>> THEN Fail
  ELSE Leave(Returning(body.s, <<Signed([Prototype(e) EXCEPT !.rets = rets])>>))

\* A body in braces gives nothing but unit, a reduced one without a value
\* leaves the function without a type to return.
VisitFunctionDeclaration(g, s, e) ==
  LET data == NearlyData(s)
      stubs == IF data = 0 THEN <<>>
               ELSE "this" :> Val(Named(g[s[data].d].k, s[data].d)) @@
                    e.x :> [k |-> "fun", proto |-> Prototype(e)]
      in == Enter(s, e, stubs)
      body == IF in.ok THEN Visit(g, in.s, e.body) ELSE Fail
  IN  Leaving(e, body, IF e.reduce THEN Reduced(g, e.rets, body.ts)
                       ELSE IF e.rets = <<>> THEN <<Unit>> ELSE e.rets)

\* The body of a lambda, with what it captures in the scope on top.
LambdaBody(g, s, e) ==
  LET in == Enter(s, e, "callee" :> Val(Prototype(e)))
  IN  IF in.ok THEN Visit(g, in.s, e.body) ELSE Fail

VisitLambdaLiteral(g, s, e) ==
  LET body == LambdaBody(g, s, e)
      rets == Reduced(g, e.rets, body.ts)
  IN  Leaving(e, body, IF rets = <<>> THEN <<Unit>> ELSE rets)

VisitReturn(g, s, e) ==
  LET r == Reduce(g, s, e.es)
      f == NearlyFunction(s, Len(s))
  IN  If(r.ok /\ f > 0 /\ ~s[f].reduce /\ AllAcceptable(g, s[f].proto.rets, r.ts),
         Returning(r.s, <<Unit>>))
-----------------------------------------------------------------------------
\* A condition is the last value of an expression and of type bool.
Condition(g, s, e) ==
  LET r == AtLeastOne(g, s, e) IN If(r.ok /\ Primary(r.ts[1]) = "bool", r)

\* `first` says that the body comes before the condition.
VisitConditionLoop(g, s, e) ==
  LET in == Reduce(g, Append(s, Scope("loop")), e.init)
      a == IF ~in.ok THEN Fail
           ELSE IF e.first THEN Visit(g, in.s, e.body) ELSE Condition(g, in.s, e.cond)
      b == IF ~a.ok THEN Fail
           ELSE IF e.first THEN Condition(g, a.s, e.cond) ELSE Visit(g, a.s, e.body)
  IN  If(b.ok, Returning(Front(b.s), <<Unit>>))

\* The primary type of a channel is never `channel`: only arrays iterate.
GetIterationType(t) ==
  CASE Primary(t) # "array" -> NoType
    [] t.dims = 1 -> t.e
    [] OTHER -> ArrayType(t.e, t.dims - 1)

Iteration(g, s, e) ==
  IF e.k = "foreach" THEN
    LET r == AtLeastOne(g, s, e.it)
    IN  IF r.ok THEN Returning(r.s, <<GetIterationType(r.ts[1])>>) ELSE Fail
  ELSE
    LET r == Reduce(g, s, <<e.lo, e.hi>>)
    IN  If(r.ok /\ IsIntegral(r.ts[1]) /\ IsIntegral(r.ts[2]),
           Returning(r.s, <<ReduceType(g, r.ts[1], r.ts[2])>>))

VisitForeachLoop(g, s, e) ==
  LET i == Iteration(g, Append(s, Scope("loop")), e)
      body == IF i.ok /\ i.ts # <<NoType>>
              THEN Visit(g, FindOrInsert(i.s, e.x, Val(i.ts[1])), e.body) ELSE Fail
  IN  If(body.ok, Returning(Front(body.s), <<Unit>>))

VisitBreak(s) == If(NearlyLoop(s), Returning(s, <<Unit>>))

Throwable(g, t) == t.k = "class" /\ IsBaseOf(g, t.d, "Throwable")

VisitThrow(g, s, e) ==
  LET r == OnlyOne(g, s, e.e)
  IN  If(r.ok /\ NearlyFunction(s, Len(s)) > 0 /\ Throwable(g, r.ts[1]),
         Returning(r.s, <<Unit>>))

VisitCasting(g, s, e) ==
  LET r == OnlyOne(g, s, e.e)
  IN  If(r.ok /\ CastingFeasibilityTest(g, e.t, r.ts[1]), Returning(r.s, <<e.t>>))

VisitTesting(g, s, e) ==
  LET r == VisitCasting(g, s, e) IN If(r.ok, Returning(r.s, <<Bool>>))

\* Operands of any type are taken.
VisitLogic(g, s, e) ==
  LET r == Two(g, s, e.l, e.r) IN If(r.ok, Returning(r.s, <<Bool>>))

\* A null pointer is asked for the type of the operand.
VisitNot(g, s, e) == Fail

\* Mutant: any two operands of these kinds.
ReduceBinaryExpression_Mixed(g, s, e, kinds) ==
  LET r == Two(g, s, e.l, e.r)
  IN  If(r.ok /\ {Primary(r.ts[1]), Primary(r.ts[2])} \subseteq kinds,
         Returning(r.s, <<r.ts[1]>>))

\* The operands are of these kinds and accept each other.
ReduceBinaryExpression(g, s, e, kinds) ==
  LET r == Two(g, s, e.l, e.r)
  IN  If(/\ r.ok /\ {Primary(r.ts[1]), Primary(r.ts[2])} \subseteq kinds
         /\ Acceptable(g, r.ts[1], r.ts[2]) /\ Acceptable(g, r.ts[2], r.ts[1]),
         Returning(r.s, <<r.ts[1]>>))

VisitOperator(g, s, e) ==
  CASE e.op \in {"+", "-", "*", "/"} -> ReduceBinaryExpression(g, s, e, ToSet(kNumbers))
    [] e.op \in {"%", "|", "&", "^", "<<", ">>"} -> ReduceBinaryExpression(g, s, e, Integral)
    [] e.op \in {"==", "!=", "<", "<=", ">", ">="} ->
         LET r == ReduceBinaryExpression(g, s, e, Comparable)
         IN  If(r.ok, Returning(r.s, <<Bool>>))

VisitUnary(g, s, e) ==
  LET r == OnlyOne(g, s, e.e)
  IN  If(r.ok /\ IF e.op = "-" THEN IsSigned(r.ts[1]) ELSE IsIntegral(r.ts[1]), r)

VisitRecv(g, s, e) ==
  LET r == OnlyOne(g, s, e.e)
  IN  If(r.ok /\ r.ts[1].k = "channel" /\ r.ts[1].in, Returning(r.s, <<r.ts[1].e, Bool>>))

VisitSend(g, s, e) ==
  LET r == Two(g, s, e.l, e.r)
  IN  If(/\ r.ok /\ r.ts[1].k = "channel" /\ r.ts[1].out
         /\ Acceptable(g, r.ts[1].e, r.ts[2]),
         Returning(r.s, <<Bool>>))

VisitChannelInitializer(g, s, e) ==
  LET r == OnlyOne(g, s, e.e) IN If(r.ok /\ IsIntegral(r.ts[1]), Returning(r.s, <<e.t>>))

VisitStringTemplate(g, s, e) ==
  LET parts == FoldLeft(LAMBDA r, x : IF r.ok THEN OnlyOne(g, r.s, x) ELSE Fail,
                        Returning(s, <<>>), e.es)
  IN  If(parts.ok, Returning(parts.s, <<Ty("string")>>))

VisitRunCoroutine(g, s, e) ==
  LET r == Visit(g, s, e.e) IN If(r.ok, Returning(r.s, <<Unit>>))

-----------------------------------------------------------------------------
RECURSIVE Elements(_, _, _), Qualified(_, _, _, _, _, _), ActualDims(_), ActualElement(_)

ActualDims(t) == IF t.k = "array" THEN t.dims + ActualDims(t.e) ELSE 0
ActualElement(t) == IF t.k = "array" THEN ActualElement(t.e) ELSE t

\* The type of the elements of an initializer without a type: what is in
\* nested braces is an array of one dimension.
Elements(g, s, es) ==
  LET element(r, e) ==
        IF e.k = "array"
        THEN LET q == Elements(g, r.s, e.dims)
             IN  If(q.ok, Returning(q.s, Append(r.ts, ArrayType(q.ts[1], 1))))
        ELSE LET q == OnlyOne(g, r.s, e) IN If(q.ok, Returning(q.s, r.ts \o q.ts))
      all == FoldLeft(LAMBDA r, e : IF r.ok THEN element(r, e) ELSE Fail, Returning(s, <<>>), es)
      join == FoldLeft(LAMBDA l, r : ReduceType(g, l, r), Head(all.ts), Tail(all.ts))
  IN  IF ~all.ok \/ all.ts = <<>> THEN Fail ELSE If(join # NoType, Returning(all.s, <<join>>))

\* With a type, a row that is no array itself may have elements of any type;
\* the dimensions that are left are those of the row before.
Qualified(g, s, es, q, limit, count) ==
  LET row(r, e) ==
        LET inner == IF r.count = 1 THEN q.e ELSE q
            left == CASE r.count > 1 -> r.count - 1
                      [] r.q.k = "array" -> r.q.dims
                      [] OTHER -> 1
            d == IF e.k = "array" THEN Qualified(g, r.s, e.dims, inner, limit - 1, left) ELSE Fail
        IN  [ok |-> d.ok, s |-> d.s, q |-> inner, count |-> left]
      element(r, e) ==
        LET t == OnlyOne(g, r.s, e) IN
        [r EXCEPT !.ok = t.ok /\ ReduceType(g, q, t.ts[1]) # NoType, !.s = t.s]
      all == FoldLeft(LAMBDA r, e : CASE ~r.ok -> r
                                      [] q.k = "array" -> row(r, e)
                                      [] OTHER -> element(r, e),
                      [ok |-> limit > 0, s |-> s, q |-> q, count |-> count], es)
  IN  If(all.ok, Returning(all.s, <<q>>))

VisitArrayInitializer(g, s, e) ==
  IF e.t = NoType THEN
    LET r == Elements(g, s, e.dims)
    IN  If(r.ok, Returning(r.s, <<ArrayType(r.ts[1], ActualDims(r.ts[1]) + 1)>>))
  ELSE IF e.fill # <<>> THEN
    LET r == OnlyOne(g, s, e.fill[1])
    IN  If(r.ok /\ Acceptable(g, ActualElement(e.t), r.ts[1]), Returning(r.s, <<e.t>>))
  ELSE
    LET r == Qualified(g, s, e.dims, e.t.e, ActualDims(e.t), e.t.dims)
    IN  If(r.ok, Returning(r.s, <<e.t>>))

-----------------------------------------------------------------------------
\* The value of an expression with branches, whose scope is left.
Branches(g, s, rows, withoutElse) ==
  LET ts == ReduceBranchsTypes(g, rows, withoutElse)
  IN  If(NoType \notin ToSet(ts), Returning(Front(s), ts))

VisitIfExpression(g, s, e) ==
  LET in == Reduce(g, Append(s, Scope("branch")), e.init)
      c == IF in.ok THEN Condition(g, in.s, e.cond) ELSE Fail
      a == IF c.ok THEN Visit(g, c.s, e.then) ELSE Fail
      b == IF a.ok THEN Reduce(g, a.s, e.else) ELSE Fail
  IN  IF b.ok THEN Branches(g, b.s, IF e.else = <<>> THEN <<a.ts>> ELSE <<a.ts, b.ts>>, 1)
      ELSE Fail

\* A clause in a scope of its own, with a name.
Clause(g, s, x, t, then) ==
  Leave(Visit(g, Append(s, [Scope("block") EXCEPT !.syms = x :> Val(t)]), then))

ValuesCase(g, s, c, dest) ==
  LET r == Reduce(g, s, c.vs)
  IN  IF r.ok /\ \A i \in DOMAIN r.ts : Acceptable(g, dest, r.ts[i])
      THEN Visit(g, r.s, c.then) ELSE Fail

TypeCase(g, s, c, dest) ==
  IF CastingFeasibilityTest(g, c.t, dest) THEN Clause(g, s, c.x, c.t, c.then) ELSE Fail

\* It is enough that one of the bounds is a number.
BetweenCase(g, s, c, dest) ==
  LET r == Two(g, s, c.lo, c.hi)
  IN  IF /\ r.ok /\ (IsNumber(r.ts[1]) \/ IsNumber(r.ts[2]))
         /\ Primary(r.ts[1]) = Primary(r.ts[2]) /\ Acceptable(g, dest, r.ts[1])
      THEN Visit(g, r.s, c.then) ELSE Fail

\* The clause is reduced once for each of the names, which it sees alone.
StructCase(g, s, c) ==
  LET field(x) == LocalSymbol(g, c.t.d, x)
  IN  FoldLeft(LAMBDA r, x :
                 IF ~r.ok \/ field(x) = <<>> \/ field(x)[1].k # "var" THEN Fail
                 ELSE LET q == Clause(g, r.s, x, field(x)[1].t, c.then)
                      IN  If(q.ok, Returning(q.s, r.ts \o q.ts)),
               If(c.t.k \in {"struct", "class"}, Returning(s, <<>>)), c.names)

Case(g, s, c, dest) ==
  CASE c.k = "values" -> ValuesCase(g, s, c, dest)
    [] c.k = "type" -> TypeCase(g, s, c, dest)
    [] c.k = "between" -> BetweenCase(g, s, c, dest)
    [] c.k = "struct" -> StructCase(g, s, c)

\* The value of an enum and the names it binds to what it holds: they stay
\* in the scope of the whole expression, with the type of the first case.
EnumValue(g, d, v) ==
  LET x == IF v.k = "id" THEN v.x ELSE v.f.x
      value == LocalSymbol(g, d, x)
  IN  IF value = <<>> \/ value[1].k # "value" \/ (v.k = "call" /\ Len(v.args) # Len(value[1].items))
      THEN <<>> ELSE value

ProcessEnumValueMatching(g, s, d, v) ==
  IF v.k # "call" THEN s
  ELSE FoldLeft(LAMBDA q, i : FindOrInsert(q, v.args[i].x, Val(EnumValue(g, d, v)[1].items[i])),
                s, [i \in DOMAIN v.args |-> i])

EnumCase(g, s, c, d) ==
  LET bound == FoldLeft(LAMBDA q, v : ProcessEnumValueMatching(g, q, d, v), s, c.vs)
  IN  IF c.k = "values" /\ \A i \in DOMAIN c.vs : EnumValue(g, d, c.vs[i]) # <<>>
      THEN Visit(g, bound, c.then) ELSE Fail

Rows(s, cases, reduce(_, _)) ==
  FoldLeft(LAMBDA r, c : IF ~r.ok THEN r
                         ELSE LET q == reduce(r.s, c)
                              IN  [ok |-> q.ok, s |-> q.s, rows |-> Append(r.rows, q.ts)],
           [ok |-> TRUE, s |-> s, rows |-> <<>>], cases)

\* Mutant: the values that no case names are not missed.
AllValues_Some(g, d, cases) == TRUE

AllValues(g, d, cases) ==
  \A value \in ToSet(g[d].fields) : \E c \in ToSet(cases) : \E i \in DOMAIN c.vs :
    EnumValue(g, d, c.vs[i])[1].x = value.x

VisitWhenExpression(g, s, e) ==
  LET in == Reduce(g, Append(s, Scope("branch")), e.init)
      dest == IF in.ok THEN AtLeastOne(g, in.s, e.e) ELSE Fail
      t == dest.ts[1]
      enum == t.k = "enum"
      cases == Rows(dest.s, e.cases, LAMBDA q, c : IF enum THEN EnumCase(g, q, c, t.d)
                                                   ELSE Case(g, q, c, t))
      else == Reduce(g, cases.s, e.else)
      rows == IF e.else = <<>> THEN cases.rows ELSE Append(cases.rows, else.ts)
  IN  IF ~dest.ok \/ ~cases.ok \/ ~else.ok THEN Fail
      ELSE IF enum /\ e.else = <<>>
      THEN IF AllValues(g, t.d, e.cases) THEN Branches(g, else.s, rows, Len(rows) - 1) ELSE Fail
      ELSE Branches(g, else.s, rows, Len(e.cases))

VisitTryCatchExpression(g, s, e) ==
  LET body == Visit(g, Append(s, Scope("try")), e.body)
      cases == Rows(body.s, e.catches,
                    LAMBDA q, c : IF Throwable(g, c.t) THEN Clause(g, q, c.x, c.t, c.then) ELSE Fail)
      distinct == \A i, j \in DOMAIN e.catches : i # j => e.catches[i].t # e.catches[j].t
      value == Branches(g, cases.s, <<body.ts>> \o cases.rows, Len(e.catches))
      finally == Reduce(g, value.s, e.finally)
  IN  IF body.ok /\ cases.ok /\ distinct /\ value.ok /\ finally.ok
      THEN Returning(finally.s, value.ts) ELSE Fail

-----------------------------------------------------------------------------
(* Definitions: the visit of one says whether it is accepted.                *)

\* The members of the bases, the nearer before the farther, and what calls
\* the constructor of a base.
Constructor(d) == d \o "$constructor"

ConstructorOf(g, d) ==
  [k |-> "fun", proto |-> Signed(FunctionPrototype(Types(g[d].params), <<Unit>>))]

InstallAncestorsSymbols(g, d) ==
  LET members(a) == [x \in {m.x : m \in ToSet(g[a].fields \o g[a].methods)} |->
                       LocalSymbol(g, a, x)[1]]
  IN  FoldLeft(LAMBDA syms, a : syms @@ members(a) @@ Constructor(a) :> ConstructorOf(g, a),
               <<>>, Ancestors(g, d))

\* The methods of the concepts, each with its interface.
Concepts(g, d) ==
  UNION {ToSet(g[i].methods) : i \in ToSet(g[d].koncepts)}

\* Mutant: the name is enough.
Implements_Name(g, d, m, target) == m.x = target.x

Implements(g, d, m, target) ==
  m.x = target.x /\ Signature(m.proto) = Signature(target.proto)

\* What a method with `override` implements: methods of concepts, or the
\* nearest member of a base of that name.
ImplementMethodOnce(g, d, m) ==
  LET above == IF g[d].base = NoSymbol THEN <<>> ELSE FindSymbolWithOwns(g, g[d].base, m.x)
  IN  \/ \E target \in Concepts(g, d) : Implements(g, d, m, target)
      \/ above # <<>> /\ above[1].sym.k = "fun" /\ Implements(g, d, m, above[1].sym)

UnimplementMethods(g, d) ==
  {target \in Concepts(g, d) :
     ~\E m \in ToSet(g[d].methods) : m.over /\ Implements(g, d, m, target)}

\* The constructor calls that of the base, and assigns to the fields what
\* they are given or what they start with.
GeneratePrimaryConstructor(g, d) ==
  LET c == g[d]
      id(x) == [k |-> "id", x |-> x]
      field(x) == [k |-> "dot", e |-> id("this"), f |-> x]
      super == IF c.base = NoSymbol THEN <<>>
               ELSE <<[k |-> "call", f |-> id(Constructor(c.base)), args |-> c.super]>>
      assign(f) == [k |-> "assign", ls |-> <<field(f.x)>>, initial |-> TRUE,
                    rs |-> IF f.init = <<>> THEN <<id(f.x)>> ELSE f.init]
      given == SelectSeq(c.fields, LAMBDA f : f.init = <<>>)
      other == SelectSeq(c.fields, LAMBDA f : f.init # <<>>)
      assigns == [i \in DOMAIN c.fields |-> assign((given \o other)[i])]
  IN  [k |-> "function", x |-> Constructor(d), params |-> c.params, rets |-> <<>>,
       vargs |-> FALSE, reduce |-> FALSE,
       body |-> [k |-> "block", ss |-> super \o assigns \o <<[k |-> "return", es |-> <<>>]>>]]

\* A field of the constructor is only declared, another is a declaration
\* with its initializer.
VisitField(g, s, f) ==
  IF f.init = <<>> THEN If(f.x \notin DOMAIN Last(s).syms, Returning(Insert(s, f.x, f), <<>>))
  ELSE Visit(g, s, [k |-> "var", val |-> f.val, items |-> <<[x |-> f.x, t |-> f.t]>>,
                    inits |-> f.init])

VisitMethod(g, s, d, m) ==
  LET r == IF m.fun = <<>> THEN Returning(s, <<>>) ELSE VisitFunctionDeclaration(g, s, m.fun[1])
  IN  If(r.ok /\ (m.over => ImplementMethodOnce(g, d, m)), Returning(r.s, <<>>))

Members(g, s, d) ==
  LET fields == FoldLeft(LAMBDA r, f : IF r.ok THEN VisitField(g, r.s, f) ELSE Fail,
                         Returning(s, <<>>), g[d].fields)
  IN  FoldLeft(LAMBDA r, m : IF r.ok THEN VisitMethod(g, r.s, d, m) ELSE Fail,
               fields, g[d].methods)

DataDefinitionScope(g, d) ==
  <<[DataScope(d) EXCEPT !.syms = InstallAncestorsSymbols(g, d)]>>

VisitClassDefinition(g, d) ==
  LET scope == DataDefinitionScope(g, d)
      members == Members(g, scope, d)
  IN  /\ g[d].base # NoSymbol => g[g[d].base].k = "class"
      /\ \A i \in ToSet(g[d].koncepts) : g[i].k = "interface"
      /\ members.ok /\ UnimplementMethods(g, d) = {}
      /\ VisitFunctionDeclaration(g, members.s, GeneratePrimaryConstructor(g, d)).ok

\* The constructor of a struct is visited before its fields.
VisitStructDefinition(g, d) ==
  LET scope == DataDefinitionScope(g, d)
      made == VisitFunctionDeclaration(g, scope, GeneratePrimaryConstructor(g, d))
  IN  /\ g[d].base # NoSymbol => g[g[d].base].k = "struct"
      /\ made.ok /\ Members(g, made.s, d).ok

VisitEnumDefinition(g, d) ==
  LET values == g[d].fields
  IN  /\ \A i, j \in DOMAIN values : i # j => values[i].x # values[j].x
      /\ \A m \in ToSet(g[d].methods) : VisitMethod(g, <<DataScope(d)>>, d, m).ok

VisitInterfaceDefinition(g, d) ==
  \A i, j \in DOMAIN g[d].methods : i # j => g[d].methods[i].x # g[d].methods[j].x

VisitDefinition(g, d) ==
  CASE g[d].k = "class" -> VisitClassDefinition(g, d)
    [] g[d].k = "struct" -> VisitStructDefinition(g, d)
    [] g[d].k = "enum" -> VisitEnumDefinition(g, d)
    [] g[d].k = "interface" -> VisitInterfaceDefinition(g, d)
    [] g[d].k = "fun" -> VisitFunctionDeclaration(g, <<>>, g[d].fun[1]).ok

-----------------------------------------------------------------------------
Literal(g, s, e) ==
  CASE e.k = "lit" -> Returning(s, <<e.t>>)
    [] e.k = "id" -> VisitIdentifier(g, s, e)
    [] e.k = "lambda" -> VisitLambdaLiteral(g, s, e)
    [] e.k = "array" -> VisitArrayInitializer(g, s, e)
    [] e.k = "chan" -> VisitChannelInitializer(g, s, e)
    [] e.k = "template" -> VisitStringTemplate(g, s, e)

Access(g, s, e) ==
  CASE e.k = "dot" -> VisitDot(g, s, e)
    [] e.k = "resolve" -> VisitResolving(g, s, e)
    [] e.k = "call" -> VisitCalling(g, s, e)
    [] e.k = "index" -> VisitIndexedGet(g, s, e)

Operation(g, s, e) ==
  CASE e.k = "op" -> VisitOperator(g, s, e)
    [] e.k = "unary" -> VisitUnary(g, s, e)
    [] e.k = "logic" -> VisitLogic(g, s, e)
    [] e.k = "not" -> VisitNot(g, s, e)
    [] e.k = "recv" -> VisitRecv(g, s, e)
    [] e.k = "send" -> VisitSend(g, s, e)
    [] e.k = "cast" -> VisitCasting(g, s, e)
    [] e.k = "test" -> VisitTesting(g, s, e)

Control(g, s, e) ==
  CASE e.k = "block" -> VisitBlock(g, s, e)
    [] e.k = "if" -> VisitIfExpression(g, s, e)
    [] e.k = "when" -> VisitWhenExpression(g, s, e)
    [] e.k = "try" -> VisitTryCatchExpression(g, s, e)
    [] e.k = "while" -> VisitConditionLoop(g, s, e)
    [] e.k \in {"foreach", "range"} -> VisitForeachLoop(g, s, e)
    [] e.k = "break" -> VisitBreak(s)

Effect(g, s, e) ==
  CASE e.k = "var" -> VisitVariableDeclaration(g, s, e)
    [] e.k = "assign" -> VisitAssignment(g, s, e)
    [] e.k = "return" -> VisitReturn(g, s, e)
    [] e.k = "throw" -> VisitThrow(g, s, e)
    [] e.k = "run" -> VisitRunCoroutine(g, s, e)

Visit(g, s, e) ==
  CASE e.k \in {"lit", "id", "lambda", "array", "chan", "template"} -> Literal(g, s, e)
    [] e.k \in {"dot", "resolve", "call", "index"} -> Access(g, s, e)
    [] e.k \in {"op", "unary", "logic", "not", "recv", "send", "cast", "test"} ->
         Operation(g, s, e)
    [] e.k \in {"var", "assign", "return", "throw", "run"} -> Effect(g, s, e)
    [] OTHER -> Control(g, s, e)
=============================================================================
