------------------------------ MODULE MCTyping ------------------------------
(* Definitions and programs for the type reducing visitor: what it accepts   *)
(* must never go wrong, and has values of the types it says.                 *)

(* What a program does, whatever the type reducing visitor says of it: the   *)
(* outcomes of a node, with the values it has when it ends.  A value is the  *)
(* type it was made with; conditions go either way and loops run at most     *)
(* once.  A program is wrong when it uses a value as what it is not.         *)
EXTENDS TypeReducing

Implementing(g, d, i) == \E c \in {d} \cup ToSet(Ancestors(g, d)) : IsConceptOf(g, c, i)
DerivedFrom(g, k, d) == {x \in DOMAIN g : g[x].k = k /\ (x = d \/ IsBaseOf(g, x, d))}

\* A number stands for those that convert to it without a cast, anything
\* may be boxed: the missing value of an Optional too, which is unit here.
RECURSIVE Is(_, _, _)
Is(g, v, t) ==
  CASE t = Top -> TRUE
    [] t.k \in ToSet(kNumbers) -> v.k \in ToSet(kNumbers) /\ Order(v) <= Order(t)
    [] t.k \in {"class", "struct"} -> v.k = t.k /\ v.d \in DerivedFrom(g, t.k, t.d)
    [] t.k = "interface" -> v.k = "class" /\ Implementing(g, v.d, t.d)
    [] t.k = "enum" /\ "e" \in DOMAIN t -> v = Unit \/ Is(g, v, t.e)
    [] t.k = "enum" -> v.k = "enum" /\ v.d = t.d
    [] t.k = "array" -> v.k = "array" /\ v.dims = t.dims /\ \A w \in v.es : Is(g, w, t.e)
    [] t.k = "channel" -> v.k = "channel" /\ \A w \in v.es : Is(g, w, t.e)
    [] t.k = "function" -> v.k = "closure" /\ Len(v.fun.params) = Len(t.params)
    [] OTHER -> v = t

ValuesOf(g, d) == {[k |-> "enum", d |-> d, x |-> f.x] : f \in ToSet(g[d].fields)}

\* The values of a type.
RECURSIVE Witness(_, _)
Witness(g, t) ==
  CASE t = Top -> {I32, Ty("string"), Named("class", "B")}
    [] t.k \in {"class", "struct"} -> {Named(t.k, x) : x \in DerivedFrom(g, t.k, t.d)}
    [] t.k = "interface" ->
         {Named("class", x) : x \in {c \in DOMAIN g : g[c].k = "class" /\ Implementing(g, c, t.d)}}
    [] t.k = "enum" -> ValuesOf(g, t.d)
    [] t.k = "array" -> {[k |-> "array", es |-> Witness(g, t.e), dims |-> t.dims]}
    [] t.k = "channel" -> {[k |-> "channel", es |-> Witness(g, t.e), e |-> t.e]}
    [] t.k = "function" -> {[k |-> "closure", env |-> <<>>,
                             fun |-> [k |-> "native", params |-> [i \in DOMAIN t.params |->
                                        [x |-> "_", t |-> t.params[i]]], rets |-> t.rets]]}
    [] OTHER -> {t}

-----------------------------------------------------------------------------
Out(how, vs, env) == [how |-> how, vs |-> vs, env |-> env]
Ends(v, env) == {Out("value", <<v>>, env)}
Wrong(env) == {Out("wrong", <<>>, env)}
Either(test, os, env) == IF test THEN os ELSE Wrong(env)

Then(os, f(_)) == UNION {IF o.how = "value" THEN f(o) ELSE {o} : o \in os}
Scoped(os, env) == {[o EXCEPT !.env = SubSeq(@, 1, Len(env))] : o \in os}
Bind(env, x, v) == [env EXCEPT ![Len(env)] = (x :> v) @@ @]
BindAll(xs, vs) == [x \in ToSet(xs) |-> vs[CHOOSE i \in DOMAIN xs : xs[i] = x]]
Found(env, x) == Max({i \in DOMAIN env : x \in DOMAIN env[i]} \cup {0})

RECURSIVE Run(_, _, _), Make(_, _, _)

RunAll(g, env, es) ==
  FoldLeft(LAMBDA os, e :
             Then(os, LAMBDA o : {[q EXCEPT !.vs = IF q.how = "value" THEN o.vs \o @ ELSE @] :
                                    q \in Run(g, o.env, e)}),
           {Out("value", <<>>, env)}, es)

Passed(g, vs, ts) == Len(vs) = Len(ts) /\ \A i \in DOMAIN ts : Is(g, vs[i], ts[i])

\* A variable of the outermost scope has any value of its type.
RunId(g, env, x) ==
  LET v == env[Found(env, x)][x] IN
  CASE x \in DOMAIN g -> Ends([k |-> "closure", fun |-> g[x].fun[1], env |-> <<>>], env)
    [] Found(env, x) = 0 -> Wrong(env)
    [] v.k = "some" -> UNION {Ends(w, env) : w \in Witness(g, v.t)}
    [] OTHER -> Ends(v, env)

Native(params, ret) ==
  [k |-> "closure", env |-> <<>>,
   fun |-> [k |-> "native", params |-> params, rets |-> <<ret>>]]

\* A method of the definition the value is of, or else of every value.
RunMember(g, env, v, f) ==
  LET d == CASE v.k \in {"class", "struct", "enum"} -> v.d [] v.k = "string" -> "String"
             [] OTHER -> "Any"
      found == FindSymbolWithOwns(g, d, f)
      m == found[1].sym
  IN  CASE v.k = "array" /\ f = "size" -> Ends(I32, env)
        [] v.k = "array" /\ f = "getLength" -> Ends(Native(<<[x |-> "_", t |-> I32]>>, I32), env)
        [] IsNumber(v) /\ f = "toString" -> Ends(Native(<<>>, Ty("string")), env)
        [] found = <<>> -> Wrong(env)
        [] m.k = "var" -> UNION {Ends(w, env) : w \in Witness(g, m.t)}
        [] m.fun = <<>> -> Ends(Native(<<>>, m.proto.rets[1]), env)
        [] OTHER -> Ends([k |-> "closure", fun |-> m.fun[1], env |-> <<"this" :> v>>], env)

\* What a body that ended has returned.
Returned(fun, o) ==
  CASE o.how = "value" /\ fun.reduce -> o
    [] o.how = "value" -> Out(IF fun.rets = <<>> THEN "value" ELSE "wrong", <<Unit>>, o.env)
    [] o.how = "return" -> Out("value", IF o.vs = <<>> THEN <<Unit>> ELSE o.vs, o.env)
    [] o.how = "break" -> Out("wrong", <<>>, o.env)
    [] OTHER -> o

Apply(g, env, c, vs) ==
  LET n == IF c.k = "closure" THEN Len(c.fun.params) ELSE 0
      xs == [i \in 1..n |-> c.fun.params[i].x]
      frame == BindAll(xs, SubSeq(vs, 1, n)) @@ "args" :> CHOOSE w \in Witness(g, ArrayType(Top, 1)) : TRUE
  IN  CASE c.k # "closure" -> Wrong(env)
        [] c.fun.k = "native" ->
             Either(Passed(g, vs, Types(c.fun.params)),
                    UNION {Ends(w, env) : w \in Witness(g, c.fun.rets[1])}, env)
        [] OTHER ->
             Either(/\ Len(vs) = n \/ (c.fun.vargs /\ Len(vs) > n)
                    /\ Passed(g, SubSeq(vs, 1, n), Types(c.fun.params)),
                    {[Returned(c.fun, o) EXCEPT !.env = env] :
                       o \in Run(g, Append(c.env, frame), c.fun.body)}, env)

\* An object is made when its base is and every field has a value of its type.
Make(g, d, vs) ==
  LET c == g[d]
      env == <<BindAll([i \in DOMAIN c.params |-> c.params[i].x], vs)>>
      base == IF c.base = NoSymbol THEN {Out("value", <<>>, env)}
              ELSE Then(RunAll(g, env, c.super), LAMBDA o : Make(g, c.base, o.vs))
      field(o, f) == {IF q.how = "value" /\ ~Passed(g, q.vs, <<f.t>>) THEN Out("wrong", <<>>, env) ELSE q :
                        q \in IF f.init = <<>> THEN RunId(g, env, f.x) ELSE RunAll(g, env, f.init)}
  IN  Either(Passed(g, vs, Types(c.params)),
             FoldLeft(LAMBDA os, f : Then(os, LAMBDA o : field(o, f)), base, c.fields), env)

RunCall(g, env, e) ==
  LET made(o) == {[q EXCEPT !.env = o.env, !.vs = IF q.how = "value" THEN <<Named(g[e.f.x].k, e.f.x)>> ELSE @] :
                    q \in Make(g, e.f.x, o.vs)}
  IN  CASE e.f.k = "id" /\ e.f.x \in DOMAIN g /\ g[e.f.x].k \in {"class", "struct"} ->
             Then(RunAll(g, env, e.args), made)
        [] e.f.k = "resolve" ->
             LET value == LocalSymbol(g, e.f.d, e.f.f)[1]
             IN  Then(RunAll(g, env, e.args),
                      LAMBDA o : Either(value.k = "value" /\ Passed(g, o.vs, value.items),
                                        Ends([k |-> "enum", d |-> e.f.d, x |-> e.f.f], o.env), o.env))
        [] OTHER -> Then(Run(g, env, e.f),
                         LAMBDA c : Then(RunAll(g, c.env, e.args),
                                         LAMBDA o : Apply(g, o.env, c.vs[1], o.vs)))

-----------------------------------------------------------------------------
\* A value is written where it belongs: a variable of the outermost scope and
\* a field have a type, an array then also holds what was stored.
Store(g, env, l, v) ==
  CASE l.k = "id" ->
         LET i == Found(env, l.x) IN
         CASE i = 0 -> Wrong(env)
           [] env[i][l.x].k = "some" -> Either(Is(g, v, env[i][l.x].t), Ends(Unit, env), env)
           [] OTHER -> Ends(Unit, [env EXCEPT ![i][l.x] = v])
    [] l.k = "dot" ->
         Then(Run(g, env, l.e),
              LAMBDA o : LET f == FindSymbolWithOwns(g, o.vs[1].d, l.f)
                         IN  Either(/\ f # <<>> /\ f[1].sym.k = "var" /\ ~f[1].sym.val
                                    /\ Is(g, v, f[1].sym.t), Ends(Unit, o.env), o.env))
    [] l.k = "index" ->
         LET i == Found(env, l.e.x)
             a == IF i = 0 THEN Unit ELSE env[i][l.e.x]
         IN  CASE a.k = "some" -> Either(a.t.k = "array" /\ Is(g, v, a.t.e), Ends(Unit, env), env)
               [] a.k = "array" -> Ends(Unit, [env EXCEPT ![i][l.e.x].es = @ \cup {v}])
               [] OTHER -> Wrong(env)

RunAssign(g, env, e) ==
  Then(RunAll(g, env, e.rs),
       LAMBDA r : IF Len(r.vs) # Len(e.ls) THEN Wrong(env)
                  ELSE FoldLeft(LAMBDA os, i : Then(os, LAMBDA o : Store(g, o.env, e.ls[i], r.vs[i])),
                                Ends(Unit, r.env), [i \in DOMAIN e.ls |-> i]))

RunVar(g, env, e) ==
  Then(RunAll(g, env, e.inits),
       LAMBDA r : IF Len(r.vs) # Len(e.items) THEN Wrong(env)
                  ELSE Ends(Unit, FoldLeft(LAMBDA q, i : Bind(q, e.items[i].x, r.vs[i]),
                                           r.env, [i \in DOMAIN e.items |-> i])))

Wider(v, w) == IF Order(v) < Order(w) THEN w ELSE v

Operate(op, v, w) ==
  CASE op \in {"==", "!=", "<", "<=", ">", ">="} ->
         IF (v = w /\ v.k \in Comparable) \/ (IsNumber(v) /\ IsNumber(w)) THEN <<Bool>> ELSE <<>>
    [] ~IsNumber(v) \/ ~IsNumber(w) -> <<>>
    [] op \in {"+", "-", "*", "/"} \/ (IsIntegral(v) /\ IsIntegral(w)) -> <<Wider(v, w)>>
    [] OTHER -> <<>>

RunOperation(g, env, e) ==
  CASE e.k = "op" ->
         Then(RunAll(g, env, <<e.l, e.r>>),
              LAMBDA o : LET v == Operate(e.op, o.vs[1], o.vs[2])
                         IN  Either(v # <<>>, {Out("value", v, o.env)}, o.env))
    [] e.k = "unary" -> Then(Run(g, env, e.e), LAMBDA o : Either(IsNumber(o.vs[1]), {o}, o.env))
    [] e.k = "logic" -> Then(RunAll(g, env, <<e.l, e.r>>),
                             LAMBDA o : Either(o.vs = <<Bool, Bool>>, Ends(Bool, o.env), o.env))
    [] e.k = "recv" ->
         Then(Run(g, env, e.e),
              LAMBDA o : Either(o.vs[1].k = "channel",
                                {Out("value", <<w, Bool>>, o.env) : w \in o.vs[1].es}, o.env))
    [] e.k = "send" ->
         Then(RunAll(g, env, <<e.l, e.r>>),
              LAMBDA o : Either(o.vs[1].k = "channel" /\ Is(g, o.vs[2], o.vs[1].e),
                                Ends(Bool, o.env), o.env))

\* A cast that fails throws.
RunCast(g, env, e) ==
  Then(Run(g, env, e.e),
       LAMBDA o :
         LET v == o.vs[1] IN
         CASE e.k = "test" -> Ends(Bool, o.env)
           [] IsNumber(e.t) /\ (IsNumber(v) \/ v.k = "char") -> Ends(e.t, o.env)
           [] v.k = "string" /\ e.t.k = "array" -> UNION {Ends(w, o.env) : w \in Witness(g, e.t)}
           [] v.k = "array" /\ e.t.k = "string" -> Ends(e.t, o.env)
           [] Is(g, v, e.t) -> Ends(v, o.env)
           [] OTHER -> {Out("throw", <<Named("class", "Error")>>, o.env)})

-----------------------------------------------------------------------------
Asked(g, env, e) == Then(Run(g, env, e), LAMBDA o : Either(Last(o.vs) = Bool, {o}, o.env))

RunIf(g, env, e) ==
  Then(RunAll(g, Append(env, <<>>), e.init),
       LAMBDA i : Then(Asked(g, i.env, e.cond),
                       LAMBDA o : Run(g, o.env, e.then) \cup
                                    IF e.else = <<>> THEN Ends(Unit, o.env) ELSE Run(g, o.env, e.else[1])))

\* Whether a case may be taken, and what its names are then.
Taken(g, v, c) ==
  LET names(x) == {i \in DOMAIN c.vs : (IF c.vs[i].k = "id" THEN c.vs[i].x ELSE c.vs[i].f.x) = x}
      arg(i, n) == c.vs[i].args[n].x
      items == LocalSymbol(g, v.d, v.x)[1].items
  IN  CASE c.k = "values" /\ v.k = "enum" ->
             IF names(v.x) = {} THEN {}
             ELSE LET i == CHOOSE i \in names(v.x) : TRUE
                      bound == IF c.vs[i].k = "id" THEN {} ELSE DOMAIN c.vs[i].args
                  IN  {[x \in {arg(i, n) : n \in bound} |->
                          CHOOSE w \in Witness(g, items[CHOOSE n \in bound : arg(i, n) = x]) : TRUE]}
        [] c.k \in {"values", "between"} -> {<<>>}
        [] ~Is(g, v, c.t) -> {}
        [] c.k = "type" -> {c.x :> v}
        [] c.k = "struct" -> {[x \in ToSet(c.names) |->
                                 [k |-> "some", t |-> FindSymbolWithOwns(g, v.d, x)[1].sym.t]]}

\* Values and ranges may fail to match, the others do whenever they can.
Certain(v, c) == v.k = "enum" \/ c.k \in {"type", "struct"}

RECURSIVE RunCases(_, _, _, _, _)
RunCases(g, env, v, cs, else) ==
  IF cs = <<>>
  THEN IF else # <<>> THEN Run(g, env, else[1]) ELSE Either(v.k # "enum", Ends(Unit, env), env)
  ELSE LET c == Head(cs)
           hits == Taken(g, v, c)
           rest == RunCases(g, env, v, Tail(cs), else)
       IN  UNION {Run(g, Append(env, names), c.then) : names \in hits}
             \cup IF hits # {} /\ Certain(v, c) THEN {} ELSE rest

RunWhen(g, env, e) ==
  Then(RunAll(g, Append(env, <<>>), Append(e.init, e.e)),
       LAMBDA o : RunCases(g, o.env, Last(o.vs), e.cases, e.else))

RunTry(g, env, e) ==
  LET catches(o) == {i \in DOMAIN e.catches : Is(g, o.vs[1], e.catches[i].t)}
      first(o) == e.catches[Min(catches(o))]
      caught == UNION {IF o.how = "throw" /\ catches(o) # {}
                       THEN Run(g, Append(SubSeq(o.env, 1, Len(env)), first(o).x :> o.vs[1]), first(o).then)
                       ELSE {o} : o \in Run(g, Append(env, <<>>), e.body)}
      after(o) == {IF q.how = "value" THEN o ELSE q : q \in RunAll(g, SubSeq(o.env, 1, Len(env)), e.finally)}
  IN  UNION {after(o) : o \in caught}

Once(os) == {IF o.how \in {"value", "break"} THEN Out("value", <<Unit>>, o.env) ELSE o : o \in os}

RunLoop(g, env, e) ==
  LET in == Append(env, <<>>)
      each(o) == CASE o.vs[1].k # "array" -> Wrong(env)
                   [] o.vs[1].dims = 1 -> UNION {Run(g, Bind(o.env, e.x, w), e.body) : w \in o.vs[1].es}
                   [] OTHER -> Run(g, Bind(o.env, e.x, [o.vs[1] EXCEPT !.dims = @ - 1]), e.body)
  IN  CASE e.k = "foreach" -> Ends(Unit, env) \cup Once(Then(Run(g, in, e.it), each))
        [] e.k = "range" ->
             Ends(Unit, env) \cup
               Once(Then(RunAll(g, in, <<e.lo, e.hi>>),
                         LAMBDA o : Either(IsIntegral(o.vs[1]) /\ IsIntegral(o.vs[2]),
                                           Run(g, Bind(o.env, e.x, Wider(o.vs[1], o.vs[2])), e.body), env)))
        [] e.first -> Once(Then(RunAll(g, in, e.init),
                                LAMBDA o : Then(Run(g, o.env, e.body), LAMBDA q : Asked(g, q.env, e.cond))))
        [] OTHER -> Once(Then(RunAll(g, in, e.init),
                              LAMBDA o : Then(Asked(g, o.env, e.cond),
                                              LAMBDA q : {q} \cup Run(g, q.env, e.body))))

Elements0(g, env, e) ==
  LET made(o) == [k |-> "array", es |-> ToSet(o.vs), dims |-> IF e.t = NoType THEN 1 ELSE e.t.dims]
      any == IF e.t = NoType THEN {} ELSE Witness(g, e.t)
  IN  CASE e.t = NoType -> Then(RunAll(g, env, e.dims), LAMBDA o : Ends(made(o), o.env))
        [] e.fill # <<>> -> Then(RunAll(g, env, e.fill), LAMBDA o : Ends(made(o), o.env))
        [] OTHER -> UNION {Ends(w, env) : w \in any}

RunBlock(g, env, e) ==
  FoldLeft(LAMBDA os, x : Then(os, LAMBDA o : Run(g, o.env, x)),
           {Out("value", <<Unit>>, Append(env, <<>>))}, e.ss)

RunThrow(g, env, e) ==
  Then(Run(g, env, e.e),
       LAMBDA o : Either(Is(g, o.vs[1], Named("class", "Throwable")), {[o EXCEPT !.how = "throw"]}, o.env))

Run(g, env, e) ==
  CASE e.k = "lit" -> Ends(e.t, env)
    [] e.k = "id" -> RunId(g, env, e.x)
    [] e.k = "lambda" -> Ends([k |-> "closure", fun |-> e, env |-> env], env)
    [] e.k = "array" -> Elements0(g, env, e)
    [] e.k = "chan" -> UNION {Ends(w, env) : w \in Witness(g, e.t)}
    [] e.k = "template" -> Then(RunAll(g, env, e.es), LAMBDA o : Ends(Ty("string"), o.env))
    [] e.k = "dot" -> Then(Run(g, env, e.e), LAMBDA o : RunMember(g, o.env, o.vs[1], e.f))
    [] e.k = "resolve" -> Ends([k |-> "enum", d |-> e.d, x |-> e.f], env)
    [] e.k = "call" -> RunCall(g, env, e)
    [] e.k = "index" -> Then(RunAll(g, env, <<e.e>> \o e.is),
                             LAMBDA o : Either(o.vs[1].k = "array" /\ Len(o.vs) = o.vs[1].dims + 1,
                                               UNION {Ends(w, o.env) : w \in o.vs[1].es}, o.env))
    [] e.k \in {"op", "unary", "logic", "recv", "send"} -> RunOperation(g, env, e)
    [] e.k \in {"cast", "test"} -> RunCast(g, env, e)
    [] e.k = "var" -> RunVar(g, env, e)
    [] e.k = "assign" -> RunAssign(g, env, e)
    [] e.k = "return" -> {IF o.how = "value" THEN [o EXCEPT !.how = "return"] ELSE o : o \in RunAll(g, env, e.es)}
    [] e.k = "throw" -> RunThrow(g, env, e)
    [] e.k = "run" -> Then(Run(g, env, e.e), LAMBDA o : Ends(Unit, o.env))
    [] e.k = "break" -> {Out("break", <<>>, env)}
    [] e.k = "block" -> Scoped(RunBlock(g, env, e), env)
    [] e.k = "if" -> Scoped(RunIf(g, env, e), env)
    [] e.k = "when" -> Scoped(RunWhen(g, env, e), env)
    [] e.k = "try" -> Scoped(RunTry(g, env, e), env)
    [] e.k \in {"while", "foreach", "range"} -> Scoped(RunLoop(g, env, e), env)
-----------------------------------------------------------------------------

Str == Ty("string")
I8 == Ty("i8")
F32 == Ty("f32")
A == Named("class", "A")
B == Named("class", "B")
C == Named("class", "C")
S == Named("struct", "S")
I == Named("interface", "I")
E == Named("enum", "E")
Err == Named("class", "Error")
Fn(ps, rs) == Signed(FunctionPrototype(ps, rs))

Lit(t) == [k |-> "lit", t |-> t]
Id(x) == [k |-> "id", x |-> x]
DotOf(e, f) == [k |-> "dot", e |-> e, f |-> f]
Ref(d, f) == [k |-> "resolve", d |-> d, f |-> f]
CallOf(f, es) == [k |-> "call", f |-> f, args |-> es]
IndexOf(e, is) == [k |-> "index", e |-> e, is |-> is]
Op(op, l, r) == [k |-> "op", op |-> op, l |-> l, r |-> r]
Minus(op, e) == [k |-> "unary", op |-> op, e |-> e]
And(l, r) == [k |-> "logic", l |-> l, r |-> r]
Cast(k, t, e) == [k |-> k, t |-> t, e |-> e]
Block(ss) == [k |-> "block", ss |-> ss]
Let(val, x, t, e) == [k |-> "var", val |-> val, items |-> <<[x |-> x, t |-> t]>>, inits |-> <<e>>]
Assign(l, r) == [k |-> "assign", ls |-> <<l>>, rs |-> <<r>>, initial |-> FALSE]
Return(es) == [k |-> "return", es |-> es]
Throw(e) == [k |-> "throw", e |-> e]
ArrayOf(t, es) == [k |-> "array", t |-> t, dims |-> es, fill |-> <<>>]
Filled(t, e) == [k |-> "array", t |-> t, dims |-> <<Lit(I32)>>, fill |-> <<e>>]
IfOf(c, a, b) == [k |-> "if", init |-> <<>>, cond |-> c, then |-> a, else |-> b]
WhenOf(e, cs, b) == [k |-> "when", init |-> <<>>, e |-> e, cases |-> cs, else |-> b]
Values(vs, e) == [k |-> "values", vs |-> vs, then |-> e]
OfType(x, t, e) == [k |-> "type", x |-> x, t |-> t, then |-> e]
Try(e, x, t, c, f) ==
  [k |-> "try", body |-> e, catches |-> <<[x |-> x, t |-> t, then |-> c]>>, finally |-> f]
While(c, b, first) == [k |-> "while", init |-> <<>>, cond |-> c, body |-> b, first |-> first]
Each(x, e, b) == [k |-> "foreach", x |-> x, it |-> e, body |-> b]
Between(x, l, h, b) == [k |-> "range", x |-> x, lo |-> l, hi |-> h, body |-> b]
Param(x, t) == [x |-> x, t |-> t]
Fun(x, ps, rs, b) == [k |-> "function", x |-> x, params |-> ps, rets |-> rs, vargs |-> FALSE,
                      reduce |-> FALSE, body |-> b]
Lambda0(ps, rs, b) == [k |-> "lambda", params |-> ps, rets |-> rs, vargs |-> FALSE,
                      reduce |-> TRUE, body |-> b]

-----------------------------------------------------------------------------
(* The definitions.                                                          *)

Define(k, base, koncepts, params, fields, methods, super) ==
  [k |-> k, base |-> base, koncepts |-> koncepts, params |-> params, fields |-> fields,
   methods |-> methods, super |-> super]
Class(base, params, fields, methods, super) ==
  Define("class", base, <<>>, params, fields, methods, super)
Field(x, t, val, init) ==
  [k |-> "var", x |-> x, t |-> t, val |-> val, access |-> "public", init |-> init]
Hidden(f) == [f EXCEPT !.access = "private"]
Item(x, ts) == [k |-> "value", x |-> x, items |-> ts]
Method(x, over, ps, rs, fun) ==
  [k |-> "fun", x |-> x, access |-> "public", over |-> over,
   proto |-> Fn(Types(ps), rs), fun |-> fun]
Body(x, over, ps, rs, e) == Method(x, over, ps, rs, <<Fun(x, ps, rs, Block(<<Return(<<e>>)>>))>>)
Global(x, ps, rs, b) == [k |-> "fun", x |-> x, proto |-> Fn(Types(ps), rs), fun |-> <<Fun(x, ps, rs, b)>>]

This(f) == DotOf(Id("this"), f)

World ==
  "Any" :> Class(NoSymbol, <<>>, <<>>, <<Method("text", FALSE, <<>>, <<Str>>, <<>>)>>, <<>>) @@
  "String" :> Class("Any", <<>>, <<>>, <<Method("length", FALSE, <<>>, <<I32>>, <<>>)>>, <<>>) @@
  "Throwable" :> Class("Any", <<>>, <<>>, <<>>, <<>>) @@
  "Error" :> Class("Throwable", <<>>, <<>>, <<>>, <<>>) @@
  "A" :> Class("Any", <<Param("x", I32)>>,
               <<Field("x", I32, TRUE, <<>>), Field("y", F32, FALSE, <<Lit(F32)>>)>>,
               <<Body("get", FALSE, <<>>, <<I32>>, This("x"))>>, <<>>) @@
  "B" :> Class("A", <<Param("n", I32)>>, <<Hidden(Field("z", Str, FALSE, <<Lit(Str)>>))>>,
               <<Body("get", TRUE, <<>>, <<I32>>, Lit(I32)), Body("own", FALSE, <<>>, <<Str>>, This("z"))>>,
               <<Id("n")>>) @@
  "I" :> Define("interface", NoSymbol, <<>>, <<>>, <<>>,
                <<Method("act", FALSE, <<Param("a", A)>>, <<I32>>, <<>>)>>, <<>>) @@
  "C" :> Define("class", "Any", <<"I">>, <<>>, <<>>,
                <<Body("act", TRUE, <<Param("a", A)>>, <<I32>>, CallOf(DotOf(Id("a"), "get"), <<>>))>>, <<>>) @@
  "S" :> Define("struct", NoSymbol, <<>>, <<Param("p", I32)>>,
                <<Field("p", I32, FALSE, <<>>), Field("q", A, TRUE, <<CallOf(Id("B"), <<Lit(I32)>>)>>)>>,
                <<>>, <<>>) @@
  "E" :> Define("enum", NoSymbol, <<>>, <<>>, <<Item("one", <<>>), Item("two", <<I32, A>>)>>, <<>>, <<>>) @@
  "Optional" :> Define("enum", NoSymbol, <<>>, <<>>, <<>>, <<>>, <<>>) @@
  "f" :> Global("f", <<Param("a", A), Param("n", I32)>>, <<I32>>,
                Block(<<IfOf(Lit(Bool), Return(<<Id("n")>>), <<>>),
                        Return(<<CallOf(DotOf(Id("a"), "get"), <<>>)>>)>>))

\* The variables of the function a program is in.
Outer == "a" :> A @@ "b" :> B @@ "n" :> I32 @@ "o" :> Top @@ "i" :> I @@ "e" :> E @@ "s" :> S @@
         "t" :> Str @@ "xs" :> ArrayType(A, 1) @@ "m" :> ArrayType(I32, 2) @@
         "c" :> ChannelType(A, TRUE, TRUE) @@ "g" :> Fn(<<A>>, <<I32>>) @@ "err" :> Err

Around ==
  <<[FunctionScope(FunctionPrototype(<<>>, <<A>>), FALSE) EXCEPT
       !.syms = [x \in DOMAIN Outer |-> Var(Outer[x], x = "b")]]>>

-----------------------------------------------------------------------------
(* The programs.                                                             *)

Atoms == {Lit(I32), Lit(I8), Lit(F32), Lit(Str), Lit(Bool), Lit(Ty("char"))}
           \cup {Id(x) : x \in DOMAIN Outer}
Some == {Lit(I32), Lit(I8), Lit(Str), Id("a"), Id("b"), Id("o"), Id("i")}
Made == {CallOf(Id("B"), <<Lit(I32)>>), CallOf(Id("C"), <<>>), CallOf(Id("S"), <<Lit(I32)>>),
         CallOf(Ref("E", "one"), <<>>), CallOf(Ref("E", "two"), <<Lit(I32), Id("b")>>)}
Writables == {Id("a"), Id("b"), Id("n"), Id("o"), Id("i"), Id("c"), DotOf(Id("a"), "x"), DotOf(Id("a"), "y"),
              DotOf(Id("s"), "p"), DotOf(Id("s"), "q"), DotOf(Id("b"), "z"), IndexOf(Id("m"), <<Lit(I32), Id("n")>>)}

Uses(X) ==
  {DotOf(e, f) : e \in X, f \in {"x", "y", "z", "p", "q", "size", "toString", "text"}}
    \cup {CallOf(DotOf(e, f), <<>>) : e \in X, f \in {"get", "own", "text", "length", "toString", "getLength"}}
    \cup {CallOf(DotOf(e, f), <<a>>) : e \in X, f \in {"act", "getLength"}, a \in {Id("a"), Id("b"), Id("n")}}
    \cup {IndexOf(e, <<Id("n")>>) : e \in X}
    \cup {Minus(op, e) : op \in {"-", "~"}, e \in X}
    \cup {[k |-> "recv", e |-> e] : e \in X} \cup {Throw(e) : e \in X}
    \cup {Each("v", e, CallOf(DotOf(Id("v"), "get"), <<>>)) : e \in X}
    \cup {Each("v", e, Each("w", Id("v"), Minus("-", Id("w")))) : e \in X}
    \cup {Between("v", e, Id("n"), Op("+", Id("v"), Id("n"))) : e \in X}
    \cup {Between("v", e, e, Op("%", Id("v"), e)) : e \in X}

Passes(X) ==
  {CallOf(Id("f"), <<e, Id("n")>>) : e \in X} \cup {CallOf(Id("f"), <<Id("b"), e>>) : e \in X}
    \cup {CallOf(Id(d), <<e>>) : d \in {"A", "B", "S", "g"}, e \in X}
    \cup {CallOf(Ref("E", v), <<Id("n"), e>>) : v \in {"one", "two"}, e \in X}
    \cup {Assign(l, e) : l \in Writables, e \in X}
    \cup {Let(TRUE, "v", t, e) : t \in {NoType, A, I32, Top, I, Str}, e \in X}
    \cup {[k |-> "send", l |-> Id("c"), r |-> e] : e \in X}
    \cup {Cast(k, t, e) : k \in {"cast", "test"}, t \in {A, B, C, I, I8, F32, Str, Top, ArrayType(I8, 1)}, e \in X}
    \cup {Filled(ArrayType(t, 1), e) : t \in {A, I32}, e \in X} \cup {Return(<<e>>) : e \in X}
    \cup {CallOf(Lambda0(<<Param("v", t)>>, rs, Op("+", Id("v"), Id("n"))), <<e>>) :
            t \in {I32, I8}, rs \in {<<>>, <<I32>>}, e \in X}

Joins(X) ==
  UNION {{IfOf(Lit(Bool), x, <<y>>), IfOf(Lit(Bool), Block(<<x>>), <<>>), ArrayOf(NoType, <<x, y>>),
          WhenOf(Id("n"), <<Values(<<Lit(I32)>>, x), Values(<<Lit(I32)>>, y)>>, <<>>),
          WhenOf(Id("o"), <<OfType("v", A, x), OfType("v", I32, Id("v"))>>, <<y>>),
          WhenOf(Id("e"), <<Values(<<Id("one")>>, x), Values(<<CallOf(Id("two"), <<Id("v"), Id("w")>>)>>, y)>>, <<>>),
          WhenOf(Id("e"), <<Values(<<CallOf(Id("two"), <<Id("v"), Id("w")>>)>>, CallOf(Id("f"), <<Id("w"), Id("v")>>))>>, <<x>>),
          WhenOf(Id("e"), <<Values(<<Id("one")>>, x)>>, <<>>),
          WhenOf(x, <<OfType("v", B, CallOf(DotOf(Id("v"), "own"), <<>>))>>, <<y>>),
          WhenOf(x, <<[k |-> "between", lo |-> Lit(I32), hi |-> y, then |-> Id("n")]>>, <<y>>),
          WhenOf(x, <<[k |-> "struct", t |-> S, names |-> <<"q">>, then |-> Id("q")]>>, <<y>>),
          Try(x, "v", Err, y, <<>>), Try(Block(<<Throw(Id("err")), x>>), "v", Err, y, <<Minus("-", Lit(I32))>>)} : x, y \in X}
    \cup {Op(op, x, y) : op \in {"+", "%", "<"}, x, y \in X}
    \cup {And(Op("<", x, y), Lit(Bool)) : x, y \in X}

Statements(X) ==
  UNION {{Block(<<Let(FALSE, "v", NoType, x), Assign(Id("v"), y), Op("<", Id("v"), y)>>),
          Block(<<Let(FALSE, "v", Top, x), Let(TRUE, "v", NoType, y), Id("v")>>),
          Block(<<Let(TRUE, "v", B, x), Let(TRUE, "w", NoType, CallOf(DotOf(Id("v"), "own"), <<>>)), y>>),
          Block(<<Block(<<Let(FALSE, "v", NoType, x), Assign(Id("v"), x)>>), Id("v")>>),
          Block(<<Let(FALSE, "v", ArrayType(A, 1), ArrayOf(ArrayType(A, 1), <<>>)),
                  Assign(IndexOf(Id("v"), <<Id("n")>>), x), CallOf(DotOf(IndexOf(Id("v"), <<Lit(I32)>>), "get"), <<>>)>>),
          While(Op("<", x, y), Block(<<Let(TRUE, "v", NoType, x), [k |-> "break"], Id("v")>>), TRUE),
          While(x, Assign(Id("n"), y), FALSE),
          [k |-> "template", es |-> <<x, y>>],
          [k |-> "run", e |-> CallOf(Id("f"), <<x, y>>)],
          Lambda0(<<Param("v", A)>>, <<>>, ArrayOf(NoType, <<x, y>>)),
          CallOf(Lambda0(<<Param("v", A)>>, <<>>, IfOf(Lit(Bool), Id("v"), <<x>>)), <<y>>)} : x, y \in X}

Inner(X) ==
  {IfOf(Lit(Bool), x, <<y>>) : x, y \in X}
    \cup {IfOf(Lit(Bool), x, <<>>) : x \in X} \cup {WhenOf(Id("o"), <<OfType("v", I32, x)>>, <<Id("b")>>) : x \in X}
    \cup {CallOf(DotOf(Id("a"), "get"), <<>>), CallOf(Id("f"), <<Id("b"), Id("n")>>), IndexOf(Id("xs"), <<Id("n")>>),
          DotOf(Id("s"), "q"), Cast("cast", A, Id("o")), Cast("cast", B, Id("a")), Cast("cast", I8, Id("n")),
          ArrayOf(NoType, <<Id("a"), Id("b")>>), Op("<", Id("n"), Id("n"))}

Deep == Inner({Lit(I32), Lit(F32), Id("a"), Id("b"), Id("i"), Id("o")})

Programs(n) ==
  IF n = 1 THEN Uses(Atoms \cup Made) \cup Passes(Atoms \cup Made) \cup Joins(Some) \cup Statements(Some)
  ELSE Uses(Deep) \cup Passes(Deep)

-----------------------------------------------------------------------------
(* Worlds with another definition, and the program that uses it.            *)

With(d, def) == [g |-> (d :> def) @@ World, d |-> d]

\* A method that hides one of a base without overriding it is called by the
\* type of the variable: there is none.
Overrides ==
  {With("B", Class("A", <<Param("n", I32)>>, <<>>, <<Body(x, o, ps, rs, e)>>, <<s>>)) :
     <<x, o>> \in {<<"get", TRUE>>, <<"other", FALSE>>, <<"other", TRUE>>}, ps \in {<<>>, <<Param("k", I32)>>}, rs \in {<<I32>>, <<Str>>},
     e \in {Lit(I32), Lit(Str), This("x"), This("y"), Id("y")}, s \in {Id("n"), Lit(Str)}}
Implementations ==
  {With("C", Define("class", "Any", <<"I">>, <<>>, <<>>, <<Body(x, o, <<Param("a", p)>>, <<r>>, e)>>, <<>>)) :
     x \in {"act", "get"}, o \in BOOLEAN, p \in {A, B}, r \in {I32, Str}, e \in {Lit(I32), Lit(Str)}}
Structs ==
  {With("S", Define("struct", NoSymbol, <<>>, <<Param("p", p)>>,
                    <<Field("p", p, FALSE, <<>>), Field("q", t, TRUE, <<e>>)>>, <<>>, <<>>)) :
     p \in {I32, A}, t \in {A, I32, Str}, e \in {Id("p"), Lit(I32), CallOf(Id("B"), <<Lit(I32)>>)}}
Functions0 ==
  {With("f", Global("f", <<Param("a", A), Param("n", I32)>>, <<r>>,
                    Block(<<IfOf(Lit(Bool), Return(x), <<>>), Return(<<y>>)>>))) :
     r \in {I32, A, B}, x \in {<<>>, <<Id("n")>>, <<Id("a")>>, <<CallOf(Id("B"), <<Id("n")>>)>>},
     y \in {Id("n"), Id("a"), CallOf(Id("B"), <<Id("n")>>)}}

Worlds == Overrides \cup Implementations \cup Structs \cup Functions0

\* Everything the definitions offer is used.
Tour ==
  <<CallOf(DotOf(CallOf(Id("B"), <<Lit(I32)>>), "get"), <<>>), CallOf(DotOf(Id("a"), "get"), <<>>),
    CallOf(DotOf(Id("i"), "act"), <<Id("a")>>), CallOf(DotOf(CallOf(Id("C"), <<>>), "act"), <<Id("b")>>),
    DotOf(CallOf(Id("S"), <<Lit(I32)>>), "q"), DotOf(CallOf(Id("S"), <<Id("b")>>), "q"),
    DotOf(Id("s"), "p"), CallOf(Id("f"), <<Id("b"), Id("n")>>)>>

-----------------------------------------------------------------------------
Accepted(g) == \A d \in DOMAIN g : (d \in {"Any", "String"} \/ VisitDefinition(g, d))

Sound(g, p, r, os) ==
  \A o \in os : /\ o.how # "wrong"
                /\ o.how = "value" /\ r.ts # <<>> => Passed(g, o.vs, r.ts) \/ r.ts = <<Unit>>

Frame == <<[x \in DOMAIN Outer |-> [k |-> "some", t |-> Outer[x]]]>>

\* A program that is accepted does what its types say.  A lambda needs no
\* more of the variables around it than it has captured.
ProgramHolds(g, p) ==
  LET r == Visit(g, Around, p)
      caps == Last(LambdaBody(g, Around, p).s).caps
      known == <<[x \in caps |-> Frame[1][x]]>>
      call == CallOf(p, [i \in DOMAIN p.params |-> Lit(p.params[i].t)])
  IN  ~r.ok \/ IF p.k = "lambda" THEN Sound(g, call, [r EXCEPT !.ts = r.ts[1].rets], Run(g, known, call))
               ELSE Sound(g, p, r, Run(g, Frame, p))

Inputs(n) == {[p |-> p] : p \in Programs(1) \cup Programs(n)} \cup Worlds

WorldHolds(w) == ~Accepted(w.g) \/ \A i \in DOMAIN Tour : ProgramHolds(w.g, Tour[i])

Holds(x) == IF "p" \in DOMAIN x THEN ProgramHolds(World, x.p) ELSE WorldHolds(x)
=============================================================================
