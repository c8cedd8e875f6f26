----------------------------- MODULE MCAlgorithms -----------------------------
(* The sequential algorithms of the compiler, each on all small inputs:      *)
(* a behaviour has one of them and an input, and the property of that        *)
(* `algorithm` compares what comes out with what should.                     *)
EXTENDS ConstantsFolding, Layout, TLC

CONSTANT Nesting    \* how deep instantiations nest before the stack is full
CONSTANT BufferSize \* what the lexer reads of a file at a time

X64 == INSTANCE CodeGeneration
Syntax == INSTANCE MCParsing
Asm == INSTANCE MCAssembler
Arm == INSTANCE MCArm64
Typing == INSTANCE MCTyping
Lexing == INSTANCE MCLexing
Generics == INSTANCE MCTemplates WITH MaxNesting <- Nesting

VARIABLES algorithm, input, done

avars == <<algorithm, input, done>>

-----------------------------------------------------------------------------
(* Programs for the generator: x starts as 0 and y as 1.                     *)

K(c) == [k |-> "const", c |-> c]
V(x) == [k |-> "var", x |-> x]
Plus(l, r) == [k |-> "add", l |-> l, r |-> r]
Lt(l, r) == [k |-> "lt", l |-> l, r |-> r]
Set(x, e) == [k |-> "assign", x |-> x, e |-> e]
If(c, t, e) == [k |-> "if", c |-> c, then |-> t, else |-> e]
While(c, b) == [k |-> "loop", c |-> c, body |-> b]
For(close, b) ==
  [k |-> "foreach", x |-> "i", lo |-> K(0), hi |-> K(2), close |-> close, body |-> b]
When(e, cs, el) == [k |-> "when", e |-> e, cases |-> cs, else |-> el]

Copies == {Set("x", V("y")), Set("y", V("x"))}
Sums == {Set("x", Plus(V("x"), K(1))), Set("x", Plus(V("y"), V("x"))),
         Set("y", Plus(V("x"), K(3))), Set("y", K(7))}
Assigns == Sums \cup Copies
Growing == Assigns \ {Set("x", V("y"))}     \* leave x below its bound for so long
Conds == {Lt(V("x"), K(2)), Lt(V("y"), V("x"))}
Inc == Set("x", Plus(V("x"), K(1)))

Ifs(A) == {If(c, <<a>>, NoElse) : c \in Conds, a \in A}
            \cup {If(c, <<a>>, <<b>>) : c \in Conds, a, b \in A}
Whens(A) == {When(V("x"), <<[e |-> K(0), body |-> <<a>>], [e |-> K(2), body |-> <<b>>]>>, el) :
               a, b \in A, el \in {NoElse} \cup {<<a>> : a \in A}}
Upto(n, A) == {While(Lt(V("x"), K(n)), <<a, Inc>>) : a \in A}
                \cup {While(Lt(V("x"), K(n)), <<Inc, a>>) : a \in A}
Whiles(A) == Upto(3, A)
Fors(A) == {For(c, <<a>>) : a \in A, c \in BOOLEAN}

Flat == Ifs(Assigns) \cup Whens(Assigns) \cup Whiles(Growing) \cup Fors(Assigns) \cup Assigns

Loops == Whiles(Growing) \cup Fors(Assigns)

\* The outer loop turns several times, and the inner one in each turn.
Nested == Upto(3, Ifs(Growing) \cup Whens(Sums)) \cup Upto(6, Ifs(Growing))
            \cup Upto(9, Whiles(Growing) \cup Fors(Growing)) \cup Fors(Flat \ Fors(Assigns))
            \cup Ifs({l \in Loops : l.k = "foreach"})

Turns == {For(FALSE, <<a, b>>) : a, b \in Assigns}

Programs == {<<p>> : p \in Flat \cup Nested \cup Turns}
              \cup {<<a, p>> : a \in Assigns, p \in Flat}

Declarations ==
  LET x == Reduce(Empty, K(0))
      y == Reduce(Declare(x.g, "x", x.v), K(1))
  IN  Declare(y.g, "y", y.v)

Generate(p) == VisitReturn(Body(Declarations, p), <<"x", "y">>)

Expected(p) ==
  LET env == Means([x |-> 0, y |-> 1, i |-> 0], p) IN <<env["x"], env["y"]>>

\* The variables a body assigns on some way through it, and on every way.
RECURSIVE Ever(_), Always(_)
Ever(body) ==
  UNION {CASE s.k = "assign" -> {s.x}
           [] s.k = "if"   -> UNION {Ever(b) : b \in {s.then, s.else} \ {NoElse}}
           [] s.k = "when" -> UNION {Ever(b) : b \in ({c.body : c \in ToSet(s.cases)} \cup {s.else}) \ {NoElse}}
           [] OTHER        -> Ever(s.body) : s \in ToSet(body)}
Always(body) ==
  UNION {CASE s.k = "assign" -> {s.x}
           [] s.k = "if"   -> IF s.else = NoElse THEN {} ELSE Always(s.then) \cap Always(s.else)
           [] s.k = "when" -> IF s.else = NoElse THEN {}
                              ELSE {x \in Always(s.else) : \A c \in ToSet(s.cases) : x \in Always(c.body)}
           [] OTHER        -> {} : s \in ToSet(body)}

\* The statements of a body and of the bodies within it.
RECURSIVE Within(_)
Within(body) ==
  UNION {{s} \cup CASE s.k = "assign" -> {}
                    [] s.k = "if"   -> UNION {Within(b) : b \in {s.then, s.else} \ {NoElse}}
                    [] s.k = "when" -> UNION {Within(b) : b \in ({c.body : c \in ToSet(s.cases)} \cup {s.else}) \ {NoElse}}
                    [] OTHER        -> Within(s.body) : s \in ToSet(body)}

IsCopy(s) == s.k = "assign" /\ s.e.k = "var"
LoopBodies(p) == {s.body : s \in {t \in Within(p) : t.k \in {"loop", "foreach"}}}

\* At statement j of the body, x may still be what it was when the turn began.
FromEntry(body, j, x) == \A i \in 1..(j - 1) : x \notin Always(<<body[i]>>)

\* The phi nodes of a loop come when its body is done, and ReplaceUsers puts
\* them into the instructions of the body, but not into the moves of phi nodes
\* (phi_node_users_), which keep the value from outside of the loop.  That is
\* wrong where a branch or a loop inside assigns x on one way and leaves it as
\* it was on another, and x is assigned again behind it;
StaleMerge(p) ==
  \E b \in LoopBodies(p) : \E j, k \in DOMAIN b :
    /\ j < k
    /\ \E x \in Ever(<<b[j]>>) \ Always(<<b[j]>>) : x \in Ever(<<b[k]>>) /\ FromEntry(b, j, x)

\* and where a variable takes over the value of another that the loop assigns.
StaleCopy(p) ==
  \E b \in LoopBodies(p) : \E j \in DOMAIN b : \E s \in Within(<<b[j]>>) :
    IsCopy(s) /\ s.e.x \in Ever(b) /\ FromEntry(b, j, s.e.x)

\* Two variables that hold one value when a loop begins: its phi nodes are kept
\* under the value they replace, and the second takes the place of the first.
SharedValue(p) == \E i, j \in DOMAIN p : i < j /\ IsCopy(p[i]) /\ LoopBodies(<<p[j]>>) # {}

-----------------------------------------------------------------------------
Symbols == DOMAIN Candidates
Operands(signed) == IF signed THEN {-128, -127, -7, -2, -1, 0, 1, 2, 7, 100, 127}
                              ELSE {0, 1, 2, 7, 100, 127, 128, 200, 254, 255}

\* C leaves shifts by a negative count or by the width of int open.
Shifts(sym, b) == sym \in {"<<", ">>"} => b \in 0..31

Operations ==
  UNION {{[sym |-> sym, signed |-> signed, a |-> a, b |-> b] :
            a \in Operands(signed), b \in {o \in Operands(signed) : Shifts(sym, o)}} :
         sym \in Symbols, signed \in BOOLEAN}

-----------------------------------------------------------------------------
(* Models for the layout: enums e and f, structs s and t, a class b.     *)

Prim(n) == [k |-> "prim", bytes |-> n]
Ref == [k |-> "ref"]
Unit == [k |-> "void"]
Val(m) == [k |-> "val", m |-> m]

UpToTwo(T) == {<<t>> : t \in T} \cup (T \X T)

Models ==
  {[e |-> [decl |-> "enum", base |-> NoBase, fields |-> e],
    f |-> [decl |-> "enum", base |-> NoBase, fields |-> f],
    s |-> [decl |-> "struct", base |-> NoBase, fields |-> s],
    t |-> [decl |-> "struct", base |-> NoBase, fields |-> <<Prim(4), Val("s")>>],
    a |-> [decl |-> "class", base |-> NoBase, fields |-> a],
    b |-> [decl |-> "class", base |-> "a", fields |-> b]] :
     e \in {<<Unit, Ref>>, <<Prim(1), Ref>>, <<Prim(8), Unit>>},
     f \in {<<Val("e"), Prim(4)>>, <<Ref, Val("e")>>, <<Unit, Val("e")>>},
     s \in UpToTwo({Prim(1), Prim(4), Ref, Val("e"), Val("f")}),
     a \in {<<Prim(1)>>, <<Ref>>},
     b \in {<<Ref>>, <<Val("e")>>, <<Val("s")>>, <<Ref, Val("s")>>, <<Val("s"), Val("e")>>}}

Variants == [{"e", "f"} -> {1, 2}]

-----------------------------------------------------------------------------
(* Functions for the back end: main computes some values and calls f, which *)
(* returns two of its parameters and may call g.  Value i has size z[i % 2].*)

Id(x, i) == x \o ToString(i)
Ids(x, n) == [i \in 1..n |-> Id(x, i)]
Add(out, a, b) == [op |-> "add", out |-> out, a |-> a, b |-> b]
Calls(f, args, outs) == [op |-> "call", f |-> f, args |-> args, outs |-> outs]
Ret(vs) == [op |-> "ret", vals |-> vs]

Numbered(x, n, F(_)) == [v \in ToSet(Ids(x, n)) |-> F(CHOOSE i \in 1..n : v = Id(x, i))]
Alternate(z, x, n) == Numbered(x, n, LAMBDA i : z[1 + (i % 2)])
Consts(x, base) == Numbered(x, 8, LAMBDA i : base + i)

FunG(z) ==
  [params |-> <<"p1">>, size |-> ("p1" :> z[2]) @@ ("q" :> z[2]), const |-> <<>>,
   code |-> <<Add("q", "p1", "p1"), Ret(<<"q">>)>>, returns |-> <<z[2]>>]

\* f(p1, ..., pn) returns 2 * p_i for the i of ret, through g or not.
FunF(z, n, ret, inner) ==
  LET size == Alternate(z, "p", 4) @@ Alternate(z, "q", 4)
      twice(i) == IF inner /\ i % 2 = 1 THEN Calls(3, <<Id("p", i)>>, <<Id("q", i)>>)
                                        ELSE Add(Id("q", i), Id("p", i), Id("p", i))
      vals == [k \in DOMAIN ret |-> Id("q", ret[k])]
  IN  [params |-> Ids("p", n), size |-> size, const |-> <<>>,
       code |-> [i \in 1..n |-> twice(i)] \o <<Ret(vals)>>,
       returns |-> [k \in DOMAIN ret |-> size[vals[k]]]]

\* main computes v1, ..., v_pre and calls f once or twice with constants or these.
FunMain(z, n, ret, pre, arg, calls) ==
  LET outs(x) == Numbered(x, Len(ret), LAMBDA k : z[1 + (ret[k] % 2)])
      size == Alternate(z, "c", 8) @@ Alternate(z, "d", 8) @@ Alternate(z, "k", 2)
                @@ Alternate(z, "v", 3) @@ outs("o") @@ outs("r")
      args(x) == [i \in 1..n |->
                    IF arg = "shared" /\ i # 2 THEN Id("k", 2 - (i % 2))
                    ELSE IF i <= pre /\ (arg = "all" \/ (arg = "some" /\ i <= 2)) THEN Id("v", i)
                    ELSE Id(x, i)]
  IN  [params |-> <<>>, size |-> size,
       const |-> Consts("c", 0) @@ Consts("d", 10) @@ Consts("k", 20),
       code |-> [i \in 1..pre |-> Add(Id("v", i), Id("c", i + 4), Id("d", i + 4))]
                  \o <<Calls(2, args("c"), Ids("o", Len(ret)))>>
                  \o (IF calls = 2 THEN <<Calls(2, args("d"), Ids("r", Len(ret)))>> ELSE <<>>)
                  \o <<Ret(Ids(IF calls = 2 THEN "r" ELSE "o", Len(ret)) \o <<"o1">>)>>,
       returns |-> [k \in 1..Len(ret) |-> size[Id("o", k)]] \o <<size["o1"]>>]

Shapes ==
  UNION {[z : {<<4, 4>>, <<8, 8>>, <<8, 4>>}, n : {n}, ret : UpToTwo(1..n), pre : 0..3,
          arg : {"none", "some", "all", "shared"}, calls : {1, 2}, inner : BOOLEAN] : n \in 1..4}

Code(s) ==
  <<FunMain(s.z, s.n, s.ret, s.pre, s.arg, s.calls), FunF(s.z, s.n, s.ret, s.inner), FunG(s.z)>>

-----------------------------------------------------------------------------
Init ==
  /\ done = FALSE
  /\ \/ algorithm = "generate" /\ input \in Programs
     \/ algorithm = "fold" /\ input \in Operations
     \/ algorithm = "layout" /\ input \in Models
     \/ algorithm = "code" /\ input \in Shapes
     \/ algorithm = "assemble" /\ input \in Asm!Samples(Asm!Mems, Asm!Jumps)
     \/ algorithm = "assemble_arm64" /\ \E g \in DOMAIN Arm!Instructions(32, 64) :
                                         input \in Arm!Instructions(32, 64)[g]
     \/ algorithm = "assemble_vectors" /\ \E g \in DOMAIN Arm!Samples(<<>>) :
                                           input \in Arm!Samples(<<>>)[g]
     \/ algorithm = "scan" /\ \E family \in Lexing!ScanFamilies : input \in Lexing!ScanInputs(family)
     \/ algorithm = "parse" /\ input \in Syntax!Files
     \/ algorithm = "reduce" /\ input \in Typing!Inputs(2)
     \/ algorithm = "instantiate" /\ \E family \in Generics!Families : input \in Generics!TemplateInputs(family)

Next ==
  /\ ~done
  /\ done' = TRUE
  /\ UNCHANGED <<algorithm, input>>

Spec == Init /\ [][Next]_avars

\* What is said of the input a behaviour starts with holds of it for good.
Kept == [][UNCHANGED <<algorithm, input>>]_avars

-----------------------------------------------------------------------------
\* The blocks that codegen.cc makes of a body return what the body means,
\* whatever its branches and loops merge (unless a loop has a StaleMerge, a
\* StaleCopy or a SharedValue).
IrMeansSource ==
  /\ algorithm = "generate" =>
       \/ StaleMerge(input) \/ StaleCopy(input) \/ SharedValue(input)
       \/ Returns(Generate(input)) = Expected(input)
  /\ Kept

\* Folding leaves what a function returns alone, as long as no instruction it
\* folds flows into a phi node (RunBasicBlock changes the operands of the phi,
\* but not the moves of its block).
FoldingKeepsMeaning(program) ==
  LET g == Generate(program)
      f == Fold(g)
  IN  ~MovesTheDead(f) => Returns(f) = Returns(g)

Bit(n, i) == (n \div 2 ^ i) % 2

\* A folded constant is the exact result taken modulo 2^Width into the range
\* of its type, division rounds to zero, and only a division by zero is left
\* for the program to run (FoldValueIfNeeded and the tables it looks into).
FoldsToMeaning(op) ==
  LET output == FoldBinary(op.sym, op.signed, op.a, op.b)
      a == op.a
      b == op.b
      sym == op.sym
      v == output[1]
      same(n) == (v - n) % 2 ^ Width = 0
      bits(f(_, _)) == \A i \in 0..(Width - 1) : Bit(Low(v), i) = f(Bit(Low(a), i), Bit(Low(b), i))
      sign(n) == IF n < 0 THEN -1 ELSE 1
      is(r) == v = IF r THEN 1 ELSE 0
  IN  IF sym \in {"/", "%"} /\ b = 0 THEN output = <<>>
      ELSE /\ output # <<>>
           /\ IF op.signed THEN v \in -(2 ^ (Width - 1))..(2 ^ (Width - 1) - 1)
                              ELSE v \in 0..(2 ^ Width - 1)
           /\ CASE sym = "+" -> same(a + b)
                [] sym = "-" -> same(a - b)
                [] sym = "*" -> same(a * b)
                [] sym = "/" -> \E r \in -(2 ^ Width)..(2 ^ Width) :
                                  /\ r * sign(a) >= 0 /\ r * r < b * b
                                  /\ same(sign(b) * ((a - r) \div (sign(b) * b)))
                                  /\ (a - r) % (sign(b) * b) = 0
                [] sym = "%" -> v * sign(a) >= 0 /\ v * v < b * b /\ (a - v) % (sign(b) * b) = 0
                [] sym = "&" -> bits(LAMBDA p, q : p * q)
                [] sym = "|" -> bits(LAMBDA p, q : p + q - p * q)
                [] sym = "^" -> bits(LAMBDA p, q : (p + q) % 2)
                [] sym = "<<" -> \A i \in 0..(Width - 1) :
                                   Bit(Low(v), i) = IF i < b THEN 0 ELSE Bit(Low(a), i - b)
                [] sym = ">>" -> \E r \in 0..(2 ^ b - 1) : a = v * 2 ^ b + r
                [] sym = "==" -> is(a = b)  [] sym = "!=" -> is(a # b)
                [] sym = "<" -> is(a < b)   [] sym = "<=" -> is(a <= b)
                [] sym = ">" -> is(a > b)   [] sym = ">=" -> is(a >= b)

\* Both: folding changes nothing that a program computes.
FoldingSound ==
  /\ algorithm = "generate" => FoldingKeepsMeaning(input)
  /\ algorithm = "fold" => FoldsToMeaning(input)
  /\ Kept

Embeds(M, n, m) ==
  \E i \in DOMAIN M[n].fields : M[n].fields[i].k = "val" /\ M[n].fields[i].m = m

\* No two scalars overlap, each is aligned, and all lie between header and
\* size (CalculateContinuousPlacementSize, CalculateCompactPlacementSize).
PlacesScalars(M, n, v) ==
  LET l == Leaves(M, n, 0, v)
      size == Place(M, n).size
  IN  \A i \in DOMAIN l :
        /\ l[i].at % l[i].bytes = 0
        /\ l[i].at + l[i].bytes <= size
        /\ (M[n].decl = "enum" \/ l[i].at >= Header)
        /\ \A j \in DOMAIN l \ {i} : l[i].at <= l[j].at => l[i].at + l[i].bytes <= l[j].at

\* The typed write barrier of a struct finds every reference in it and
\* nothing else (refs_mark as metadata.cc makes it), unless a unit variant
\* makes it crash.  The visitor of the collector does as much for a class
\* whose bases hold no references and which holds no enum but compact ones.
FindsReferences(M, v) ==
  LET refs(n) == References(Leaves(M, n, 0, v))
      enums(n) == {m \in {"e", "f"} : Embeds(M, n, m) /\ ~IsCompactEnum(M[m])}
  IN  /\ ~BarrierCrashes(M, v) => \A n \in {"s", "t"} : BarrierVisit(M, n, 0, v) = refs(n)
      /\ enums("b") = {} /\ (Embeds(M, "b", "s") => enums("s") = {}) /\ refs("a") = {}
           => StructVisit(M, "b", 0) = refs("b")

\* In every object, with what it holds in place and what it inherits and
\* whatever variants its enums have: the scalars have places of their own,
\* and the references among them are found.
LayoutSound ==
  /\ algorithm = "layout" =>
       \A v \in Variants :
         FindsReferences(input, v) /\ \A n \in DOMAIN input : PlacesScalars(input, n, v)
  /\ Kept

\* A call whose values do not end up where the other side looks for them: a
\* constant that is passed twice is put into the first register only, a value
\* that overflows the registers is stored only if it is a constant, and the
\* area of the call is misplaced if the top of the frame or its parts are not
\* aligned.
Misplaced(F) ==
  LET A == X64!Allocated(F)
      calls == {i \in DOMAIN F.code : F.code[i].op = "call"}
      uses == {<<i, n>> \in calls \X (1..4) : n \in DOMAIN F.code[i].args}
      arg(u) == F.code[u[1]].args[u[2]]
      inArea(i) == {F.size[o] : o \in ToSet(F.code[i].outs)} \cup
                     {F.size[arg(u)] : u \in {w \in uses : w[1] = i /\ w[2] > 2}}
      before == SelectSeq(A.code, LAMBDA c : c.op = "before")
  IN  \/ \E u, w \in uses : u # w /\ arg(u) = arg(w) /\ arg(u) \in DOMAIN F.const
      \/ \E u \in uses : u[2] > 2 /\ arg(u) \notin DOMAIN F.const
      \/ \E i \in calls : Cardinality(inArea(i)) > 1
      \/ \E n \in DOMAIN before :
           LET used == before[n].returning + before[n].overflow
           IN  X64!Up(A.tops[n] + used, 16) # X64!Up(A.tops[n], 16) + X64!Up(used, 16)

\* The code of the functions returns what they mean, and every call comes back
\* to its caller with the stack and frame pointers it left with: slots of the
\* frame are never shared or overwritten by a callee, and callers and callees
\* agree on the places of arguments and results (unless a call is Misplaced).
CodeMeansSource ==
  /\ algorithm = "code" =>
       LET P == Code(input)
       IN  (\A f \in DOMAIN P : ~Misplaced(P[f])) =>
             X64!Executed(P) = [returns |-> X64!Meaning(P, 1, <<>>), balanced |-> TRUE]
  /\ Kept

\* The processor reads the bytes of every instruction back as the instruction
\* (operands, size, immediates: REX, ModRM and SIB of asm-x64.h), one behind
\* the other, and every jump goes to where the label is bound, however the
\* jumps to it were chained (unless Misencoded; an assertion stops the
\* assembler exactly where a jump is Unlinkable, as every one on rcx is).  A word of arm64 reads back as
\* the instruction, an alias as what it stands for, a pattern of bits as the
\* value it was made of, a branch with the distance to its label, and an
\* assertion fails exactly where there is no word for it (Impossible); so does
\* one of the vector unit, in every format of its operands (unless Misjudged).
BytesMeanInstructions ==
  /\ algorithm = "assemble" => Asm!ReadsBack(input, Asm!Assemble(input))
  /\ algorithm = "assemble_arm64" => Arm!ReadsBack(input)
  /\ algorithm = "assemble_vectors" => Arm!VectorReadsBack(input)
  /\ Kept

\* The parser reads every source as the tree the grammar derives it from
\* (unless it is Misread): priorities, both meanings of < and (, what a probe
\* has read ahead, and where lists, arrays and definitions end.  The lexer
\* gives the tokens a file was written from, with their values and places,
\* whatever the length of the file, the depth of its templates and the size of
\* its numbers (exactly unless it is Misscanned).
ParsesToSource ==
  /\ algorithm = "parse" =>
       LET source == Syntax!Source(input)
       IN  Syntax!Misread(source) \/ Syntax!Read(Syntax!Tokens(source)) = input
  /\ algorithm = "scan" => (Lexing!Scans(input) <=> ~Lexing!Misscanned(input))
  /\ Kept

\* What the type reducing visitor accepts does not go wrong: a name stands
\* for something, a member, an operator or a call is there for every value
\* that gets to it, fields, arrays, parameters and channels get values of
\* their types, every value of an enum has its case, a program's own values
\* are of the types it says, and a lambda has captured what it reads.  Every
\* application of a template has one instance, which is the template with the
\* arguments in the place of its parameters, and what may not be applied is
\* refused (exactly unless Misinstantiated).
TypesHold ==
  /\ algorithm = "reduce" => Typing!Holds(input)
  /\ algorithm = "instantiate" => (Generics!Instantiates(input) <=> ~Generics!Misinstantiated(input))
  /\ Kept
=============================================================================
