-------------------------------- MODULE Types --------------------------------
(* The types of the compiler (ast.h, ast.cc), what accepts and casts to what *)
(* (constants.cc), and the type that two of them reduce to                   *)
(* (type-reducing.cc).  A type name is taken as linked to its definition,    *)
(* and `g` maps the names of definitions to them.                            *)
EXTENDS Integers, Sequences, FiniteSets, SequencesExt

Ty(k) == [k |-> k]
Named(k, d) == [k |-> k, d |-> d]
ArrayType(e, n) == [k |-> "array", e |-> e, dims |-> n]
ChannelType(e, in, out) == [k |-> "channel", e |-> e, in |-> in, out |-> out]
\* Only the prototype of a function or a lambda gets a signature: that of a
\* written type is null.
FunctionPrototype(ps, rs) ==
  [k |-> "function", params |-> ps, rets |-> rs, vargs |-> FALSE, signed |-> FALSE]
Signed(t) == [t EXCEPT !.signed = TRUE]
Signature(t) == IF t.signed THEN <<t.params, t.rets>> ELSE <<>>
Optional(t) == [k |-> "enum", d |-> "Optional", e |-> t]

Unit == Ty("unit")
Bool == Ty("bool")
Top == Ty("any")
I32 == Ty("i32")
NoType == Ty("none")

\* The primary type of a channel is the one of its elements.
RECURSIVE Primary(_)
Primary(t) == IF t.k = "channel" THEN Primary(t.e) ELSE t.k

kNumbers == <<"i8", "u8", "i16", "u16", "i32", "u32", "i64", "u64", "f32", "f64">>
Integral == ToSet(SubSeq(kNumbers, 1, 8))
IsNumber(t) == Primary(t) \in ToSet(kNumbers)
IsIntegral(t) == Primary(t) \in Integral
IsSigned(t) == Primary(t) \in {"i8", "i16", "i32", "i64", "f32", "f64"}
Order(t) == CHOOSE i \in DOMAIN kNumbers : kNumbers[i] = Primary(t)

NoSymbol == "none"

\* The bases of a definition, the nearest first.
Ancestors(g, d) ==
  LET f[n \in Nat, x \in DOMAIN g \cup {NoSymbol}] ==
        IF n = 0 \/ x = NoSymbol THEN <<>> ELSE <<x>> \o f[n - 1, g[x].base]
  IN  f[Cardinality(DOMAIN g), g[d].base]

IsBaseOf(g, d, target) == target \in ToSet(Ancestors(g, d))

\* The walk over the bases reads the concepts of `d` itself each time.
IsConceptOf(g, d, i) == i \in ToSet(g[d].koncepts)

LocalSymbol(g, d, x) ==
  SelectSeq(g[d].fields, LAMBDA f : f.x = x) \o SelectSeq(g[d].methods, LAMBDA m : m.x = x)

\* The nearest definition that has a member of that name, and the member.
FindSymbolWithOwns(g, d, x) ==
  LET levels == SelectSeq(<<d>> \o Ancestors(g, d), LAMBDA l : LocalSymbol(g, l, x) # <<>>)
  IN  IF levels = <<>> THEN <<>>
      ELSE <<[level |-> levels[1], sym |-> LocalSymbol(g, levels[1], x)[1]]>>

-----------------------------------------------------------------------------
AcceptablePrimary(t, rhs) ==
  IF t = Top THEN Primary(rhs) # "unit" ELSE t.k = Primary(rhs)

\* Mutant: a definition accepts its bases.
AcceptableDefinition_Base(g, t, rhs) ==
  rhs.k = t.k /\ (rhs.d = t.d \/ IsBaseOf(g, t.d, rhs.d))

AcceptableDefinition(g, t, rhs) ==
  rhs.k = t.k /\ (rhs.d = t.d \/ IsBaseOf(g, rhs.d, t.d))

AcceptablePrototype(t, rhs) ==
  /\ rhs.k = "function" /\ t.vargs = rhs.vargs
  /\ Len(t.params) = Len(rhs.params) /\ Len(t.rets) = Len(rhs.rets)

RECURSIVE Acceptable(_, _, _)
Acceptable(g, t, rhs) ==
  CASE t.k = "array" -> rhs.k = "array" /\ t.dims = rhs.dims /\ Acceptable(g, t.e, rhs.e)
    [] t.k = "channel" -> rhs.k = "channel" /\ Acceptable(g, t.e, rhs.e)
    [] t.k \in {"class", "struct"} -> AcceptableDefinition(g, t, rhs)
    [] t.k \in {"enum", "interface"} -> t = rhs
    [] t.k = "function" -> AcceptablePrototype(t, rhs)
    [] OTHER -> AcceptablePrimary(t, rhs)

AllAcceptable(g, ts, rhs) ==
  Len(rhs) = Len(ts) /\ \A i \in DOMAIN ts : Acceptable(g, ts[i], rhs[i])

\* No definition here has a compareTo method.
Comparable == ToSet(kNumbers) \cup {"char", "string"}

-----------------------------------------------------------------------------
(* HowToCasting: the rule in the row of the source and the column of the     *)
(* destination.                                                              *)

FromAny(dest) ==
  CASE dest \in {"unit", "enum", "none"} -> "deny" [] OTHER -> "allow"

FromNumber(dest) == IF dest = "any" \/ IsNumber(Ty(dest)) THEN "allow" ELSE "deny"

FromReference(src, dest) ==
  CASE dest = "any" -> "allow"
    [] src = "array" /\ dest = "array" -> "element"
    [] src = "array" /\ dest = "string" -> "bytes"
    [] src = "class" /\ dest = "class" -> "class base of"
    [] src = "class" /\ dest = "interface" -> "concept"
    [] OTHER -> "deny"

FromOther(src, dest) ==
  CASE dest = "any" /\ src # "enum" -> "allow"
    [] src = "struct" /\ dest = "struct" -> "child"
    [] src = "enum" /\ dest = "enum" -> "allow"
    [] src = "interface" /\ dest = "class" -> "concept"
    [] src = "interface" /\ dest = "interface" -> "self"
    [] src = "function" /\ dest = "function" -> "prototype"
    [] OTHER -> "deny"

FromPrimary(src, dest) ==
  CASE dest = src -> "allow"
    [] src # "unit" /\ dest = "any" -> "allow"
    [] src = "char" /\ dest \in {"i32", "u32"} -> "allow"
    [] src = "string" /\ dest = "array" -> "bytes"
    [] OTHER -> "deny"

HowToCasting(dest, src) ==
  CASE src = "any" -> FromAny(dest)
    [] src \in ToSet(kNumbers) -> FromNumber(dest)
    [] src \in {"array", "class"} -> FromReference(src, dest)
    [] src \in {"struct", "enum", "interface", "function"} -> FromOther(src, dest)
    [] OTHER -> FromPrimary(src, dest)

Bytes(t) == t.k = "array" => t.dims = 1 /\ t.e.k \in {"i8", "u8", "char"}

\* A concept is asked of a class that is cast to an interface: from an
\* interface to a class, or for a channel, it is a null pointer that is asked.
CastingFeasibilityTest(g, dest, src) ==
  LET how == HowToCasting(Primary(dest), Primary(src)) IN
  CASE how = "deny" -> FALSE
    [] how = "allow" -> TRUE
    [] how = "prototype" -> Signature(dest) = Signature(src)
    [] how = "concept" -> src.k = "class" /\ dest.k = "interface" /\ IsConceptOf(g, src.d, dest.d)
    [] how = "element" -> Acceptable(g, dest, src)
    [] how = "bytes" -> Bytes(dest) /\ Bytes(src)
    [] dest.k # Primary(dest) \/ src.k # Primary(src) -> FALSE
    [] how = "self" -> dest.d = src.d
    [] how = "child" -> IsBaseOf(g, src.d, dest.d)
    [] how = "class base of" -> IsBaseOf(g, src.d, dest.d) \/ IsBaseOf(g, dest.d, src.d)

-----------------------------------------------------------------------------
\* Mutant: the narrower of two numbers.
ReduceNumberType_Narrower(lhs, rhs) == IF Order(lhs) < Order(rhs) THEN lhs ELSE rhs

ReduceNumberType(lhs, rhs) == IF Order(lhs) > Order(rhs) THEN lhs ELSE rhs

\* Mutant: the derived one.
Base_Derived(g, lhs, rhs) ==
  CASE IsBaseOf(g, lhs.d, rhs.d) -> lhs
    [] IsBaseOf(g, rhs.d, lhs.d) -> rhs
    [] OTHER -> Top

\* Of a definition and one it is derived from the latter.
Base(g, lhs, rhs) ==
  CASE IsBaseOf(g, lhs.d, rhs.d) -> rhs
    [] IsBaseOf(g, rhs.d, lhs.d) -> lhs
    [] OTHER -> Top

\* No type stands for the crash of a null pointer.
ReduceType(g, lhs, rhs) ==
  LET how == HowToCasting(Primary(lhs), Primary(rhs)) IN
  CASE NoType \in {lhs, rhs} -> NoType
    [] how = "concept" /\ (rhs.k # "class" \/ lhs.k # "interface") -> NoType
    [] IsNumber(lhs) /\ IsNumber(rhs) -> ReduceNumberType(lhs, rhs)
    [] lhs = rhs -> lhs
    [] how = "prototype" ->
         IF Signed(lhs) = Signed(rhs) \/ Signature(lhs) = Signature(rhs) THEN lhs ELSE Top
    [] how = "concept" /\ IsConceptOf(g, rhs.d, lhs.d) -> lhs
    [] how = "element" /\ Acceptable(g, lhs, rhs) -> lhs
    [] how \in {"child", "class base of"} /\ {lhs.k, rhs.k} \subseteq {"class", "struct"} ->
         Base(g, lhs, rhs)
    [] OTHER -> Top

\* The column of each branch, with unit for a branch that is missing.
Column(rows, n, i) ==
  [j \in 1..n |-> IF j \in DOMAIN rows /\ i \in DOMAIN rows[j] THEN rows[j][i] ELSE Unit]

ReduceColumn(g, col) ==
  LET some == SelectSeq(col, LAMBDA t : t # Unit)
      join == FoldLeft(LAMBDA l, r : ReduceType(g, l, r), Head(some), Tail(some))
  IN  CASE some = <<>> -> Unit
        [] join # NoType /\ Len(some) < Len(col) -> Optional(join)
        [] OTHER -> join

\* Branches without a value leave a unit on the stack of results, which
\* nobody counts: the expression has no value then.
ReduceBranchsTypes(g, rows, withoutElse) ==
  LET all == UNION {ToSet(rows[j]) : j \in DOMAIN rows}
      width == CHOOSE w \in 0..8 : /\ \A j \in DOMAIN rows : Len(rows[j]) <= w
                                   /\ \E j \in DOMAIN rows : Len(rows[j]) = w
  IN  IF all \subseteq {Unit} THEN <<>>
      ELSE [i \in 1..width |-> ReduceColumn(g, Column(rows, withoutElse + 1, i))]
=============================================================================
