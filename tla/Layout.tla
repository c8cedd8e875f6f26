------------------------------- MODULE Layout -------------------------------
(***************************************************************************)
(* Where the fields of classes, structs and enums go (ir/metadata.cc), and *)
(* what the runtime makes of it: the references a visitor of the collector *)
(* finds (object/any.c) and those a typed write barrier finds (heap.c).    *)
(*                                                                         *)
(* M maps names to models [decl, base, fields]; base is a name or NoBase,  *)
(* fields a sequence of types: [k |-> "prim", bytes], [k |-> "ref"],       *)
(* [k |-> "void"] (a unit variant of an enum) or [k |-> "val", m], a       *)
(* struct or an enum that is held in place.                                *)
(***************************************************************************)
EXTENDS Integers, Sequences, SequencesExt, FiniteSets, FiniteSetsExt

NoBase == "no base"

kPointerSize == 8

\* sizeof(struct yalx_value_any)
Header == 16

RoundUp(n, align) == ((n + align - 1) \div align) * align

Count(fields, k) == Cardinality({i \in DOMAIN fields : fields[i].k = k})

IsCompactEnum(model) ==
  /\ model.decl = "enum" /\ Len(model.fields) = 2
  /\ Count(model.fields, "ref") = 1 /\ Count(model.fields, "void") = 1

RECURSIVE Place(_, _)

\* Mutant: the marks of a struct that is held in place keep the offsets they
\* have in the struct.
AnalyzeRefsMark_Flat(M, m, offset) ==
  IF M[m].decl = "enum"
    THEN IF IsCompactEnum(M[m]) \/ Place(M, m).marks # {} THEN {[ty |-> m, offset |-> offset]} ELSE {}
    ELSE {[ty |-> r.ty, offset |-> r.offset] : r \in Place(M, m).marks}

\* The marks a value of model m gives to the one that holds it at offset.
AnalyzeRefsMark(M, m, offset) ==
  IF M[m].decl = "enum"
    THEN IF IsCompactEnum(M[m]) \/ Place(M, m).marks # {} THEN {[ty |-> m, offset |-> offset]} ELSE {}
    ELSE {[ty |-> r.ty, offset |-> offset + r.offset] : r \in Place(M, m).marks}

Bytes(M, t) ==
  CASE t.k = "prim" -> t.bytes [] t.k = "void" -> 0
    [] t.k = "ref" -> kPointerSize [] t.k = "val" -> Place(M, t.m).size

Alignment(t) ==
  CASE t.k = "prim" -> t.bytes [] t.k = "void" -> 1 [] OTHER -> kPointerSize

Marks(M, t, offset) ==
  CASE t.k = "ref" -> {[ty |-> "ref", offset |-> offset]}
    [] t.k = "val" -> AnalyzeRefsMark(M, t.m, offset)
    [] OTHER -> {}

\* Mutant: a field starts where the one before it ends.
Start_Packed(offset, t) == offset

\* Where a field of type t goes behind `offset`.
Start(offset, t) == RoundUp(offset, Alignment(t))

\* CalculateContinuousPlacementSize: classes and structs, behind their base.
Continuous(M, n) ==
  LET first == IF M[n].base = NoBase THEN Header ELSE Place(M, M[n].base).size
      add(p, t) == LET at == Start(p.size, t)
                   IN  [size |-> at + Bytes(M, t), offset |-> Append(p.offset, at),
                        marks |-> p.marks \cup Marks(M, t, at)]
      all == FoldLeft(add, [size |-> first, offset |-> <<>>, marks |-> {}], M[n].fields)
  IN  [all EXCEPT !.size = RoundUp(@, kPointerSize)]

\* Mutant: the variants start on the code of the enum.
CodeBytes_None(model) == 0

\* base_offset: the code of an enum takes two bytes, unless it is compact.
CodeBytes(model) == IF IsCompactEnum(model) THEN 0 ELSE 2

\* CalculateCompactPlacementSize: the variants of an enum share their place.
Compact(M, n) ==
  LET fields == M[n].fields
      align == Max({Alignment(fields[i]) : i \in DOMAIN fields})
      at == RoundUp(CodeBytes(M[n]), align)
      ends == {at + Bytes(M, fields[i]) : i \in {j \in DOMAIN fields : fields[j].k # "void"}}
  IN  [size |-> RoundUp(Max(ends \cup {CodeBytes(M[n])}), kPointerSize),
       offset |-> [i \in DOMAIN fields |-> IF fields[i].k = "void" THEN CodeBytes(M[n]) ELSE at],
       marks |-> UNION {Marks(M, fields[i], at) : i \in DOMAIN fields}]

\* UpdatePlacementSizeInBytes
Place(M, n) == IF M[n].decl = "enum" THEN Compact(M, n) ELSE Continuous(M, n)

-----------------------------------------------------------------------------
(* The runtime.  variant[m] is the variant a value of the enum m is in.     *)

RECURSIVE StructVisit(_, _, _)
\* struct_shallow_visit, and the loop of yalx_object_shallow_visit over the
\* fields of a class: its own fields, not those of its base.  Neither can do
\* with an enum that is not compact (UNREACHABLE).
StructVisit(M, n, at) ==
  LET of(i) ==
        LET t == M[n].fields[i]
            here == at + Place(M, n).offset[i]
        IN  CASE t.k = "ref" -> {here}
              [] t.k = "val" -> IF IsCompactEnum(M[t.m]) THEN {here} ELSE StructVisit(M, t.m, here)
              [] OTHER -> {}
  IN  UNION {of(i) : i \in DOMAIN M[n].fields}

RECURSIVE BarrierVisit(_, _, _, _)
\* Mutant: a mark of an enum is taken for a reference.
StructBarriers_AnyMark(M, n, at, variant) == {at + r.offset : r \in Place(M, n).marks}

\* The loop over refs_mark.
StructBarriers(M, n, at, variant) ==
  UNION {IF r.ty = "ref" \/ IsCompactEnum(M[r.ty]) THEN {at + r.offset}
         ELSE BarrierVisit(M, r.ty, at + r.offset, variant) : r \in Place(M, n).marks}

\* init_typing_write_barrier_if_needed on a value at address `at`.  A variant
\* that is a struct is treated as if it began where the enum begins.
BarrierVisit(M, n, at, variant) ==
  IF M[n].decl # "enum" THEN StructBarriers(M, n, at, variant)
  ELSE LET t == M[n].fields[variant[n]]
           here == at + Place(M, n).offset[variant[n]]
       IN  CASE t.k = "ref" -> {here}
             [] t.k = "val" /\ M[t.m].decl = "enum" ->
                  IF IsCompactEnum(M[t.m]) THEN {here} ELSE BarrierVisit(M, t.m, here, variant)
             [] t.k = "val" -> StructBarriers(M, t.m, at, variant)
             [] OTHER -> {}

\* A unit variant has no type, and the barrier reads through it.
BarrierCrashes(M, variant) ==
  \E n \in DOMAIN M : /\ M[n].decl = "enum" /\ ~IsCompactEnum(M[n])
                      /\ Place(M, n).marks # {} /\ M[n].fields[variant[n]].k = "void"

-----------------------------------------------------------------------------
(* What an object holds, for comparison.                                    *)

RECURSIVE Leaves(_, _, _, _)
\* The scalars of a value of model n at an address: [at, bytes, ref].
Leaves(M, n, at, variant) ==
  LET leaf(t, here) ==
        CASE t.k = "prim" -> <<[at |-> here, bytes |-> t.bytes, ref |-> FALSE]>>
          [] t.k = "ref" -> <<[at |-> here, bytes |-> kPointerSize, ref |-> TRUE]>>
          [] t.k = "void" -> <<>>
          [] t.k = "val" -> Leaves(M, t.m, here, variant)
      field(i) == leaf(M[n].fields[i], at + Place(M, n).offset[i])
  IN  CASE IsCompactEnum(M[n]) -> <<[at |-> at, bytes |-> kPointerSize, ref |-> TRUE]>>
        [] M[n].decl = "enum" -> <<[at |-> at, bytes |-> 2, ref |-> FALSE]>> \o field(variant[n])
        [] OTHER -> (IF M[n].base = NoBase THEN <<>> ELSE Leaves(M, M[n].base, at, variant))
                      \o FlattenSeq([i \in DOMAIN M[n].fields |-> field(i)])

References(leaves) == {l.at : l \in {k \in ToSet(leaves) : k.ref}}
=============================================================================
