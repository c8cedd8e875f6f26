-------------------------------- MODULE MCArm64 --------------------------------
(* Samples for the arm64 assembler, what the processor must read of each, and *)
(* which of them there is no word for; then the vector instructions, in every *)
(* format, fitting or not.                                                    *)
EXTENDS Arm64Vectors

Cpu == INSTANCE Arm64Processor

\* An input is an instruction or a list of items with one label.
Sizes == {32, 64}
Names == {10, 21, 31}
Gp(size) == {R(n, size) : n \in Names}
AllGp == Gp(32) \cup Gp(64)
TwoGp(size) == {R(7, size), R(24, size)}
Sps(size) == {R(63, size), R(9, size)}
Floats(size) == {V(n, size, 1) : n \in {0, 13, 31}}
Make(form, op, a) == [k |-> "one", form |-> form, op |-> op, a |-> a]
Every(form, ops, arguments) == {Make(form, op, a) : op \in ops, a \in arguments}

Distances == {0, 1, -1, 100, -100, 8191, -8192, 8192, -8193}
Branches ==
  << Every("BranchToRegister", {"br", "blr", "ret"}, {<<r>> : r \in {R(0, 64), R(21, 64), R(30, 64)}}),
    Every("UnconditionalBranch", {"b", "bl"}, {<<d>> : d \in Distances \cup {33554431, -33554432, 33554432}}),
    Every("ConditionalBranch", {"b"}, {<<d, c>> : d \in Distances \cup {262143, -262144, 262144}, c \in 0..15}),
    UNION {Every("CompareBranch", {"cbz", "cbnz"}, Gp(s) \X (Distances \cup {262143, -262145})) : s \in Sizes},
    UNION {Every("TestBranch", {"tbz", "tbnz"}, Gp(s) \X {0, 5, 31, 32, 63} \X Distances) : s \in Sizes},
    Every("Address", {"adr", "adrp"}, Gp(64) \X {0, 1, 2, 3, -1, -7, 1048575, -1048576, 1048576}) >>

Operands(size) ==
  {Shifted(r, type, amount) : r \in TwoGp(size), type \in 0..2, amount \in {0, 1, 5, 31, size - 1}}
    \cup {Extended(R(7, IF type % 4 = 3 THEN 64 ELSE 32), type, amount) :
            type \in IF size = 64 THEN 0..7 ELSE {0, 1, 2, 4, 5, 6}, amount \in {0, 3, 4}}
Patterns(size) ==
  {Pattern(Cpu!Mask(len, S, T, size)) :
      len \in 1..(IF size = 64 THEN 6 ELSE 5), S \in {0, 1, 2, 6, 14, 30, 40, 62}, T \in {0, 1, 3, 7, 31, 63}}
    \cup {Pattern(b) : b \in {{}, 0..31, 0..63, {0, 2}, {1, 2, 5}, {3, 19}, {3, 35}, {0, 62, 63}}}
    \cup {Pattern(b) : b \in SUBSET {0, 1, 16, 17, 31, 32, 33}}

SumsOf(s) ==
  << Every("AddSubtract", {"add", "adds", "sub", "subs"},
        (Gp(s) \X {R(30, s)} \X (Operands(s) \cup {Number(v) : v \in {0, 1, 4095, 4096, 4097, 16773120, 16777216}}))
          \cup (Sps(s) \X Sps(s) \X (Operands(s) \cup {Number(48)}))),
    Every("Compare", {"cmp", "cmn"}, (Sps(s) \cup TwoGp(s)) \X (Operands(s) \cup {Number(4095)})),
    Every("NegateSum", {"neg", "negs"}, Gp(s) \X {Shifted(r, 1, 7) : r \in Gp(s)}),
    Every("Carry", {"adc", "adcs", "sbc", "sbcs"}, Gp(s) \X Gp(s) \X TwoGp(s)),
    Every("Carry", {"ngc", "ngcs"}, Gp(s) \X Gp(s)) >>

Logicals(s) ==
  << Every("Logical", DOMAIN LogicalOps, {R(9, s)} \X {R(30, s)} \X Patterns(s)),
    Every("Logical", DOMAIN LogicalOps, {R(63, s)} \X Gp(s) \X {Pattern({4}), Pattern(0..6)}),
    Every("Logical", DOMAIN LogicalOps, Gp(s) \X Gp(s) \X {Shifted(r, t, n) : r \in TwoGp(s), t \in 0..3, n \in {0, 13}}),
    Every("Logical", {"tst"}, Gp(s) \X ({Pattern({4}), Pattern(0..6)} \cup {Shifted(r, 0, 0) : r \in Gp(s)})) >>

\* The patterns 0xABCD0000, ... of wide moves.
HalfWord == {0, 2, 3, 6, 7, 8, 9, 11, 13, 15}
Up(bits, n) == {b + n : b \in bits}
Fields(s) ==
  LET last == s - 1 IN
  << Every("BitfieldMove", DOMAIN BitfieldOps, TwoGp(s) \X Gp(s) \X {0, 1, 20, last} \X {0, 7, 20, last}),
    Every("ShiftAlias", {"lsl", "lsr", "asr"}, TwoGp(s) \X Gp(s) \X {0, 1, 9, 31, 32, 63}),
    Every("FieldAlias", DOMAIN FieldAliases, TwoGp(s) \X Gp(s) \X {0, 1, 12, last} \X {0, 1, 12, s - 12, s - 1, s}),
    Every("ExtendAlias", {"sxtb", "sxth", "uxtb", "uxth"}, Gp(s) \X Gp(s)),
    Every("Extr", {"extr"}, TwoGp(s) \X Gp(s) \X Gp(s) \X {0, 1, 31, last}),
    Every("Extr", {"ror"}, TwoGp(s) \X Gp(s) \X {0, 1, 31, last}),
    Every("MoveWide", DOMAIN MoveWideOps,
                  Gp(s) \X {Pattern(Up(HalfWord, n)) : n \in {0, 1, 16, 32, 48}} \X {-1}),
    Every("MoveWide", DOMAIN MoveWideOps, Gp(s) \X {Pattern(HalfWord), Pattern({17})} \X {0, 8, 16, 32, 48}),
    Every("MoveRegister", {"mov"}, (Gp(s) \cup Sps(s)) \X (Gp(s) \cup Sps(s))) >>

Conditions(s) ==
  << Every("ConditionalSelect", DOMAIN ConditionalSelectOps, Gp(s) \X Gp(s) \X TwoGp(s) \X {0, 1, 10, 13, 14, 15}),
    Every("ConditionalAlias", {"cset", "csetm"}, Gp(s) \X {0, 1, 10, 13, 14, 15}),
    Every("ConditionalAlias", {"cinc", "cinv", "cneg"}, Gp(s) \X Gp(s) \X {0, 1, 10, 13, 14, 15}),
    Every("ConditionalCompare", {"ccmn", "ccmp"},
               Gp(s) \X ({Shifted(r, 0, 0) : r \in Gp(s)} \cup {Number(v) : v \in {0, 21, 31, 32}}) \X {0, 10} \X {1, 12}) >>

Products(s) ==
  << Every("DataProcessing3Source", {"madd", "msub"}, Gp(s) \X Gp(s) \X TwoGp(s) \X TwoGp(s)),
    Every("DataProcessing3Source", {"mul", "mneg"}, Gp(s) \X Gp(s) \X Gp(s)),
    Every("DataProcessing2Source", DOMAIN DataProcessing2SourceOps, Gp(s) \X Gp(s) \X Gp(s)),
    Every("DataProcessing1Source", {"rbit", "rev16", "rev", "clz", "cls"}, Gp(s) \X Gp(s)) >>

LongProducts ==
  << Every("DataProcessing3Source", {"smaddl", "smsubl", "umaddl", "umsubl"}, Gp(64) \X Gp(32) \X TwoGp(32) \X TwoGp(64)),
    Every("DataProcessing3Source", {"smull"}, Gp(64) \X Gp(32) \X Gp(32)),
    Every("DataProcessing3Source", {"smulh"}, Gp(64) \X Gp(64) \X Gp(64)),
    Every("DataProcessing1Source", {"rev32"}, Gp(64) \X Gp(64)),
    Every("ExtendAlias", {"sxtw"}, Gp(64) \X Gp(32)) >>

-----------------------------------------------------------------------------
Bases == {R(2, 64), R(63, 64)}
Offsets == {0, 1, 8, 16, 255, 256, -256, -257, 4095, 4096, 32760, 65520, 65536}
Memories ==
  {Memory(b, mode, off) : b \in Bases, mode \in {"offset", "pre", "post"}, off \in Offsets}
Indexed ==
  {Memory(b, "reg", Extended(R(21, IF type % 4 = 3 THEN 64 ELSE 32), type, amount)) :
     b \in Bases, type \in {2, 3, 6, 7}, amount \in 0..4}
PairMemories ==
  {Memory(b, mode, off) : b \in Bases, mode \in {"offset", "pre", "post"},
                          off \in {0, 4, 8, 16, -16, 252, 256, -256, -260, 504, -512, 1008, 1024, -1024}}
Loads(memories) ==
  << UNION {Every("LoadStore", {"str", "ldr", "ldrsb", "ldrsh"}, TwoGp(s) \X memories) : s \in Sizes},
     Every("LoadStore", {"strb", "strh", "ldrb", "ldrh"}, TwoGp(32) \X memories),
     Every("LoadStore", {"ldrsw"}, TwoGp(64) \X memories),
     UNION {Every("LoadStore", {"str", "ldr"}, {V(13, s, 1)} \X memories) : s \in {8, 16, 32, 64, 128}} >>
Pairs(rs, ops) == Every("LoadStorePair", ops, rs \X rs \X PairMemories)
Accesses ==
  << UNION {Pairs(TwoGp(s), {"stp", "ldp"}) : s \in Sizes},
    Pairs(TwoGp(64), {"ldpsw"}),
    UNION {Pairs({V(13, s, 1), V(2, s, 1)}, {"stp", "ldp"}) : s \in {32, 64, 128}},
    UNION {Every("LoadLiteral", {"ldr"}, TwoGp(s) \X {0, 5, -5, 262143, 262144}) : s \in Sizes},
    UNION {Every("LoadLiteral", {"ldr"}, Floats(s) \X {5, -5}) : s \in Sizes},
    UNION {Every("LoadStoreAcquireRelease", {"ldar", "ldaxr", "stlr"}, {w} \X TwoGp(s) \X Bases) :
                w \in {"", "b", "h"}, s \in Sizes},
    UNION {Every("LoadStoreAcquireRelease", {"stlxr"}, {w} \X {R(0, 32), R(8, 32)} \X TwoGp(s) \X Bases) :
                w \in {"", "b", "h"}, s \in Sizes} >>

Systems ==
  << Every("System", DOMAIN Hints \cup DOMAIN Keys \cup {"isb"}, {<<>>}),
    Every("System", DOMAIN Barriers, (0..3) \X (0..3)),
    Every("System", {"brk", "hlt"}, {<<c>> : c \in {0, 1, 65535, 65536}}) >>

\* Patterns of doubles: all with an immediate, and some without.
Doubles == {Cpu!Expand(b) : b \in SUBSET (0..7)} \cup {{}, {63}, {62, 3}, 62..63, {54, 62}, 55..61, 54..62}
Reals(s) ==
  << Every("FMov", {"fmov"}, Floats(s) \X {Pattern(b) : b \in Doubles}),
    Every("FMov", {"fmov"}, (Floats(s) \X Gp(s)) \cup (Gp(s) \X Floats(s)) \cup (Floats(s) \X Floats(s))),
    Every("FCmp", {"fcmp", "fcmp_zero"}, Floats(s) \X Floats(s)),
    Every("FCCmp", {"fccmp"}, Floats(s) \X Floats(s) \X {0, 5} \X {0, 11}),
    Every("FCSel", {"fcsel"}, Floats(s) \X Floats(s) \X Floats(s) \X {0, 11}),
    Every("FPDataProcessing1Source", DOMAIN FPDataProcessing1SourceOps, Floats(s) \X Floats(s)),
    Every("FPDataProcessing2Source", DOMAIN FPDataProcessing2SourceOps, Floats(s) \X Floats(s) \X Floats(s)),
    Every("FPDataProcessing3Source", DOMAIN FPDataProcessing3SourceOps,
               Floats(s) \X Floats(s) \X {V(5, s, 1)} \X {V(9, s, 1)}),
    Every("FCVT", {"fcvt"}, UNION {Floats(s) \X Floats(z) : z \in {16, 32, 64} \ {s}}),
    Every("FPConvert", DOMAIN FPIntegerConvertOps \ {"scvtf", "ucvtf"}, AllGp \X Floats(s) \X {0}),
    Every("FPConvert", {"fcvtzs", "fcvtzu"}, AllGp \X Floats(s) \X {1, 32, 33, 64}),
    Every("FPConvert", {"scvtf", "ucvtf"}, Floats(s) \X AllGp \X {0, 1, 32}) >>

HighMoves ==
  << Every("FMov", {"fmov_high"}, (Gp(64) \X Floats(64)) \cup (Floats(64) \X Gp(64))),
    Every("FJCvtZS", {"fjcvtzs"}, Gp(32) \X Floats(64)),
    Every("FCVT", {"fcvt"}, UNION {Floats(16) \X Floats(z) : z \in Sizes}) >>

-----------------------------------------------------------------------------
\* What the manual's names mean, as the processor says it.

\* The operand of a sum.
Meant(o, size) ==
  CASE o.k = "imm" -> Cpu!Constant(o.v)
    [] o.k = "shift" -> Cpu!Operand(o.reg.n, o.type, o.amount)
    [] o.k = "extend" -> Cpu!Extension(o.reg.n, o.type, o.amount, size)
Plainly(i) == Cpu!D(i.op, i.a[1].size, [n \in DOMAIN i.a |-> i.a[n].n])
SumMeans(name, rd, rn, o) == Cpu!D(name, rd.size, <<rd.n, rn.n, Meant(o, rd.size)>>)

\* A logical operation with its pattern inverted is one with the other pattern.
Inverted == [bic |-> "and", orn |-> "orr", eon |-> "eor", bics |-> "ands"]
LogicMeans(name, rd, rn, o) ==
  LET base == IF name \in DOMAIN Inverted THEN Inverted[name] ELSE name
      flip == base # name
  IN Cpu!D(base, rd.size,
           IF o.k = "bits" THEN <<rd.n, rn.n, Cpu!Bits(IF flip THEN 0..(rd.size - 1) \ o.bits ELSE o.bits)>>
           ELSE <<rd.n, rn.n, Meant(o, rd.size), flip>>)

\* Where the bits of a register come from.
Bitwise(rd, source) == Cpu!D("bits", rd.size, <<rd.n, source>>)
Zero == <<31, 0>>

MoveMeans(i) ==
  Cpu!Bitfield(CASE i.op = "sbfm" -> 0 [] i.op = "bfm" -> 1 [] i.op = "ubfm" -> 2,
               i.a[1].n, i.a[2].n, i.a[3], i.a[4], i.a[1].size)

\* A field of a width put at lsb, or taken from there.
FieldMeans(i) ==
  LET rd == i.a[1]  rn == i.a[2]  lsb == i.a[3]  last == i.a[4] + i.a[3] - 1
      moved(b) ==
        CASE i.op = "bfi" -> IF b \in lsb..last THEN <<rn.n, b - lsb>> ELSE <<rd.n, b>>
          [] i.op = "bfxil" -> IF b + lsb <= last THEN <<rn.n, b + lsb>> ELSE <<rd.n, b>>
          [] i.op = "ubfiz" -> IF b \in lsb..last THEN <<rn.n, b - lsb>> ELSE Zero
          [] i.op = "ubfx" -> IF b + lsb <= last THEN <<rn.n, b + lsb>> ELSE Zero
          [] i.op = "sbfiz" -> IF b < lsb THEN Zero ELSE <<rn.n, IF b <= last THEN b - lsb ELSE last - lsb>>
          [] i.op = "sbfx" -> <<rn.n, IF b + lsb <= last THEN b + lsb ELSE last>>
  IN Bitwise(rd, [b \in 0..(rd.size - 1) |-> moved(b)])

ShiftMeans(i) ==
  LET rd == i.a[1]  rn == i.a[2]  n == i.a[3]  size == i.a[1].size
      moved(b) ==
        CASE i.op = "lsl" -> IF b < n THEN Zero ELSE <<rn.n, b - n>>
          [] i.op = "lsr" -> IF b + n < size THEN <<rn.n, b + n>> ELSE Zero
          [] i.op = "asr" -> <<rn.n, IF b + n < size THEN b + n ELSE size - 1>>
  IN Bitwise(rd, [b \in 0..(size - 1) |-> moved(b)])

Extensions == [sxtb |-> 8, sxth |-> 16, sxtw |-> 32, uxtb |-> 8, uxth |-> 16]
ExtendMeans(i) ==
  LET last == Extensions[i.op] - 1
      above == IF i.op \in {"uxtb", "uxth"} THEN Zero ELSE <<i.a[2].n, last>>
  IN Bitwise(i.a[1], [b \in 0..(i.a[1].size - 1) |-> IF b <= last THEN <<i.a[2].n, b>> ELSE above])

ExtractMeans(i) ==
  LET size == i.a[1].size
      low == IF i.op = "ror" THEN i.a[2] ELSE i.a[3]
      n == i.a[Len(i.a)]
  IN Bitwise(i.a[1], [b \in 0..(size - 1) |-> IF b + n < size THEN <<low.n, b + n>> ELSE <<i.a[2].n, b + n - size>>])

\* A pattern without a shift is where it belongs.
WideMeans(i) ==
  LET all == 0..(i.a[1].size - 1)
      bits == i.a[2].bits
      shift == i.a[3]
      half == IF shift >= 0 THEN shift ELSE IF bits = {} THEN 0 ELSE 16 * (Min(bits) \div 16)
      ones == IF shift >= 0 THEN Up(bits, shift) ELSE bits
  IN Cpu!D("wide", i.a[1].size,
           CASE i.op = "movz" -> <<i.a[1].n, ones, {}>>
             [] i.op = "movn" -> <<i.a[1].n, all \ ones, {}>>
             [] i.op = "movk" -> <<i.a[1].n, ones, all \ half..(half + 15)>>)

MovMeans(i) ==
  LET rd == i.a[1]  rn == i.a[2]
  IN IF SpCode \in {rd.n, rn.n} THEN Cpu!D("add", rd.size, <<rd.n, rn.n, Cpu!Constant(0)>>)
     ELSE Cpu!D("orr", rd.size, <<rd.n, 31, Cpu!Operand(rn.n, 0, 0), FALSE>>)

\* What becomes of the register that is chosen by the other condition.
Changes == [csel |-> "is", csinc |-> "inc", csinv |-> "inv", csneg |-> "neg", cset |-> "inc", csetm |-> "inv",
            cinc |-> "inc", cinv |-> "inv", cneg |-> "neg"]
SelectMeans(i) ==
  LET rd == i.a[1]
      cond == i.a[Len(i.a)]
      from == IF i.op \in {"cset", "csetm"} THEN 31 ELSE i.a[2].n
  IN IF i.form = "ConditionalSelect"
     THEN Cpu!Chosen(rd.size, rd.n, cond, <<i.a[2].n, "is">>, <<i.a[3].n, Changes[i.op]>>)
     ELSE Cpu!Chosen(rd.size, rd.n, cond, <<from, Changes[i.op]>>, <<from, "is">>)

CompareMeans(i) ==
  Cpu!D(i.op, i.a[1].size,
        <<i.a[1].n, IF i.a[2].k = "imm" THEN Cpu!Constant(i.a[2].v) ELSE Cpu!Operand(i.a[2].reg.n, 0, 0), i.a[4], i.a[3]>>)

ProductMeans(i) ==
  LET base == [mul |-> "madd", mneg |-> "msub", smull |-> "smaddl"]
  IN IF i.op \in DOMAIN base \cup {"smulh"}
     THEN Cpu!D(IF i.op = "smulh" THEN i.op ELSE base[i.op], i.a[1].size, <<i.a[1].n, i.a[2].n, i.a[3].n, 31>>)
     ELSE Plainly(i)

-----------------------------------------------------------------------------
\* Bytes moved and the size of a signed load by the name.
Widths == [strb |-> 8, strh |-> 16, ldrb |-> 8, ldrh |-> 16, ldrsb |-> 8, ldrsh |-> 16, ldrsw |-> 32]
AddressMeant(m) ==
  [base |-> m.base.n, mode |-> m.mode,
   off |-> IF m.mode = "reg" THEN Cpu!Extension(m.off.reg.n, m.off.type, m.off.amount, 64) ELSE Cpu!Constant(m.off)]
LoadMeans(i) ==
  LET rt == i.a[1]
  IN Cpu!D(IF i.op \in {"str", "strb", "strh"} THEN "store" ELSE "load",
           IF i.op \in DOMAIN Widths THEN Widths[i.op] ELSE rt.size,
           <<rt.k = "v", IF i.op \in {"ldrsb", "ldrsh", "ldrsw"} THEN rt.size ELSE 0, rt.n, AddressMeant(i.a[2])>>)
PairMeans(i) ==
  LET rt == i.a[1]
  IN Cpu!D(IF i.op = "stp" THEN "stores" ELSE "loads", IF i.op = "ldpsw" THEN 32 ELSE rt.size,
           <<rt.k = "v", IF i.op = "ldpsw" THEN 64 ELSE 0, rt.n, i.a[2].n, AddressMeant(i.a[3])>>)
OrderedMeans(i) ==
  LET exclusive == i.op \in {"ldaxr", "stlxr"}
      rt == i.a[Len(i.a) - 1]
  IN Cpu!D(IF i.op \in {"ldar", "ldaxr"} THEN "load-acquire" ELSE "store-release",
           CASE i.a[1] = "b" -> 8 [] i.a[1] = "h" -> 16 [] OTHER -> rt.size,
           <<exclusive, IF i.op = "stlxr" THEN i.a[2].n ELSE 31, rt.n, i.a[Len(i.a)].n>>)

HintNumbers == [nop |-> 0, csdb |-> 20, bti |-> 32, bti_c |-> 34, bti_j |-> 36, bti_jc |-> 38,
                pacib1716 |-> 10, autib1716 |-> 14, pacibsp |-> 27, autibsp |-> 31]
SystemMeans(i) ==
  CASE i.op \in DOMAIN HintNumbers -> Cpu!D("hint", 64, <<HintNumbers[i.op]>>)
    [] i.op \in {"dsb", "dmb"} -> Cpu!D(i.op, 64, <<4 * i.a[1] + i.a[2]>>)
    [] i.op = "isb" -> Cpu!D("isb", 64, <<15>>)
    [] i.op \in {"brk", "hlt"} -> Cpu!D(i.op, 64, i.a)

\* Conversions by the size of the floating point register.
ConvertMeans(i, fbits) ==
  LET general == IF i.a[1].k = "r" THEN i.a[1] ELSE i.a[2]
      float == IF i.a[1].k = "r" THEN i.a[2] ELSE i.a[1]
  IN Cpu!D(i.op, float.size, <<general.size, i.a[1].k = "r", i.a[1].n, i.a[2].n, fbits>>)
FMovMeans(i) ==
  LET d == i.a[1]  n == i.a[2]
  IN IF n.k = "bits" THEN Cpu!D("fmov#", d.size, <<d.n, n.bits>>)
     ELSE IF d.k = "v" /\ n.k = "v" THEN Plainly(i) ELSE ConvertMeans(i, 0)

Means(i) ==
  CASE i.form = "BranchToRegister" -> Cpu!D(i.op, 64, <<i.a[1].n>>)
    [] i.form = "UnconditionalBranch" -> Cpu!D(i.op, 64, <<4 * i.a[1]>>)
    [] i.form = "ConditionalBranch" -> Cpu!D("b.cond", 64, <<i.a[2], 4 * i.a[1]>>)
    [] i.form = "CompareBranch" -> Cpu!D(i.op, i.a[1].size, <<i.a[1].n, 4 * i.a[2]>>)
    [] i.form = "TestBranch" -> Cpu!D(i.op, 64, <<i.a[1].n, i.a[2], 4 * i.a[3]>>)
    [] i.form = "Address" -> Cpu!D(i.op, 64, <<i.a[1].n, i.a[2]>>)
    [] i.form = "AddSubtract" -> SumMeans(i.op, i.a[1], i.a[2], i.a[3])
    [] i.form = "Compare" -> SumMeans(IF i.op = "cmp" THEN "subs" ELSE "adds", ZeroReg(i.a[1]), i.a[1], i.a[2])
    [] i.form = "NegateSum" -> SumMeans(IF i.op = "neg" THEN "sub" ELSE "subs", i.a[1], ZeroReg(i.a[1]), i.a[2])
    [] i.form = "Carry" /\ Len(i.a) = 3 -> Plainly(i)
    [] i.form = "Carry" /\ Len(i.a) = 2 ->
         Cpu!D(IF i.op = "ngc" THEN "sbc" ELSE "sbcs", i.a[1].size, <<i.a[1].n, 31, i.a[2].n>>)
    [] i.form = "Logical" /\ i.op # "tst" -> LogicMeans(i.op, i.a[1], i.a[2], i.a[3])
    [] i.form = "Logical" /\ i.op = "tst" -> LogicMeans("ands", ZeroReg(i.a[1]), i.a[1], i.a[2])
    [] i.form = "BitfieldMove" -> MoveMeans(i)
    [] i.form = "ShiftAlias" -> ShiftMeans(i)
    [] i.form = "FieldAlias" -> FieldMeans(i)
    [] i.form = "ExtendAlias" -> ExtendMeans(i)
    [] i.form = "Extr" -> ExtractMeans(i)
    [] i.form = "MoveWide" -> WideMeans(i)
    [] i.form = "MoveRegister" -> MovMeans(i)
    [] i.form \in {"ConditionalSelect", "ConditionalAlias"} -> SelectMeans(i)
    [] i.form = "ConditionalCompare" -> CompareMeans(i)
    [] i.form = "DataProcessing3Source" -> ProductMeans(i)
    [] i.form \in {"DataProcessing2Source", "DataProcessing1Source", "FPDataProcessing1Source",
                   "FPDataProcessing2Source", "FPDataProcessing3Source"} -> Plainly(i)
    [] i.form = "LoadStore" -> LoadMeans(i)
    [] i.form = "LoadStorePair" -> PairMeans(i)
    [] i.form = "LoadLiteral" -> Cpu!D("literal", i.a[1].size, <<i.a[1].k = "v", i.a[1].n, 4 * i.a[2]>>)
    [] i.form = "LoadStoreAcquireRelease" -> OrderedMeans(i)
    [] i.form = "System" -> SystemMeans(i)
    [] i.form = "FMov" /\ i.op = "fmov" -> FMovMeans(i)
    [] i.form = "FMov" /\ i.op # "fmov" -> ConvertMeans(i, 0)
    [] i.form = "FCmp" -> IF i.op = "fcmp" THEN Plainly(i) ELSE Cpu!D("fcmp0", i.a[1].size, <<i.a[1].n>>)
    [] i.form = "FCCmp" -> Cpu!D(i.op, i.a[1].size, <<i.a[1].n, i.a[2].n, i.a[4], i.a[3]>>)
    [] i.form = "FCSel" -> Cpu!D(i.op, i.a[1].size, <<i.a[1].n, i.a[2].n, i.a[3].n, i.a[4]>>)
    [] i.form = "FCVT" -> Cpu!D(i.op, i.a[1].size, <<i.a[2].size, i.a[1].n, i.a[2].n>>)
    [] i.form = "FPConvert" -> ConvertMeans(i, i.a[3])
    [] i.form = "FJCvtZS" -> ConvertMeans(i, 0)

-----------------------------------------------------------------------------
\* The instructions there is no word for: what the assertions must refuse.
OutOf(v, bits) == v \notin -(2 ^ (bits - 1))..(2 ^ (bits - 1) - 1)

NoSum(rd, rn, o, set) ==
  LET sp == SpCode \in {rd.n, rn.n}
  IN \/ o.k = "imm" /\ ~(o.v \in 0..4095 \/ (o.v % 4096 = 0 /\ o.v \div 4096 \in 1..4095))
     \/ (o.k # "shift" \/ sp) /\ (rn.n = 31 \/ rd.n = IF set THEN SpCode ELSE 31)
     \/ o.k = "shift" /\ sp /\ (o.type # 0 \/ o.amount > 4)

\* An element of 2, 4, ... bits with one run of ones, all over the register.
IsMask(bits, size) ==
  /\ bits \subseteq 0..(size - 1)
  /\ \E e \in {2, 4, 8, 16, 32, 64} : e <= size
       /\ (\A b \in 0..(size - 1) : b \in bits <=> b % e \in bits)
       /\ Cardinality({x \in bits \cap 0..(e - 1) : (x + 1) % e \notin bits}) = 1

NoWide(i) ==
  LET size == i.a[1].size  bits == i.a[2].bits  shift == i.a[3]
  IN IF shift < 0 THEN ~\E h \in 0..(size \div 16 - 1) : bits \subseteq (16 * h)..(16 * h + 15)
     ELSE shift \notin {h \in 0..(size - 1) : h % 16 = 0} \/ ~(bits \subseteq 0..15)

NoLoad(i) ==
  LET m == i.a[2]
      bytes == (IF i.op \in DOMAIN Widths THEN Widths[i.op] ELSE i.a[1].size) \div 8
  IN CASE m.mode = "offset" -> OutOf(m.off, 9) /\ ~(m.off % bytes = 0 /\ m.off \div bytes \in 0..4095)
       [] m.mode \in {"pre", "post"} -> OutOf(m.off, 9)
       [] m.mode = "reg" -> m.off.amount # 0 /\ 2 ^ m.off.amount # bytes

NoPair(i) ==
  LET m == i.a[3]
      bytes == IF i.op = "ldpsw" THEN 4 ELSE i.a[1].size \div 8
  IN \/ i.op # "stp" /\ i.a[1] = i.a[2]
     \/ m.off % bytes # 0 \/ OutOf(m.off \div bytes, 7)
     \/ m.mode # "offset" /\ m.off = 0

Impossible(i) ==
  CASE i.form = "UnconditionalBranch" -> OutOf(i.a[1], 26)
    [] i.form = "ConditionalBranch" -> OutOf(i.a[1], 19)
    [] i.form \in {"CompareBranch", "LoadLiteral"} ->
         OutOf(i.a[2], 19) \/ (i.form = "LoadLiteral" /\ i.a[1].k = "r" /\ i.a[1].n = 31)
    [] i.form = "TestBranch" -> OutOf(i.a[3], 14) \/ i.a[2] >= i.a[1].size
    [] i.form = "Address" -> OutOf(i.a[2], 21)
    [] i.form = "AddSubtract" -> NoSum(i.a[1], i.a[2], i.a[3], i.op \in {"adds", "subs"})
    [] i.form = "Compare" -> NoSum(ZeroReg(i.a[1]), i.a[1], i.a[2], TRUE)
    [] i.form = "Logical" /\ i.op # "tst" /\ i.a[3].k = "bits" ->
         ~IsMask(i.a[3].bits, i.a[1].size) \/ (i.op \in {"ands", "bics"} /\ i.a[1].n = SpCode)
    [] i.form = "ShiftAlias" -> i.a[3] >= i.a[1].size
    [] i.form = "FieldAlias" -> i.a[4] = 0 \/ i.a[3] + i.a[4] > i.a[1].size
    [] i.form = "MoveWide" -> NoWide(i)
    [] i.form = "MoveRegister" -> SpCode \in {i.a[1].n, i.a[2].n} /\ 31 \in {i.a[1].n, i.a[2].n}
    [] i.form = "ConditionalAlias" -> i.a[Len(i.a)] >= 14
    [] i.form = "ConditionalCompare" -> i.a[2].k = "imm" /\ i.a[2].v > 31
    [] i.form = "LoadStore" -> NoLoad(i)
    [] i.form = "LoadStorePair" -> NoPair(i)
    [] i.form = "LoadStoreAcquireRelease" -> i.a[1] # "" /\ i.a[Len(i.a) - 1].size = 64
    [] i.form = "System" -> i.op \in {"brk", "hlt"} /\ i.a[1] > 65535
    [] i.form = "FMov" /\ i.a[2].k = "bits" -> i.a[2].bits \notin {Cpu!Expand(b) : b \in SUBSET (0..7)}
    [] i.form = "FPConvert" -> i.op \in {"fcvtzs", "fcvtzu"} /\ i.a[3] > (IF i.a[1].k = "r" THEN i.a[1].size ELSE i.a[2].size)
    [] OTHER -> FALSE

ReadBack(i) ==
  LET word == Emit(i)
  IN IF Impossible(i) THEN Refused \in word ELSE Refused \notin word /\ Cpu!Decode(word) = Means(i)

-----------------------------------------------------------------------------
\* Lists of branches to one label, bound before, between or behind them.
Bind == [k |-> "bind", label |-> "l"]
ToLabel(i, at) == [k |-> "code", i |-> i, label |-> "l", at |-> at]
Nop == [k |-> "code", i |-> Make("System", "nop", <<>>), label |-> "l", at |-> 0]
Jumps == <<ToLabel(Make("UnconditionalBranch", "b", <<0>>), 1), ToLabel(Make("UnconditionalBranch", "bl", <<0>>), 1),
           ToLabel(Make("ConditionalBranch", "b", <<0, 11>>), 1),
           ToLabel(Make("CompareBranch", "cbz", <<R(21, 64), 0>>), 2),
           ToLabel(Make("CompareBranch", "cbnz", <<R(31, 32), 0>>), 2),
           ToLabel(Make("TestBranch", "tbz", <<R(30, 64), 37, 0>>), 3),
           ToLabel(Make("TestBranch", "tbnz", <<R(30, 32), 5, 0>>), 3),
           ToLabel(Make("Address", "adr", <<R(13, 64), 0>>), 2)>>
Lists == [k : {"list"}, jumps : (1..8) \X {1, 6, 8} \X {3, 4, 8}, between : {0, 3}, behind : {0, 2}, bound : 0..3]

\* The label is bound behind that many of the three.
Items(list) ==
  LET nops(n) == [j \in 1..n |-> Nop]
      jump(n) == <<Jumps[list.jumps[n]]>> \o (IF list.bound = n THEN <<Bind>> ELSE <<>>)
  IN (IF list.bound = 0 THEN <<Bind>> ELSE <<>>)
       \o jump(1) \o nops(list.between) \o jump(2) \o nops(list.behind) \o jump(3)

\* Every word reads as its instruction with the distance to the label.
Linked(list) ==
  LET items == Items(list)
      s == Assemble(items, {"l"})
      bound == CHOOSE j \in DOMAIN items : items[j] = Bind
      place(j) == IF j < bound THEN j ELSE j - 1
  IN /\ Len(s.words) = Len(items) - 1
     /\ IsBound(s.pos["l"]) /\ Position(s.pos["l"]) = 4 * (bound - 1)
     /\ \A j \in DOMAIN items \ {bound} :
          LET item == items[j]
              distance == bound - place(j)
              i == IF item.at = 0 THEN item.i
                   ELSE [item.i EXCEPT !.a[item.at] = IF item.i.op = "adr" THEN 4 * distance ELSE distance]
          IN Refused \notin s.words[place(j)] /\ Cpu!Decode(s.words[place(j)]) = Means(i)

ReadsBack(input) == IF input.k = "list" THEN Linked(input) ELSE ReadBack(input)

-----------------------------------------------------------------------------
\* Sets of instructions of a kind.
Unsized ==
  Branches \o LongProducts \o Accesses \o Loads(Memories) \o Loads(Indexed) \o Systems \o HighMoves \o <<Lists>>
Sized(s) == SumsOf(s) \o Logicals(s) \o Fields(s) \o Conditions(s) \o Products(s) \o Reals(s)
Instructions(a, b) == Unsized \o Sized(a) \o Sized(b)

-----------------------------------------------------------------------------
(* The vector instructions.                                                 *)

\* A format is a size and a number of lanes; Q is one lane of 128 bits.
Formats ==
  {<<64, 8>>, <<128, 16>>, <<64, 4>>, <<128, 8>>, <<64, 2>>, <<128, 4>>, <<128, 2>>,
   <<8, 1>>, <<16, 1>>, <<32, 1>>, <<64, 1>>}
Wholes == Formats \cup {<<128, 1>>}
Triples == {<<10, 21, 14>>, <<21, 10, 31>>}

In(format, n) == V(n, format[1], format[2])

\* Registers of one format, of any two, and the last or the first of another.
Alike(n) == {[j \in 1..n |-> In(f, t[j])] : f \in Wholes, t \in Triples}
FormatPairs == {<<In(f, 10), In(g, 21)>> : f \in Wholes, g \in Formats}
Odd == {<<In(f, 10), In(f, 21), In(g, 7)>> : f, g \in Formats} \cup {<<In(f, 21), In(g, 10), In(g, 12)>> : f, g \in Formats}
With(tuples, values) == {Append(t, x) : t \in tuples, x \in values}
LaneDistances == {0, 1, 7, 8, 9, 16, 31, 32, 33, 63, 64, 65}
Widening == {p \in FormatPairs : LaneSize(p[1]) = 2 * LaneSize(p[2])}
Narrowing == {<<p[2], p[1]>> : p \in Widening}

Registers(rest) ==
  <<Every("NEON3Same", DOMAIN NEON3SameOps, Alike(3)),
    Every("NEON3Same", {"add", "mul", "sqadd", "and"}, Odd),
    Every("NEONFP3Same", DOMAIN NEONFP3SameOps, Alike(3)),
    Every("NEONFP3Same", {"fadd", "fmulx"}, Odd),
    Every("NEONFP2RegMisc", DOMAIN NEONFP2RegMiscOps, Alike(2)),
    Every("NEONFP2RegMisc", {"fabs", "frecpe"}, FormatPairs),
    Every("NEONFPZero", {"fcmeq", "fcmgt", "fcmge", "fcmle", "fcmlt"}, Alike(2) \cup FormatPairs),
    Every("NEONFPConvertToInt", DOMAIN NEONConvertOps, Alike(2) \cup FormatPairs),
    Every("NEON2RegMisc", DOMAIN NEON2RegMiscOps, Alike(2)),
    Every("NEON2RegMisc", {"suqadd", "abs", "cmlt"}, FormatPairs),
    Every("CountAndReverse", DOMAIN CountAndReverseOps \cup {"rbit"}, Alike(2) \cup FormatPairs),
    Every("MoveVector", {"mov", "mvn"}, Alike(2) \cup FormatPairs)>> \o rest

WidthSamples(rest) ==
  <<Every("NEON3DifferentL", DOMAIN NEON3DifferentLOps,
          {<<p[1], p[2], In(<<p[2].size, p[2].lanes>>, 12)>> : p \in FormatPairs}),
    Every("NEON3DifferentL", {"smlal", "sqdmull"}, Odd),
    Every("NEON3DifferentW", DOMAIN NEON3DifferentWOps, Odd),
    Every("NEON3DifferentHN", DOMAIN NEON3DifferentHNOps, Odd),
    Every("NEONXtn", DOMAIN NEONXtnOps, FormatPairs),
    Every("NEONAddlp", DOMAIN NEONAddlpOps, FormatPairs),
    Every("ConvertWidth", {"fcvtl", "fcvtn", "fcvtxn"}, FormatPairs),
    Every("NEONAcrossLanes", DOMAIN NEONAcrossLanesOps, FormatPairs),
    Every("ScalarPairwise", DOMAIN NEONScalarPairwiseOps, FormatPairs \cup Alike(2))>> \o rest

Shifts(rest) ==
  <<Every("ShiftLeft", DOMAIN ShiftLeftOps, With(Alike(2), LaneDistances)),
    Every("ShiftRight", DOMAIN ShiftRightOps, With(Alike(2), LaneDistances)),
    Every("ShiftRight", {"sshr", "scvtf"}, With(FormatPairs, {0, 1, 8})),
    Every("ShiftLong", {"sshll", "ushll"}, With(Widening, LaneDistances) \cup With(FormatPairs, {1})),
    Every("ExtendLong", {"sxtl", "uxtl"}, FormatPairs),
    Every("ShiftByLane", {"shll"}, With(FormatPairs, {8, 16, 32})),
    Every("ShiftNarrow", DOMAIN ShiftNarrowOps, With(Narrowing, LaneDistances)),
    Every("ShiftNarrow", {"shrn", "sqshrn"}, With(FormatPairs, {1}))>> \o rest

\* The element is in a scalar of the lanes, or of others.
Elements(pairs) ==
  {<<p[1], p[2], V(m, size, 1), index>> : p \in pairs, m \in {10, 21}, size \in {16, 32, 64}, index \in {0, 1, 3, 6, 8}}
ByElement(rest) ==
  <<Every("NEONByElement", DOMAIN NEONByElementOps, Elements(Alike(2))),
    Every("NEONByElementL", DOMAIN NEONByElementLOps, Elements(Widening)),
    Every("NEONByElementL", {"smull", "sqdmull"}, {Append(t, 2) : t \in Odd}),
    Every("NEONFPByElement", DOMAIN NEONFPByElementOps, Elements(Alike(2)))>> \o rest

General(size) == R(13, size)
Indices == {0, 1, 2, 3, 7, 8, 15, 16}
Lanes(rest) ==
  <<Every("DupElement", {"dup", "mov"}, With(FormatPairs, Indices)),
    Every("DupGeneral", {"dup"}, {<<In(f, 21), General(s)>> : f \in Formats, s \in {32, 64}}),
    Every("InsGeneral", {"ins"}, {<<In(f, 21), index, General(s)>> : f \in Formats, index \in Indices, s \in {32, 64}}),
    Every("SMov", {"smov"}, {<<General(s), In(f, 21), index>> : f \in Formats, index \in Indices, s \in {32, 64}}),
    Every("UMov", {"umov"}, {<<General(s), In(f, 21), index>> : f \in Wholes, index \in Indices, s \in {32, 64}}),
    Every("UMov", {"mov"}, {<<General(s), In(f, 21), index>> : f \in {<<128, 4>>, <<128, 2>>}, index \in Indices, s \in {32, 64}}),
    Every("Table", {"tbl", "tbx"},
          {<<In(f, 10), [j \in 1..n |-> In(g, (first + step * j) % 32)], In(f, 5)>> :
             f \in Formats, g \in {<<128, 16>>, <<64, 8>>}, n \in 1..4, first \in {9, 30}, step \in {1, 2}}),
    Every("NEONPerm", DOMAIN NEONPermOps, Alike(3)),
    Every("Ext", {"ext"}, With(Alike(3) \cup Odd, Indices))>> \o rest

\* Immediates of bytes, and doubles: see MCArm64.
Immediates(rest) ==
  LET words == {<<In(f, 21), v, shift>> : f \in Formats, v \in {0, 1, 170, 255, 256}, shift \in {0, 8, 16, 24, 4}}
      bytes == {{b \in 0..63 : b \div 8 \in s} : s \in SUBSET (0..7)}
      doubles == {Cpu!Expand(b) : b \in SUBSET (0..7)} \cup {{}, {63}, 62..63, 54..62, {54, 62}}
  IN <<Every("NEONModifiedImmShiftLsl", DOMAIN ModifiedImmediateOps, words),
       Every("NEONModifiedImmShiftMsl", {"movi", "mvni"}, words),
       Every("MoviBytes", {"movi"}, {<<In(f, 21), Pattern(b)>> : f \in {<<64, 1>>, <<128, 2>>}, b \in bytes \cup {{0}, 8..14}}),
       Every("FMovVector", {"fmov"}, {<<In(f, 10), Pattern(b)>> : f \in Formats, b \in doubles})>> \o rest

-----------------------------------------------------------------------------
\* What an instruction means, and whether its operands go together.

Reads(name, v, ops, fits) == [d |-> Cpu!VD(name, <<LaneSize(v), v.size>>, ops), fits |-> fits]
Always(name, lane, total, ops, fits) == [d |-> Cpu!D("v:" \o name, <<lane, total>>, ops), fits |-> fits]
Numbers(vs) == [j \in DOMAIN vs |-> vs[j].n]
Same(vs) == \A j \in 2..Len(vs) : AreSameFormat(vs[1], vs[j])

\* Lanes twice as wide: of a scalar, or of all 128 bits.
Wider(w, n) == LaneSize(w) = 2 * LaneSize(n) /\ (IF n.lanes = 1 THEN w.lanes = 1 ELSE w.lanes > 1 /\ w.size = 128)

\* A scalar operation may be one of the floating point unit.
FloatReads(i, unit) ==
  LET v == i.a[1]
  IN IF IsScalar(v) /\ i.op \in unit
     THEN [d |-> Cpu!D(i.op, v.size, Numbers(i.a)), fits |-> Same(i.a) /\ v.size \in {32, 64}]
     ELSE Reads(i.op, v, Numbers(i.a), Same(i.a))

ShiftReads(i, suffix, v, fits, from, to) ==
  Reads(i.op \o suffix, v, <<i.a[1].n, i.a[2].n, i.a[3]>>, fits /\ i.a[3] \in from..to)
ElementReads(i, fits) ==
  LET m == i.a[3]
  IN Reads(i.op \o "[]", i.a[2], Numbers(SubSeq(i.a, 1, 3)) \o <<i.a[4]>>,
           /\ fits /\ IsScalar(m) /\ m.size = LaneSize(i.a[2]) /\ i.a[4] < 128 \div m.size
           /\ (m.size = 16 => m.n < 16))

OneFormatReads(i) ==
  LET a == i.a  ns == Numbers(i.a)
  IN CASE i.form \in {"NEON3Same", "NEONPerm", "CountAndReverse", "NEONFPConvertToInt"} -> Reads(i.op, a[1], ns, Same(a))
       [] i.form = "NEONFP3Same" -> FloatReads(i, DOMAIN FPDataProcessing2SourceOps)
       [] i.form = "NEONFP2RegMisc" -> FloatReads(i, DOMAIN FPDataProcessing1SourceOps)
       [] i.form = "NEONFPZero" -> Reads(i.op \o "0", a[1], ns, Same(a))
       [] i.form = "NEON2RegMisc" ->
            Reads(i.op \o (IF i.op \in {"cmeq", "cmge", "cmgt", "cmle", "cmlt"} THEN "0" ELSE ""), a[1], ns, Same(a))
       [] i.form = "MoveVector" ->
            Always(IF i.op = "mov" THEN "orr" ELSE "not", 8, a[1].size,
                   IF i.op = "mov" THEN <<a[1].n, a[2].n, a[2].n>> ELSE ns, Same(a) /\ a[1].size \in {64, 128})
       [] i.form = "Ext" ->
            Always("ext", LaneSize(a[1]), a[1].size, Numbers(SubSeq(a, 1, 3)) \o <<a[4]>>,
                   Same(SubSeq(a, 1, 3)) /\ Bytewise(a[1]) /\ a[4] < a[1].lanes)
       [] i.form = "Table" ->
            Always(i.op, LaneSize(a[1]), a[1].size, <<a[1].n, a[2][1].n, a[3].n, Len(a[2])>>,
                   /\ Same(<<a[1], a[3]>>) /\ Bytewise(a[1])
                   /\ \A j \in DOMAIN a[2] : a[2][j] = V((a[2][1].n + j - 1) % 32, 128, 16))

TwoFormatsRead(i) ==
  LET a == i.a  ns == Numbers(i.a)
  IN CASE i.form = "NEON3DifferentL" -> Reads(i.op, a[2], ns, Same(<<a[2], a[3]>>) /\ Wider(a[1], a[2]))
       [] i.form = "NEON3DifferentW" -> Reads(i.op, a[3], ns, Same(<<a[1], a[2]>>) /\ Wider(a[1], a[3]))
       [] i.form = "NEON3DifferentHN" -> Reads(i.op, a[1], ns, Same(<<a[2], a[3]>>) /\ Wider(a[2], a[1]))
       [] i.form = "NEONXtn" -> Reads(i.op, a[1], ns, Wider(a[2], a[1]))
       [] i.form = "NEONAddlp" -> Reads(i.op, a[2], ns, a[1].size = a[2].size /\ LaneSize(a[1]) = 2 * LaneSize(a[2]))
       [] i.form = "ConvertWidth" ->
            IF i.op = "fcvtl" THEN Reads(i.op, a[2], ns, Wider(a[1], a[2])) ELSE Reads(i.op, a[1], ns, Wider(a[2], a[1]))
       [] i.form = "NEONAcrossLanes" -> Reads(i.op, a[2], ns, IsScalar(a[1]) /\ a[1].size = LaneSize(a[2]))
       [] i.form = "ScalarPairwise" ->
            IF i.op = "frecpx" THEN Reads(i.op, a[1], ns, Same(a))
            ELSE Reads(i.op \o "'", a[1], ns, IsScalar(a[1]) /\ a[2].lanes = 2 /\ LaneSize(a[2]) = a[1].size)

ShiftRead(i) ==
  LET a == i.a  lane(v) == LaneSize(v)
  IN CASE i.form = "ShiftLeft" -> ShiftReads(i, "", a[1], Same(<<a[1], a[2]>>), 0, lane(a[1]) - 1)
       [] i.form = "ShiftRight" ->
            IF i.op \in FixedPoint /\ a[3] = 0 THEN Reads(i.op, a[1], <<a[1].n, a[2].n>>, Same(<<a[1], a[2]>>))
            ELSE ShiftReads(i, IF i.op \in FixedPoint THEN "#" ELSE "", a[1], Same(<<a[1], a[2]>>), 1, lane(a[1]))
       [] i.form = "ShiftLong" -> ShiftReads(i, "", a[2], Wider(a[1], a[2]), 0, lane(a[2]) - 1)
       [] i.form = "ExtendLong" ->
            Reads(IF i.op = "sxtl" THEN "sshll" ELSE "ushll", a[2], <<a[1].n, a[2].n, 0>>, Wider(a[1], a[2]))
       [] i.form = "ShiftByLane" ->
            Reads(i.op, a[2], <<a[1].n, a[2].n>>, Wider(a[1], a[2]) /\ a[3] = lane(a[2]))
       [] i.form = "ShiftNarrow" -> ShiftReads(i, "", a[1], Wider(a[2], a[1]), 1, lane(a[1]))
       [] i.form \in {"NEONByElement", "NEONFPByElement"} -> ElementReads(i, Same(<<a[1], a[2]>>))
       [] i.form = "NEONByElementL" -> ElementReads(i, Wider(a[1], a[2]))

LaneRead(i) ==
  LET a == i.a
      lane == IF i.form \in {"SMov", "UMov"} THEN LaneSize(a[2]) ELSE LaneSize(a[1])
      moved == <<a[1].n, a[2].n, a[3]>>
  IN CASE i.form = "DupElement" ->
            Reads("dup", a[1], moved,
                  lane = LaneSize(a[2]) /\ a[3] < 128 \div lane /\ (i.op = "mov" => IsScalar(a[1])))
       [] i.form = "DupGeneral" ->
            Always("dup-general", lane, a[1].size, <<a[1].n, a[2].n>>,
                   a[1].lanes > 1 /\ (IF lane = 64 THEN 64 ELSE 32) = a[2].size)
       [] i.form = "InsGeneral" ->
            Always("ins", lane, 128, <<a[1].n, a[2], a[3].n>>,
                   a[2] < 128 \div lane /\ (IF lane = 64 THEN 64 ELSE 32) = a[3].size)
       [] i.form = "SMov" -> Always("smov", lane, a[1].size, moved, lane < a[1].size /\ a[3] < 128 \div lane)
       [] i.form = "UMov" ->
            Always("umov", lane, a[1].size, moved, (IF lane = 64 THEN 64 ELSE 32) = a[1].size /\ a[3] < 128 \div lane
                     /\ lane <= 64)

\* The eight bits where they go, in a lane.
ImmediateRead(i) ==
  LET vd == i.a[1]
      lane == LaneSize(vd)
      ones == IF i.a[3] = 8 THEN 0..7 ELSE 0..15
      moved == {b + i.a[3] : b \in At(i.a[2], 0)} \cup (IF i.form = "NEONModifiedImmShiftMsl" THEN ones ELSE {})
      bits == IF i.op = "mvni" THEN 0..(lane - 1) \ moved ELSE moved
      allowed ==
        IF i.form = "NEONModifiedImmShiftMsl" THEN lane = 32 /\ i.a[3] \in {8, 16}
        ELSE \/ lane \in {16, 32} /\ i.a[3] \in {s \in {0, 8, 16, 24} : s < lane}
             \/ lane = 8 /\ i.a[3] = 0 /\ i.op = "movi"
  IN Always(IF i.op = "mvni" THEN "movi" ELSE i.op, lane, vd.size, <<vd.n, bits>>, IsVector(vd) /\ i.a[2] < 256 /\ allowed)

WholeRead(i) ==
  LET vd == i.a[1]  bits == i.a[2].bits
  IN IF i.form = "MoviBytes"
     THEN Always("movi", 64, vd.size, <<vd.n, bits>>, \A b \in bits : {8 * (b \div 8) + n : n \in 0..7} \subseteq bits)
     ELSE Always("fmov", LaneSize(vd), vd.size, <<vd.n, bits>>,
                 IsVector(vd) /\ LaneSize(vd) \in {32, 64} /\ bits \in {Cpu!Expand(b) : b \in SUBSET (0..7)})

Reading(i) ==
  CASE i.form \in {"NEON3Same", "NEONPerm", "CountAndReverse", "NEONFPConvertToInt", "NEONFP3Same", "NEONFP2RegMisc",
                   "NEONFPZero", "NEON2RegMisc", "MoveVector", "Ext", "Table"} -> OneFormatReads(i)
    [] i.form \in {"NEON3DifferentL", "NEON3DifferentW", "NEON3DifferentHN", "NEONXtn", "NEONAddlp", "ConvertWidth",
                   "NEONAcrossLanes", "ScalarPairwise"} -> TwoFormatsRead(i)
    [] i.form \in {"ShiftLeft", "ShiftRight", "ShiftLong", "ExtendLong", "ShiftByLane", "ShiftNarrow", "NEONByElement",
                   "NEONByElementL", "NEONFPByElement"} -> ShiftRead(i)
    [] i.form \in {"DupElement", "DupGeneral", "InsGeneral", "SMov", "UMov"} -> LaneRead(i)
    [] i.form \in {"NEONModifiedImmShiftLsl", "NEONModifiedImmShiftMsl"} -> ImmediateRead(i)
    [] i.form \in {"MoviBytes", "FMovVector"} -> WholeRead(i)

\* Where the assertions are wrong: an element or a format that is not there is
\* accepted by addp, dup, the conversions to integers and the shifts to the
\* left, a shift of bytes is dropped, and no lane of 64 bits can be set.
Misjudged(i) ==
  \/ i.form = "NEON3Same" /\ i.op = "addp" /\ Is1D(i.a[1])
  \/ i.form = "NEONFPConvertToInt" /\ ~AreSameFormat(i.a[1], i.a[2])
  \/ i.form = "DupElement" /\ (LaneSize(i.a[1]) # LaneSize(i.a[2]) \/ i.a[3] >= 128 \div LaneSize(i.a[2]))
  \/ i.form = "ShiftLeft" /\ IsScalar(i.a[1]) /\ IsQ(i.a[1])
  \/ i.form = "InsGeneral" /\ LaneSize(i.a[1]) = 64
  \/ i.form = "NEONModifiedImmShiftLsl" /\ LaneSize(i.a[1]) = 8 /\ i.a[3] # 0

VectorReadsBack(i) ==
  LET word == EmitVector(i)
      reading == Reading(i)
      read == Cpu!DecodeAny(word)
  IN IF reading.fits /\ reading.d.name # "unknown"
     THEN Refused \notin word /\ read.name = reading.d.name /\ read = reading.d
     ELSE Refused \in word

-----------------------------------------------------------------------------
Samples(rest) ==
  LET all == Registers(WidthSamples(Shifts(ByElement(Lanes(Immediates(rest))))))
  IN [n \in DOMAIN all |-> {i \in all[n] : ~Misjudged(i)}]
=============================================================================
