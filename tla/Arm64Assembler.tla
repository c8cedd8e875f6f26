----------------------------- MODULE Arm64Assembler ---------------------------
(* The assembler for arm64 (src/arm64/asm-arm64.h, asm-arm64.cc and the       *)
(* constants of const-arm64.h).  An instruction is [op, a]: the name of the   *)
(* method and its arguments.  A word is the set of its bits, as the code puts *)
(* it together with `|`; Refused is in it where an assertion does not hold.   *)
(* The second-part methods (smull2, xtn2, ...) differ from the first in their *)
(* assertions only: here one name stands for both, the arguments tell which.  *)
EXTENDS Integers, Sequences, SequencesExt, FiniteSetsExt

Refused == -1
Require(condition) == IF condition THEN {} ELSE {Refused}

\* The bits of a number, moved to an offset; a signed number in `width` bits.
At(v, offset) == {offset + i : i \in {j \in 0..26 : (v \div 2 ^ j) % 2 = 1}}
Signed(v, width, offset) == At(v % 2 ^ width, offset) \cup
                            Require(v \in -(2 ^ (width - 1))..(2 ^ (width - 1) - 1))
Unsigned(v, width, offset) == At(v, offset) \cup Require(v \in 0..(2 ^ width - 1))

\* A constant of const-arm64.h: its upper and its lower half word.
Op(halves) == At(halves[1], 16) \cup At(halves[2], 0)

-----------------------------------------------------------------------------
\* General registers (63 is sp, 31 the zero register), vector registers with
\* the number of lanes, and the operands of data processing and of memory.
R(n, size) == [k |-> "r", n |-> n, size |-> size, lanes |-> 1]
V(n, size, lanes) == [k |-> "v", n |-> n, size |-> size, lanes |-> lanes]
SpCode == 63
ZeroReg(r) == R(31, r.size)
Is64(r) == r.size = 64
IsQ(v) == v.size = 128
IsScalar(v) == v.lanes = 1
LaneSize(v) == v.size \div v.lanes

Number(v) == [k |-> "imm", v |-> v]
Pattern(bits) == [k |-> "bits", bits |-> bits]
Shifted(reg, shift, amount) == [k |-> "shift", reg |-> reg, type |-> shift, amount |-> amount]
Extended(reg, extend, amount) == [k |-> "extend", reg |-> reg, type |-> extend, amount |-> amount]
\* mode is "offset", "pre" or "post" with a number, or "reg" with an Extended.
Memory(base, mode, off) == [k |-> "mem", base |-> base, mode |-> mode, off |-> off]

\* Register fields.  Rd refuses the stack pointer, RdSP the zero register.
Plain(r, offset) == At(r.n, offset) \cup Require(r.n # SpCode)
Rd(r) == Plain(r, 0)
Rt(r) == Plain(r, 0)
Rn(r) == Plain(r, 5)
Ra(r) == Plain(r, 10)
Rt2(r) == Plain(r, 10)
Rm(r) == Plain(r, 16)
Rs(r) == Plain(r, 16)
RdSP(r) == At(r.n % 32, 0) \cup Require(r.n # 31)
RnSP(r) == At(r.n % 32, 5) \cup Require(r.n # 31)

SF(r) == IF Is64(r) THEN {31} ELSE {}
Flags(set) == IF set THEN {29} ELSE {}
Cond(c) == At(c, 12)
Nzcv(f) == At(f, 0)
NegateCondition(c) == IF c % 2 = 0 THEN c + 1 ELSE c - 1

\* The scaled 12 bits of an add or sub.
ImmAddSub(v) ==
  IF v \in 0..4095 THEN At(v, 10)
  ELSE At(v \div 4096, 10) \cup {22} \cup Require(v >= 0 /\ v % 4096 = 0 /\ v \div 4096 <= 4095)

ImmTestBranchBit(bit) == At(bit % 32, 19) \cup (IF bit >= 32 THEN {31} ELSE {})
ImmPCRelAddress(v) == Signed(v \div 4, 19, 5) \cup At(v % 4, 29)

-----------------------------------------------------------------------------
\* Branches with the distance in instructions.

ToRegister == [br |-> <<\hD61F, 0>>, blr |-> <<\hD63F, 0>>, ret |-> <<\hD65F, 0>>]
BranchToRegister(i) ==
  Op(ToRegister[i.op]) \cup Rn(i.a[1]) \cup Require(Is64(i.a[1]) /\ (i.op = "blr" => i.a[1].n # 31))

ToOffset == [b |-> <<\h1400, 0>>, bl |-> <<\h9400, 0>>]
UnconditionalBranch(i) == Op(ToOffset[i.op]) \cup Signed(i.a[1], 26, 0)

ConditionalBranch(i) == Op(<<\h5400, 0>>) \cup Signed(i.a[1], 19, 5) \cup At(i.a[2], 0)

CompareBranchOps == [cbz |-> <<\h3400, 0>>, cbnz |-> <<\h3500, 0>>]
CompareBranch(i) == SF(i.a[1]) \cup Op(CompareBranchOps[i.op]) \cup Signed(i.a[2], 19, 5) \cup Rt(i.a[1])

TestBranchOps == [tbz |-> <<\h3600, 0>>, tbnz |-> <<\h3700, 0>>]
TestBranch(i) ==
  Op(TestBranchOps[i.op]) \cup ImmTestBranchBit(i.a[2]) \cup Signed(i.a[3], 14, 5) \cup Rt(i.a[1])
    \cup Require(i.a[2] < i.a[1].size)

AddressOps == [adr |-> <<\h1000, 0>>, adrp |-> <<\h9000, 0>>]
Address(i) ==
  Op(AddressOps[i.op]) \cup ImmPCRelAddress(i.a[2]) \cup Rd(i.a[1]) \cup Require(Is64(i.a[1]))

-----------------------------------------------------------------------------
\* Data processing with an operand.

DataProcShiftedRegister(rd, rn, o, set, op) ==
  SF(rd) \cup op \cup Flags(set) \cup At(o.type, 22) \cup At(o.amount, 10) \cup Rm(o.reg) \cup Rn(rn)
    \cup Rd(rd) \cup Require(o.amount < rn.size)

DataProcExtendedRegister(rd, rn, o, set, op) ==
  SF(rd) \cup op \cup Flags(set) \cup Rm(o.reg) \cup At(o.type, 13) \cup At(o.amount, 10)
    \cup (IF set THEN Rd(rd) ELSE RdSP(rd)) \cup RnSP(rn) \cup Require(o.amount <= 4)

ToExtendedRegister(o) == Extended(o.reg, IF Is64(o.reg) THEN 3 ELSE 2, o.amount)

\* Mutant: an addition to the stack pointer takes the shifted form.
AddSub_Shifted(rd, rn, o, set, op) ==
  CASE o.k = "imm" -> SF(rd) \cup Op(<<\h1100, 0>>) \cup op \cup Flags(set) \cup ImmAddSub(o.v)
                        \cup (IF set THEN Rd(rd) ELSE RdSP(rd)) \cup RnSP(rn)
    [] o.k = "shift" -> DataProcShiftedRegister(rd, rn, o, set, Op(<<\h0B00, 0>>) \cup op)
    [] o.k = "extend" -> DataProcExtendedRegister(rd, rn, o, set, Op(<<\h0B20, 0>>) \cup op)

AddSub(rd, rn, o, set, op) ==
  Require(rd.size = rn.size) \cup
  CASE o.k = "imm" -> SF(rd) \cup Op(<<\h1100, 0>>) \cup op \cup Flags(set) \cup ImmAddSub(o.v)
                        \cup (IF set THEN Rd(rd) ELSE RdSP(rd)) \cup RnSP(rn)
    [] o.k = "shift" /\ (rn.n = SpCode \/ rd.n = SpCode) ->
         Require(o.type = 0) \cup
         DataProcExtendedRegister(rd, rn, ToExtendedRegister(o), set, Op(<<\h0B20, 0>>) \cup op)
    [] o.k = "shift" -> DataProcShiftedRegister(rd, rn, o, set, Op(<<\h0B00, 0>>) \cup op)
    [] o.k = "extend" -> DataProcExtendedRegister(rd, rn, o, set, Op(<<\h0B20, 0>>) \cup op)

\* The operation's bits, and whether it sets the flags.
Sums == [add |-> <<{}, FALSE>>, adds |-> <<{}, TRUE>>, sub |-> <<{30}, FALSE>>, subs |-> <<{30}, TRUE>>]
AddSubtract(i) == AddSub(i.a[1], i.a[2], i.a[3], Sums[i.op][2], Sums[i.op][1])

\* cmn and cmp, neg and negs.
Compare(i) == AddSub(ZeroReg(i.a[1]), i.a[1], i.a[2], TRUE, IF i.op = "cmp" THEN {30} ELSE {})
NegateSum(i) == AddSub(i.a[1], ZeroReg(i.a[1]), i.a[2], i.op = "negs", {30})

Carries == [adc |-> <<{}, FALSE>>, adcs |-> <<{}, TRUE>>, sbc |-> <<{30}, FALSE>>, sbcs |-> <<{30}, TRUE>>]
AddSubWithCarry(rd, rn, rm, set, op) ==
  SF(rd) \cup Op(<<\h1A00, 0>>) \cup op \cup Flags(set) \cup Rm(rm) \cup Rn(rn) \cup Rd(rd)
Carry(i) == IF i.op \in {"ngc", "ngcs"}
            THEN AddSubWithCarry(i.a[1], ZeroReg(i.a[1]), i.a[2], i.op = "ngcs", {30})
            ELSE AddSubWithCarry(i.a[1], i.a[2], i.a[3], Carries[i.op][2], Carries[i.op][1])

-----------------------------------------------------------------------------
\* Logical operations.  ~op in bit 21 inverts the operand, an immediate before
\* it is encoded.

Lowest(v) == IF v = {} THEN 64 ELSE Min(v)

\* Mutant: the rotation of an inverted pattern is not counted from its end.
IsImmLogical_Rotation(value, width) ==
  LET inverted == 0 \in value
      word == IF inverted THEN (0..63) \ value ELSE value
      v == IF width = 32 THEN UNION {{x, x + 32} : x \in word \cap 0..31} ELSE word
      a == Lowest(v)
      b == Lowest((a..63) \ v)
      c == Lowest(v \ (a..(b - 1)))
      d == IF c = 64 THEN 64 ELSE c - a
      candidate == {x \in 0..63 : \E n \in 0..63 : x - n * d \in a..(b - 1)}
      s == IF inverted THEN d - (b - a) ELSE b - a
  IN IF a = 64 \/ d \notin {2, 4, 8, 16, 32, 64} \/ b > d \/ v # candidate THEN {Refused}
     ELSE At(s - 1, 10) \cup {10 + i : i \in {j \in 0..5 : 2 ^ j >= 2 * d}}
            \cup At((64 - a) % d, 16) \cup (IF d = 64 THEN {22} ELSE {})

\* The fields N, imms and immr of a pattern: the lowest stretch a..b-1 of ones
\* repeated every d bits; a pattern with bit 0 set is inverted first.
IsImmLogical(value, width) ==
  LET inverted == 0 \in value
      word == IF inverted THEN (0..63) \ value ELSE value
      v == IF width = 32 THEN UNION {{x, x + 32} : x \in word \cap 0..31} ELSE word
      a == Lowest(v)
      b == Lowest((a..63) \ v)
      c == Lowest(v \ (a..(b - 1)))
      d == IF c = 64 THEN 64 ELSE c - a
      candidate == {x \in 0..63 : \E n \in 0..63 : x - n * d \in a..(b - 1)}
      s == IF inverted THEN d - (b - a) ELSE b - a
      r == IF inverted THEN (64 - b) % d ELSE (64 - a) % d
  IN IF a = 64 \/ d \notin {2, 4, 8, 16, 32, 64} \/ b > d \/ v # candidate THEN {Refused}
     ELSE At(s - 1, 10) \cup {10 + i : i \in {j \in 0..5 : 2 ^ j >= 2 * d}}
            \cup At(r, 16) \cup (IF d = 64 THEN {22} ELSE {})

LogicalOps == [and |-> {}, bic |-> {21}, orr |-> {29}, orn |-> {29, 21}, eor |-> {30}, eon |-> {30, 21},
               ands |-> {30, 29}, bics |-> {30, 29, 21}]

LogicalImmediate(rd, rn, fields, op) ==
  SF(rd) \cup Op(<<\h1200, 0>>) \cup op \cup fields
    \cup (IF op = LogicalOps.ands THEN Rd(rd) ELSE RdSP(rd)) \cup Rn(rn)

LogicalWith(rd, rn, o, op) ==
  LET all == 0..(rd.size - 1)
      bits == IF 21 \in op THEN all \ o.bits ELSE o.bits
  IN IF o.k = "bits"
     THEN LogicalImmediate(rd, rn, IsImmLogical(bits, rd.size), op \ {21})
            \cup Require(rd.size = rn.size /\ o.bits # {} /\ o.bits # 0..63 /\ o.bits \subseteq all)
     ELSE Require(rd.size = rn.size) \cup DataProcShiftedRegister(rd, rn, o, FALSE, Op(<<\h0A00, 0>>) \cup op)

Logical(i) == IF i.op = "tst" THEN LogicalWith(ZeroReg(i.a[1]), i.a[1], i.a[2], LogicalOps.ands)
              ELSE LogicalWith(i.a[1], i.a[2], i.a[3], LogicalOps[i.op])

-----------------------------------------------------------------------------
\* Bitfields and moves.

BitfieldOps == [sbfm |-> <<\h1300, 0>>, bfm |-> <<\h3300, 0>>, ubfm |-> <<\h5300, 0>>]
BitfieldN(r) == IF Is64(r) THEN {22} ELSE {}
ImmR(v, size) == At(v, 16) \cup Require(v \in 0..(size - 1))
ImmS(v, size) == At(v, 10) \cup Require(v \in 0..(size - 1))

Move(op, rd, rn, immr, imms) ==
  SF(rd) \cup Op(BitfieldOps[op]) \cup BitfieldN(rd) \cup ImmR(immr, rd.size) \cup ImmS(imms, rn.size)
    \cup Rn(rn) \cup Rd(rd) \cup Require(rd.size = rn.size \/ (op = "sbfm" /\ Is64(rd)))
BitfieldMove(i) == Move(i.op, i.a[1], i.a[2], i.a[3], i.a[4])

\* Mutant: a left shift rotates by the shift.
ShiftAlias_Left(i) ==
  LET rd == i.a[1]  shift == i.a[3]
  IN Require(shift < rd.size) \cup
     CASE i.op = "lsl" -> Move("ubfm", rd, i.a[2], shift, rd.size - shift - 1)
       [] i.op = "lsr" -> Move("ubfm", rd, i.a[2], shift, rd.size - 1)
       [] i.op = "asr" -> Move("sbfm", rd, i.a[2], shift, rd.size - 1)

ShiftAlias(i) ==
  LET rd == i.a[1]  shift == i.a[3]
  IN Require(shift < rd.size) \cup
     CASE i.op = "lsl" -> Move("ubfm", rd, i.a[2], (rd.size - shift) % rd.size, rd.size - shift - 1)
       [] i.op = "lsr" -> Move("ubfm", rd, i.a[2], shift, rd.size - 1)
       [] i.op = "asr" -> Move("sbfm", rd, i.a[2], shift, rd.size - 1)

\* The move an alias stands for, and whether it inserts or extracts.
FieldAliases == [bfi |-> <<"bfm", TRUE>>, bfxil |-> <<"bfm", FALSE>>, sbfiz |-> <<"sbfm", TRUE>>,
                 sbfx |-> <<"sbfm", FALSE>>, ubfiz |-> <<"ubfm", TRUE>>, ubfx |-> <<"ubfm", FALSE>>]
FieldAlias(i) ==
  LET rd == i.a[1]  lsb == i.a[3]  width == i.a[4]
      op == FieldAliases[i.op][1]
  IN Require(width >= 1 /\ lsb + width <= i.a[2].size) \cup
     IF FieldAliases[i.op][2] THEN Move(op, rd, i.a[2], (rd.size - lsb) % rd.size, width - 1)
     ELSE Move(op, rd, i.a[2], lsb, lsb + width - 1)

ExtendAliases == [sxtb |-> <<"sbfm", 7>>, sxth |-> <<"sbfm", 15>>, sxtw |-> <<"sbfm", 31>>,
                  uxtb |-> <<"ubfm", 7>>, uxth |-> <<"ubfm", 15>>, uxtw |-> <<"ubfm", 31>>]
ExtendAlias(i) == Move(ExtendAliases[i.op][1], i.a[1], i.a[2], 0, ExtendAliases[i.op][2])

Extract(rd, rn, rm, lsb) ==
  SF(rd) \cup Op(<<\h1380, 0>>) \cup BitfieldN(rd) \cup Rm(rm) \cup ImmS(lsb, rn.size) \cup Rn(rn) \cup Rd(rd)
    \cup Require(rd.size = rn.size /\ rd.size = rm.size)
Extr(i) == Extract(i.a[1], i.a[2], IF i.op = "ror" THEN i.a[2] ELSE i.a[3], i.a[Len(i.a)])

\* A wide move of a pattern; shift -1 lets the assembler find the half word.
MoveWideOps == [movn |-> <<\h1280, 0>>, movz |-> <<\h5280, 0>>, movk |-> <<\h7280, 0>>]
Down(bits, n) == {b - n : b \in bits}
MoveWide(i) ==
  LET rd == i.a[1]  shift == i.a[3]
      imm == IF Is64(rd) THEN i.a[2].bits ELSE i.a[2].bits \cap 0..31
      fits == {h \in 0..3 : imm \subseteq 16 * h..(16 * h + 15)}
      half == IF shift >= 0 THEN shift \div 16 ELSE IF fits = {} THEN 0 ELSE Min(fits)
      kept == IF shift >= 0 THEN imm ELSE Down(imm, 16 * half)
  IN SF(rd) \cup Op(MoveWideOps[i.op]) \cup Rd(rd) \cup {b + 5 : b \in kept} \cup At(half, 21)
       \cup Require(kept \subseteq 0..15 /\ (shift >= 0 => shift % 16 = 0) /\ half \in 0..(rd.size \div 16 - 1))
       \cup Require(Is64(rd) \/ i.a[2].bits \subseteq 0..31 \/ 31..63 \subseteq i.a[2].bits)

MoveRegister(i) ==
  IF SpCode \in {i.a[1].n, i.a[2].n} THEN AddSub(i.a[1], i.a[2], Number(0), FALSE, {})
  ELSE LogicalWith(i.a[1], ZeroReg(i.a[1]), Shifted(i.a[2], 0, 0), LogicalOps.orr)

-----------------------------------------------------------------------------
\* Conditions and multiplications.

ConditionalSelectOps == [csel |-> <<\h1A80, 0>>, csinc |-> <<\h1A80, \h400>>, csinv |-> <<\h5A80, 0>>,
                         csneg |-> <<\h5A80, \h400>>]
Select(op, rd, rn, rm, cond) ==
  SF(rd) \cup Op(ConditionalSelectOps[op]) \cup Rm(rm) \cup Cond(cond) \cup Rn(rn) \cup Rd(rd)
    \cup Require(rd.size = rn.size /\ rd.size = rm.size)
ConditionalSelect(i) == Select(i.op, i.a[1], i.a[2], i.a[3], i.a[4])

ConditionalAliases == [cset |-> "csinc", csetm |-> "csinv", cinc |-> "csinc", cinv |-> "csinv", cneg |-> "csneg"]
ConditionalAlias(i) ==
  LET rn == IF i.op \in {"cset", "csetm"} THEN ZeroReg(i.a[1]) ELSE i.a[2]
      cond == i.a[Len(i.a)]
  IN Select(ConditionalAliases[i.op], i.a[1], rn, rn, NegateCondition(cond)) \cup Require(cond \notin {14, 15})

ConditionalCompare(i) ==
  LET o == i.a[2]
  IN SF(i.a[1]) \cup (IF i.op = "ccmp" THEN {30} ELSE {}) \cup Cond(i.a[4]) \cup Rn(i.a[1]) \cup Nzcv(i.a[3])
       \cup IF o.k = "imm" THEN Op(<<\h3A40, \h800>>) \cup Unsigned(o.v, 5, 16)
            ELSE Op(<<\h3A40, 0>>) \cup Rm(o.reg) \cup Require(o.k = "shift" /\ o.amount = 0)

DataProcessing3SourceOps ==
  [madd |-> <<\h1B00, 0>>, msub |-> <<\h1B00, \h8000>>, smaddl |-> <<\h9B20, 0>>, smsubl |-> <<\h9B20, \h8000>>,
   umaddl |-> <<\h9BA0, 0>>, umsubl |-> <<\h9BA0, \h8000>>, smulh |-> <<\h9B40, 0>>]
Multiply(op, rd, rn, rm, ra) ==
  SF(rd) \cup Op(DataProcessing3SourceOps[op]) \cup Rm(rm) \cup Ra(ra) \cup Rn(rn) \cup Rd(rd)
    \cup IF op \in {"madd", "msub", "smulh"} THEN Require(rd.size = rn.size /\ rd.size = rm.size /\ rd.size = ra.size)
         ELSE Require(Is64(rd) /\ Is64(ra) /\ ~Is64(rn) /\ ~Is64(rm))
Multiplies == [mul |-> "madd", mneg |-> "msub", smull |-> "smaddl", smulh |-> "smulh"]
DataProcessing3Source(i) ==
  IF i.op \in DOMAIN Multiplies THEN Multiply(Multiplies[i.op], i.a[1], i.a[2], i.a[3], ZeroReg(i.a[1]))
  ELSE Multiply(i.op, i.a[1], i.a[2], i.a[3], i.a[4])

DataProcessing2SourceOps ==
  [lslv |-> <<\h1AC0, \h2000>>, lsrv |-> <<\h1AC0, \h2400>>, asrv |-> <<\h1AC0, \h2800>>,
   rorv |-> <<\h1AC0, \h2C00>>, sdiv |-> <<\h1AC0, \hC00>>, udiv |-> <<\h1AC0, \h800>>]
DataProcessing2Source(i) ==
  SF(i.a[1]) \cup Op(DataProcessing2SourceOps[i.op]) \cup Rm(i.a[3]) \cup Rn(i.a[2]) \cup Rd(i.a[1])
    \cup Require(i.a[1].size = i.a[2].size /\ i.a[1].size = i.a[3].size)

DataProcessing1SourceOps == [rbit |-> 0, rev16 |-> \h400, rev32 |-> \h800, clz |-> \h1000, cls |-> \h1400]
DataProcessing1Source(i) ==
  LET bits == IF i.op = "rev" THEN IF Is64(i.a[1]) THEN \hC00 ELSE \h800 ELSE DataProcessing1SourceOps[i.op]
  IN SF(i.a[2]) \cup Op(<<\h5AC0, bits>>) \cup Rn(i.a[2]) \cup Rd(i.a[1])
       \cup Require(i.a[1].size = i.a[2].size /\ (i.op = "rev32" => Is64(i.a[1])))

-----------------------------------------------------------------------------
\* Loads and stores.

\* Loads and stores of one register by their size, opc and vector bits.
LoadStoreOps == [strb |-> {}, strh |-> {30}, ldrb |-> {22}, ldrh |-> {30, 22}, ldrsw |-> {31, 23}]
LoadOrStore(op, rt) ==
  CASE op \in {"str", "ldr"} ->
         (IF op = "ldr" THEN {22} ELSE {}) \cup
         IF rt.k = "r" THEN {31} \cup (IF Is64(rt) THEN {30} ELSE {})
         ELSE {26} \cup (CASE rt.size = 8 -> {} [] rt.size = 16 -> {30} [] rt.size = 32 -> {31}
                           [] rt.size = 64 -> {31, 30} [] rt.size = 128 -> {23})
    [] op = "ldrsb" -> IF Is64(rt) THEN {23} ELSE {23, 22}
    [] op = "ldrsh" -> IF Is64(rt) THEN {30, 23} ELSE {30, 23, 22}
    [] OTHER -> LoadStoreOps[op]
CalcLSDataSize(op) ==
  IF {31, 30} \cap op = {} /\ 26 \in op /\ 23 \in op THEN 4
  ELSE (IF 31 \in op THEN 2 ELSE 0) + (IF 30 \in op THEN 1 ELSE 0)

IsImmLSUnscaled(off) == off \in -256..255
IsImmLSScaled(off, size) == off % 2 ^ size = 0 /\ off \div 2 ^ size \in 0..4095
ImmLS(off) == Signed(off, 9, 12)

\* Mutant: an offset that is no multiple of the size is scaled nevertheless.
LoadStore_Scaled(i) ==
  LET rt == i.a[1]  addr == i.a[2]
      op == LoadOrStore(i.op, rt)
      size == CalcLSDataSize(op)
  IN op \cup Rt(rt) \cup RnSP(addr.base) \cup
     CASE addr.mode = "offset" /\ addr.off \div 2 ^ size \in 0..4095 ->
            Op(<<\h3900, 0>>) \cup Unsigned(addr.off \div 2 ^ size, 12, 10)
       [] OTHER -> Op(<<\h3800, 0>>) \cup ImmLS(addr.off)

LoadStore(i) ==
  LET rt == i.a[1]  addr == i.a[2]
      op == LoadOrStore(i.op, rt)
      size == CalcLSDataSize(op)
  IN op \cup Rt(rt) \cup RnSP(addr.base) \cup Require(Is64(addr.base) /\ (i.op = "ldrsw" => Is64(rt))) \cup
     CASE addr.mode = "offset" /\ IsImmLSScaled(addr.off, size) ->
            Op(<<\h3900, 0>>) \cup Unsigned(addr.off \div 2 ^ size, 12, 10)
       [] addr.mode = "offset" /\ ~IsImmLSScaled(addr.off, size) -> Op(<<\h3800, 0>>) \cup ImmLS(addr.off)
       [] addr.mode = "reg" ->
            Op(<<\h3820, \h800>>) \cup Rm(addr.off.reg) \cup At(addr.off.type, 13)
              \cup (IF addr.off.amount > 0 THEN {12} ELSE {}) \cup Require(addr.off.amount \in {0, size})
       [] addr.mode = "pre" -> Op(<<\h3800, \hC00>>) \cup ImmLS(addr.off) \cup Require(rt # addr.base)
       [] addr.mode = "post" -> Op(<<\h3800, \h400>>) \cup ImmLS(addr.off) \cup Require(rt # addr.base)

PairOp(op, rt) ==
  (IF op = "stp" THEN {} ELSE {22}) \cup
  CASE op = "ldpsw" -> {30}
    [] op # "ldpsw" /\ rt.k = "r" -> IF Is64(rt) THEN {31} ELSE {}
    [] op # "ldpsw" /\ rt.k = "v" -> {26} \cup (CASE rt.size = 32 -> {} [] rt.size = 64 -> {30} [] rt.size = 128 -> {31})
CalcLSPairDataSize(op) ==
  CASE {26, 31} \subseteq op -> 4
    [] {26, 31} \cap op = {31} \/ {26, 30} \subseteq op -> 3
    [] OTHER -> 2
PairModes == [offset |-> <<\h2900, 0>>, pre |-> <<\h2980, 0>>, post |-> <<\h2880, 0>>]
LoadStorePair(i) ==
  LET rt == i.a[1]  rt2 == i.a[2]  addr == i.a[3]
      op == PairOp(i.op, rt)
      size == CalcLSPairDataSize(op)
  IN Op(PairModes[addr.mode]) \cup op \cup Rt(rt) \cup Rt2(rt2) \cup RnSP(addr.base)
       \cup Signed(addr.off \div 2 ^ size, 7, 15)
       \cup Require(addr.off % 2 ^ size = 0 /\ rt.k = rt2.k /\ rt.size = rt2.size /\ (22 \in op => rt # rt2))
       \cup Require(addr.mode # "offset" => addr.base \notin {rt, rt2} /\ addr.off # 0)

LoadLiteral(i) ==
  LET rt == i.a[1]
  IN (IF rt.k = "r" THEN Op(<<IF Is64(rt) THEN \h5800 ELSE \h1800, 0>>)
      ELSE Op(<<IF Is64(rt) THEN \h5C00 ELSE \h1C00, 0>>))
       \cup Signed(i.a[2], 19, 5) \cup Rt(rt) \cup Require(rt.k = "r" => rt.n # 31)

\* Acquire and release; the b and h forms have their size in the name.
AcquireReleaseOps ==
  [ldar |-> <<\h8C0, \h8000>>, ldaxr |-> <<\h840, \h8000>>, stlr |-> <<\h880, \h8000>>, stlxr |-> <<\h800, \h8000>>]
LoadStoreAcquireRelease(i) ==
  LET exclusive == i.op = "stlxr"
      rs == IF exclusive THEN i.a[2] ELSE R(31, 64)
      rt == IF exclusive THEN i.a[3] ELSE i.a[2]
      rn == i.a[Len(i.a)]
      width == i.a[1]
  IN Op(AcquireReleaseOps[i.op]) \cup Rs(rs) \cup At(31, 10) \cup RnSP(rn) \cup Rt(rt)
       \cup (CASE width = "b" -> {} [] width = "h" -> {30} [] width = "" -> {31} \cup (IF Is64(rt) THEN {30} ELSE {}))
       \cup Require(Is64(rn) /\ (width # "" => ~Is64(rt)) /\ (exclusive => rs # rt /\ rs # rn))

\* Hints, barriers and breakpoints.
Hints == [nop |-> 0, csdb |-> 20, bti |-> 32, bti_c |-> 34, bti_j |-> 36, bti_jc |-> 38]
Barriers == [dsb |-> <<\hD503, \h309F>>, dmb |-> <<\hD503, \h30BF>>]
Keys == [pacib1716 |-> <<\hD503, \h215F>>, pacibsp |-> <<\hD503, \h237F>>, autib1716 |-> <<\hD503, \h21DF>>,
         autibsp |-> <<\hD503, \h23FF>>]
System(i) ==
  CASE i.op \in DOMAIN Hints -> Op(<<\hD503, \h201F>>) \cup At(Hints[i.op], 5)
    [] i.op \in DOMAIN Barriers -> Op(Barriers[i.op]) \cup Unsigned(i.a[1], 2, 10) \cup Unsigned(i.a[2], 2, 8)
    [] i.op = "isb" -> Op(<<\hD503, \h30DF>>) \cup At(3, 10) \cup At(3, 8)
    [] i.op \in {"brk", "hlt"} -> Op(<<IF i.op = "brk" THEN \hD420 ELSE \hD440, 0>>) \cup Unsigned(i.a[1], 16, 5)
    [] i.op \in DOMAIN Keys -> Op(Keys[i.op])

-----------------------------------------------------------------------------
\* Floating point.  An immediate is the pattern of a double.

FPType(v) == IF Is64(v) THEN {22} ELSE {}

IsImmFP64(bits) ==
  bits \cap 0..47 = {} /\ bits \cap 54..61 \in {{}, 54..61} /\ (62 \in bits) = (61 \notin bits)

\* Mutant: the exponent's sign comes from the bit above it.
FPToImm8_Sign(bits) ==
  Require(IsImmFP64(bits)) \cup (IF 63 \in bits THEN {7} ELSE {}) \cup (IF 62 \in bits THEN {6} ELSE {})
    \cup {b - 48 : b \in bits \cap 48..53}

FPToImm8(bits) ==
  Require(IsImmFP64(bits)) \cup (IF 63 \in bits THEN {7} ELSE {}) \cup (IF 61 \in bits THEN {6} ELSE {})
    \cup {b - 48 : b \in bits \cap 48..53}
ImmFP(bits) == {IF b = Refused THEN Refused ELSE b + 13 : b \in FPToImm8(bits)}

\* fmov between all kinds of registers; an index selects the upper half.
FMov(i) ==
  LET d == i.a[1]  n == i.a[Len(i.a)]
  IN CASE n.k = "bits" -> Op(<<IF Is64(d) THEN \h1E60 ELSE \h1E20, \h1000>>) \cup Rd(d) \cup ImmFP(n.bits)
       [] n.k # "bits" /\ i.op = "fmov_high" ->
            Op(<<IF d.k = "r" THEN \h9EAE ELSE \h9EAF, 0>>) \cup Rd(d) \cup Rn(n) \cup Require(Is64(d) /\ Is64(n))
       [] n.k # "bits" /\ i.op = "fmov" ->
            Rd(d) \cup Rn(n) \cup Require(d.size = n.size) \cup
            CASE <<d.k, n.k>> = <<"r", "v">> -> Op(<<IF Is64(d) THEN \h9E66 ELSE \h1E26, 0>>)
              [] <<d.k, n.k>> = <<"v", "r">> -> Op(<<IF Is64(d) THEN \h9E67 ELSE \h1E27, 0>>)
              [] <<d.k, n.k>> = <<"v", "v">> -> FPType(d) \cup Op(<<\h1E20, \h4000>>)

FPCompares == [fcmp |-> 0, fcmp_zero |-> 8]
FCmp(i) ==
  FPType(i.a[1]) \cup Op(<<\h1E20, \h2000 + FPCompares[i.op]>>) \cup Rn(i.a[1])
    \cup IF i.op = "fcmp" THEN Rm(i.a[2]) \cup Require(i.a[1].size = i.a[2].size) ELSE {}
FCCmp(i) ==
  FPType(i.a[1]) \cup Op(<<\h1E20, \h400>>) \cup Rm(i.a[2]) \cup Cond(i.a[4]) \cup Rn(i.a[1]) \cup Nzcv(i.a[3])
    \cup Require(i.a[1].size = i.a[2].size)
FCSel(i) ==
  FPType(i.a[1]) \cup Op(<<\h1E20, \hC00>>) \cup Rm(i.a[3]) \cup Cond(i.a[4]) \cup Rn(i.a[2]) \cup Rd(i.a[1])
    \cup Require(i.a[1].size = i.a[2].size /\ i.a[1].size = i.a[3].size)

FPDataProcessing1SourceOps ==
  [fabs |-> <<\h1E20, \hC000>>, fneg |-> <<\h1E21, \h4000>>, fsqrt |-> <<\h1E21, \hC000>>,
   frintn |-> <<\h1E24, \h4000>>, frinta |-> <<\h1E26, \h4000>>, frintp |-> <<\h1E24, \hC000>>,
   frintm |-> <<\h1E25, \h4000>>, frintx |-> <<\h1E27, \h4000>>, frintz |-> <<\h1E25, \hC000>>,
   frinti |-> <<\h1E27, \hC000>>]
FPDataProcessing2SourceOps ==
  [fadd |-> <<\h1E20, \h2800>>, fsub |-> <<\h1E20, \h3800>>, fmul |-> <<\h1E20, \h800>>,
   fdiv |-> <<\h1E20, \h1800>>, fmax |-> <<\h1E20, \h4800>>, fmaxnm |-> <<\h1E20, \h6800>>,
   fmin |-> <<\h1E20, \h5800>>, fminnm |-> <<\h1E20, \h7800>>, fnmul |-> <<\h1E20, \h8800>>]
FPDataProcessing3SourceOps ==
  [fmadd |-> <<\h1F00, 0>>, fmsub |-> <<\h1F00, \h8000>>, fnmadd |-> <<\h1F20, 0>>, fnmsub |-> <<\h1F20, \h8000>>]

FPDataProcessing1Source(i) ==
  FPType(i.a[1]) \cup Op(FPDataProcessing1SourceOps[i.op]) \cup Rn(i.a[2]) \cup Rd(i.a[1])
    \cup Require(i.a[1].size = i.a[2].size)
FPDataProcessing2Source(i) ==
  FPType(i.a[1]) \cup Op(FPDataProcessing2SourceOps[i.op]) \cup Rm(i.a[3]) \cup Rn(i.a[2]) \cup Rd(i.a[1])
    \cup Require(i.a[1].size = i.a[2].size /\ i.a[1].size = i.a[3].size)
FPDataProcessing3Source(i) ==
  FPType(i.a[1]) \cup Op(FPDataProcessing3SourceOps[i.op]) \cup Rm(i.a[3]) \cup Rn(i.a[2]) \cup Rd(i.a[1])
    \cup Ra(i.a[4]) \cup Require(\A n \in 2..4 : i.a[n].size = i.a[1].size)

FCVTOps == [ds |-> <<\h1E22, \hC000>>, dh |-> <<\h1EE2, \hC000>>, sd |-> <<\h1E62, \h4000>>,
            sh |-> <<\h1EE2, \h4000>>, hd |-> <<\h1E63, \hC000>>, hs |-> <<\h1E23, \hC000>>]
Letter(v) == CASE v.size = 16 -> "h" [] v.size = 32 -> "s" [] v.size = 64 -> "d"
FCVT(i) == FPType(i.a[2]) \cup Op(FCVTOps[Letter(i.a[1]) \o Letter(i.a[2])]) \cup Rn(i.a[2]) \cup Rd(i.a[1])

\* Between a general and a floating point register, with fraction bits.
FPIntegerConvertOps ==
  [fcvtns |-> \h1E20, fcvtnu |-> \h1E21, fcvtps |-> \h1E28, fcvtpu |-> \h1E29, fcvtms |-> \h1E30,
   fcvtmu |-> \h1E31, fcvtas |-> \h1E24, fcvtau |-> \h1E25, fcvtzs |-> \h1E38, fcvtzu |-> \h1E39,
   scvtf |-> \h1E22, ucvtf |-> \h1E23]
FPFixedPointConvertOps == [fcvtzs |-> \h1E18, fcvtzu |-> \h1E19, scvtf |-> \h1E02, ucvtf |-> \h1E03]
FPConvert(i) ==
  LET general == IF i.a[1].k = "r" THEN i.a[1] ELSE i.a[2]
      float == IF i.a[1].k = "r" THEN i.a[2] ELSE i.a[1]
      fbits == i.a[3]
  IN SF(general) \cup FPType(float) \cup Rn(i.a[2]) \cup Rd(i.a[1])
       \cup IF fbits = 0 THEN Op(<<FPIntegerConvertOps[i.op], 0>>)
            ELSE Op(<<FPFixedPointConvertOps[i.op], 0>>) \cup Unsigned(64 - fbits, 6, 10)
                   \cup Require(i.op \in {"fcvtzs", "fcvtzu"} => fbits <= general.size)
FJCvtZS(i) == Op(<<\h1E7E, 0>>) \cup Rn(i.a[2]) \cup Rd(i.a[1]) \cup Require(~Is64(i.a[1]) /\ Is64(i.a[2]))

-----------------------------------------------------------------------------
\* One word: the form names the methods that share an encoding.
Emit(i) ==
  CASE i.form = "BranchToRegister" -> BranchToRegister(i)
    [] i.form = "UnconditionalBranch" -> UnconditionalBranch(i)
    [] i.form = "ConditionalBranch" -> ConditionalBranch(i)
    [] i.form = "CompareBranch" -> CompareBranch(i)
    [] i.form = "TestBranch" -> TestBranch(i)
    [] i.form = "Address" -> Address(i)
    [] i.form = "AddSubtract" -> AddSubtract(i)
    [] i.form = "Compare" -> Compare(i)
    [] i.form = "NegateSum" -> NegateSum(i)
    [] i.form = "Carry" -> Carry(i)
    [] i.form = "Logical" -> Logical(i)
    [] i.form = "BitfieldMove" -> BitfieldMove(i)
    [] i.form = "ShiftAlias" -> ShiftAlias(i)
    [] i.form = "FieldAlias" -> FieldAlias(i)
    [] i.form = "ExtendAlias" -> ExtendAlias(i)
    [] i.form = "Extr" -> Extr(i)
    [] i.form = "MoveWide" -> MoveWide(i)
    [] i.form = "MoveRegister" -> MoveRegister(i)
    [] i.form = "ConditionalSelect" -> ConditionalSelect(i)
    [] i.form = "ConditionalAlias" -> ConditionalAlias(i)
    [] i.form = "ConditionalCompare" -> ConditionalCompare(i)
    [] i.form = "DataProcessing3Source" -> DataProcessing3Source(i)
    [] i.form = "DataProcessing2Source" -> DataProcessing2Source(i)
    [] i.form = "DataProcessing1Source" -> DataProcessing1Source(i)
    [] i.form = "LoadStore" -> LoadStore(i)
    [] i.form = "LoadStorePair" -> LoadStorePair(i)
    [] i.form = "LoadLiteral" -> LoadLiteral(i)
    [] i.form = "LoadStoreAcquireRelease" -> LoadStoreAcquireRelease(i)
    [] i.form = "System" -> System(i)
    [] i.form = "FMov" -> FMov(i)
    [] i.form = "FCmp" -> FCmp(i)
    [] i.form = "FCCmp" -> FCCmp(i)
    [] i.form = "FCSel" -> FCSel(i)
    [] i.form = "FPDataProcessing1Source" -> FPDataProcessing1Source(i)
    [] i.form = "FPDataProcessing2Source" -> FPDataProcessing2Source(i)
    [] i.form = "FPDataProcessing3Source" -> FPDataProcessing3Source(i)
    [] i.form = "FCVT" -> FCVT(i)
    [] i.form = "FPConvert" -> FPConvert(i)
    [] i.form = "FJCvtZS" -> FJCvtZS(i)

-----------------------------------------------------------------------------
\* Labels.  A list of [k |-> "bind", label] and of [k |-> "code", i, label, at],
\* where `at` is the place of the distance among the arguments of i and 0 for an
\* instruction without a label; pos is 0 for an unused label, position + 1 for a
\* linked one, -position - 1 for a bound one.

FieldValue(word, low, width) ==
  LET value == FoldSet(LAMBDA b, sum : sum + 2 ^ (b - low), 0, {b \in word : b \in low..(low + width - 2)})
  IN IF low + width - 1 \in word THEN value - 2 ^ (width - 1) ELSE value

\* The place and the width of a distance in a word, by BranchType.
Masked(word, mask) == word \cap Op(mask)
DistanceField(word) ==
  CASE Masked(word, <<\h1F00, 0>>) = Op(<<\h1000, 0>>) -> <<"adr", 5, 19>>
    [] Masked(word, <<\hFE00, 0>>) = Op(<<\h5400, 0>>) -> <<"cond", 5, 19>>
    [] Masked(word, <<\h7C00, 0>>) = Op(<<\h1400, 0>>) -> <<"uncond", 0, 26>>
    [] Masked(word, <<\h7E00, 0>>) = Op(<<\h3400, 0>>) -> <<"compare", 5, 19>>
    [] Masked(word, <<\h7E00, 0>>) = Op(<<\h3600, 0>>) -> <<"test", 5, 14>>
    [] Masked(word, <<\h3B00, 0>>) = Op(<<\h1800, 0>>) -> <<"literal", 5, 19>>

ImmPCOffset(word) ==
  LET field == DistanceField(word)
      distance == FieldValue(word, field[2], field[3])
  IN IF field[1] = "adr" THEN 4 * distance + (IF 30 \in word THEN 2 ELSE 0) + (IF 29 \in word THEN 1 ELSE 0)
     ELSE 4 * distance

SetImmPCOffsetTarget(word, offset) ==
  LET field == DistanceField(word)
      mask == field[2]..(field[2] + field[3] - 1)
  IN IF field[1] = "adr" THEN (word \ (mask \cup {29, 30})) \cup ImmPCRelAddress(offset) \cup Require(31 \notin word)
     ELSE (word \ mask) \cup Signed(offset \div 4, field[3], field[2]) \cup Require(offset % 4 = 0)

IsBound(pos) == pos < 0
Position(pos) == IF pos < 0 THEN -pos - 1 ELSE pos - 1
StartOfLabelLinkChain == 0

\* [words, pos] with the word at byte `at` replaced.
PatchLink(words, at, here) ==
  [words EXCEPT ![at \div 4 + 1] = SetImmPCOffsetTarget(@, here - at)]

\* Mutant: only the last link of the chain is bound.
LinkedWords_One(words, link, here) == PatchLink(words, link, here)

\* The words with the chain that ends at byte `link` bound to `here`.
RECURSIVE LinkedWords(_, _, _)
LinkedWords(words, link, here) ==
  LET offset == ImmPCOffset(words[link \div 4 + 1])
      patched == PatchLink(words, link, here)
  IN IF offset = StartOfLabelLinkChain THEN patched ELSE LinkedWords(patched, link + offset, here)

BindLabel(s, label) ==
  LET here == 4 * Len(s.words)
      pos == s.pos[label]
  IN [words |-> IF pos > 0 THEN LinkedWords(s.words, Position(pos), here) ELSE s.words,
      pos |-> [s.pos EXCEPT ![label] = -here - 1]]

\* The distance in bytes an instruction gets, and the label after it.
LinkAndGetByteOffsetTo(s, label) ==
  IF s.pos[label] = 0 THEN StartOfLabelLinkChain ELSE Position(s.pos[label]) - 4 * Len(s.words)
LinkTo(s, label) == IF IsBound(s.pos[label]) THEN s.pos ELSE [s.pos EXCEPT ![label] = 4 * Len(s.words) + 1]

EmitItem(s, item) ==
  CASE item.k = "bind" -> BindLabel(s, item.label)
    [] item.k = "code" /\ item.at = 0 -> [s EXCEPT !.words = Append(@, Emit(item.i))]
    [] item.k = "code" /\ item.at > 0 ->
         LET offset == LinkAndGetByteOffsetTo(s, item.label)
             distance == IF item.i.op = "adr" THEN offset ELSE offset \div 4
         IN [words |-> Append(s.words, Emit([item.i EXCEPT !.a[item.at] = distance])),
             pos |-> LinkTo(s, item.label)]

\* The words of a list of items with the labels of a set.
Assemble(items, labels) ==
  FoldLeft(EmitItem, [words |-> <<>>, pos |-> [l \in labels |-> 0]], items)

=============================================================================
