----------------------------- MODULE X64Assembler -----------------------------
(* The assembler for x64 (src/x64/asm-x64.h, asm-x64.cc, src/arch/label.h).  *)
(* An instruction is a record with the name the manual gives it, the size    *)
(* the suffix of the method names (b 1, w 2, l 4, q 8), and its operands a   *)
(* and b, registers [k |-> "reg" or "xmm", n |-> code] or memory.  Emit is   *)
(* the bytes of one; Assemble those of a list with labels, whose jumps are   *)
(* chained through the bytes until the label is bound.                       *)
EXTENDS Integers, Sequences, SequencesExt

Lo(r) == r % 8
Hi(r) == r \div 8

IsIntN(x, n) == x \in -(2 ^ (n - 1))..(2 ^ (n - 1) - 1)

\* The n low bytes of an integer, as EmitT appends them.
Bytes(x, n) == [i \in 1..n |-> IF i > 4 THEN (IF x < 0 THEN 255 ELSE 0)
                                        ELSE (x \div 256 ^ (i - 1)) % 256]

-----------------------------------------------------------------------------
\* A memory operand [base + index * 2^scale + disp]: its bytes with the register
\* field left zero, and its bits of the REX prefix.  The base may be None or
\* Rip, the index None; rsp stands for "no index" in a SIB byte.

None == -1
Rip == -2
Reg(n) == [k |-> "reg", n |-> n]
Xmm(n) == [k |-> "xmm", n |-> n]
Mem(base, index, scale, disp) ==
  [k |-> "mem", base |-> base, index |-> index, scale |-> scale, disp |-> disp]

SIB(scale, index, base) == 64 * scale + 8 * Lo(index) + Lo(base)

\* Mutant: a base of r12 is written like any other.
OperandBase_Rsp(m) ==
  LET sib == m.index # None \/ m.base = 4
      index == IF m.index = None THEN 4 ELSE m.index
      short == m.disp = 0 /\ m.base \notin {5, 13}
      mod == IF short THEN 0 ELSE IF IsIntN(m.disp, 8) THEN 1 ELSE 2
  IN  [rex |-> 2 * Hi(index) + Hi(m.base),
       buf |-> <<64 * mod + (IF sib THEN 4 ELSE Lo(m.base))>>
                 \o (IF sib THEN <<SIB(m.scale, index, m.base)>> ELSE <<>>)
                 \o Bytes(m.disp, <<0, 1, 4>>[mod + 1])]

\* [base + disp] and [base + index * scale + disp].
OperandBase(m) ==
  LET sib == m.index # None \/ m.base \in {4, 12}
      index == IF m.index = None THEN 4 ELSE m.index
      short == m.disp = 0 /\ m.base \notin {5, 13}
      mod == IF short THEN 0 ELSE IF IsIntN(m.disp, 8) THEN 1 ELSE 2
  IN  [rex |-> 2 * Hi(index) + Hi(m.base),
       buf |-> <<64 * mod + (IF sib THEN 4 ELSE Lo(m.base))>>
                 \o (IF sib THEN <<SIB(m.scale, index, m.base)>> ELSE <<>>)
                 \o Bytes(m.disp, <<0, 1, 4>>[mod + 1])]

\* [index * scale + disp].
OperandIndex(m) ==
  [rex |-> 2 * Hi(m.index), buf |-> <<4, SIB(m.scale, m.index, 5)>> \o Bytes(m.disp, 4)]

OperandRip(m) == [rex |-> 1, buf |-> <<5>> \o Bytes(m.disp, 4)]

Operand(m) == IF m.base = Rip THEN OperandRip(m)
              ELSE IF m.base = None THEN OperandIndex(m) ELSE OperandBase(m)

-----------------------------------------------------------------------------
\* REX prefix, and the ModRM byte of a register with all that follows it.
RexBits(reg, rm) == 4 * Hi(reg) + (IF rm.k = "mem" THEN Operand(rm).rex ELSE Hi(rm.n))

EmitRex64(reg, rm) == <<\h48 + RexBits(reg, rm)>>
EmitRex32(reg, rm) == <<\h40 + RexBits(reg, rm)>>

\* Mutant: a bit of the register field is forgotten.
EmitOptionalRex32_Base(reg, rm) ==
  IF RexBits(0, rm) = 0 THEN <<>> ELSE EmitRex32(reg, rm)

EmitOptionalRex32(reg, rm) ==
  IF RexBits(reg, rm) = 0 THEN <<>> ELSE EmitRex32(reg, rm)

EmitRex(reg, rm, size) == IF size = 8 THEN EmitRex64(reg, rm) ELSE EmitOptionalRex32(reg, rm)

EmitOperand(reg, rm) ==
  IF rm.k = "mem" THEN LET m == Operand(rm) IN <<m.buf[1] + 8 * Lo(reg)>> \o Tail(m.buf)
                  ELSE <<\hC0 + 8 * Lo(reg) + Lo(rm.n)>>

\* The shape of nearly every method: REX, opcode, operand.
Form(size, opcode, reg, rm) == EmitRex(reg, rm, size) \o opcode \o EmitOperand(reg, rm)
Word(size) == IF size = 2 THEN <<\h66>> ELSE <<>>
Isa(x, k) == x.k = k

-----------------------------------------------------------------------------
\* What each group of methods emits for the instruction i.

Stack(i) ==
  LET push == i.name = "push"
  IN  CASE i.name = "lea" -> Form(8, <<\h8D>>, i.a.n, i.b)
        [] i.name = "pushf" -> <<\h9C>>
        [] i.name = "popf" -> <<\h9D>>
        [] Isa(i.a, "imm") -> <<\h68>> \o Bytes(i.a.v, 4)
        [] Isa(i.a, "reg") ->
             EmitOptionalRex32(0, i.a) \o <<(IF push THEN \h50 ELSE \h58) + Lo(i.a.n)>>
        [] OTHER -> IF push THEN Form(4, <<\hFF>>, 6, i.a) ELSE Form(4, <<\h8F>>, 0, i.a)

\* movq and movl.
MoveLong(i) ==
  LET s == i.size
  IN  CASE Isa(i.b, "imm64") -> EmitRex64(0, i.a) \o <<\hB8 + Lo(i.a.n)>> \o Bytes(i.b.v, 8)
        [] Isa(i.b, "imm") /\ Isa(i.a, "reg") /\ s = 4 ->
             EmitRex(0, i.a, s) \o <<\hB8 + Lo(i.a.n)>> \o Bytes(i.b.v, 4)
        [] Isa(i.b, "imm") -> Form(s, <<\hC7>>, 0, i.a) \o Bytes(i.b.v, 4)
        [] Isa(i.b, "mem") -> Form(s, <<\h8B>>, i.a.n, i.b)
        [] Isa(i.a, "reg") /\ s = 8 /\ Lo(i.a.n) # 4 -> Form(s, <<\h8B>>, i.a.n, i.b)
        [] OTHER -> Form(s, <<\h89>>, i.b.n, i.a)

MoveWord(i) ==
  CASE Isa(i.b, "imm") /\ Isa(i.a, "reg") ->
         <<\h66>> \o EmitRex32(0, i.a) \o <<\hB8 + Lo(i.a.n)>> \o Bytes(i.b.v, 2)
    [] Isa(i.b, "imm") -> <<\h66>> \o Form(2, <<\hC7>>, 0, i.a) \o Bytes(i.b.v, 2)
    [] Isa(i.b, "mem") -> <<\h66>> \o Form(2, <<\h8B>>, i.a.n, i.b)
    [] OTHER -> <<\h66>> \o Form(2, <<\h89>>, i.b.n, i.a)

IsByte(r) == r.n <= 3

\* movb of registers and operands: the registers above bl need a REX prefix.
MoveByte(i) ==
  LET rex(r, reg, rm) == IF IsByte(r) THEN EmitOptionalRex32(reg, rm) ELSE EmitRex32(reg, rm)
  IN  CASE Isa(i.b, "mem") -> rex(i.a, 0, i.b) \o <<\h8A>> \o EmitOperand(i.a.n, i.b)
        [] Isa(i.a, "mem") -> rex(i.b, i.b.n, i.a) \o <<\h88>> \o EmitOperand(i.b.n, i.a)
        [] OTHER -> rex(i.a, i.b.n, i.a) \o <<\h88>> \o EmitOperand(i.b.n, i.a)

MoveByteImm(i) ==
  IF Isa(i.a, "mem") THEN Form(1, <<\hC6>>, 0, i.a) \o Bytes(i.b.v, 1)
  ELSE (IF IsByte(i.a) THEN <<>> ELSE EmitRex32(0, i.a)) \o <<\hB0 + Lo(i.a.n)>> \o Bytes(i.b.v, 1)

Extends == [movzxb |-> \hB6, movzxw |-> \hB7, movsxb |-> \hBE, movsxw |-> \hBF]
Extend(i) == IF i.name = "movsxd" THEN Form(8, <<\h63>>, i.a.n, i.b)
             ELSE Form(4, <<\h0F, Extends[i.name]>>, i.a.n, i.b)

-----------------------------------------------------------------------------
EmitSSEArith(prefix, subcode, reg, rm, size) == prefix \o Form(size, <<\h0F, subcode>>, reg, rm)

\* movaps and movapd of registers swap them if the source is xmm4 or xmm12,
\* but not in the prefix.
MoveAligned(i) ==
  LET prefix == IF i.name = "movapd" THEN <<\h66>> ELSE <<>>
  IN  IF Lo(i.b.n) = 4
      THEN prefix \o EmitOptionalRex32(i.a.n, i.b) \o <<\h0F, \h29>> \o EmitOperand(i.b.n, i.a)
      ELSE EmitSSEArith(prefix, \h28, i.a.n, i.b, 4)

MovesSSE == [movaps |-> <<<<>>, \h28, \h29>>, movapd |-> <<<<\h66>>, \h28, \h29>>,
             movss |-> <<<<\hF3>>, \h10, \h11>>, movsd |-> <<<<\hF2>>, \h10, \h11>>,
             movdqu |-> <<<<\hF3>>, \h6F, \h7F>>]
MoveSSE(i) ==
  LET m == MovesSSE[i.name]
  IN  IF Isa(i.a, "mem") THEN EmitSSEArith(m[1], m[3], i.b.n, i.a, 4)
      ELSE IF i.name \in {"movaps", "movapd"} /\ Isa(i.b, "xmm") THEN MoveAligned(i)
      ELSE EmitSSEArith(m[1], m[2], i.a.n, i.b, 4)

CMov(i) == Form(i.size, <<\h0F, \h40 + i.cc>>, i.a.n, i.b)
Set(i) == Form(8, <<\h0F, \h90 + i.cc>>, 0, i.a)

\* call and jmp to what a register or a place in memory holds.
Indirect(i) == Form(4, <<\hFF>>, IF i.name = "call" THEN 2 ELSE 4, i.a)
Ret(i) == IF i.a.v = 0 THEN <<\hC3>> ELSE <<\hC2>> \o Bytes(i.a.v, 2)

Test(i) ==
  LET s == i.size
  IN  CASE Isa(i.b, "imm") /\ Isa(i.a, "mem") ->
             IF i.b.v \in 0..255 THEN <<>> ELSE Form(s, <<\hF7>>, 0, i.a) \o Bytes(i.b.v, 4)
        [] Isa(i.b, "imm") /\ i.a.n = 0 -> EmitRex(0, i.a, s) \o <<\hA9>> \o Bytes(i.b.v, 4)
        [] Isa(i.b, "imm") -> Form(s, <<\hF7>>, 0, i.a) \o Bytes(i.b.v, 4)
        [] Isa(i.a, "mem") \/ Lo(i.b.n) = 4 -> Form(s, <<\h85>>, i.b.n, i.a)
        [] OTHER -> Form(s, <<\h85>>, i.a.n, i.b)

Compares == [cmppd |-> <<\h66>>, cmpps |-> <<>>, cmpsd |-> <<\hF2>>, cmpss |-> <<\hF3>>]
CompareSSE(i) == EmitSSEArith(Compares[i.name], \hC2, i.a.n, i.b, 4) \o Bytes(i.c.v, 1)

Flags == [comisd |-> <<<<\h66>>, \h2F>>, ucomisd |-> <<<<\h66>>, \h2E>>,
          comiss |-> <<<<>>, \h2F>>, ucomiss |-> <<<<>>, \h2E>>]
CompareFlags(i) == EmitSSEArith(Flags[i.name][1], Flags[i.name][2], i.a.n, i.b, 4)

-----------------------------------------------------------------------------
\* The group of opcode F6 and F7, one operand: neg and not, then the others.
Group3(i, subcode) ==
  Word(i.size) \o Form(i.size, <<IF i.size = 1 THEN \hF6 ELSE \hF7>>, subcode, i.a)
Negate(i) == Group3(i, [not |-> 2, neg |-> 3][i.name])

Shifts == [rol |-> 0, ror |-> 1, rcl |-> 2, rcr |-> 3, shl |-> 4, shr |-> 5, sal |-> 4, sar |-> 7]

\* A shift by an amount, or by cl.
Shift(i) ==
  LET wide == IF i.size = 1 THEN 0 ELSE 1
      form(op) == Word(i.size) \o Form(i.size, <<op + wide>>, Shifts[i.name], i.a)
  IN  CASE i.c.k = "cl" -> form(\hD2)
        [] i.c.v = 1 -> form(\hD0)
        [] OTHER -> form(\hC0) \o <<i.c.v>>

\* The conversions: mode, prefix and opcode.
Converts ==
  [cvtdq2pd |-> <<"x_x", <<\hF3>>, \hE6>>, cvtdq2ps |-> <<"x_x", <<>>, \h5B>>,
   cvtpd2dq |-> <<"x_x", <<\hF2>>, \hE6>>, cvtpd2ps |-> <<"x_x", <<\h66>>, \h5A>>,
   cvtps2pd |-> <<"x_x", <<>>, \h5A>>, cvtps2dq |-> <<"x_x", <<\h66>>, \h5A>>,
   cvtsd2si |-> <<"x_r", <<\hF2>>, \h2D>>, cvtsd2ss |-> <<"x_x", <<\hF2>>, \h5A>>,
   cvtsi2sd |-> <<"r_x", <<\hF2>>, \h2A>>, cvtsi2ss |-> <<"r_x", <<\hF3>>, \h2A>>,
   cvtss2sd |-> <<"x_x", <<\hF3>>, \h5A>>, cvtss2si |-> <<"x_r", <<\hF3>>, \h2D>>,
   cvttpd2dq |-> <<"x_x", <<\h66>>, \hE6>>, cvttps2dq |-> <<"x_x", <<\hF3>>, \h5B>>,
   cvttsd2si |-> <<"x_r", <<\hF2>>, \h2C>>, cvttss2si |-> <<"x_r", <<\hF3>>, \h2C>>]
Convert(i) == LET c == Converts[i.name] IN EmitSSEArith(c[2], c[3], i.a.n, i.b, i.size)

IncDec(i) == Form(i.size, <<\hFF>>, IF i.name = "inc" THEN 0 ELSE 1, i.a)
Divide(i) == Group3(i, 7)
DivideUnsigned(i) == Group3(i, 6)
MultiplyUnsigned(i) == Group3(i, 4)

\* imul with one, two or three operands.
Multiply(i) ==
  IF i.b.k = "none" THEN Group3(i, 5)
  ELSE Word(i.size) \o
       CASE i.c.k = "none" -> Form(i.size, <<\h0F, \hAF>>, i.a.n, i.b)
         [] i.c.k = "imm8" -> Form(i.size, <<\h6B>>, i.a.n, i.b) \o Bytes(i.c.v, 1)
         [] OTHER -> Form(i.size, <<\h69>>, i.a.n, i.b) \o Bytes(i.c.v, 4)

-----------------------------------------------------------------------------
\* The opcodes of ARITH_OP_LIST: per size (q and l, w, b) for register and
\* register, register and operand, operand and register; and the subcode for
\* immediates.
ArithOps ==
  [add |-> <<0, <<\h03, \h03, \h01>>, <<\h01, \h03, \h01>>, <<\h00, \h02, \h00>>>>,
   sub |-> <<5, <<\h2B, \h2B, \h29>>, <<\h29, \h2B, \h29>>, <<\h28, \h2A, \h29>>>>,
   cmp |-> <<7, <<\h3B, \h3B, \h39>>, <<\h39, \h3B, \h39>>, <<\h3A, \h3A, \h38>>>>,
   and |-> <<4, <<\h23, \h23, \h21>>, <<\h21, \h23, \h21>>, <<\h22, \h22, \h20>>>>,
   or  |-> <<1, <<\h0B, \h0B, \h09>>, <<\h09, \h0B, \h09>>, <<\h0A, \h0A, \h08>>>>,
   xor |-> <<6, <<\h33, \h33, \h31>>, <<\h31, \h33, \h31>>, <<\h32, \h32, \h30>>>>]

ArithCode(i, n) == ArithOps[i.name][CASE i.size = 2 -> 3 [] i.size = 1 -> 4 [] OTHER -> 2][n]

\* op ^ 0x20.
Flip(op) == IF (op \div 32) % 2 = 1 THEN op - 32 ELSE op + 32

ArithRegisters(i) ==
  LET op == ArithCode(i, 1)
  IN  Word(i.size) \o (IF Lo(i.b.n) = 4 THEN Form(i.size, <<Flip(op)>>, i.b.n, i.a)
                                        ELSE Form(i.size, <<op>>, i.a.n, i.b))

ArithImmediate(i) ==
  LET subcode == ArithOps[i.name][1]
      op == IF IsIntN(i.b.v, 8) THEN \h83 ELSE \h81
      imm == Bytes(i.b.v, IF IsIntN(i.b.v, 8) THEN 1 ELSE 4)
  IN  Word(i.size) \o
      IF i.a = Reg(0) /\ ~IsIntN(i.b.v, 8)
        THEN EmitRex(0, i.a, i.size) \o <<5 + 8 * subcode>> \o imm
        ELSE Form(i.size, <<op>>, subcode, i.a) \o imm

Arith(i) ==
  CASE Isa(i.b, "imm") -> ArithImmediate(i)
    [] Isa(i.b, "mem") -> Word(i.size) \o Form(i.size, <<ArithCode(i, 2)>>, i.a.n, i.b)
    [] Isa(i.a, "mem") -> Word(i.size) \o Form(i.size, <<ArithCode(i, 3)>>, i.b.n, i.a)
    [] OTHER -> ArithRegisters(i)

\* addss, addps, addsd, addpd and so on: the operation and its type.
ArithSSEOps == [add |-> \h58, sub |-> \h5C, mul |-> \h59, div |-> \h5E,
                and |-> \h54, or |-> \h56, xor |-> \h57]
ArithSSE(i) ==
  EmitSSEArith([ss |-> <<\hF3>>, ps |-> <<>>, sd |-> <<\hF2>>, pd |-> <<\h66>>][i.type],
               ArithSSEOps[i.name], i.a.n, i.b, 4)

StringCompares == [pcmpestri |-> \h61, pcmpistri |-> \h63, pcmpestrm |-> \h60]
StringCompare(i) ==
  <<\h66>> \o Form(4, <<\h0F, \h3A, StringCompares[i.name]>>, i.a.n, i.b) \o Bytes(i.c.v, 1)

Fences == [mfence |-> \hF0, lfence |-> \hE8, sfence |-> \hF8]
Fixed(i) ==
  CASE i.name \in DOMAIN Fences -> <<\h0F, \hAE, Fences[i.name]>>
    [] i.name = "cpuid" -> <<\h0F, \hA2>>
    [] i.name = "int3" -> <<\hCC>>
    [] i.name = "rdrand" -> Form(i.size, <<\h0F, \hC7>>, 6, i.a)

Nop(i) == << <<\h90>>, <<\h66, \h90>>, <<\h0F, \h1F, 0>>, <<\h0F, \h1F, \h40, 0>>,
             <<\h0F, \h1F, \h44, 0, 0>>, <<\h66, \h0F, \h1F, \h44, 0, 0>>,
             <<\h0F, \h1F, \h80, 0, 0, 0, 0>>, <<\h0F, \h1F, \h84, 0, 0, 0, 0, 0>>,
             <<\h66, \h0F, \h1F, \h84, 0, 0, 0, 0, 0>> >>[i.a.v]

Emit(i) ==
  CASE i.group = "stack" -> Stack(i)
    [] i.group = "mov" -> CASE i.size > 2 -> MoveLong(i) [] i.size = 2 -> MoveWord(i)
                            [] i.b.k = "imm" -> MoveByteImm(i) [] OTHER -> MoveByte(i)
    [] i.group = "extend" -> Extend(i)
    [] i.group = "movesse" -> MoveSSE(i)
    [] i.group = "cmov" -> CMov(i)
    [] i.group = "set" -> Set(i)
    [] i.group = "indirect" -> Indirect(i)
    [] i.group = "ret" -> Ret(i)
    [] i.group = "test" -> Test(i)
    [] i.group = "cmpsse" -> CompareSSE(i)
    [] i.group = "flags" -> CompareFlags(i)
    [] i.group = "negate" -> Negate(i)
    [] i.group = "shift" -> Shift(i)
    [] i.group = "convert" -> Convert(i)
    [] i.group = "incdec" -> IncDec(i)
    [] i.group = "muldiv" -> CASE i.name = "imul" -> Multiply(i) [] i.name = "mul" -> MultiplyUnsigned(i)
                               [] i.name = "div" -> DivideUnsigned(i) [] OTHER -> Divide(i)
    [] i.group = "arith" -> Arith(i)
    [] i.group = "arithsse" -> ArithSSE(i)
    [] i.group = "pcmp" -> StringCompare(i)
    [] i.group = "fixed" -> Fixed(i)
    [] i.group = "nop" -> Nop(i)

-----------------------------------------------------------------------------
(* Labels.  The displacement of a jump to a label that is not bound yet holds *)
(* the place of the jump before it (one byte: how far back), or its own.      *)

\* pos > 0: linked at pos - 1; pos < 0: bound at -pos - 1; near > 0: linked by
\* short jumps at near - 1.
IsBound(l) == l.pos < 0
IsLinked(l) == l.pos > 0
Position(l) == IF IsBound(l) THEN -l.pos - 1 ELSE l.pos - 1

Appended(s, bytes) == [s EXCEPT !.buf = @ \o bytes]
Checked(s, condition) == [s EXCEPT !.failed = @ \/ ~condition]

\* The opcode is emitted: a displacement of 32 bits follows.
LinkFar(s) ==
  LET pc == Len(s.buf)
      l == s.label
      t == Checked(s, IsLinked(l) \/ l.near = 0)
  IN  [Appended(t, Bytes(IF IsLinked(l) THEN Position(l) ELSE pc, 4)) EXCEPT !.label.pos = pc + 1]

\* A displacement of 8 bits follows.
LinkNear(s) ==
  LET pc == Len(s.buf)
      off == IF s.label.near > 0 THEN s.label.near - 1 - pc ELSE 0
  IN  [Appended(Checked(s, IsIntN(off, 8)), Bytes(off, 1)) EXCEPT !.label.near = pc + 1]

\* A jump back to a bound label takes the short form if it reaches.
Backward(s, short, long) ==
  LET off == Position(s.label) - Len(s.buf)
      near == off - Len(short) - 1
  IN  IF short # <<>> /\ IsIntN(near, 8)
        THEN Appended(s, short \o Bytes(near, 1))
        ELSE Appended(s, long \o Bytes(off - Len(long) - 4, 4))

CallLabel(s) == IF IsBound(s.label) THEN Backward(s, <<>>, <<\hE8>>)
                                    ELSE LinkFar(Appended(s, <<\hE8>>))

Jmp(s, near) ==
  IF IsBound(s.label) THEN Backward(s, <<\hEB>>, <<\hE9>>)
  ELSE IF near THEN LinkNear(Appended(s, <<\hEB>>)) ELSE LinkFar(Appended(s, <<\hE9>>))

\* Conditions: 16 always, 17 never.  The assertion that a condition has 4 bits
\* stands before the branches for 18, "rcx is zero", which are never reached.
J(s, cc, near) ==
  LET t == Checked(s, cc \in 0..15)
      short == <<\h70 + cc>>
      long == <<\h0F, \h80 + cc>>
  IN  CASE cc = 16 -> Jmp(s, near)
        [] cc = 17 -> s
        [] IsBound(s.label) -> Backward(t, short, long)
        [] near -> LinkNear(Appended(t, short))
        [] OTHER -> LinkFar(Appended(t, long))

LongAt(buf, p) == buf[p + 1] + 256 * buf[p + 2]
Put(buf, p, bytes) == SubSeq(buf, 1, p) \o bytes \o SubSeq(buf, p + Len(bytes) + 1, Len(buf))

\* Mutant: only the last jump of the chain is patched.
PatchFar_Once(buf, curr, pos) == Put(buf, curr, Bytes(pos - (curr + 4), 4))

\* Walks the chain of far jumps from the last one.
RECURSIVE PatchFar(_, _, _)
PatchFar(buf, curr, pos) ==
  LET next == LongAt(buf, curr)
      patched == Put(buf, curr, Bytes(pos - (curr + 4), 4))
  IN  IF next = curr THEN patched ELSE PatchFar(patched, next, pos)

\* Walks the chain of near jumps; a jump that does not reach is an assertion.
RECURSIVE PatchNear(_, _)
PatchNear(s, pos) ==
  LET fixup == s.label.near - 1
      byte == s.buf[fixup + 1]
      off == IF byte > 127 THEN byte - 256 ELSE byte
      disp == pos - (fixup + 1)
      patched == [Checked(s, IsIntN(disp, 8)) EXCEPT
                    !.buf = Put(@, fixup, Bytes(disp, 1)),
                    !.label.near = IF off < 0 THEN fixup + off + 1 ELSE 0]
  IN  IF s.label.near = 0 THEN s ELSE PatchNear(patched, pos)

Bind(s) ==
  LET pos == Len(s.buf)
      far == IF IsLinked(s.label) THEN [s EXCEPT !.buf = PatchFar(@, Position(s.label), pos)] ELSE s
      near == PatchNear(far, pos)
  IN  [near EXCEPT !.label.pos = -pos - 1]

Step(s, i) ==
  LET t == CASE i.name = "bind" -> Bind(s)
             [] i.name = "jmp" /\ i.group = "label" -> Jmp(s, i.near)
             [] i.name = "j" -> J(s, i.cc, i.near)
             [] i.name = "call" /\ i.group = "label" -> CallLabel(s)
             [] OTHER -> Appended(s, Emit(i))
  IN  [t EXCEPT !.at = Append(@, Len(s.buf))]

\* The code of a list of instructions around one label, with where each starts.
Assemble(list) ==
  FoldLeft(Step, [buf |-> <<>>, at |-> <<>>, failed |-> FALSE, label |-> [pos |-> 0, near |-> 0]], list)
=============================================================================
