----------------------------- MODULE X64Processor -----------------------------
(* How an x64 processor in 64-bit mode reads the bytes of one instruction:   *)
(* prefixes, opcode maps, ModRM, SIB, displacement and immediate, as the     *)
(* Intel manual (volume 2, chapter 2 and appendix A) has them, for the       *)
(* opcodes the assembler knows.  Written from the manual, not from the code. *)
EXTENDS Integers, Sequences, FiniteSets

CONSTANTS None, Rip

Field(x, low, bits) == (x \div 2 ^ low) % 2 ^ bits
Signed(x, bits) == IF x >= 2 ^ (bits - 1) THEN x - 2 ^ bits ELSE x

\* A little-endian signed integer of n bytes at position p; of 8 bytes, those
\* that are 4 sign-extended.
IntAt(buf, p, n) ==
  CASE n = 1 -> Signed(buf[p], 8)
    [] n = 2 -> Signed(buf[p] + 256 * buf[p + 1], 16)
    [] OTHER -> Signed(buf[p + 3], 8) * 256 ^ 3 + 256 ^ 2 * buf[p + 2] + 256 * buf[p + 1] + buf[p]

Memory(base, index, scale, disp) ==
  [k |-> "mem", base |-> base, index |-> index, scale |-> scale, disp |-> disp]

\* The r/m operand at p and where it ends; b and x are the bits of REX.
RM(buf, p, b, x) ==
  LET mod == Field(buf[p], 6, 2)
      rm == Field(buf[p], 0, 3)
      sib == buf[p + 1]
      index == Field(sib, 3, 3) + 8 * x
      base == Field(sib, 0, 3)
      at == IF rm = 4 THEN p + 2 ELSE p + 1
      bytes == CASE mod = 1 -> 1 [] mod = 2 -> 4
                 [] OTHER -> IF rm = 5 \/ (rm = 4 /\ base = 5) THEN 4 ELSE 0
      disp == IF bytes = 0 THEN 0 ELSE IntAt(buf, at, bytes)
      nobase == mod = 0 /\ base = 5
  IN  IF mod = 3 THEN [k |-> "reg", n |-> rm + 8 * b, next |-> p + 1]
      ELSE [k |-> "mem", next |-> at + bytes,
            m |-> IF rm # 4
                  THEN Memory(IF mod = 0 /\ rm = 5 THEN Rip ELSE rm + 8 * b, None, 0, disp)
                  ELSE Memory(IF nobase THEN None ELSE base + 8 * b,
                              IF index = 4 THEN None ELSE index,
                              IF index = 4 THEN 0 ELSE Field(sib, 6, 2), disp)]

-----------------------------------------------------------------------------
\* The opcode maps.  Operands: E and G are the r/m and the register field, W
\* and V the same for xmm registers, Z the register in the opcode, I an
\* immediate, J a displacement from the next instruction; b, w and v are a
\* byte, a word, and the size of the instruction; q is a quadword.

Group1 == <<"add", "or", "adc", "sbb", "and", "sub", "xor", "cmp">>
Group2 == <<"rol", "ror", "rcl", "rcr", "shl", "shr", "shl", "sar">>
Unary == <<"test", "test", "not", "neg", "mul", "imul", "div", "idiv">>
Group5 == <<"inc", "dec", "call", "callf", "jmp", "jmpf", "push", "bad">>
Op(name, ops) == [name |-> name, cc |-> None, ops |-> ops]
OnCondition(name, o, ops) == [name |-> name, cc |-> o % 16, ops |-> ops]
Bad == Op("bad", <<>>)

OneByte(o, ext) ==
  CASE o < \h40 /\ o % 8 < 6 ->
         Op(Group1[(o \div 8) + 1], << <<"Eb", "Gb">>, <<"Ev", "Gv">>, <<"Gb", "Eb">>,
                                     <<"Gv", "Ev">>, <<"AL", "Ib">>, <<"rAX", "Iz">> >>[(o % 8) + 1])
    [] o \in \h50..\h57 -> Op("push", <<"Zq">>)
    [] o \in \h58..\h5F -> Op("pop", <<"Zq">>)
    [] o = \h63 -> Op("movsxd", <<"Gv", "Ed">>)
    [] o = \h68 -> Op("push", <<"Iq">>)
    [] o = \h69 -> Op("imul", <<"Gv", "Ev", "Iz">>)
    [] o = \h6B -> Op("imul", <<"Gv", "Ev", "Ib">>)
    [] o \in \h70..\h7F -> OnCondition("j", o, <<"Jb">>)
    [] o = \h80 -> Op(Group1[ext + 1], <<"Eb", "Ib">>)
    [] o = \h81 -> Op(Group1[ext + 1], <<"Ev", "Iz">>)
    [] o = \h83 -> Op(Group1[ext + 1], <<"Ev", "Ib">>)
    [] o = \h85 -> Op("test", <<"Ev", "Gv">>)
    [] o \in \h88..\h8B -> Op("mov", << <<"Eb", "Gb">>, <<"Ev", "Gv">>, <<"Gb", "Eb">>,
                                      <<"Gv", "Ev">> >>[o - \h87])
    [] o = \h8D -> Op("lea", <<"Gv", "M">>)
    [] o = \h8F /\ ext = 0 -> Op("pop", <<"Eq">>)
    [] o = \h90 -> Op("nop", <<>>)
    [] o = \h9C -> Op("pushf", <<>>)
    [] o = \h9D -> Op("popf", <<>>)
    [] o = \hA9 -> Op("test", <<"rAX", "Iz">>)
    [] o \in \hB0..\hB7 -> Op("mov", <<"Zb", "Ib">>)
    [] o \in \hB8..\hBF -> Op("mov", <<"Zv", "Iv">>)
    [] o \in {\hC0, \hC1, \hD0, \hD1, \hD2, \hD3} ->
         Op(Group2[ext + 1], <<IF o % 2 = 0 THEN "Eb" ELSE "Ev",
                             IF o < \hD0 THEN "Ib" ELSE IF o < \hD2 THEN "1" ELSE "CL">>)
    [] o = \hC2 -> Op("ret", <<"Iw">>)
    [] o = \hC3 -> Op("ret", <<"0">>)
    [] o = \hC6 /\ ext = 0 -> Op("mov", <<"Eb", "Ib">>)
    [] o = \hC7 /\ ext = 0 -> Op("mov", <<"Ev", "Iz">>)
    [] o = \hCC -> Op("int3", <<>>)
    [] o = \hE3 -> [Op("j", <<"Jb">>) EXCEPT !.cc = 18]
    [] o = \hE8 -> Op("call", <<"Jz">>)
    [] o = \hE9 -> Op("jmp", <<"Jz">>)
    [] o = \hEB -> Op("jmp", <<"Jb">>)
    [] o \in {\hF6, \hF7} ->
         LET e == IF o = \hF6 THEN "Eb" ELSE "Ev"
         IN  Op(Unary[ext + 1], IF ext < 2 THEN <<e, IF o = \hF6 THEN "Ib" ELSE "Iz">> ELSE <<e>>)
    [] o = \hFF -> Op(Group5[ext + 1], <<IF ext < 2 THEN "Ev" ELSE "Eq">>)
    [] OTHER -> Bad

\* Which of four instructions an opcode is: with no prefix, 66, F3 or F2.
By(p, names) == names[[none |-> 1, p66 |-> 2, pF3 |-> 3, pF2 |-> 4][p]]

TwoByte(o, ext, p, mod) ==
  LET vw(names) == Op(By(p, names), <<"V", "W">>)
      packed(n) == Op(n \o By(p, <<"ps", "pd", "ss", "sd">>), <<"V", "W">>)
      only(n) == Op(n \o By(p, <<"ps", "pd", "?", "?">>), <<"V", "W">>)
  IN  CASE o \in {\h10, \h11} ->
             [vw(<<"movups", "movupd", "movss", "movsd">>) EXCEPT
                !.ops = IF o = \h10 THEN <<"V", "W">> ELSE <<"W", "V">>]
        [] o = \h1F -> Op("nop", <<"N">>)
        [] o = \h28 -> vw(<<"movaps", "movapd", "bad", "bad">>)
        [] o = \h29 -> [vw(<<"movaps", "movapd", "bad", "bad">>) EXCEPT !.ops = <<"W", "V">>]
        [] o = \h2A -> Op(By(p, <<"bad", "bad", "cvtsi2ss", "cvtsi2sd">>), <<"V", "Ev">>)
        [] o = \h2C -> Op(By(p, <<"bad", "bad", "cvttss2si", "cvttsd2si">>), <<"Gv", "W">>)
        [] o = \h2D -> Op(By(p, <<"bad", "bad", "cvtss2si", "cvtsd2si">>), <<"Gv", "W">>)
        [] o = \h2E -> vw(<<"ucomiss", "ucomisd", "bad", "bad">>)
        [] o = \h2F -> vw(<<"comiss", "comisd", "bad", "bad">>)
        [] o \in \h40..\h4F -> OnCondition("cmov", o, <<"Gv", "Ev">>)
        [] o = \h54 -> only("and")
        [] o = \h56 -> only("or")
        [] o = \h57 -> only("xor")
        [] o = \h58 -> packed("add")
        [] o = \h59 -> packed("mul")
        [] o = \h5A -> vw(<<"cvtps2pd", "cvtpd2ps", "cvtss2sd", "cvtsd2ss">>)
        [] o = \h5B -> vw(<<"cvtdq2ps", "cvtps2dq", "cvttps2dq", "bad">>)
        [] o = \h5C -> packed("sub")
        [] o = \h5E -> packed("div")
        [] o = \h6F -> vw(<<"bad", "movdqa", "movdqu", "bad">>)
        [] o = \h7F -> [vw(<<"bad", "movdqa", "movdqu", "bad">>) EXCEPT !.ops = <<"W", "V">>]
        [] o \in \h80..\h8F -> OnCondition("j", o, <<"Jz">>)
        [] o \in \h90..\h9F -> OnCondition("set", o, <<"Eb">>)
        [] o = \hA2 -> Op("cpuid", <<>>)
        [] o = \hAE /\ mod = 3 -> Op(<<"bad", "bad", "bad", "bad", "bad", "lfence", "mfence",
                                     "sfence">>[ext + 1], <<"N">>)
        [] o = \hAF -> Op("imul", <<"Gv", "Ev">>)
        [] o \in {\hB6, \hB7, \hBE, \hBF} ->
             Op((IF o < \hB8 THEN "movzx" ELSE "movsx") \o (IF o % 2 = 0 THEN "b" ELSE "w"),
                <<"Gv", IF o % 2 = 0 THEN "E1" ELSE "E2">>)
        [] o = \hC2 -> [packed("cmp") EXCEPT !.ops = <<"V", "W", "Ib">>]
        [] o = \hC7 /\ ext = 6 /\ mod = 3 -> Op("rdrand", <<"Ev">>)
        [] o = \hE6 -> vw(<<"bad", "cvttpd2dq", "cvtdq2pd", "cvtpd2dq">>)
        [] OTHER -> Bad

ThreeByte(o) ==
  IF o \in {\h60, \h61, \h63}
  THEN Op([x \in {\h60, \h61, \h63} |-> CASE x = \h60 -> "pcmpestrm" [] x = \h61 -> "pcmpestri"
                                         [] OTHER -> "pcmpistri"][o], <<"V", "W", "Ib">>)
  ELSE Bad

-----------------------------------------------------------------------------
Legacy == {\h2E, \h3E, \h66, \hF0, \hF2, \hF3}

\* A general register; without a REX prefix 4 to 7 are ah, ch, dh and bh.
General(n, byte, rex) == [k |-> IF byte /\ ~rex /\ n \in 4..7 THEN "high" ELSE "reg", n |-> n]

\* The instruction that starts at position p and the position behind it.
Decode(buf, start) ==
  LET p == CHOOSE q \in start..Len(buf) : buf[q] \notin Legacy /\ \A r \in start..(q - 1) : buf[r] \in Legacy
      legacy == {buf[q] : q \in start..(p - 1)}
      rex == Field(buf[p], 4, 4) = 4
      bit(i) == IF rex THEN Field(buf[p], i, 1) ELSE 0
      o == IF rex THEN p + 1 ELSE p
      maps == IF buf[o] # \h0F THEN 1 ELSE IF buf[o + 1] = \h3A THEN 3 ELSE 2
      at == o + maps - 1
      prefix == CASE \hF2 \in legacy -> "pF2" [] \hF3 \in legacy -> "pF3"
                  [] \h66 \in legacy -> "p66" [] OTHER -> "none"
      modrm == IF at < Len(buf) THEN buf[at + 1] ELSE 0
      ext == Field(modrm, 3, 3)
      op == CASE maps = 1 -> OneByte(buf[at], ext)
              [] maps = 2 -> TwoByte(buf[at], ext, prefix, Field(modrm, 6, 2))
              [] OTHER -> ThreeByte(buf[at])
      is(e) == \E i \in DOMAIN op.ops : op.ops[i] = e
      has == \E e \in {"Eb", "Gb", "Ev", "Gv", "Ed", "Eq", "E1", "E2", "M", "N", "V", "W"} : is(e)
      rm == RM(buf, at + 1, bit(0), bit(1))
      next == IF has THEN rm.next ELSE at + 1
      byte == is("Eb") \/ is("Zb")
      vector == is("V") /\ ~is("Ev")
      size == CASE byte -> 1 [] is("Zq") \/ is("Eq") \/ is("Iq") -> 8 [] vector -> 4
                [] bit(3) = 1 -> 8 [] \h66 \in legacy -> 2 [] OTHER -> 4
      imm == CASE is("Ib") \/ is("Jb") -> 1 [] is("Iw") -> 2 [] is("Iq") \/ is("Jz") -> 4
               [] is("Iz") -> (IF size = 2 THEN 2 ELSE 4) [] is("Iv") -> size [] OTHER -> 0
      end == next + imm
      v == IF imm = 0 THEN 0 ELSE IntAt(buf, next, imm)
      r == bit(2) * 8 + Field(modrm, 3, 3)
      e(b) == IF rm.k = "mem" THEN rm.m ELSE General(rm.n, b, rex)
      operand(x) ==
        CASE x \in {"Eb", "E1"} -> e(TRUE)
          [] x \in {"Ev", "Ed", "Eq", "E2"} -> e(FALSE)
          [] x = "M" -> IF rm.k = "mem" THEN rm.m ELSE [k |-> "bad"]
          [] x = "W" -> IF rm.k = "mem" THEN rm.m ELSE [k |-> "xmm", n |-> rm.n]
          [] x = "V" -> [k |-> "xmm", n |-> r]
          [] x \in {"Gb", "Gv"} -> General(r, x = "Gb", rex)
          [] x \in {"Zb", "Zv", "Zq"} -> General(Field(buf[at], 0, 3) + 8 * bit(0), x = "Zb", rex)
          [] x \in {"AL", "rAX"} -> [k |-> "reg", n |-> 0]
          [] x \in {"Jb", "Jz"} -> [k |-> "target", at |-> end + v]
          [] x = "1" -> [k |-> "imm", v |-> 1]
          [] x = "0" -> [k |-> "imm", v |-> 0]
          [] x = "CL" -> [k |-> "cl"]
          [] OTHER -> [k |-> "imm", v |-> v]
      shown == SelectSeq(op.ops, LAMBDA x : x # "N")
  IN  [name |-> op.name, cc |-> op.cc, size |-> size, next |-> end,
       ops |-> [i \in DOMAIN shown |-> operand(shown[i])]]
=============================================================================
