---------------------------- MODULE Arm64Processor -----------------------------
(* How an arm64 processor reads a word, as the ARM manual (section C4 and the *)
(* pseudocode of the instructions) has it, for the instructions the assembler *)
(* knows.  A word is the set of its bits.  Instructions that do the same read *)
(* the same: a bitfield move is where each bit of its result comes from, a    *)
(* conditional select what it chooses between, an extension of a whole        *)
(* register no extension.  Written from the manual, not from the code.        *)
EXTENDS Integers, Sequences, SequencesExt, FiniteSetsExt, TLC

Num(w, low, n) == FoldSet(LAMBDA b, sum : sum + 2 ^ (b - low), 0, w \cap low..(low + n - 1))
Distance(w, low, n) == Num(w, low, n - 1) - IF low + n - 1 \in w THEN 2 ^ (n - 1) ELSE 0
RegisterSize(w, bit) == IF bit \in w THEN 64 ELSE 32

D(name, size, ops) == [name |-> name, size |-> size, ops |-> ops]
Unknown == D("unknown", 0, <<>>)

\* Register 31 is zero, or where it is the stack pointer 63.
OrSp(n) == IF n = 31 THEN 63 ELSE n
Reg(w, low) == Num(w, low, 5)

Constant(v) == [k |-> "num", v |-> v]
Bits(bits) == [k |-> "bits", bits |-> bits]
\* lsl, lsr, asr and ror are 0 to 3, the extensions 4 to 11.
Operand(n, type, amount) == [k |-> "reg", n |-> n, type |-> type, amount |-> amount]
Extension(n, type, amount, size) == Operand(n, IF 8 * 2 ^ (type % 4) >= size THEN 0 ELSE 4 + type, amount)

-----------------------------------------------------------------------------
\* DecodeBitMasks: a run of S + 1 ones rotated right by R in every element.
Mask(len, S, R, size) == {b \in 0..(size - 1) : ((b % 2 ^ len) + R) % 2 ^ len <= S}
BitMask(w, size) ==
  LET ones == {i \in 0..5 : 10 + i \notin w} \cup (IF 22 \in w THEN {6} ELSE {})
      len == CHOOSE i \in ones : \A j \in ones : j <= i
  IN Mask(len, Num(w, 10, 6) % 2 ^ len, Num(w, 16, 6) % 2 ^ len, size)

\* Each bit of the result is a bit <<register, n>>, a zero <<31, 0>>, or old.
Bitfield(opc, rd, rn, R, S, size) ==
  LET count == IF S >= R THEN S - R + 1 ELSE S + 1
      to == IF S >= R THEN 0 ELSE size - R
      from == IF S >= R THEN R ELSE 0
  IN D("bits", size, <<rd, [b \in 0..(size - 1) |->
       IF b \in to..(to + count - 1) THEN <<rn, b - to + from>>
       ELSE IF opc = 1 THEN <<rd, b>>
       ELSE IF opc = 0 /\ b >= to + count THEN <<rn, S>>
       ELSE <<31, 0>>]>>)

Extract(rd, rn, rm, lsb, size) ==
  D("bits", size, <<rd, [b \in 0..(size - 1) |-> IF b + lsb < size THEN <<rm, b + lsb>> ELSE <<rn, b + lsb - size>>]>>)

Wide(w, opc, size) ==
  LET low == 16 * Num(w, 21, 2)
      ones == {b - 5 + low : b \in w \cap 5..20}
      field == low..(low + 15)
  IN CASE opc = 0 -> D("wide", size, <<Reg(w, 0), 0..(size - 1) \ ones, {}>>)
       [] opc = 2 -> D("wide", size, <<Reg(w, 0), ones, {}>>)
       [] opc = 3 -> D("wide", size, <<Reg(w, 0), ones, 0..(size - 1) \ field>>)

Sum == <<"add", "adds", "sub", "subs">>
Logic == <<"and", "orr", "eor", "ands">>

DecodeImmediate(w) ==
  LET size == RegisterSize(w, 31)
      opc == Num(w, 29, 2)
      kind == Num(w, 23, 3)
  IN CASE kind \in {0, 1} ->
            D(IF 31 \in w THEN "adrp" ELSE "adr", 64, <<Reg(w, 0), 4 * Distance(w, 5, 19) + opc>>)
       [] kind = 2 ->
            D(Sum[opc + 1], size,
              <<IF opc % 2 = 1 THEN Reg(w, 0) ELSE OrSp(Reg(w, 0)), OrSp(Reg(w, 5)),
                Constant(Num(w, 10, 12) * IF 22 \in w THEN 4096 ELSE 1)>>)
       [] kind = 4 ->
            D(Logic[opc + 1], size,
              <<IF opc = 3 THEN Reg(w, 0) ELSE OrSp(Reg(w, 0)), Reg(w, 5), Bits(BitMask(w, size))>>)
       [] kind = 5 -> Wide(w, opc, size)
       [] kind = 6 /\ (31 \in w) = (22 \in w) ->
            Bitfield(opc, Reg(w, 0), Reg(w, 5), Num(w, 16, 6), Num(w, 10, 6), size)
       [] kind = 7 /\ (31 \in w) = (22 \in w) ->
            Extract(Reg(w, 0), Reg(w, 5), Reg(w, 16), Num(w, 10, 6), size)
       [] OTHER -> Unknown

-----------------------------------------------------------------------------
\* What is chosen on a condition, with the even condition of a pair.
Chosen(size, rd, cond, yes, no) ==
  D("select", size, IF cond >= 14 THEN <<rd, 14, yes, yes>>
                    ELSE IF cond % 2 = 1 THEN <<rd, cond - 1, no, yes>> ELSE <<rd, cond, yes, no>>)

Select == <<"is", "inc", "inv", "neg">>
TwoSources == (2 :> "udiv") @@ (3 :> "sdiv") @@ (8 :> "lslv") @@ (9 :> "lsrv") @@ (10 :> "asrv") @@ (11 :> "rorv")
OneSource == <<"rbit", "rev16", "rev32", "rev64", "clz", "cls">>
OneSourceName(opcode, size) == IF opcode = 2 /\ size = 32 THEN "rev" ELSE IF opcode = 3 THEN "rev" ELSE OneSource[opcode + 1]
ThreeSources == (0 :> <<"madd", "msub">>) @@ (1 :> <<"smaddl", "smsubl">>) @@ (2 :> <<"smulh", "bad">>)
                  @@ (5 :> <<"umaddl", "umsubl">>) @@ (6 :> <<"umulh", "bad">>)

DecodeRegister(w) ==
  LET size == RegisterSize(w, 31)
      opc == Num(w, 29, 2)
      rd == Reg(w, 0)
      rn == Reg(w, 5)
      rm == Reg(w, 16)
      kind == Num(w, 21, 4)
  IN CASE 28 \notin w /\ 24 \notin w ->
            D(Logic[opc + 1], size, <<rd, rn, Operand(rm, Num(w, 22, 2), Num(w, 10, 6)), 21 \in w>>)
       [] 28 \notin w /\ 24 \in w /\ 21 \notin w ->
            D(Sum[opc + 1], size, <<rd, rn, Operand(rm, Num(w, 22, 2), Num(w, 10, 6))>>)
       [] 28 \notin w /\ 24 \in w /\ 21 \in w /\ w \cap {22, 23} = {} ->
            D(Sum[opc + 1], size, <<IF opc % 2 = 1 THEN rd ELSE OrSp(rd), OrSp(rn),
                                    Extension(rm, Num(w, 13, 3), Num(w, 10, 3), size)>>)
       [] 28 \in w /\ kind = 0 -> D(<<"adc", "adcs", "sbc", "sbcs">>[opc + 1], size, <<rd, rn, rm>>)
       [] 28 \in w /\ kind = 2 /\ 29 \in w /\ 10 \notin w /\ 4 \notin w ->
            D(IF 30 \in w THEN "ccmp" ELSE "ccmn", size,
              <<rn, IF 11 \in w THEN Constant(rm) ELSE Operand(rm, 0, 0), Num(w, 12, 4), Num(w, 0, 4)>>)
       [] 28 \in w /\ kind = 4 /\ 29 \notin w /\ 11 \notin w ->
            Chosen(size, rd, Num(w, 12, 4), <<rn, "is">>,
                   <<rm, Select[1 + (IF 30 \in w THEN 2 ELSE 0) + (IF 10 \in w THEN 1 ELSE 0)]>>)
       [] 28 \in w /\ kind = 6 /\ 29 \notin w /\ 30 \notin w -> D(TwoSources[Num(w, 10, 6)], size, <<rd, rn, rm>>)
       [] 28 \in w /\ kind = 6 /\ 29 \notin w /\ 30 \in w /\ rm = 0 ->
            D(OneSourceName(Num(w, 10, 6), size), size, <<rd, rn>>)
       [] 28 \in w /\ kind >= 8 /\ opc = 0 ->
            D(ThreeSources[Num(w, 21, 3)][IF 15 \in w THEN 2 ELSE 1], size, <<rd, rn, rm, Reg(w, 10)>>)
       [] OTHER -> Unknown

-----------------------------------------------------------------------------
DecodeBranch(w) ==
  CASE Num(w, 26, 5) = 5 -> D(IF 31 \in w THEN "bl" ELSE "b", 64, <<4 * Distance(w, 0, 26)>>)
    [] Num(w, 25, 6) = 26 ->
         D(IF 24 \in w THEN "cbnz" ELSE "cbz", RegisterSize(w, 31), <<Reg(w, 0), 4 * Distance(w, 5, 19)>>)
    [] Num(w, 25, 6) = 27 ->
         D(IF 24 \in w THEN "tbnz" ELSE "tbz", 64,
           <<Reg(w, 0), Num(w, 19, 5) + (IF 31 \in w THEN 32 ELSE 0), 4 * Distance(w, 5, 14)>>)
    [] Num(w, 24, 8) = \h54 /\ 4 \notin w -> D("b.cond", 64, <<Num(w, 0, 4), 4 * Distance(w, 5, 19)>>)
    [] Num(w, 25, 7) = \h6B /\ Num(w, 10, 15) \in {\h7C0, \hFC0, \h17C0} /\ Reg(w, 0) = 0 ->
         D(<<"br", "blr", "ret">>[Num(w, 21, 4) + 1], 64, <<Reg(w, 5)>>)
    [] Num(w, 24, 8) = \hD4 /\ Num(w, 0, 5) = 0 /\ Num(w, 21, 3) \in {1, 2} ->
         D(<<"brk", "hlt">>[Num(w, 21, 3)], 64, <<Num(w, 5, 16)>>)
    [] Num(w, 12, 20) = \hD5032 /\ Reg(w, 0) = 31 -> D("hint", 64, <<Num(w, 5, 7)>>)
    [] Num(w, 12, 20) = \hD5033 /\ Reg(w, 0) = 31 /\ Num(w, 5, 3) \in {4, 5, 6} ->
         D(<<"dsb", "dmb", "isb">>[Num(w, 5, 3) - 3], 64, <<Num(w, 8, 4)>>)
    [] OTHER -> Unknown

-----------------------------------------------------------------------------
\* Loads and stores: the bytes moved, the bits a signed load extends to (0 for
\* none), vector registers, the register and the address.

Based(w, mode, off) == [base |-> OrSp(Reg(w, 5)), mode |-> mode, off |-> off]
AddressOf(w, log) ==
  CASE 24 \in w -> Based(w, "offset", Constant(Num(w, 10, 12) * 2 ^ log))
    [] 24 \notin w /\ 21 \notin w ->
         Based(w, <<"offset", "post", "bad", "pre">>[Num(w, 10, 2) + 1], Constant(Distance(w, 12, 9)))
    [] 24 \notin w /\ 21 \in w /\ Num(w, 10, 2) = 2 /\ Num(w, 13, 3) \in {2, 3, 6, 7} ->
         Based(w, "reg", Extension(Reg(w, 16), Num(w, 13, 3), IF 12 \in w THEN log ELSE 0, 64))
    [] OTHER -> Based(w, "bad", Constant(0))

DecodeSingle(w) ==
  LET vector == 26 \in w
      opc == Num(w, 22, 2)
      log == Num(w, 30, 2) + IF vector /\ opc \in {2, 3} THEN 4 ELSE 0
  IN D(IF opc = 0 \/ (vector /\ opc = 2) THEN "store" ELSE "load", 8 * 2 ^ log,
       <<vector, IF ~vector /\ opc = 2 THEN 64 ELSE IF ~vector /\ opc = 3 THEN 32 ELSE 0, Reg(w, 0),
         AddressOf(w, log)>>)

DecodePair(w) ==
  LET vector == 26 \in w
      opc == Num(w, 30, 2)
      log == IF vector THEN 2 + opc ELSE IF opc = 2 THEN 3 ELSE 2
  IN D(IF 22 \in w THEN "loads" ELSE "stores", 8 * 2 ^ log,
       <<vector, IF ~vector /\ opc = 1 THEN 64 ELSE 0, Reg(w, 0), Reg(w, 10),
         Based(w, <<"bad", "post", "offset", "pre">>[Num(w, 23, 2) + 1], Constant(Distance(w, 15, 7) * 2 ^ log))>>)

DecodeLoad(w) ==
  CASE Num(w, 27, 3) = 7 -> DecodeSingle(w)
    [] Num(w, 27, 3) = 5 /\ 25 \notin w -> DecodePair(w)
    [] Num(w, 27, 3) = 3 /\ 24 \notin w /\ 31 \notin w ->
         D("literal", RegisterSize(w, 30), <<26 \in w, Reg(w, 0), 4 * Distance(w, 5, 19)>>)
    [] Num(w, 24, 6) = 8 /\ 21 \notin w /\ 15 \in w /\ Reg(w, 10) = 31 ->
         D(IF 22 \in w THEN "load-acquire" ELSE "store-release", 8 * 2 ^ Num(w, 30, 2),
           <<23 \notin w, Reg(w, 16), Reg(w, 0), OrSp(Reg(w, 5))>>)
    [] OTHER -> Unknown

-----------------------------------------------------------------------------
\* Floating point.  VFPExpandImm: the pattern of a double from eight bits.
Expand(imm8) ==
  {b + 48 : b \in imm8 \cap 0..5} \cup (IF 7 \in imm8 THEN {63} ELSE {})
    \cup (IF 6 \in imm8 THEN 54..61 ELSE {62})

FPSizes == <<32, 64, 128, 16>>
FPOne == (0 :> "fmov") @@ (1 :> "fabs") @@ (2 :> "fneg") @@ (3 :> "fsqrt") @@ (8 :> "frintn") @@ (9 :> "frintp")
           @@ (10 :> "frintm") @@ (11 :> "frintz") @@ (12 :> "frinta") @@ (14 :> "frintx") @@ (15 :> "frinti")
FPTwo == <<"fmul", "fdiv", "fadd", "fsub", "fmax", "fmin", "fmaxnm", "fminnm", "fnmul">>
FPConversions ==
  (0 :> "fcvtns") @@ (1 :> "fcvtnu") @@ (2 :> "scvtf") @@ (3 :> "ucvtf") @@ (4 :> "fcvtas") @@ (5 :> "fcvtau")
    @@ (6 :> "fmov") @@ (7 :> "fmov") @@ (8 :> "fcvtps") @@ (9 :> "fcvtpu") @@ (16 :> "fcvtms")
    @@ (17 :> "fcvtmu") @@ (24 :> "fcvtzs") @@ (25 :> "fcvtzu") @@ (30 :> "fjcvtzs")
    @@ (14 :> "fmov_high") @@ (15 :> "fmov_high")

\* Whether a conversion's result is the general register.
FromFloat(rmode) == rmode % 8 \notin {2, 3, 7}

DecodeFloat(w) ==
  LET type == Num(w, 22, 2)
      size == FPSizes[type + 1]
      rd == Reg(w, 0)
      rn == Reg(w, 5)
      rm == Reg(w, 16)
      cond == Num(w, 12, 4)
      code == Num(w, 16, 5)
  IN CASE Num(w, 24, 7) = \h1F /\ 31 \notin w ->
            D(<<"fmadd", "fmsub", "fnmadd", "fnmsub">>[1 + (IF 21 \in w THEN 2 ELSE 0) + (IF 15 \in w THEN 1 ELSE 0)],
              size, <<rd, rn, rm, Reg(w, 10)>>)
       [] Num(w, 24, 7) = \h1E /\ 21 \notin w ->
            D(FPConversions[code], size, <<RegisterSize(w, 31), FromFloat(code), rd, rn, 64 - Num(w, 10, 6)>>)
       [] Num(w, 24, 7) = \h1E /\ 21 \in w /\ Num(w, 10, 6) = 0 ->
            D(FPConversions[code], IF code \in {14, 15} THEN 64 ELSE size, <<RegisterSize(w, 31), FromFloat(code), rd, rn, 0>>)
       [] Num(w, 24, 8) = \h1E /\ 21 \in w /\ Num(w, 10, 5) = 16 ->
            IF Num(w, 15, 6) \in {4, 5, 7}
            THEN D("fcvt", FPSizes[Num(w, 15, 2) + 1], <<size, rd, rn>>)
            ELSE D(FPOne[Num(w, 15, 6)], size, <<rd, rn>>)
       [] Num(w, 24, 8) = \h1E /\ 21 \in w /\ Num(w, 10, 4) = 8 ->
            CASE Reg(w, 0) = 0 -> D("fcmp", size, <<rn, rm>>)
              [] Reg(w, 0) = 8 /\ rm = 0 -> D("fcmp0", size, <<rn>>)
              [] OTHER -> Unknown
       [] Num(w, 24, 8) = \h1E /\ 21 \in w /\ Num(w, 10, 3) = 4 /\ rn = 0 ->
            D("fmov#", size, <<rd, Expand({b - 13 : b \in w \cap 13..20})>>)
       [] Num(w, 24, 8) = \h1E /\ 21 \in w /\ Num(w, 10, 2) = 1 /\ 4 \notin w ->
            D("fccmp", size, <<rn, rm, cond, Num(w, 0, 4)>>)
       [] Num(w, 24, 8) = \h1E /\ 21 \in w /\ Num(w, 10, 2) = 2 -> D(FPTwo[cond + 1], size, <<rd, rn, rm>>)
       [] Num(w, 24, 8) = \h1E /\ 21 \in w /\ Num(w, 10, 2) = 3 -> D("fcsel", size, <<rd, rn, rm, cond>>)
       [] OTHER -> Unknown

-----------------------------------------------------------------------------
Decode(w) ==
  CASE Num(w, 26, 3) = 4 -> DecodeImmediate(w)
    [] Num(w, 26, 3) = 5 -> DecodeBranch(w)
    [] 27 \in w /\ 25 \notin w -> DecodeLoad(w)
    [] Num(w, 25, 3) = 5 -> DecodeRegister(w)
    [] Num(w, 25, 3) = 7 -> DecodeFloat(w)
    [] OTHER -> Unknown

-----------------------------------------------------------------------------
(* The vector unit (section C4.1, "Data Processing -- Scalar Floating-Point   *)
(* and Advanced SIMD"): the name of the operation, the width of a lane and of *)
(* all lanes, and the operands.  A scalar has lanes as wide as it is.  A      *)
(* format that is reserved for an operation reads as nothing.                 *)

Vectors == {<<8, 64>>, <<8, 128>>, <<16, 64>>, <<16, 128>>, <<32, 64>>, <<32, 128>>, <<64, 128>>}
Scalars == {<<8, 8>>, <<16, 16>>, <<32, 32>>, <<64, 64>>}
Double == {<<64, 64>>}
LaneOf(widths) == {f \in Vectors \cup Scalars : f[1] \in widths}

\* Numbered by opcode, "" for what is not allocated.
SameSigned ==
  <<"shadd", "sqadd", "srhadd", "", "shsub", "sqsub", "cmgt", "cmge", "sshl", "sqshl", "srshl", "sqrshl", "smax",
    "smin", "sabd", "saba", "add", "cmtst", "mla", "mul", "smaxp", "sminp", "sqdmulh", "addp">>
SameUnsigned ==
  <<"uhadd", "uqadd", "urhadd", "", "uhsub", "uqsub", "cmhi", "cmhs", "ushl", "uqshl", "urshl", "uqrshl", "umax",
    "umin", "uabd", "uaba", "sub", "cmeq", "mls", "pmul", "umaxp", "uminp", "sqrdmulh", "">>
Bitwise == <<"and", "bic", "orr", "orn", "eor", "bsl", "bit", "bif">>
\* Opcode 24 on, by U and the upper bit of the size.
SameFloat ==
  << <<"fmaxnm", "fmla", "fadd", "fmulx", "fcmeq", "", "fmax", "frecps">>,
     <<"fminnm", "fmls", "fsub", "", "", "", "fmin", "frsqrts">>,
     <<"fmaxnmp", "", "faddp", "fmul", "fcmge", "facge", "fmaxp", "fdiv">>,
     <<"fminnmp", "", "fabd", "", "fcmgt", "facgt", "fminp", "">> >>

\* The formats a name has, in the order of the chapter.
Allowed(name) ==
  CASE name \in {"shadd", "uhadd", "srhadd", "urhadd", "shsub", "uhsub", "smax", "umax", "smin", "umin", "sabd", "uabd",
                 "saba", "uaba", "mla", "mls", "mul", "smaxp", "umaxp", "sminp", "uminp", "cls", "clz", "rev64",
                 "saddlp", "uaddlp", "sadalp", "uadalp"} -> Vectors \ LaneOf({64})
    [] name \in ToSet(Bitwise) \cup {"pmul", "cnt", "not", "rbit", "rev16"} -> Vectors \cap LaneOf({8})
    [] name \in {"sqadd", "uqadd", "sqsub", "uqsub", "sqshl", "uqshl", "sqrshl", "uqrshl", "sqshlu", "suqadd", "usqadd",
                 "sqabs", "sqneg", "dup"} -> Vectors \cup Scalars
    [] name \in {"sqdmulh", "sqrdmulh", "sqdmulh[]", "sqrdmulh[]"} -> LaneOf({16, 32})
    [] name \in {"mul[]", "mla[]", "mls[]"} -> Vectors \cap LaneOf({16, 32})
    [] name \in {"addp", "trn1", "trn2", "uzp1", "uzp2", "zip1", "zip2"} -> Vectors
    [] name \in {"fmulx", "fcmeq", "fcmge", "fcmgt", "facge", "facgt", "frecps", "frsqrts", "fabd", "fcmeq0", "fcmge0",
                 "fcmgt0", "fcmle0", "fcmlt0", "fcvtns", "fcvtnu", "fcvtps", "fcvtpu", "fcvtms", "fcvtmu", "fcvtas",
                 "fcvtau", "fcvtzs", "fcvtzu", "scvtf", "ucvtf", "frecpe", "frsqrte", "fcvtzs#", "fcvtzu#", "scvtf#",
                 "ucvtf#", "fmul[]", "fmla[]", "fmls[]", "fmulx[]"} -> LaneOf({32, 64})
    [] name \in {"fmaxnm", "fmla", "fadd", "fmax", "fminnm", "fmls", "fsub", "fmin", "fmaxnmp", "faddp", "fmul", "fmaxp",
                 "fdiv", "fminnmp", "fminp", "fabs", "fneg", "fsqrt", "frintn", "frintp", "frintm", "frintz", "frinta",
                 "frintx", "frinti"} -> Vectors \cap LaneOf({32, 64})
    [] name = "rev32" -> Vectors \cap LaneOf({8, 16})
    [] name \in {"ursqrte", "urecpe"} -> Vectors \cap LaneOf({32})
    [] name = "frecpx" -> Scalars \cap LaneOf({32, 64})
    [] name \in {"add", "sub", "cmgt", "cmge", "cmhi", "cmhs", "cmtst", "cmeq", "sshl", "ushl", "srshl", "urshl", "abs",
                 "neg", "cmgt0", "cmge0", "cmeq0", "cmle0", "cmlt0", "sshr", "ushr", "srshr", "urshr", "ssra", "usra",
                 "srsra", "ursra", "sri", "shl", "sli"} -> Vectors \cup Double
    \* The format is that of the narrow lanes: of the source of a long operation, of the result of a narrow one.
    [] name \in {"saddl", "uaddl", "ssubl", "usubl", "saddw", "uaddw", "ssubw", "usubw", "addhn", "raddhn", "subhn",
                 "rsubhn", "sabal", "uabal", "sabdl", "uabdl", "smlal", "umlal", "smlsl", "umlsl", "smull", "umull",
                 "xtn", "shll", "shrn", "rshrn", "sshll", "ushll"} -> Vectors \ LaneOf({64})
    [] name \in {"sqxtn", "uqxtn", "sqxtun", "sqshrn", "sqrshrn", "uqshrn", "uqrshrn", "sqshrun", "sqrshrun"} ->
         LaneOf({8, 16, 32})
    [] name \in {"sqdmlal", "sqdmlsl", "sqdmull", "sqdmlal[]", "sqdmlsl[]", "sqdmull[]"} -> LaneOf({16, 32})
    [] name \in {"smlal[]", "umlal[]", "smlsl[]", "umlsl[]", "smull[]", "umull[]"} -> Vectors \cap LaneOf({16, 32})
    [] name = "pmull" -> Vectors \cap LaneOf({8})
    [] name \in {"fcvtl", "fcvtn"} -> Vectors \cap LaneOf({16, 32})
    [] name = "fcvtxn" -> LaneOf({32})
    [] name \in {"addv", "smaxv", "umaxv", "sminv", "uminv"} -> Vectors \ {<<32, 64>>, <<64, 128>>}
    [] name \in {"fmaxv", "fminv", "fmaxnmv", "fminnmv"} -> {<<32, 128>>}
    [] name \in {"faddp'", "fmaxp'", "fminp'", "fmaxnmp'", "fminnmp'"} -> Scalars \cap LaneOf({32, 64})
    [] name = "addp'" -> Double
    [] OTHER -> {}

\* An operation of the vector unit, if there is one.
VD(name, format, ops) ==
  IF format \in Allowed(name) THEN D("v:" \o name, format, ops) ELSE Unknown

-----------------------------------------------------------------------------
U(w) == IF 29 \in w THEN 1 ELSE 0
High(w) == IF 23 \in w THEN 1 ELSE 0
Total(w, lane) == IF 28 \in w THEN lane ELSE IF 30 \in w THEN 128 ELSE 64
Arranged(w, lane) == <<lane, Total(w, lane)>>
SizeOf(w) == Arranged(w, 8 * 2 ^ Num(w, 22, 2))
FloatOf(w) == Arranged(w, IF 22 \in w THEN 64 ELSE 32)
Regs(w) == <<Reg(w, 0), Reg(w, 5), Reg(w, 16)>>

DecodeSame(w) ==
  LET opcode == Num(w, 11, 5)
  IN CASE opcode = 3 -> VD(Bitwise[4 * U(w) + Num(w, 22, 2) + 1], Arranged(w, 8), Regs(w))
       [] opcode >= 24 -> VD(SameFloat[2 * U(w) + High(w) + 1][opcode - 23], FloatOf(w), Regs(w))
       [] OTHER -> LET name == (IF U(w) = 0 THEN SameSigned ELSE SameUnsigned)[opcode + 1]
                   IN IF name = "addp" /\ 28 \in w THEN Unknown ELSE VD(name, SizeOf(w), Regs(w))

Different ==
  << <<"saddl", "saddw", "ssubl", "ssubw", "addhn", "sabal", "subhn", "sabdl", "smlal", "sqdmlal", "smlsl", "sqdmlsl",
       "smull", "sqdmull", "pmull", "">>,
     <<"uaddl", "uaddw", "usubl", "usubw", "raddhn", "uabal", "rsubhn", "uabdl", "umlal", "", "umlsl", "", "umull", "",
       "", "">> >>
DecodeDifferent(w) == VD(Different[U(w) + 1][Num(w, 12, 4) + 1], SizeOf(w), Regs(w))

TwoInteger ==
  << (0 :> "rev64") @@ (1 :> "rev16") @@ (2 :> "saddlp") @@ (3 :> "suqadd") @@ (4 :> "cls") @@ (5 :> "cnt")
       @@ (6 :> "sadalp") @@ (7 :> "sqabs") @@ (8 :> "cmgt0") @@ (9 :> "cmeq0") @@ (10 :> "cmlt0") @@ (11 :> "abs")
       @@ (18 :> "xtn") @@ (20 :> "sqxtn"),
     (0 :> "rev32") @@ (2 :> "uaddlp") @@ (3 :> "usqadd") @@ (4 :> "clz") @@ (6 :> "uadalp") @@ (7 :> "sqneg")
       @@ (8 :> "cmge0") @@ (9 :> "cmle0") @@ (11 :> "neg") @@ (18 :> "sqxtun") @@ (19 :> "shll") @@ (20 :> "uqxtn") >>
\* By U and the upper bit of the size.
TwoFloat ==
  << (24 :> "frintn") @@ (25 :> "frintm") @@ (26 :> "fcvtns") @@ (27 :> "fcvtms") @@ (28 :> "fcvtas") @@ (29 :> "scvtf"),
     (12 :> "fcmgt0") @@ (13 :> "fcmeq0") @@ (14 :> "fcmlt0") @@ (15 :> "fabs") @@ (24 :> "frintp") @@ (25 :> "frintz")
       @@ (26 :> "fcvtps") @@ (27 :> "fcvtzs") @@ (28 :> "urecpe") @@ (29 :> "frecpe") @@ (31 :> "frecpx"),
     (24 :> "frinta") @@ (25 :> "frintx") @@ (26 :> "fcvtnu") @@ (27 :> "fcvtmu") @@ (28 :> "fcvtau") @@ (29 :> "ucvtf"),
     (12 :> "fcmge0") @@ (13 :> "fcmle0") @@ (15 :> "fneg") @@ (25 :> "frinti") @@ (26 :> "fcvtpu")
       @@ (27 :> "fcvtzu") @@ (28 :> "ursqrte") @@ (29 :> "frsqrte") @@ (31 :> "fsqrt") >>
Named(table, opcode) == IF opcode \in DOMAIN table THEN table[opcode] ELSE ""

\* Between 16 and 32 bits, or 32 and 64 where the size says so.
Precision(w) == Arranged(w, IF 22 \in w THEN 32 ELSE 16)
DecodeTwo(w) ==
  LET opcode == Num(w, 12, 5)
      regs == <<Reg(w, 0), Reg(w, 5)>>
  IN CASE opcode = 5 /\ U(w) = 1 -> VD(<<"not", "rbit", "", "">>[Num(w, 22, 2) + 1], Arranged(w, 8), regs)
       [] opcode \in {22, 23} /\ High(w) = 0 ->
            VD(<<"fcvtn", "fcvtl", "fcvtxn", "">>[2 * U(w) + opcode - 21], Precision(w), regs)
       [] (opcode <= 20 /\ opcode \notin 12..15) /\ ~(opcode = 5 /\ U(w) = 1) ->
            VD(Named(TwoInteger[U(w) + 1], opcode), SizeOf(w), regs)
       [] OTHER -> VD(Named(TwoFloat[2 * U(w) + High(w) + 1], opcode), FloatOf(w), regs)

\* Of a vector to a scalar, or of a pair.
DecodeAcross(w) ==
  LET opcode == Num(w, 12, 5)
      regs == <<Reg(w, 0), Reg(w, 5)>>
      min == High(w) = 1
  IN CASE 28 \in w /\ opcode = 27 /\ U(w) = 0 -> VD("addp'", SizeOf(w), regs)
       [] 28 \in w /\ U(w) = 1 /\ opcode \in {12, 13, 15} ->
            VD(CASE opcode = 12 -> IF min THEN "fminnmp'" ELSE "fmaxnmp'"
                 [] opcode = 13 -> IF min THEN "" ELSE "faddp'"
                 [] opcode = 15 -> IF min THEN "fminp'" ELSE "fmaxp'", FloatOf(w), regs)
       [] 28 \notin w /\ opcode \in {12, 15} /\ U(w) = 1 ->
            VD((IF min THEN "fmin" ELSE "fmax") \o (IF opcode = 12 THEN "nmv" ELSE "v"), FloatOf(w), regs)
       [] 28 \notin w /\ opcode \in {10, 26, 27} ->
            VD(Named((10 :> <<"smaxv", "umaxv">>) @@ (26 :> <<"sminv", "uminv">>) @@ (27 :> <<"addv", "">>), opcode)[U(w) + 1],
               SizeOf(w), regs)
       [] OTHER -> Unknown

-----------------------------------------------------------------------------
\* Copies: the lowest bit of imm5 says the lane, those above it the index.
DecodeCopy(w) ==
  LET imm5 == Num(w, 16, 5)
      ones == {n \in 0..3 : 16 + n \in w}
      s == CHOOSE n \in ones : \A m \in ones : n <= m
      lane == 8 * 2 ^ s
      index == imm5 \div 2 ^ (s + 1)
      to == RegisterSize(w, 30)
      kind == Num(w, 11, 4)
      \* A move to a general register fills what a shorter one does not.
      fits == IF kind = 5 THEN lane < to ELSE (to = 64) = (lane = 64)
  IN CASE ones = {} \/ 29 \in w -> Unknown
       [] ones # {} /\ kind = 0 -> VD("dup", Arranged(w, lane), <<Reg(w, 0), Reg(w, 5), index>>)
       [] ones # {} /\ kind = 1 /\ 28 \notin w /\ Arranged(w, lane) \in Vectors ->
            D("v:dup-general", Arranged(w, lane), <<Reg(w, 0), Reg(w, 5)>>)
       [] ones # {} /\ kind = 3 /\ 28 \notin w /\ 30 \in w -> D("v:ins", <<lane, 128>>, <<Reg(w, 0), index, Reg(w, 5)>>)
       [] ones # {} /\ kind \in {5, 7} /\ 28 \notin w /\ fits ->
            D(IF kind = 5 THEN "v:smov" ELSE "v:umov", <<lane, to>>, <<Reg(w, 0), Reg(w, 5), index>>)
       [] OTHER -> Unknown

DecodeBytes(w) ==
  CASE 29 \in w /\ Num(w, 22, 2) = 0 /\ (30 \in w \/ 14 \notin w) ->
         D("v:ext", Arranged(w, 8), Regs(w) \o <<Num(w, 11, 4)>>)
    [] 29 \notin w /\ Num(w, 22, 2) = 0 /\ 11 \notin w ->
         D(IF 12 \in w THEN "v:tbx" ELSE "v:tbl", Arranged(w, 8), Regs(w) \o <<Num(w, 13, 2) + 1>>)
    [] 29 \notin w /\ 11 \in w ->
         VD(<<"", "uzp1", "trn1", "zip1", "", "uzp2", "trn2", "zip2">>[Num(w, 12, 3) + 1], SizeOf(w), Regs(w))
    [] OTHER -> Unknown

\* With an element: of half words it is one of the lower 16 registers.
ByElement ==
  << <<"", "fmla[]", "smlal[]", "sqdmlal[]", "", "fmls[]", "smlsl[]", "sqdmlsl[]", "mul[]", "fmul[]", "smull[]",
       "sqdmull[]", "sqdmulh[]", "sqrdmulh[]", "", "">>,
     <<"mla[]", "", "umlal[]", "", "mls[]", "", "umlsl[]", "", "", "fmulx[]", "umull[]", "", "", "", "", "">> >>
DecodeByElement(w) ==
  LET bit(n, v) == IF n \in w THEN v ELSE 0
      name == ByElement[U(w) + 1][Num(w, 12, 4) + 1]
      format == IF name \in {"fmla[]", "fmls[]", "fmul[]", "fmulx[]"} THEN FloatOf(w) ELSE SizeOf(w)
      index == CASE format[1] = 16 -> bit(11, 4) + bit(21, 2) + bit(20, 1)
                 [] format[1] = 32 -> bit(11, 2) + bit(21, 1)
                 [] OTHER -> bit(11, 1)
      rm == IF format[1] = 16 THEN Num(w, 16, 4) ELSE Reg(w, 16)
  IN IF format[1] = 64 /\ 21 \in w THEN Unknown ELSE VD(name, format, <<Reg(w, 0), Reg(w, 5), rm, index>>)

\* The highest bit of immh says the lane; a shift to the right counts down.
ShiftNames ==
  << (0 :> "sshr") @@ (2 :> "ssra") @@ (4 :> "srshr") @@ (6 :> "srsra") @@ (10 :> "shl") @@ (14 :> "sqshl") @@ (16 :> "shrn")
       @@ (17 :> "rshrn") @@ (18 :> "sqshrn") @@ (19 :> "sqrshrn") @@ (20 :> "sshll") @@ (28 :> "scvtf#") @@ (31 :> "fcvtzs#"),
     (0 :> "ushr") @@ (2 :> "usra") @@ (4 :> "urshr") @@ (6 :> "ursra") @@ (8 :> "sri") @@ (10 :> "sli") @@ (12 :> "sqshlu")
       @@ (14 :> "uqshl") @@ (16 :> "sqshrun") @@ (17 :> "sqrshrun") @@ (18 :> "uqshrn") @@ (19 :> "uqrshrn")
       @@ (20 :> "ushll") @@ (28 :> "ucvtf#") @@ (31 :> "fcvtzu#") >>
DecodeShift(w) ==
  LET immh == {n \in 0..3 : 19 + n \in w}
      lane == 8 * 2 ^ (CHOOSE n \in immh : \A m \in immh : m <= n)
      bits == Num(w, 16, 7)
      name == Named(ShiftNames[U(w) + 1], Num(w, 11, 5))
      left == name \in {"shl", "sli", "sqshl", "sqshlu", "uqshl", "sshll", "ushll"}
  IN VD(name, Arranged(w, lane), <<Reg(w, 0), Reg(w, 5), IF left THEN bits - lane ELSE 2 * lane - bits>>)

\* What is written to every lane, or combined with it: AdvSIMDExpandImm.
DecodeModified(w) ==
  LET imm8 == {b - 5 : b \in w \cap 5..9} \cup {b - 11 : b \in w \cap 16..18}
      cmode == Num(w, 12, 4)
      inverted == 29 \in w
      lane == CASE cmode < 8 \/ cmode \in {12, 13} -> 32 [] cmode \in 8..11 -> 16 [] OTHER -> 8
      shift == CASE cmode < 8 -> 8 * (cmode \div 2) [] cmode \in 8..11 -> 8 * ((cmode - 8) \div 2)
                 [] cmode = 12 -> 8 [] cmode = 13 -> 16 [] OTHER -> 0
      value == {b + shift : b \in imm8} \cup (IF cmode \in {12, 13} THEN 0..(shift - 1) ELSE {})
      logical == cmode < 12 /\ cmode % 2 = 1
  IN CASE cmode = 15 /\ (inverted => 30 \in w) ->
            D("v:fmov", Arranged(w, IF inverted THEN 64 ELSE 32), <<Reg(w, 0), Expand(imm8)>>)
       [] cmode = 14 /\ inverted -> D("v:movi", Arranged(w, 64), <<Reg(w, 0), {b \in 0..63 : b \div 8 \in imm8}>>)
       [] cmode < 15 /\ ~(cmode = 14 /\ inverted) ->
            D(IF logical THEN IF inverted THEN "v:bic" ELSE "v:orr" ELSE "v:movi", Arranged(w, lane),
              <<Reg(w, 0), IF inverted /\ ~logical THEN 0..(lane - 1) \ value ELSE value>>)
       [] OTHER -> Unknown

-----------------------------------------------------------------------------
DecodeVector(w) ==
  CASE 24 \notin w /\ 21 \in w /\ 10 \in w -> DecodeSame(w)
    [] 24 \notin w /\ 21 \in w /\ Num(w, 10, 2) = 0 -> DecodeDifferent(w)
    [] 24 \notin w /\ Num(w, 17, 5) = 16 /\ Num(w, 10, 2) = 2 -> DecodeTwo(w)
    [] 24 \notin w /\ Num(w, 17, 5) = 24 /\ Num(w, 10, 2) = 2 -> DecodeAcross(w)
    [] 24 \notin w /\ Num(w, 21, 3) = 0 /\ 15 \notin w /\ 10 \in w -> DecodeCopy(w)
    [] 24 \notin w /\ 28 \notin w /\ 21 \notin w /\ 15 \notin w /\ 10 \notin w -> DecodeBytes(w)
    [] 24 \in w /\ 10 \notin w -> DecodeByElement(w)
    [] 24 \in w /\ 10 \in w /\ 23 \notin w /\ Num(w, 19, 4) # 0 -> DecodeShift(w)
    [] 24 \in w /\ 10 \in w /\ 11 \notin w /\ 28 \notin w /\ 23 \notin w /\ Num(w, 19, 4) = 0 -> DecodeModified(w)
    [] OTHER -> Unknown

\* The other instructions of this part of the space are those of one number.
DecodeAny(w) ==
  IF Num(w, 25, 3) = 7 /\ 31 \notin w /\ (28 \notin w \/ 30 \in w) THEN DecodeVector(w) ELSE Decode(w)
=============================================================================
