---------------------------- MODULE Arm64Vectors ------------------------------
(* The vector instructions of the assembler for arm64 (src/arm64/asm-arm64.h, *)
(* asm-arm64.cc, const-arm64.h): the methods that name their operation in a   *)
(* table and share an encoding, with what each asserts of the formats.  V8B,  *)
(* V16B, ... are V(n, 64, 8), V(n, 128, 16), ...; B, H, S and D have one lane.*)
EXTENDS Arm64Assembler

IsVector(v) == v.lanes > 1
Is1D(v) == v.size = 64 /\ v.lanes = 1
AreSameFormat(v, w) == v.size = w.size /\ v.lanes = w.lanes
Bytewise(v) == v.lanes \in {8, 16} /\ LaneSize(v) = 8
LaneSizeInBytesLog2(v) == CHOOSE n \in 0..4 : 8 * 2 ^ n = LaneSize(v)

\* Q, the size and what makes a scalar of it.
Q(v) == IF IsQ(v) THEN {30} ELSE {}
Scalar == {28, 30}
QOrScalar(v) == IF IsScalar(v) THEN Scalar ELSE Q(v)
VFormat(v) == Q(v) \cup At(LaneSizeInBytesLog2(v), 22) \cup Require(IsVector(v) /\ v.size >= 64)
SFormat(v) == At(LaneSizeInBytesLog2(v), 22) \cup Require(IsScalar(v) /\ v.size <= 64)
Format(v) == IF IsScalar(v) THEN Scalar \cup SFormat(v) ELSE VFormat(v)
IsFPFormat(v) == LaneSize(v) \in {32, 64}
FPFormat(v) == (IF LaneSize(v) = 64 THEN {22} ELSE {}) \cup Q(v) \cup Require(IsFPFormat(v))

\* The lower and the upper half of a vector, or a scalar, of lanes half as wide.
Narrows(d, n, scalar) ==
  /\ LaneSize(n) = 2 * LaneSize(d) /\ (IsScalar(d) <=> IsScalar(n)) /\ LaneSize(n) <= 64
  /\ IF IsScalar(d) THEN scalar ELSE IsQ(n) /\ d.size \in {64, 128}

-----------------------------------------------------------------------------
\* Three registers of one format.

NEON3SameOps ==
  [add |-> <<\hE20, \h8400>>, addp |-> <<\hE20, \hBC00>>, sub |-> <<\h2E20, \h8400>>,
   cmeq |-> <<\h2E20, \h8C00>>, cmge |-> <<\hE20, \h3C00>>, cmgt |-> <<\hE20, \h3400>>,
   cmhi |-> <<\h2E20, \h3400>>, cmhs |-> <<\h2E20, \h3C00>>, cmtst |-> <<\hE20, \h8C00>>,
   sshl |-> <<\hE20, \h4400>>, ushl |-> <<\h2E20, \h4400>>, srshl |-> <<\hE20, \h5400>>,
   urshl |-> <<\h2E20, \h5400>>, sqdmulh |-> <<\hE20, \hB400>>, sqrdmulh |-> <<\h2E20, \hB400>>,
   shadd |-> <<\hE20, \h400>>, uhadd |-> <<\h2E20, \h400>>, srhadd |-> <<\hE20, \h1400>>,
   urhadd |-> <<\h2E20, \h1400>>, shsub |-> <<\hE20, \h2400>>, uhsub |-> <<\h2E20, \h2400>>,
   smax |-> <<\hE20, \h6400>>, smaxp |-> <<\hE20, \hA400>>, smin |-> <<\hE20, \h6C00>>,
   sminp |-> <<\hE20, \hAC00>>, umax |-> <<\h2E20, \h6400>>, umaxp |-> <<\h2E20, \hA400>>,
   umin |-> <<\h2E20, \h6C00>>, uminp |-> <<\h2E20, \hAC00>>, saba |-> <<\hE20, \h7C00>>,
   sabd |-> <<\hE20, \h7400>>, uaba |-> <<\h2E20, \h7C00>>, uabd |-> <<\h2E20, \h7400>>,
   mla |-> <<\hE20, \h9400>>, mls |-> <<\h2E20, \h9400>>, mul |-> <<\hE20, \h9C00>>,
   and |-> <<\hE20, \h1C00>>, orr |-> <<\hEA0, \h1C00>>, orn |-> <<\hEE0, \h1C00>>,
   eor |-> <<\h2E20, \h1C00>>, bic |-> <<\hE60, \h1C00>>, bit |-> <<\h2EA0, \h1C00>>,
   bif |-> <<\h2EE0, \h1C00>>, bsl |-> <<\h2E60, \h1C00>>, pmul |-> <<\h2E20, \h9C00>>,
   uqadd |-> <<\h2E20, \hC00>>, sqadd |-> <<\hE20, \hC00>>, uqsub |-> <<\h2E20, \h2C00>>,
   sqsub |-> <<\hE20, \h2C00>>, sqshl |-> <<\hE20, \h4C00>>, uqshl |-> <<\h2E20, \h4C00>>,
   sqrshl |-> <<\hE20, \h5C00>>, uqrshl |-> <<\h2E20, \h5C00>>]

NotDoubles == {"shadd", "uhadd", "srhadd", "urhadd", "shsub", "uhsub", "smax", "smaxp", "smin", "sminp", "umax",
               "umaxp", "umin", "uminp", "saba", "sabd", "uaba", "uabd", "mla", "mls", "mul"}
BytesOnly == {"and", "orr", "orn", "eor", "bic", "bit", "bif", "bsl", "pmul"}
AnyFormat == {"uqadd", "sqadd", "uqsub", "sqsub", "sqshl", "uqshl", "sqrshl", "uqrshl"}
Allows3Same(op, vd) ==
  CASE op \in NotDoubles -> IsVector(vd) /\ LaneSize(vd) # 64
    [] op \in BytesOnly -> Bytewise(vd)
    [] op \in AnyFormat -> TRUE
    [] op \in {"sqdmulh", "sqrdmulh"} -> LaneSize(vd) \in {16, 32}
    [] OTHER -> IsVector(vd) \/ Is1D(vd)

Three(i) == Rm(i.a[3]) \cup Rn(i.a[2]) \cup Rd(i.a[1]) \cup
            Require(AreSameFormat(i.a[1], i.a[2]) /\ AreSameFormat(i.a[1], i.a[3]))
Two(i) == Rn(i.a[2]) \cup Rd(i.a[1]) \cup Require(AreSameFormat(i.a[1], i.a[2]))

\* Mutant: a scalar is written with the format of a vector.
NEON3Same_Scalar(i) ==
  VFormat(i.a[1]) \cup Op(NEON3SameOps[i.op]) \cup Three(i) \cup Require(Allows3Same(i.op, i.a[1]))

NEON3Same(i) == Format(i.a[1]) \cup Op(NEON3SameOps[i.op]) \cup Three(i) \cup Require(Allows3Same(i.op, i.a[1]))

NEONFP3SameOps ==
  [fadd |-> <<\hE20, \hD400>>, fsub |-> <<\hEA0, \hD400>>, fmul |-> <<\h2E20, \hDC00>>,
   fdiv |-> <<\h2E20, \hFC00>>, fmax |-> <<\hE20, \hF400>>, fmaxnm |-> <<\hE20, \hC400>>,
   fmin |-> <<\hEA0, \hF400>>, fminnm |-> <<\hEA0, \hC400>>, fmulx |-> <<\hE20, \hDC00>>,
   frecps |-> <<\hE20, \hFC00>>, frsqrts |-> <<\hEA0, \hFC00>>, fabd |-> <<\h2EA0, \hD400>>,
   fmla |-> <<\hE20, \hCC00>>, fmls |-> <<\hEA0, \hCC00>>, facge |-> <<\h2E20, \hEC00>>,
   facgt |-> <<\h2EA0, \hEC00>>, fcmeq |-> <<\hE20, \hE400>>, fcmge |-> <<\h2E20, \hE400>>,
   fcmgt |-> <<\h2EA0, \hE400>>, faddp |-> <<\h2E20, \hD400>>, fmaxp |-> <<\h2E20, \hF400>>,
   fminp |-> <<\h2EA0, \hF400>>, fmaxnmp |-> <<\h2E20, \hC400>>, fminnmp |-> <<\h2EA0, \hC400>>]
NEONScalar3SameOps ==
  [fmulx |-> <<\h5E20, \hDC00>>, frecps |-> <<\h5E20, \hFC00>>, frsqrts |-> <<\h5EA0, \hFC00>>,
   fabd |-> <<\h7EA0, \hD400>>, facge |-> <<\h7E20, \hEC00>>, facgt |-> <<\h7EA0, \hEC00>>,
   fcmeq |-> <<\h5E20, \hE400>>, fcmge |-> <<\h7E20, \hE400>>, fcmgt |-> <<\h7EA0, \hE400>>]

\* A scalar has an operation of its own, or none.
FP3SameScalarOps == FPDataProcessing2SourceOps @@ NEONScalar3SameOps
NEONFP3Same(i) ==
  FPFormat(i.a[1]) \cup Three(i) \cup
  IF ~IsScalar(i.a[1]) THEN Op(NEONFP3SameOps[i.op])
  ELSE IF i.op \in DOMAIN FP3SameScalarOps THEN Op(FP3SameScalarOps[i.op]) ELSE {Refused}

-----------------------------------------------------------------------------
\* Two registers of one format.

NEONFP2RegMiscOps ==
  [fabs |-> <<\hEA0, \hF800>>, fneg |-> <<\h2EA0, \hF800>>, fsqrt |-> <<\h2EA1, \hF800>>,
   frintn |-> <<\hE21, \h8800>>, frinta |-> <<\h2E21, \h8800>>, frintp |-> <<\hEA1, \h8800>>,
   frintm |-> <<\hE21, \h9800>>, frintx |-> <<\h2E21, \h9800>>, frintz |-> <<\hEA1, \h9800>>,
   frinti |-> <<\h2EA1, \h9800>>, frsqrte |-> <<\h2EA1, \hD800>>, frecpe |-> <<\hEA1, \hD800>>]
FP2RegMiscScalarOps ==
  FPDataProcessing1SourceOps @@ [frsqrte |-> <<\h7EA1, \hD800>>, frecpe |-> <<\h5EA1, \hD800>>]
NEONFP2RegMisc(i) ==
  FPFormat(i.a[1]) \cup Two(i) \cup
  Op(IF IsScalar(i.a[1]) THEN FP2RegMiscScalarOps[i.op] ELSE NEONFP2RegMiscOps[i.op])

\* Comparisons with 0.0, and conversions without fraction bits.
NEONFPZeroOps ==
  [fcmeq |-> <<\hEA0, \hD800>>, fcmgt |-> <<\hEA0, \hC800>>, fcmge |-> <<\h2EA0, \hC800>>,
   fcmle |-> <<\h2EA0, \hD800>>, fcmlt |-> <<\hEA0, \hE800>>, fcvtzs |-> <<\hEA1, \hB800>>,
   fcvtzu |-> <<\h2EA1, \hB800>>, scvtf |-> <<\hE21, \hD800>>, ucvtf |-> <<\h2E21, \hD800>>]
NEONFPZero(i) ==
  FPFormat(i.a[1]) \cup QOrScalar(i.a[1]) \cup Op(NEONFPZeroOps[i.op]) \cup Two(i)

\* Conversions that round: the formats of vectors are not compared.
NEONConvertOps ==
  [fcvtnu |-> <<\h2E21, \hA800>>, fcvtns |-> <<\hE21, \hA800>>, fcvtpu |-> <<\h2EA1, \hA800>>,
   fcvtps |-> <<\hEA1, \hA800>>, fcvtmu |-> <<\h2E21, \hB800>>, fcvtms |-> <<\hE21, \hB800>>,
   fcvtau |-> <<\h2E21, \hC800>>, fcvtas |-> <<\hE21, \hC800>>]
NEONFPConvertToInt(i) ==
  FPFormat(i.a[2]) \cup QOrScalar(i.a[2]) \cup Op(NEONConvertOps[i.op]) \cup Rn(i.a[2]) \cup Rd(i.a[1])
    \cup Require(IsScalar(i.a[2]) => AreSameFormat(i.a[1], i.a[2]))

NEON2RegMiscOps ==
  [suqadd |-> <<\hE20, \h3800>>, usqadd |-> <<\h2E20, \h3800>>, abs |-> <<\hE20, \hB800>>,
   sqabs |-> <<\hE20, \h7800>>, neg |-> <<\h2E20, \hB800>>, sqneg |-> <<\h2E20, \h7800>>,
   cmeq |-> <<\hE20, \h9800>>, cmge |-> <<\h2E20, \h8800>>, cmgt |-> <<\hE20, \h8800>>,
   cmle |-> <<\h2E20, \h9800>>, cmlt |-> <<\hE20, \hA800>>]
NEON2RegMisc(i) ==
  Format(i.a[1]) \cup Op(NEON2RegMiscOps[i.op]) \cup Two(i)
    \cup Require(i.op \in {"suqadd", "usqadd", "sqabs", "sqneg"} \/ IsVector(i.a[1]) \/ Is1D(i.a[1]))

\* Counts and reversals of the lanes; rbit has the bit 22 more than not.
CountAndReverseOps ==
  [cls |-> <<\hE20, \h4800>>, clz |-> <<\h2E20, \h4800>>, cnt |-> <<\hE20, \h5800>>,
   not |-> <<\h2E20, \h5800>>, rev16 |-> <<\hE20, \h1800>>, rev32 |-> <<\h2E20, \h800>>,
   rev64 |-> <<\hE20, \h800>>, ursqrte |-> <<\h2EA1, \hC800>>, urecpe |-> <<\hEA1, \hC800>>]
CountAndReverse(i) ==
  LET vd == i.a[1]
  IN VFormat(vd) \cup Two(i) \cup (IF i.op = "rbit" THEN {22} ELSE {})
       \cup Op(CountAndReverseOps[IF i.op = "rbit" THEN "not" ELSE i.op])
       \cup Require(CASE i.op \in {"cls", "clz", "rev64"} -> LaneSize(vd) # 64
                      [] i.op \in {"cnt", "rbit", "not", "rev16"} -> Bytewise(vd)
                      [] i.op = "rev32" -> LaneSize(vd) <= 16
                      [] i.op \in {"ursqrte", "urecpe"} -> LaneSize(vd) = 32)

\* mov and mvn take the register as bytes.
AsBytes(v) == V(v.n, v.size, v.size \div 8)
MoveVector(i) ==
  LET d == AsBytes(i.a[1])  n == AsBytes(i.a[2])
  IN Require(AreSameFormat(i.a[1], i.a[2]) /\ i.a[1].size \in {64, 128}) \cup
     IF i.op = "mov" THEN NEON3Same([op |-> "orr", a |-> <<d, n, n>>])
     ELSE CountAndReverse([op |-> "not", a |-> <<d, n>>])

-----------------------------------------------------------------------------
\* Results of another width.

NEON3DifferentLOps ==
  [pmull |-> <<\hE20, \hE000>>, saddl |-> <<\hE20, \h0>>, sabal |-> <<\hE20, \h5000>>,
   uabal |-> <<\h2E20, \h5000>>, sabdl |-> <<\hE20, \h7000>>, uabdl |-> <<\h2E20, \h7000>>,
   smlal |-> <<\hE20, \h8000>>, umlal |-> <<\h2E20, \h8000>>, smlsl |-> <<\hE20, \hA000>>,
   umlsl |-> <<\h2E20, \hA000>>, smull |-> <<\hE20, \hC000>>, umull |-> <<\h2E20, \hC000>>,
   ssubl |-> <<\hE20, \h2000>>, uaddl |-> <<\h2E20, \h0>>, usubl |-> <<\h2E20, \h2000>>,
   sqdmlal |-> <<\hE20, \h9000>>, sqdmlsl |-> <<\hE20, \hB000>>, sqdmull |-> <<\hE20, \hD000>>]
\* Mutant: a long product takes its size from the result.
NEON3DifferentL_Result(i) ==
  QOrScalar(i.a[2]) \cup At(LaneSizeInBytesLog2(i.a[1]), 22) \cup Op(NEON3DifferentLOps[i.op])
    \cup Rm(i.a[3]) \cup Rn(i.a[2]) \cup Rd(i.a[1])
    \cup Require(AreSameFormat(i.a[2], i.a[3]) /\ Narrows(i.a[2], i.a[1], FALSE))

NEON3DifferentL(i) ==
  LET doubling == i.op \in {"sqdmlal", "sqdmlsl", "sqdmull"}
  IN Format(i.a[2]) \cup Op(NEON3DifferentLOps[i.op]) \cup Rm(i.a[3]) \cup Rn(i.a[2]) \cup Rd(i.a[1])
       \cup Require(AreSameFormat(i.a[2], i.a[3]) /\ Narrows(i.a[2], i.a[1], doubling)
                      /\ (doubling => LaneSize(i.a[2]) # 8) /\ (i.op = "pmull" => Bytewise(i.a[2])))

NEON3DifferentWOps ==
  [uaddw |-> <<\h2E20, \h1000>>, saddw |-> <<\hE20, \h1000>>, usubw |-> <<\h2E20, \h3000>>,
   ssubw |-> <<\hE20, \h3000>>]
NEON3DifferentW(i) ==
  VFormat(i.a[3]) \cup Op(NEON3DifferentWOps[i.op]) \cup Rm(i.a[3]) \cup Two(i)
    \cup Require(Narrows(i.a[3], i.a[1], FALSE))

NEON3DifferentHNOps ==
  [addhn |-> <<\hE20, \h4000>>, raddhn |-> <<\h2E20, \h4000>>, subhn |-> <<\hE20, \h6000>>,
   rsubhn |-> <<\h2E20, \h6000>>]
NEON3DifferentHN(i) ==
  VFormat(i.a[1]) \cup Op(NEON3DifferentHNOps[i.op]) \cup Rm(i.a[3]) \cup Rn(i.a[2]) \cup Rd(i.a[1])
    \cup Require(AreSameFormat(i.a[2], i.a[3]) /\ Narrows(i.a[1], i.a[2], FALSE))

NEONXtnOps ==
  [xtn |-> <<\hE21, \h2800>>, sqxtn |-> <<\hE21, \h4800>>, uqxtn |-> <<\h2E21, \h4800>>,
   sqxtun |-> <<\h2E21, \h2800>>]
NEONXtn(i) ==
  Format(i.a[1]) \cup Op(NEONXtnOps[i.op]) \cup Rn(i.a[2]) \cup Rd(i.a[1])
    \cup Require(Narrows(i.a[1], i.a[2], i.op # "xtn"))

NEONAddlpOps ==
  [sadalp |-> <<\hE20, \h6800>>, saddlp |-> <<\hE20, \h2800>>, uaddlp |-> <<\h2E20, \h2800>>,
   uadalp |-> <<\h2E20, \h6800>>]
NEONAddlp(i) ==
  VFormat(i.a[2]) \cup Op(NEONAddlpOps[i.op]) \cup Rn(i.a[2]) \cup Rd(i.a[1])
    \cup Require(i.a[1].size = i.a[2].size /\ i.a[2].lanes = 2 * i.a[1].lanes /\ LaneSize(i.a[2]) < 64)

\* fcvtl and fcvtn, and fcvtxn that rounds to odd.
ConvertWidth(i) ==
  LET wide == IF i.op = "fcvtl" THEN i.a[1] ELSE i.a[2]
      narrow == IF i.op = "fcvtl" THEN i.a[2] ELSE i.a[1]
      alone == i.op = "fcvtxn" /\ IsScalar(narrow)
  IN (IF LaneSize(wide) = 64 THEN {22} ELSE {}) \cup Q(narrow) \cup Rn(i.a[2]) \cup Rd(i.a[1])
       \cup Op(IF alone THEN <<\h7E21, \h6800>> ELSE
                CASE i.op = "fcvtl" -> <<\hE21, \h7800>>
                  [] i.op = "fcvtn" -> <<\hE21, \h6800>>
                  [] i.op = "fcvtxn" -> <<\h2E21, \h6800>>)
       \cup Require(Narrows(narrow, wide, alone) /\ LaneSize(wide) \in (IF i.op = "fcvtxn" THEN {64} ELSE {32, 64}))

NEONAcrossLanesOps ==
  [fmaxv |-> <<\h2E30, \hF800>>, fminv |-> <<\h2EB0, \hF800>>, fmaxnmv |-> <<\h2E30, \hC800>>,
   fminnmv |-> <<\h2EB0, \hC800>>, addv |-> <<\hE31, \hB800>>, smaxv |-> <<\hE30, \hA800>>,
   sminv |-> <<\hE31, \hA800>>, umaxv |-> <<\h2E30, \hA800>>, uminv |-> <<\h2E31, \hA800>>]
NEONAcrossLanes(i) ==
  LET fp == i.op \in {"fmaxv", "fminv", "fmaxnmv", "fminnmv"}
  IN (IF fp THEN FPFormat(i.a[2]) ELSE VFormat(i.a[2])) \cup Op(NEONAcrossLanesOps[i.op]) \cup Rn(i.a[2]) \cup Rd(i.a[1])
       \cup Require(IsScalar(i.a[1]) /\ i.a[1].size = LaneSize(i.a[2]) /\ i.a[2].lanes \in {4, 8, 16}
                      /\ (fp => i.a[1].size = 32))

\* A scalar from a pair, and the exponent of a scalar.
NEONScalarPairwiseOps ==
  [faddp |-> <<\h7E30, \hD800>>, fmaxp |-> <<\h7E30, \hF800>>, fmaxnmp |-> <<\h7E30, \hC800>>,
   fminnmp |-> <<\h7EB0, \hC800>>, fminp |-> <<\h7EB0, \hF800>>, addp |-> <<\h5EB1, \hB800>>,
   frecpx |-> <<\h5EA1, \hF800>>]
ScalarPairwise(i) ==
  LET d == i.a[1]  n == i.a[2]
  IN Op(NEONScalarPairwiseOps[i.op]) \cup Rn(n) \cup Rd(d) \cup
     CASE i.op = "addp" -> SFormat(d) \cup Require(Is1D(d) /\ n.size = 128 /\ n.lanes = 2)
       [] i.op = "frecpx" -> FPFormat(d) \cup Require(IsScalar(d) /\ AreSameFormat(d, n))
       [] OTHER -> FPFormat(d) \cup Require(IsScalar(d) /\ n.lanes = 2 /\ LaneSize(n) = d.size)

-----------------------------------------------------------------------------
\* Shifts by a number: its 7 bits say the size of a lane and the distance.

NEONShiftImmediate(i, op, bits) == QOrScalar(i.a[1]) \cup Op(op) \cup At(bits, 16) \cup Two(i)

ShiftLeftOps ==
  [shl |-> <<\hF00, \h5400>>, sli |-> <<\h2F00, \h5400>>, sqshl |-> <<\hF00, \h7400>>,
   sqshlu |-> <<\h2F00, \h6400>>, uqshl |-> <<\h2F00, \h7400>>]
ShiftLeft(i) ==
  NEONShiftImmediate(i, ShiftLeftOps[i.op], LaneSize(i.a[2]) + i.a[3])
    \cup Require(i.a[3] \in 0..(LaneSize(i.a[2]) - 1))
    \cup Require(i.op \in {"shl", "sli"} => IsVector(i.a[1]) \/ Is1D(i.a[1]))

\* The conversions between numbers with fraction bits are shifts too.
ShiftRightOps ==
  [sshr |-> <<\hF00, \h400>>, ushr |-> <<\h2F00, \h400>>, srshr |-> <<\hF00, \h2400>>,
   urshr |-> <<\h2F00, \h2400>>, ssra |-> <<\hF00, \h1400>>, usra |-> <<\h2F00, \h1400>>,
   srsra |-> <<\hF00, \h3400>>, ursra |-> <<\h2F00, \h3400>>, sri |-> <<\h2F00, \h4400>>,
   fcvtzs |-> <<\hF00, \hFC00>>, fcvtzu |-> <<\h2F00, \hFC00>>, scvtf |-> <<\hF00, \hE400>>,
   ucvtf |-> <<\h2F00, \hE400>>]
FixedPoint == {"fcvtzs", "fcvtzu", "scvtf", "ucvtf"}

\* Mutant: the distance of a shift to the right counts from one lane.
ShiftRight_Lane(i) == NEONShiftImmediate(i, ShiftRightOps[i.op], LaneSize(i.a[2]) + i.a[3])

ShiftRight(i) ==
  IF i.op \in FixedPoint /\ i.a[3] = 0 THEN NEONFPZero(i) ELSE
  NEONShiftImmediate(i, ShiftRightOps[i.op], 2 * LaneSize(i.a[2]) - i.a[3])
    \cup Require(i.a[3] \in 1..LaneSize(i.a[2]))
    \cup Require(IF i.op \in FixedPoint THEN IsFPFormat(i.a[1]) ELSE IsVector(i.a[1]) \/ Is1D(i.a[1]))

\* sshll and ushll; sxtl and uxtl shift by 0.
ShiftLongOps == [sshll |-> <<\hF00, \hA400>>, ushll |-> <<\h2F00, \hA400>>]
ShiftLong(i) ==
  Q(i.a[2]) \cup Op(ShiftLongOps[i.op]) \cup At(LaneSize(i.a[2]) + i.a[3], 16) \cup Rn(i.a[2]) \cup Rd(i.a[1])
    \cup Require(Narrows(i.a[2], i.a[1], FALSE) /\ i.a[3] \in 0..(LaneSize(i.a[2]) - 1))
ExtendLong(i) ==
  ShiftLong([op |-> IF i.op = "sxtl" THEN "sshll" ELSE "ushll", a |-> <<i.a[1], i.a[2], 0>>])

\* shll: by the width of a lane.
ShiftByLane(i) ==
  VFormat(i.a[2]) \cup Op(<<\h2E21, \h3800>>) \cup Rn(i.a[2]) \cup Rd(i.a[1])
    \cup Require(Narrows(i.a[2], i.a[1], FALSE) /\ i.a[3] = LaneSize(i.a[2]))

ShiftNarrowOps ==
  [shrn |-> <<\hF00, \h8400>>, rshrn |-> <<\hF00, \h8C00>>, uqshrn |-> <<\h2F00, \h9400>>,
   uqrshrn |-> <<\h2F00, \h9C00>>, sqshrn |-> <<\hF00, \h9400>>, sqrshrn |-> <<\hF00, \h9C00>>,
   sqshrun |-> <<\h2F00, \h8400>>, sqrshrun |-> <<\h2F00, \h8C00>>]
ShiftNarrow(i) ==
  QOrScalar(i.a[1]) \cup Op(ShiftNarrowOps[i.op]) \cup At(2 * LaneSize(i.a[1]) - i.a[3], 16)
    \cup Rn(i.a[2]) \cup Rd(i.a[1])
    \cup Require(i.a[3] \in 1..LaneSize(i.a[1]) /\ Narrows(i.a[1], i.a[2], i.op \notin {"shrn", "rshrn"}))

-----------------------------------------------------------------------------
\* An element of the last register with all of the others.

\* H, L and M, from the highest bit the lane needs.
\* Mutant: the last bit of the index of a half word goes to L.
ImmNEONHLM_Last(index, bits) ==
  Require(index \in 0..(2 ^ bits - 1)) \cup
  CASE bits = 3 -> At(index \div 4, 11) \cup At((index \div 2) % 2, 20) \cup At(index % 2, 21)
    [] bits = 2 -> At(index \div 2, 11) \cup At(index % 2, 21)
    [] bits = 1 -> At(index, 11)

ImmNEONHLM(index, bits) ==
  Require(index \in 0..(2 ^ bits - 1)) \cup
  CASE bits = 3 -> At(index \div 4, 11) \cup At((index \div 2) % 2, 21) \cup At(index % 2, 20)
    [] bits = 2 -> At(index \div 2, 11) \cup At(index % 2, 21)
    [] bits = 1 -> At(index, 11)
IndexBits(v) == CASE v.size = 16 -> 3 [] v.size = 32 -> 2 [] OTHER -> 1
Element(i) == ImmNEONHLM(i.a[4], IndexBits(i.a[3])) \cup Rm(i.a[3]) \cup Rn(i.a[2]) \cup Rd(i.a[1])
FitsElement(n, m) == IsScalar(m) /\ m.size = LaneSize(n) /\ m.size \in {16, 32} /\ (m.size = 16 => m.n < 16)

NEONByElementOps ==
  [mul |-> <<\hF00, \h8000>>, mla |-> <<\h2F00, \h0>>, mls |-> <<\h2F00, \h4000>>,
   sqdmulh |-> <<\hF00, \hC000>>, sqrdmulh |-> <<\hF00, \hD000>>]
NEONByElementLOps ==
  [sqdmull |-> <<\hF00, \hB000>>, sqdmlal |-> <<\hF00, \h3000>>, sqdmlsl |-> <<\hF00, \h7000>>,
   smull |-> <<\hF00, \hA000>>, umull |-> <<\h2F00, \hA000>>, smlal |-> <<\hF00, \h2000>>,
   umlal |-> <<\h2F00, \h2000>>, smlsl |-> <<\hF00, \h6000>>, umlsl |-> <<\h2F00, \h6000>>]
NEONFPByElementOps ==
  [fmul |-> <<\hF80, \h9000>>, fmla |-> <<\hF80, \h1000>>, fmls |-> <<\hF80, \h5000>>,
   fmulx |-> <<\h2F80, \h9000>>]
NEONByElement(i) ==
  Format(i.a[2]) \cup Op(NEONByElementOps[i.op]) \cup Element(i)
    \cup Require(AreSameFormat(i.a[1], i.a[2]) /\ FitsElement(i.a[2], i.a[3])
                   /\ (i.op \in {"mul", "mla", "mls"} => IsVector(i.a[2])))
NEONByElementL(i) ==
  Format(i.a[2]) \cup Op(NEONByElementLOps[i.op]) \cup Element(i)
    \cup Require(Narrows(i.a[2], i.a[1], i.op \in {"sqdmull", "sqdmlal", "sqdmlsl"}) /\ FitsElement(i.a[2], i.a[3]))
NEONFPByElement(i) ==
  FPFormat(i.a[1]) \cup QOrScalar(i.a[1]) \cup Op(NEONFPByElementOps[i.op]) \cup Element(i)
    \cup Require(AreSameFormat(i.a[1], i.a[2]) /\ IsScalar(i.a[3]) /\ i.a[3].size = LaneSize(i.a[1]))

-----------------------------------------------------------------------------
\* Copies of elements: the lowest bit of the five is the width of the lane.

\* The index has its bit above it.
ImmNEON5(lane, index) == At((2 * index + 1) * (lane \div 8), 16) \cup Require(index \in 0..15)

\* Neither the index nor the lanes of the result are looked at.
DupElement(i) ==
  QOrScalar(i.a[1]) \cup Op(<<\hE00, \h400>>) \cup ImmNEON5(LaneSize(i.a[2]), i.a[3]) \cup Rn(i.a[2]) \cup Rd(i.a[1])
    \cup Require(LaneSize(i.a[2]) <= 64 /\ (i.op = "mov" => IsScalar(i.a[1])))
DupGeneral(i) ==
  Q(i.a[1]) \cup Op(<<\hE00, \hC00>>) \cup ImmNEON5(LaneSize(i.a[1]), 0) \cup Rn(i.a[2]) \cup Rd(i.a[1])
    \cup Require(IsVector(i.a[1]) /\ (LaneSize(i.a[1]) = 64 <=> Is64(i.a[2])))

\* A lane of 64 bits is asserted not to be: only a whole register passes for one.
InsGeneral(i) ==
  LET lane == IF LaneSize(i.a[1]) <= 32 THEN LaneSize(i.a[1]) ELSE 64
  IN Op(<<\h4E00, \h1C00>>) \cup ImmNEON5(lane, i.a[2]) \cup Rn(i.a[3]) \cup Rd(i.a[1])
       \cup Require(LaneSize(i.a[1]) # 64 /\ (lane = 64 <=> Is64(i.a[3])) /\ i.a[2] \in 0..(128 \div lane - 1))

\* smov, umov and mov from a lane to a general register.
FromLane(i, op) ==
  (IF Is64(i.a[1]) THEN {30} ELSE {}) \cup Op(op) \cup ImmNEON5(LaneSize(i.a[2]), i.a[3]) \cup Rn(i.a[2]) \cup Rd(i.a[1])
    \cup Require(i.a[3] \in 0..(128 \div LaneSize(i.a[2]) - 1))
SMov(i) ==
  FromLane(i, <<\hE00, \h2C00>>)
    \cup Require(LaneSize(i.a[2]) \in (IF Is64(i.a[1]) THEN {8, 16, 32} ELSE {8, 16}))
UMov(i) ==
  FromLane(i, <<\hE00, \h3C00>>)
    \cup Require(LaneSize(i.a[2]) <= 64 /\ (Is64(i.a[1]) <=> LaneSize(i.a[2]) = 64)
                   /\ (i.op = "mov" => i.a[2].size >= 32))

-----------------------------------------------------------------------------
\* Tables, permutations and immediates.

\* The table is in consecutive registers, one behind the other.
NEONTableOps == [tbl |-> 0, tbx |-> 1]
AreConsecutive(vs) == \A j \in 2..Len(vs) : vs[j].n = (vs[j - 1].n + 1) % 32
Table(i) ==
  LET vs == i.a[2]
  IN Op(<<\hE00, 0>>) \cup At(Len(vs) - 1, 13) \cup At(NEONTableOps[i.op], 12) \cup Q(i.a[1]) \cup Rm(i.a[3])
       \cup Rn(vs[1]) \cup Rd(i.a[1])
       \cup Require(AreConsecutive(vs) /\ (\A v \in ToSet(vs) : IsQ(v) /\ Bytewise(v)))
       \cup Require(Bytewise(i.a[1]) /\ AreSameFormat(i.a[1], i.a[3]))

NEONPermOps ==
  [trn1 |-> <<\hE00, \h2800>>, trn2 |-> <<\hE00, \h6800>>, uzp1 |-> <<\hE00, \h1800>>,
   uzp2 |-> <<\hE00, \h5800>>, zip1 |-> <<\hE00, \h3800>>, zip2 |-> <<\hE00, \h7800>>]
NEONPerm(i) == VFormat(i.a[1]) \cup Op(NEONPermOps[i.op]) \cup Three(i)
Ext(i) ==
  VFormat(i.a[1]) \cup Op(<<\h2E00, 0>>) \cup At(i.a[4], 11) \cup Three(i)
    \cup Require(Bytewise(i.a[1]) /\ i.a[4] \in 0..(i.a[1].lanes - 1))

\* The eight bits of an immediate are in two fields, cmode says what becomes of them.
ImmNEONabcdefgh(bits) == {IF b = Refused THEN Refused ELSE IF b >= 5 THEN b + 11 ELSE b + 5 : b \in bits}
Imm8(v) == ImmNEONabcdefgh(Unsigned(v, 8, 0))
NEONCmode(c) == At(c, 12)
ModifiedImmediateOps ==
  [bic |-> <<\h2F00, \h1400>>, orr |-> <<\hF00, \h1400>>, movi |-> <<\hF00, \h400>>, mvni |-> <<\h2F00, \h400>>]

\* Mutant: half words shift as words do.
NEONModifiedImmShiftLsl_Words(i) ==
  Q(i.a[1]) \cup Op(ModifiedImmediateOps[i.op]) \cup Imm8(i.a[2]) \cup Rd(i.a[1])
    \cup NEONCmode(IF Bytewise(i.a[1]) THEN 14 ELSE i.a[3] \div 4)

\* Bytes do not shift, whatever the number is.
NEONModifiedImmShiftLsl(i) ==
  LET vd == i.a[1]  lane == LaneSize(vd)  shift == i.a[3]
  IN Q(vd) \cup Op(ModifiedImmediateOps[i.op]) \cup Imm8(i.a[2]) \cup Rd(vd)
       \cup NEONCmode(CASE lane = 8 -> 14 [] lane = 16 -> 8 + shift \div 4 [] OTHER -> shift \div 4)
       \cup Require(IsVector(vd) /\ lane # 64 /\ shift \in {0, 8, 16, 24})
       \cup Require((lane = 8 => i.op = "movi") /\ (lane = 16 => shift \in {0, 8}))
NEONModifiedImmShiftMsl(i) ==
  Q(i.a[1]) \cup Op(ModifiedImmediateOps[i.op]) \cup Imm8(i.a[2]) \cup Rd(i.a[1])
    \cup NEONCmode(IF i.a[3] = 16 THEN 13 ELSE 12)
    \cup Require(IsVector(i.a[1]) /\ LaneSize(i.a[1]) = 32 /\ i.a[3] \in {8, 16})

\* movi of doubles: all bits of a byte are one of the eight.
MoviBytes(i) ==
  LET ones == {n \in 0..7 : 8 * n \in i.a[2].bits}
  IN Q(i.a[1]) \cup {29} \cup Op(ModifiedImmediateOps["movi"]) \cup ImmNEONabcdefgh(ones) \cup NEONCmode(14) \cup Rd(i.a[1])
       \cup Require(LaneSize(i.a[1]) = 64 /\ i.a[2].bits = {b \in 0..63 : b \div 8 \in ones})

\* fmov of an immediate to all lanes.
FMovVector(i) ==
  Q(i.a[1]) \cup (IF LaneSize(i.a[1]) = 64 THEN {29} ELSE {}) \cup Op(ModifiedImmediateOps["movi"])
    \cup ImmNEONabcdefgh(FPToImm8(i.a[2].bits)) \cup NEONCmode(15) \cup Rd(i.a[1])
    \cup Require(IsVector(i.a[1]) /\ IsFPFormat(i.a[1]))

-----------------------------------------------------------------------------
\* One word: the form names the methods that share an encoding.
EmitVector(i) ==
  CASE i.form = "NEON3Same" -> NEON3Same(i)
    [] i.form = "NEONFP3Same" -> NEONFP3Same(i)
    [] i.form = "NEONFP2RegMisc" -> NEONFP2RegMisc(i)
    [] i.form = "NEONFPZero" -> NEONFPZero(i)
    [] i.form = "NEONFPConvertToInt" -> NEONFPConvertToInt(i)
    [] i.form = "NEON2RegMisc" -> NEON2RegMisc(i)
    [] i.form = "CountAndReverse" -> CountAndReverse(i)
    [] i.form = "MoveVector" -> MoveVector(i)
    [] i.form = "NEON3DifferentL" -> NEON3DifferentL(i)
    [] i.form = "NEON3DifferentW" -> NEON3DifferentW(i)
    [] i.form = "NEON3DifferentHN" -> NEON3DifferentHN(i)
    [] i.form = "NEONXtn" -> NEONXtn(i)
    [] i.form = "NEONAddlp" -> NEONAddlp(i)
    [] i.form = "ConvertWidth" -> ConvertWidth(i)
    [] i.form = "NEONAcrossLanes" -> NEONAcrossLanes(i)
    [] i.form = "ScalarPairwise" -> ScalarPairwise(i)
    [] i.form = "ShiftLeft" -> ShiftLeft(i)
    [] i.form = "ShiftRight" -> ShiftRight(i)
    [] i.form = "ShiftLong" -> ShiftLong(i)
    [] i.form = "ExtendLong" -> ExtendLong(i)
    [] i.form = "ShiftByLane" -> ShiftByLane(i)
    [] i.form = "ShiftNarrow" -> ShiftNarrow(i)
    [] i.form = "NEONByElement" -> NEONByElement(i)
    [] i.form = "NEONByElementL" -> NEONByElementL(i)
    [] i.form = "NEONFPByElement" -> NEONFPByElement(i)
    [] i.form = "DupElement" -> DupElement(i)
    [] i.form = "DupGeneral" -> DupGeneral(i)
    [] i.form = "InsGeneral" -> InsGeneral(i)
    [] i.form = "SMov" -> SMov(i)
    [] i.form = "UMov" -> UMov(i)
    [] i.form = "Table" -> Table(i)
    [] i.form = "NEONPerm" -> NEONPerm(i)
    [] i.form = "Ext" -> Ext(i)
    [] i.form = "NEONModifiedImmShiftLsl" -> NEONModifiedImmShiftLsl(i)
    [] i.form = "NEONModifiedImmShiftMsl" -> NEONModifiedImmShiftMsl(i)
    [] i.form = "MoviBytes" -> MoviBytes(i)
    [] i.form = "FMovVector" -> FMovVector(i)
=============================================================================
