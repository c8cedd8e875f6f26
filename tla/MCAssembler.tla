----------------------------- MODULE MCAssembler -----------------------------
(* Samples for the x64 assembler: every method with every pair of registers,  *)
(* every shape of a memory operand, and lists of jumps to one label.          *)
EXTENDS X64Assembler

Cpu == INSTANCE X64Processor

Absent == [k |-> "none"]
Imm(v) == [k |-> "imm", v |-> v]
Imm8(v) == [k |-> "imm8", v |-> v]
Imm64(v) == [k |-> "imm64", v |-> v]
Cl == [k |-> "cl"]

Make(group, name, size, a, b, c) ==
  [group |-> group, name |-> name, size |-> size, cc |-> None, type |-> "",
   near |-> FALSE, a |-> a, b |-> b, c |-> c]
One(group, name, size, a) == Make(group, name, size, a, Absent, Absent)
Two(group, name, size, a, b) == Make(group, name, size, a, b, Absent)

Regs == {Reg(n) : n \in 0..15}
Few == {Reg(n) : n \in {0, 3, 4, 5, 9, 12}}
Xmms == {Xmm(n) : n \in {0, 4, 5, 9, 12}}
Disps == {0, 8, -128, 127, 128, -129, 100000, -100000}

\* Shapes of operands; rsp is no index.
AllMems(bases) ==
  {Mem(b, None, 0, d) : b \in bases \cup {Rip}, d \in Disps}
    \cup {Mem(b, x, s, d) : b \in {None, 0, 4, 5, 9, 12, 13}, x \in bases \ {4}, s \in 0..3, d \in {0, 127, 128}}
Mems == {Mem(3, None, 0, 0), Mem(12, None, 0, 8), Mem(5, 9, 3, 300), Mem(Rip, None, 0, 5), Mem(None, 2, 1, -4)}
Imms == {0, 1, -1, 127, -128, 128, -129, 300, 70000, -70000}

Sized(group, name, sizes, as, bs) ==
  {Two(group, name, s, a, b) : s \in sizes, a \in as, b \in bs}

Moves(mems) ==
  Sized("mov", "mov", {1, 2, 4, 8}, Regs, Regs)
    \cup Sized("mov", "mov", {1, 2, 4, 8}, Regs, mems) \cup Sized("mov", "mov", {1, 2, 4, 8}, mems, Regs)
    \cup {Two("mov", "mov", s, a, Imm(v)) : s \in {4, 8}, a \in Few \cup mems, v \in Imms}
    \cup {Two("mov", "mov", s, a, Imm(v)) : s \in {1, 2}, a \in Regs \cup mems, v \in {0, 7, -128, 127}}
    \cup {Two("mov", "mov", 8, a, Imm64(v)) : a \in Regs, v \in Imms}
    \cup {Two("extend", n, 4, a, b) : n \in {"movzxb", "movsxb"}, a \in Regs, b \in {Reg(n) : n \in 0..3} \cup mems}
    \cup {Two("extend", n, 4, a, b) : n \in {"movzxw", "movsxw"}, a \in Regs, b \in Few \cup mems}
    \cup Sized("extend", "movsxd", {8}, Regs, Few \cup mems)
    \cup {Two("stack", "lea", 8, a, m) : a \in {Reg(1), Reg(12)}, m \in AllMems(0..15)}
    \cup {One("stack", n, 8, a) : n \in {"push", "pop"}, a \in Regs \cup mems}
    \cup {One("stack", "push", 8, Imm(v)) : v \in Imms}

Integers(mems) ==
  UNION {Sized("arith", n, {1, 2, 4, 8}, Regs, Few) \cup Sized("arith", n, {1, 2, 4, 8}, Few, mems)
           \cup Sized("arith", n, {1, 2, 4, 8}, mems, Few)
           \cup {Two("arith", n, s, a, Imm(v)) : s \in {1, 2, 4, 8}, a \in Few \cup mems, v \in Imms} :
         n \in DOMAIN ArithOps}
    \cup Sized("test", "test", {4, 8}, Regs, Regs) \cup Sized("test", "test", {4, 8}, mems, Few)
    \cup {Two("test", "test", s, a, Imm(v)) : s \in {4, 8}, a \in Few \cup mems, v \in Imms}
    \cup {One(g, n, s, a) : <<g, n>> \in {<<"negate", "neg">>, <<"negate", "not">>, <<"muldiv", "mul">>,
                                          <<"muldiv", "div">>, <<"muldiv", "idiv">>, <<"muldiv", "imul">>},
                            s \in {1, 2, 4, 8}, a \in Regs \cup mems}
    \cup Sized("muldiv", "imul", {2, 4, 8}, Regs, Few \cup mems)
    \cup {Make("muldiv", "imul", s, a, b, c) : s \in {4, 8}, a \in Few, b \in Few \cup mems,
                                               c \in {Imm8(-3), Imm8(127), Imm(300), Imm(-3)}}
    \cup {One("incdec", n, s, a) : n \in {"inc", "dec"}, s \in {4, 8}, a \in Regs \cup mems}
    \cup {Make("shift", n, s, a, Absent, c) : n \in DOMAIN Shifts, s \in {1, 2, 4, 8}, a \in Regs,
                                              c \in {Cl, Imm(1), Imm(2), Imm(31)}}
    \cup {[Two("cmov", "cmov", s, a, b) EXCEPT !.cc = cc] : s \in {4, 8}, a \in Few, b \in Few \cup mems, cc \in {0, 15}}
    \cup {[One("set", "set", 1, a) EXCEPT !.cc = cc] : a \in Regs \cup mems, cc \in 0..15}

Floats(mems) ==
  UNION {Sized("movesse", n, {4}, Xmms, Xmms \cup mems) \cup Sized("movesse", n, {4}, mems, Xmms) :
         n \in DOMAIN MovesSSE}
    \cup UNION {Sized("flags", n, {4}, Xmms, Xmms \cup mems) : n \in DOMAIN Flags}
    \cup {[Two("arithsse", n, 4, a, b) EXCEPT !.type = t] :
            n \in DOMAIN ArithSSEOps, a \in Xmms, b \in Xmms \cup mems, t \in {"ss", "ps", "sd", "pd"}}
    \cup {Make("cmpsse", n, 4, a, b, Imm(3)) : n \in DOMAIN Compares, a \in Xmms, b \in Xmms \cup mems}
    \cup {Make("pcmp", n, 4, a, b, Imm(12)) : n \in DOMAIN StringCompares, a \in Xmms, b \in Xmms \cup mems}
    \cup UNION {CASE Converts[n][1] = "x_x" -> Sized("convert", n, {4}, Xmms, Xmms \cup mems)
                  [] Converts[n][1] = "x_r" -> Sized("convert", n, {4, 8}, Few, Xmms \cup mems)
                  [] OTHER -> Sized("convert", n, {4, 8}, Xmms, Few \cup mems) : n \in DOMAIN Converts}

Others(mems) ==
  {One("indirect", n, 8, a) : n \in {"call", "jmp"}, a \in Regs \cup mems}
    \cup {One("ret", "ret", 4, Imm(v)) : v \in {0, 8, 16, 300}}
    \cup {One("fixed", n, 4, Absent) : n \in DOMAIN Fences \cup {"cpuid", "int3"}}
    \cup {One("fixed", "rdrand", s, a) : s \in {4, 8}, a \in Regs}
    \cup {One("stack", n, 4, Absent) : n \in {"pushf", "popf"}}
    \cup {One("nop", "nop", 4, Imm(n)) : n \in 1..9}

-----------------------------------------------------------------------------
\* Jumps to the label, and what stands between them.
If(cc, near) == [One("label", "j", 4, Absent) EXCEPT !.near = near, !.cc = cc]
Jumps == {[One("label", "jmp", 4, Absent) EXCEPT !.near = n] : n \in BOOLEAN}
           \cup {If(4, n) : n \in BOOLEAN} \cup {One("label", "call", 4, Absent)}
Conditions == {If(cc, TRUE) : cc \in {9, 16, 17}}     \* 16 always, 17 never
OnRcx == {If(18, n) : n \in BOOLEAN}
BindLabel == <<One("label", "bind", 4, Absent)>>
Nops(n) == [i \in 1..(n \div 9) |-> One("nop", "nop", 4, Imm(9))]
             \o (IF n % 9 = 0 THEN <<>> ELSE <<One("nop", "nop", 4, Imm(n % 9))>>)

Lists(jumps) ==
  {IF bind = 0 THEN BindLabel \o <<a>> \o Nops(m) \o <<b>> \o Nops(n) \o <<c>>
   ELSE IF bind = 1 THEN <<a>> \o Nops(m) \o BindLabel \o <<b>> \o Nops(n) \o <<c>>
   ELSE IF bind = 2 THEN <<a>> \o Nops(m) \o <<b>> \o Nops(n) \o BindLabel \o <<c>>
   ELSE <<a>> \o Nops(m) \o <<b>> \o Nops(n) \o <<c>> \o BindLabel :
     a, b, c \in jumps, m \in {0, 127, 128}, n \in {0, 124}, bind \in 0..3}

Samples(mems, jumps) ==
  {<<i>> : i \in Moves(mems) \cup Integers(mems) \cup Floats(mems) \cup Others(mems)}
    \cup Lists(jumps) \cup Lists(Conditions) \cup Lists(OnRcx)

-----------------------------------------------------------------------------
\* What the processor must read: the operands in order, the names of the manual.
Shown(x) == IF x.k \in {"imm8", "imm64"} THEN Imm(x.v) ELSE x
Name(i) == CASE i.name = "sal" -> "shl" [] i.cc = 16 -> "jmp" [] OTHER -> i.name \o i.type
Meant(i, target) ==
  [name |-> Name(i), cc |-> IF i.cc = 16 THEN None ELSE i.cc, size |-> i.size,
   ops |-> IF i.group = "label" THEN <<[k |-> "target", at |-> target]>>
           ELSE IF i.group = "nop" THEN <<>>
           ELSE LET all == SelectSeq(<<i.a, i.b, i.c>>, LAMBDA x : x.k # "none")
                IN  [n \in DOMAIN all |-> Shown(all[n])]]

\* test is symmetric, and the operand size of a nop says nothing.
Same(d, m) ==
  /\ d.name = m.name /\ d.cc = m.cc
  /\ d.size = m.size \/ m.name = "nop"
  /\ d.ops = m.ops \/ (m.name = "test" /\ d.ops = <<m.ops[2], m.ops[1]>>)

\* What the assembler gets wrong, method by method: bytes of rsp to rdi
\* without a REX prefix are those of rax to rdx; Flip for registers; the
\* assertion in front of it; immediates of bytes and words; and single slips.
Misencoded(i) ==
  LET regs == i.a.k = "reg" /\ i.b.k = "reg"
      high == \E x \in {i.a, i.b} : x.k = "reg" /\ x.n \in 4..7
      bare == i.size = 1 /\ Emit(i) # <<>> /\ Emit(i)[1] \notin \h40..\h4F
  IN  CASE high /\ bare -> TRUE
        [] i.group = "arith" ->
             \/ regs /\ (Lo(i.b.n) = 4 \/ i.size = 2 \/ (i.size = 1 /\ i.name \in {"add", "sub"}))
             \/ i.b.k = "imm" /\ (i.size = 1 \/ (i.size = 2 /\ ~IsIntN(i.b.v, 8)))
             \/ i.name = "sub" /\ i.size = 1 /\ i.a.k = "mem"
        [] i.group = "mov" -> i.size = 1 /\ i.b.k = "mem" /\ i.a.n > 7
        [] i.group = "movesse" -> /\ i.name \in {"movaps", "movapd"} /\ i.a.k = "xmm" /\ i.b.k = "xmm"
                                  /\ Lo(i.b.n) = 4 /\ Hi(i.a.n) # Hi(i.b.n)
        [] i.group = "test" -> i.a.k = "mem" /\ i.b.k = "imm" /\ i.b.v \in 0..255
        [] i.group = "arithsse" -> i.name \in {"and", "or", "xor"} /\ i.type \in {"ss", "sd"}
        [] OTHER -> i.name = "cvtps2dq"

\* Where the label is bound, and whether some jump cannot be linked to it: a
\* short one does not reach, or is linked before a far one, or depends on rcx.
Target(list, s) == s.at[CHOOSE n \in DOMAIN list : list[n].name = "bind"]
Unlinkable(list) ==
  LET s == Assemble(list)
      forward == {n \in DOMAIN list : \E m \in DOMAIN list : n < m /\ list[m].name = "bind"}
      near == {n \in forward : list[n].group = "label" /\ list[n].near /\ list[n].cc # 17}
      far == {n \in forward : list[n].group = "label" /\ ~list[n].near}
  IN  \/ \E n \in DOMAIN list : list[n].cc = 18
      \/ \E n \in near : Target(list, s) - s.at[n] - 2 > 127
      \/ far # {} /\ \E n \in near : \A m \in far : n < m

ReadsBack(list, s) ==
  LET code == s.buf \o [n \in 1..12 |-> 0]
  IN  IF s.failed \/ Unlinkable(list) THEN s.failed /\ Unlinkable(list)
  ELSE \A n \in DOMAIN list :
         LET i == list[n]
             d == Cpu!Decode(code, s.at[n] + 1)
             end == IF n = Len(list) THEN Len(s.buf) ELSE s.at[n + 1]
         IN  IF i.name = "bind" \/ i.cc = 17 THEN end = s.at[n]
             ELSE Misencoded(i) \/
                  /\ Same(d, Meant(i, IF i.group = "label" THEN Target(list, s) + 1 ELSE 0))
                  /\ d.next = 1 + end
=============================================================================
