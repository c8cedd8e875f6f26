---------------------------- MODULE CodeGeneration ----------------------------
(***************************************************************************)
(* The back end on functions of one block, as far as it goes for x64 at    *)
(* this commit: InstructionSelector and X64PosixLower choose instructions  *)
(* over virtual registers, ZeroSlotAllocator gives every virtual register  *)
(* a slot of the frame and every instruction the registers it needs, and   *)
(* X64CodeGenerator prints what a machine then runs.  The machine is part  *)
(* of the model, to say what the code returns.                             *)
(*                                                                         *)
(* A function is [params, size, const, code, returns]: its parameters, the *)
(* size of every value (which is its alignment as well), the values that   *)
(* are constants, its instructions, and the sizes of what it returns.      *)
(* Structs in place, floating-point numbers and barriers are left out.     *)
(***************************************************************************)
EXTENDS Integers, Sequences, SequencesExt, TLC

\* The first of the argument registers, and as many allocatable ones.
Arguments == <<1, 0>>
Allocatable == {0, 1}

kStackAlignmentSize == 16
kCalleeReservedSize == 16

Up(n, a) == ((n + a - 1) \div a) * a

Sum(ns) == FoldLeft(+, 0, ns)

-----------------------------------------------------------------------------
(* Selection.  Operands are immediate, virtual registers with a policy, or *)
(* allocated: registers, and slots of a size at an offset from rbp.        *)

Imm(c) == [k |-> "imm", c |-> c]
Vr(v, policy) == [k |-> "vr", v |-> v, policy |-> policy, at |-> 0]
Fixed(v, r) == [Vr(v, "fixed") EXCEPT !.at = r]
Reg(r) == [k |-> "reg", r |-> r]
Slot(at, s) == [k |-> "slot", at |-> at, s |-> s]
Move(dest, src) == [dest |-> dest, src |-> src]

Instr(op, out, in, start) ==
  [op |-> op, out |-> out, in |-> in, start |-> start, end |-> <<>>,
   returning |-> 0, overflow |-> 0, f |-> 0]

OperandOf(F, v) == IF v \in DOMAIN F.const THEN Imm(F.const[v]) ELSE Vr(v, "any")

SizesOf(F, vs) == [i \in DOMAIN vs |-> F.size[vs[i]]]

Overflow(sizes) ==
  Sum(SubSeq(sizes, Len(Arguments) + 1, Len(sizes)))

\* How far the caller's area ends above the return values and parameters.
Padding(sizes, returns) ==
  LET used == Overflow(sizes) + Sum(returns) IN Up(used, kStackAlignmentSize) - used

\* Mutant: the parameters that overflow lie upwards.
VisitParameters_Upwards(F) ==
  LET sizes == SizesOf(F, F.params)
      base == kCalleeReservedSize + Padding(sizes, F.returns)
  IN  Instr("enter",
            [i \in DOMAIN F.params |->
               IF i <= Len(Arguments) THEN Fixed(F.params[i], Arguments[i])
               ELSE [Vr(F.params[i], "fixedslot")
                       EXCEPT !.at = base + Overflow(SubSeq(sizes, 1, i - 1))]],
            <<>>, <<>>)

VisitParameters(F) ==
  LET sizes == SizesOf(F, F.params)
      base == kCalleeReservedSize + Padding(sizes, F.returns) + Overflow(sizes)
  IN  Instr("enter",
            [i \in DOMAIN F.params |->
               IF i <= Len(Arguments) THEN Fixed(F.params[i], Arguments[i])
               ELSE [Vr(F.params[i], "fixedslot")
                       EXCEPT !.at = base - Overflow(SubSeq(sizes, 1, i))]],
            <<>>, <<>>)

VisitAddOrSub(F, i) ==
  <<Instr("add", <<Vr(i.out, "reg")>>, <<OperandOf(F, i.b)>>,
          <<Move(Vr(i.out, "reg"), OperandOf(F, i.a))>>)>>

VisitCallDirectly(F, i) ==
  LET opd(n) == IF n <= Len(Arguments) THEN Fixed(i.args[n], Arguments[n])
                ELSE Vr(i.args[n], "slot")
      constants == SelectSeq([n \in DOMAIN i.args |-> n],
                             LAMBDA n : i.args[n] \in DOMAIN F.const)
      moving == [c \in DOMAIN constants |->
                   Move(opd(constants[c]), Imm(F.const[i.args[constants[c]]]))]
      area(op) == [Instr(op, <<>>, <<>>, <<>>)
                     EXCEPT !.returning = Sum(SizesOf(F, i.outs)),
                            !.overflow = Overflow(SizesOf(F, i.args))]
  IN  <<area("before"),
        [Instr("call", [n \in DOMAIN i.outs |-> Vr(i.outs[n], "slot")],
               [n \in DOMAIN i.args |-> opd(n)], moving)
           EXCEPT !.f = i.f, !.returning = Sum(SizesOf(F, i.outs)),
                  !.overflow = Overflow(SizesOf(F, i.args))],
        area("after")>>

VisitReturn(F, i) ==
  <<Instr("exit", <<>>, [n \in DOMAIN i.vals |-> OperandOf(F, i.vals[n])], <<>>)>>

BuildFunction(F) ==
  <<VisitParameters(F)>> \o
    FoldLeft(LAMBDA h, i : h \o CASE i.op = "add"  -> VisitAddOrSub(F, i)
                                  [] i.op = "call" -> VisitCallDirectly(F, i)
                                  [] i.op = "ret"  -> VisitReturn(F, i),
             <<>>, F.code)

-----------------------------------------------------------------------------
(* Allocation.  a.slot is virtual_allocated_, a.top is stack_top_; the rest *)
(* is the InstrScope: the free registers, what this instruction holds in    *)
(* registers, and the virtual registers it does not store.                  *)

\* Mutant: the top of the stack is rounded, not moved.
FreshSlot_Shared(a, F, v) ==
  LET top == Up(a.top + F.size[v], F.size[v]) IN [a EXCEPT !.slot = (v :> -top) @@ @]

FreshSlot(a, F, v) ==
  LET top == Up(a.top + F.size[v], F.size[v])
  IN  [a EXCEPT !.top = top, !.slot = (v :> -top) @@ @]

WithSlot(a, F, v) == IF v \in DOMAIN a.held \cup DOMAIN a.slot THEN a ELSE FreshSlot(a, F, v)

FindAllocated(a, F, v) ==
  IF v \in DOMAIN a.held THEN Reg(a.held[v]) ELSE Slot(a.slot[v], F.size[v])

\* insert: the first register of a virtual register stays the one found.
Hold(a, v, r) == [a EXCEPT !.held = @ @@ (v :> r)]

Register(a, u) ==
  IF u.policy = "fixed" THEN u.at ELSE CHOOSE r \in a.free : \A s \in a.free : r <= s

\* AllocateSlot: for an output, and for an input that has no slot yet.
AllocateSlot(a, F, u) ==
  LET r == Register(a, u)
      b == [a EXCEPT !.free = @ \ {r}]
      c == WithSlot(b, F, u.v)
      stored == [c EXCEPT !.end = Append(@, Move(FindAllocated(c, F, u.v), Reg(r)))]
  IN  CASE u.policy \in {"any", "slot"} ->
             LET d == WithSlot(a, F, u.v) IN [a |-> d, o |-> FindAllocated(d, F, u.v)]
        [] u.policy = "fixedslot" ->
             [a |-> [a EXCEPT !.slot = (u.v :> u.at) @@ @], o |-> Slot(u.at, F.size[u.v])]
        [] u.policy \in {"fixed", "reg"} ->
             [a |-> Hold(IF u.v \in a.ignore THEN b ELSE stored, u.v, r), o |-> Reg(r)]

\* ReallocatedSlot: for an input that has a slot.
ReallocatedSlot(a, F, u) ==
  LET slot == Slot(a.slot[u.v], F.size[u.v])
      r == Register(a, u)
      b == [a EXCEPT !.free = @ \ {r}, !.start = Append(@, Move(Reg(r), slot))]
  IN  CASE u.policy \in {"any", "slot"} -> [a |-> a, o |-> slot]
        [] u.policy = "fixed" -> [a |-> Hold(b, u.v, r), o |-> Reg(r)]
        [] u.policy = "reg" -> [a |-> b, o |-> Reg(r)]

Operands(a, F, opds, Give(_, _)) ==
  FoldLeft(LAMBDA h, u : IF u.k # "vr" THEN [h EXCEPT !.os = Append(@, u)]
                         ELSE LET g == Give(h.a, u) IN [a |-> g.a, os |-> Append(h.os, g.o)],
           [a |-> a, os |-> <<>>], opds)

\* The operands of the moves an instruction has already, in their order.
Resolve(a, F, moves) ==
  LET any(b, u) == LET c == WithSlot(b, F, u.v) IN [a |-> c, o |-> FindAllocated(c, F, u.v)]
  IN  FoldLeft(LAMBDA h, m :
                 LET g == Operands(h.a, F, <<m.src, m.dest>>, any)
                 IN  [a |-> g.a, ms |-> Append(h.ms, Move(g.os[2], g.os[1]))],
               [a |-> a, ms |-> <<>>], moves)

VisitInstruction(a, F, i) ==
  LET scope == [a EXCEPT !.free = Allocatable, !.held = <<>>, !.ignore = {},
                         !.start = i.start, !.end = <<>>]
      outs == Operands(scope, F, i.out, LAMBDA b, u : AllocateSlot(b, F, u))
      ignore == {m.dest.v : m \in {n \in ToSet(i.start) :
                   n.dest.policy \in {"reg", "fixed"} /\ n.src.k = "imm"}}
      ins == Operands([outs.a EXCEPT !.ignore = ignore], F, i.in,
                      LAMBDA b, u : IF u.v \in DOMAIN b.slot THEN ReallocatedSlot(b, F, u)
                                    ELSE AllocateSlot(b, F, u))
      start == Resolve(ins.a, F, ins.a.start)
      end == Resolve(start.a, F, start.a.end)
  IN  [end.a EXCEPT
         !.code = Append(@, [i EXCEPT !.out = outs.os, !.in = ins.os,
                                      !.start = start.ms, !.end = end.ms])]

\* Mutant: the first return value is the lowest.
AddReturningForFrameExit_Upwards(F, i) ==
  LET base == kCalleeReservedSize + Padding(SizesOf(F, F.params), F.returns)
                + Overflow(SizesOf(F, F.params))
  IN  [i EXCEPT !.start = @ \o [k \in DOMAIN F.returns |->
         Move(Slot(base + Sum(SubSeq(F.returns, 1, k - 1)), F.returns[k]), i.in[k])]]

\* The moves of the return values into the caller's area, the last one lowest.
AddReturningForFrameExit(F, i) ==
  LET base == kCalleeReservedSize + Padding(SizesOf(F, F.params), F.returns)
                + Overflow(SizesOf(F, F.params))
      n == Len(F.returns)
      at(k) == base + Sum(SubSeq(F.returns, k + 1, n))
  IN  [i EXCEPT !.start = @ \o [k \in 1..n |->
         Move(Slot(at(n + 1 - k), F.returns[n + 1 - k]), i.in[n + 1 - k])]]

Visit(a, F, i) ==
  LET aligned == [a EXCEPT !.top = Up(@, kStackAlignmentSize)]
      used == i.returning + i.overflow
      b == VisitInstruction(IF i.op = "call" THEN aligned ELSE a, F, i)
  IN  CASE i.op = "before" -> [b EXCEPT !.tops = Append(@, a.top)]
        [] i.op = "call" -> [b EXCEPT !.top = @ + Up(used, kStackAlignmentSize) - used]
        [] i.op = "exit" -> [b EXCEPT !.code[Len(b.code)] = AddReturningForFrameExit(F, @)]
        [] OTHER -> b

\* The guard is always true: it makes TLC evaluate a before it visits i.
VisitBlock(F) ==
  FoldLeft(LAMBDA a, i : IF a.top >= 0 THEN Visit(a, F, i) ELSE a,
           [top |-> 0, slot |-> <<>>, code |-> <<>>, tops |-> <<>>, free |-> {}, held |-> <<>>,
            ignore |-> {}, start |-> <<>>, end |-> <<>>],
           BuildFunction(F))

\* ProcessFrame: the size of the frame, and how far every call lifts rsp.
Allocated(F) ==
  LET a == VisitBlock(F)
      frame == Up(a.top, kStackAlignmentSize)
      adjust(n) ==
        LET i == SelectSeq(a.code, LAMBDA c : c.op = "before")[n]
        IN  frame - Up(a.tops[n] + i.returning + i.overflow, kStackAlignmentSize)
  IN  [code |-> a.code, frame |-> frame, tops |-> a.tops,
       adjust |-> [n \in DOMAIN a.tops |-> adjust(n)]]

-----------------------------------------------------------------------------
(* The machine.  Memory holds values of a size at addresses; what is read   *)
(* must have been written there with that size.                             *)

Garbage == -1000

Load(m, at, s) == IF at \in DOMAIN m.mem /\ m.mem[at].s = s THEN m.mem[at].v ELSE Garbage

Store(m, at, s, v) ==
  LET kept == {c \in DOMAIN m.mem : c + m.mem[c].s <= at \/ at + s <= c}
  IN  [m EXCEPT !.mem = (at :> [s |-> s, v |-> v]) @@ [c \in kept |-> @[c]]]

Get(m, o) ==
  CASE o.k = "imm" -> o.c
    [] o.k = "reg" -> m.reg[o.r]
    [] o.k = "slot" -> Load(m, m.rbp + o.at, o.s)

Put(m, o, v) ==
  IF o.k = "reg" THEN [m EXCEPT !.reg[o.r] = v] ELSE Store(m, m.rbp + o.at, o.s, v)

\* EmitParallelMove: the moves one after the other.
Moves(m, ms) == FoldLeft(LAMBDA h, p : Put(h, p.dest, Get(h, p.src)), m, ms)

Push(m, v) == Store([m EXCEPT !.rsp = @ - 8], m.rsp - 8, 8, v)

RECURSIVE Call(_, _, _)
\* Emit: what every instruction does.  m.n counts the calls of the function.
Emit(G, f, m, i) ==
  LET lift == G[f].adjust[m.n]
  IN  CASE i.op = "enter" ->
             LET p == Push(m, m.rbp) IN [p EXCEPT !.rbp = p.rsp, !.rsp = @ - G[f].frame]
        [] i.op = "add" -> Put(m, i.out[1], Get(m, i.out[1]) + Get(m, i.in[1]))
        [] i.op = "before" ->
             LET n == [m EXCEPT !.n = @ + 1]
                 up == G[f].adjust[n.n]
             IN  IF up > 0 THEN [n EXCEPT !.rsp = @ + up] ELSE n
        [] i.op = "after" -> IF lift > 0 THEN [m EXCEPT !.rsp = @ - lift] ELSE m
        [] i.op = "call" -> [Call(G, i.f, m) EXCEPT !.n = m.n]
        [] i.op = "exit" ->
             LET p == [m EXCEPT !.rsp = @ + G[f].frame]
             IN  [p EXCEPT !.rbp = Load(p, p.rsp, 8), !.rsp = @ + 8]

\* Nothing that is known happens after a return to nowhere.
Run(G, f, m) ==
  FoldLeft(LAMBDA h, i : IF h.returned THEN Moves(Emit(G, f, Moves(h, i.start), i), i.end) ELSE h,
           m, G[f].code)

\* callq and retq: the return address must be the one that was pushed.
Call(G, f, m) ==
  LET r == Run(G, f, [Push(m, Garbage - f) EXCEPT !.n = 0])
  IN  [r EXCEPT !.rsp = @ + 8, !.returned = @ /\ Load(r, r.rsp, 8) = Garbage - f]

Machine == [mem |-> <<>>, reg |-> [r \in Allocatable |-> Garbage],
            rsp |-> 0, rbp |-> 0, n |-> 0, returned |-> TRUE]

\* What the first function of a program leaves in the area of its caller.
Executed(P) ==
  LET F == P[1]
      G == FoldLeft(LAMBDA h, f : Append(h, Allocated(f)), <<>>, P)
      m == Call(G, 1, Machine)
      at(k) == Padding(<<>>, F.returns) + Sum(SubSeq(F.returns, k + 1, Len(F.returns)))
  IN  [returns |-> [k \in DOMAIN F.returns |-> Load(m, at(k), F.returns[k])],
       balanced |-> m.returned /\ m.rsp = 0 /\ m.rbp = 0]

-----------------------------------------------------------------------------
(* What the functions mean.                                                *)

RECURSIVE Meaning(_, _, _)
Meaning(P, f, args) ==
  LET F == P[f]
      Perform(env, i) ==
        CASE i.op = "add" -> (i.out :> env[i.a] + env[i.b]) @@ env
          [] i.op = "ret" -> ("ret" :> [n \in DOMAIN i.vals |-> env[i.vals[n]]]) @@ env
          [] i.op = "call" ->
               LET r == Meaning(P, i.f, [n \in DOMAIN i.args |-> env[i.args[n]]])
               IN  [v \in ToSet(i.outs) |->
                      r[CHOOSE n \in DOMAIN r : i.outs[n] = v]] @@ env
      params == [v \in ToSet(F.params) |-> args[CHOOSE n \in DOMAIN args : F.params[n] = v]]
  IN  FoldLeft(Perform, params @@ F.const, F.code)["ret"]
=============================================================================
