--------------------------- MODULE SsaConstruction ---------------------------
(***************************************************************************)
(* How the intermediate code of a function body is made: the statements    *)
(* that branch and assign in ir/codegen.cc, the scopes of ir/scope.cc that *)
(* remember which value a variable has on which path, and the phi nodes    *)
(* that join the paths (ir/node.cc).                                       *)
(*                                                                         *)
(* A statement is a record: assign [k, x, e], if [k, c, then, else], loop  *)
(* [k, c, body] (while), foreach [k, x, lo, hi, close, body] and when      *)
(* [k, e, cases, else]; bodies are sequences, an absent else is NoElse.    *)
(* An expression is a constant, a variable, a sum or a comparison.         *)
(*                                                                         *)
(* The generator's state g is threaded through the visitors:               *)
(*   val    the values made so far, g.val[v] = [op, in, out]               *)
(*   code   the instructions of each block;  order: the block list         *)
(*   users  phi_node_users_ of each block: <<phi, dest>>                   *)
(*   b      the current block;  scopes: the scope stack, innermost last    *)
(* A symbol is [v, blk, owns]: the value, the block that put it, the scope *)
(* (its depth) it was declared in.                                         *)
(***************************************************************************)
EXTENDS Integers, Sequences, SequencesExt, FiniteSets

NoElse == <<[k |-> "none"]>>

\* The names a function body uses, in the order of std::set<string_view>.
Names == <<"i", "x", "y">>

Scope(kind) == [kind |-> kind, syms |-> <<>>, conf |-> <<>>, brs |-> <<>>]

\* GenerateFun: an entry block and the function's scope.
Empty == [val |-> <<>>, code |-> << <<>> >>, order |-> <<1>>, users |-> << <<>> >>,
          b |-> 1, scopes |-> <<Scope("function")>>]

Push(g, kind) == [g EXCEPT !.scopes = Append(@, Scope(kind))]

Pop(g) == [g EXCEPT !.scopes = Front(@)]

\* A branch leaves its conflicts with its trunk, which owns the branches.
PopBranch(g) ==
  LET n == Len(g.scopes)
  IN  [g EXCEPT !.scopes = [Front(@) EXCEPT ![n - 1].brs = Append(@, g.scopes[n].conf)]]

NewBlock(g) == [g EXCEPT !.code = Append(@, <<>>), !.users = Append(@, <<>>),
                         !.order = Append(@, Len(g.code) + 1)]

MoveToLast(g, blk) == [g EXCEPT !.order = Append(SelectSeq(@, LAMBDA o : o # blk), blk)]

SetAndMakeLast(g, blk) == [MoveToLast(g, blk) EXCEPT !.b = blk]

\* Value::New: a value in no block, as constants are.
Detached(g, op, arg) == [g EXCEPT !.val = Append(@, [op |-> op, in |-> <<arg>>, out |-> <<>>])]

NewNode(g, op, in, out) ==
  [g EXCEPT !.val = Append(@, [op |-> op, in |-> in, out |-> out]),
            !.code[g.b] = Append(@, Len(g.val) + 1)]

Br(g, in, out) == NewNode(g, "br", in, out)

-----------------------------------------------------------------------------
(* Scopes.                                                                 *)

Max2(S) == CHOOSE m \in S : \A n \in S : n <= m

\* FindLocalSymbol up the stack, from the scope at depth d.
Depths(g, x, d) == {i \in 1..d : x \in DOMAIN g.scopes[i].syms}

FindSymbol(g, x) == g.scopes[Max2(Depths(g, x, Len(g.scopes)))].syms[x]

Upsert(items, it) ==
  IF \E i \in DOMAIN items : items[i].blk = it.blk
    THEN [i \in DOMAIN items |-> IF items[i].blk = it.blk THEN it ELSE items[i]]
    ELSE Append(items, it)

With(f, x, e) == [y \in DOMAIN f \cup {x} |-> IF y = x THEN e ELSE f[y]]

\* Mutant: the value the trunk had is not a path of its own.
PutSymbolAndRecordConflict_NoOrigin(g, j, x, sym) ==
  LET old == IF x \in DOMAIN g.scopes[j].conf THEN g.scopes[j].conf[x] ELSE <<>>
      items == Upsert(old, [v |-> sym.v, blk |-> sym.blk])
      recorded == IF Depths(g, x, j - 1) = {} THEN g
                  ELSE [g EXCEPT !.scopes[j].conf = With(@, x, items)]
  IN  [recorded EXCEPT !.scopes[j].syms = With(@, x, sym)]

\* The branch at depth j gets a value of its own for x; if an outer scope
\* has x, the branch's conflicts say so, the outer value first.
PutSymbolAndRecordConflict(g, j, x, sym) ==
  LET outer == Depths(g, x, j - 1)
      origin == g.scopes[Max2(outer)].syms[x]
      old == IF x \in DOMAIN g.scopes[j].conf THEN g.scopes[j].conf[x]
             ELSE <<[v |-> origin.v, blk |-> origin.blk]>>
      items == Upsert(old, [v |-> sym.v, blk |-> sym.blk])
      recorded == IF outer = {} THEN g ELSE [g EXCEPT !.scopes[j].conf = With(@, x, items)]
  IN  [recorded EXCEPT !.scopes[j].syms = With(@, x, sym)]

\* BranchScope::PutSymbol: the innermost branch takes it; outside of all
\* branches the scope that owns the symbol does.
PutSymbol(g, x, sym) ==
  LET branches == {i \in DOMAIN g.scopes : g.scopes[i].kind = "branch"}
  IN  IF branches = {}
        THEN [g EXCEPT !.scopes[sym.owns].syms = With(@, x, sym)]
        ELSE PutSymbolAndRecordConflict(g, Max2(branches), x, sym)

\* VisitVariableDeclaration: `var x = e`, e the value v.
Declare(g, x, v) == PutSymbol(g, x, [v |-> v, blk |-> g.b, owns |-> Len(g.scopes)])

\* VisitAssignment to a local variable.
Assign(g, x, v) == PutSymbol(g, x, [v |-> v, blk |-> g.b, owns |-> FindSymbol(g, x).owns])

\* The paths BranchScope::MergeConflicts hands to its callback for x.
Paths(g, x) ==
  LET brs == g.scopes[Len(g.scopes)].brs
      all == FlattenSeq([i \in DOMAIN brs |-> IF x \in DOMAIN brs[i] THEN brs[i][x] ELSE <<>>])
  IN  FoldSeq(LAMBDA it, acc : Upsert(acc, it), <<>>, all)

\* A phi of these paths in block blk; AddInstruction registers it with the
\* block of every path.
NewPhi(g, blk, paths) ==
  LET phi == Len(g.val) + 1
      n == NewNode([g EXCEPT !.b = blk], "phi", [i \in DOMAIN paths |-> paths[i].v],
                   [i \in DOMAIN paths |-> paths[i].blk])
      of(o) == SelectSeq(paths, LAMBDA p : p.blk = o)
  IN  [n EXCEPT !.b = g.b,
                !.users = [o \in DOMAIN @ |->
                             @[o] \o [i \in DOMAIN of(o) |-> <<phi, of(o)[i].v>>]]]

\* MergeConflicts with HandleMergeConflicts: one phi per name, in this block.
MergeConflicts(g) ==
  FoldLeft(LAMBDA s, x :
             IF Paths(s, x) = <<>> THEN s
             ELSE LET m == NewPhi(s, s.b, Paths(s, x)) IN Assign(m, x, Len(m.val)),
           g, Names)

\* MoveToFront
ToFront(g, blk) == [g EXCEPT !.code[blk] = <<Last(@)>> \o Front(@)]

\* HandleMergeConflictsV2: the phis go to the front of the loop's first
\* block; `updates` says which phi takes the place of which value.
MergeLoop(g, blk) ==
  FoldLeft(LAMBDA r, x :
             IF Paths(r.g, x) = <<>> THEN r
             ELSE LET m == ToFront(NewPhi(r.g, blk, Paths(r.g, x)), blk)
                  IN  [g |-> Assign(m, x, Len(m.val)),
                       updates |-> With(r.updates, FindSymbol(r.g, x).v, Len(m.val))],
           [g |-> g, updates |-> <<>>], Names)

\* Mutant: the block of the condition is left out.
ReplaceUsers_FromBody(g, updates, begin, end) ==
  LET at(blk) == CHOOSE i \in DOMAIN g.order : g.order[i] = blk
      range == {g.order[i] : i \in (at(begin) + 1)..at(end)}
      instrs == UNION {ToSet(g.code[o]) : o \in range} \ {updates[v] : v \in DOMAIN updates}
      new(v) == IF v \in DOMAIN updates THEN updates[v] ELSE v
  IN  [g EXCEPT !.val = [v \in DOMAIN @ |->
         IF v \in instrs THEN [@[v] EXCEPT !.in = [i \in DOMAIN @ |-> new(@[i])]] ELSE @[v]]]

\* Function::ReplaceUsers: in the blocks listed from begin to end, every
\* operand that is a key of updates.  phi_node_users_ keeps what it has.
ReplaceUsers(g, updates, begin, end) ==
  LET at(blk) == CHOOSE i \in DOMAIN g.order : g.order[i] = blk
      range == {g.order[i] : i \in at(begin)..at(end)}
      instrs == UNION {ToSet(g.code[o]) : o \in range} \ {updates[v] : v \in DOMAIN updates}
      new(v) == IF v \in DOMAIN updates THEN updates[v] ELSE v
  IN  [g EXCEPT !.val = [v \in DOMAIN @ |->
         IF v \in instrs THEN [@[v] EXCEPT !.in = [i \in DOMAIN @ |-> new(@[i])]] ELSE @[v]]]

CloseLoop(g, cond) ==
  LET m == MergeLoop(g, cond) IN ReplaceUsers(m.g, m.updates, cond, m.g.b)

-----------------------------------------------------------------------------
(* Visitors.  Reduce(g, e) leaves the value of e last in what it returns,  *)
(* as [g, v].                                                              *)

RECURSIVE Reduce(_, _)
Reduce(g, e) ==
  CASE e.k = "const" -> LET n == Detached(g, "const", e.c) IN [g |-> n, v |-> Len(n.val)]
    [] e.k = "var"   -> [g |-> g, v |-> FindSymbol(g, e.x).v]
    [] OTHER         -> LET l == Reduce(g, e.l)
                            r == Reduce(l.g, e.r)
                            n == NewNode(r.g, e.k, <<l.v, r.v>>, <<>>)
                        IN  [g |-> n, v |-> Len(n.val)]

RECURSIVE Body(_, _)

\* One branch of a trunk: its scope, its code from block blk on, the jump.
Branch(g, blk, body, exit) ==
  PopBranch(Br(Body([Push(g, "branch") EXCEPT !.b = blk], body), <<>>, <<exit>>))

VisitIfExpression(g, s) ==
  LET c == Reduce(Push(g, "trunk"), s.c)
      n == Len(c.g.code)
      then == n + 1
      else == n + 2
      exit == IF s.else = NoElse THEN else ELSE n + 3
      blocks == IF s.else = NoElse THEN NewBlock(NewBlock(c.g)) ELSE NewBlock(NewBlock(NewBlock(c.g)))
      taken == Branch(Br(blocks, <<c.v>>, <<then, else>>), then, s.then, exit)
      both == IF s.else = NoElse THEN taken ELSE Branch(taken, else, s.else, exit)
  IN  Pop(MergeConflicts(SetAndMakeLast(both, exit)))

\* Mutant: the test of a closed range is one too low.
Compare_Swapped(close) == IF close THEN "le" ELSE "lt"

\* kBetweenTo: the condition of a range that keeps its upper bound out.
Compare(close) == IF close THEN "lt" ELSE "le"

\* GenerateConditionLoop of a loop that tests first.
VisitWhileLoop(g, s) ==
  LET cond == Len(g.code) + 1
      loop == cond + 1
      exit == cond + 2
      c == Reduce([Br(NewBlock(Push(g, "trunk")), <<>>, <<cond>>) EXCEPT !.b = cond], s.c)
      test == Br(NewBlock(NewBlock(c.g)), <<c.v>>, <<loop, exit>>)
  IN  Pop(SetAndMakeLast(CloseLoop(Branch(test, loop, s.body, cond), cond), exit))

\* GenerateForeachRange: the step is added to the body's last block.
VisitForeachLoop(g, s) ==
  LET lo == Reduce(Push(g, "trunk"), s.lo)
      hi == Reduce(lo.g, s.hi)
      init == Declare(hi.g, s.x, lo.v)
      cond == Len(g.code) + 1
      loop == cond + 1
      exit == cond + 2
      head == [Br(NewBlock(NewBlock(NewBlock(init))), <<>>, <<cond>>) EXCEPT !.b = cond]
      c == NewNode(head, Compare(s.close), <<lo.v, hi.v>>, <<>>)
      test == Br(c, <<Len(c.val)>>, <<loop, exit>>)
      body == Body([Push(test, "branch") EXCEPT !.b = loop], s.body)
      one == Detached(body, "const", 1)
      step == NewNode(one, "add", <<lo.v, Len(one.val)>>, <<>>)
      iter == PutSymbol(step, s.x, [v |-> Len(step.val), blk |-> step.b, owns |-> Len(init.scopes)])
      closed == CloseLoop(PopBranch(Br(iter, <<>>, <<cond>>)), cond)
  IN  Pop(SetAndMakeLast(MoveToLast(closed, cond), exit))

\* One case of VisitWhenExpression, a single expected value: the test goes
\* into the block the case before left current, the clause into a new one,
\* and the next case into the block a failed test jumps to.
Case(g, dest, s, i, else, exit) ==
  LET e == Reduce(Push(g, "branch"), s.cases[i].e)
      next == IF i = Len(s.cases) THEN else ELSE Len(e.g.code) + 1
      hit == IF i = Len(s.cases) THEN Len(e.g.code) + 1 ELSE Len(e.g.code) + 2
      blocks == IF i = Len(s.cases) THEN NewBlock(e.g) ELSE NewBlock(NewBlock(e.g))
      eq == NewNode(blocks, "eq", <<dest, e.v>>, <<>>)
      test == [Br(eq, <<Len(eq.val)>>, <<hit, next>>) EXCEPT !.b = hit]
      clause == Br(Body(test, s.cases[i].body), <<>>, <<exit>>)
  IN  PopBranch(SetAndMakeLast(clause, next))

VisitWhenExpression(g, s) ==
  LET d == Reduce(Push(g, "trunk"), s.e)
      else == Len(d.g.code) + 1
      exit == IF s.else = NoElse THEN else ELSE else + 1
      outs == IF s.else = NoElse THEN NewBlock(d.g) ELSE NewBlock(NewBlock(d.g))
      first == Len(outs.code) + 1
      head == [Br(NewBlock(outs), <<>>, <<first>>) EXCEPT !.b = first]
      cases == FoldLeft(LAMBDA h, i : Case(h, d.v, s, i, else, exit), head,
                        [i \in DOMAIN s.cases |-> i])
      all == IF s.else = NoElse THEN cases ELSE Branch(cases, else, s.else, exit)
  IN  Pop(MergeConflicts(SetAndMakeLast(all, exit)))

Visit(g, s) ==
  CASE s.k = "assign"  -> LET r == Reduce(g, s.e) IN Assign(r.g, s.x, r.v)
    [] s.k = "if"      -> VisitIfExpression(g, s)
    [] s.k = "loop"    -> VisitWhileLoop(g, s)
    [] s.k = "foreach" -> VisitForeachLoop(g, s)
    [] s.k = "when"    -> VisitWhenExpression(g, s)

\* VisitReturn: an operand for each of the variables xs.
VisitReturn(g, xs) ==
  NewNode(g, "ret", [i \in DOMAIN xs |-> FindSymbol(g, xs[i]).v], <<>>)

\* VisitBlock: the statements in order, in the scope of whoever asked.
Body(g, ss) == FoldLeft(LAMBDA h, s : Visit(h, s), g, ss)

-----------------------------------------------------------------------------
(* What a body does when it runs, twice: the statements of the source, and   *)
(* the blocks made of them, with the phi nodes lowered as                    *)
(* InstructionSelector::VisitBasicBlock lowers them: as moves in front of    *)
(* the last instruction of every block a path comes from.                    *)

Op(k, a, b) ==
  CASE k = "add" -> a + b
    [] k = "lt"  -> IF a < b THEN 1 ELSE 0
    [] k = "le"  -> IF a <= b THEN 1 ELSE 0
    [] k = "eq"  -> IF a = b THEN 1 ELSE 0

-----------------------------------------------------------------------------
(* The source.  env maps the variables to their values.                    *)

RECURSIVE Value(_, _)
Value(env, e) ==
  CASE e.k = "const" -> e.c
    [] e.k = "var"   -> env[e.x]
    [] OTHER         -> Op(e.k, Value(env, e.l), Value(env, e.r))

RECURSIVE Means(_, _)
Step(env, s) ==
  CASE s.k = "assign" -> [env EXCEPT ![s.x] = Value(env, s.e)]
    [] s.k = "if"     -> IF Value(env, s.c) = 1 THEN Means(env, s.then)
                         ELSE IF s.else = NoElse THEN env ELSE Means(env, s.else)
    [] s.k = "loop"   -> IF Value(env, s.c) = 1 THEN Means(env, s.body \o <<s>>) ELSE env
    [] s.k = "foreach" ->
         LET lo == Value(env, s.lo)
             hi == Value(env, s.hi)
             end == IF s.close THEN hi - 1 ELSE hi
         IN  FoldLeft(LAMBDA h, i : [Means([h EXCEPT ![s.x] = lo + i - 1], s.body)
                                       EXCEPT ![s.x] = lo + i],
                      env, [i \in 1..(end - lo + 1) |-> i])
    [] s.k = "when"   ->
         LET hits == {i \in DOMAIN s.cases : Value(env, s.cases[i].e) = Value(env, s.e)}
         IN  IF hits # {} THEN Means(env, s.cases[CHOOSE i \in hits : \A j \in hits : i <= j].body)
             ELSE IF s.else = NoElse THEN env ELSE Means(env, s.else)

Means(env, ss) == FoldLeft(LAMBDA h, s : Step(h, s), env, ss)

-----------------------------------------------------------------------------
(* The blocks.  reg maps every value to what its register or slot holds.   *)

\* A value used before anything was put into its place.
Unset == -99

Read(g, reg, v) == IF g.val[v].op = "const" THEN g.val[v].in[1] ELSE reg[v]

\* Mutant: the moves come in the opposite order.
PhiMoves_Reversed(g, reg, blk) ==
  FoldRight(LAMBDA u, r : [r EXCEPT ![u[1]] = Read(g, r, u[2])], g.users[blk], reg)

\* The loop over phi_node_users in VisitBasicBlock: moves one after the other.
PhiMoves(g, reg, blk) ==
  FoldLeft(LAMBDA r, u : [r EXCEPT ![u[1]] = Read(g, r, u[2])], reg, g.users[blk])

\* The instructions of a block up to its terminator; a phi does nothing.
Straight(g, reg, blk) ==
  FoldLeft(LAMBDA r, v :
             IF g.val[v].op \in {"phi", "br", "ret"} THEN r
             ELSE [r EXCEPT ![v] = Op(g.val[v].op, Read(g, r, g.val[v].in[1]),
                                                   Read(g, r, g.val[v].in[2]))],
           reg, g.code[blk])

\* Where the terminator goes: out[1] when its operand is true.
Target(g, reg, t) ==
  IF Len(t.out) = 1 THEN t.out[1]
  ELSE IF Read(g, reg, t.in[1]) = 1 THEN t.out[1] ELSE t.out[2]

\* Runs block blk and what follows it, at most `fuel` blocks: more than any
\* program needs.
Fuel == 300
RECURSIVE Runs(_, _, _, _)
Runs(g, reg, blk, fuel) ==
  LET done == PhiMoves(g, Straight(g, reg, blk), blk)
      ends == g.code[blk] = <<>> \/ g.val[Last(g.code[blk])].op # "br"
  IN  IF ends \/ fuel = 0 THEN done
      ELSE Runs(g, done, Target(g, done, g.val[Last(g.code[blk])]), fuel - 1)

\* The operands of the return instruction when the blocks of g have run.
Returns(g) ==
  LET reg == Runs(g, [v \in DOMAIN g.val |-> Unset], 1, Fuel)
      ret == CHOOSE v \in DOMAIN g.val : g.val[v].op = "ret"
  IN  [i \in DOMAIN g.val[ret].in |-> Read(g, reg, g.val[ret].in[i])]
=============================================================================
